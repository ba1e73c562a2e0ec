------------------------------ MODULE AuthProofs ------------------------------
(***************************************************************************)
(* Proofs about AuthRefresh, for any number of calls and authenticators,   *)
(* with any assignment of calls to them.                                   *)
(***************************************************************************)
EXTENDS AuthRefresh, TLAPS

(* A refused token is gone for good once another was issued in its place.  *)
Replaced ==
  \A x \in Authn, t \in Token :
    t # 0 /\ renewed[x][t] # 0 =>
      x \in made /\ credsId[x] # t /\ recent[x].tok # t /\ t <= issued

(* No token is known before it is issued.                                  *)
Issued ==
  /\ \A x \in Authn : credsId[x] <= issued /\ recent[x].tok <= issued
  /\ keyring.tok <= issued
  /\ \A r \in Request : seen[r] <= issued

(* Who refreshes does so for the token that is in use, or for none.        *)
HoldersCurrent ==
  \A r \in Request : pc[r] \in Holding /\ seen[r] # 0 => seen[r] = credsId[User[r]]

(* An authenticator exists once a call went through it.                    *)
MadeWhenUsed == \A r \in Request : pc[r] # "new" => User[r] \in made

(* The steps of a refresh belong to the kinds of authenticator; only pkce  *)
(* keeps recent credentials.                                               *)
KindsApart ==
  /\ auth_type # "pkce" => \A x \in Authn : recent[x].tok = 0
  /\ \A r \in Request : pc[r] \in {"granting", "polling"} => auth_type # "pkce"
  /\ \A r \in Request : pc[r] = "browser" => auth_type = "pkce"

RefreshInv ==
  Replaced /\ Issued /\ HoldersCurrent /\ MadeWhenUsed /\ KindsApart /\ OneRefreshPerExpiry

-----------------------------------------------------------------------------
(* TypeOK in the parts that actions change together.                       *)
AuthTyped ==
  /\ auth_type \in AuthType /\ backend \in BOOLEAN /\ made \subseteq Authn
  /\ creds \in [Authn -> Credentials] /\ credsId \in [Authn -> Token]
  /\ recent \in [Authn -> Credentials] /\ keyring \in Credentials
PcTyped   == pc \in [Request -> Holding \cup {"new", "sent", "locking", "retry", "resent", "ended"}]
LockTyped == lock \in [Authn -> Request \cup {NoRequest}]
ReqTyped  == seen \in [Request -> Token] /\ sent \in [Request -> SUBSET Token]
IdpTyped ==
  /\ polls \in [Authn -> 0..MaxPolls]
  /\ issued \in 1..MaxTokens /\ spent \subseteq Token
  /\ renewed \in [Authn -> [Token -> Nat]]
LockHeld == \A r \in Request : pc[r] \in Holding <=> lock[User[r]] = r
IdOfCreds == \A x \in Authn : creds[x].tok = credsId[x]

LEMMA TypeParts ==
  TypeOK <=> AuthTyped /\ PcTyped /\ LockTyped /\ ReqTyped /\ IdpTyped /\ LockHeld /\ IdOfCreds
BY DEF TypeOK, AuthTyped, PcTyped, LockTyped, ReqTyped, IdpTyped, LockHeld, IdOfCreds

LEMMA TypePartsNext ==
  TypeOK' <=> AuthTyped' /\ PcTyped' /\ LockTyped' /\ ReqTyped' /\ IdpTyped' /\ LockHeld' /\ IdOfCreds'
BY DEF TypeOK, AuthTyped, PcTyped, LockTyped, ReqTyped, IdpTyped, LockHeld, IdOfCreds

LEMMA Values ==
  /\ NoCreds \in Credentials /\ NoCreds.tok = 0 /\ NoCreds.rt = 0
  /\ 0 \in Token /\ Token \subseteq Nat
  /\ \A c \in Credentials : c.tok \in Token /\ c.rt \in Token
  /\ \A t, u \in Token : [tok |-> t, rt |-> u] \in Credentials
BY ConstantsAssumption DEF NoCreds, Credentials, Token

LEMMA InitTyped == Init => TypeOK
<1> SUFFICES ASSUME Init PROVE TypeOK
  OBVIOUS
<1>1. 1 \in Token
  BY ConstantsAssumption DEF Token
<1>2. keyring \in Credentials
  BY <1>1, Values DEF Init
<1>3. AuthTyped /\ IdOfCreds
  BY <1>2, Values DEF Init, AuthTyped, IdOfCreds
<1>4. PcTyped /\ LockTyped /\ ReqTyped
  BY Values DEF Init, PcTyped, LockTyped, ReqTyped
<1>5. IdpTyped
  BY Values, ConstantsAssumption DEF Init, IdpTyped
<1>6. LockHeld
  BY ConstantsAssumption DEF Init, LockHeld, Holding
<1> QED  BY <1>3, <1>4, <1>5, <1>6, TypeParts

LEMMA InitRefresh == Init => RefreshInv
<1> SUFFICES ASSUME Init PROVE RefreshInv
  OBVIOUS
<1>1. \A x \in Authn, t \in Token : renewed[x][t] = 0
  BY DEF Init
<1>2. Replaced /\ OneRefreshPerExpiry
  BY <1>1 DEF Replaced, OneRefreshPerExpiry
<1>3. Issued
  BY Values, ConstantsAssumption DEF Init, Issued
<1>4. HoldersCurrent /\ MadeWhenUsed
  BY DEF Init, HoldersCurrent, MadeWhenUsed, Holding
<1>5. KindsApart
  BY Values DEF Init, KindsApart
<1> QED  BY <1>2, <1>3, <1>4, <1>5 DEF RefreshInv

-----------------------------------------------------------------------------
(* Types, action by action.                                                *)

(* The steps of one request: where it goes, whether it holds the lock.     *)
LEMMA PcMoves ==
  ASSUME TypeOK, NEW r \in Request, NEW p, Step(r, p),
         p \in Holding \cup {"new", "sent", "locking", "retry", "resent", "ended"},
         \/ (p \in Holding <=> pc[r] \in Holding) /\ lock' = lock
         \/ p \in Holding /\ lock[User[r]] = NoRequest /\ lock' = [lock EXCEPT ![User[r]] = r]
         \/ p \notin Holding /\ pc[r] \in Holding /\ lock' = [lock EXCEPT ![User[r]] = NoRequest]
  PROVE  PcTyped' /\ LockTyped' /\ LockHeld'
<1> USE TypeParts, ConstantsAssumption
<1>1. PcTyped'
  BY DEF PcTyped, Step
<1>2. LockTyped'
  BY DEF LockTyped
<1>3. \A q \in Request : pc'[q] = IF q = r THEN p ELSE pc[q]
  BY DEF PcTyped, Step
<1>4. \A q \in Request : User[q] \in Authn /\ q # NoRequest
  OBVIOUS
<1>5. LockHeld'
  <2>1. CASE (p \in Holding <=> pc[r] \in Holding) /\ lock' = lock
    BY <2>1, <1>3 DEF LockHeld
  <2>2. CASE p \in Holding /\ lock[User[r]] = NoRequest /\ lock' = [lock EXCEPT ![User[r]] = r]
    BY <2>2, <1>3, <1>4 DEF LockHeld, LockTyped
  <2>3. CASE p \notin Holding /\ pc[r] \in Holding /\ lock' = [lock EXCEPT ![User[r]] = NoRequest]
    BY <2>3, <1>3, <1>4 DEF LockHeld, LockTyped
  <2> QED  BY <2>1, <2>2, <2>3
<1> QED  BY <1>1, <1>2, <1>5

LEMMA EndTyped ==
  ASSUME TypeOK, NEW r \in Request, End(r)
  PROVE  ReqTyped' /\ \A q \in Request : seen'[q] = IF q = r THEN 0 ELSE seen[q]
BY TypeParts, Values DEF End, ReqTyped

LEMMA FailTyped ==
  ASSUME TypeOK, NEW r \in Request, pc[r] \in Holding, Fail(r), UNCHANGED <<issued, spent, renewed>>
  PROVE  TypeOK'
<1> USE TypeParts, ConstantsAssumption
<1>1. AuthTyped' /\ IdOfCreds'
  BY Values DEF Fail, AuthTyped, IdOfCreds
<1>2. PcTyped' /\ LockTyped' /\ LockHeld'
  BY PcMoves DEF Fail, End, Holding
<1>3. ReqTyped'
  BY EndTyped DEF Fail
<1>4. IdpTyped'
  BY DEF Fail, IdpTyped
<1> QED  BY <1>1, <1>2, <1>3, <1>4, TypePartsNext

LEMMA SucceedTyped ==
  ASSUME TypeOK, NEW r \in Request, pc[r] \in Holding, NEW c \in Credentials, Succeed(r, c),
         recent' \in [Authn -> Credentials], issued' \in 1..MaxTokens, spent' \subseteq Token,
         renewed' \in [Authn -> [Token -> Nat]]
  PROVE  TypeOK'
<1> USE TypeParts, ConstantsAssumption
<1>1. keyring' \in Credentials
  BY Values DEF Succeed, Store, AuthTyped
<1>2. AuthTyped' /\ IdOfCreds'
  BY <1>1, Values DEF Succeed, AuthTyped, IdOfCreds
<1>3. PcTyped' /\ LockTyped' /\ LockHeld'
  BY PcMoves DEF Succeed, Holding
<1>4. ReqTyped'
  BY DEF Succeed, ReqTyped, reqVars
<1>5. IdpTyped'
  BY DEF Succeed, IdpTyped
<1> QED  BY <1>2, <1>3, <1>4, <1>5, TypePartsNext

LEMMA IssueTyped ==
  ASSUME TypeOK, NEW r \in Request, Issue(r), NEW c \in Fresh
  PROVE  /\ c \in Credentials /\ c.tok = issued + 1
         /\ issued' = issued + 1 /\ issued' \in 1..MaxTokens
         /\ renewed' \in [Authn -> [Token -> Nat]]
         /\ \A x \in Authn, t \in Token :
              renewed'[x][t] = IF x = User[r] /\ t = seen[r] THEN renewed[x][t] + 1 ELSE renewed[x][t]
<1>1. issued < MaxTokens /\ issued' = issued + 1 /\ issued \in 1..MaxTokens
      /\ User[r] \in Authn /\ seen[r] \in Token /\ renewed \in [Authn -> [Token -> Nat]]
  BY ConstantsAssumption, TypeParts DEF IdpTyped, ReqTyped, Issue
<1>2. renewed' = [renewed EXCEPT ![User[r]] = [renewed[User[r]] EXCEPT ![seen[r]] = @ + 1]]
  BY DEF Issue
<1>3. [renewed[User[r]] EXCEPT ![seen[r]] = @ + 1] \in [Token -> Nat]
  BY <1>1
<1>4. /\ renewed' \in [Authn -> [Token -> Nat]]
      /\ \A x \in Authn, t \in Token :
           renewed'[x][t] = IF x = User[r] /\ t = seen[r] THEN renewed[x][t] + 1 ELSE renewed[x][t]
  BY <1>1, <1>2, <1>3
<1>5. issued + 1 \in Token /\ issued' \in 1..MaxTokens
  BY <1>1, ConstantsAssumption DEF Token
<1>6. c \in Credentials /\ c.tok = issued + 1
  <2>1. PICK t \in {0, issued + 1} : c = [tok |-> issued + 1, rt |-> t]
    BY DEF Fresh
  <2>2. t \in Token
    BY <1>5, Values
  <2> QED  BY <2>1, <2>2, <1>5, Values
<1> QED  BY <1>1, <1>4, <1>5, <1>6

LEMMA UseTyped ==
  ASSUME TypeOK, NEW x \in Authn, Use(x)
  PROVE  /\ AuthTyped' /\ IdOfCreds' /\ CredsOf(x).tok \in Token
         /\ \A y \in Authn : credsId'[y] = IF y = x THEN CredsOf(x).tok ELSE credsId[y]
<1> USE TypeParts
<1>1. CredsOf(x) \in Credentials /\ CredsOf(x).tok \in Token
  BY Values DEF AuthTyped, CredsOf
<1> QED  BY <1>1 DEF Use, AuthTyped, IdOfCreds

LEMMA SendTyped ==
  ASSUME TypeOK, NEW r \in Request, Send(r) \/ SendUnauthorized(r)
  PROVE  TypeOK'
<1> USE TypeParts, ConstantsAssumption
<1>0. Use(User[r]) /\ User[r] \in Authn
  BY DEF Send, SendUnauthorized
<1>1. AuthTyped' /\ IdOfCreds' /\ CredsOf(User[r]).tok \in Token
  BY <1>0, UseTyped
<1>2. PcTyped' /\ LockTyped' /\ LockHeld'
  BY PcMoves DEF Send, SendUnauthorized, Holding
<1>3. ReqTyped'
  BY <1>1 DEF Send, SendUnauthorized, Attempt, ReqTyped, reqVars
<1>4. IdpTyped'
  BY DEF Send, SendUnauthorized, IdpTyped, idpVars
<1> QED  BY <1>1, <1>2, <1>3, <1>4, TypePartsNext

LEMMA CallTyped ==
  ASSUME TypeOK, NEW r \in Request, Answered(r) \/ Resend(r) \/ Final(r) \/ Lock(r) \/ Cancel(r)
  PROVE  TypeOK'
<1> USE TypeParts, ConstantsAssumption
<1>1. AuthTyped' /\ IdOfCreds'
  BY DEF Answered, Resend, Final, Lock, Cancel, authVars, AuthTyped, IdOfCreds
<1>2. PcTyped' /\ LockTyped' /\ LockHeld'
  <2>1. CASE Answered(r)
    BY <2>1, PcMoves DEF Answered, End, Holding
  <2>2. CASE Resend(r)
    BY <2>2, PcMoves DEF Resend, RetryOnce, Holding
  <2>3. CASE Final(r)
    BY <2>3, PcMoves DEF Final, End, Holding
  <2>4. CASE Lock(r)
    BY <2>4, PcMoves DEF Lock, First, Holding
  <2>5. CASE Cancel(r)
    BY <2>5, PcMoves DEF Cancel, End, LockLeft, Holding
  <2> QED  BY <2>1, <2>2, <2>3, <2>4, <2>5
<1>3. ReqTyped'
  <2>1. creds[User[r]].tok \in Token /\ seen[r] \in Token
    BY Values DEF AuthTyped, ReqTyped
  <2>2. CASE UNCHANGED reqVars
    BY <2>2 DEF ReqTyped, reqVars
  <2>3. CASE End(r)
    BY <2>3, EndTyped
  <2>4. CASE Resend(r)
    BY <2>1, <2>4 DEF Resend, Attempt, RetryTokens, AddedToOld, AddedToPlain, ReqTyped
  <2> QED  BY <2>2, <2>3, <2>4 DEF Answered, Final, Lock, Cancel
<1>4. IdpTyped'
  <2>1. creds[User[r]].rt \in Token
    BY Values DEF AuthTyped
  <2>2. UNCHANGED <<issued, renewed>>
    BY DEF Answered, Resend, Final, Lock, Cancel, idpVars
  <2>3. spent' \subseteq Token
    BY <2>1 DEF Answered, Resend, Final, Lock, Cancel, idpVars, IdpTyped
  <2>4. polls' = polls \/ polls' = [polls EXCEPT ![User[r]] = 0]
    BY DEF Answered, Resend, Final, Lock, Cancel
  <2> QED  BY <2>2, <2>3, <2>4 DEF IdpTyped
<1> QED  BY <1>1, <1>2, <1>3, <1>4, TypePartsNext

LEMMA MinuteTyped ==
  ASSUME TypeOK, NEW x \in Authn, MinuteOver(x)
  PROVE  TypeOK'
BY TypeParts, TypePartsNext, Values
   DEF MinuteOver, AuthTyped, PcTyped, LockTyped, ReqTyped, IdpTyped, LockHeld, IdOfCreds, reqVars, idpVars

-----------------------------------------------------------------------------
(* The refresh, action by action.                                          *)

(* No token is issued and no authenticator that exists changes its own.    *)
LEMMA QuietKeeps ==
  ASSUME TypeOK, TypeOK', RefreshInv, UNCHANGED <<auth_type, issued, renewed>>,
         made \subseteq made',
         \A x \in Authn : (x \in made => credsId'[x] = credsId[x]) /\ credsId'[x] <= issued,
         \A x \in Authn : recent'[x] = recent[x] \/ recent'[x] = NoCreds,
         keyring'.tok <= issued,
         \A r \in Request : seen'[r] <= issued,
         \A r \in Request : pc'[r] \in Holding /\ seen'[r] # 0 => seen'[r] = credsId'[User[r]],
         \A r \in Request : pc'[r] # "new" => User[r] \in made',
         \A r \in Request : pc'[r] \in {"granting", "polling"} => auth_type # "pkce",
         \A r \in Request : pc'[r] = "browser" => auth_type = "pkce"
  PROVE  RefreshInv'
<1> USE DEF RefreshInv
<1>0. issued \in Nat
  BY TypeParts, ConstantsAssumption DEF IdpTyped
<1>1. Replaced'
  BY Values DEF Replaced
<1>2. Issued'
  BY <1>0, Values DEF Issued
<1>3. HoldersCurrent' /\ MadeWhenUsed'
  BY DEF HoldersCurrent, MadeWhenUsed
<1>4. KindsApart'
  <2>1. auth_type' # "pkce" => \A x \in Authn : recent'[x].tok = 0
    BY Values DEF KindsApart
  <2>2. auth_type' = auth_type
    OBVIOUS
  <2> QED  BY <2>1, <2>2 DEF KindsApart
<1>5. OneRefreshPerExpiry'
  BY DEF OneRefreshPerExpiry
<1> QED  BY <1>1, <1>2, <1>3, <1>4, <1>5

(* One request moves, and the authenticators stay as they are.             *)
LEMMA RequestMoves ==
  ASSUME TypeOK, TypeOK', RefreshInv, NEW r \in Request, NEW p, Step(r, p), pc[r] # "new",
         UNCHANGED <<auth_type, issued, renewed, made, credsId, recent>>,
         keyring' = keyring \/ keyring' = NoCreds,
         \A q \in Request : q # r => seen'[q] = seen[q],
         \/ seen'[r] = seen[r]
         \/ seen'[r] = 0
         \/ seen'[r] = credsId[User[r]] /\ p \notin Holding,
         p \in Holding => pc[r] \in Holding \/ seen'[r] = 0 \/ seen'[r] = credsId[User[r]],
         p \in {"granting", "polling"} => auth_type # "pkce",
         p = "browser" => auth_type = "pkce"
  PROVE  RefreshInv'
<1> USE ConstantsAssumption DEF RefreshInv
<1>0. issued \in Nat /\ \A q \in Request : pc'[q] = IF q = r THEN p ELSE pc[q]
  BY TypeParts DEF IdpTyped, PcTyped, Step
<1>1. \A x \in Authn : credsId[x] <= issued
  BY DEF Issued
<1>2. keyring'.tok <= issued
  BY <1>0, Values DEF Issued
<1>3. \A q \in Request : seen'[q] <= issued
  BY <1>0, <1>1 DEF Issued
<1>4. \A q \in Request : pc'[q] \in Holding /\ seen'[q] # 0 => seen'[q] = credsId'[User[q]]
  BY <1>0 DEF HoldersCurrent
<1>5. \A q \in Request : pc'[q] # "new" => User[q] \in made'
  BY <1>0 DEF MadeWhenUsed
<1>6. \A q \in Request : pc'[q] \in {"granting", "polling"} => auth_type # "pkce"
  BY <1>0 DEF KindsApart
<1>7. \A q \in Request : pc'[q] = "browser" => auth_type = "pkce"
  BY <1>0 DEF KindsApart
<1> QED  BY <1>1, <1>2, <1>3, <1>4, <1>5, <1>6, <1>7, QuietKeeps

LEMMA FailKeeps ==
  ASSUME TypeOK, RefreshInv, NEW r \in Request, pc[r] \in Holding, Fail(r),
         UNCHANGED <<issued, spent, renewed>>
  PROVE  TypeOK' /\ RefreshInv'
<1>1. TypeOK'
  BY FailTyped
<1>2. \A q \in Request : seen'[q] = IF q = r THEN 0 ELSE seen[q]
  BY EndTyped DEF Fail
<1> QED  BY <1>1, <1>2, RequestMoves DEF Fail, End, Holding

(* A new token for the one the request was refused with.                   *)
LEMMA RenewKeeps ==
  ASSUME TypeOK, RefreshInv, NEW r \in Request, pc[r] \in Holding, Issue(r),
         NEW c \in Fresh, Succeed(r, c), spent' \subseteq Token,
         \/ auth_type # "pkce" /\ recent' = recent
         \/ auth_type = "pkce" /\ recent' = [recent EXCEPT ![User[r]] = c]
  PROVE  TypeOK' /\ RefreshInv'
<1> DEFINE x == User[r]
<1> USE ConstantsAssumption
<1>1. /\ c \in Credentials /\ c.tok = issued + 1
      /\ issued' = issued + 1 /\ issued' \in 1..MaxTokens /\ issued \in Nat
      /\ renewed' \in [Authn -> [Token -> Nat]]
      /\ \A y \in Authn, t \in Token :
           renewed'[y][t] = IF y = x /\ t = seen[r] THEN renewed[y][t] + 1 ELSE renewed[y][t]
  BY IssueTyped, TypeParts DEF IdpTyped
<1>2. recent' \in [Authn -> Credentials] /\ x \in Authn
  BY <1>1, TypeParts DEF AuthTyped
<1>3. TypeOK'
  BY <1>1, <1>2, SucceedTyped
<1>4. /\ UNCHANGED <<auth_type, made, seen>>
      /\ \A y \in Authn : credsId'[y] = IF y = x THEN issued + 1 ELSE credsId[y]
      /\ \A q \in Request : pc'[q] = IF q = r THEN "retry" ELSE pc[q]
      /\ keyring'.tok <= issued + 1
  <2>1. UNCHANGED <<auth_type, made, seen>>
    BY DEF Succeed, reqVars
  <2>2. \A y \in Authn : credsId'[y] = IF y = x THEN issued + 1 ELSE credsId[y]
    BY <1>1, <1>2, TypeParts DEF Succeed, AuthTyped
  <2>3. \A q \in Request : pc'[q] = IF q = r THEN "retry" ELSE pc[q]
    BY TypeParts DEF Succeed, Step, PcTyped
  <2>4. keyring'.tok <= issued + 1
    BY <1>1, Values DEF Succeed, Store
  <2> QED  BY <2>1, <2>2, <2>3, <2>4
<1>5. \A y \in Authn : recent'[y].tok <= issued + 1 /\ (recent'[y].tok = recent[y].tok \/ recent'[y].tok = issued + 1)
  <2>1. \A y \in Authn : recent[y].tok \in Nat /\ recent[y].tok <= issued
    BY TypeParts, Values DEF RefreshInv, Issued, AuthTyped
  <2>2. \A y \in Authn : recent'[y] = recent[y] \/ recent'[y] = c
    BY TypeParts DEF AuthTyped
  <2>3. c.tok = issued + 1 /\ issued \in Nat
    BY <1>1
  <2> SUFFICES ASSUME NEW y \in Authn
               PROVE  recent'[y].tok <= issued + 1 /\ (recent'[y].tok = recent[y].tok \/ recent'[y].tok = issued + 1)
    OBVIOUS
  <2>4. CASE recent'[y] = recent[y]
    BY <2>1, <2>3, <2>4
  <2>5. CASE recent'[y] = c
    BY <2>3, <2>5
  <2> QED  BY <2>2, <2>4, <2>5
<1>6. seen[r] # 0 => seen[r] = credsId[x]
  BY DEF RefreshInv, HoldersCurrent
<1>7. seen[r] # 0 => renewed[x][seen[r]] = 0
  BY <1>6, <1>2, TypeParts DEF RefreshInv, Replaced, ReqTyped
<1>8. x \in made /\ seen[r] <= issued /\ seen[r] \in Token
  BY TypeParts DEF RefreshInv, MadeWhenUsed, Issued, ReqTyped, Holding
<1>9. seen[r] # 0 => recent'[x].tok # seen[r]
  BY <1>1, <1>2, <1>8, TypeParts, Values DEF RefreshInv, KindsApart, AuthTyped
<1>10. OneRefreshPerExpiry'
  BY <1>1, <1>7 DEF RefreshInv, OneRefreshPerExpiry
<1>11. Replaced'
  <2> SUFFICES ASSUME NEW y \in Authn, NEW t \in Token, t # 0, renewed'[y][t] # 0
               PROVE  y \in made /\ credsId'[y] # t /\ recent'[y].tok # t /\ t <= issued + 1
    BY <1>1, <1>4 DEF Replaced
  <2>1. t \in Nat
    BY Values
  <2>2. CASE y = x /\ t = seen[r]
    BY <2>1, <2>2, <1>1, <1>4, <1>8, <1>9
  <2>3. CASE ~(y = x /\ t = seen[r])
    <3>1. y \in made /\ credsId[y] # t /\ recent[y].tok # t /\ t <= issued
      BY <2>3, <1>1 DEF RefreshInv, Replaced
    <3> QED  BY <3>1, <2>1, <1>1, <1>4, <1>5
  <2> QED  BY <2>2, <2>3
<1>12. Issued'
  <2>1. \A y \in Authn : credsId[y] \in Nat /\ credsId[y] <= issued
    BY TypeParts, Values DEF AuthTyped, RefreshInv, Issued
  <2>2. \A q \in Request : seen[q] \in Nat /\ seen[q] <= issued
    BY TypeParts, Values DEF ReqTyped, RefreshInv, Issued
  <2> QED  BY <2>1, <2>2, <1>1, <1>4, <1>5 DEF Issued
<1>13. HoldersCurrent'
  <2> SUFFICES ASSUME NEW q \in Request, pc'[q] \in Holding, seen'[q] # 0
               PROVE  seen'[q] = credsId'[User[q]]
    BY DEF HoldersCurrent
  <2>1. q # r /\ pc[q] \in Holding
    BY <1>4 DEF Holding
  <2>2. User[q] # x
    BY <2>1, TypeParts DEF LockHeld
  <2> QED  BY <2>1, <2>2, <1>4 DEF RefreshInv, HoldersCurrent
<1>14. MadeWhenUsed'
  BY <1>4, <1>8 DEF RefreshInv, MadeWhenUsed
<1>15. KindsApart'
  BY <1>4 DEF RefreshInv, KindsApart
<1> QED  BY <1>3, <1>10, <1>11, <1>12, <1>13, <1>14, <1>15 DEF RefreshInv

(* Credentials that pkce got less than a minute ago, once more.            *)
LEMMA ReuseKeeps ==
  ASSUME TypeOK, RefreshInv, NEW r \in Request, pc[r] \in Holding,
         Succeed(r, recent[User[r]]), UNCHANGED <<recent, issued, spent, renewed>>
  PROVE  TypeOK' /\ RefreshInv'
<1> DEFINE x == User[r]
<1> USE ConstantsAssumption
<1>1. recent[x] \in Credentials /\ x \in Authn
  BY TypeParts DEF AuthTyped
<1>2. TypeOK'
  BY <1>1, SucceedTyped, TypeParts DEF AuthTyped, IdpTyped
<1>3. UNCHANGED <<auth_type, made, seen>>
  BY DEF Succeed, reqVars
<1>4. \A y \in Authn : credsId'[y] = IF y = x THEN recent[x].tok ELSE credsId[y]
  BY <1>1, TypeParts DEF Succeed, AuthTyped
<1>5. \A q \in Request : pc'[q] = IF q = r THEN "retry" ELSE pc[q]
  BY TypeParts DEF Succeed, Step, PcTyped
<1>6. recent[x].tok <= issued
  BY <1>1 DEF RefreshInv, Issued
<1>7. keyring'.tok <= issued
  BY <1>1, <1>6, TypeParts, Values DEF Succeed, Store, IdpTyped
<1>8. Replaced'
  BY <1>1, <1>3, <1>4 DEF RefreshInv, Replaced
<1>9. Issued'
  BY <1>3, <1>4, <1>6, <1>7 DEF RefreshInv, Issued
<1>10. HoldersCurrent'
  <2> SUFFICES ASSUME NEW q \in Request, pc'[q] \in Holding, seen'[q] # 0
               PROVE  seen'[q] = credsId'[User[q]]
    BY DEF HoldersCurrent
  <2>1. q # r /\ pc[q] \in Holding
    BY <1>5 DEF Holding
  <2>2. User[q] # x
    BY <2>1, TypeParts DEF LockHeld
  <2> QED  BY <2>1, <2>2, <1>3, <1>4 DEF RefreshInv, HoldersCurrent
<1>11. MadeWhenUsed'
  <2>1. x \in made
    BY DEF RefreshInv, MadeWhenUsed, Holding
  <2> QED  BY <2>1, <1>3, <1>5 DEF RefreshInv, MadeWhenUsed
<1>12. KindsApart'
  BY <1>3, <1>5 DEF RefreshInv, KindsApart
<1>13. OneRefreshPerExpiry'
  BY DEF RefreshInv, OneRefreshPerExpiry
<1> QED  BY <1>2, <1>8, <1>9, <1>10, <1>11, <1>12, <1>13 DEF RefreshInv

LEMMA SendKeeps ==
  ASSUME TypeOK, RefreshInv, NEW r \in Request, Send(r) \/ SendUnauthorized(r)
  PROVE  TypeOK' /\ RefreshInv'
<1> DEFINE x == User[r]
<1> USE ConstantsAssumption
<1>1. TypeOK'
  BY SendTyped
<1>2. Use(x) /\ x \in Authn /\ UNCHANGED <<auth_type, issued, renewed, recent, keyring>>
  BY DEF Send, SendUnauthorized, Use, idpVars
<1>3. made' = made \cup {x} /\ issued \in Nat
  BY <1>2, TypeParts DEF Use, IdpTyped
<1>4. CredsOf(x).tok <= issued /\ (x \in made => CredsOf(x).tok = credsId[x])
  <2>1. x \in made => CredsOf(x).tok = credsId[x]
    BY TypeParts, <1>2 DEF CredsOf, IdOfCreds
  <2>2. x \notin made => CredsOf(x).tok = keyring.tok
    BY DEF CredsOf
  <2> QED  BY <2>1, <2>2, <1>2 DEF RefreshInv, Issued
<1>5. \A y \in Authn : credsId'[y] = IF y = x THEN CredsOf(x).tok ELSE credsId[y]
  BY <1>2, UseTyped
<1>6. \A y \in Authn : (y \in made => credsId'[y] = credsId[y]) /\ credsId'[y] <= issued
  BY <1>4, <1>5 DEF RefreshInv, Issued
<1>7. \A q \in Request : q # r => seen'[q] = seen[q] /\ pc'[q] = pc[q]
  BY TypeParts DEF Send, SendUnauthorized, Step, reqVars, ReqTyped, PcTyped
<1>8. pc'[r] \in {"sent", "locking"} /\ (seen'[r] = CredsOf(x).tok \/ seen'[r] = seen[r])
  BY TypeParts DEF Send, SendUnauthorized, Step, reqVars, ReqTyped, PcTyped
<1>9. \A q \in Request : seen'[q] <= issued
  BY <1>4, <1>7, <1>8 DEF RefreshInv, Issued
<1>10. \A q \in Request : pc'[q] \in Holding /\ seen'[q] # 0 => seen'[q] = credsId'[User[q]]
  <2> SUFFICES ASSUME NEW q \in Request, pc'[q] \in Holding, seen'[q] # 0
               PROVE  seen'[q] = credsId'[User[q]]
    OBVIOUS
  <2>1. q # r
    BY <1>8 DEF Holding
  <2>2. pc[q] \in Holding /\ seen'[q] = seen[q]
    BY <2>1, <1>7
  <2>3. User[q] \in made
    BY <2>2 DEF RefreshInv, MadeWhenUsed, Holding
  <2> QED  BY <2>2, <2>3, <1>6 DEF RefreshInv, HoldersCurrent
<1>11. \A q \in Request : pc'[q] # "new" => User[q] \in made'
  BY <1>3, <1>7 DEF RefreshInv, MadeWhenUsed
<1>12. \A q \in Request : pc'[q] \in {"granting", "polling"} => auth_type # "pkce"
  BY <1>7, <1>8 DEF RefreshInv, KindsApart
<1>14. \A q \in Request : pc'[q] = "browser" => auth_type = "pkce"
  BY <1>7, <1>8 DEF RefreshInv, KindsApart
<1>13. keyring'.tok <= issued
  BY <1>2 DEF RefreshInv, Issued
<1> QED  BY <1>1, <1>2, <1>3, <1>6, <1>9, <1>10, <1>11, <1>12, <1>13, <1>14, QuietKeeps

LEMMA CallKeeps ==
  ASSUME TypeOK, RefreshInv, NEW r \in Request,
         Answered(r) \/ Resend(r) \/ Final(r) \/ Lock(r) \/ Cancel(r)
  PROVE  TypeOK' /\ RefreshInv'
<1> USE ConstantsAssumption
<1>1. TypeOK'
  BY CallTyped
<1>2. UNCHANGED <<auth_type, issued, renewed, made, credsId, recent, keyring>>
  BY DEF Answered, Resend, Final, Lock, Cancel, authVars, idpVars
<1>3. \A q \in Request : seen'[q] = seen[q] \/ (q = r /\ (seen'[q] = 0 \/ ~Lock(r)))
  BY TypeParts DEF Answered, Resend, Final, Lock, Cancel, End, reqVars, ReqTyped
<1>4. CASE Answered(r) \/ Final(r) \/ Cancel(r)
  <2>1. \E p \in {"ended", "retry", "locking"} : Step(r, p)
    BY <1>4 DEF Answered, Final, Cancel, End
  <2>2. \A q \in Request : seen'[q] = seen[q] \/ (q = r /\ seen'[q] = 0)
    BY <1>4, TypeParts DEF Answered, Final, Cancel, End, reqVars, ReqTyped
  <2>3. pc[r] # "new"
    BY <1>4 DEF Answered, Final, Cancel, Holding
  <2> QED  BY <1>1, <1>2, <2>1, <2>2, <2>3, RequestMoves DEF Holding
<1>5. CASE Resend(r)
  <2>1. \E p \in {"sent", "resent"} : Step(r, p)
    BY <1>5 DEF Resend, RetryOnce
  <2>2. creds[User[r]].tok = credsId[User[r]]
    BY TypeParts DEF IdOfCreds
  <2>3. \A q \in Request : seen'[q] = seen[q] \/ (q = r /\ seen'[q] = credsId[User[r]])
    BY <1>5, <2>2, TypeParts DEF Resend, ReqTyped
  <2>4. pc[r] # "new"
    BY <1>5 DEF Resend
  <2> QED  BY <1>1, <1>2, <2>1, <2>3, <2>4, RequestMoves DEF Holding
<1>6. CASE Lock(r)
  <2>1. CASE Recheck(User[r], seen[r])
    <3>1. Step(r, "retry") /\ seen' = seen /\ pc[r] # "new"
      BY <1>6, <2>1 DEF Lock, reqVars
    <3> QED  BY <1>1, <1>2, <3>1, RequestMoves DEF Holding
  <2>2. CASE ~Recheck(User[r], seen[r])
    <3>1. Step(r, First(User[r])) /\ seen' = seen /\ pc[r] # "new"
      BY <1>6, <2>2 DEF Lock, reqVars
    <3>2. seen[r] = 0 \/ seen[r] = credsId[User[r]]
      BY <2>2 DEF Recheck, Refreshed
    <3>3. /\ First(User[r]) \in {"granting", "polling"} => auth_type # "pkce"
          /\ First(User[r]) # "browser"
      BY DEF First
    <3> QED  BY <1>1, <1>2, <3>1, <3>2, <3>3, RequestMoves
  <2> QED  BY <2>1, <2>2
<1> QED  BY <1>4, <1>5, <1>6

(* The steps of a refresh that leave the authenticator as it is.           *)
LEMMA HolderMoves ==
  ASSUME TypeOK, RefreshInv, NEW r \in Request, pc[r] \in Holding,
         NEW p \in Holding, Step(r, p), p = "polling" => auth_type # "pkce", p # "granting",
         p = "browser" => auth_type = "pkce",
         UNCHANGED <<authVars, lock, reqVars, idpVars, renewed>>,
         polls' \in [Authn -> 0..MaxPolls]
  PROVE  TypeOK' /\ RefreshInv'
<1> USE ConstantsAssumption
<1>1. AuthTyped' /\ IdOfCreds' /\ ReqTyped' /\ IdpTyped'
  BY TypeParts DEF AuthTyped, IdOfCreds, ReqTyped, IdpTyped, authVars, reqVars, idpVars
<1>2. PcTyped' /\ LockTyped' /\ LockHeld'
  BY PcMoves
<1>3. TypeOK'
  BY <1>1, <1>2, TypePartsNext
<1>4. pc[r] # "new" /\ UNCHANGED <<auth_type, issued, renewed, made, credsId, recent, keyring, seen>>
  BY DEF Holding, authVars, idpVars, reqVars
<1> QED  BY <1>3, <1>4, RequestMoves

LEMMA GrantedKeeps ==
  ASSUME TypeOK, RefreshInv, NEW r \in Request, Granted(r)
  PROVE  TypeOK' /\ RefreshInv'
<1> USE ConstantsAssumption
<1>1. pc[r] \in Holding /\ auth_type # "pkce"
  BY DEF Granted, Holding, RefreshInv, KindsApart
<1>2. CASE Issue(r) /\ \E c \in Fresh : Succeed(r, c) /\ recent' = recent /\ spent' = spent \cup {creds[User[r]].rt}
  <2>1. spent' \subseteq Token
    BY <1>2, TypeParts, Values DEF AuthTyped, IdpTyped
  <2> QED  BY <1>1, <1>2, <2>1, RenewKeeps
<1>3. CASE Step(r, "login") /\ UNCHANGED <<authVars, lock, reqVars, polls, idpVars, renewed>>
  BY <1>1, <1>3, HolderMoves, TypeParts DEF Holding, IdpTyped
<1>4. CASE Fail(r) /\ UNCHANGED <<idpVars, renewed>>
  BY <1>1, <1>4, FailKeeps DEF idpVars
<1> QED  BY <1>2, <1>3, <1>4 DEF Granted

LEMMA LoginKeeps ==
  ASSUME TypeOK, RefreshInv, NEW r \in Request,
         \/ RefreshRaises(r) \/ SecretLogin(r) \/ DeviceCode(r) \/ DevicePoll(r)
         \/ DeviceExpired(r) \/ PkceLogin(r) \/ PkceCallback(r) \/ PkceStray(r)
  PROVE  TypeOK' /\ RefreshInv'
<1> USE ConstantsAssumption
<1>1. pc[r] \in Holding /\ User[r] \in Authn
  BY DEF RefreshRaises, SecretLogin, DeviceCode, DevicePoll, DeviceExpired, PkceLogin, PkceCallback,
     PkceStray, Holding
<1>2. spent \subseteq Token /\ polls \in [Authn -> 0..MaxPolls]
  BY TypeParts DEF IdpTyped
<1>3. CASE Fail(r) /\ UNCHANGED <<issued, spent, renewed>>
  BY <1>1, <1>3, FailKeeps
<1>4. CASE /\ Issue(r) /\ spent' = spent
           /\ \E c \in Fresh : /\ Succeed(r, c)
                               /\ \/ auth_type # "pkce" /\ recent' = recent
                                  \/ auth_type = "pkce" /\ recent' = [recent EXCEPT ![User[r]] = c]
  BY <1>1, <1>2, <1>4, RenewKeeps
<1>5. CASE RefreshRaises(r) \/ DeviceExpired(r)
  BY <1>3, <1>5 DEF RefreshRaises, DeviceExpired, idpVars
<1>6. CASE SecretLogin(r)
  BY <1>3, <1>4, <1>6 DEF SecretLogin
<1>7. CASE DeviceCode(r)
  <2>1. CASE Fail(r)
    BY <1>3, <1>7, <2>1 DEF DeviceCode, idpVars
  <2>2. CASE Step(r, "polling") /\ UNCHANGED <<authVars, lock, reqVars, polls>>
    BY <1>1, <1>2, <1>7, <2>2, HolderMoves DEF DeviceCode, Holding
  <2> QED  BY <1>7, <2>1, <2>2 DEF DeviceCode
<1>8. CASE DevicePoll(r)
  <2>1. pc[r] = "polling" /\ auth_type # "pkce" /\ spent' = spent
    BY <1>8 DEF DevicePoll, RefreshInv, KindsApart
  <2>2. CASE Issue(r) /\ recent' = recent /\ \E c \in Fresh : Succeed(r, c)
    BY <1>4, <2>1, <2>2
  <2>3. CASE polls' = [polls EXCEPT ![User[r]] = @ + 1] /\ UNCHANGED <<authVars, lock, pc, reqVars, issued, renewed>>
    <3>1. polls[User[r]] \in Nat /\ polls[User[r]] < MaxPolls
      BY <1>1, <1>2, <1>8 DEF DevicePoll, PollsLeft
    <3>2. polls' \in [Authn -> 0..MaxPolls]
      BY <1>2, <2>3, <3>1
    <3>3. Step(r, "polling")
      BY <2>1, <2>3, TypeParts DEF PcTyped, Step
    <3> QED  BY <1>1, <2>1, <2>3, <3>2, <3>3, HolderMoves DEF Holding, idpVars
  <2>4. CASE Fail(r) /\ UNCHANGED <<issued, renewed>>
    BY <1>3, <2>1, <2>4
  <2> QED  BY <1>8, <2>2, <2>3, <2>4 DEF DevicePoll
<1>9. CASE PkceLogin(r)
  <2>1. CASE Succeed(r, recent[User[r]]) /\ UNCHANGED recent
    BY <1>1, <1>9, <2>1, ReuseKeeps DEF PkceLogin, idpVars
  <2>2. CASE Step(r, "browser") /\ UNCHANGED <<authVars, lock, reqVars, polls>>
    BY <1>1, <1>2, <1>9, <2>2, HolderMoves DEF PkceLogin, Holding
  <2> QED  BY <1>9, <2>1, <2>2 DEF PkceLogin
<1>10. CASE PkceCallback(r)
  <2>1. spent' = spent /\ pc[r] = "browser"
    BY <1>10 DEF PkceCallback
  <2>2. auth_type = "pkce"
    BY <2>1 DEF RefreshInv, KindsApart
  <2> QED  BY <1>3, <1>4, <1>10, <2>1, <2>2 DEF PkceCallback
<1>11. CASE PkceStray(r)
  BY <1>1, <1>2, <1>11, HolderMoves DEF PkceStray, Holding
<1> QED  BY <1>5, <1>6, <1>7, <1>8, <1>9, <1>10, <1>11

LEMMA MinuteKeeps ==
  ASSUME TypeOK, RefreshInv, NEW x \in Authn, MinuteOver(x)
  PROVE  TypeOK' /\ RefreshInv'
<1>1. TypeOK'
  BY MinuteTyped
<1>2. UNCHANGED <<auth_type, issued, renewed, made, credsId, keyring, seen, pc>>
  BY DEF MinuteOver, reqVars, idpVars
<1>3. \A y \in Authn : recent'[y] = recent[y] \/ recent'[y] = NoCreds
  BY TypeParts DEF MinuteOver, AuthTyped
<1> QED  BY <1>1, <1>2, <1>3, QuietKeeps
         DEF RefreshInv, Issued, HoldersCurrent, MadeWhenUsed, KindsApart

LEMMA StepKeeps ==
  ASSUME TypeOK, RefreshInv, [Next]_vars
  PROVE  TypeOK' /\ RefreshInv'
<1>1. CASE \E r \in Request : RequestStep(r) \/ UserStep(r)
  BY <1>1, SendKeeps, CallKeeps, GrantedKeeps, LoginKeeps DEF RequestStep, UserStep
<1>2. CASE \E x \in Authn : MinuteOver(x)
  BY <1>2, MinuteKeeps
<1>3. CASE UNCHANGED vars
  <2>1. UNCHANGED <<auth_type, backend, made, creds, credsId, recent, keyring, lock, pc, seen, sent,
                    polls, issued, spent, renewed>>
    BY <1>3 DEF vars, authVars, reqVars, idpVars
  <2>2. TypeOK'
    BY <2>1, TypeParts, TypePartsNext
       DEF AuthTyped, PcTyped, LockTyped, ReqTyped, IdpTyped, LockHeld, IdOfCreds
  <2> QED  BY <2>1, <2>2, QuietKeeps
         DEF RefreshInv, Issued, HoldersCurrent, MadeWhenUsed, KindsApart
<1> QED  BY <1>1, <1>2, <1>3 DEF Next, Stopped

-----------------------------------------------------------------------------
(* A call that is to be sent again has another token to send: the token in *)
(* use has changed since, and it only ever changes to one just issued.     *)
FreshInv ==
  auth_type # "pkce" =>
    /\ \A r \in Request : pc[r] = "retry" /\ seen[r] # 0 => credsId[User[r]] # seen[r]
    /\ RetryIsFresh

LEMMA SeenBefore ==
  TypeOK /\ RefreshInv =>
    \A q \in Request : seen[q] \in Nat /\ issued \in Nat /\ seen[q] <= issued
<1> SUFFICES ASSUME TypeOK, RefreshInv, NEW q \in Request
             PROVE  seen[q] \in Nat /\ issued \in Nat /\ seen[q] <= issued
  OBVIOUS
<1>1. issued \in Nat
  BY TypeParts DEF IdpTyped
<1>2. seen[q] \in Token /\ seen[q] <= issued
  BY TypeParts DEF ReqTyped, RefreshInv, Issued
<1> QED  BY <1>1, <1>2, Values

LEMMA FreshMoves ==
  ASSUME TypeOK, RefreshInv, FreshInv, NEW r \in Request, auth_type' = auth_type,
         auth_type # "pkce" =>
           /\ \A q \in Request \ {r} : pc'[q] = pc[q] /\ seen'[q] = seen[q] /\ sent'[q] = sent[q]
           /\ \A y \in made : credsId'[y] = credsId[y] \/ credsId'[y] > issued
           /\ pc'[r] = "retry" /\ seen'[r] # 0 => credsId'[User[r]] # seen'[r]
           /\ pc'[r] = "resent" /\ r \notin Stream => seen'[r] \notin sent'[r] \ {0}
  PROVE  FreshInv'
<1> SUFFICES ASSUME auth_type # "pkce" PROVE FreshInv'
  BY DEF FreshInv
<1>1. ASSUME NEW q \in Request, pc'[q] = "retry", seen'[q] # 0 PROVE credsId'[User[q]] # seen'[q]
  <2>1. CASE q = r
    BY <1>1, <2>1
  <2>2. CASE q # r
    <3>1. /\ pc[q] = "retry" /\ seen[q] # 0 /\ seen'[q] = seen[q]
          /\ credsId[User[q]] # seen[q] /\ User[q] \in made
      BY <1>1, <2>2 DEF FreshInv, RefreshInv, MadeWhenUsed
    <3>2. seen[q] \in Nat /\ issued \in Nat /\ seen[q] <= issued
      BY SeenBefore
    <3>3. credsId'[User[q]] = credsId[User[q]] \/ credsId'[User[q]] > issued
      BY <3>1
    <3> QED  BY <3>1, <3>2, <3>3
  <2> QED  BY <2>1, <2>2
<1>2. RetryIsFresh'
  BY DEF FreshInv, RetryIsFresh
<1> QED  BY <1>1, <1>2 DEF FreshInv

(* The request ends, waits, or goes on with its refresh.                   *)
LEMMA FreshElsewhere ==
  ASSUME TypeOK, RefreshInv, FreshInv, NEW r \in Request, NEW p, Step(r, p),
         p \notin {"retry", "resent"}, UNCHANGED <<auth_type, credsId>>, End(r) \/ UNCHANGED reqVars
  PROVE  FreshInv'
<1>1. pc'[r] = p /\ \A q \in Request \ {r} : pc'[q] = pc[q]
  BY TypeParts DEF Step, PcTyped
<1>2. \A q \in Request \ {r} : seen'[q] = seen[q] /\ sent'[q] = sent[q]
  BY TypeParts DEF End, reqVars, ReqTyped
<1> QED  BY <1>1, <1>2, FreshMoves

LEMMA FreshEnds ==
  ASSUME TypeOK, RefreshInv, FreshInv, NEW r \in Request, End(r), UNCHANGED <<auth_type, credsId>>
  PROVE  FreshInv'
BY FreshElsewhere DEF End

(* It has waited for another's refresh: the token has changed meanwhile.   *)
LEMMA FreshRecheck ==
  ASSUME TypeOK, RefreshInv, FreshInv, NEW r \in Request, Step(r, "retry"),
         Refreshed(User[r], seen[r]), UNCHANGED <<auth_type, credsId, reqVars>>
  PROVE  FreshInv'
<1>1. pc'[r] = "retry" /\ \A q \in Request \ {r} : pc'[q] = pc[q]
  BY TypeParts DEF Step, PcTyped
<1>2. seen' = seen /\ sent' = sent /\ credsId' = credsId /\ auth_type' = auth_type
  BY DEF reqVars
<1>3. credsId'[User[r]] # seen'[r]
  BY <1>2 DEF Refreshed
<1> QED  BY <1>1, <1>2, <1>3, FreshMoves

(* It has a new token.                                                     *)
LEMMA FreshRenews ==
  ASSUME TypeOK, RefreshInv, FreshInv, NEW r \in Request, NEW c \in Fresh, Succeed(r, c)
  PROVE  FreshInv'
<1>1. UNCHANGED <<auth_type, seen, sent>> /\ User[r] \in Authn
  BY ConstantsAssumption DEF Succeed, reqVars
<1>2. c.tok = issued + 1 /\ issued \in Nat /\ seen[r] \in Nat /\ seen[r] <= issued
  BY SeenBefore DEF Fresh
<1>3. \A y \in Authn : credsId'[y] = IF y = User[r] THEN issued + 1 ELSE credsId[y]
  BY <1>2, TypeParts DEF Succeed, AuthTyped
<1>4. made \subseteq Authn /\ issued + 1 > issued
  BY <1>2, TypeParts DEF AuthTyped
<1>5. \A y \in made : credsId'[y] = credsId[y] \/ credsId'[y] > issued
  BY <1>3, <1>4
<1>6. pc'[r] = "retry" /\ \A q \in Request \ {r} : pc'[q] = pc[q]
  BY TypeParts DEF Succeed, Step, PcTyped
<1>7. credsId'[User[r]] # seen'[r]
  BY <1>1, <1>2, <1>3
<1> QED  BY <1>1, <1>5, <1>6, <1>7, FreshMoves

LEMMA FreshCall ==
  ASSUME TypeOK, RefreshInv, FreshInv, NEW r \in Request,
         Send(r) \/ SendUnauthorized(r) \/ Answered(r) \/ Resend(r) \/ Final(r) \/ Lock(r) \/ Cancel(r)
  PROVE  FreshInv'
<1>1. CASE Send(r) \/ SendUnauthorized(r)
  <2>1. Use(User[r]) /\ User[r] \in Authn /\ auth_type' = auth_type
    BY <1>1, ConstantsAssumption DEF Send, SendUnauthorized, Use
  <2>2. \A y \in made : credsId'[y] = credsId[y]
    BY <2>1, UseTyped, TypeParts DEF CredsOf, IdOfCreds, AuthTyped
  <2>3. /\ pc'[r] \in {"sent", "locking"}
        /\ \A q \in Request \ {r} : pc'[q] = pc[q] /\ seen'[q] = seen[q] /\ sent'[q] = sent[q]
    BY <1>1, TypeParts DEF Send, SendUnauthorized, Step, Attempt, reqVars, ReqTyped, PcTyped
  <2> QED  BY <2>1, <2>2, <2>3, FreshMoves
<1>2. CASE Answered(r)
  <2>1. UNCHANGED <<auth_type, credsId>>
    BY <1>2 DEF Answered, authVars
  <2>2. CASE End(r)
    BY <2>1, <2>2, FreshEnds
  <2>3. CASE Refreshed(User[r], seen[r]) /\ Step(r, "retry") /\ UNCHANGED reqVars
    BY <2>1, <2>3, FreshRecheck
  <2>4. CASE Step(r, "locking") /\ UNCHANGED reqVars
    BY <2>1, <2>4, FreshElsewhere
  <2> QED  BY <1>2, <2>2, <2>3, <2>4 DEF Answered
<1>3. CASE Resend(r)
  <2>1. UNCHANGED <<auth_type, credsId>> /\ pc[r] = "retry"
    BY <1>3 DEF Resend, authVars
  <2>2. \A q \in Request \ {r} : pc'[q] = pc[q] /\ seen'[q] = seen[q] /\ sent'[q] = sent[q]
    BY <1>3, TypeParts DEF Resend, Step, Attempt, ReqTyped, PcTyped
  <2>3. CASE sent[r] = {}
    <3>1. pc'[r] = "sent"
      BY <1>3, <2>3, TypeParts DEF Resend, Step, PcTyped
    <3> QED  BY <2>1, <2>2, <3>1, FreshMoves
  <2>4. CASE sent[r] # {}
    <3>1. pc'[r] = "resent" /\ seen'[r] = seen[r] /\ sent'[r] = RetryTokens(r)
      BY <1>3, <2>4, TypeParts DEF Resend, RetryOnce, Step, Attempt, ReqTyped, PcTyped
    <3>2. creds[User[r]].tok = credsId[User[r]]
      BY TypeParts, ConstantsAssumption DEF IdOfCreds
    <3>3. auth_type # "pkce" /\ r \notin Stream => seen[r] \notin RetryTokens(r) \ {0}
      BY <2>1, <3>2 DEF RetryTokens, AddedToPlain, FreshInv
    <3> QED  BY <2>1, <2>2, <3>1, <3>3, FreshMoves
  <2> QED  BY <2>3, <2>4
<1>4. CASE Final(r) \/ Cancel(r)
  BY <1>4, FreshEnds DEF Final, Cancel, authVars
<1>5. CASE Lock(r)
  <2>1. UNCHANGED <<auth_type, credsId, reqVars>>
    BY <1>5 DEF Lock, authVars
  <2>2. CASE Recheck(User[r], seen[r]) /\ Step(r, "retry")
    BY <2>1, <2>2, FreshRecheck DEF Recheck
  <2>3. CASE Step(r, First(User[r]))
    <3>1. First(User[r]) \notin {"retry", "resent"}
      BY DEF First
    <3> QED  BY <2>1, <2>3, <3>1, FreshElsewhere
  <2> QED  BY <1>5, <2>2, <2>3 DEF Lock
<1> QED  BY <1>1, <1>2, <1>3, <1>4, <1>5

LEMMA FreshStep ==
  ASSUME TypeOK, RefreshInv, FreshInv, [Next]_vars
  PROVE  FreshInv'
<1>1. ASSUME NEW r \in Request, Fail(r) PROVE FreshInv'
  BY <1>1, FreshEnds DEF Fail
<1>2. ASSUME NEW r \in Request, \E c \in Fresh : Succeed(r, c) PROVE FreshInv'
  BY <1>2, FreshRenews
<1>3. ASSUME NEW r \in Request, NEW p \in Holding, Step(r, p), UNCHANGED <<authVars, reqVars>>
      PROVE  FreshInv'
  BY <1>3, FreshElsewhere DEF Holding, authVars
<1>4. ASSUME NEW r \in Request,
             \/ Granted(r) \/ RefreshRaises(r) \/ SecretLogin(r) \/ DeviceCode(r)
             \/ DeviceExpired(r) \/ PkceCallback(r) \/ PkceStray(r)
      PROVE  FreshInv'
  BY <1>1, <1>2, <1>3, <1>4
     DEF Granted, RefreshRaises, SecretLogin, DeviceCode, DeviceExpired, PkceCallback, PkceStray, Holding
<1>5. ASSUME NEW r \in Request, DevicePoll(r) PROVE FreshInv'
  <2>1. CASE UNCHANGED <<authVars, pc, reqVars>>
    BY <2>1 DEF authVars, reqVars, FreshInv, RetryIsFresh
  <2> QED  BY <1>1, <1>2, <1>5, <2>1 DEF DevicePoll
<1>6. ASSUME NEW r \in Request, PkceLogin(r) PROVE FreshInv'
  <2>1. auth_type = "pkce" /\ auth_type' = auth_type
    BY <1>6 DEF PkceLogin, Succeed, authVars
  <2> QED  BY <2>1 DEF FreshInv
<1>7. ASSUME NEW x \in Authn, MinuteOver(x) PROVE FreshInv'
  BY <1>7 DEF MinuteOver, reqVars, FreshInv, RetryIsFresh
<1>8. CASE UNCHANGED vars
  BY <1>8 DEF vars, authVars, reqVars, FreshInv, RetryIsFresh
<1> QED
  BY <1>4, <1>5, <1>6, <1>7, <1>8, FreshCall DEF Next, RequestStep, UserStep, Stopped

-----------------------------------------------------------------------------
(* The types of AuthRefresh: in particular the requests that refresh are   *)
(* those that hold the lock of their authenticator (_async_lock).          *)
THEOREM AuthTypesCorrect == Spec => []TypeOK
<1>1. Init => TypeOK /\ RefreshInv
  BY InitTyped, InitRefresh
<1>2. TypeOK /\ RefreshInv /\ [Next]_vars => (TypeOK /\ RefreshInv)'
  BY StepKeeps
<1> QED  BY <1>1, <1>2, PTL DEF Spec

(* However many calls of an authenticator are refused with one token, and  *)
(* wherever they are in refresh_credentials when it is replaced, at most   *)
(* one new token is asked for in its place.                                *)
THEOREM OneRefreshPerExpiryAlways == Spec => []OneRefreshPerExpiry
<1>1. Init => TypeOK /\ RefreshInv
  BY InitTyped, InitRefresh
<1>2. TypeOK /\ RefreshInv /\ [Next]_vars => (TypeOK /\ RefreshInv)'
  BY StepKeeps
<1>3. RefreshInv => OneRefreshPerExpiry
  BY DEF RefreshInv
<1> QED  BY <1>1, <1>2, <1>3, PTL DEF Spec

(* A call that was refused is not sent again with the token it was refused *)
(* with, whoever has refreshed the credentials, and however often they are *)
(* refreshed while it is on its way: streams and pkce excepted.            *)
THEOREM RetryIsFreshAlways == Spec => []RetryIsFresh
<1>1. Init => TypeOK /\ RefreshInv /\ FreshInv
  BY InitTyped, InitRefresh DEF Init, FreshInv, RetryIsFresh
<1>2. TypeOK /\ RefreshInv /\ FreshInv /\ [Next]_vars => (TypeOK /\ RefreshInv /\ FreshInv)'
  BY StepKeeps, FreshStep
<1>3. FreshInv => RetryIsFresh
  BY DEF FreshInv, RetryIsFresh
<1> QED  BY <1>1, <1>2, <1>3, PTL DEF Spec
=============================================================================
