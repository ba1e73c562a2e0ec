----------------------------- MODULE AuthRefresh -----------------------------
(***************************************************************************)
(* Credentials of a client channel: calls that the service refuses refresh *)
(* the credentials of their authenticator and are sent once more           *)
(* (_client/auth/_authenticators, _grpc_utils/auth_interceptor.py,         *)
(* _token_client.py, _keyring.py).                                         *)
(*                                                                         *)
(* create_auth_interceptors gives every kind of call (unary, stream) an    *)
(* interceptor, and every interceptor makes an authenticator of its own    *)
(* when it is first used: the authenticators of a channel share nothing    *)
(* but the keyring.  Everything runs on one event loop.                    *)
(*                                                                         *)
(* Tokens are numbered as they are issued, 0 is none; the id of            *)
(* credentials is a hash of the access token, so it is the number.         *)
(***************************************************************************)
EXTENDS Naturals

CONSTANTS
  Request,    \* calls of the channel
  Authn,      \* its authenticators
  User,       \* User[r]: the authenticator of the interceptor r goes through
  Stream,     \* requests answered by a stream (UnaryStreamCall)
  Http,       \* requests sent by AsyncAuthenticatedClient, not an interceptor
  Cancellable, \* bound: requests whose caller may cancel them
  MaxPolls,   \* polls of the token endpoint before a device code expires
  MaxTokens,  \* bound: access tokens issued
  NoRequest

ASSUME ConstantsAssumption ==
  /\ User \in [Request -> Authn] /\ Stream \subseteq Request /\ Http \subseteq Request
  /\ Cancellable \subseteq Request
  /\ NoRequest \notin Request
  /\ MaxPolls \in Nat /\ MaxTokens \in Nat \ {0}

Token       == 0..MaxTokens
Credentials == [tok : Token, rt : Token]   \* access and refresh token
NoCreds     == [tok |-> 0, rt |-> 0]

(* Kinds of authenticator: ClientSecret and ExternalCommand, DeviceFlow,    *)
(* Pkce.                                                                   *)
AuthType == {"secret", "device", "pkce"}

VARIABLES
  auth_type, \* of the channel
  backend,  \* there is a keyring
  made,     \* authenticators that exist
  creds,    \* Authenticator._creds
  credsId,  \* Authenticator._creds_id
  lock,     \* Authenticator._async_lock: the request that holds it
  recent,   \* AuthorizationClient._cached_credentials, while younger than 60 s
  keyring,  \* the keyring's entry for the endpoint
  pc,       \* each request: where it is
  seen,     \* its creds_id: what it was sent with when it was refused
  sent,     \* the tokens in the metadata of its last attempt
  polls,    \* polls of the device flow in progress, of each authenticator
  issued,   \* tokens issued by the identity provider
  spent,    \* refresh tokens the provider accepts no more
  renewed   \* history: <<x, t>> -> tokens issued because t was refused

authVars == <<auth_type, backend, made, creds, credsId, recent, keyring>>
idpVars  == <<issued, spent>>
reqVars  == <<seen, sent>>
vars == <<authVars, lock, pc, reqVars, polls, idpVars, renewed>>

Init ==
  /\ auth_type \in AuthType /\ backend \in BOOLEAN
  /\ made = {}
  /\ creds = [x \in Authn |-> NoCreds] /\ credsId = [x \in Authn |-> 0]
  /\ lock = [x \in Authn |-> NoRequest]
  /\ recent = [x \in Authn |-> NoCreds]
  /\ keyring \in {NoCreds} \cup {[tok |-> 1, rt |-> t] : t \in {0, 1}}
  /\ backend \/ keyring = NoCreds
  /\ pc = [r \in Request |-> "new"]
  /\ seen = [r \in Request |-> 0] /\ sent = [r \in Request |-> {}]
  /\ polls = [x \in Authn |-> 0]
  /\ issued = 1 /\ spent = {}
  /\ renewed = [x \in Authn |-> [t \in Token |-> 0]]

Step(r, p) == pc' = [pc EXCEPT ![r] = p]

(* The call returns or raises.                                             *)
End(r) ==
  /\ Step(r, "ended")
  /\ seen' = [seen EXCEPT ![r] = 0] /\ sent' = [sent EXCEPT ![r] = {}]

-----------------------------------------------------------------------------
(* Sending.                                                                *)

(* get_grpc_call_auth_metadata or add_auth_header, then the call.          *)
Attempt(r, tokens) == sent' = [sent EXCEPT ![r] = tokens]

(* The authenticator is made at its first use, from the keyring.           *)
CredsOf(x) == IF x \in made THEN creds[x] ELSE keyring

Use(x) ==
  /\ made' = made \cup {x}
  /\ creds' = [creds EXCEPT ![x] = CredsOf(x)]
  /\ credsId' = [credsId EXCEPT ![x] = CredsOf(x).tok]
  /\ UNCHANGED <<auth_type, backend, recent, keyring>>

Send(r) ==
  LET x == User[r] IN
  /\ pc[r] = "new"
  /\ ~(r \in Http /\ CredsOf(x) = NoCreds)
  /\ Use(x)
  /\ seen' = [seen EXCEPT ![r] = CredsOf(x).tok]
  /\ Attempt(r, {CredsOf(x).tok}) /\ Step(r, "sent")
  /\ UNCHANGED <<lock, polls, idpVars, renewed>>

(* add_auth_header without credentials forces a refresh first.             *)
SendUnauthorized(r) ==
  LET x == User[r] IN
  /\ pc[r] = "new" /\ r \in Http /\ CredsOf(x) = NoCreds
  /\ Use(x) /\ Step(r, "locking")
  /\ UNCHANGED <<lock, reqVars, polls, idpVars, renewed>>

(* refresh_credentials(creds_id): somebody else has refreshed them; "" and *)
(* None force a refresh.                                                   *)
Refreshed(x, id) == id # 0 /\ id # credsId[x]

(* The service serves a call, or refuses it (UNAUTHENTICATED, 401) or       *)
(* answers UNKNOWN to one whose token is good; with any other error the    *)
(* call ends too.                                                          *)
Answered(r) ==
  /\ pc[r] = "sent"
  /\ \/ End(r)
     \/ /\ Step(r, IF Refreshed(User[r], seen[r]) THEN "retry" ELSE "locking")
        /\ UNCHANGED reqVars
  /\ UNCHANGED <<authVars, lock, polls, idpVars, renewed>>

(* The second attempt; its error is the caller's, whatever it is.  A stream *)
(* adds the new metadata to the details that carry the old.                *)
AddedToOld(r)   == {creds[User[r]].tok, seen[r]}
AddedToPlain(r) == {creds[User[r]].tok}
RetryTokens(r)  == IF r \in Stream THEN AddedToOld(r) ELSE AddedToPlain(r)

RetryAgain == "sent"
RetryOnce  == "resent"

Resend(r) ==
  /\ pc[r] = "retry"
  /\ IF sent[r] = {}
     THEN /\ Attempt(r, {creds[User[r]].tok}) /\ Step(r, "sent")
          /\ seen' = [seen EXCEPT ![r] = creds[User[r]].tok]
     ELSE Attempt(r, RetryTokens(r)) /\ Step(r, RetryOnce) /\ UNCHANGED seen
  /\ UNCHANGED <<authVars, lock, polls, idpVars, renewed>>

Final(r) ==
  /\ pc[r] = "resent"
  /\ End(r)
  /\ UNCHANGED <<authVars, lock, polls, idpVars, renewed>>

-----------------------------------------------------------------------------
(* refresh_credentials.                                                    *)

SkipRecheck(x, id) == FALSE
Recheck(x, id)     == Refreshed(x, id)

(* _do_refresh_credentials of each kind of authenticator: device tries the *)
(* refresh token first; pkce too, and the request for it raises.           *)
First(x) == CASE auth_type = "device" /\ creds[x].rt # 0 -> "granting"
              [] auth_type = "pkce"   /\ creds[x].rt # 0 -> "raising"
              [] OTHER -> "login"

Lock(r) ==
  LET x == User[r] IN
  /\ pc[r] = "locking" /\ lock[x] = NoRequest
  /\ IF Recheck(x, seen[r])
     THEN Step(r, "retry") /\ UNCHANGED lock
     ELSE Step(r, First(x)) /\ lock' = [lock EXCEPT ![x] = r]
  /\ UNCHANGED <<authVars, reqVars, polls, idpVars, renewed>>

(* KeyringStore.store writes the refresh token if there is one, then the   *)
(* access token; it never raises, and without a keyring it does nothing.   *)
Store(c) ==
  keyring' = IF backend THEN [tok |-> c.tok, rt |-> IF c.rt # 0 THEN c.rt ELSE keyring.rt]
                        ELSE NoCreds

Succeed(r, c) ==
  LET x == User[r] IN
  /\ creds' = [creds EXCEPT ![x] = c]
  /\ credsId' = [credsId EXCEPT ![x] = c.tok]
  /\ Store(c)
  /\ lock' = [lock EXCEPT ![x] = NoRequest]
  /\ polls' = [polls EXCEPT ![x] = 0]
  /\ Step(r, "retry")
  /\ UNCHANGED <<auth_type, backend, made, reqVars>>

Fail(r) ==
  LET x == User[r] IN
  /\ keyring' = NoCreds
  /\ lock' = [lock EXCEPT ![x] = NoRequest]
  /\ polls' = [polls EXCEPT ![x] = 0]
  /\ End(r)
  /\ UNCHANGED <<auth_type, backend, made, creds, credsId, recent>>

(* The provider issues a token, with a refresh token or without one.       *)
Fresh == {[tok |-> issued + 1, rt |-> t] : t \in {0, issued + 1}}

Issue(r) ==
  /\ issued < MaxTokens
  /\ issued' = issued + 1
  /\ renewed' = [renewed EXCEPT ![User[r]][seen[r]] = @ + 1]

(* get_token with GrantType.REFRESH_TOKEN: a refresh token is good for one *)
(* use; if it is refused, the user logs in.                                *)
Granted(r) ==
  LET x == User[r] IN
  /\ pc[r] = "granting"
  /\ \/ /\ creds[x].rt \notin spent
        /\ Issue(r) /\ \E c \in Fresh : Succeed(r, c)
        /\ spent' = spent \cup {creds[x].rt}
        /\ UNCHANGED recent
     \/ Step(r, "login") /\ UNCHANGED <<authVars, lock, reqVars, polls, idpVars, renewed>>
     \/ Fail(r) /\ UNCHANGED <<idpVars, renewed>>

(* The pkce client posts the refresh token in an "async with" of a         *)
(* coroutine: it raises, and not the error that leads to a login.          *)
RefreshRaises(r) ==
  /\ pc[r] = "raising"
  /\ Fail(r)
  /\ UNCHANGED <<idpVars, renewed>>

(* A client secret or a command: one request.                              *)
SecretLogin(r) ==
  /\ pc[r] = "login" /\ auth_type = "secret"
  /\ \/ Issue(r) /\ \E c \in Fresh : Succeed(r, c) /\ UNCHANGED recent
     \/ Fail(r) /\ UNCHANGED <<issued, renewed>>
  /\ UNCHANGED spent

(* get_device_code, then poll_token_endpoint until the code expires; a     *)
(* pending authorisation and slow_down are alike.                          *)
DeviceCode(r) ==
  /\ pc[r] = "login" /\ auth_type = "device"
  /\ \/ Step(r, "polling") /\ UNCHANGED <<authVars, lock, reqVars, polls>>
     \/ Fail(r)
  /\ UNCHANGED <<idpVars, renewed>>

PollsLeft(x) == polls[x] < MaxPolls

DevicePoll(r) ==
  LET x == User[r] IN
  /\ pc[r] = "polling" /\ PollsLeft(x)
  /\ \/ /\ Issue(r) /\ \E c \in Fresh : Succeed(r, c)
        /\ UNCHANGED recent
     \/ /\ polls' = [polls EXCEPT ![x] = @ + 1]
        /\ UNCHANGED <<authVars, lock, pc, reqVars, issued, renewed>>
     \/ Fail(r) /\ UNCHANGED <<issued, renewed>>
  /\ UNCHANGED spent

DeviceExpired(r) ==
  /\ pc[r] = "polling" /\ ~PollsLeft(User[r])
  /\ Fail(r)
  /\ UNCHANGED <<idpVars, renewed>>

(* get_creds_from_remote: credentials it got less than a minute ago are    *)
(* returned again, otherwise the browser is opened.                        *)
PkceLogin(r) ==
  LET x == User[r] IN
  /\ pc[r] = "login" /\ auth_type = "pkce"
  /\ IF recent[x] # NoCreds
     THEN Succeed(r, recent[x]) /\ UNCHANGED recent
     ELSE Step(r, "browser") /\ UNCHANGED <<authVars, lock, reqVars, polls>>
  /\ UNCHANGED <<idpVars, renewed>>

(* The browser calls back, with an authorisation code that is exchanged    *)
(* for a token or refused; there is no timeout, and a callback without a   *)
(* code leaves the login waiting.                                          *)
PkceCallback(r) ==
  /\ pc[r] = "browser"
  /\ \/ /\ Issue(r)
        /\ \E c \in Fresh : Succeed(r, c) /\ recent' = [recent EXCEPT ![User[r]] = c]
     \/ Fail(r) /\ UNCHANGED <<issued, renewed>>
  /\ UNCHANGED spent

(* A request on another path (for an icon, say) is answered 404 and ends   *)
(* the wait for the callback all the same: the login takes the code from   *)
(* the queue, where there is none, with a get() that blocks the thread of  *)
(* the loop, for good.                                                     *)
PkceStray(r) ==
  /\ pc[r] = "browser"
  /\ Step(r, "frozen")
  /\ UNCHANGED <<authVars, lock, reqVars, polls, idpVars, renewed>>

Frozen == \E r \in Request : pc[r] = "frozen"

-----------------------------------------------------------------------------
(* Time.                                                                   *)

MinuteOver(x) ==
  /\ recent[x] # NoCreds
  /\ recent' = [recent EXCEPT ![x] = NoCreds]
  /\ UNCHANGED <<auth_type, backend, made, creds, credsId, keyring, lock, pc, reqVars, polls, idpVars, renewed>>

-----------------------------------------------------------------------------
Holding == {"granting", "raising", "login", "polling", "browser", "frozen"}
LockLeft(r) == [lock EXCEPT ![User[r]] = NoRequest]

(* The caller cancels a request that waits for the lock or refreshes:      *)
(* CancelledError passes the handler that clears the keyring, and releases *)
(* the lock.  The provider may have served the grant that was on its way.  *)
Cancel(r) ==
  /\ r \in Cancellable
  /\ pc[r] \in {"locking"} \cup Holding
  /\ End(r)
  /\ IF pc[r] \in Holding
     THEN lock' = LockLeft(r) /\ polls' = [polls EXCEPT ![User[r]] = 0]
     ELSE UNCHANGED <<lock, polls>>
  /\ \/ UNCHANGED spent
     \/ pc[r] = "granting" /\ spent' = spent \cup {creds[User[r]].rt}
  /\ UNCHANGED <<authVars, issued, renewed>>

(* Nothing runs on a loop whose thread is blocked.                         *)
RequestStep(r) ==
  /\ ~Frozen
  /\ \/ Send(r) \/ SendUnauthorized(r) \/ Answered(r) \/ Resend(r) \/ Final(r)
     \/ Lock(r) \/ Granted(r) \/ RefreshRaises(r) \/ SecretLogin(r)
     \/ DeviceCode(r) \/ DevicePoll(r) \/ DeviceExpired(r) \/ PkceLogin(r)
UserStep(r) == ~Frozen /\ (PkceCallback(r) \/ PkceStray(r) \/ Cancel(r))

Ended(r) == pc[r] = "ended"
Stopped  == (Frozen \/ \A r \in Request : Ended(r)) /\ UNCHANGED vars

Next ==
  \/ \E r \in Request : RequestStep(r) \/ UserStep(r)
  \/ \E x \in Authn : MinuteOver(x)
  \/ Stopped

Spec == Init /\ [][Next]_vars

(* The loop runs what is ready, and the service and the provider answer;   *)
(* nobody need answer in the browser.                                      *)
Fairness == \A r \in Request : WF_vars(RequestStep(r))

FairSpec == Spec /\ Fairness

-----------------------------------------------------------------------------
(* Every variable ranges over the values the code gives it; the requests   *)
(* in _do_refresh_credentials are those that hold the lock of their        *)
(* authenticator.                                                          *)
TypeOK ==
  /\ auth_type \in AuthType /\ backend \in BOOLEAN /\ made \subseteq Authn
  /\ creds \in [Authn -> Credentials] /\ credsId \in [Authn -> Token]
  /\ lock \in [Authn -> Request \cup {NoRequest}]
  /\ recent \in [Authn -> Credentials] /\ keyring \in Credentials
  /\ pc \in [Request -> Holding \cup {"new", "sent", "locking", "retry", "resent", "ended"}]
  /\ seen \in [Request -> Token] /\ sent \in [Request -> SUBSET Token]
  /\ polls \in [Authn -> 0..MaxPolls]
  /\ issued \in 1..MaxTokens /\ spent \subseteq Token
  /\ renewed \in [Authn -> [Token -> Nat]]
  /\ \A r \in Request : pc[r] \in Holding <=> lock[User[r]] = r
  /\ \A x \in Authn : creds[x].tok = credsId[x]

(* However many calls of an authenticator are refused with one token, one  *)
(* new token is asked for in its place (refresh_credentials: "prevent      *)
(* redundant credential refreshes when multiple threads or coroutines      *)
(* attempt to refresh credentials simultaneously").                        *)
OneRefreshPerExpiry ==
  \A x \in Authn, t \in Token \ {0} : renewed[x][t] <= 1

(* A call that is sent again does not carry the token it was refused with. *)
(* Two exceptions: a stream adds the new token to the old one, and the     *)
(* pkce client may hand out the refused login again for a minute.          *)
RetryIsFresh ==
  \A r \in Request \ Stream :
    pc[r] = "resent" /\ auth_type # "pkce" => seen[r] \notin sent[r] \ {0}

(* Every call ends, although it may have to wait for another call's        *)
(* refresh, which may fail or be cancelled and whose device code expires.  *)
(* Two exceptions: a login of its authenticator waits in the browser,      *)
(* which has no timeout, or the login of any call has frozen the loop.     *)
CallsEnd ==
  \A r \in Request :
    pc[r] # "new" ~> \/ Ended(r) \/ Frozen
                     \/ \E q \in Request : User[q] = User[r] /\ pc[q] = "browser"

(* A login in the browser, however it goes, keeps only the calls of its    *)
(* own authenticator from ending (_async_lock is per authenticator).       *)
(* False: PkceStray stops the calls of every authenticator on the loop.    *)
OthersEnd ==
  \A r \in Request :
    pc[r] # "new" ~> \/ Ended(r)
                     \/ \E q \in Request : User[q] = User[r] /\ pc[q] \in {"browser", "frozen"}
=============================================================================
