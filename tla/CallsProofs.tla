----------------------------- MODULE CallsProofs -----------------------------
(***************************************************************************)
(* Proofs about the calls of the user's program: SyncBridge, for any       *)
(* number of calls, and MapTasks, for any number of tasks and parameters.  *)
(***************************************************************************)
EXTENDS SyncBridge, MapTasks, TLAPS

-----------------------------------------------------------------------------
(* SyncBridge: blocking calls into event loops.                            *)
CallState == {"idle", "queued", "running", "blocked", "returned", "raised"}

(* Calls that have been made and have not ended; those their caller blocks *)
(* for.                                                                    *)
Active(n)   == st[n] \in {"queued", "running", "blocked"}
Blocking(c) == Active(c) /\ ~awaited[c]

ProgramTyped ==
  /\ caller \in [Call -> 0..N] /\ \A c \in Call : caller[c] < c
  /\ kind \in [Call -> Kinds] /\ awaited \in [Call -> BOOLEAN]
  /\ Legal

BridgeTyped ==
  /\ ProgramTyped
  /\ st \in [0..N -> CallState]
  /\ thread \in [0..N -> Thread \cup {Nobody}]
  /\ occupant \in [Thread -> (0..N) \cup {Nobody}]

(* A call is no further from its owner's thread than it is from call 0.    *)
OnThread   == \A n \in 0..N : Active(n) => thread[n] \in Thread /\ thread[n][2] <= n
CallerWaits == \A c \in Call : Blocking(c) => st[caller[c]] = "blocked"
OneAtATime == \A c, d \in Call : Blocking(c) /\ Blocking(d) /\ caller[c] = caller[d] => c = d
Elsewhere  == \A c \in Call : Blocking(c) => thread[c] # thread[caller[c]]
Occupied   == \A t \in Thread, n \in 0..N : occupant[t] = n <=> st[n] = "blocked" /\ thread[n] = t

BridgeInv == BridgeTyped /\ OnThread /\ CallerWaits /\ OneAtATime /\ Elsewhere /\ Occupied

LEMMA BridgeInitInv == Init => BridgeInv
<1> SUFFICES ASSUME Init PROVE BridgeInv
  OBVIOUS
<1>1. ProgramTyped
  BY ConstantsAssumption DEF Init, ProgramTyped, Call
<1>2. <<"user", 0>> \in Thread /\ 0 \in 0..N
  BY ConstantsAssumption DEF Thread
<1>3. BridgeTyped
  BY <1>1, <1>2 DEF Init, BridgeTyped, CallState
<1>4. \A n \in 0..N : Active(n) => n = 0
  BY DEF Init, Active
<1>5. \A c \in Call : ~Active(c)
  BY <1>4, ConstantsAssumption DEF Call
<1>6. OnThread
  BY <1>2, <1>4 DEF Init, OnThread
<1>7. CallerWaits /\ OneAtATime /\ Elsewhere
  BY <1>5 DEF CallerWaits, OneAtATime, Elsewhere, Blocking
<1>8. Occupied
  BY ConstantsAssumption DEF Init, Occupied
<1> QED  BY <1>3, <1>6, <1>7, <1>8 DEF BridgeInv

(* What a call runs on when a running call makes it: one of the threads,   *)
(* and another one than its caller's if the caller blocks.                 *)
LEMMA ThreadForCall ==
  ASSUME BridgeInv, NEW n \in 0..N, NEW c \in Call, Turn(n, c)
  PROVE  /\ caller[c] = n /\ n < c
         /\ ThreadFor(c) \in Thread /\ ThreadFor(c)[2] <= c
         /\ ~awaited[c] /\ ~SameThread(n, c) => ThreadFor(c) # thread[n]
<1>1. caller[c] = n /\ n < c /\ n \in Nat /\ c \in Nat /\ c <= N
  BY ConstantsAssumption DEF Turn, CallsOf, BridgeInv, BridgeTyped, ProgramTyped, Call
<1>2. thread[n] \in Thread /\ thread[n][2] <= n
  BY DEF BridgeInv, OnThread, Active, Turn
<1>3. PICK o \in {"user", "background"}, k \in 0..N : thread[n] = <<o, k>>
  BY <1>2 DEF Thread
<1>4. k <= n
  BY <1>2, <1>3
<1>5. CASE kind[c] = "fn"
  <2>1. ThreadFor(c) = <<"background", 0>>
    BY <1>5 DEF ThreadFor, Background
  <2> QED  BY <1>1, <1>5, <2>1, ConstantsAssumption DEF Thread, SameThread, Background
<1>6. CASE kind[c] = "async"
  <2>1. ThreadFor(c) = <<o, k>> /\ awaited[c]
    BY <1>1, <1>3, <1>6 DEF ThreadFor, BridgeInv, BridgeTyped, ProgramTyped, Legal
  <2> QED  BY <1>1, <1>4, <2>1 DEF Thread
<1>7. CASE kind[c] = "sync"
  <2>1. ThreadFor(c) = <<o, k + 1>>
    BY <1>1, <1>3, <1>7 DEF ThreadFor, Runner
  <2>2. k + 1 \in 0..N
    BY <1>1, <1>4, ConstantsAssumption
  <2> QED  BY <1>1, <1>3, <1>4, <2>1, <2>2 DEF Thread
<1>8. kind[c] \in {"fn", "async", "sync"}
  BY DEF BridgeInv, BridgeTyped, ProgramTyped, Kinds
<1> QED  BY <1>1, <1>5, <1>6, <1>7, <1>8

(* A call that is running has no call it is blocked for.                   *)
LEMMA RunningNotBlocked ==
  ASSUME BridgeInv, NEW n \in 0..N, st[n] = "running", NEW c \in Call, caller[c] = n
  PROVE  ~Blocking(c)
BY DEF BridgeInv, CallerWaits

LEMMA RefuseInv ==
  ASSUME BridgeInv, NEW n \in 0..N, NEW c \in Call, Refuse(n, c) PROVE BridgeInv'
<1>1. /\ st[c] = "idle" /\ st' = [st EXCEPT ![c] = "raised"]
      /\ UNCHANGED <<caller, kind, awaited, thread, occupant>>
  BY DEF Refuse, Turn, progVars
<1>2. BridgeTyped /\ c \in 0..N
  BY ConstantsAssumption DEF BridgeInv, Call
<1>3. /\ st' \in [0..N -> CallState]
      /\ \A m \in 0..N : m # c => st'[m] = st[m]
      /\ st'[c] = "raised"
  BY <1>1, <1>2 DEF BridgeTyped, CallState
<1>4. BridgeTyped'
  BY <1>1, <1>2, <1>3 DEF BridgeTyped, ProgramTyped, Legal, IsCoroutine
<1>5. Call \subseteq 0..N /\ \A m \in Call : caller[m] \in 0..N
  BY <1>2, ConstantsAssumption DEF BridgeTyped, ProgramTyped, Call
<1>6. \A m \in 0..N : Active(m)' => Active(m)
  BY <1>3 DEF Active
<1>7. \A m \in Call : Blocking(m)' => Blocking(m)
  BY <1>1, <1>5, <1>6 DEF Blocking
<1>8. OnThread' /\ OneAtATime' /\ Elsewhere'
  BY <1>1, <1>6, <1>7 DEF BridgeInv, OnThread, OneAtATime, Elsewhere
<1>9. CallerWaits' /\ Occupied'
  BY <1>1, <1>3, <1>5, <1>7 DEF BridgeInv, CallerWaits, Occupied
<1> QED  BY <1>4, <1>8, <1>9 DEF BridgeInv

LEMMA BlockInv ==
  ASSUME BridgeInv, NEW n \in 0..N, NEW c \in Call, Block(n, c) PROVE BridgeInv'
<1>1. /\ st[n] = "running" /\ st[c] = "idle" /\ ~awaited[c] /\ Turn(n, c) /\ occupant[thread[n]] = Nobody
      /\ st' = [st EXCEPT ![c] = "queued", ![n] = "blocked"]
      /\ thread' = [thread EXCEPT ![c] = ThreadFor(c)]
      /\ occupant' = [occupant EXCEPT ![thread[n]] = n]
      /\ UNCHANGED <<caller, kind, awaited>>
  BY DEF Block, Turn, Free, progVars
<1>2. /\ caller[c] = n /\ n < c /\ ThreadFor(c) \in Thread /\ ThreadFor(c)[2] <= c
      /\ ThreadFor(c) # thread[n]
  BY <1>1, ThreadForCall DEF Block
<1>3. BridgeTyped /\ c \in 0..N /\ n # c /\ Call \subseteq 0..N
  BY <1>2, ConstantsAssumption DEF BridgeInv, Call
<1>4. /\ st' \in [0..N -> CallState]
      /\ \A m \in 0..N : m # c /\ m # n => st'[m] = st[m]
      /\ st'[c] = "queued" /\ st'[n] = "blocked"
  BY <1>1, <1>3 DEF BridgeTyped, CallState
<1>5. /\ thread' \in [0..N -> Thread \cup {Nobody}]
      /\ \A m \in 0..N : m # c => thread'[m] = thread[m]
      /\ thread'[c] = ThreadFor(c)
  BY <1>1, <1>2, <1>3 DEF BridgeTyped
<1>6. thread[n] \in Thread
  BY <1>1 DEF BridgeInv, OnThread, Active
<1>7. /\ occupant' \in [Thread -> (0..N) \cup {Nobody}]
      /\ \A t \in Thread : occupant'[t] = IF t = thread[n] THEN n ELSE occupant[t]
  BY <1>1, <1>3, <1>6 DEF BridgeTyped
<1>8. BridgeTyped'
  BY <1>1, <1>3, <1>4, <1>5, <1>7 DEF BridgeTyped, ProgramTyped, Legal, IsCoroutine
<1>9. \A m \in 0..N : Active(m)' => m = c \/ Active(m)
  BY <1>1, <1>4 DEF Active
<1>10. \A m \in Call : Blocking(m)' => m = c \/ (Blocking(m) /\ caller[m] # n /\ caller[m] # c)
  <2> SUFFICES ASSUME NEW m \in Call, Blocking(m)', m # c
               PROVE  Blocking(m) /\ caller[m] # n /\ caller[m] # c
    OBVIOUS
  <2>1. Blocking(m)
    BY <1>1, <1>3, <1>9 DEF Blocking
  <2>2. st[caller[m]] = "blocked"
    BY <2>1 DEF BridgeInv, CallerWaits
  <2> QED  BY <1>1, <2>1, <2>2
<1>11. \A m \in Call : caller[m] \in 0..N
  BY <1>3 DEF BridgeTyped, ProgramTyped
<1>12. OnThread'
  BY <1>2, <1>5, <1>9 DEF BridgeInv, OnThread
<1>13. CallerWaits'
  BY <1>1, <1>2, <1>4, <1>10, <1>11 DEF BridgeInv, CallerWaits
<1>14. OneAtATime'
  BY <1>1, <1>2, <1>10 DEF BridgeInv, OneAtATime
<1>15. Elsewhere'
  BY <1>1, <1>2, <1>3, <1>5, <1>10, <1>11 DEF BridgeInv, Elsewhere
<1>16. Occupied'
  <2> SUFFICES ASSUME NEW t \in Thread, NEW m \in 0..N
               PROVE  occupant'[t] = m <=> st'[m] = "blocked" /\ thread'[m] = t
    BY DEF Occupied
  <2>1. occupant[t] = m <=> st[m] = "blocked" /\ thread[m] = t
    BY DEF BridgeInv, Occupied
  <2>2. CASE m = n
    BY <1>3, <1>4, <1>5, <1>7, <1>1, <2>1, <2>2
  <2>3. CASE m = c
    BY <1>1, <1>3, <1>4, <1>7, <2>1, <2>3
  <2>4. CASE m # n /\ m # c
    BY <1>1, <1>4, <1>5, <1>7, <2>1, <2>4, ConstantsAssumption
  <2> QED  BY <2>2, <2>3, <2>4
<1> QED  BY <1>8, <1>12, <1>13, <1>14, <1>15, <1>16 DEF BridgeInv

LEMMA AwaitInv ==
  ASSUME BridgeInv, NEW n \in 0..N, NEW c \in Call, Await(n, c) PROVE BridgeInv'
<1>1. /\ st[n] = "running" /\ st[c] = "idle" /\ awaited[c] /\ Turn(n, c)
      /\ st' = [st EXCEPT ![c] = "queued"]
      /\ thread' = [thread EXCEPT ![c] = ThreadFor(c)]
      /\ UNCHANGED <<caller, kind, awaited, occupant>>
  BY DEF Await, Turn, progVars
<1>2. ThreadFor(c) \in Thread /\ ThreadFor(c)[2] <= c
  BY <1>1, ThreadForCall
<1>3. BridgeTyped /\ c \in 0..N /\ Call \subseteq 0..N
  BY ConstantsAssumption DEF BridgeInv, Call
<1>4. /\ st' \in [0..N -> CallState]
      /\ \A m \in 0..N : m # c => st'[m] = st[m]
      /\ st'[c] = "queued"
  BY <1>1, <1>3 DEF BridgeTyped, CallState
<1>5. /\ thread' \in [0..N -> Thread \cup {Nobody}]
      /\ \A m \in 0..N : m # c => thread'[m] = thread[m]
      /\ thread'[c] = ThreadFor(c)
  BY <1>1, <1>2, <1>3 DEF BridgeTyped
<1>6. BridgeTyped'
  BY <1>1, <1>3, <1>4, <1>5 DEF BridgeTyped, ProgramTyped, Legal, IsCoroutine
<1>7. \A m \in 0..N : Active(m)' => m = c \/ Active(m)
  BY <1>4 DEF Active
<1>8. \A m \in Call : Blocking(m)' => m # c /\ Blocking(m) /\ caller[m] \in 0..N /\ caller[m] # c
  <2> SUFFICES ASSUME NEW m \in Call, Blocking(m)'
               PROVE  m # c /\ Blocking(m) /\ caller[m] \in 0..N /\ caller[m] # c
    OBVIOUS
  <2>1. m # c /\ Blocking(m)
    BY <1>1, <1>3, <1>7 DEF Blocking
  <2>2. st[caller[m]] = "blocked" /\ caller[m] \in 0..N
    BY <2>1, <1>3 DEF BridgeInv, CallerWaits, BridgeTyped, ProgramTyped
  <2> QED  BY <1>1, <2>1, <2>2
<1>9. OnThread'
  BY <1>2, <1>5, <1>7 DEF BridgeInv, OnThread
<1>10. CallerWaits' /\ OneAtATime'
  BY <1>1, <1>4, <1>8 DEF BridgeInv, CallerWaits, OneAtATime
<1>11. Elsewhere'
  BY <1>1, <1>3, <1>5, <1>8 DEF BridgeInv, Elsewhere
<1>12. Occupied'
  BY <1>1, <1>4, <1>5 DEF BridgeInv, Occupied
<1> QED  BY <1>6, <1>9, <1>10, <1>11, <1>12 DEF BridgeInv

LEMMA StartInv == ASSUME BridgeInv, NEW n \in 0..N, Start(n) PROVE BridgeInv'
<1>1. /\ st[n] = "queued" /\ st' = [st EXCEPT ![n] = "running"]
      /\ UNCHANGED <<caller, kind, awaited, thread, occupant>>
  BY DEF Start, progVars
<1>2. BridgeTyped /\ Call \subseteq 0..N
  BY ConstantsAssumption DEF BridgeInv, Call
<1>3. /\ st' \in [0..N -> CallState]
      /\ \A m \in 0..N : m # n => st'[m] = st[m]
      /\ st'[n] = "running"
  BY <1>1, <1>2 DEF BridgeTyped, CallState
<1>4. BridgeTyped'
  BY <1>1, <1>2, <1>3 DEF BridgeTyped, ProgramTyped, Legal, IsCoroutine
<1>5. \A m \in 0..N : Active(m)' => Active(m)
  BY <1>1, <1>3 DEF Active
<1>6. \A m \in Call : Blocking(m)' => Blocking(m) /\ caller[m] \in 0..N /\ caller[m] # n
  <2> SUFFICES ASSUME NEW m \in Call, Blocking(m)'
               PROVE  Blocking(m) /\ caller[m] \in 0..N /\ caller[m] # n
    OBVIOUS
  <2>1. Blocking(m)
    BY <1>1, <1>2, <1>5 DEF Blocking
  <2>2. st[caller[m]] = "blocked" /\ caller[m] \in 0..N
    BY <2>1, <1>2 DEF BridgeInv, CallerWaits, BridgeTyped, ProgramTyped
  <2> QED  BY <1>1, <2>1, <2>2
<1>7. OnThread' /\ OneAtATime' /\ Elsewhere'
  BY <1>1, <1>5, <1>6 DEF BridgeInv, OnThread, OneAtATime, Elsewhere
<1>8. CallerWaits' /\ Occupied'
  BY <1>1, <1>3, <1>6 DEF BridgeInv, CallerWaits, Occupied
<1> QED  BY <1>4, <1>7, <1>8 DEF BridgeInv

(* The end of an awaited call.                                             *)
LEMMA EndAwaitedInv ==
  ASSUME BridgeInv, NEW n \in Call, NEW result \in {"returned", "raised"}, st[n] = "running",
         st' = [st EXCEPT ![n] = result], UNCHANGED <<caller, kind, awaited, thread, occupant>>
  PROVE  BridgeInv'
<1>1. BridgeTyped /\ Call \subseteq 0..N /\ n \in 0..N
  BY ConstantsAssumption DEF BridgeInv, Call
<1>2. /\ st' \in [0..N -> CallState]
      /\ \A m \in 0..N : m # n => st'[m] = st[m]
      /\ st'[n] = result
  BY <1>1 DEF BridgeTyped, CallState
<1>3. BridgeTyped'
  BY <1>1, <1>2 DEF BridgeTyped, ProgramTyped, Legal, IsCoroutine
<1>4. \A m \in 0..N : Active(m)' => Active(m)
  BY <1>2 DEF Active
<1>5. \A m \in Call : Blocking(m)' => Blocking(m) /\ caller[m] \in 0..N /\ caller[m] # n
  <2> SUFFICES ASSUME NEW m \in Call, Blocking(m)'
               PROVE  Blocking(m) /\ caller[m] \in 0..N /\ caller[m] # n
    OBVIOUS
  <2>1. Blocking(m)
    BY <1>1, <1>4 DEF Blocking
  <2>2. caller[m] \in 0..N
    BY <1>1 DEF BridgeTyped, ProgramTyped
  <2> QED  BY <1>1, <2>1, <2>2, RunningNotBlocked
<1>6. OnThread' /\ OneAtATime' /\ Elsewhere'
  BY <1>4, <1>5 DEF BridgeInv, OnThread, OneAtATime, Elsewhere
<1>7. CallerWaits' /\ Occupied'
  BY <1>2, <1>5 DEF BridgeInv, CallerWaits, Occupied
<1> QED  BY <1>3, <1>6, <1>7 DEF BridgeInv

(* The end of a call its caller is blocked for.                            *)
LEMMA EndBlockingInv ==
  ASSUME BridgeInv, NEW n \in Call, NEW result \in {"returned", "raised"},
         st[n] = "running", ~awaited[n],
         st' = [st EXCEPT ![n] = result, ![caller[n]] = "running"], occupant' = Unblocked(n),
         UNCHANGED <<caller, kind, awaited, thread>>
  PROVE  BridgeInv'
<1> DEFINE p == caller[n]
<1>1. BridgeTyped /\ Call \subseteq 0..N /\ n \in 0..N /\ p \in 0..N /\ p < n
  BY ConstantsAssumption DEF BridgeInv, BridgeTyped, ProgramTyped, Call
<1>2. Blocking(n) /\ st[p] = "blocked" /\ thread[p] \in Thread
  BY <1>1 DEF Blocking, Active, BridgeInv, CallerWaits, OnThread
<1>3. /\ st' \in [0..N -> CallState]
      /\ \A m \in 0..N : m # n /\ m # p => st'[m] = st[m]
      /\ st'[n] = result /\ st'[p] = "running"
  BY <1>1 DEF BridgeTyped, CallState
<1>4. /\ occupant' \in [Thread -> (0..N) \cup {Nobody}]
      /\ \A t \in Thread : occupant'[t] = IF t = thread[p] THEN Nobody ELSE occupant[t]
  BY <1>1, <1>2 DEF BridgeTyped, Unblocked
<1>5. BridgeTyped'
  BY <1>1, <1>3, <1>4 DEF BridgeTyped, ProgramTyped, Legal, IsCoroutine
<1>6. \A m \in 0..N : Active(m)' => Active(m) /\ m # n
  BY <1>2, <1>3 DEF Active
<1>7. \A m \in Call : Blocking(m)' => Blocking(m) /\ caller[m] \in 0..N \ {n, p}
  <2> SUFFICES ASSUME NEW m \in Call, Blocking(m)'
               PROVE  Blocking(m) /\ caller[m] \in 0..N /\ caller[m] # n /\ caller[m] # p
    OBVIOUS
  <2>1. Blocking(m) /\ m # n
    BY <1>1, <1>6 DEF Blocking
  <2>2. caller[m] \in 0..N /\ caller[m] # n
    BY <1>1, <2>1, RunningNotBlocked DEF BridgeTyped, ProgramTyped
  <2>3. caller[m] # p
    BY <1>2, <2>1 DEF BridgeInv, OneAtATime
  <2> QED  BY <2>1, <2>2, <2>3
<1>8. OnThread' /\ OneAtATime' /\ Elsewhere'
  BY <1>6, <1>7 DEF BridgeInv, OnThread, OneAtATime, Elsewhere
<1>9. CallerWaits'
  BY <1>3, <1>7 DEF BridgeInv, CallerWaits
<1>10. Occupied'
  <2> SUFFICES ASSUME NEW t \in Thread, NEW m \in 0..N
               PROVE  occupant'[t] = m <=> st'[m] = "blocked" /\ thread'[m] = t
    BY DEF Occupied
  <2>0. thread' = thread
    OBVIOUS
  <2>1. /\ occupant[t] = m <=> st[m] = "blocked" /\ thread[m] = t
        /\ occupant[thread[p]] = p
    BY <1>1, <1>2 DEF BridgeInv, Occupied
  <2>2. CASE t = thread[p]
    BY <1>3, <1>4, <2>0, <2>1, <2>2, ConstantsAssumption
  <2>3. CASE t # thread[p]
    BY <1>3, <1>4, <2>0, <2>1, <2>3
  <2> QED  BY <2>2, <2>3
<1> QED  BY <1>5, <1>8, <1>9, <1>10 DEF BridgeInv

LEMMA BridgeNextInv == BridgeInv /\ [Next]_vars => BridgeInv'
<1> SUFFICES ASSUME BridgeInv, [Next]_vars PROVE BridgeInv'
  OBVIOUS
<1>1. ASSUME NEW n \in 0..N, NEW c \in Call, Refuse(n, c) \/ Block(n, c) \/ Await(n, c)
      PROVE  BridgeInv'
  BY <1>1, RefuseInv, BlockInv, AwaitInv
<1>2. ASSUME NEW n \in 0..N, Start(n) PROVE BridgeInv'
  BY <1>2, StartInv
<1>3. ASSUME NEW n \in 0..N, End(n) PROVE BridgeInv'
  <2>1. n \in Call /\ st[n] = "running" /\ UNCHANGED <<caller, kind, awaited, thread>>
    BY <1>3 DEF End, progVars
  <2>2. PICK result \in {"returned", "raised"} :
          IF awaited[n]
          THEN st' = [st EXCEPT ![n] = result] /\ UNCHANGED occupant
          ELSE /\ st' = [st EXCEPT ![n] = result, ![caller[n]] = "running"]
               /\ occupant' = Unblocked(n)
    BY <1>3 DEF End
  <2>3. CASE awaited[n]
    BY <2>1, <2>2, <2>3, EndAwaitedInv
  <2>4. CASE ~awaited[n]
    BY <2>1, <2>2, <2>4, EndBlockingInv
  <2> QED  BY <2>3, <2>4
<1>4. CASE UNCHANGED vars
  BY <1>4
  DEF vars, progVars, BridgeInv, BridgeTyped, ProgramTyped, Legal, IsCoroutine, OnThread, Active,
      CallerWaits, Blocking, OneAtATime, Elsewhere, Occupied
<1> QED  BY <1>1, <1>2, <1>3, <1>4 DEF Next, Step

(* A thread is blocked by the one body that made a blocking call on it and *)
(* the call it waits for runs on another thread, however deep the program  *)
(* nests its calls (_SyncWrapper.__call__, _TaskRunner.get_run_future).    *)
THEOREM BlockedElsewhereAlways == Spec => []BlockedElsewhere
<1>1. BridgeInv => BlockedElsewhere
  <2> SUFFICES ASSUME BridgeInv PROVE BlockedElsewhere
    OBVIOUS
  <2>1. ASSUME NEW n \in 0..N, NEW c \in Call, c \in CallsOf(n), ~awaited[c], ~Ended(c), st[c] # "idle"
        PROVE  thread[c] # thread[n]
    <3>1. caller[c] = n /\ c \in 0..N
      BY <2>1, ConstantsAssumption DEF CallsOf, Call
    <3>2. Blocking(c)
      BY <2>1, <3>1 DEF Blocking, Active, Ended, BridgeInv, BridgeTyped, CallState
    <3> QED  BY <3>1, <3>2 DEF BridgeInv, Elsewhere
  <2> QED  BY <2>1 DEF BlockedElsewhere, BridgeInv, Occupied
<1> QED  BY BridgeInitInv, BridgeNextInv, <1>1, PTL DEF Spec

-----------------------------------------------------------------------------
(* MapTasks: the tasks that are mapped over the arguments.                 *)
TaskState == {"none", "running", "done", "failed", "cancelling", "cancelled"}

MapTyped ==
  /\ count \in Nat /\ current \in 0..count
  /\ task \in [1..count -> TaskState]
  /\ pc = "new" => current = 0
  /\ pc = "awaiting" => current > 0

(* What the consumer has passed has ended; in a local run nothing is       *)
(* started before its turn.                                                *)
Passed(i)     == i < current \/ (i = current /\ pc = "between")
PassedEnded   == pc \in {"between", "awaiting"} => \A i \in 1..count : Passed(i) => task[i] # "running"
LocalInTurn   == local => \A i \in 1..count : i > current => task[i] # "running"
MapInv == MapTyped /\ PassedEnded /\ LocalInTurn /\ RestCancelled

LEMMA MapInitInv == MapInit => MapInv
BY DEF MapInit, MapInv, MapTyped, TaskState, PassedEnded, LocalInTurn, RestCancelled

(* A task ends, or has been cancelled: none starts to run.                 *)
LEMMA TaskInv == ASSUME MapInv, NEW i \in 1..count, TaskEnds(i) \/ TaskCancelled(i) PROVE MapInv'
<1>1. UNCHANGED <<count, local, current, pc>>
  BY DEF TaskEnds, TaskCancelled, inputVars
<1>2. /\ task' \in [1..count -> TaskState]
      /\ \A k \in 1..count : task'[k] = "running" => task[k] = "running"
  BY DEF TaskEnds, TaskCancelled, MapInv, MapTyped, TaskState
<1>3. MapTyped'
  BY <1>1, <1>2 DEF MapInv, MapTyped
<1>4. PassedEnded' /\ LocalInTurn'
  BY <1>1, <1>2 DEF MapInv, PassedEnded, Passed, LocalInTurn
<1>5. RestCancelled'
  BY <1>1, <1>2 DEF MapInv, RestCancelled
<1> QED  BY <1>3, <1>4, <1>5 DEF MapInv

LEMMA CancelledTyped ==
  ASSUME MapInv, NEW S
  PROVE  /\ Cancelled(S) \in [1..count -> TaskState]
         /\ \A k \in 1..count : Cancelled(S)[k] = "running" => k \notin S /\ task[k] = "running"
BY DEF MapInv, MapTyped, TaskState, Cancelled

LEMMA MapStepInv == ASSUME MapInv, Consume \/ Leave \/ CancelConsumer PROVE MapInv'
<1>0. MapTyped /\ PassedEnded /\ LocalInTurn /\ RestCancelled /\ UNCHANGED <<count, local>>
  BY DEF MapInv, Consume, Leave, CancelConsumer, StartMap, Exhausted, Pull, PullLocal, Yield, Raise, inputVars
<1>1. CASE StartMap \/ Exhausted \/ Leave
  <2>1. UNCHANGED <<task, current>> /\ pc' \in {"between", "refused", "ended", "left"}
        /\ (pc' = "between" => pc = "new")
    BY <1>1 DEF StartMap, Exhausted, Leave
  <2>2. MapTyped' /\ LocalInTurn' /\ RestCancelled'
    BY <1>0, <2>1 DEF MapTyped, LocalInTurn, RestCancelled
  <2>3. PassedEnded'
    BY <1>0, <2>1 DEF MapTyped, PassedEnded, Passed
  <2> QED  BY <2>2, <2>3 DEF MapInv
<1>2. CASE Pull
  <2>1. /\ pc = "between" /\ ~local /\ current < count /\ current' = current + 1 /\ pc' = "awaiting"
        /\ task' = task \/ (current = 0 /\ task' = [i \in 1..count |-> "running"])
    BY <1>2 DEF Pull
  <2>2. task' \in [1..count -> TaskState]
    BY <1>0, <2>1 DEF MapTyped, TaskState
  <2>3. MapTyped' /\ LocalInTurn' /\ RestCancelled'
    BY <1>0, <2>1, <2>2 DEF MapTyped, LocalInTurn, RestCancelled
  <2>4. PassedEnded'
    <3> SUFFICES ASSUME NEW i \in 1..count, Passed(i)' PROVE task'[i] # "running"
      BY <1>0 DEF PassedEnded
    <3>1. i <= current
      BY <1>0, <2>1 DEF Passed, MapTyped
    <3>2. task' = task /\ Passed(i)
      BY <1>0, <2>1, <3>1 DEF Passed, MapTyped
    <3> QED  BY <1>0, <2>1, <3>2 DEF PassedEnded
  <2> QED  BY <2>3, <2>4 DEF MapInv
<1>3. CASE PullLocal
  <2>1. /\ pc = "between" /\ local /\ current < count /\ current' = current + 1
        /\ \/ pc' = "between" /\ task' = task
           \/ pc' = "awaiting" /\ task' = [task EXCEPT ![current'] = "running"]
    BY <1>3 DEF PullLocal
  <2>2. task' \in [1..count -> TaskState]
    BY <1>0, <2>1 DEF MapTyped, TaskState
  <2>3. \A i \in 1..count : task[i] # "running"
    BY <1>0, <2>1 DEF MapTyped, PassedEnded, Passed, LocalInTurn
  <2>4. MapTyped' /\ RestCancelled'
    BY <1>0, <2>1, <2>2 DEF MapTyped, RestCancelled
  <2>5. LocalInTurn'
    BY <1>0, <2>1, <2>3 DEF MapTyped, LocalInTurn
  <2>6. PassedEnded'
    BY <1>0, <2>1, <2>3 DEF MapTyped, PassedEnded, Passed
  <2> QED  BY <2>4, <2>5, <2>6 DEF MapInv
<1>4. CASE Yield
  <2>1. /\ pc = "awaiting" /\ pc' = "between" /\ task[current] # "running"
        /\ UNCHANGED <<task, current>>
    BY <1>4 DEF Yield, Outcome
  <2>2. MapTyped' /\ LocalInTurn' /\ RestCancelled'
    BY <1>0, <2>1 DEF MapTyped, LocalInTurn, RestCancelled
  <2>3. PassedEnded'
    BY <1>0, <2>1 DEF MapTyped, PassedEnded, Passed
  <2> QED  BY <2>2, <2>3 DEF MapInv
<1>5. CASE Raise
  <2>1. /\ pc = "awaiting" /\ task[current] = "failed" /\ pc' = "raised" /\ current' = current
        /\ \/ local /\ task' = task
           \/ ~local /\ task' = Cancelled(Rest)
    BY <1>5 DEF Raise
  <2>2. task' \in [1..count -> TaskState]
        /\ \A k \in 1..count : task'[k] = "running" => task[k] = "running" /\ (local \/ k \notin Rest)
    BY <2>1, <1>0, CancelledTyped DEF MapTyped
  <2>3. MapTyped' /\ PassedEnded' /\ LocalInTurn'
    BY <1>0, <2>1, <2>2 DEF MapTyped, PassedEnded, LocalInTurn
  <2>4. RestCancelled'
    <3> SUFFICES ASSUME NEW i \in 1..count, task'[i] = "running" PROVE i = current + 1
      BY <1>0, <2>1 DEF RestCancelled
    <3>1. i >= current
      BY <1>0, <2>1, <2>2 DEF MapTyped, PassedEnded, Passed
    <3>2. i # current
      BY <2>1, <2>2
    <3>3. ~local /\ i \notin Rest
      BY <1>0, <2>2, <3>1, <3>2 DEF MapTyped, LocalInTurn
    <3> QED  BY <1>0, <3>1, <3>2, <3>3 DEF MapTyped, Rest
  <2> QED  BY <2>3, <2>4 DEF MapInv
<1>6. CASE CancelConsumer
  <2>1. ~local /\ pc' = "left" /\ current' = current /\ task' = Cancelled({current})
    BY <1>6 DEF CancelConsumer
  <2>2. task' \in [1..count -> TaskState]
    BY <2>1, CancelledTyped
  <2> QED  BY <1>0, <2>1, <2>2 DEF MapInv, MapTyped, PassedEnded, LocalInTurn, RestCancelled
<1> QED  BY <1>1, <1>2, <1>3, <1>4, <1>5, <1>6 DEF Consume

LEMMA MapNextInv == MapInv /\ [MapNext]_mapVars => MapInv'
<1> SUFFICES ASSUME MapInv, [MapNext]_mapVars PROVE MapInv'
  OBVIOUS
<1>1. CASE Consume \/ Leave \/ CancelConsumer
  BY <1>1, MapStepInv
<1>2. CASE \E i \in 1..count : TaskEnds(i) \/ TaskCancelled(i)
  BY <1>2, TaskInv
<1>3. CASE UNCHANGED mapVars
  BY <1>3
  DEF mapVars, inputVars, MapInv, MapTyped, PassedEnded, Passed, LocalInTurn, RestCancelled
<1> QED  BY <1>1, <1>2, <1>3 DEF MapNext

(* When an error is raised to the consumer, the next task in line is the   *)
(* only one that can be left running (_MapIterator.__anext__).             *)
THEOREM RestCancelledAlways == MapSpec => []RestCancelled
<1>1. MapInv => RestCancelled
  BY DEF MapInv
<1> QED  BY MapInitInv, MapNextInv, <1>1, PTL DEF MapSpec
=============================================================================
