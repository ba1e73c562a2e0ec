------------------------------ MODULE SyncBridge ------------------------------
(***************************************************************************)
(* Blocking calls into event loops: how sync code calls async code and     *)
(* tasks call tasks in a local run (syncify/_api.py, _run.py,              *)
(* _local_controller.py, _task.py).                                        *)
(*                                                                         *)
(* Call 0 is a user's thread.  Every other call is made by an earlier one, *)
(* its caller, and is                                                      *)
(*   fn     a function made sync by syncify (flyte.run, a remote query),   *)
(*          which always runs on the loop of the one background thread;    *)
(*   async  an async task, which runs on the loop of its caller;           *)
(*   sync   a sync task, which runs on the loop of the local controller's  *)
(*          runner for the caller's thread.                                *)
(* A caller either blocks its thread until the call returns or awaits it,  *)
(* together with its other awaited calls.  Threads are named as the code   *)
(* names them: a runner's name is its owner's with a suffix.               *)
(***************************************************************************)
EXTENDS Naturals, FiniteSets

CONSTANTS
  N,        \* calls: 1..N
  Callers,  \* the callers of each call that are tried
  Nobody

ASSUME ConstantsAssumption ==
  /\ N \in Nat \ {0} /\ Nobody \notin 0..N
  /\ Callers \subseteq [1..N -> 0..(N - 1)]
  /\ \A f \in Callers : \A n \in 1..N : f[n] < n

Call   == 1..N
Kinds  == {"fn", "async", "sync"}
Thread == {"user", "background"} \X (0..N)     \* an owner and the runners between

VARIABLES
  caller, kind, awaited,  \* the program: who calls what, and how
  st,                     \* each call: where it is
  thread,                 \* the thread of each call that was made
  occupant                \* the call whose body blocks a thread

progVars == <<caller, kind, awaited>>
vars == <<progVars, st, thread, occupant>>

Background == <<"background", 0>>
Runner(t)  == <<t[1], t[2] + 1>>

(* The thread a call runs on (_SyncWrapper, submit and submit_sync).       *)
ThreadFor(c) ==
  CASE kind[c] = "fn"    -> Background
    [] kind[c] = "async" -> thread[caller[c]]
    [] kind[c] = "sync"  -> Runner(thread[caller[c]])

IsCoroutine(n) == n # 0 /\ kind[n] # "sync"

(* Only a coroutine can await, and an async task has to be awaited.        *)
Legal ==
  \A n \in Call :
    /\ awaited[n] => IsCoroutine(caller[n])
    /\ kind[n] = "async" => awaited[n]

Init ==
  /\ caller \in Callers /\ kind \in [Call -> Kinds] /\ awaited \in [Call -> BOOLEAN]
  /\ Legal
  /\ st = [n \in 0..N |-> IF n = 0 THEN "running" ELSE "idle"]
  /\ thread = [n \in 0..N |-> IF n = 0 THEN <<"user", 0>> ELSE Nobody]
  /\ occupant = [t \in Thread |-> Nobody]

CallsOf(n) == {c \in Call : caller[c] = n}
Ended(n)   == st[n] \in {"returned", "raised"}
Free(t)    == occupant[t] = Nobody

-----------------------------------------------------------------------------
(* A caller makes its calls in order; a blocking one has to end before it  *)
(* goes on.                                                                *)
Turn(n, c) ==
  /\ st[n] = "running" /\ Free(thread[n])
  /\ c \in CallsOf(n) /\ st[c] = "idle"
  /\ \A d \in CallsOf(n) : d < c => st[d] # "idle"

(* "Deadlock detected: blocking call used in syncify thread".              *)
NeverSame(n, c)  == FALSE
SameThread(n, c) == kind[c] = "fn" /\ thread[n] = Background

Refuse(n, c) ==
  /\ Turn(n, c) /\ ~awaited[c] /\ SameThread(n, c)
  /\ st' = [st EXCEPT ![c] = "raised"]
  /\ UNCHANGED <<progVars, thread, occupant>>

(* run_coroutine_threadsafe(...).result()                                  *)
Block(n, c) ==
  /\ Turn(n, c) /\ ~awaited[c] /\ ~SameThread(n, c)
  /\ st' = [st EXCEPT ![c] = "queued", ![n] = "blocked"]
  /\ thread' = [thread EXCEPT ![c] = ThreadFor(c)]
  /\ occupant' = [occupant EXCEPT ![thread[n]] = n]
  /\ UNCHANGED progVars

(* aio: wrap_future of the same, or the coroutine itself on its own loop.  *)
Await(n, c) ==
  /\ Turn(n, c) /\ awaited[c]
  /\ st' = [st EXCEPT ![c] = "queued"]
  /\ thread' = [thread EXCEPT ![c] = ThreadFor(c)]
  /\ UNCHANGED <<progVars, occupant>>

(* A loop starts what was submitted to it when its thread is not blocked.  *)
Start(n) ==
  /\ st[n] = "queued" /\ Free(thread[n])
  /\ st' = [st EXCEPT ![n] = "running"]
  /\ UNCHANGED <<progVars, thread, occupant>>

(* A call returns or raises when those it made have ended; it raises       *)
(* earlier if one that it awaits raised (gather).                          *)
AllEnded(n)  == \A c \in CallsOf(n) : Ended(c)
Failed(n)    == \E c \in CallsOf(n) : awaited[c] /\ st[c] = "raised"
Called(n)    == \A c \in CallsOf(n) : st[c] # "idle"

StillOccupied(n) == occupant
Unblocked(n)     == [occupant EXCEPT ![thread[caller[n]]] = Nobody]

End(n) ==
  /\ n \in Call /\ st[n] = "running" /\ Free(thread[n]) /\ Called(n)
  /\ \E result \in {"returned", "raised"} :
       /\ AllEnded(n) \/ (result = "raised" /\ Failed(n))
       /\ IF awaited[n]
          THEN st' = [st EXCEPT ![n] = result] /\ UNCHANGED occupant
          ELSE /\ st' = [st EXCEPT ![n] = result, ![caller[n]] = "running"]
               /\ occupant' = Unblocked(n)
  /\ UNCHANGED <<progVars, thread>>

Step(n) == (\E c \in Call : Refuse(n, c) \/ Block(n, c) \/ Await(n, c)) \/ Start(n) \/ End(n)

Next == \E n \in 0..N : Step(n)

Spec == Init /\ [][Next]_vars

(* The threads run, and so do the loops that are not blocked.              *)
Fairness == \A n \in 0..N : WF_vars(Step(n))
FairSpec == Spec /\ Fairness

-----------------------------------------------------------------------------
(* A thread is blocked by the one body that made a blocking call on it,    *)
(* and runs nothing else meanwhile: that call is on another thread.        *)
BlockedElsewhere ==
  /\ \A t \in Thread, n \in 0..N : occupant[t] = n <=> st[n] = "blocked" /\ thread[n] = t
  /\ \A n \in 0..N, c \in Call :
       st[n] = "blocked" /\ c \in CallsOf(n) /\ ~awaited[c] /\ ~Ended(c) /\ st[c] # "idle"
         => thread[c] # thread[n]

(* The calls a call is made under.                                         *)
Above[n \in 0..N] == IF n = 0 THEN {} ELSE {caller[n]} \cup Above[caller[n]]

(* A sync task on a runner of the background thread calls a function, which *)
(* needs the background loop; but that thread is blocked in a sync task, or *)
(* the function itself needs the runner, for a sync task under it.          *)
Trap ==
  \E f, s \in Call :
    /\ kind[f] = "fn" /\ st[f] # "idle" /\ \E k \in 1..N : thread[caller[f]] = <<"background", k>>
    /\ kind[s] = "sync" /\ thread[s] = <<"background", 1>>
    /\ ~awaited[s] \/ f \in Above[s]

(* Every call ends, unless the program is in such a trap, which nothing *)
(* detects: the check of __call__ compares the caller's thread with the    *)
(* background thread, not the threads that wait for the caller.            *)
CallsEnd == \A n \in Call : st[n] # "idle" ~> Ended(n) \/ Trap
=============================================================================
