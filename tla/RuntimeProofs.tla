----------------------------- MODULE RuntimeProofs -----------------------------
(***************************************************************************)
(* Theorems about Runtime for every set of calls, every choice of those in *)
(* the background, and every bound on retries and failures of the watch.   *)
(***************************************************************************)
EXTENDS Runtime, FiniteSetTheorems, TLAPS

(* Every step of the process, as one disjunct per action.                  *)
LEMMA StepCases ==
  ASSUME [Next]_vars
  PROVE  \/ Connect \/ WatcherStarts \/ WatcherWakes \/ Crash \/ PoolEnds
         \/ Construct \/ RunCoros \/ Report \/ AskStop \/ Stop \/ CancelRest \/ Leave
         \/ Load \/ (\E o \in {"ok", "err"} : BodyEnds(o)) \/ CancelBody \/ BodyCancelled
         \/ Finalize \/ Upload \/ CancelTask
         \/ \E c \in Call : UseInformer(c) \/ StartInformer(c) \/ InformerStarted(c)
         \/ \E c \in Call : Launch(c) \/ Return(c) \/ CancelAction(c) \/ Ask(c) \/ CancelCall(c)
         \/ \E i \in Call : \/ WatchRetries(i) \/ HandleInformerError(i) \/ WatchFails(i)
                            \/ WatchMessage(i)
         \/ UNCHANGED vars
BY DEF Next, ThreadStep, MainStep, TaskStep, CallStep, WatchStep, Exited, Informer

-----------------------------------------------------------------------------
(* 1. Types.  The call that holds the lock is the one in start, and no     *)
(* other is: the informer it has put in the cache is its own.              *)

StarterLocks ==
  \A c \in Call : call[c] = "starting" => lock = c /\ via[c] = c /\ watch[c] # "none"

MainTyped ==
  /\ main \in {"constructing", "racing", "reporting", "stop", "stopping", "exiting",
               "leaving", "exited"}
  /\ code \in {"none", "ok", "error"}
  /\ watcher \in {"new", "waiting", "raised", "refused", "cancelled"}
  /\ stopTask \in BOOLEAN

ThreadTyped ==
  /\ thread \in {"connecting", "running", "ended", "crashed"}
  /\ running \in BOOLEAN /\ event \in BOOLEAN

TaskTyped ==
  /\ command \in Command
  /\ task \in {"loading", "executing", "unwinding", "finalizing", "uploading", "done",
               "raised", "raisedSystem", "cancelled"}
  /\ outcome \in {"none", "ok", "err", "cancelled"}
  /\ uploaded \subseteq {"outputs", "error"}

ControlTyped == MainTyped /\ ThreadTyped /\ TaskTyped

WatchState == {"none", "watching", "backoff", "raised", "stopped"}

CallsTyped ==
  /\ call \in [Call -> CallState]
  /\ via \in [Call -> Call \cup {NoCall}]
  /\ cached \in Call \cup {NoCall} /\ lock \in Call \cup {NoCall}
  /\ watch \in [Call -> WatchState]
  /\ failures \in [Call -> Nat] /\ attached \in [Call -> BOOLEAN]
  /\ faults \in 0..MaxFaults

Waiter == {"queued", "launched"}

LockHeld == lock # NoCall => call[lock] = "starting" /\ cached = lock

WaitersWatched ==
  \A c \in Call : call[c] \in Waiter => via[c] # NoCall /\ watch[via[c]] # "none"

CachedStarted == cached # NoCall => watch[cached] # "none"

CallInv == CallsTyped /\ LockHeld /\ StarterLocks /\ WaitersWatched /\ CachedStarted

LEMMA TypeParts == ControlTyped /\ CallInv => TypeOK
BY DEF TypeOK, ControlTyped, MainTyped, ThreadTyped, TaskTyped, CallInv, CallsTyped, LockHeld, WaitersWatched, WatchState,
       Waiter, Informer

LEMMA InitTypes == Init => ControlTyped /\ CallInv
<1> SUFFICES ASSUME Init PROVE ControlTyped /\ CallInv
  OBVIOUS
<1>1. ControlTyped
  BY DEF Init, ControlTyped, MainTyped, ThreadTyped, TaskTyped
<1>2. CallsTyped
  BY ConstantsAssumption DEF Init, CallsTyped, CallState, Informer, WatchState
<1>3. LockHeld /\ StarterLocks /\ WaitersWatched /\ CachedStarted
  BY DEF Init, LockHeld, StarterLocks, WaitersWatched, CachedStarted, Waiter
<1>4. QED
  BY <1>1, <1>2, <1>3 DEF CallInv

(* What a cancellation does to the calls.                                  *)
LEMMA CancelledCalls ==
  ASSUME CallsTyped, NEW C \in SUBSET Call, Cancelled(C)
  PROVE  /\ call' \in [Call -> CallState]
         /\ lock' \in {lock, NoCall} /\ (lock' # NoCall => lock' \notin C)
         /\ \A c \in Call \ C : call'[c] = call[c]
         /\ \A c \in C : call'[c] = CASE call[c] \in Pending -> "cancelling"
                                      [] call[c] = "cancelling" -> "interrupted"
                                      [] OTHER -> call[c]
<1>1. call' = [c \in Call |-> CASE c \in C /\ call[c] \in Pending -> "cancelling"
                                [] c \in C /\ call[c] = "cancelling" -> "interrupted"
                                [] OTHER -> call[c]]
  BY DEF Cancelled
<1>2. lock' \in {lock, NoCall} /\ (lock' # NoCall => lock' \notin C)
  BY DEF Cancelled, LockLeft
<1>3. ASSUME NEW c \in Call
      PROVE  /\ call'[c] \in CallState
             /\ c \notin C => call'[c] = call[c]
             /\ c \in C => call'[c] = CASE call[c] \in Pending -> "cancelling"
                                        [] call[c] = "cancelling" -> "interrupted"
                                        [] OTHER -> call[c]
  BY <1>1 DEF CallsTyped, CallState, Pending
<1>4. QED
  BY <1>1, <1>2, <1>3

LEMMA CancelKeeps ==
  ASSUME CallInv, NEW C \in SUBSET Call, Cancelled(C),
         UNCHANGED <<via, cached, watch, failures, attached, faults>>
  PROVE  CallInv'
<1>1. /\ call' \in [Call -> CallState]
      /\ lock' \in {lock, NoCall} /\ (lock' # NoCall => lock' \notin C)
      /\ \A c \in Call \ C : call'[c] = call[c]
      /\ \A c \in C : call'[c] \notin Pending
  BY CancelledCalls DEF Pending, CallInv
<1>2. \A c \in Call : call'[c] \in Pending => c \notin C /\ call'[c] = call[c]
  BY <1>1
<1>3. StarterLocks'
  <2> SUFFICES ASSUME NEW c \in Call, call'[c] = "starting"
               PROVE  lock' = c /\ via'[c] = c /\ watch'[c] # "none"
    BY DEF StarterLocks
  <2>1. c \notin C /\ call[c] = "starting"
    BY <1>2 DEF Pending
  <2>2. lock = c /\ via[c] = c /\ watch[c] # "none"
    BY <2>1 DEF StarterLocks, CallInv
  <2>3. lock' = lock
    BY <2>1, <2>2 DEF Cancelled, LockLeft
  <2>4. QED
    BY <2>2, <2>3
<1>4. CallsTyped'
  BY <1>1 DEF CallInv, CallsTyped
<1>5. LockHeld'
  BY <1>1 DEF CallInv, CallsTyped, LockHeld
<1>6. WaitersWatched' /\ CachedStarted'
  BY <1>2 DEF CallInv, WaitersWatched, CachedStarted, Waiter, Pending
<1>7. QED
  BY <1>3, <1>4, <1>5, <1>6 DEF CallInv

LEMMA RestKeeps ==
  ASSUME CallInv, UNCHANGED <<call, via, infVars>>
  PROVE  CallInv'
BY DEF CallInv, CallsTyped, LockHeld, StarterLocks, WaitersWatched, CachedStarted, infVars

(* Informer.stop and the removal from the cache wait for the lock.         *)
LEMMA EvictKeeps ==
  ASSUME CallInv, lock = NoCall, Evict, UNCHANGED <<call, via, lock, failures, attached, faults>>
  PROVE  CallInv'
<1>1. \A i \in Call : watch'[i] \in WatchState /\ (watch[i] # "none" => watch'[i] # "none")
  BY DEF Evict, Stopped, CallInv, CallsTyped, WatchState, Informer
<1>2. CallsTyped'
  BY <1>1 DEF Evict, CallInv, CallsTyped, Informer
<1>3. LockHeld' /\ StarterLocks'
  BY <1>1 DEF LockHeld, StarterLocks, CallInv
<1>4. WaitersWatched' /\ CachedStarted'
  BY <1>1 DEF WaitersWatched, CachedStarted, CallInv, CallsTyped, Evict
<1>5. QED
  BY <1>2, <1>3, <1>4 DEF CallInv

(* A call that moves on its own, to a state in which it does not wait.     *)
LEMMA CallMoves ==
  ASSUME CallInv, NEW c \in Call, NEW v \in CallState \ {"starting", "queued", "launched"},
         call' = [call EXCEPT ![c] = v], call[c] # "starting", UNCHANGED <<via, infVars>>
  PROVE  CallInv'
<1>1. call'[c] = v /\ \A b \in Call \ {c} : call'[b] = call[b]
  BY DEF CallInv, CallsTyped
<1>2. CallsTyped'
  BY DEF CallInv, CallsTyped, infVars
<1>3. LockHeld' /\ StarterLocks' /\ WaitersWatched' /\ CachedStarted'
  BY <1>1 DEF CallInv, CallsTyped, LockHeld, StarterLocks, WaitersWatched, CachedStarted,
              Waiter, infVars
<1>4. QED
  BY <1>2, <1>3 DEF CallInv

LEMMA CallKeeps ==
  ASSUME CallInv, NEW c \in Call,
         \/ UseInformer(c) \/ StartInformer(c) \/ InformerStarted(c) \/ Launch(c)
         \/ Return(c) \/ CancelAction(c) \/ Ask(c)
  PROVE  CallInv'
<1>1. CASE UseInformer(c)
  <2>1. /\ call' = [call EXCEPT ![c] = "queued"] /\ via' = [via EXCEPT ![c] = cached]
        /\ lock = NoCall /\ cached \in Call /\ watch[cached] # "none" /\ call[c] = "asked"
        /\ UNCHANGED <<cached, lock, watch, failures, attached, faults>>
    BY <1>1 DEF UseInformer, CallInv, CallsTyped, CachedStarted, infVars
  <2>2. /\ call'[c] = "queued" /\ \A b \in Call \ {c} : call'[b] = call[b]
        /\ via'[c] = cached /\ \A b \in Call \ {c} : via'[b] = via[b]
    BY <2>1 DEF CallInv, CallsTyped
  <2>3. CallsTyped'
    BY <2>1 DEF CallInv, CallsTyped, CallState, Pending
  <2>4. LockHeld' /\ StarterLocks' /\ WaitersWatched' /\ CachedStarted'
    BY <2>1, <2>2, ConstantsAssumption
       DEF CallInv, CallsTyped, LockHeld, StarterLocks, WaitersWatched, CachedStarted, Waiter
  <2>5. QED
    BY <2>3, <2>4 DEF CallInv
<1>2. CASE StartInformer(c)
  <2>1. /\ call' = [call EXCEPT ![c] = "starting"] /\ via' = [via EXCEPT ![c] = c]
        /\ watch' = [watch EXCEPT ![c] = "watching"] /\ cached' = c /\ lock' = c
        /\ lock = NoCall /\ call[c] = "asked" /\ UNCHANGED <<failures, attached, faults>>
    BY <1>2 DEF StartInformer
  <2>2. /\ call'[c] = "starting" /\ \A b \in Call \ {c} : call'[b] = call[b]
        /\ via'[c] = c /\ \A b \in Call \ {c} : via'[b] = via[b]
        /\ watch'[c] = "watching" /\ \A b \in Call \ {c} : watch'[b] = watch[b]
    BY <2>1 DEF CallInv, CallsTyped
  <2>3. CallsTyped'
    BY <2>1 DEF CallInv, CallsTyped, CallState, Pending, WatchState
  <2>4. StarterLocks'
    <3>1. \A b \in Call : call[b] # "starting"
      BY <2>1, ConstantsAssumption DEF CallInv, StarterLocks
    <3>2. QED
      BY <2>1, <2>2, <3>1 DEF StarterLocks
  <2>5. LockHeld' /\ WaitersWatched' /\ CachedStarted'
    BY <2>1, <2>2 DEF CallInv, CallsTyped, LockHeld, WaitersWatched, CachedStarted, Waiter
  <2>6. QED
    BY <2>3, <2>4, <2>5 DEF CallInv
<1>3. CASE InformerStarted(c)
  <2>1. /\ call' = [call EXCEPT ![c] = "queued"] /\ attached' = [attached EXCEPT ![c] = TRUE]
        /\ lock' = NoCall /\ call[c] = "starting"
        /\ UNCHANGED <<via, cached, watch, failures, faults>>
    BY <1>3 DEF InformerStarted, Attach
  <2>2. /\ call'[c] = "queued" /\ \A b \in Call \ {c} : call'[b] = call[b]
        /\ lock = c /\ via[c] = c /\ watch[c] # "none"
    BY <2>1 DEF CallInv, CallsTyped, StarterLocks
  <2>3. CallsTyped'
    BY <2>1 DEF CallInv, CallsTyped, CallState, Pending
  <2>4. LockHeld' /\ StarterLocks' /\ WaitersWatched' /\ CachedStarted'
    BY <2>1, <2>2, ConstantsAssumption
       DEF CallInv, LockHeld, StarterLocks, WaitersWatched, CachedStarted, Waiter
  <2>5. QED
    BY <2>3, <2>4 DEF CallInv
<1>4. CASE Launch(c)
  <2>1. /\ call' = [call EXCEPT ![c] = "launched"] /\ call[c] = "queued"
        /\ UNCHANGED <<via, cached, lock, watch, failures, attached, faults>>
    BY <1>4 DEF Launch, infVars
  <2>2. call'[c] = "launched" /\ \A b \in Call \ {c} : call'[b] = call[b]
    BY <2>1 DEF CallInv, CallsTyped
  <2>3. CallsTyped'
    BY <2>1 DEF CallInv, CallsTyped, CallState, Pending
  <2>4. LockHeld' /\ StarterLocks' /\ WaitersWatched' /\ CachedStarted'
    BY <2>1, <2>2 DEF CallInv, LockHeld, StarterLocks, WaitersWatched, CachedStarted, Waiter
  <2>5. QED
    BY <2>3, <2>4 DEF CallInv
<1>5. CASE Return(c)
  <2>1. /\ call' = [call EXCEPT ![c] = "returned"] /\ call[c] = "launched"
        /\ failures' = [failures EXCEPT ![cached] = 0]
        /\ UNCHANGED <<via, cached, lock, watch, attached, faults>>
    BY <1>5 DEF Return
  <2>2. call'[c] = "returned" /\ \A b \in Call \ {c} : call'[b] = call[b]
    BY <2>1 DEF CallInv, CallsTyped
  <2>3. CallsTyped'
    BY <2>1 DEF CallInv, CallsTyped, CallState, Pending
  <2>4. LockHeld' /\ StarterLocks' /\ WaitersWatched' /\ CachedStarted'
    BY <2>1, <2>2 DEF CallInv, LockHeld, StarterLocks, WaitersWatched, CachedStarted, Waiter
  <2>5. QED
    BY <2>3, <2>4 DEF CallInv
<1>6. CASE CancelAction(c)
  <2>1. \E v \in {"cancelled", "failed"} : call' = [call EXCEPT ![c] = v]
    BY <1>6 DEF CancelAction
  <2>2. call[c] # "starting" /\ UNCHANGED <<via, infVars>>
    BY <1>6 DEF CancelAction
  <2>3. QED
    BY <2>1, <2>2, CallMoves DEF CallState, Pending
<1>7. CASE Ask(c)
  <2>1. \E v \in {"asked", "failed"} : call' = [call EXCEPT ![c] = v]
    BY <1>7 DEF Ask
  <2>2. call[c] # "starting" /\ UNCHANGED <<via, infVars>>
    BY <1>7 DEF Ask
  <2>3. QED
    BY <2>1, <2>2, CallMoves DEF CallState, Pending
<1>8. QED
  BY <1>1, <1>2, <1>3, <1>4, <1>5, <1>6, <1>7

LEMMA WatchKeeps ==
  ASSUME CallInv, NEW i \in Call, WatchRetries(i) \/ WatchFails(i) \/ WatchMessage(i)
  PROVE  CallInv'
<1>1. UNCHANGED <<call, via, cached, lock, attached>>
  BY DEF WatchRetries, WatchFails, WatchMessage
<1>2. failures' \in [Call -> Nat] /\ faults' \in 0..MaxFaults
  BY ConstantsAssumption DEF WatchRetries, WatchFails, WatchMessage, CallInv, CallsTyped
<1>3. /\ watch' \in [Call -> WatchState]
      /\ \A j \in Call : watch[j] # "none" => watch'[j] # "none"
  BY DEF WatchRetries, WatchFails, WatchMessage, CallInv, CallsTyped, WatchState
<1>4. CallsTyped'
  BY <1>1, <1>2, <1>3 DEF CallInv, CallsTyped
<1>5. LockHeld' /\ StarterLocks' /\ WaitersWatched' /\ CachedStarted'
  BY <1>1, <1>3
     DEF CallInv, CallsTyped, LockHeld, StarterLocks, WaitersWatched, CachedStarted
<1>6. QED
  BY <1>4, <1>5 DEF CallInv

LEMMA EvictionKeeps ==
  ASSUME CallInv, Finalize \/ CancelTask \/ Stop
  PROVE  CallInv'
<1>1. UNCHANGED <<call, via, lock, failures, attached, faults>>
  BY DEF Finalize, CancelTask, Stop
<1>2. UNCHANGED <<cached, watch>> \/ (lock = NoCall /\ Evict)
  BY DEF Finalize, CancelTask, Stop
<1>3. QED
  BY <1>1, <1>2, EvictKeeps, RestKeeps DEF infVars

LEMMA NextCalls == CallInv /\ [Next]_vars => CallInv'
<1> SUFFICES ASSUME CallInv, [Next]_vars PROVE CallInv'
  OBVIOUS
<1>1. CASE \/ Connect \/ WatcherStarts \/ WatcherWakes \/ Crash \/ PoolEnds
           \/ Construct \/ RunCoros \/ Report \/ AskStop \/ Leave
  <2>1. UNCHANGED <<call, via, infVars>>
    BY <1>1 DEF Connect, WatcherStarts, WatcherWakes, Crash, PoolEnds, Construct, RunCoros,
                Report, AskStop, Leave
  <2>2. QED
    BY <2>1, RestKeeps
<1>2. CASE \/ Load \/ (\E o \in {"ok", "err"} : BodyEnds(o)) \/ BodyCancelled \/ Upload
           \/ \E i \in Call : HandleInformerError(i)
  <2>1. UNCHANGED <<call, via, infVars>>
    BY <1>2 DEF Load, BodyEnds, BodyCancelled, Upload, HandleInformerError
  <2>2. QED
    BY <2>1, RestKeeps
<1>3. CASE UNCHANGED vars
  BY <1>3, RestKeeps DEF vars
<1>4. CASE CancelRest
  <2>1. \E C \in SUBSET Call : Cancelled(C)
    BY <1>4, ConstantsAssumption DEF CancelRest
  <2>2. UNCHANGED <<via, cached, watch, failures, attached, faults>>
    BY <1>4 DEF CancelRest
  <2>3. QED
    BY <2>1, <2>2, CancelKeeps
<1>5. CASE CancelBody
  <2>1. \E C \in SUBSET Call : Cancelled(C)
    BY <1>5 DEF CancelBody
  <2>2. UNCHANGED <<via, cached, watch, failures, attached, faults>>
    BY <1>5 DEF CancelBody
  <2>3. QED
    BY <2>1, <2>2, CancelKeeps
<1>6. ASSUME NEW c \in Call, CancelCall(c) PROVE CallInv'
  <2>1. {c} \in SUBSET Call /\ Cancelled({c})
    BY <1>6 DEF CancelCall
  <2>2. UNCHANGED <<via, cached, watch, failures, attached, faults>>
    BY <1>6 DEF CancelCall
  <2>3. QED
    BY <2>1, <2>2, CancelKeeps
<1>7. CASE Finalize \/ CancelTask \/ Stop
  BY <1>7, EvictionKeeps
<1>8. QED
  BY <1>1, <1>2, <1>3, <1>4, <1>5, <1>6, <1>7, CallKeeps, WatchKeeps, StepCases

(* The calls and the watches leave the coroutines of the main loop alone.  *)
LEMMA CallsApart ==
  ASSUME \/ \E c \in Call : UseInformer(c) \/ StartInformer(c) \/ InformerStarted(c)
         \/ \E c \in Call : Launch(c) \/ Return(c) \/ CancelAction(c) \/ Ask(c) \/ CancelCall(c)
         \/ \E i \in Call : \/ WatchRetries(i) \/ HandleInformerError(i) \/ WatchFails(i)
                            \/ WatchMessage(i)
  PROVE  UNCHANGED <<mainVars, thread, running, taskVars>> /\ (event' = event \/ event' = TRUE)
BY DEF UseInformer, StartInformer, InformerStarted, Launch, Return, CancelAction, Ask, CancelCall,
   WatchRetries, HandleInformerError, WatchFails, WatchMessage, threadVars

LEMMA NextMain == MainTyped /\ [Next]_vars => MainTyped'
<1> SUFFICES ASSUME MainTyped, [Next]_vars PROVE MainTyped'
  OBVIOUS
<1>1. CASE UNCHANGED mainVars
  BY <1>1 DEF MainTyped, mainVars
<1>2. CASE \/ Connect \/ Crash \/ PoolEnds \/ Load \/ (\E o \in {"ok", "err"} : BodyEnds(o))
           \/ BodyCancelled \/ Finalize \/ Upload \/ CancelTask \/ UNCHANGED vars
  BY <1>1, <1>2 DEF Connect, Crash, PoolEnds, Load, BodyEnds, BodyCancelled, Finalize, Upload,
                    CancelTask, vars
<1>3. CASE WatcherStarts \/ WatcherWakes \/ Report \/ AskStop \/ Stop \/ Leave \/ Construct
  BY <1>3 DEF WatcherStarts, WatcherWakes, Report, AskStop, Stop, Leave, Construct, MainTyped
<1>4. CASE CancelBody
  BY <1>4 DEF CancelBody, MainTyped
<1>5. CASE RunCoros
  BY <1>5 DEF RunCoros, CancelWatcher, MainTyped
<1>6. CASE CancelRest
  BY <1>6 DEF CancelRest, CancelWatcher, MainTyped
<1>7. QED
  BY <1>1, <1>2, <1>3, <1>4, <1>5, <1>6, StepCases, CallsApart

LEMMA NextThread == ThreadTyped /\ [Next]_vars => ThreadTyped'
<1> SUFFICES ASSUME ThreadTyped, [Next]_vars PROVE ThreadTyped'
  OBVIOUS
<1>1. CASE UNCHANGED <<thread, running>> /\ (event' = event \/ event' = TRUE)
  BY <1>1 DEF ThreadTyped
<1>2. CASE \/ WatcherStarts \/ Construct \/ RunCoros \/ Report \/ AskStop \/ CancelRest \/ Leave
           \/ Load \/ (\E o \in {"ok", "err"} : BodyEnds(o)) \/ CancelBody \/ BodyCancelled
           \/ Finalize \/ Upload \/ CancelTask \/ UNCHANGED vars
  BY <1>1, <1>2 DEF WatcherStarts, Construct, RunCoros, Report, AskStop, CancelRest, Leave, Load,
                    BodyEnds, CancelBody, BodyCancelled, Finalize, Upload, CancelTask, vars,
                    threadVars
<1>3. CASE Connect \/ WatcherWakes \/ Crash \/ PoolEnds \/ Stop
  BY <1>3 DEF Connect, WatcherWakes, Crash, PoolEnds, Stop, ThreadTyped
<1>4. QED
  BY <1>1, <1>2, <1>3, StepCases, CallsApart

LEMMA NextTask == TaskTyped /\ [Next]_vars => TaskTyped'
<1> SUFFICES ASSUME TaskTyped, [Next]_vars PROVE TaskTyped'
  OBVIOUS
<1>1. CASE UNCHANGED taskVars
  BY <1>1 DEF TaskTyped, taskVars
<1>2. CASE \/ Connect \/ WatcherStarts \/ WatcherWakes \/ Crash \/ PoolEnds \/ Construct
           \/ RunCoros \/ AskStop \/ Stop \/ CancelRest \/ Leave \/ UNCHANGED vars
  BY <1>1, <1>2 DEF Connect, WatcherStarts, WatcherWakes, Crash, PoolEnds, Construct, RunCoros,
                    AskStop, Stop, CancelRest, Leave, vars
<1>3. CASE Report \/ CancelBody \/ Finalize
  BY <1>3 DEF Report, CancelBody, Finalize, TaskTyped
<1>4. CASE Load \/ (\E o \in {"ok", "err"} : BodyEnds(o)) \/ BodyCancelled
  BY <1>4 DEF Load, BodyEnds, BodyCancelled, TaskTyped
<1>5. CASE Upload \/ CancelTask
  <2>1. uploaded' \subseteq {"outputs", "error"}
    BY <1>5 DEF Upload, CancelTask, TaskTyped
  <2>2. UNCHANGED <<command, outcome>> /\ task' \in {"done", "raised", "cancelled"}
    BY <1>5 DEF Upload, CancelTask
  <2>3. QED
    BY <2>1, <2>2 DEF TaskTyped
<1>6. QED
  BY <1>1, <1>2, <1>3, <1>4, <1>5, StepCases, CallsApart

LEMMA NextControl == ControlTyped /\ [Next]_vars => ControlTyped'
BY NextMain, NextThread, NextTask DEF ControlTyped

(* The types hold in every reachable state: in particular the lock of the  *)
(* InformerCache is held by a call in start, whose informer is the cached  *)
(* one, and a call that waits has an informer whose watch was started.     *)
THEOREM TypesCorrect == Spec => []TypeOK
<1>1. Init => ControlTyped /\ CallInv
  BY InitTypes
<1>2. ControlTyped /\ CallInv /\ [Next]_vars => (ControlTyped /\ CallInv)'
  BY NextControl, NextCalls
<1>3. ControlTyped /\ CallInv => TypeOK
  BY TypeParts
<1>4. QED
  BY <1>1, <1>2, <1>3, PTL DEF Spec

-----------------------------------------------------------------------------
(* 2. How the process ends.  Until the race is over nothing has been       *)
(* cancelled, and there is a document exactly when the task's coroutine is *)
(* done; each document tells who wrote it.                                 *)

Early == main \in {"constructing", "racing"}
OneDocument == uploaded = {"outputs"} \/ uploaded = {"error"}

RaceInv ==
  Early => /\ code = "none" /\ stopTask = FALSE
           /\ IF task = "done" THEN OneDocument ELSE uploaded = {}

OkInv == code = "ok" => task = "done" /\ OneDocument /\ main # "reporting"

SystemError == watcher = "raised" \/ task = "raisedSystem"

DocumentInv ==
  /\ "outputs" \in uploaded => outcome = "ok" /\ task \in {"done", "cancelled"}
  /\ "error" \in uploaded => \/ SystemError
                             \/ outcome # "ok" /\ task \in {"done", "cancelled"}
  /\ main = "reporting" => SystemError

ExitInv == RaceInv /\ OkInv /\ DocumentInv

LEMMA ExitInit == Init => ExitInv
BY DEF Init, ExitInv, RaceInv, OkInv, DocumentInv, Early

(* The steps that leave the race, the exit code and the documents alone.   *)
LEMMA ExitRest ==
  ASSUME ExitInv, UNCHANGED <<main, code, stopTask, task, outcome, uploaded>>,
         watcher = "raised" => watcher' = "raised"
  PROVE  ExitInv'
BY DEF ExitInv, RaceInv, OkInv, DocumentInv, Early, OneDocument, SystemError

LEMMA ExitMain ==
  ASSUME ExitInv, Construct \/ RunCoros \/ Report \/ AskStop \/ Stop \/ CancelRest \/ Leave
  PROVE  ExitInv'
<1>1. CASE Construct
  <2>1. UNCHANGED <<stopTask, task, outcome, uploaded, watcher>>
    BY <1>1 DEF Construct, taskVars
  <2>2. /\ main = "constructing" /\ main' \in {"racing", "exited"}
        /\ code' \in {code, "error"} /\ (main' = "racing" => code' = code)
    BY <1>1 DEF Construct
  <2>3. QED
    BY <2>1, <2>2 DEF ExitInv, RaceInv, OkInv, DocumentInv, Early, OneDocument, SystemError
<1>2. CASE RunCoros
  <2>1. UNCHANGED <<task, outcome, uploaded>> /\ (watcher = "raised" => watcher' = "raised")
    BY <1>2 DEF RunCoros, CancelWatcher, WatcherEnded, taskVars
  <2>2. \/ main' = "stop" /\ code' = "ok" /\ Errors = {}
        \/ /\ code' = "error" /\ main' \in {"reporting", "exiting"}
           /\ main' = "reporting" => "raisedSystem" \in Errors
    BY <1>2 DEF RunCoros
  <2>3. "raisedSystem" \in Errors => SystemError
    BY DEF Errors, TaskErrors, SystemError
  <2>4. Errors = {} => task = "done"
    BY <1>2 DEF RunCoros, Errors, TaskErrors, TaskEnded, WatcherEnded
  <2>5. RaceInv'
    BY <2>2 DEF RaceInv, Early
  <2>6. OkInv'
    <3>1. main = "racing"
      BY <1>2 DEF RunCoros
    <3>2. QED
      BY <2>1, <2>2, <2>4, <3>1 DEF ExitInv, RaceInv, OkInv, Early, OneDocument
  <2>7. DocumentInv'
    BY <2>1, <2>2, <2>3 DEF ExitInv, DocumentInv, SystemError
  <2>8. QED
    BY <2>5, <2>6, <2>7 DEF ExitInv
<1>3. CASE Report
  <2>1. UNCHANGED <<code, watcher, task, outcome>> /\ main = "reporting"
    BY <1>3 DEF Report
  <2>2. main' \in {"stop", "exiting"} /\ uploaded' \subseteq uploaded \cup {"error"}
    BY <1>3 DEF Report
  <2>3. QED
    BY <2>1, <2>2 DEF ExitInv, RaceInv, OkInv, DocumentInv, Early, SystemError
<1>4. CASE AskStop \/ Stop \/ CancelRest \/ Leave
  <2>1. UNCHANGED <<task, outcome, uploaded>> /\ (watcher = "raised" => watcher' = "raised")
    BY <1>4 DEF AskStop, Stop, CancelRest, Leave, CancelWatcher, WatcherEnded, taskVars
  <2>2. main' \in {"stopping", "exiting", "leaving", "exited"} /\ code' \in {code, "error"}
    BY <1>4 DEF AskStop, Stop, CancelRest, Leave
  <2>3. QED
    BY <2>1, <2>2 DEF ExitInv, RaceInv, OkInv, DocumentInv, Early, OneDocument, SystemError
<1>5. QED
  BY <1>1, <1>2, <1>3, <1>4

LEMMA ExitTask ==
  ASSUME ExitInv, MainTyped,
         \/ Load \/ (\E o \in {"ok", "err"} : BodyEnds(o)) \/ CancelBody \/ BodyCancelled
         \/ Finalize \/ Upload \/ CancelTask
  PROVE  ExitInv'
<1>1. UNCHANGED <<main, code, watcher>> /\ stopTask' \in {stopTask, FALSE}
  BY DEF Load, BodyEnds, CancelBody, BodyCancelled, Finalize, Upload, CancelTask, mainVars
<1>2. task \notin {"done", "raised", "raisedSystem", "cancelled"}
  BY DEF Load, BodyEnds, CancelBody, BodyCancelled, Finalize, Upload, CancelTask
<1>3. CASE Load \/ (\E o \in {"ok", "err"} : BodyEnds(o)) \/ CancelBody \/ BodyCancelled
           \/ Finalize
  <2>1. uploaded' = uploaded /\ task' # "done"
    BY <1>3 DEF Load, BodyEnds, CancelBody, BodyCancelled, Finalize
  <2>2. QED
    BY <1>1, <1>2, <2>1
       DEF ExitInv, RaceInv, OkInv, DocumentInv, Early, OneDocument, SystemError
<1>4. CASE Upload
  <2>1. outcome' = outcome /\ task' \in {"done", "raised"}
    BY <1>4 DEF Upload
  <2>2. \/ task' = "raised" /\ uploaded' = uploaded
        \/ /\ task' = "done"
           /\ uploaded' = uploaded \cup {IF outcome = "ok" THEN "outputs" ELSE "error"}
    BY <1>4 DEF Upload
  <2>3. QED
    BY <1>1, <1>2, <2>1, <2>2
       DEF ExitInv, RaceInv, OkInv, DocumentInv, Early, OneDocument, SystemError
<1>5. CASE CancelTask
  <2>1. outcome' = outcome /\ task' = "cancelled" /\ stopTask
    BY <1>5 DEF CancelTask
  <2>2. \/ uploaded' = uploaded
        \/ uploaded' = uploaded \cup {IF outcome = "ok" THEN "outputs" ELSE "error"}
    BY <1>5 DEF CancelTask
  <2>3. ~Early
    BY <2>1 DEF ExitInv, RaceInv
  <2>4. QED
    BY <1>1, <1>2, <2>1, <2>2, <2>3
       DEF ExitInv, RaceInv, OkInv, DocumentInv, Early, OneDocument, SystemError
<1>6. QED
  BY <1>3, <1>4, <1>5

LEMMA NextExit == ExitInv /\ MainTyped /\ [Next]_vars => ExitInv'
<1> SUFFICES ASSUME ExitInv, MainTyped, [Next]_vars PROVE ExitInv'
  OBVIOUS
<1>1. CASE Connect \/ Crash \/ PoolEnds \/ UNCHANGED vars
  BY <1>1, ExitRest DEF Connect, Crash, PoolEnds, mainVars, taskVars, vars
<1>2. CASE WatcherStarts \/ WatcherWakes
  BY <1>2, ExitRest DEF WatcherStarts, WatcherWakes, taskVars
<1>3. CASE UNCHANGED <<mainVars, taskVars>>
  BY <1>3, ExitRest DEF mainVars, taskVars
<1>4. QED
  BY <1>1, <1>2, <1>3, ExitMain, ExitTask, StepCases, CallsApart

(* How the process ends is true of what it leaves behind, whatever the     *)
(* body calls, the watch survives and the order in which the race, the     *)
(* uploads and the cancellations happen.                                   *)
THEOREM ExitIsTruthfulAlways == Spec => []ExitIsTruthful
<1>1. ExitInv => ExitIsTruthful
  <2> SUFFICES ASSUME ExitInv PROVE ExitIsTruthful
    OBVIOUS
  <2>1. OneDocument => Cardinality(uploaded) = 1
    BY FS_Singleton DEF OneDocument
  <2>2. main = "exited" /\ code = "ok" => task = "done" /\ Cardinality(uploaded) = 1
    BY <2>1 DEF ExitInv, OkInv
  <2>3. uploaded = {"outputs", "error"} => watcher = "raised"
    BY DEF ExitInv, DocumentInv, SystemError
  <2>4. QED
    BY <2>2, <2>3 DEF ExitIsTruthful
<1>2. Init => MainTyped /\ ExitInv
  BY InitTypes, ExitInit DEF ControlTyped
<1>3. MainTyped /\ ExitInv /\ [Next]_vars => (MainTyped /\ ExitInv)'
  BY NextMain, NextExit
<1>4. QED
  BY <1>1, <1>2, <1>3, PTL DEF Spec

-----------------------------------------------------------------------------
(* 3. Who serves the calls that wait.  An informer is put in the cache by  *)
(* one call, once; it loses its place, and is stopped, only when the body  *)
(* or the race is over.                                                    *)

Gone == {"cancelling", "interrupted", "cancelled", "failed"}

(* What one step does to the call of c and the informer of c.              *)
CallMove(c) ==
  \/ call'[c] = call[c]
  \/ call[c] = "idle" /\ call'[c] \in {"asked", "failed"} /\ task # "loading"
  \/ /\ call[c] = "asked" /\ call'[c] = "queued" /\ via'[c] = cached
     /\ lock = NoCall /\ cached \in Call
  \/ call[c] = "asked" /\ call'[c] = "starting" /\ via'[c] = c /\ cached = NoCall
  \/ call[c] = "starting" /\ call'[c] = "queued" /\ attached'[c]
  \/ call[c] = "queued" /\ call'[c] = "launched"
  \/ call[c] = "launched" /\ call'[c] = "returned"
  \/ call[c] \in Pending /\ call'[c] = "cancelling"
  \/ call[c] = "cancelling" /\ call'[c] \in {"interrupted", "cancelled", "failed"}

InformerMove(c) ==
  /\ call[c] # "asked" => via'[c] = via[c]
  /\ watch[c] = "none" /\ watch'[c] # "none" => call[c] = "asked" /\ call'[c] = "starting"
  /\ attached[c] => attached'[c]

Serving == task = "executing" /\ main = "racing"

CallsMove ==
  /\ \A c \in Call : CallMove(c) /\ InformerMove(c)
  /\ Serving' => /\ cached' = cached \/ cached = NoCall
                 /\ \A c \in Call : watch'[c] = "stopped" => watch[c] = "stopped"

LEMMA RestMoves ==
  ASSUME UNCHANGED <<call, via, watch, attached>>, cached' = cached
  PROVE  CallsMove
BY DEF CallsMove, CallMove, InformerMove

LEMMA CancelMoves ==
  ASSUME CallInv, NEW C \in SUBSET Call, Cancelled(C), UNCHANGED <<via, cached, watch, attached>>
  PROVE  CallsMove
<1>1. ASSUME NEW c \in Call PROVE CallMove(c)
  <2>1. CASE c \notin C
    BY <2>1, CancelledCalls DEF CallInv, CallMove
  <2>2. CASE c \in C
    <3>1. call'[c] = CASE call[c] \in Pending -> "cancelling"
                       [] call[c] = "cancelling" -> "interrupted"
                       [] OTHER -> call[c]
      BY <2>2, CancelledCalls DEF CallInv
    <3>2. QED
      BY <3>1 DEF CallMove, Pending
  <2>3. QED
    BY <2>1, <2>2
<1>2. QED
  BY <1>1 DEF CallsMove, InformerMove

LEMMA EvictionMoves ==
  ASSUME CallInv, Finalize \/ CancelTask \/ Stop
  PROVE  CallsMove
<1>1. UNCHANGED <<call, via, attached>>
  BY DEF Finalize, CancelTask, Stop
<1>2. UNCHANGED <<cached, watch>> \/ Evict
  BY DEF Finalize, CancelTask, Stop
<1>3. ~Serving'
  BY DEF Finalize, CancelTask, Stop, Serving
<1>4. \A c \in Call : watch[c] = "none" => watch'[c] = "none"
  BY <1>2 DEF Evict, Stopped, Informer
<1>5. QED
  BY <1>1, <1>3, <1>4 DEF CallsMove, CallMove, InformerMove

LEMMA OneCallMoves ==
  ASSUME CallInv, NEW c \in Call,
         \/ UseInformer(c) \/ StartInformer(c) \/ InformerStarted(c) \/ Launch(c)
         \/ Return(c) \/ CancelAction(c) \/ Ask(c)
  PROVE  CallsMove
<1>1. CASE UseInformer(c)
  <2>1. /\ call[c] = "asked" /\ call'[c] = "queued" /\ via'[c] = cached
        /\ lock = NoCall /\ cached \in Call
        /\ \A b \in Call \ {c} : call'[b] = call[b] /\ via'[b] = via[b]
        /\ UNCHANGED <<watch, attached>> /\ cached' = cached
    BY <1>1 DEF UseInformer, CallInv, CallsTyped, infVars
  <2>2. QED
    BY <2>1 DEF CallsMove, CallMove, InformerMove
<1>2. CASE StartInformer(c)
  <2>1. /\ call[c] = "asked" /\ call'[c] = "starting" /\ via'[c] = c /\ watch'[c] = "watching"
        /\ \A b \in Call \ {c} : call'[b] = call[b] /\ via'[b] = via[b] /\ watch'[b] = watch[b]
        /\ UNCHANGED attached /\ cached = NoCall
    BY <1>2 DEF StartInformer, CallInv, CallsTyped
  <2>2. QED
    BY <2>1 DEF CallsMove, CallMove, InformerMove
<1>3. CASE InformerStarted(c)
  <2>1. /\ call[c] = "starting" /\ call'[c] = "queued" /\ attached'[c]
        /\ \A b \in Call \ {c} : call'[b] = call[b] /\ attached'[b] = attached[b]
        /\ UNCHANGED <<watch, via>> /\ cached' = cached
    BY <1>3 DEF InformerStarted, Attach, CallInv, CallsTyped
  <2>2. QED
    BY <2>1 DEF CallsMove, CallMove, InformerMove
<1>4. CASE Launch(c) \/ Return(c)
  <2>1. /\ \/ call[c] = "queued" /\ call'[c] = "launched"
           \/ call[c] = "launched" /\ call'[c] = "returned"
        /\ \A b \in Call \ {c} : call'[b] = call[b]
        /\ UNCHANGED <<watch, via, attached>> /\ cached' = cached
    BY <1>4 DEF Launch, Return, CallInv, CallsTyped, infVars
  <2>2. QED
    BY <2>1 DEF CallsMove, CallMove, InformerMove
<1>5. CASE CancelAction(c) \/ Ask(c)
  <2>1. /\ \/ call[c] = "cancelling" /\ call'[c] \in {"cancelled", "failed"}
           \/ call[c] = "idle" /\ call'[c] \in {"asked", "failed"} /\ task # "loading"
        /\ \A b \in Call \ {c} : call'[b] = call[b]
        /\ UNCHANGED <<watch, via, attached>> /\ cached' = cached
    BY <1>5 DEF CancelAction, Ask, CallInv, CallsTyped, infVars
  <2>2. QED
    BY <2>1 DEF CallsMove, CallMove, InformerMove
<1>6. QED
  BY <1>1, <1>2, <1>3, <1>4, <1>5

LEMMA WatchMoves ==
  ASSUME CallInv, NEW i \in Call, WatchRetries(i) \/ WatchFails(i) \/ WatchMessage(i)
  PROVE  CallsMove
<1>1. UNCHANGED <<call, via, cached, attached>>
  BY DEF WatchRetries, WatchFails, WatchMessage
<1>2. \A j \in Call : /\ watch'[j] = "stopped" => watch[j] = "stopped"
                      /\ watch[j] = "none" => watch'[j] = "none"
  BY DEF WatchRetries, WatchFails, WatchMessage, CallInv, CallsTyped
<1>3. QED
  BY <1>1, <1>2 DEF CallsMove, CallMove, InformerMove

LEMMA NextMoves == CallInv /\ [Next]_vars => CallsMove
<1> SUFFICES ASSUME CallInv, [Next]_vars PROVE CallsMove
  OBVIOUS
<1>1. CASE \/ Connect \/ WatcherStarts \/ WatcherWakes \/ Crash \/ PoolEnds
           \/ Construct \/ RunCoros \/ Report \/ AskStop \/ Leave \/ UNCHANGED vars
  BY <1>1, RestMoves
     DEF Connect, WatcherStarts, WatcherWakes, Crash, PoolEnds, Construct, RunCoros, Report,
         AskStop, Leave, infVars, vars
<1>2. CASE \/ Load \/ (\E o \in {"ok", "err"} : BodyEnds(o)) \/ BodyCancelled \/ Upload
           \/ \E i \in Call : HandleInformerError(i)
  BY <1>2, RestMoves DEF Load, BodyEnds, BodyCancelled, Upload, HandleInformerError, infVars
<1>3. CASE CancelRest
  <2>1. \E C \in SUBSET Call : Cancelled(C)
    BY <1>3, ConstantsAssumption DEF CancelRest
  <2>2. QED
    BY <1>3, <2>1, CancelMoves DEF CancelRest
<1>4. CASE CancelBody
  <2>1. \E C \in SUBSET Call : Cancelled(C)
    BY <1>4 DEF CancelBody
  <2>2. QED
    BY <1>4, <2>1, CancelMoves DEF CancelBody
<1>5. ASSUME NEW c \in Call, CancelCall(c) PROVE CallsMove
  <2>1. {c} \in SUBSET Call /\ Cancelled({c})
    BY <1>5 DEF CancelCall
  <2>2. QED
    BY <1>5, <2>1, CancelMoves DEF CancelCall
<1>6. CASE Finalize \/ CancelTask \/ Stop
  BY <1>6, EvictionMoves
<1>7. QED
  BY <1>1, <1>2, <1>3, <1>4, <1>5, <1>6, OneCallMoves, WatchMoves, StepCases

(* The phases of the process: calls are made when the body has begun, the  *)
(* body begins in the race, and the race when the thread runs.             *)
PhaseInv ==
  /\ task = "loading" => \A c \in Call : call[c] = "idle"
  /\ thread = "connecting" => main \in {"constructing", "exited"}
  /\ main = "constructing" => task = "loading"

InformerInv ==
  /\ \A i \in Call : watch[i] # "none" => /\ attached[i] \/ call[i] \in Gone \cup {"starting"}
                                          /\ call[i] \notin {"idle", "asked"}
  /\ \A c \in Call : call[c] \in Waiter => call[via[c]] # "starting"

ServingInv ==
  Serving => /\ \A i \in Call : watch[i] # "stopped"
             /\ thread = "running" => \A c \in Call : call[c] \in Waiter => cached = via[c]

ServeInv == PhaseInv /\ InformerInv /\ ServingInv

LEMMA ServeInit == Init => ServeInv
BY DEF Init, ServeInv, PhaseInv, InformerInv, ServingInv, Serving, Waiter, Informer

LEMMA NextPhases ==
  ASSUME ExitInv, PhaseInv, [Next]_vars
  PROVE  /\ task' = "loading" => task = "loading"
         /\ task' = "executing" => task \in {"loading", "executing"}
         /\ main = "constructing" => task' = task
         /\ main' = "constructing" => main = "constructing"
         /\ main' = "racing" => main \in {"constructing", "racing"}
         /\ thread' = "connecting" => thread = "connecting"
         /\ thread' = "running" => thread \in {"connecting", "running"}
         /\ thread = "connecting" => main' \in {"constructing", "exited"}
<1>1. CASE UNCHANGED <<main, task, thread>>
  BY <1>1 DEF PhaseInv
<1>2. CASE \/ WatcherStarts \/ WatcherWakes \/ UNCHANGED vars
           \/ UNCHANGED <<mainVars, thread, running, taskVars>>
  BY <1>1, <1>2 DEF WatcherStarts, WatcherWakes, vars, mainVars, threadVars, taskVars
<1>3. CASE Connect \/ Crash \/ PoolEnds
  <2>1. UNCHANGED <<main, task>> /\ thread' # "connecting"
    BY <1>3 DEF Connect, Crash, PoolEnds, mainVars, taskVars
  <2>2. thread \in {"connecting", "running"} /\ (thread' = "running" => thread = "connecting")
    BY <1>3 DEF Connect, Crash, PoolEnds
  <2>3. QED
    BY <2>1, <2>2 DEF PhaseInv
<1>4. CASE Construct \/ RunCoros \/ Report \/ AskStop \/ Stop \/ CancelRest \/ Leave
  <2>1. UNCHANGED <<task, thread>>
    BY <1>4 DEF Construct, RunCoros, Report, AskStop, Stop, CancelRest, Leave, threadVars, taskVars
  <2>2. /\ main' # "constructing"
        /\ main' = "racing" => main = "constructing" /\ thread = "running"
        /\ main = "constructing" => main' \in {"racing", "exited"}
    BY <1>4 DEF Construct, RunCoros, Report, AskStop, Stop, CancelRest, Leave
  <2>3. main # "exited"
    BY <1>4 DEF Construct, RunCoros, Report, AskStop, Stop, CancelRest, Leave
  <2>4. QED
    BY <2>1, <2>2, <2>3 DEF PhaseInv
<1>5. CASE \/ Load \/ (\E o \in {"ok", "err"} : BodyEnds(o)) \/ CancelBody \/ BodyCancelled
           \/ Finalize \/ Upload \/ CancelTask
  <2>1. UNCHANGED <<main, thread>>
    BY <1>5 DEF Load, BodyEnds, CancelBody, BodyCancelled, Finalize, Upload, CancelTask, mainVars,
                threadVars
  <2>2. main # "constructing"
    <3>1. CASE Load
      BY <3>1 DEF Load
    <3>2. CASE CancelBody \/ CancelTask
      BY <3>2 DEF CancelBody, CancelTask, ExitInv, RaceInv, Early
    <3>3. CASE (\E o \in {"ok", "err"} : BodyEnds(o)) \/ BodyCancelled \/ Finalize \/ Upload
      BY <3>3 DEF BodyEnds, BodyCancelled, Finalize, Upload, PhaseInv
    <3>4. QED
      BY <1>5, <3>1, <3>2, <3>3
  <2>3. /\ task' # "loading" /\ (task' = "executing" => task = "loading")
    BY <1>5 DEF Load, BodyEnds, CancelBody, BodyCancelled, Finalize, Upload, CancelTask
  <2>4. QED
    BY <2>1, <2>2, <2>3 DEF PhaseInv
<1>6. QED
  BY <1>2, <1>3, <1>4, <1>5, StepCases, CallsApart

LEMMA PhaseStep ==
  ASSUME CallInv, ExitInv, PhaseInv, [Next]_vars
  PROVE  PhaseInv'
<1>1. task' = "loading" => \A c \in Call : call'[c] = "idle"
  <2>1. task' = "loading" => task = "loading"
    BY NextPhases
  <2>2. \A c \in Call : CallMove(c)
    BY NextMoves DEF CallsMove
  <2>3. QED
    BY <2>1, <2>2 DEF PhaseInv, CallMove, Pending
<1>2. thread' = "connecting" => main' \in {"constructing", "exited"}
  BY NextPhases
<1>3. main' = "constructing" => task' = "loading"
  BY NextPhases DEF PhaseInv
<1>4. QED
  BY <1>1, <1>2, <1>3 DEF PhaseInv

LEMMA InformerStep ==
  ASSUME CallInv, InformerInv, [Next]_vars
  PROVE  InformerInv'
<1>1. \A c \in Call : CallMove(c) /\ InformerMove(c)
  BY NextMoves DEF CallsMove
<1>2. ASSUME NEW i \in Call, watch'[i] # "none"
      PROVE  /\ attached'[i] \/ call'[i] \in Gone \cup {"starting"}
             /\ call'[i] \notin {"idle", "asked"}
  <2>1. CASE watch[i] = "none"
    BY <1>1, <1>2, <2>1 DEF InformerMove
  <2>2. CASE watch[i] # "none"
    <3>1. attached[i] \/ call[i] \in Gone \cup {"starting"}
      BY <2>2 DEF InformerInv
    <3>2. call[i] \notin {"idle", "asked"}
      BY <2>2 DEF InformerInv
    <3>3. attached[i] => attached'[i]
      BY <1>1 DEF InformerMove
    <3>4. CallMove(i)
      BY <1>1
    <3>5. call'[i] \notin {"idle", "asked"}
      BY <3>2, <3>4 DEF CallMove
    <3>6. call[i] \in Gone \cup {"starting"} =>
            attached'[i] \/ call'[i] \in Gone \cup {"starting"}
      BY <3>4 DEF CallMove, Gone
    <3>7. QED
      BY <3>1, <3>3, <3>5, <3>6
  <2>3. QED
    BY <2>1, <2>2
<1>3. ASSUME NEW c \in Call, call'[c] \in Waiter
      PROVE  call'[via'[c]] # "starting"
  <2>1. CASE call[c] \in Waiter
    <3>1. via'[c] = via[c] /\ via[c] \in Call /\ watch[via[c]] # "none"
      BY <1>1, <2>1 DEF InformerMove, Waiter, CallInv, CallsTyped, WaitersWatched
    <3>2. call[via[c]] \notin {"starting", "asked"}
      BY <2>1, <3>1 DEF InformerInv
    <3>3. CallMove(via[c])
      BY <1>1, <3>1
    <3>4. QED
      BY <3>1, <3>2, <3>3 DEF CallMove
  <2>2. CASE call[c] = "asked"
    <3>1. via'[c] = cached /\ lock = NoCall /\ cached \in Call
      BY <1>1, <1>3, <2>2 DEF CallMove, Waiter, Pending
    <3>2. call[cached] # "starting"
      BY <3>1, ConstantsAssumption DEF CallInv, StarterLocks
    <3>3. call[cached] # "asked"
      BY <3>1, ConstantsAssumption DEF CallInv, CachedStarted, InformerInv
    <3>4. CallMove(cached)
      BY <1>1, <3>1
    <3>5. QED
      BY <3>1, <3>2, <3>3, <3>4 DEF CallMove
  <2>3. CASE call[c] = "starting"
    <3>1. via'[c] = c
      BY <1>1, <2>3 DEF InformerMove, CallInv, StarterLocks
    <3>2. QED
      BY <1>3, <3>1 DEF Waiter
  <2>4. QED
    BY <1>1, <1>3, <2>1, <2>2, <2>3 DEF CallMove, Waiter
<1>4. QED
  BY <1>2, <1>3 DEF InformerInv

LEMMA ServingStep ==
  ASSUME CallInv, ExitInv, ServeInv, [Next]_vars
  PROVE  ServingInv'
<1> SUFFICES ASSUME Serving'
             PROVE  /\ \A i \in Call : watch'[i] # "stopped"
                    /\ thread' = "running" =>
                         \A c \in Call : call'[c] \in Waiter => cached' = via'[c]
  BY DEF ServingInv
<1>1. \A c \in Call : CallMove(c) /\ InformerMove(c)
  BY NextMoves DEF CallsMove
<1>2. /\ cached' = cached \/ cached = NoCall
      /\ \A c \in Call : watch'[c] = "stopped" => watch[c] = "stopped"
  BY NextMoves DEF CallsMove
<1>3. task \in {"loading", "executing"} /\ main = "racing"
  BY NextPhases DEF Serving, ServeInv, PhaseInv
<1>4. CASE task = "loading"
  <2>1. \A c \in Call : call[c] = "idle"
    BY <1>4 DEF ServeInv, PhaseInv
  <2>2. \A i \in Call : watch[i] = "none"
    BY <2>1 DEF ServeInv, InformerInv
  <2>3. \A c \in Call : call'[c] \notin Waiter
    BY <1>1, <2>1 DEF CallMove, Waiter, Pending
  <2>4. QED
    BY <1>2, <2>2, <2>3
<1>5. CASE task = "executing"
  <2>1. Serving /\ \A i \in Call : watch[i] # "stopped"
    BY <1>3, <1>5 DEF Serving, ServeInv, ServingInv
  <2>2. ASSUME NEW c \in Call, thread' = "running", call'[c] \in Waiter
        PROVE  cached' = via'[c]
    <3>1. thread = "running"
      BY <1>3, <2>2, NextPhases DEF ServeInv, PhaseInv
    <3>2. CASE call[c] \in Waiter
      <4>1. cached = via[c] /\ via[c] # NoCall /\ via'[c] = via[c]
        BY <1>1, <2>1, <3>1, <3>2
           DEF ServeInv, ServingInv, CallInv, WaitersWatched, InformerMove, Waiter
      <4>2. QED
        BY <1>2, <4>1
    <3>3. CASE call[c] = "asked"
      <4>1. via'[c] = cached /\ cached \in Call
        BY <1>1, <2>2, <3>3 DEF CallMove, Waiter, Pending
      <4>2. QED
        BY <1>2, <4>1, ConstantsAssumption
    <3>4. CASE call[c] = "starting"
      <4>1. lock = c /\ via[c] = c /\ via'[c] = via[c]
        BY <1>1, <3>4 DEF CallInv, StarterLocks, InformerMove
      <4>2. cached = c
        BY <4>1, ConstantsAssumption DEF CallInv, LockHeld
      <4>3. QED
        BY <1>2, <4>1, <4>2, ConstantsAssumption
    <3>5. QED
      BY <1>1, <2>2, <3>2, <3>3, <3>4 DEF CallMove, Waiter
  <2>3. QED
    BY <1>2, <2>1, <2>2
<1>6. QED
  BY <1>3, <1>4, <1>5

(* Whatever is cancelled, fails or gives up, a call that waits while the   *)
(* body runs waits on the informer in the cache, which is not stopped, and *)
(* whose failure is reported, unless its starter was cancelled in start.   *)
THEOREM WaitersAreServedAlways == Spec => []WaitersAreServed
<1> DEFINE Inv == MainTyped /\ CallInv /\ ExitInv /\ ServeInv
<1>1. Init => Inv
  BY InitTypes, ExitInit, ServeInit DEF ControlTyped
<1>2. Inv /\ [Next]_vars => Inv'
  BY NextMain, NextCalls, NextExit, PhaseStep, InformerStep, ServingStep DEF ServeInv
<1>3. Inv => WaitersAreServed
  <2> SUFFICES ASSUME Inv, NEW c \in Call, call[c] \in Waiter, Serving, thread = "running"
               PROVE  /\ cached = via[c]
                      /\ watch[cached] # "stopped"
                      /\ watch[cached] = "raised" => attached[cached] \/ Abandoned(cached)
    BY DEF WaitersAreServed, Waiter, Serving
  <2>1. cached = via[c] /\ cached \in Call
    BY DEF ServeInv, ServingInv, CallInv, CallsTyped, WaitersWatched
  <2>2. watch[cached] # "stopped" /\ watch[cached] # "none" /\ call[cached] # "starting"
    BY <2>1 DEF ServeInv, ServingInv, InformerInv, CallInv, WaitersWatched
  <2>3. attached[cached] \/ call[cached] \in Gone
    BY <2>1, <2>2 DEF ServeInv, InformerInv
  <2>4. QED
    BY <2>1, <2>2, <2>3 DEF Abandoned, Gone
<1>4. QED
  BY <1>1, <1>2, <1>3, PTL DEF Spec
=============================================================================
