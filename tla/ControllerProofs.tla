--------------------------- MODULE ControllerProofs ---------------------------
(***************************************************************************)
(* Theorems about Controller for every set of actions and workers, every   *)
(* size of the queue and every bound on retries, faults and reconnects:    *)
(* one launcher per action, nothing sent after a cancellation, a recovered *)
(* action is adopted, no wakeup is lost, what is returned is final, and    *)
(* the controller implements the contract of SubActions.                   *)
(*                                                                         *)
(* The inductive invariant has six parts: the types (1); a reference to an *)
(* object that is not started is in one place only (LaunchInv, 2), for a   *)
(* second worker would enter _bg_launch if the queue held such an object   *)
(* twice; which object a name stands for (RefInv, 4); what the watch still *)
(* has to hear (StreamInv, 5); what the objects know of the service        *)
(* (ReportInv, 6); and who will wake a caller (WakeInv, 7).                *)
(***************************************************************************)
EXTENDS Controller, TLAPS

(* Every step of the system, as one disjunct per action.                   *)
LEMMA StepCases ==
  ASSUME [Next]_vars
  PROVE  \/ StartInformer \/ SyncTimeout \/ Sentinel \/ Reconnect \/ WatchPut
         \/ \E a \in Action : Submit(a) \/ SubmitPut(a) \/ Return(a) \/ CancelSubmit(a)
         \/ \E a \in Action : BeginCancel(a) \/ AbortReplies(a) \/ AbortFails(a)
         \/ \E a \in Action : Update(a) \/ Accept(a) \/ End(a)
         \/ \E w \in Worker : Take(w) \/ Send(w) \/ EnqueueOk(w) \/ EnqueueRefused(w)
         \/ \E w \in Worker : EnqueueFails(w) \/ Requeue(w) \/ Fire(w)
         \/ UNCHANGED vars
BY DEF Next, CallStep, WorkerStep, ServiceStep, Stopped

-----------------------------------------------------------------------------
(* 1. Types.                                                               *)

LEMMA RefTypes ==
  /\ \A a \in Action, k \in Kind : [act |-> a, kind |-> k] \in Ref
  /\ \A r \in Ref : r.act \in Action /\ r.kind \in Kind /\ r = [act |-> r.act, kind |-> r.kind]
  /\ \A a \in Action : OwnRef(a) \in Ref
BY DEF Ref, OwnRef, Kind

LEMMA ObjectTypes ==
  /\ \A a \in Action : Submitted(a) \in Object
  /\ \A p \in Live : from_state(p) \in Object
  /\ \A o \in Object : /\ mark_cancelled(o) \in Object
                       /\ [o EXCEPT !.err = TRUE] \in Object
                       /\ \A p \in Live : merge_state(o, p) \in Object
BY DEF Object, Submitted, from_state, mark_cancelled, merge_state, Phase, Live, Terminal

LEMMA PutTypes ==
  ASSUME TypeOK, Room, NEW r \in Ref
  PROVE  Append(queue, r) \in Seq(Ref) /\ Len(Append(queue, r)) <= QueueSize
BY ConstantsAssumption DEF TypeOK, Room

LEMMA ChangeTypes ==
  ASSUME TypeOK
  PROVE  /\ \A r \in Ref, o \in Object : [obj EXCEPT ![r] = o] \in [Ref -> Object]
         /\ \A a \in Action, p \in Live :
               [stream EXCEPT ![a] = Append(@, p)] \in [Action -> Seq(Live)]
         /\ \A a \in Action :
               [event EXCEPT ![a] = Fired(@)] \in [Action -> {"none", "clear", "set"}]
<1>1. obj \in [Ref -> Object]
  BY DEF TypeOK
<1>2. \A r \in Ref, o \in Object : [obj EXCEPT ![r] = o] \in [Ref -> Object]
  BY <1>1
<1>3. stream \in [Action -> Seq(Live)]
  BY DEF TypeOK
<1>4. ASSUME NEW a \in Action, NEW p \in Live
      PROVE  [stream EXCEPT ![a] = Append(@, p)] \in [Action -> Seq(Live)]
  <2>1. Append(stream[a], p) \in Seq(Live)
    BY <1>3
  <2>2. QED
    BY <1>3, <2>1
<1>5. event \in [Action -> {"none", "clear", "set"}]
  BY DEF TypeOK
<1>6. \A a \in Action :
        [event EXCEPT ![a] = Fired(@)] \in [Action -> {"none", "clear", "set"}]
  BY <1>5 DEF Fired
<1>7. QED
  BY <1>2, <1>4, <1>6

LEMMA SnapshotTypes ==
  ASSUME srv \in [Action -> Live \cup {"absent", "refused"}]
  PROVE  Snapshot \in [Action -> Seq(Live)]
<1> SUFFICES ASSUME NEW a \in Action
             PROVE  (IF Exists(a) THEN <<srv[a]>> ELSE <<>>) \in Seq(Live)
  BY DEF Snapshot
<1>1. CASE Exists(a)
  <2>1. srv[a] \in Live
    BY <1>1 DEF Exists
  <2>2. <<srv[a]>> \in Seq(Live)
    BY <2>1
  <2>3. QED
    BY <1>1, <2>2
<1>2. CASE ~Exists(a)
  BY <1>2
<1>3. QED
  BY <1>1, <1>2

LEMMA InitTypes == Init => TypeOK
<1> SUFFICES ASSUME Init PROVE TypeOK
  OBVIOUS
<1>1. obj \in [Ref -> Object]
  BY RefTypes, ObjectTypes DEF Init
<1>2. srv \in [Action -> Live \cup {"absent", "refused"}]
  BY DEF Init, Live, Terminal
<1>3. stream \in [Action -> Seq(Live)]
  BY <1>2, SnapshotTypes DEF Init
<1>4. queue \in Seq(Ref) /\ Len(queue) <= QueueSize
  BY ConstantsAssumption DEF Init
<1>5. QED
  BY <1>1, <1>2, <1>3, <1>4 DEF Init, TypeOK, WorkerPc

LEMMA CallTypes ==
  ASSUME TypeOK, NEW a \in Action, Submit(a) \/ SubmitPut(a) \/ Return(a) \/
             CancelSubmit(a)
  PROVE  TypeOK'
<1>1. CASE Submit(a)
  <2>1. CachedWins(a) \in Kind /\ CachedWins(a) # "none"
    BY DEF TypeOK, CachedWins, Kind
  <2>2. [act |-> a, kind |-> CachedWins(a)] \in Ref
    BY <2>1, RefTypes
  <2>3. /\ cache' = [cache EXCEPT ![a] = CachedWins(a)]
       /\ \/ queue' = queue
          \/ queue' = Append(queue, [act |-> a, kind |-> CachedWins(a)]) /\ Room
    BY <1>1 DEF Submit
  <2>4. queue' \in Seq(Ref) /\ Len(queue') <= QueueSize
    BY <2>2, <2>3, PutTypes DEF TypeOK
  <2>5. cache' \in [Action -> Kind \cup {"none"}]
    BY <2>1, <2>3 DEF TypeOK
  <2>6. \A b \in Action : sub'[b] \in {"putting", "waiting"} => cache'[b] # "none"
    BY <1>1, <2>1, <2>3 DEF TypeOK, Submit
  <2>7. sub' = [sub EXCEPT ![a] = "waiting"] \/ sub' = [sub EXCEPT ![a] = "putting"]
    BY <1>1 DEF Submit
  <2>8. sub' \in [Action -> {"new", "putting", "waiting", "returned", "cancelled"}]
    BY <2>7 DEF TypeOK
  <2>9. event' \in [Action -> {"none", "clear", "set"}]
    BY <1>1 DEF TypeOK, Submit
  <2>10. \A b \in Action : sub'[b] = "returned" => ret'[b] # "none"
    BY <1>1 DEF TypeOK, Submit
  <2>11. UNCHANGED <<obj, wpc, wref, retries, alive, ret, cancel, sync, watch, srv,
             stream, net, faults, reconnects>>
    BY <1>1 DEF Submit, workerVars, callVars, watchVars
  <2>12. QED
    BY <2>1, <2>2, <2>3, <2>4, <2>5, <2>6, <2>7, <2>8, <2>9, <2>10, <2>11 DEF TypeOK
<1>2. CASE SubmitPut(a)
  <2>1. CacheRef(a) \in Ref
    BY <1>2, RefTypes DEF TypeOK, SubmitPut, CacheRef
  <2>2. queue' \in Seq(Ref) /\ Len(queue') <= QueueSize
    BY <1>2, <2>1, PutTypes DEF SubmitPut
  <2>3. sub' \in [Action -> {"new", "putting", "waiting", "returned", "cancelled"}]
    BY <1>2 DEF TypeOK, SubmitPut
  <2>4. \A b \in Action : sub'[b] \in {"putting", "waiting"} => cache'[b] # "none"
    BY <1>2 DEF TypeOK, SubmitPut
  <2>5. \A b \in Action : sub'[b] = "returned" => ret'[b] # "none"
    BY <1>2 DEF TypeOK, SubmitPut
  <2>6. UNCHANGED <<obj, cache, event, wpc, wref, retries, alive, ret, cancel, sync,
             watch, srv, stream, net, faults, reconnects>>
    BY <1>2 DEF SubmitPut, workerVars, callVars, watchVars
  <2>7. QED
    BY <2>1, <2>2, <2>3, <2>4, <2>5, <2>6 DEF TypeOK
<1>3. CASE Return(a)
  <2>1. cache[a] \in Kind
    BY <1>3 DEF TypeOK, Return
  <2>2. cache' \in [Action -> Kind \cup {"none"}]
    BY <1>3 DEF TypeOK, Return
  <2>3. ret' \in [Action -> Kind \cup {"none"}]
    BY <1>3 DEF TypeOK, Return
  <2>4. sub' \in [Action -> {"new", "putting", "waiting", "returned", "cancelled"}]
    BY <1>3 DEF TypeOK, Return
  <2>5. \A b \in Action : sub'[b] \in {"putting", "waiting"} => cache'[b] # "none"
    BY <1>3 DEF TypeOK, Return
  <2>6. \A b \in Action : sub'[b] = "returned" => ret'[b] # "none"
    BY <1>3, <2>1 DEF TypeOK, Return, Kind
  <2>7. UNCHANGED <<obj, event, queue, wpc, wref, retries, alive, cancel, sync, watch,
             srv, stream, net, faults, reconnects>>
    BY <1>3 DEF Return, workerVars, callVars, watchVars
  <2>8. QED
    BY <2>1, <2>2, <2>3, <2>4, <2>5, <2>6, <2>7 DEF TypeOK
<1>4. CASE CancelSubmit(a)
  <2>1. sub' \in [Action -> {"new", "putting", "waiting", "returned", "cancelled"}]
    BY <1>4 DEF TypeOK, CancelSubmit
  <2>2. \A b \in Action : sub'[b] \in {"putting", "waiting"} => cache'[b] # "none"
    BY <1>4 DEF TypeOK, CancelSubmit
  <2>3. \A b \in Action : sub'[b] = "returned" => ret'[b] # "none"
    BY <1>4 DEF TypeOK, CancelSubmit
  <2>4. cancel' \in [Action -> {"none", "called", "skipped", "dropped", "aborting", "aborted"}]
    BY <1>4 DEF TypeOK, CancelSubmit
  <2>5. UNCHANGED <<obj, cache, event, queue, wpc, wref, retries, alive, ret, sync, watch,
             srv, stream, net, faults, reconnects>>
    BY <1>4 DEF CancelSubmit, workerVars, callVars, watchVars
  <2>6. QED
    BY <2>1, <2>2, <2>3, <2>4, <2>5 DEF TypeOK
<1>5. QED
  BY <1>1, <1>2, <1>3, <1>4

LEMMA CancelTypes ==
  ASSUME TypeOK, NEW a \in Action, BeginCancel(a) \/ AbortReplies(a) \/ AbortFails(a)
  PROVE  TypeOK'
<1>1. CASE BeginCancel(a)
  <2>1. obj[OwnRef(a)] \in Object
    BY RefTypes DEF TypeOK
  <2>2. /\ \/ obj' = obj
          \/ obj' = [obj EXCEPT ![OwnRef(a)] = mark_cancelled(obj[OwnRef(a)])]
       /\ \E c \in {"skipped", "aborting", "dropped"} : cancel' = [cancel EXCEPT ![a] = c]
    BY <1>1 DEF BeginCancel
  <2>3. obj' \in [Ref -> Object]
    <3>1. OwnRef(a) \in Ref /\ mark_cancelled(obj[OwnRef(a)]) \in Object
      BY <2>1, RefTypes, ObjectTypes
    <3>2. [obj EXCEPT ![OwnRef(a)] = mark_cancelled(obj[OwnRef(a)])] \in [Ref -> Object]
      BY <3>1, ChangeTypes
    <3>3. obj \in [Ref -> Object]
      BY DEF TypeOK
    <3>4. QED
      BY <2>2, <3>2, <3>3
  <2>4. event' \in [Action -> {"none", "clear", "set"}]
    BY <1>1 DEF TypeOK, BeginCancel, Fired
  <2>5. cancel' \in [Action -> {"none", "called", "skipped", "dropped", "aborting", "aborted"}]
    BY <2>2 DEF TypeOK
  <2>6. UNCHANGED <<cache, queue, wpc, wref, retries, alive, sub, ret, sync, watch, srv,
             stream, net, faults, reconnects>>
    BY <1>1 DEF BeginCancel, workerVars, callVars, watchVars
  <2>7. QED
    BY <2>1, <2>2, <2>3, <2>4, <2>5, <2>6 DEF TypeOK
<1>2. CASE AbortReplies(a)
  <2>1. srv' \in [Action -> Live \cup {"absent", "refused"}]
    BY <1>2 DEF TypeOK, AbortReplies, Live, Terminal
  <2>2. "ABORTED" \in Live
    BY DEF Live, Terminal
  <2>3. stream' = stream \/ stream' = [stream EXCEPT ![a] = Append(@, "ABORTED")]
    BY <1>2 DEF AbortReplies
  <2>4. stream' \in [Action -> Seq(Live)]
    <3>1. stream \in [Action -> Seq(Live)]
      BY DEF TypeOK
    <3>2. [stream EXCEPT ![a] = Append(@, "ABORTED")] \in [Action -> Seq(Live)]
      BY <2>2, ChangeTypes
    <3>3. QED
      BY <2>3, <3>1, <3>2
  <2>5. event' \in [Action -> {"none", "clear", "set"}]
    <3>1. event' = event \/ event' = [event EXCEPT ![a] = Fired(@)]
      BY <1>2 DEF AbortReplies
    <3>2. event \in [Action -> {"none", "clear", "set"}]
      BY DEF TypeOK
    <3>3. QED
      BY <3>1, <3>2, ChangeTypes
  <2>6. cancel' \in [Action -> {"none", "called", "skipped", "dropped", "aborting", "aborted"}]
    BY <1>2 DEF TypeOK, AbortReplies
  <2>7. UNCHANGED <<obj, cache, queue, wpc, wref, retries, alive, sub, ret, sync, watch,
             net, faults, reconnects>>
    BY <1>2 DEF AbortReplies, workerVars, callVars, watchVars
  <2>8. QED
    BY <2>1, <2>2, <2>3, <2>4, <2>5, <2>6, <2>7 DEF TypeOK
<1>3. CASE AbortFails(a)
  <2>1. event' \in [Action -> {"none", "clear", "set"}]
    BY <1>3 DEF TypeOK, AbortFails, Fired
  <2>2. cancel' \in [Action -> {"none", "called", "skipped", "dropped", "aborting", "aborted"}]
    BY <1>3 DEF TypeOK, AbortFails
  <2>3. faults' \in Nat
    BY <1>3 DEF TypeOK, AbortFails
  <2>4. UNCHANGED <<obj, cache, queue, wpc, wref, retries, alive, sub, ret, sync, watch,
             srv, stream, net, reconnects>>
    BY <1>3 DEF AbortFails, workerVars, callVars, watchVars
  <2>5. QED
    BY <2>1, <2>2, <2>3, <2>4 DEF TypeOK
<1>4. QED
  BY <1>1, <1>2, <1>3

LEMMA WorkerTypes ==
  ASSUME TypeOK, NEW w \in Worker, Take(w) \/ Send(w) \/ EnqueueOk(w) \/ EnqueueRefused(w)
             \/ EnqueueFails(w) \/ Requeue(w) \/ Fire(w)
  PROVE  TypeOK'
<1>1. CASE Take(w)
  <2>1. queue # <<>> /\ Head(queue) \in Ref /\ Tail(queue) \in Seq(Ref)
         /\ Len(Tail(queue)) <= QueueSize
    BY <1>1, ConstantsAssumption DEF TypeOK, Take
  <2>2. Todo(obj[Head(queue)]) \in WorkerPc
    BY DEF Todo, WorkerPc
  <2>3. queue' \in Seq(Ref) /\ Len(queue') <= QueueSize
    BY <1>1, <2>1 DEF Take
  <2>4. wpc' \in [Worker -> WorkerPc] /\ wref' \in [Worker -> Ref \cup {NoRef}]
    BY <1>1, <2>1, <2>2 DEF TypeOK, Take, Suspend
  <2>5. Head(queue) # NoRef
    BY <2>1, ConstantsAssumption
  <2>6. \A v \in Worker : wpc'[v] = "idle" <=> wref'[v] = NoRef
    BY <1>1, <2>5 DEF TypeOK, Take, Suspend
  <2>7. UNCHANGED <<obj, cache, event, retries, alive, sub, ret, cancel, sync, watch, srv,
             stream, net, faults, reconnects>>
    BY <1>1 DEF Take, workerVars, callVars, watchVars
  <2>8. QED
    BY <2>1, <2>2, <2>3, <2>4, <2>5, <2>6, <2>7 DEF TypeOK
<1>2. CASE Send(w)
  <2>1. wref[w] \in Ref /\ wref[w].act \in Action
    BY <1>2, RefTypes DEF TypeOK, Send
  <2>2. /\ \/ obj' = obj
          \/ obj' = [obj EXCEPT ![wref[w]] = [obj[wref[w]] EXCEPT !.err = TRUE]]
       /\ \E pc \in {"firing", "enqueuing"} : wpc' = [wpc EXCEPT ![w] = pc]
       /\ wpc[w] = "limiter"
    BY <1>2 DEF Send, FailAction, Suspend
  <2>3. obj' \in [Ref -> Object]
    <3>1. obj \in [Ref -> Object] /\ obj[wref[w]] \in Object
      BY <2>1 DEF TypeOK
    <3>2. [obj[wref[w]] EXCEPT !.err = TRUE] \in Object
      BY <3>1, ObjectTypes
    <3>3. QED
      BY <2>1, <2>2, <3>1, <3>2
  <2>4. net' \subseteq Action
    BY <1>2, <2>1 DEF TypeOK, Send
  <2>5. wpc' \in [Worker -> WorkerPc]
    BY <2>2 DEF TypeOK, WorkerPc
  <2>6. \A v \in Worker : wpc'[v] = "idle" <=> wref[v] = NoRef
    BY <2>2 DEF TypeOK
  <2>7. UNCHANGED <<cache, event, queue, wref, retries, alive, sub, ret, cancel, sync,
             watch, srv, stream, faults, reconnects>>
    BY <1>2 DEF Send, workerVars, callVars, watchVars
  <2>8. QED
    BY <2>1, <2>2, <2>3, <2>4, <2>5, <2>6, <2>7 DEF TypeOK
<1>3. CASE EnqueueOk(w)
  <2>1. wpc' \in [Worker -> WorkerPc] /\ wref' \in [Worker -> Ref \cup {NoRef}]
    BY <1>3 DEF TypeOK, EnqueueOk, Finish, Suspend, WorkerPc
  <2>2. \A v \in Worker : wpc'[v] = "idle" <=> wref'[v] = NoRef
    BY <1>3 DEF TypeOK, EnqueueOk, Finish, Suspend
  <2>3. UNCHANGED <<obj, cache, event, queue, retries, alive, sub, ret, cancel, sync,
             watch, srv, stream, net, faults, reconnects>>
    BY <1>3 DEF EnqueueOk, workerVars, callVars, watchVars
  <2>4. QED
    BY <2>1, <2>2, <2>3 DEF TypeOK
<1>4. CASE EnqueueRefused(w)
  <2>1. wref[w] \in Ref /\ wref[w].act \in Action
    BY <1>4, RefTypes DEF TypeOK, EnqueueRefused
  <2>2. obj' \in [Ref -> Object]
    BY <1>4, <2>1, ObjectTypes DEF TypeOK, EnqueueRefused, FailAction
  <2>3. wpc' \in [Worker -> WorkerPc]
    BY <1>4 DEF TypeOK, EnqueueRefused, FailAction, Suspend, WorkerPc
  <2>4. \A v \in Worker : wpc'[v] = "idle" <=> wref[v] = NoRef
    BY <1>4 DEF TypeOK, EnqueueRefused, FailAction, Suspend
  <2>5. UNCHANGED <<cache, event, queue, wref, retries, alive, sub, ret, cancel, sync,
             watch, srv, stream, net, faults, reconnects>>
    BY <1>4 DEF EnqueueRefused, workerVars, callVars, watchVars
  <2>6. QED
    BY <2>1, <2>2, <2>3, <2>4, <2>5 DEF TypeOK
<1>5. CASE EnqueueFails(w)
  <2>1. wref[w] \in Ref /\ wref[w].act \in Action
    BY <1>5, RefTypes DEF TypeOK, EnqueueFails
  <2>2. net' \subseteq Action
    BY <1>5 DEF TypeOK, EnqueueFails
  <2>3. retries' \in [Action -> Nat]
    BY <1>5, <2>1 DEF TypeOK, EnqueueFails
  <2>4. faults' \in Nat
    BY <1>5 DEF TypeOK, EnqueueFails
  <2>5. alive' \in BOOLEAN
    BY <1>5 DEF TypeOK, EnqueueFails
  <2>6. /\ wpc[w] = "enqueuing"
       /\ \E pc \in {"backoff", "dead"} : wpc' = [wpc EXCEPT ![w] = pc]
    BY <1>5 DEF EnqueueFails, Suspend
  <2>7. wpc' \in [Worker -> WorkerPc]
    BY <2>6 DEF TypeOK, WorkerPc
  <2>8. \A v \in Worker : wpc'[v] = "idle" <=> wref[v] = NoRef
    BY <2>6 DEF TypeOK
  <2>9. UNCHANGED <<obj, cache, event, queue, wref, sub, ret, cancel, sync, watch, srv,
             stream, reconnects>>
    BY <1>5 DEF EnqueueFails, workerVars, callVars, watchVars
  <2>10. QED
    BY <2>1, <2>2, <2>3, <2>4, <2>5, <2>6, <2>7, <2>8, <2>9 DEF TypeOK
<1>6. CASE Requeue(w)
  <2>1. wref[w] \in Ref /\ wref[w].act \in Action
    BY <1>6, RefTypes DEF TypeOK, Requeue
  <2>2. queue' = queue \/ (queue' = Append(queue, wref[w]) /\ Room)
    BY <1>6 DEF Requeue
  <2>3. queue' \in Seq(Ref) /\ Len(queue') <= QueueSize
    BY <2>1, <2>2, PutTypes DEF TypeOK
  <2>4. /\ wpc[w] # "idle"
       /\ \/ wpc' = [wpc EXCEPT ![w] = "idle"] /\ wref' = [wref EXCEPT ![w] = NoRef]
          \/ wpc' = [wpc EXCEPT ![w] = "requeuing"] /\ wref' = wref
    BY <1>6 DEF Requeue, Finish, Suspend
  <2>5. wpc' \in [Worker -> WorkerPc] /\ wref' \in [Worker -> Ref \cup {NoRef}]
    BY <2>4 DEF TypeOK, WorkerPc
  <2>6. \A v \in Worker : wpc'[v] = "idle" <=> wref'[v] = NoRef
    BY <2>4 DEF TypeOK
  <2>7. UNCHANGED <<obj, cache, event, retries, alive, sub, ret, cancel, sync, watch, srv,
             stream, net, faults, reconnects>>
    BY <1>6 DEF Requeue, workerVars, callVars, watchVars
  <2>8. QED
    BY <2>1, <2>2, <2>3, <2>4, <2>5, <2>6, <2>7 DEF TypeOK
<1>7. CASE Fire(w)
  <2>1. wref[w] \in Ref /\ wref[w].act \in Action
    BY <1>7, RefTypes DEF TypeOK, Fire
  <2>2. event' \in [Action -> {"none", "clear", "set"}]
    BY <1>7, <2>1 DEF TypeOK, Fire, Fired
  <2>3. wpc' \in [Worker -> WorkerPc] /\ wref' \in [Worker -> Ref \cup {NoRef}]
    BY <1>7 DEF TypeOK, Fire, Finish, Suspend, WorkerPc
  <2>4. \A v \in Worker : wpc'[v] = "idle" <=> wref'[v] = NoRef
    BY <1>7 DEF TypeOK, Fire, Finish, Suspend
  <2>5. UNCHANGED <<obj, cache, queue, retries, alive, sub, ret, cancel, sync, watch, srv,
             stream, net, faults, reconnects>>
    BY <1>7 DEF Fire, workerVars, callVars, watchVars
  <2>6. QED
    BY <2>1, <2>2, <2>3, <2>4, <2>5 DEF TypeOK
<1>8. QED
  BY <1>1, <1>2, <1>3, <1>4, <1>5, <1>6, <1>7

LEMMA UpdateTypes ==
  ASSUME TypeOK, NEW a \in Action, Update(a)
  PROVE  TypeOK'
<1> DEFINE p    == Head(stream[a])
           kind == IF cache[a] # "none" THEN cache[a]
                   ELSE IF obj[[act |-> a, kind |-> "seen"]].started THEN "late" ELSE "seen"
           r    == [act |-> a, kind |-> kind]
<1>1. p \in Live /\ Tail(stream[a]) \in Seq(Live)
  BY DEF TypeOK, Update
<1>2. kind \in Kind
  BY DEF TypeOK, Kind
<1>3. r \in Ref
  BY <1>2, RefTypes
<1>4. kind # "none"
  BY <1>2 DEF Kind
<1>5. /\ stream' = [stream EXCEPT ![a] = Tail(@)]
      /\ cache' = [cache EXCEPT ![a] = kind]
      /\ obj' = [obj EXCEPT ![r] = IF cache[a] # "none" THEN merge_state(@, p) ELSE from_state(p)]
      /\ Notify(r)
  BY DEF Update
<1> HIDE DEF p, kind, r
<1>6. obj' \in [Ref -> Object]
  BY <1>1, <1>3, <1>5, ObjectTypes DEF TypeOK
<1>7. stream' \in [Action -> Seq(Live)]
  BY <1>1, <1>5 DEF TypeOK
<1>8. cache' \in [Action -> Kind \cup {"none"}]
  BY <1>2, <1>5 DEF TypeOK
<1>9. queue' \in Seq(Ref) /\ Len(queue') <= QueueSize
  BY <1>3, <1>5, PutTypes DEF Notify, TypeOK
<1>10. watch' \in Ref \cup {NoRef}
  BY <1>3, <1>5 DEF Notify, TypeOK
<1>11. \A b \in Action : sub[b] \in {"putting", "waiting"} => cache'[b] # "none"
  BY <1>4, <1>5 DEF TypeOK
<1>12. UNCHANGED <<event, wpc, wref, retries, alive, sub, ret, cancel, sync, srv, net,
                   faults, reconnects>>
  BY DEF Update, workerVars, callVars
<1>13. QED
  BY <1>6, <1>7, <1>8, <1>9, <1>10, <1>11, <1>12 DEF TypeOK

LEMMA ServiceTypes ==
  ASSUME TypeOK, NEW a \in Action, Accept(a) \/ End(a)
  PROVE  TypeOK'
<1>1. CASE Accept(a)
  <2>1. net' \subseteq Action
    BY <1>1 DEF TypeOK, Accept
  <2>2. \/ srv' = srv /\ stream' = stream
       \/ \E p \in {"FINISHED", "RUNNING"} : /\ srv' = [srv EXCEPT ![a] = p]
                                             /\ stream' = [stream EXCEPT ![a] = Append(@, p)]
    BY <1>1 DEF Accept
  <2>3. srv' \in [Action -> Live \cup {"absent", "refused"}]
    BY <2>2 DEF TypeOK, Live, Terminal
  <2>4. {"FINISHED", "RUNNING"} \subseteq Live
    BY DEF Live, Terminal
  <2>5. stream' \in [Action -> Seq(Live)]
    <3>1. stream \in [Action -> Seq(Live)]
      BY DEF TypeOK
    <3>2. \A p \in {"FINISHED", "RUNNING"} :
            [stream EXCEPT ![a] = Append(@, p)] \in [Action -> Seq(Live)]
      BY <2>4, ChangeTypes
    <3>3. QED
      BY <2>2, <3>1, <3>2
  <2>6. UNCHANGED <<obj, cache, event, queue, wpc, wref, retries, alive, sub, ret, cancel,
             sync, watch, faults, reconnects>>
    BY <1>1 DEF Accept, workerVars, callVars, watchVars
  <2>7. QED
    BY <2>1, <2>2, <2>3, <2>4, <2>5, <2>6 DEF TypeOK
<1>2. CASE End(a)
  <2>1. srv' \in [Action -> Live \cup {"absent", "refused"}]
    BY <1>2 DEF TypeOK, End, Live, Terminal
  <2>2. Append(stream[a], "FINISHED") \in Seq(Live)
    BY DEF TypeOK, Live, Terminal
  <2>3. stream' \in [Action -> Seq(Live)]
    BY <1>2, <2>2 DEF TypeOK, End
  <2>4. UNCHANGED <<obj, cache, event, queue, wpc, wref, retries, alive, sub, ret, cancel,
             sync, watch, net, faults, reconnects>>
    BY <1>2 DEF End, workerVars, callVars, watchVars
  <2>5. QED
    BY <2>1, <2>2, <2>3, <2>4 DEF TypeOK
<1>3. QED
  BY <1>1, <1>2

LEMMA NextTypes ==
  ASSUME TypeOK, [Next]_vars
  PROVE  TypeOK'
<1>1. CASE StartInformer
  BY <1>1 DEF StartInformer, TypeOK, workerVars, callVars
<1>2. CASE SyncTimeout
  BY <1>2 DEF SyncTimeout, TypeOK, workerVars, callVars
<1>3. CASE Sentinel
  BY <1>3 DEF Sentinel, TypeOK, workerVars, callVars
<1>4. CASE Reconnect
  <2>1. stream' \in [Action -> Seq(Live)]
    BY <1>4, SnapshotTypes DEF TypeOK, Reconnect
  <2>2. QED
    BY <1>4, <2>1 DEF Reconnect, TypeOK, workerVars, callVars
<1>5. CASE WatchPut
  <2>1. watch \in Ref /\ Room /\ queue' = Append(queue, watch) /\ watch' = NoRef
    BY <1>5 DEF WatchPut, TypeOK
  <2>2. queue' \in Seq(Ref) /\ Len(queue') <= QueueSize
    BY <2>1, PutTypes
  <2>3. QED
    BY <1>5, <2>1, <2>2 DEF WatchPut, TypeOK, workerVars, callVars
<1>6. CASE UNCHANGED vars
  BY <1>6 DEF vars, TypeOK
<1>7. QED
  BY <1>1, <1>2, <1>3, <1>4, <1>5, <1>6, StepCases,
     CallTypes, CancelTypes, WorkerTypes, UpdateTypes, ServiceTypes

(* The types hold in every reachable state, whatever the constants: in     *)
(* particular the shared queue respects its maxsize, a worker holds an     *)
(* object exactly while it is busy, and a name that is waited for is in    *)
(* the cache.                                                              *)
THEOREM TypesCorrect == Spec => []TypeOK
<1>1. Init => TypeOK
  BY InitTypes
<1>2. TypeOK /\ [Next]_vars => TypeOK'
  BY NextTypes
<1>3. QED
  BY <1>1, <1>2, PTL DEF Spec

-----------------------------------------------------------------------------
(* 2. One launcher per action: the places that refer to an object.         *)

Queued(r) == \E i \in 1..Len(queue) : queue[i] = r
Held(r)   == \E w \in Worker : wref[w] = r

OwnOrStarted(r) == r.kind = "own" \/ obj[r].started

(* The watch and recovery only make started objects.                       *)
OnlyOwnUnstarted ==
  /\ \A i \in 1..Len(queue) : OwnOrStarted(queue[i])
  /\ \A a \in Action : cache[a] # "none" => OwnOrStarted(CacheRef(a))
  /\ watch # NoRef => obj[watch].started

(* The references to an object that is not started are at most one.        *)
QueuedOnce ==
  \A i, j \in 1..Len(queue) :
    queue[i] = queue[j] /\ ~obj[queue[i]].started => i = j

HeldOnce ==
  \A v, w \in Worker :
    wref[v] # NoRef /\ wref[v] = wref[w] /\ ~obj[wref[v]].started => v = w

QueuedOrHeld ==
  \A i \in 1..Len(queue) : ~obj[queue[i]].started => ~Held(queue[i])

PuttingAlone ==
  \A a \in Action :
    sub[a] = "putting" /\ ~obj[CacheRef(a)].started
      => ~Queued(CacheRef(a)) /\ ~Held(CacheRef(a))

(* Nothing refers to the parent's object before it is submitted.           *)
NewUnseen ==
  \A a \in Action :
    sub[a] = "new" => /\ cache[a] # "own" /\ watch # OwnRef(a)
                      /\ ~Queued(OwnRef(a)) /\ ~Held(OwnRef(a))

LaunchersOwn == \A w \in Worker : wpc[w] \in Launching => wref[w].kind = "own"

LaunchersDiffer ==
  \A v, w \in Worker :
    wpc[v] \in Launching /\ wpc[w] \in Launching /\ wref[v] = wref[w] => v = w

LaunchInv ==
  /\ OnlyOwnUnstarted /\ QueuedOnce /\ HeldOnce /\ QueuedOrHeld /\ PuttingAlone
  /\ NewUnseen /\ LaunchersOwn /\ LaunchersDiffer

-----------------------------------------------------------------------------
LEMMA LaunchInit == Init => LaunchInv
<1> SUFFICES ASSUME Init PROVE LaunchInv
  OBVIOUS
<1>1. /\ queue = <<>> /\ watch = NoRef
      /\ \A w \in Worker : wref[w] = NoRef /\ wpc[w] = "idle"
      /\ \A a \in Action : cache[a] = "none" /\ sub[a] = "new"
  BY DEF Init
<1>2. Len(queue) = 0
  BY <1>1
<1>3. \A a \in Action : OwnRef(a) # NoRef
  BY RefTypes, ConstantsAssumption
<1>4. ASSUME NEW a \in Action PROVE ~Queued(OwnRef(a)) /\ ~Held(OwnRef(a))
  <2>1. ~Queued(OwnRef(a))
    BY <1>2 DEF Queued
  <2>2. ~Held(OwnRef(a))
    BY <1>1, <1>3 DEF Held
  <2>3. QED
    BY <2>1, <2>2
<1>5. OnlyOwnUnstarted /\ QueuedOnce /\ QueuedOrHeld
  BY <1>1, <1>2 DEF OnlyOwnUnstarted, QueuedOnce, QueuedOrHeld
<1>6. HeldOnce /\ PuttingAlone
  BY <1>1 DEF HeldOnce, PuttingAlone
<1>7. NewUnseen
  BY <1>1, <1>3, <1>4 DEF NewUnseen
<1>8. LaunchersOwn /\ LaunchersDiffer
  BY <1>1 DEF LaunchersOwn, LaunchersDiffer, Launching
<1>9. QED
  BY <1>5, <1>6, <1>7, <1>8 DEF LaunchInv

(* An object that is started stays started.                                *)
StartedGrows == \A r \in Ref : obj[r].started => obj'[r].started

(* What a step may do to everything but the queue without adding a         *)
(* reference to an object that is not started.                             *)
Tame ==
  /\ StartedGrows
  /\ \A w \in Worker : wref'[w] \in {wref[w], NoRef}
  /\ \A w \in Worker : wpc'[w] \in Launching => wpc[w] \in Launching /\ wref'[w] = wref[w]
  /\ \/ watch' \in {watch, NoRef}
     \/ obj'[watch'].started /\ \A a \in Action : sub'[a] = "new" => watch' # OwnRef(a)
  /\ \A a \in Action : \/ cache'[a] \in {cache[a], "none"}
                       \/ OwnOrStarted(CacheRef(a))'
  /\ \A a \in Action : sub'[a] = "new" => sub[a] = "new" /\ cache'[a] # "own"
  /\ \A a \in Action :
       sub'[a] = "putting" =>
         \/ sub[a] = "putting" /\ cache'[a] = cache[a]
         \/ obj'[CacheRef(a)'].started
         \/ ~Queued(CacheRef(a)') /\ ~Held(CacheRef(a)')

LEMMA HeldShrinks ==
  ASSUME Tame, NEW r \in Ref, ~Held(r)
  PROVE  ~Held(r)'
BY ConstantsAssumption DEF Tame, Held

(* The parts of LaunchInv that do not mention the queue.                   *)
LEMMA TameKeeps ==
  ASSUME TypeOK, TypeOK', LaunchInv, Tame
  PROVE  HeldOnce' /\ LaunchersOwn' /\ LaunchersDiffer'
<1>1. HeldOnce'
  <2> SUFFICES ASSUME NEW v \in Worker, NEW w \in Worker, wref'[v] # NoRef,
                      wref'[v] = wref'[w], ~obj'[wref'[v]].started
               PROVE  v = w
    BY DEF HeldOnce
  <2>1. wref'[v] = wref[v] /\ wref'[w] = wref[w]
    BY DEF Tame
  <2>2. wref[v] \in Ref
    BY <2>1 DEF TypeOK
  <2>3. ~obj[wref[v]].started
    BY <2>1, <2>2 DEF Tame, StartedGrows
  <2>4. QED
    BY <2>1, <2>3 DEF LaunchInv, HeldOnce
<1>2. LaunchersOwn'
  BY DEF LaunchInv, LaunchersOwn, Tame
<1>3. LaunchersDiffer'
  BY DEF LaunchInv, LaunchersDiffer, Tame
<1>4. QED
  BY <1>1, <1>2, <1>3

LEMMA TameNoPut ==
  ASSUME TypeOK, TypeOK', LaunchInv, Tame, queue' = queue
  PROVE  LaunchInv'
<1>1. \A i \in 1..Len(queue) : queue[i] \in Ref
  BY DEF TypeOK
<1>2. \A a \in Action : cache'[a] # "none" => CacheRef(a)' \in Ref
  BY RefTypes DEF TypeOK, CacheRef
<1>3. \A r : Queued(r)' <=> Queued(r)
  BY DEF Queued
<1>4. OnlyOwnUnstarted'
  <2>1. \A i \in 1..Len(queue) : OwnOrStarted(queue[i])'
    BY <1>1 DEF LaunchInv, OnlyOwnUnstarted, OwnOrStarted, Tame, StartedGrows
  <2>2. ASSUME NEW a \in Action, cache'[a] # "none"
        PROVE  OwnOrStarted(CacheRef(a))'
    <3>1. CASE cache'[a] = cache[a]
      <4>1. CacheRef(a)' = CacheRef(a) /\ CacheRef(a) \in Ref
        BY <1>2, <2>2, <3>1 DEF CacheRef
      <4>2. OwnOrStarted(CacheRef(a))
        BY <2>2, <3>1 DEF LaunchInv, OnlyOwnUnstarted
      <4>3. QED
        BY <4>1, <4>2 DEF OwnOrStarted, Tame, StartedGrows
    <3>2. QED
      BY <2>2, <3>1 DEF Tame
  <2>3. watch' # NoRef => obj'[watch'].started
    BY DEF LaunchInv, OnlyOwnUnstarted, Tame, StartedGrows, TypeOK
  <2>4. QED
    BY <2>1, <2>2, <2>3 DEF OnlyOwnUnstarted
<1>5. QueuedOnce'
  BY <1>1 DEF LaunchInv, QueuedOnce, Tame, StartedGrows
<1>6. QueuedOrHeld'
  BY <1>1, HeldShrinks DEF LaunchInv, QueuedOrHeld, Tame, StartedGrows
<1>7. PuttingAlone'
  <2> SUFFICES ASSUME NEW a \in Action, sub'[a] = "putting", ~obj'[CacheRef(a)'].started
               PROVE  /\ \A i \in 1..Len(queue') : queue'[i] # CacheRef(a)'
                      /\ \A w \in Worker : wref'[w] # CacheRef(a)'
    BY DEF PuttingAlone, Queued, Held
  <2>1. CacheRef(a)' \in Ref
    BY <1>2 DEF TypeOK
  <2>2. ~Queued(CacheRef(a)') /\ ~Held(CacheRef(a)')
    <3>1. CASE sub[a] = "putting" /\ cache'[a] = cache[a]
      <4>1. CacheRef(a)' = CacheRef(a)
        BY <3>1 DEF CacheRef
      <4>2. ~obj[CacheRef(a)].started
        BY <2>1, <4>1 DEF Tame, StartedGrows
      <4>3. QED
        BY <3>1, <4>1, <4>2 DEF LaunchInv, PuttingAlone
    <3>2. QED
      BY <3>1 DEF Tame
  <2>3. \A i \in 1..Len(queue') : queue'[i] # CacheRef(a)'
    BY <2>2 DEF Queued
  <2>4. \A w \in Worker : wref'[w] # CacheRef(a)'
    BY <2>1, <2>2, ConstantsAssumption DEF Tame, Held
  <2>5. QED
    BY <2>3, <2>4
<1>8. NewUnseen'
  <2> SUFFICES ASSUME NEW a \in Action, sub'[a] = "new"
               PROVE  /\ cache'[a] # "own" /\ watch' # OwnRef(a)
                      /\ ~Queued(OwnRef(a)) /\ ~Held(OwnRef(a))'
    BY <1>3 DEF NewUnseen, OwnRef
  <2>1. OwnRef(a) \in Ref
    BY RefTypes
  <2>2. /\ sub[a] = "new" /\ cache'[a] # "own"
        /\ watch # OwnRef(a) /\ ~Queued(OwnRef(a)) /\ ~Held(OwnRef(a))
    BY DEF Tame, LaunchInv, NewUnseen
  <2>3. watch' # OwnRef(a)
    BY <2>1, <2>2, ConstantsAssumption DEF Tame
  <2>4. QED
    BY <2>1, <2>2, <2>3, HeldShrinks DEF OwnRef
<1>9. QED
  BY <1>4, <1>5, <1>6, <1>7, <1>8, TameKeeps DEF LaunchInv

(* What a put into the queue must respect.                                 *)
Proper(r) ==
  /\ OwnOrStarted(r)'
  /\ \A a \in Action : sub'[a] = "new" => r # OwnRef(a)
  /\ \/ obj'[r].started
     \/ /\ ~Queued(r)
        /\ \A w \in Worker : wref'[w] # r
        /\ \A a \in Action : sub'[a] = "putting" => CacheRef(a)' # r

LEMMA PutElements ==
  ASSUME TypeOK, NEW r \in Ref, queue' = Append(queue, r)
  PROVE  /\ Len(queue) \in Nat /\ Len(queue') = Len(queue) + 1
         /\ \A i \in 1..Len(queue) : queue[i] \in Ref /\ queue'[i] = queue[i]
         /\ queue'[Len(queue) + 1] = r
         /\ \A i \in 1..Len(queue') : i \in 1..Len(queue) \/ i = Len(queue) + 1
BY DEF TypeOK

LEMMA TamePut ==
  ASSUME TypeOK, TypeOK', LaunchInv, Tame,
         NEW r \in Ref, queue' = Append(queue, r), Proper(r)
  PROVE  LaunchInv'
<1>1. /\ Len(queue) \in Nat /\ Len(queue') = Len(queue) + 1
      /\ \A i \in 1..Len(queue) : queue[i] \in Ref /\ queue'[i] = queue[i]
      /\ queue'[Len(queue) + 1] = r
      /\ \A i \in 1..Len(queue') : i \in 1..Len(queue) \/ i = Len(queue) + 1
  BY PutElements
<1>2. \A a \in Action : cache'[a] # "none" => CacheRef(a)' \in Ref
  BY RefTypes DEF TypeOK, CacheRef
<1>3. OnlyOwnUnstarted'
  <2>1. ASSUME NEW i \in 1..Len(queue')
        PROVE  queue'[i].kind = "own" \/ obj'[queue'[i]].started
    <3>1. CASE i \in 1..Len(queue)
      BY <1>1, <3>1 DEF LaunchInv, OnlyOwnUnstarted, OwnOrStarted, Tame, StartedGrows
    <3>2. CASE i = Len(queue) + 1
      BY <1>1, <3>2 DEF Proper, OwnOrStarted
    <3>3. QED
      BY <1>1, <3>1, <3>2
  <2>2. ASSUME NEW a \in Action, cache'[a] # "none"
        PROVE  OwnOrStarted(CacheRef(a))'
    <3>1. CASE cache'[a] = cache[a]
      <4>1. CacheRef(a)' = CacheRef(a) /\ CacheRef(a) \in Ref
        BY <1>2, <2>2, <3>1 DEF CacheRef
      <4>2. OwnOrStarted(CacheRef(a))
        BY <2>2, <3>1 DEF LaunchInv, OnlyOwnUnstarted
      <4>3. QED
        BY <4>1, <4>2 DEF OwnOrStarted, Tame, StartedGrows
    <3>2. QED
      BY <2>2, <3>1 DEF Tame
  <2>3. watch' # NoRef => obj'[watch'].started
    BY DEF LaunchInv, OnlyOwnUnstarted, Tame, StartedGrows, TypeOK
  <2>4. (\A i \in 1..Len(queue) : OwnOrStarted(queue[i]))'
    BY <2>1 DEF OwnOrStarted
  <2>5. QED
    BY <2>2, <2>3, <2>4 DEF OnlyOwnUnstarted
<1>4. QueuedOnce'
  <2> SUFFICES ASSUME NEW i \in 1..Len(queue'), NEW j \in 1..Len(queue'),
                      queue'[i] = queue'[j], ~obj'[queue'[i]].started
               PROVE  i = j
    BY DEF QueuedOnce
  <2>1. CASE i \in 1..Len(queue) /\ j \in 1..Len(queue)
    <3>1. ~obj[queue[i]].started /\ queue[i] = queue[j]
      BY <1>1, <2>1 DEF Tame, StartedGrows
    <3>2. QED
      BY <2>1, <3>1 DEF LaunchInv, QueuedOnce
  <2>2. CASE i \in 1..Len(queue) /\ j = Len(queue) + 1
    BY <1>1, <2>2 DEF Proper, Queued
  <2>3. CASE i = Len(queue) + 1 /\ j \in 1..Len(queue)
    BY <1>1, <2>3 DEF Proper, Queued
  <2>4. CASE i = Len(queue) + 1 /\ j = Len(queue) + 1
    BY <2>4
  <2>5. QED
    BY <1>1, <2>1, <2>2, <2>3, <2>4
<1>5. QueuedOrHeld'
  <2> SUFFICES ASSUME NEW i \in 1..Len(queue'), ~obj'[queue'[i]].started, NEW w \in Worker
               PROVE  wref'[w] # queue'[i]
    BY DEF QueuedOrHeld, Held
  <2>1. CASE i \in 1..Len(queue)
    <3>1. queue[i] \in Ref /\ queue'[i] = queue[i] /\ ~obj[queue[i]].started
      BY <1>1, <2>1 DEF Tame, StartedGrows
    <3>2. wref[w] # queue[i]
      BY <2>1, <3>1 DEF LaunchInv, QueuedOrHeld, Held
    <3>3. QED
      BY <3>1, <3>2, ConstantsAssumption DEF Tame
  <2>2. CASE i = Len(queue) + 1
    BY <1>1, <2>2 DEF Proper
  <2>3. QED
    BY <1>1, <2>1, <2>2
<1>6. PuttingAlone'
  <2> SUFFICES ASSUME NEW a \in Action, sub'[a] = "putting", ~obj'[CacheRef(a)'].started
               PROVE  /\ \A i \in 1..Len(queue') : queue'[i] # CacheRef(a)'
                      /\ \A w \in Worker : wref'[w] # CacheRef(a)'
    BY DEF PuttingAlone, Queued, Held
  <2>1. CacheRef(a)' \in Ref
    BY <1>2 DEF TypeOK
  <2>2. ~Queued(CacheRef(a)') /\ ~Held(CacheRef(a)')
    <3>1. CASE sub[a] = "putting" /\ cache'[a] = cache[a]
      <4>1. CacheRef(a)' = CacheRef(a)
        BY <3>1 DEF CacheRef
      <4>2. ~obj[CacheRef(a)].started
        BY <2>1, <4>1 DEF Tame, StartedGrows
      <4>3. QED
        BY <3>1, <4>1, <4>2 DEF LaunchInv, PuttingAlone
    <3>2. QED
      BY <3>1 DEF Tame
  <2>3. CacheRef(a)' # r
    BY DEF Proper
  <2>4. \A i \in 1..Len(queue') : queue'[i] # CacheRef(a)'
    BY <1>1, <2>2, <2>3 DEF Queued
  <2>5. \A w \in Worker : wref'[w] # CacheRef(a)'
    BY <2>1, <2>2, ConstantsAssumption DEF Tame, Held
  <2>6. QED
    BY <2>4, <2>5
<1>7. NewUnseen'
  <2> SUFFICES ASSUME NEW a \in Action, sub'[a] = "new"
               PROVE  /\ cache'[a] # "own" /\ watch' # OwnRef(a)
                      /\ \A i \in 1..Len(queue') : queue'[i] # OwnRef(a)
                      /\ \A w \in Worker : wref'[w] # OwnRef(a)
    BY DEF NewUnseen, OwnRef, Queued, Held
  <2>1. OwnRef(a) \in Ref /\ r # OwnRef(a)
    BY RefTypes DEF Proper
  <2>2. /\ sub[a] = "new" /\ cache'[a] # "own"
        /\ watch # OwnRef(a) /\ ~Queued(OwnRef(a)) /\ ~Held(OwnRef(a))
    BY DEF Tame, LaunchInv, NewUnseen
  <2>3. watch' # OwnRef(a)
    BY <2>1, <2>2, ConstantsAssumption DEF Tame
  <2>4. \A i \in 1..Len(queue') : queue'[i] # OwnRef(a)
    BY <1>1, <2>1, <2>2 DEF Queued
  <2>5. \A w \in Worker : wref'[w] # OwnRef(a)
    BY <2>1, <2>2, ConstantsAssumption DEF Tame, Held
  <2>6. QED
    BY <2>2, <2>3, <2>4, <2>5
<1>8. QED
  BY <1>3, <1>4, <1>5, <1>6, <1>7, TameKeeps DEF LaunchInv

-----------------------------------------------------------------------------
LEMMA UnchangedTame ==
  ASSUME TypeOK, LaunchInv, UNCHANGED <<obj, cache, wpc, wref, watch, sub>>
  PROVE  Tame
BY DEF Tame, StartedGrows, LaunchInv, NewUnseen

LEMMA CallKeeps ==
  ASSUME TypeOK, TypeOK', LaunchInv, NEW a \in Action,
         Submit(a) \/ SubmitPut(a) \/ Return(a) \/ CancelSubmit(a)
  PROVE  LaunchInv'
<1>1. CASE Submit(a)
  <2>a. CachedWins(a) \in Kind
    BY DEF TypeOK, CachedWins, Kind
  <2>b. [act |-> a, kind |-> CachedWins(a)] \in Ref
    BY <2>a, RefTypes
  <2> SUFFICES ASSUME NEW r \in Ref, r = [act |-> a, kind |-> CachedWins(a)]
               PROVE  LaunchInv'
    BY <2>b
  <2>1. r = CacheRef(a)'
    <3>1. cache'[a] = CachedWins(a)
      BY <1>1 DEF Submit, TypeOK
    <3>2. QED
      BY <3>1 DEF CacheRef
  <2>2. UNCHANGED <<obj, wpc, wref, watch>>
    BY <1>1 DEF Submit, workerVars, watchVars
  <2>3. cache' = [cache EXCEPT ![a] = CachedWins(a)] /\ sub[a] = "new"
    BY <1>1 DEF Submit
  <2>4. r = OwnRef(a) \/ (cache[a] # "none" /\ r = CacheRef(a) /\ obj[r].started)
    <3>1. CASE cache[a] = "none"
      BY <3>1 DEF CachedWins, OwnRef
    <3>2. CASE cache[a] # "none"
      <4>1. r = CacheRef(a)
        BY <3>2 DEF CachedWins, CacheRef
      <4>2. cache[a] # "own" /\ OwnOrStarted(CacheRef(a))
        BY <2>3, <3>2 DEF LaunchInv, NewUnseen, OnlyOwnUnstarted
      <4>3. QED
        BY <3>2, <4>1, <4>2 DEF OwnOrStarted, CacheRef
    <3>3. QED
      BY <3>1, <3>2
  <2>5. ~Queued(OwnRef(a)) /\ ~Held(OwnRef(a))
    BY <2>3 DEF LaunchInv, NewUnseen
  <2>6. OwnOrStarted(r)'
    BY <2>2, <2>4 DEF OwnOrStarted, OwnRef
  <2>7. obj'[r].started \/ (~Queued(r) /\ ~Held(r))
    BY <2>2, <2>4, <2>5
  <2>8. sub' = [sub EXCEPT ![a] = "putting"] \/ sub' = [sub EXCEPT ![a] = "waiting"]
    BY <1>1 DEF Submit
  <2>9. Tame
    <3>1. StartedGrows
      BY <2>2 DEF StartedGrows
    <3>2. \A b \in Action : cache'[b] = cache[b] \/ OwnOrStarted(CacheRef(b))'
      BY <2>1, <2>3, <2>6 DEF TypeOK
    <3>3. \A b \in Action : sub'[b] = "new" => sub[b] = "new" /\ cache'[b] # "own"
      BY <2>3, <2>8 DEF TypeOK, LaunchInv, NewUnseen
    <3>4. ASSUME NEW b \in Action, sub'[b] = "putting"
          PROVE  \/ sub[b] = "putting" /\ cache'[b] = cache[b]
                 \/ obj'[CacheRef(b)'].started
                 \/ ~Queued(CacheRef(b)') /\ ~Held(CacheRef(b)')
      <4>1. CASE b = a
        BY <2>1, <2>7, <4>1
      <4>2. CASE b # a
        BY <2>3, <2>8, <3>4, <4>2 DEF TypeOK
      <4>3. QED
        BY <4>1, <4>2
    <3>5. QED
      BY <2>2, <3>1, <3>2, <3>3, <3>4 DEF Tame
  <2>10. CASE Room
    <3>1. sub' = [sub EXCEPT ![a] = "waiting"] /\ queue' = Append(queue, r)
      BY <1>1, <2>10 DEF Submit
    <3>2. ASSUME NEW b \in Action, sub'[b] = "new" PROVE r # OwnRef(b)
      <4>1. b # a
        BY <3>1, <3>2 DEF TypeOK
      <4>2. QED
        BY <4>1 DEF OwnRef
    <3>3. ASSUME NEW b \in Action, sub'[b] = "putting" PROVE CacheRef(b)' # r
      <4>1. b # a
        BY <3>1, <3>3 DEF TypeOK
      <4>2. QED
        BY <4>1 DEF CacheRef
    <3>4. Proper(r)
      BY <2>2, <2>6, <2>7, <3>2, <3>3 DEF Proper, Held
    <3>5. QED
      BY <2>1, <2>9, <3>1, <3>4, TamePut
  <2>11. CASE ~Room
    <3>1. queue' = queue
      BY <1>1, <2>11 DEF Submit
    <3>2. QED
      BY <2>9, <3>1, TameNoPut
  <2>12. QED
    BY <2>10, <2>11
<1>2. CASE SubmitPut(a)
  <2>1. /\ sub[a] = "putting" /\ queue' = Append(queue, CacheRef(a))
        /\ sub' = [sub EXCEPT ![a] = "waiting"]
        /\ UNCHANGED <<obj, cache, wpc, wref, watch>>
    BY <1>2 DEF SubmitPut, workerVars, watchVars
  <2>2. cache[a] # "none" /\ CacheRef(a) \in Ref
    BY <2>1, RefTypes DEF TypeOK, CacheRef
  <2>3. OwnOrStarted(CacheRef(a))
    BY <2>2 DEF LaunchInv, OnlyOwnUnstarted
  <2>4. obj[CacheRef(a)].started \/ (~Queued(CacheRef(a)) /\ ~Held(CacheRef(a)))
    BY <2>1 DEF LaunchInv, PuttingAlone
  <2>5. Tame
    BY <2>1 DEF Tame, StartedGrows, TypeOK, LaunchInv, NewUnseen
  <2>6. \A b \in Action : sub'[b] = "new" => CacheRef(a) # OwnRef(b)
    <3> SUFFICES ASSUME NEW b \in Action, sub'[b] = "new" PROVE CacheRef(a) # OwnRef(b)
      OBVIOUS
    <3>1. b # a
      BY <2>1 DEF TypeOK
    <3>2. QED
      BY <3>1 DEF CacheRef, OwnRef
  <2>7. \A b \in Action : sub'[b] = "putting" => CacheRef(b)' # CacheRef(a)
    <3> SUFFICES ASSUME NEW b \in Action, sub'[b] = "putting" PROVE CacheRef(b)' # CacheRef(a)
      OBVIOUS
    <3>1. b # a
      BY <2>1 DEF TypeOK
    <3>2. QED
      BY <3>1 DEF CacheRef
  <2>8. /\ OwnOrStarted(CacheRef(a))'
        /\ CacheRef(a)' = CacheRef(a)
    BY <2>1, <2>3 DEF OwnOrStarted, CacheRef
  <2>9. ASSUME NEW r \in Ref, r = CacheRef(a) PROVE LaunchInv'
    <3>1. OwnOrStarted(r)'
      BY <2>1, <2>3, <2>9 DEF OwnOrStarted
    <3>2. Proper(r)
      BY <2>1, <2>4, <2>6, <2>7, <2>9, <3>1 DEF Proper, Held
    <3>3. QED
      BY <2>1, <2>5, <2>9, <3>2, TamePut
  <2>10. QED
    BY <2>2, <2>9
<1>3. CASE Return(a)
  <2>1. /\ UNCHANGED <<obj, queue, wpc, wref, watch>>
        /\ cache' = [cache EXCEPT ![a] = "none"] /\ sub' = [sub EXCEPT ![a] = "returned"]
    BY <1>3 DEF Return, workerVars, watchVars
  <2>2. Tame
    BY <2>1 DEF Tame, StartedGrows, TypeOK, LaunchInv, NewUnseen
  <2>3. QED
    BY <2>1, <2>2, TameNoPut
<1>4. CASE CancelSubmit(a)
  <2>1. /\ UNCHANGED <<obj, cache, queue, wpc, wref, watch>>
        /\ sub' = [sub EXCEPT ![a] = "cancelled"]
    BY <1>4 DEF CancelSubmit, workerVars, watchVars
  <2>2. Tame
    BY <2>1 DEF Tame, StartedGrows, TypeOK, LaunchInv, NewUnseen
  <2>3. QED
    BY <2>1, <2>2, TameNoPut
<1>5. QED
  BY <1>1, <1>2, <1>3, <1>4

LEMMA CancelKeeps ==
  ASSUME TypeOK, TypeOK', LaunchInv, NEW a \in Action,
         BeginCancel(a) \/ AbortReplies(a) \/ AbortFails(a)
  PROVE  LaunchInv'
<1>1. CASE BeginCancel(a)
  <2>1. /\ UNCHANGED <<cache, queue, wpc, wref, watch, sub>>
        /\ \/ obj' = obj
           \/ obj' = [obj EXCEPT ![OwnRef(a)] = mark_cancelled(obj[OwnRef(a)])]
    BY <1>1 DEF BeginCancel, workerVars, watchVars
  <2>2. obj[OwnRef(a)] \in Object
    BY RefTypes DEF TypeOK
  <2>3. mark_cancelled(obj[OwnRef(a)]).started
    BY <2>2 DEF mark_cancelled, Object
  <2>4. StartedGrows
    <3>1. obj \in [Ref -> Object] /\ OwnRef(a) \in Ref
      BY RefTypes DEF TypeOK
    <3>2. QED
      BY <2>1, <2>3, <3>1 DEF StartedGrows
  <2>5. Tame
    BY <2>1, <2>4 DEF Tame, LaunchInv, NewUnseen
  <2>6. QED
    BY <2>1, <2>5, TameNoPut
<1>2. CASE AbortReplies(a)
  BY <1>2, UnchangedTame, TameNoPut DEF AbortReplies, workerVars
<1>3. CASE AbortFails(a)
  BY <1>3, UnchangedTame, TameNoPut DEF AbortFails, workerVars, watchVars
<1>4. QED
  BY <1>1, <1>2, <1>3

LEMMA TakeElements ==
  ASSUME TypeOK, queue # <<>>, queue' = Tail(queue)
  PROVE  /\ Len(queue) \in Nat \ {0} /\ Head(queue) = queue[1] /\ queue[1] \in Ref
         /\ \A i \in 1..Len(queue) : queue[i] \in Ref
         /\ \A i \in 1..Len(queue') : i + 1 \in 1..Len(queue) /\ queue'[i] = queue[i + 1]
BY DEF TypeOK

LEMMA TakeKeeps ==
  ASSUME TypeOK, TypeOK', LaunchInv, NEW w \in Worker, Take(w)
  PROVE  LaunchInv'
<1>1. /\ queue # <<>> /\ queue' = Tail(queue) /\ wpc[w] = "idle"
      /\ UNCHANGED <<obj, cache, watch, sub>>
  BY DEF Take, callVars, watchVars
<1>2. /\ Len(queue) \in Nat \ {0} /\ Head(queue) = queue[1] /\ queue[1] \in Ref
      /\ \A i \in 1..Len(queue) : queue[i] \in Ref
      /\ \A i \in 1..Len(queue') : i + 1 \in 1..Len(queue) /\ queue'[i] = queue[i + 1]
  BY <1>1, TakeElements
<1> SUFFICES ASSUME NEW r \in Ref, r = queue[1]
             PROVE  LaunchInv'
  BY <1>2
<1>3. 1 \in 1..Len(queue) /\ OwnOrStarted(r)
  BY <1>2 DEF LaunchInv, OnlyOwnUnstarted
<1>4. wref' = [wref EXCEPT ![w] = r] \/ wref' = [wref EXCEPT ![w] = NoRef]
  BY <1>2 DEF Take
<1>5. wpc' = [wpc EXCEPT ![w] = Todo(obj[r])]
  BY <1>2 DEF Take, Suspend
<1>6. Todo(obj[r]) \in Launching => ~obj[r].started /\ wref' = [wref EXCEPT ![w] = r]
  BY <1>2 DEF Take, Todo, Launching
<1>7. ~obj[r].started => /\ ~Held(r)
                         /\ \A i \in 1..Len(queue') : queue'[i] # r
  <2> SUFFICES ASSUME ~obj[r].started
               PROVE  ~Held(r) /\ \A i \in 1..Len(queue') : queue'[i] # r
    OBVIOUS
  <2>1. ~Held(r)
    BY <1>3 DEF LaunchInv, QueuedOrHeld
  <2>2. ASSUME NEW i \in 1..Len(queue'), queue'[i] = r PROVE FALSE
    <3>1. queue[i + 1] = queue[1] /\ i + 1 \in 1..Len(queue)
      BY <1>2, <2>2
    <3>2. i + 1 = 1
      BY <1>3, <3>1 DEF LaunchInv, QueuedOnce
    <3>3. QED
      BY <3>2
  <2>3. QED
    BY <2>1, <2>2
<1>8. ASSUME NEW v \in Worker
      PROVE  \/ v # w /\ wref'[v] = wref[v] /\ wpc'[v] = wpc[v]
             \/ v = w /\ wref'[v] \in {r, NoRef} /\ wpc'[v] = Todo(obj[r])
  BY <1>4, <1>5 DEF TypeOK
<1>9. OnlyOwnUnstarted'
  <2>1. \A i \in 1..Len(queue') : queue'[i].kind = "own" \/ obj[queue'[i]].started
    BY <1>2 DEF LaunchInv, OnlyOwnUnstarted, OwnOrStarted
  <2>2. QED
    BY <1>1, <2>1 DEF LaunchInv, OnlyOwnUnstarted, OwnOrStarted, CacheRef
<1>10. QueuedOnce'
  <2> SUFFICES ASSUME NEW i \in 1..Len(queue'), NEW j \in 1..Len(queue'),
                      queue'[i] = queue'[j], ~obj[queue'[i]].started
               PROVE  i = j
    BY <1>1 DEF QueuedOnce
  <2>1. i + 1 = j + 1
    BY <1>2 DEF LaunchInv, QueuedOnce
  <2>2. QED
    BY <2>1
<1>11. HeldOnce'
  <2> SUFFICES ASSUME NEW u \in Worker, NEW v \in Worker, wref'[u] # NoRef,
                      wref'[u] = wref'[v], ~obj[wref'[u]].started
               PROVE  u = v
    BY <1>1 DEF HeldOnce
  <2>1. CASE u # w /\ v # w
    BY <1>8, <2>1 DEF LaunchInv, HeldOnce
  <2>2. CASE u = w /\ v # w
    BY <1>7, <1>8, <2>2 DEF Held
  <2>3. CASE u # w /\ v = w
    BY <1>7, <1>8, <2>3 DEF Held
  <2>4. QED
    BY <2>1, <2>2, <2>3
<1>12. QueuedOrHeld'
  <2> SUFFICES ASSUME NEW i \in 1..Len(queue'), ~obj[queue'[i]].started, NEW v \in Worker
               PROVE  wref'[v] # queue'[i]
    BY <1>1 DEF QueuedOrHeld, Held
  <2>1. queue'[i] \in Ref /\ ~Held(queue'[i])
    BY <1>2 DEF LaunchInv, QueuedOrHeld
  <2>2. CASE v # w
    BY <1>8, <2>1, <2>2 DEF Held
  <2>3. CASE v = w
    BY <1>7, <1>8, <2>1, <2>3, ConstantsAssumption
  <2>4. QED
    BY <2>2, <2>3
<1>13. PuttingAlone'
  <2> SUFFICES ASSUME NEW a \in Action, sub[a] = "putting", ~obj[CacheRef(a)].started
               PROVE  /\ \A i \in 1..Len(queue') : queue'[i] # CacheRef(a)
                      /\ \A v \in Worker : wref'[v] # CacheRef(a)
    BY <1>1 DEF PuttingAlone, CacheRef, Queued, Held
  <2>1. ~Queued(CacheRef(a)) /\ ~Held(CacheRef(a)) /\ CacheRef(a) \in Ref
    BY RefTypes DEF LaunchInv, PuttingAlone, TypeOK, CacheRef
  <2>2. \A i \in 1..Len(queue') : queue'[i] # CacheRef(a)
    BY <1>2, <2>1 DEF Queued
  <2>3. CacheRef(a) # r
    BY <1>3, <2>1 DEF Queued
  <2>4. \A v \in Worker : wref'[v] # CacheRef(a)
    BY <1>8, <2>1, <2>3, ConstantsAssumption DEF Held
  <2>5. QED
    BY <2>2, <2>4
<1>14. NewUnseen'
  <2> SUFFICES ASSUME NEW a \in Action, sub[a] = "new"
               PROVE  /\ cache[a] # "own" /\ watch # OwnRef(a)
                      /\ \A i \in 1..Len(queue') : queue'[i] # OwnRef(a)
                      /\ \A v \in Worker : wref'[v] # OwnRef(a)
    BY <1>1 DEF NewUnseen, OwnRef, Queued, Held
  <2>1. /\ cache[a] # "own" /\ watch # OwnRef(a) /\ OwnRef(a) \in Ref
        /\ ~Queued(OwnRef(a)) /\ ~Held(OwnRef(a))
    BY RefTypes DEF LaunchInv, NewUnseen
  <2>2. \A i \in 1..Len(queue') : queue'[i] # OwnRef(a)
    BY <1>2, <2>1 DEF Queued
  <2>3. OwnRef(a) # r
    BY <1>3, <2>1 DEF Queued
  <2>4. \A v \in Worker : wref'[v] # OwnRef(a)
    BY <1>8, <2>1, <2>3, ConstantsAssumption DEF Held
  <2>5. QED
    BY <2>1, <2>2, <2>4
<1>15. LaunchersOwn'
  <2> SUFFICES ASSUME NEW v \in Worker, wpc'[v] \in Launching
               PROVE  wref'[v].kind = "own"
    BY DEF LaunchersOwn
  <2>1. CASE v # w
    BY <1>8, <2>1 DEF LaunchInv, LaunchersOwn
  <2>2. CASE v = w
    <3>1. ~obj[r].started /\ wref'[v] = r
      BY <1>6, <1>8, <2>2 DEF TypeOK
    <3>2. QED
      BY <1>3, <3>1 DEF OwnOrStarted
  <2>3. QED
    BY <2>1, <2>2
<1>16. LaunchersDiffer'
  <2> SUFFICES ASSUME NEW u \in Worker, NEW v \in Worker, wpc'[u] \in Launching,
                      wpc'[v] \in Launching, wref'[u] = wref'[v]
               PROVE  u = v
    BY DEF LaunchersDiffer
  <2>1. CASE u # w /\ v # w
    BY <1>8, <2>1 DEF LaunchInv, LaunchersDiffer
  <2>2. CASE u = w /\ v # w
    <3>1. ~obj[r].started /\ wref'[w] = r /\ wref'[v] = wref[v]
      BY <1>6, <1>8, <2>2 DEF TypeOK
    <3>2. QED
      BY <1>7, <3>1, <2>2 DEF Held
  <2>3. CASE u # w /\ v = w
    <3>1. ~obj[r].started /\ wref'[w] = r /\ wref'[u] = wref[u]
      BY <1>6, <1>8, <2>3 DEF TypeOK
    <3>2. QED
      BY <1>7, <3>1, <2>3 DEF Held
  <2>4. QED
    BY <2>1, <2>2, <2>3
<1>17. QED
  BY <1>9, <1>10, <1>11, <1>12, <1>13, <1>14, <1>15, <1>16 DEF LaunchInv

LEMMA ErrTame ==
  ASSUME TypeOK, LaunchInv, NEW r \in Ref, NEW w \in Worker, NEW pc \in {"firing", "enqueuing"},
         obj' = obj \/ obj' = [obj EXCEPT ![r] = [obj[r] EXCEPT !.err = TRUE]],
         wpc[w] \in Launching, wpc' = [wpc EXCEPT ![w] = pc],
         UNCHANGED <<cache, wref, watch, sub>>
  PROVE  Tame
<1>1. obj \in [Ref -> Object]
  BY DEF TypeOK
<1>2. obj[r] \in Object
  BY <1>1
<1>3. [obj[r] EXCEPT !.err = TRUE].started = obj[r].started
  BY <1>2 DEF Object
<1>4. StartedGrows
  BY <1>1, <1>3 DEF StartedGrows
<1>5. \A v \in Worker : wpc'[v] \in Launching => wpc[v] \in Launching
  BY DEF TypeOK
<1>6. QED
  BY <1>4, <1>5 DEF Tame, LaunchInv, NewUnseen

LEMMA WorkerKeeps ==
  ASSUME TypeOK, TypeOK', LaunchInv, NEW w \in Worker,
         Take(w) \/ Send(w) \/ EnqueueOk(w) \/ EnqueueRefused(w)
           \/ EnqueueFails(w) \/ Requeue(w) \/ Fire(w)
  PROVE  LaunchInv'
<1>1. CASE Take(w)
  BY <1>1, TakeKeeps
<1>2. CASE Send(w)
  <2>1. wref[w] \in Ref /\ wpc[w] \in Launching
    BY <1>2 DEF TypeOK, Send, Launching
  <2>2. /\ \/ obj' = obj
           \/ obj' = [obj EXCEPT ![wref[w]] = [obj[wref[w]] EXCEPT !.err = TRUE]]
        /\ \E pc \in {"firing", "enqueuing"} : wpc' = [wpc EXCEPT ![w] = pc]
        /\ UNCHANGED <<cache, queue, wref, watch, sub>>
    BY <1>2 DEF Send, FailAction, Suspend, callVars, watchVars
  <2>3. Tame
    BY <2>1, <2>2, ErrTame
  <2>4. QED
    BY <2>2, <2>3, TameNoPut
<1>3. CASE EnqueueOk(w)
  <2>1. /\ UNCHANGED <<obj, cache, queue, watch, sub>>
        /\ wpc' = [wpc EXCEPT ![w] = "idle"] /\ wref' = [wref EXCEPT ![w] = NoRef]
    BY <1>3 DEF EnqueueOk, Finish, Suspend, callVars, watchVars
  <2>2. Tame
    BY <2>1 DEF Tame, StartedGrows, TypeOK, LaunchInv, NewUnseen, Launching
  <2>3. QED
    BY <2>1, <2>2, TameNoPut
<1>4. CASE EnqueueRefused(w)
  <2>1. wref[w] \in Ref /\ wpc[w] \in Launching
    BY <1>4 DEF TypeOK, EnqueueRefused, Launching
  <2>2. /\ obj' = [obj EXCEPT ![wref[w]] = [obj[wref[w]] EXCEPT !.err = TRUE]]
        /\ wpc' = [wpc EXCEPT ![w] = "firing"]
        /\ UNCHANGED <<cache, queue, wref, watch, sub>>
    BY <1>4 DEF EnqueueRefused, FailAction, Suspend, callVars, watchVars
  <2>3. Tame
    BY <2>1, <2>2, ErrTame
  <2>4. QED
    BY <2>2, <2>3, TameNoPut
<1>5. CASE EnqueueFails(w)
  <2>1. /\ UNCHANGED <<obj, cache, queue, wref, watch, sub>> /\ wpc[w] = "enqueuing"
        /\ wpc' = [wpc EXCEPT ![w] = "backoff"] \/ wpc' = [wpc EXCEPT ![w] = "dead"]
    BY <1>5 DEF EnqueueFails, Suspend, callVars, watchVars
  <2>2. Tame
    BY <2>1 DEF Tame, StartedGrows, TypeOK, LaunchInv, NewUnseen, Launching
  <2>3. QED
    BY <2>1, <2>2, TameNoPut
<1>6. CASE Requeue(w)
  <2>1. wpc[w] \in Launching /\ UNCHANGED <<obj, cache, watch, sub>>
    BY <1>6 DEF Requeue, Launching, callVars, watchVars
  <2>2. wref[w] \in Ref /\ wref[w].kind = "own"
    BY <1>6, <2>1 DEF Requeue, TypeOK, LaunchInv, LaunchersOwn
  <2> SUFFICES ASSUME NEW r \in Ref, r = wref[w] PROVE LaunchInv'
    BY <2>2
  <2>3. CASE queue' = queue /\ wref' = wref /\ wpc' = [wpc EXCEPT ![w] = "requeuing"]
    <3>1. Tame
      BY <2>1, <2>3 DEF Tame, StartedGrows, TypeOK, LaunchInv, NewUnseen, Launching
    <3>2. QED
      BY <2>3, <3>1, TameNoPut
  <2>4. CASE /\ queue' = Append(queue, r) /\ wref' = [wref EXCEPT ![w] = NoRef]
             /\ wpc' = [wpc EXCEPT ![w] = "idle"]
    <3>1. Tame
      BY <2>1, <2>4 DEF Tame, StartedGrows, TypeOK, LaunchInv, NewUnseen, Launching
    <3>2. Held(r)
      BY DEF Held
    <3>3. \A a \in Action : sub[a] = "new" => r # OwnRef(a)
      BY <3>2 DEF LaunchInv, NewUnseen
    <3>4. ~obj[r].started => /\ ~Queued(r)
                             /\ \A a \in Action : sub[a] = "putting" => CacheRef(a) # r
      BY <3>2 DEF LaunchInv, QueuedOrHeld, PuttingAlone, Queued
    <3>5. ~obj[r].started => \A v \in Worker : wref'[v] # r
      BY <2>4, ConstantsAssumption DEF LaunchInv, HeldOnce, TypeOK
    <3>6. OwnOrStarted(r)'
      BY <2>2 DEF OwnOrStarted
    <3>7. \A a \in Action : CacheRef(a)' = CacheRef(a)
      BY <2>1 DEF CacheRef
    <3>8. Proper(r)
      BY <2>1, <3>3, <3>4, <3>5, <3>6, <3>7 DEF Proper
    <3>9. QED
      BY <2>4, <3>1, <3>8, TamePut
  <2>5. QED
    BY <1>6, <2>3, <2>4 DEF Requeue, Finish, Suspend
<1>7. CASE Fire(w)
  <2>1. /\ UNCHANGED <<obj, cache, queue, watch, sub>>
        /\ wpc' = [wpc EXCEPT ![w] = "idle"] /\ wref' = [wref EXCEPT ![w] = NoRef]
    BY <1>7 DEF Fire, Finish, Suspend, callVars, watchVars
  <2>2. Tame
    BY <2>1 DEF Tame, StartedGrows, TypeOK, LaunchInv, NewUnseen, Launching
  <2>3. QED
    BY <2>1, <2>2, TameNoPut
<1>8. QED
  BY <1>1, <1>2, <1>3, <1>4, <1>5, <1>6, <1>7

LEMMA UpdateEffect ==
  ASSUME TypeOK, NEW a \in Action, Update(a)
  PROVE  \E k \in Kind, r \in Ref, o \in Object :
           /\ r = [act |-> a, kind |-> k] /\ o.started
           /\ cache[a] # "none" => k = cache[a]
           /\ cache[a] = "none" => k # "own"
           /\ cache' = [cache EXCEPT ![a] = k]
           /\ obj' = [obj EXCEPT ![r] = o]
           /\ Notify(r)
           /\ UNCHANGED <<wpc, wref, sub>>
<1> DEFINE p == Head(stream[a])
           k == IF cache[a] # "none" THEN cache[a]
                ELSE IF obj[[act |-> a, kind |-> "seen"]].started THEN "late" ELSE "seen"
           r == [act |-> a, kind |-> k]
           o == IF cache[a] # "none" THEN merge_state(obj[r], p) ELSE from_state(p)
<1>1. p \in Live
  BY DEF TypeOK, Update
<1>2. k \in Kind /\ (cache[a] # "none" => k = cache[a]) /\ (cache[a] = "none" => k # "own")
  BY DEF TypeOK, Kind
<1>3. r \in Ref
  BY <1>2, RefTypes
<1>4. /\ cache' = [cache EXCEPT ![a] = k] /\ Notify(r) /\ UNCHANGED <<wpc, wref, sub>>
      /\ obj' = [obj EXCEPT ![r] = IF cache[a] # "none" THEN merge_state(@, p) ELSE from_state(p)]
  BY DEF Update, workerVars, callVars
<1>5. r = [act |-> a, kind |-> k]
  OBVIOUS
<1> HIDE DEF p, k, r
<1>6. obj[r] \in Object
  BY <1>3 DEF TypeOK
<1>7. o \in Object
  BY <1>1, <1>6, ObjectTypes
<1>8. o.started
  BY <1>6 DEF merge_state, from_state, Object
<1>9. obj' = [obj EXCEPT ![r] = o]
  BY <1>4
<1> HIDE DEF o
<1>10. QED
  BY <1>2, <1>3, <1>4, <1>5, <1>7, <1>8, <1>9

LEMMA UpdateKeeps ==
  ASSUME TypeOK, TypeOK', LaunchInv, NEW a \in Action, Update(a)
  PROVE  LaunchInv'
<1>1. PICK k \in Kind, r \in Ref, o \in Object :
           /\ r = [act |-> a, kind |-> k] /\ o.started
           /\ cache[a] # "none" => k = cache[a]
           /\ cache[a] = "none" => k # "own"
           /\ cache' = [cache EXCEPT ![a] = k]
           /\ obj' = [obj EXCEPT ![r] = o]
           /\ Notify(r)
           /\ UNCHANGED <<wpc, wref, sub>>
  BY UpdateEffect
<1>2. obj \in [Ref -> Object] /\ cache \in [Action -> Kind \cup {"none"}]
  BY DEF TypeOK
<1>3. obj'[r].started /\ StartedGrows
  BY <1>1, <1>2 DEF StartedGrows
<1>4. cache'[a] = k /\ \A b \in Action : b # a => cache'[b] = cache[b]
  BY <1>1, <1>2
<1>5. CacheRef(a)' = r
  BY <1>1, <1>4 DEF CacheRef
<1>6. sub[a] = "new" => k # "own"
  BY <1>1 DEF LaunchInv, NewUnseen
<1>7. \A b \in Action : sub[b] = "new" => r # OwnRef(b)
  <2> SUFFICES ASSUME NEW b \in Action, sub[b] = "new" PROVE r # OwnRef(b)
    OBVIOUS
  <2>1. CASE b = a
    BY <1>1, <1>6, <2>1 DEF OwnRef
  <2>2. CASE b # a
    BY <1>1, <2>2 DEF OwnRef
  <2>3. QED
    BY <2>1, <2>2
<1>8. \A b \in Action : cache'[b] = cache[b] \/ OwnOrStarted(CacheRef(b))'
  <2> SUFFICES ASSUME NEW b \in Action, cache'[b] # cache[b]
               PROVE  OwnOrStarted(CacheRef(b))'
    OBVIOUS
  <2>1. b = a
    BY <1>4
  <2>2. OwnOrStarted(CacheRef(a))'
    BY <1>3, <1>5 DEF OwnOrStarted
  <2>3. QED
    BY <2>1, <2>2
<1>9. \A b \in Action : sub[b] = "new" => cache'[b] # "own"
  BY <1>4, <1>6 DEF LaunchInv, NewUnseen
<1>10. \A b \in Action : cache'[b] = cache[b] \/ obj'[CacheRef(b)'].started
  BY <1>3, <1>4, <1>5
<1>11. watch' \in {watch, NoRef} \/ watch' = r
  BY <1>1 DEF Notify
<1>12. Tame
  BY <1>1, <1>3, <1>7, <1>8, <1>9, <1>10, <1>11 DEF Tame
<1>13. CASE queue' = queue
  BY <1>12, <1>13, TameNoPut
<1>14. CASE queue' = Append(queue, r)
  <2>1. Proper(r)
    BY <1>1, <1>3, <1>7 DEF Proper, OwnOrStarted
  <2>2. QED
    BY <1>12, <1>14, <2>1, TamePut
<1>15. QED
  BY <1>1, <1>13, <1>14 DEF Notify

LEMMA NextKeeps ==
  ASSUME TypeOK, TypeOK', LaunchInv, [Next]_vars
  PROVE  LaunchInv'
<1>1. CASE StartInformer
  BY <1>1, UnchangedTame, TameNoPut DEF StartInformer, workerVars, callVars
<1>2. CASE SyncTimeout
  BY <1>2, UnchangedTame, TameNoPut DEF SyncTimeout, workerVars, callVars
<1>3. CASE Sentinel
  BY <1>3, UnchangedTame, TameNoPut DEF Sentinel, workerVars, callVars
<1>4. CASE Reconnect
  BY <1>4, UnchangedTame, TameNoPut DEF Reconnect, workerVars, callVars
<1>5. CASE WatchPut
  <2>1. /\ watch \in Ref /\ queue' = Append(queue, watch) /\ watch' = NoRef
        /\ UNCHANGED <<obj, cache, wpc, wref, sub>>
    BY <1>5 DEF WatchPut, TypeOK, workerVars, callVars
  <2>2. Tame
    BY <2>1 DEF Tame, StartedGrows, LaunchInv, NewUnseen
  <2>3. ASSUME NEW r \in Ref, r = watch PROVE LaunchInv'
    <3>1. obj'[r].started
      BY <2>1, <2>3, ConstantsAssumption DEF LaunchInv, OnlyOwnUnstarted
    <3>2. Proper(r)
      BY <2>1, <2>3, <3>1 DEF Proper, OwnOrStarted, LaunchInv, NewUnseen
    <3>3. QED
      BY <2>1, <2>2, <2>3, <3>2, TamePut
  <2>4. QED
    BY <2>1, <2>3
<1>6. ASSUME NEW a \in Action, Accept(a) PROVE LaunchInv'
  BY <1>6, UnchangedTame, TameNoPut DEF Accept, workerVars, callVars
<1>7. ASSUME NEW a \in Action, End(a) PROVE LaunchInv'
  BY <1>7, UnchangedTame, TameNoPut DEF End, workerVars, callVars
<1>8. CASE UNCHANGED vars
  BY <1>8, UnchangedTame, TameNoPut DEF vars
<1>9. QED
  BY <1>1, <1>2, <1>3, <1>4, <1>5, <1>6, <1>7, <1>8, StepCases,
     CallKeeps, CancelKeeps, WorkerKeeps, UpdateKeeps

LEMMA LaunchersDifferSuffices ==
  ASSUME TypeOK, LaunchInv
  PROVE  OneLauncher
<1> SUFFICES ASSUME NEW v \in Worker, NEW w \in Worker, wpc[v] \in Launching,
                    wpc[w] \in Launching, wref[v].act = wref[w].act
             PROVE  v = w
  BY DEF OneLauncher
<1>1. wref[v] \in Ref /\ wref[w] \in Ref
  BY DEF TypeOK, Launching
<1>2. wref[v].kind = "own" /\ wref[w].kind = "own"
  BY DEF LaunchInv, LaunchersOwn
<1>3. wref[v] = wref[w]
  BY <1>1, <1>2, RefTypes
<1>4. QED
  BY <1>3 DEF LaunchInv, LaunchersDiffer

(* At most one worker is launching an action, or backing off to launch it  *)
(* again, however many workers there are, however small the queue is, and  *)
(* whatever the watch, the retries and the cancellations put into it.      *)
THEOREM OneLauncherAlways == Spec => []OneLauncher
<1>1. Init => TypeOK /\ LaunchInv
  BY InitTypes, LaunchInit
<1>2. TypeOK /\ LaunchInv /\ [Next]_vars => TypeOK' /\ LaunchInv'
  BY NextTypes, NextKeeps
<1>3. TypeOK /\ LaunchInv => OneLauncher
  BY LaunchersDifferSuffices
<1>4. QED
  BY <1>1, <1>2, <1>3, PTL DEF Spec

-----------------------------------------------------------------------------
(* 3. Cancellation: the tombstone that mark_cancelled leaves stays.        *)

Marked == {"dropped", "aborting", "aborted"}

TombstoneInv ==
  \A a \in Action :
    /\ cancel[a] # "none" => a \notin Trace
    /\ cancel[a] \in Marked => ~obj[OwnRef(a)].task

TaskShrinks == \A r \in Ref : obj'[r].task => obj[r].task

LEMMA TombstoneKept ==
  ASSUME TombstoneInv, TaskShrinks, UNCHANGED cancel
  PROVE  TombstoneInv'
<1> SUFFICES ASSUME NEW a \in Action, cancel[a] \in Marked
             PROVE  ~obj'[OwnRef(a)].task
  BY DEF TombstoneInv, OwnRef
<1>1. OwnRef(a) \in Ref /\ ~obj[OwnRef(a)].task
  BY RefTypes DEF TombstoneInv
<1>2. QED
  BY <1>1 DEF TaskShrinks

LEMMA TombstoneSteps ==
  ASSUME TypeOK, LaunchInv, TombstoneInv, [Next]_vars
  PROVE  TombstoneInv'
<1>1. ASSUME UNCHANGED <<obj, cancel>> PROVE TombstoneInv'
  BY <1>1 DEF TombstoneInv, OwnRef
<1>2. ASSUME NEW a \in Action, CancelSubmit(a) PROVE TombstoneInv'
  <2>1. /\ UNCHANGED obj
        /\ cancel' = [cancel EXCEPT ![a] = IF a \in Trace THEN "none" ELSE "called"]
    BY <1>2 DEF CancelSubmit
  <2>2. QED
    BY <2>1 DEF TypeOK, TombstoneInv, Marked, OwnRef
<1>3. ASSUME NEW a \in Action, BeginCancel(a) PROVE TombstoneInv'
  <2>1. obj \in [Ref -> Object] /\ OwnRef(a) \in Ref /\ a \notin Trace
    BY <1>3, RefTypes DEF TypeOK, BeginCancel, TombstoneInv
  <2>2. CASE obj' = [obj EXCEPT ![OwnRef(a)] = mark_cancelled(obj[OwnRef(a)])]
    <3>1. ~mark_cancelled(obj[OwnRef(a)]).task
      BY <2>1 DEF mark_cancelled, Object
    <3>2. ~obj'[OwnRef(a)].task /\ TaskShrinks
      BY <2>1, <2>2, <3>1 DEF TaskShrinks
    <3>3. \A b \in Action : b # a => cancel'[b] = cancel[b]
      BY <1>3 DEF BeginCancel, TypeOK
    <3>4. SUFFICES ASSUME NEW b \in Action
                   PROVE  /\ cancel'[b] # "none" => b \notin Trace
                          /\ cancel'[b] \in Marked => ~obj'[OwnRef(b)].task
      BY DEF TombstoneInv, OwnRef
    <3>5. CASE b = a
      BY <2>1, <3>2, <3>5
    <3>6. CASE b # a
      BY <3>2, <3>3, <3>6, RefTypes DEF TombstoneInv, TaskShrinks
    <3>7. QED
      BY <3>5, <3>6
  <2>3. CASE UNCHANGED obj /\ cancel' = [cancel EXCEPT ![a] = "skipped"]
    BY <2>1, <2>3 DEF TypeOK, TombstoneInv, Marked, OwnRef
  <2>4. QED
    BY <1>3, <2>2, <2>3 DEF BeginCancel
<1>4. ASSUME NEW a \in Action, AbortReplies(a) \/ AbortFails(a) PROVE TombstoneInv'
  <2>1. UNCHANGED obj /\ cancel[a] = "aborting" /\ cancel' = [cancel EXCEPT ![a] = "aborted"]
    BY <1>4 DEF AbortReplies, AbortFails
  <2>2. QED
    BY <2>1 DEF TypeOK, TombstoneInv, Marked, OwnRef
<1>5. ASSUME NEW w \in Worker, Send(w) \/ EnqueueRefused(w) PROVE TombstoneInv'
  <2>1. /\ UNCHANGED cancel /\ wref[w] \in Ref /\ obj \in [Ref -> Object]
        /\ \/ obj' = obj
           \/ obj' = [obj EXCEPT ![wref[w]] = [obj[wref[w]] EXCEPT !.err = TRUE]]
    BY <1>5 DEF Send, EnqueueRefused, FailAction, TypeOK, callVars
  <2>2. obj[wref[w]] \in Object
    BY <2>1
  <2>3. [obj[wref[w]] EXCEPT !.err = TRUE].task = obj[wref[w]].task
    BY <2>2 DEF Object
  <2>4. TaskShrinks
    BY <2>1, <2>3 DEF TaskShrinks
  <2>5. QED
    BY <2>1, <2>4, TombstoneKept
<1>6. ASSUME NEW a \in Action, Update(a) PROVE TombstoneInv'
  <2> DEFINE p == Head(stream[a])
             k == IF cache[a] # "none" THEN cache[a]
                  ELSE IF obj[[act |-> a, kind |-> "seen"]].started THEN "late" ELSE "seen"
             r == [act |-> a, kind |-> k]
             o == IF cache[a] # "none" THEN merge_state(obj[r], p) ELSE from_state(p)
  <2>1. k \in Kind
    BY DEF TypeOK, Kind
  <2>2. r \in Ref
    BY <2>1, RefTypes
  <2>3. /\ obj' = [obj EXCEPT ![r] = IF cache[a] # "none" THEN merge_state(@, p) ELSE from_state(p)]
        /\ UNCHANGED cancel
    BY <1>6 DEF Update, callVars
  <2> HIDE DEF p, k, r
  <2>4. obj \in [Ref -> Object] /\ obj[r] \in Object
    BY <2>2 DEF TypeOK
  <2>5. o.task => obj[r].task
    BY <2>4 DEF merge_state, from_state, Object
  <2>6. obj' = [obj EXCEPT ![r] = o]
    BY <2>3
  <2> HIDE DEF o
  <2>7. TaskShrinks
    BY <2>2, <2>4, <2>5, <2>6 DEF TaskShrinks
  <2>8. QED
    BY <2>3, <2>7, TombstoneKept
<1>7. ASSUME NEW a \in Action, Submit(a) \/ SubmitPut(a) \/ Return(a) \/ Accept(a) \/ End(a)
      PROVE  TombstoneInv'
  BY <1>1, <1>7 DEF Submit, SubmitPut, Return, Accept, End, callVars
<1>8. ASSUME NEW w \in Worker, Take(w) \/ EnqueueOk(w) \/ EnqueueFails(w) \/ Requeue(w) \/ Fire(w)
      PROVE  TombstoneInv'
  BY <1>1, <1>8 DEF Take, EnqueueOk, EnqueueFails, Requeue, Fire, callVars
<1>9. ASSUME StartInformer \/ SyncTimeout \/ Sentinel \/ Reconnect \/ WatchPut \/ UNCHANGED vars
      PROVE  TombstoneInv'
  BY <1>1, <1>9 DEF StartInformer, SyncTimeout, Sentinel, Reconnect, WatchPut, vars, callVars
<1>10. QED
  BY <1>2, <1>3, <1>4, <1>5, <1>6, <1>7, <1>8, <1>9, StepCases

(* Requests are sent by Send only.                                         *)
LEMMA SendersOnly ==
  ASSUME TypeOK, [Next]_vars, NEW a \in SentNow
  PROVE  \E w \in Worker : /\ wpc[w] = "limiter" /\ wref[w].act = a
                           /\ ~SpecGone(wref[w]) /\ UNCHANGED cancel
<1>1. PICK w \in Worker : wref[w].act = a /\ wpc[w] = "limiter" /\ wpc'[w] = "enqueuing"
  BY DEF SentNow
<1>2. wpc \in [Worker -> WorkerPc] /\ wpc' # wpc
  BY <1>1 DEF TypeOK
<1>3. ASSUME NEW v \in Worker, Send(v)
      PROVE  ~SpecGone(wref[w]) /\ UNCHANGED cancel
  BY <1>1, <1>2, <1>3 DEF Send, FailAction, Suspend, callVars
<1>4. ASSUME NEW v \in Worker,
             \/ Take(v) \/ EnqueueOk(v) \/ EnqueueRefused(v) \/ EnqueueFails(v)
             \/ Requeue(v) \/ Fire(v)
      PROVE  FALSE
  <2>1. v # w
    BY <1>1, <1>4 DEF Take, EnqueueOk, EnqueueRefused, EnqueueFails, Requeue, Fire
  <2>2. \A u \in Worker \ {v} : wpc'[u] = wpc[u]
    BY <1>2, <1>4
    DEF Take, EnqueueOk, EnqueueRefused, EnqueueFails, Requeue, Fire, FailAction, Finish, Suspend
  <2> QED  BY <1>1, <1>2, <2>1, <2>2
<1>5. ASSUME NEW b \in Action, Accept(b) \/ End(b) PROVE FALSE
  BY <1>2, <1>5 DEF Accept, End, workerVars
<1>6. ASSUME NEW b \in Action, Submit(b) \/ SubmitPut(b) \/ Return(b) \/ CancelSubmit(b) PROVE FALSE
  BY <1>2, <1>6 DEF Submit, SubmitPut, Return, CancelSubmit, workerVars
<1>7. ASSUME NEW b \in Action, BeginCancel(b) \/ AbortReplies(b) \/ AbortFails(b) \/ Update(b) PROVE FALSE
  BY <1>2, <1>7 DEF BeginCancel, AbortReplies, AbortFails, Update, workerVars
<1>8. ASSUME StartInformer \/ SyncTimeout \/ Sentinel \/ Reconnect \/ WatchPut \/ UNCHANGED vars
      PROVE  FALSE
  BY <1>2, <1>8 DEF StartInformer, SyncTimeout, Sentinel, Reconnect, WatchPut, vars, workerVars
<1>9. QED
  BY <1>1, <1>3, <1>4, <1>5, <1>6, <1>7, <1>8, StepCases

LEMMA CancelledNotSent ==
  ASSUME TypeOK, LaunchInv, TombstoneInv, [Next]_vars
  PROVE  \A a \in SentNow : cancel[a] \notin {"dropped", "aborting", "aborted"}
<1> SUFFICES ASSUME NEW a \in SentNow, cancel[a] \in Marked
             PROVE  FALSE
  BY DEF Marked
<1>1. PICK w \in Worker : /\ wpc[w] = "limiter" /\ wref[w].act = a
                          /\ ~SpecGone(wref[w]) /\ UNCHANGED cancel
  BY SendersOnly
<1>2. wref[w] \in Ref /\ wref[w].kind = "own"
  BY <1>1 DEF TypeOK, LaunchInv, LaunchersOwn, Launching
<1>3. wref[w] = OwnRef(a) /\ a \in Action
  BY <1>1, <1>2, RefTypes DEF OwnRef
<1>4. a \notin Trace /\ ~obj[OwnRef(a)].task
  BY <1>3 DEF TombstoneInv, Marked
<1>5. QED
  BY <1>1, <1>3, <1>4 DEF SpecGone

(* No EnqueueAction leaves for an action whose cancel_action has marked    *)
(* it, also when the worker was waiting for the rate limiter or backing    *)
(* off while it was marked.                                                *)
THEOREM NoSendAfterCancelAlways == Spec => NoSendAfterCancel
<1>1. Init => TypeOK /\ LaunchInv /\ TombstoneInv
  <2>1. Init => TombstoneInv
    BY DEF Init, TombstoneInv, Marked
  <2>2. QED
    BY <2>1, InitTypes, LaunchInit
<1>2. TypeOK /\ LaunchInv /\ TombstoneInv /\ [Next]_vars => (TypeOK /\ LaunchInv /\ TombstoneInv)'
  BY NextTypes, NextKeeps, TombstoneSteps
<1>3. TypeOK /\ LaunchInv /\ TombstoneInv /\ [Next]_vars
        => [\A a \in SentNow : cancel[a] \notin {"dropped", "aborting", "aborted"}]_vars
  BY CancelledNotSent
<1>4. QED
  BY <1>1, <1>2, <1>3, PTL DEF Spec, NoSendAfterCancel

-----------------------------------------------------------------------------
(* 4. Which object a name stands for.                                      *)

Referred(r) == Queued(r) \/ Held(r) \/ watch = r

SeenRef(a) == [act |-> a, kind |-> "seen"]
LateRef(a) == [act |-> a, kind |-> "late"]

(* The state of r has come from the watch, not from a cancellation.        *)
Reported(r) == obj[r].started /\ (r.kind = "own" => cancel[r.act] \notin Marked)

ReportedCached ==
  \A r \in Ref : Reported(r) => \/ cache[r.act] = r.kind
                                \/ sub[r.act] = "returned" /\ ret[r.act] = r.kind

OwnCached ==
  \A a \in Action : Referred(OwnRef(a)) => cache[a] = "own" \/ sub[a] = "returned"

LateReturned ==
  \A a \in Action : cache[a] = "late" => sub[a] = "returned"

OwnSubmitted ==
  \A a \in Action : cache[a] = "own" => sub[a] \in {"putting", "waiting", "cancelled"}

HeldStarted ==
  \A w \in Worker : wref[w] # NoRef => OwnOrStarted(wref[w])

CancelledOnly == \A a \in Action : cancel[a] # "none" => sub[a] = "cancelled"

NewUntouched == \A a \in Action : sub[a] = "new" => event[a] = "none" /\ a \notin net

ReturnedKept ==
  \A a \in Action :
    sub[a] = "returned" => /\ ret[a] \in {"own", "seen"} /\ cache[a] # ret[a]
                           /\ ret[a] = "seen" => obj[SeenRef(a)].started

RefInv ==
  /\ ReportedCached /\ OwnCached /\ LateReturned /\ OwnSubmitted
  /\ HeldStarted /\ CancelledOnly /\ NewUntouched /\ ReturnedKept

(* How a step may move the call of a and what its name stands for.         *)
Resting(a) == cache'[a] = cache[a] /\ sub'[a] = sub[a] /\ ret'[a] = ret[a]

CallMove(a) ==
  \/ Resting(a)
  \/ /\ sub[a] = "new" /\ sub'[a] \in {"putting", "waiting"} /\ ret'[a] = ret[a]
     /\ cache'[a] = CachedWins(a)
  \/ /\ sub[a] \in {"putting", "waiting"} /\ sub'[a] \in {"waiting", "cancelled"}
     /\ cache'[a] = cache[a] /\ ret'[a] = ret[a]
  \/ /\ sub[a] = "waiting" /\ sub'[a] = "returned" /\ event[a] = "set"
     /\ cache'[a] = "none" /\ ret'[a] = cache[a]
  \/ /\ sub'[a] = sub[a] /\ ret'[a] = ret[a] /\ cache[a] = "none"
     /\ cache'[a] = IF obj[SeenRef(a)].started THEN "late" ELSE "seen"

(* ... and the references and marks that RefInv speaks of.                 *)
RefStep ==
  /\ StartedGrows
  /\ \A a \in Action : CallMove(a)
  /\ \A r \in Ref : obj'[r].started =>
       \/ obj[r].started
       \/ cache'[r.act] = r.kind
       \/ r.kind = "own" /\ cancel'[r.act] \in Marked
  /\ \A r \in Ref : Referred(r)' => Referred(r) \/ cache'[r.act] = r.kind
  /\ \A w \in Worker : wref'[w] \in {wref[w], NoRef} \/ Queued(wref'[w])
  /\ \A a \in Action : cancel[a] \in Marked => cancel'[a] \in Marked
  /\ \A a \in Action : cancel'[a] # "none" => cancel[a] # "none" \/ sub'[a] = "cancelled"
  /\ \A a \in Action : event'[a] # "none" => event[a] # "none" \/ sub'[a] # "new"
  /\ \A a \in net' : a \in net \/ Held(OwnRef(a))

LEMMA RefInit == Init => RefInv
<1> SUFFICES ASSUME Init PROVE RefInv
  OBVIOUS
<1>1. /\ queue = <<>> /\ watch = NoRef /\ net = {}
      /\ \A w \in Worker : wref[w] = NoRef
      /\ \A a \in Action : /\ cache[a] = "none" /\ sub[a] = "new" /\ event[a] = "none"
                           /\ cancel[a] = "none"
      /\ \A r \in Ref : ~obj[r].started
  BY RefTypes DEF Init, Submitted
<1>2. Len(queue) = 0
  BY <1>1
<1>3. \A a \in Action : ~Referred(OwnRef(a))
  <2> SUFFICES ASSUME NEW a \in Action PROVE ~Referred(OwnRef(a))
    OBVIOUS
  <2>1. OwnRef(a) # NoRef
    BY RefTypes, ConstantsAssumption
  <2>2. ~Queued(OwnRef(a))
    BY <1>2 DEF Queued
  <2>3. QED
    BY <1>1, <2>1, <2>2 DEF Referred, Held
<1>4. QED
  BY <1>1, <1>3 DEF RefInv, ReportedCached, Reported, OwnCached, LateReturned, OwnSubmitted,
     HeldStarted, CancelledOnly, NewUntouched, ReturnedKept

LEMMA RefStepKeeps ==
  ASSUME TypeOK, TypeOK', LaunchInv, RefInv, RefStep
  PROVE  RefInv'
<1>1. ReportedCached'
  <2> SUFFICES ASSUME NEW r \in Ref, obj'[r].started,
                      r.kind = "own" => cancel'[r.act] \notin Marked
               PROVE  \/ cache'[r.act] = r.kind
                      \/ sub'[r.act] = "returned" /\ ret'[r.act] = r.kind
    BY DEF ReportedCached, Reported
  <2>1. r.act \in Action /\ r.kind \in Kind /\ r = [act |-> r.act, kind |-> r.kind]
    BY RefTypes
  <2>2. CASE cache'[r.act] = r.kind
    BY <2>2
  <2>3. CASE obj[r].started
    <3>1. Reported(r)
      BY <2>1, <2>3 DEF RefStep, Reported
    <3>2. \/ cache[r.act] = r.kind
          \/ sub[r.act] = "returned" /\ ret[r.act] = r.kind
      BY <3>1 DEF RefInv, ReportedCached
    <3>3. CallMove(r.act) /\ r.kind # "none"
      BY <2>1 DEF RefStep, Kind
    <3>4. QED
      BY <3>2, <3>3 DEF CallMove, Resting, CachedWins
  <2>4. QED
    BY <2>2, <2>3 DEF RefStep
<1>2. OwnCached'
  <2> SUFFICES ASSUME NEW a \in Action, Referred(OwnRef(a))'
               PROVE  cache'[a] = "own" \/ sub'[a] = "returned"
    BY DEF OwnCached
  <2>1. OwnRef(a) \in Ref /\ OwnRef(a).act = a /\ OwnRef(a).kind = "own"
    BY RefTypes DEF OwnRef
  <2>2. Referred(OwnRef(a)) \/ cache'[a] = "own"
    BY <2>1 DEF RefStep, Referred, Queued, Held, OwnRef
  <2>3. CASE Referred(OwnRef(a))
    <3>1. cache[a] = "own" \/ sub[a] = "returned"
      BY <2>3 DEF RefInv, OwnCached
    <3>2. CallMove(a)
      BY DEF RefStep
    <3>3. QED
      BY <3>1, <3>2 DEF CallMove, Resting, CachedWins
  <2>4. QED
    BY <2>2, <2>3
<1>3. ASSUME NEW a \in Action, cache[a] = "none", obj[SeenRef(a)].started
      PROVE  sub[a] = "returned"
  <2>1. SeenRef(a) \in Ref /\ SeenRef(a).act = a /\ SeenRef(a).kind = "seen"
    BY RefTypes DEF SeenRef, Kind
  <2>2. Reported(SeenRef(a))
    BY <1>3, <2>1 DEF Reported
  <2>3. QED
    BY <1>3, <2>1, <2>2 DEF RefInv, ReportedCached
<1>4. LateReturned'
  <2> SUFFICES ASSUME NEW a \in Action, cache'[a] = "late"
               PROVE  sub'[a] = "returned"
    BY DEF LateReturned
  <2>1. CallMove(a) /\ (cache[a] = "late" => sub[a] = "returned")
    BY DEF RefStep, RefInv, LateReturned
  <2>2. QED
    BY <1>3, <2>1 DEF CallMove, Resting, CachedWins
<1>5. OwnSubmitted'
  <2> SUFFICES ASSUME NEW a \in Action, cache'[a] = "own"
               PROVE  sub'[a] \in {"putting", "waiting", "cancelled"}
    BY DEF OwnSubmitted
  <2>1. CallMove(a) /\ (cache[a] = "own" => sub[a] \in {"putting", "waiting", "cancelled"})
    BY DEF RefStep, RefInv, OwnSubmitted
  <2>2. QED
    BY <2>1 DEF CallMove, Resting
<1>6. HeldStarted'
  <2> SUFFICES ASSUME NEW w \in Worker, wref'[w] # NoRef
               PROVE  wref'[w].kind = "own" \/ obj'[wref'[w]].started
    BY DEF HeldStarted, OwnOrStarted
  <2>1. wref'[w] \in Ref
    BY DEF TypeOK
  <2>2. OwnOrStarted(wref'[w])
    BY DEF RefStep, RefInv, HeldStarted, LaunchInv, OnlyOwnUnstarted, Queued
  <2>3. QED
    BY <2>1, <2>2 DEF OwnOrStarted, RefStep, StartedGrows
<1>7. CancelledOnly'
  <2> SUFFICES ASSUME NEW a \in Action, cancel'[a] # "none"
               PROVE  sub'[a] = "cancelled"
    BY DEF CancelledOnly
  <2>1. CallMove(a) /\ (cancel[a] # "none" => sub[a] = "cancelled")
    BY DEF RefStep, RefInv, CancelledOnly
  <2>2. QED
    BY <2>1 DEF CallMove, Resting, RefStep
<1>8. NewUntouched'
  <2> SUFFICES ASSUME NEW a \in Action, sub'[a] = "new"
               PROVE  event'[a] = "none" /\ a \notin net'
    BY DEF NewUntouched
  <2>1. sub[a] = "new"
    <3>1. CallMove(a)
      BY DEF RefStep
    <3>2. QED
      BY <3>1 DEF CallMove, Resting
  <2>2. event[a] = "none" /\ a \notin net /\ ~Held(OwnRef(a))
    BY <2>1 DEF RefInv, NewUntouched, LaunchInv, NewUnseen
  <2>3. QED
    BY <2>2 DEF RefStep
<1>9. ReturnedKept'
  <2> SUFFICES ASSUME NEW a \in Action, sub'[a] = "returned"
               PROVE  /\ ret'[a] \in {"own", "seen"} /\ cache'[a] # ret'[a]
                      /\ ret'[a] = "seen" => obj'[SeenRef(a)].started
    BY DEF ReturnedKept, SeenRef
  <2>1. CallMove(a) /\ SeenRef(a) \in Ref
    BY RefTypes DEF RefStep, SeenRef, Kind
  <2>2. CASE sub[a] = "returned"
    <3>1. /\ ret[a] \in {"own", "seen"} /\ cache[a] # ret[a]
          /\ ret[a] = "seen" => obj[SeenRef(a)].started
      BY <2>2 DEF RefInv, ReturnedKept
    <3>2. /\ ret'[a] \in {"own", "seen"} /\ cache'[a] # ret'[a] /\ ret'[a] = ret[a]
      BY <2>1, <2>2, <3>1 DEF CallMove, Resting, CachedWins
    <3>3. QED
      BY <2>1, <3>1, <3>2 DEF RefStep, StartedGrows
  <2>3. CASE sub[a] # "returned"
    <3>1. sub[a] = "waiting" /\ cache'[a] = "none" /\ ret'[a] = cache[a]
      BY <2>1, <2>3 DEF CallMove, Resting
    <3>2. cache[a] \in {"own", "seen"}
      BY <3>1 DEF TypeOK, Kind, RefInv, LateReturned
    <3>3. cache[a] = "seen" => obj[SeenRef(a)].started
      BY <3>2 DEF LaunchInv, OnlyOwnUnstarted, OwnOrStarted, CacheRef, SeenRef
    <3>4. QED
      BY <2>1, <3>1, <3>2, <3>3 DEF RefStep, StartedGrows
  <2>4. QED
    BY <2>2, <2>3
<1>10. QED
  BY <1>1, <1>2, <1>4, <1>5, <1>6, <1>7, <1>8, <1>9 DEF RefInv

(* What one put and one get do to the references.                          *)
LEMMA PutReferences ==
  ASSUME TypeOK, NEW r \in Ref, queue' = Append(queue, r)
  PROVE  \A x : Queued(x)' <=> Queued(x) \/ x = r
<1>1. /\ Len(queue) \in Nat /\ Len(queue') = Len(queue) + 1
      /\ \A i \in 1..Len(queue) : queue[i] \in Ref /\ queue'[i] = queue[i]
      /\ queue'[Len(queue) + 1] = r
      /\ \A i \in 1..Len(queue') : i \in 1..Len(queue) \/ i = Len(queue) + 1
  BY PutElements
<1>2. \A i \in 1..Len(queue) : i \in 1..Len(queue')
  BY <1>1
<1>3. Len(queue) + 1 \in 1..Len(queue')
  BY <1>1
<1>4. QED
  BY <1>1, <1>2, <1>3 DEF Queued

LEMMA TakeReferences ==
  ASSUME TypeOK, queue # <<>>, queue' = Tail(queue)
  PROVE  /\ Head(queue) \in Ref /\ Queued(Head(queue))
         /\ \A x : Queued(x) <=> Queued(x)' \/ x = Head(queue)
<1>1. /\ Len(queue) \in Nat \ {0} /\ Head(queue) = queue[1] /\ queue[1] \in Ref
      /\ \A i \in 1..Len(queue) : queue[i] \in Ref
      /\ \A i \in 1..Len(queue') : i + 1 \in 1..Len(queue) /\ queue'[i] = queue[i + 1]
  BY TakeElements
<1>2. Len(queue') = Len(queue) - 1
  BY <1>1
<1>3. \A i \in 1..Len(queue) : i = 1 \/ i - 1 \in 1..Len(queue')
  BY <1>1, <1>2
<1>4. \A i \in 1..Len(queue) : i = 1 \/ queue[i] = queue'[i - 1]
  BY <1>1, <1>3
<1>5. 1 \in 1..Len(queue)
  BY <1>1
<1>6. ASSUME NEW x, Queued(x) PROVE Queued(x)' \/ x = Head(queue)
  BY <1>1, <1>3, <1>4, <1>6 DEF Queued
<1>7. ASSUME NEW x, Queued(x)' PROVE Queued(x)
  BY <1>1, <1>7 DEF Queued
<1>8. Queued(Head(queue))
  BY <1>1, <1>5 DEF Queued
<1>9. QED
  BY <1>1, <1>6, <1>7, <1>8

(* A step that leaves the calls, the names and the objects alone.          *)
LEMMA RefRest ==
  ASSUME TypeOK, UNCHANGED <<obj, cache, sub, ret>>,
         \A r \in Ref : Referred(r)' => Referred(r),
         \A w \in Worker : wref'[w] \in {wref[w], NoRef} \/ Queued(wref'[w]),
         \A a \in Action : cancel[a] \in Marked => cancel'[a] \in Marked,
         \A a \in Action : cancel'[a] # "none" => cancel[a] # "none",
         \A a \in Action : event'[a] # "none" => event[a] # "none",
         \A a \in net' : a \in net \/ Held(OwnRef(a))
  PROVE  RefStep
BY DEF RefStep, CallMove, Resting, StartedGrows

LEMMA RefSame ==
  ASSUME TypeOK, UNCHANGED <<obj, cache, sub, ret, queue, wref, watch>>,
         \A a \in Action : cancel[a] \in Marked => cancel'[a] \in Marked,
         \A a \in Action : cancel'[a] # "none" => cancel[a] # "none",
         \A a \in Action : event'[a] # "none" => event[a] # "none",
         net' \subseteq net
  PROVE  RefStep
<1>1. \A r \in Ref : Referred(r)' => Referred(r)
  BY DEF Referred, Queued, Held
<1>2. QED
  BY <1>1, RefRest

LEMMA CallRefs ==
  ASSUME TypeOK, TypeOK', LaunchInv, RefInv, NEW a \in Action,
         Submit(a) \/ SubmitPut(a) \/ Return(a) \/ CancelSubmit(a)
  PROVE  RefStep
<1> DEFINE Rest == /\ \A w \in Worker : wref'[w] \in {wref[w], NoRef} \/ Queued(wref'[w])
                   /\ StartedGrows
                   /\ \A r \in Ref : obj'[r].started => obj[r].started
                   /\ net' = net
<1>1. Rest /\ UNCHANGED <<obj, wref, watch, net>>
  BY DEF Submit, SubmitPut, Return, CancelSubmit, StartedGrows, workerVars, watchVars
<1>2. CASE Submit(a)
  <2>1. /\ sub[a] = "new" /\ UNCHANGED <<ret, cancel>>
        /\ cache' = [cache EXCEPT ![a] = CachedWins(a)]
        /\ event' = [event EXCEPT ![a] = IF @ = "none" THEN "clear" ELSE @]
        /\ sub' = [sub EXCEPT ![a] = "waiting"] \/ sub' = [sub EXCEPT ![a] = "putting"]
        /\ queue' = queue \/ queue' = Append(queue, [act |-> a, kind |-> CachedWins(a)])
    BY <1>2 DEF Submit
  <2>a. CachedWins(a) \in Kind
    BY DEF TypeOK, CachedWins, Kind
  <2>2. [act |-> a, kind |-> CachedWins(a)] \in Ref
    BY <2>a, RefTypes
  <2>3. \A b \in Action : CallMove(b)
    BY <2>1 DEF TypeOK, CallMove, Resting
  <2>4. ASSUME NEW r \in Ref, Referred(r)' PROVE Referred(r) \/ cache'[r.act] = r.kind
    <3>1. Queued(r)' => Queued(r) \/ r = [act |-> a, kind |-> CachedWins(a)]
      BY <2>1, <2>2, PutReferences DEF Queued
    <3>2. cache'[a] = CachedWins(a)
      BY <2>1 DEF TypeOK
    <3>3. QED
      BY <1>1, <2>4, <3>1, <3>2 DEF Referred, Held
  <2>5. \A b \in Action : event'[b] # "none" => event[b] # "none" \/ sub'[b] # "new"
    BY <2>1 DEF TypeOK
  <2>6. QED
    BY <1>1, <2>1, <2>3, <2>4, <2>5 DEF RefStep
<1>3. CASE SubmitPut(a)
  <2>1. /\ sub[a] = "putting" /\ UNCHANGED <<cache, event, ret, cancel>>
        /\ sub' = [sub EXCEPT ![a] = "waiting"] /\ queue' = Append(queue, CacheRef(a))
    BY <1>3 DEF SubmitPut
  <2>2. CacheRef(a) \in Ref /\ CacheRef(a).act = a /\ CacheRef(a).kind = cache[a]
    BY <2>1, RefTypes DEF TypeOK, CacheRef
  <2>3. \A b \in Action : CallMove(b)
    BY <2>1 DEF TypeOK, CallMove, Resting
  <2>4. ASSUME NEW r \in Ref, Referred(r)' PROVE Referred(r) \/ cache'[r.act] = r.kind
    <3>1. Queued(r)' => Queued(r) \/ r = CacheRef(a)
      BY <2>1, <2>2, PutReferences
    <3>2. QED
      BY <1>1, <2>1, <2>2, <2>4, <3>1 DEF Referred, Held
  <2>5. QED
    BY <1>1, <2>1, <2>3, <2>4 DEF RefStep
<1>4. CASE Return(a)
  <2>1. /\ sub[a] = "waiting" /\ event[a] = "set" /\ UNCHANGED <<event, queue, cancel>>
        /\ sub' = [sub EXCEPT ![a] = "returned"] /\ ret' = [ret EXCEPT ![a] = cache[a]]
        /\ cache' = [cache EXCEPT ![a] = "none"]
    BY <1>4 DEF Return
  <2>2. \A b \in Action : CallMove(b)
    BY <2>1 DEF TypeOK, CallMove, Resting
  <2>3. \A r \in Ref : Referred(r)' => Referred(r)
    BY <1>1, <2>1 DEF Referred, Queued, Held
  <2>4. QED
    BY <1>1, <2>1, <2>2, <2>3 DEF RefStep
<1>5. CASE CancelSubmit(a)
  <2>1. /\ sub[a] \in {"putting", "waiting"} /\ UNCHANGED <<cache, event, ret, queue>>
        /\ sub' = [sub EXCEPT ![a] = "cancelled"]
        /\ cancel' = [cancel EXCEPT ![a] = IF a \in Trace THEN "none" ELSE "called"]
    BY <1>5 DEF CancelSubmit
  <2>2. \A b \in Action : CallMove(b)
    BY <2>1 DEF TypeOK, CallMove, Resting
  <2>3. \A r \in Ref : Referred(r)' => Referred(r)
    BY <1>1, <2>1 DEF Referred, Queued, Held
  <2>4. cancel[a] = "none"
    BY <2>1 DEF RefInv, CancelledOnly
  <2>5. \A b \in Action : /\ cancel[b] \in Marked => cancel'[b] \in Marked
                          /\ cancel'[b] # "none" => cancel[b] # "none" \/ sub'[b] = "cancelled"
    BY <2>1, <2>4 DEF TypeOK, Marked
  <2>6. QED
    BY <1>1, <2>1, <2>2, <2>3, <2>5 DEF RefStep
<1>6. QED
  BY <1>2, <1>3, <1>4, <1>5

LEMMA CancelRefs ==
  ASSUME TypeOK, TypeOK', RefInv, NEW a \in Action,
         BeginCancel(a) \/ AbortReplies(a) \/ AbortFails(a)
  PROVE  RefStep
<1>1. CASE BeginCancel(a)
  <2>1. /\ UNCHANGED <<cache, sub, ret, queue, wref, watch, net>>
        /\ cancel[a] = "called"
        /\ \/ cancel' = [cancel EXCEPT ![a] = "skipped"] /\ UNCHANGED obj
           \/ /\ \E c \in Marked : cancel' = [cancel EXCEPT ![a] = c]
              /\ obj' = [obj EXCEPT ![OwnRef(a)] = mark_cancelled(obj[OwnRef(a)])]
        /\ event' = event \/ event' = [event EXCEPT ![a] = Fired(@)]
    BY <1>1 DEF BeginCancel, workerVars, watchVars, Marked
  <2>2. obj \in [Ref -> Object] /\ OwnRef(a) \in Ref /\ OwnRef(a).kind = "own" /\ OwnRef(a).act = a
    BY RefTypes DEF TypeOK, OwnRef
  <2>3. mark_cancelled(obj[OwnRef(a)]).started
    BY <2>2 DEF mark_cancelled, Object
  <2>4. StartedGrows
    BY <2>1, <2>2, <2>3 DEF StartedGrows
  <2>5. \A r \in Ref : obj'[r].started =>
           obj[r].started \/ (r.kind = "own" /\ cancel'[r.act] \in Marked)
    <3> SUFFICES ASSUME NEW r \in Ref, obj'[r].started, ~obj[r].started
                 PROVE  r.kind = "own" /\ cancel'[r.act] \in Marked
      OBVIOUS
    <3>1. r = OwnRef(a) /\ obj' # obj
      BY <2>1, <2>2
    <3>2. cancel'[a] \in Marked
      BY <2>1, <3>1 DEF TypeOK
    <3>3. QED
      BY <2>2, <3>1, <3>2
  <2>6. \A r \in Ref : Referred(r)' => Referred(r)
    BY <2>1 DEF Referred, Queued, Held
  <2>7. \A b \in Action : /\ cancel[b] \in Marked => cancel'[b] \in Marked
                          /\ cancel'[b] # "none" => cancel[b] # "none"
                          /\ event'[b] # "none" => event[b] # "none"
    BY <2>1 DEF TypeOK, Marked, Fired
  <2>8. \A b \in Action : CallMove(b)
    BY <2>1 DEF CallMove, Resting
  <2>9. QED
    BY <2>1, <2>4, <2>5, <2>6, <2>7, <2>8 DEF RefStep
<1>2. CASE AbortReplies(a) \/ AbortFails(a)
  <2>1. /\ UNCHANGED <<obj, cache, sub, ret, queue, wref, watch, net>>
        /\ cancel[a] = "aborting" /\ cancel' = [cancel EXCEPT ![a] = "aborted"]
        /\ event' = event \/ event' = [event EXCEPT ![a] = Fired(@)]
    BY <1>2 DEF AbortReplies, AbortFails, workerVars, watchVars
  <2>2. \A b \in Action : /\ cancel[b] \in Marked => cancel'[b] \in Marked
                          /\ cancel'[b] # "none" => cancel[b] # "none"
                          /\ event'[b] # "none" => event[b] # "none"
    BY <2>1 DEF TypeOK, Marked, Fired
  <2>3. QED
    BY <2>1, <2>2, RefSame
<1>3. QED
  BY <1>1, <1>2

LEMMA WorkerRefs ==
  ASSUME TypeOK, TypeOK', LaunchInv, RefInv, NEW w \in Worker,
         Take(w) \/ Send(w) \/ EnqueueOk(w) \/ EnqueueRefused(w)
           \/ EnqueueFails(w) \/ Requeue(w) \/ Fire(w)
  PROVE  RefStep
<1>1. CASE Take(w)
  <2>1. /\ UNCHANGED <<obj, cache, sub, ret, watch, net, cancel, event>>
        /\ queue # <<>> /\ queue' = Tail(queue)
        /\ \/ wref' = [wref EXCEPT ![w] = NoRef]
           \/ wref' = [wref EXCEPT ![w] = Head(queue)]
    BY <1>1 DEF Take, callVars, watchVars
  <2>2. /\ Queued(Head(queue))
        /\ \A x : Queued(x) <=> Queued(x)' \/ x = Head(queue)
    BY <2>1, TakeReferences
  <2>3. \A v \in Worker : wref'[v] \in {wref[v], NoRef} \/ Queued(wref'[v])
    BY <2>1, <2>2 DEF TypeOK
  <2>4. ASSUME NEW r \in Ref, Referred(r)' PROVE Referred(r)
    <3>1. CASE Queued(r)' \/ watch' = r
      BY <2>1, <2>2, <3>1 DEF Referred
    <3>2. CASE Held(r)'
      <4>1. PICK v \in Worker : wref'[v] = r
        BY <3>2 DEF Held
      <4>2. wref[v] = r \/ Queued(r)
        BY <2>3, <4>1, ConstantsAssumption
      <4>3. QED
        BY <4>2 DEF Referred, Held
    <3>3. QED
      BY <2>4, <3>1, <3>2 DEF Referred
  <2>5. QED
    BY <2>1, <2>3, <2>4, RefRest
<1>2. CASE Send(w) \/ EnqueueRefused(w)
  <2>1. /\ UNCHANGED <<cache, sub, ret, queue, wref, watch, cancel, event>>
        /\ wpc[w] \in Launching
        /\ net' = net \/ net' = net \cup {wref[w].act}
        /\ \/ obj' = obj
           \/ obj' = [obj EXCEPT ![wref[w]] = [obj[wref[w]] EXCEPT !.err = TRUE]]
    BY <1>2 DEF Send, EnqueueRefused, FailAction, Launching, callVars, watchVars
  <2>2. obj \in [Ref -> Object] /\ wref[w] \in Ref /\ wref[w].kind = "own"
    BY <2>1 DEF TypeOK, LaunchInv, LaunchersOwn, Launching
  <2>3. wref[w] = OwnRef(wref[w].act)
    BY <2>2, RefTypes DEF OwnRef
  <2>4. obj[wref[w]] \in Object
    BY <2>2
  <2>5. [obj[wref[w]] EXCEPT !.err = TRUE].started = obj[wref[w]].started
    BY <2>4 DEF Object
  <2>6. \A r \in Ref : obj'[r].started = obj[r].started
    BY <2>1, <2>2, <2>5
  <2>7. \A r \in Ref : Referred(r)' => Referred(r)
    BY <2>1 DEF Referred, Queued, Held
  <2>8. \A b \in net' : b \in net \/ Held(OwnRef(b))
    BY <2>1, <2>3 DEF Held
  <2>9. \A b \in Action : CallMove(b)
    BY <2>1 DEF CallMove, Resting
  <2>10. QED
    BY <2>1, <2>6, <2>7, <2>8, <2>9 DEF RefStep, StartedGrows
<1>3. CASE EnqueueOk(w) \/ EnqueueFails(w) \/ Fire(w)
  <2>1. /\ UNCHANGED <<obj, cache, sub, ret, queue, watch, cancel>> /\ net' \subseteq net
        /\ \/ wref' = wref
           \/ wref' = [wref EXCEPT ![w] = NoRef]
        /\ \/ event' = event
           \/ event' = [event EXCEPT ![wref[w].act] = Fired(@)]
    BY <1>3 DEF EnqueueOk, EnqueueFails, Fire, Finish, callVars, watchVars
  <2>2. \A v \in Worker : wref'[v] \in {wref[v], NoRef}
    BY <2>1 DEF TypeOK
  <2>3. \A r \in Ref : Referred(r)' => Referred(r)
    BY <2>1, <2>2, ConstantsAssumption DEF Referred, Queued, Held
  <2>4. \A b \in Action : event'[b] # "none" => event[b] # "none"
    BY <2>1 DEF TypeOK, Fired
  <2>5. QED
    BY <2>1, <2>2, <2>3, <2>4, RefRest
<1>4. CASE Requeue(w)
  <2>1. /\ UNCHANGED <<obj, cache, sub, ret, watch, cancel, event, net>> /\ wref[w] \in Ref
        /\ wref' = wref \/ wref' = [wref EXCEPT ![w] = NoRef]
        /\ queue' = queue \/ queue' = Append(queue, wref[w])
    BY <1>4 DEF Requeue, Finish, TypeOK, callVars, watchVars
  <2>2. \A v \in Worker : wref'[v] \in {wref[v], NoRef}
    BY <2>1 DEF TypeOK
  <2>3. ASSUME NEW r \in Ref, Referred(r)' PROVE Referred(r)
    <3>1. Queued(r)' => Queued(r) \/ r = wref[w]
      BY <2>1, PutReferences DEF Queued
    <3>2. Held(r)' => Held(r)
      BY <2>2, ConstantsAssumption DEF Held
    <3>3. QED
      BY <2>1, <2>3, <3>1, <3>2 DEF Referred, Held
  <2>4. QED
    BY <2>1, <2>2, <2>3, RefRest
<1>5. QED
  BY <1>1, <1>2, <1>3, <1>4

LEMMA UpdateRefs ==
  ASSUME TypeOK, TypeOK', NEW a \in Action, Update(a)
  PROVE  RefStep
<1> DEFINE k == IF cache[a] # "none" THEN cache[a]
                ELSE IF obj[SeenRef(a)].started THEN "late" ELSE "seen"
           r == [act |-> a, kind |-> k]
           o == IF cache[a] # "none" THEN merge_state(obj[r], Head(stream[a]))
                ELSE from_state(Head(stream[a]))
<1>1. k \in Kind
  BY DEF TypeOK, Kind
<1>2. r \in Ref
  BY <1>1, RefTypes
<1>3. /\ cache' = [cache EXCEPT ![a] = k] /\ Notify(r)
      /\ UNCHANGED <<wref, sub, ret, event, cancel, net>>
      /\ obj' = [obj EXCEPT ![r] = IF cache[a] # "none" THEN merge_state(@, Head(stream[a]))
                                   ELSE from_state(Head(stream[a]))]
  BY DEF Update, SeenRef, workerVars, callVars
<1>4. r.act = a /\ r.kind = k
  OBVIOUS
<1>5. cache[a] # "none" => k = cache[a]
  OBVIOUS
<1>6. cache[a] = "none" => k = IF obj[SeenRef(a)].started THEN "late" ELSE "seen"
  OBVIOUS
<1> HIDE DEF k, r
<1>7. obj \in [Ref -> Object] /\ obj[r] \in Object
  BY <1>2 DEF TypeOK
<1>8. o.started
  BY <1>7 DEF merge_state, from_state, Object
<1>9. obj' = [obj EXCEPT ![r] = o]
  BY <1>3
<1> HIDE DEF o
<1>10. cache'[a] = k /\ \A b \in Action : b # a => cache'[b] = cache[b]
  BY <1>3 DEF TypeOK
<1>11. StartedGrows /\ \A x \in Ref : obj'[x].started => obj[x].started \/ cache'[x.act] = x.kind
  BY <1>2, <1>4, <1>7, <1>8, <1>9, <1>10 DEF StartedGrows
<1>12. \A b \in Action : CallMove(b)
  BY <1>3, <1>5, <1>6, <1>10 DEF CallMove, Resting
<1>13. ASSUME NEW x \in Ref, Referred(x)' PROVE Referred(x) \/ cache'[x.act] = x.kind
  <2>1. Queued(x)' => Queued(x) \/ x = r
    BY <1>2, <1>3, PutReferences DEF Notify, Queued
  <2>2. watch' = x => watch = x \/ x = r
    BY <1>3 DEF Notify
  <2>3. QED
    BY <1>3, <1>4, <1>10, <1>13, <2>1, <2>2 DEF Referred, Held
<1>14. QED
  BY <1>3, <1>11, <1>12, <1>13 DEF RefStep

LEMMA NextRefStep ==
  ASSUME TypeOK, TypeOK', LaunchInv, RefInv, [Next]_vars
  PROVE  RefStep
<1>1. ASSUME StartInformer \/ SyncTimeout \/ Sentinel \/ Reconnect \/ UNCHANGED vars
      PROVE  RefStep
  BY <1>1, RefSame DEF StartInformer, SyncTimeout, Sentinel, Reconnect, vars, workerVars,
     callVars
<1>2. ASSUME NEW a \in Action, Accept(a) \/ End(a) PROVE RefStep
  BY <1>2, RefSame DEF Accept, End, workerVars, callVars
<1>3. ASSUME WatchPut PROVE RefStep
  <2>1. /\ UNCHANGED <<obj, cache, sub, ret, wref, cancel, event, net>> /\ watch \in Ref
        /\ watch' = NoRef /\ queue' = Append(queue, watch)
    BY <1>3 DEF WatchPut, TypeOK, workerVars, callVars
  <2>2. \A r \in Ref : Referred(r)' => Referred(r)
    BY <2>1, PutReferences, ConstantsAssumption DEF Referred, Held
  <2>3. QED
    BY <2>1, <2>2, RefRest
<1>4. QED
  BY <1>1, <1>2, <1>3, StepCases, CallRefs, CancelRefs, WorkerRefs, UpdateRefs

LEMMA NextRefs ==
  ASSUME TypeOK, TypeOK', LaunchInv, RefInv, [Next]_vars
  PROVE  RefInv'
BY NextRefStep, RefStepKeeps

LEMMA AdoptedStep ==
  ASSUME TypeOK, LaunchInv, RefInv, [Next]_vars, NEW a \in SentNow,
         obj[[act |-> a, kind |-> "seen"]].started
  PROVE  sub[a] = "returned"
<1>1. PICK w \in Worker : wpc[w] = "limiter" /\ wref[w].act = a
  BY SendersOnly
<1>2. wref[w] \in Ref /\ wref[w].kind = "own"
  BY <1>1 DEF TypeOK, LaunchInv, LaunchersOwn, Launching
<1>3. a \in Action /\ wref[w] = OwnRef(a)
  BY <1>1, <1>2, RefTypes DEF OwnRef
<1>4. cache[a] = "own" \/ sub[a] = "returned"
  BY <1>3 DEF RefInv, OwnCached, Referred, Held
<1>5. SeenRef(a) \in Ref /\ SeenRef(a).act = a /\ SeenRef(a).kind = "seen"
  BY <1>3, RefTypes DEF SeenRef, Kind
<1>6. Reported(SeenRef(a))
  BY <1>5 DEF Reported, SeenRef
<1>7. QED
  BY <1>4, <1>5, <1>6 DEF RefInv, ReportedCached

(* A recovered action is adopted: once the watch has made an object of an  *)
(* action, because the parent had none in the cache, and until the call    *)
(* for it has returned, no EnqueueAction leaves for the action, with any   *)
(* number of workers, retries and reports.                                 *)
THEOREM AdoptedNotResentAlways == Spec => AdoptedNotResent
<1>1. Init => TypeOK /\ LaunchInv /\ RefInv
  BY InitTypes, LaunchInit, RefInit
<1>2. TypeOK /\ LaunchInv /\ RefInv /\ [Next]_vars => (TypeOK /\ LaunchInv /\ RefInv)'
  BY NextTypes, NextKeeps, NextRefs
<1>3. TypeOK /\ LaunchInv /\ RefInv /\ [Next]_vars
        => [\A a \in SentNow :
              obj[[act |-> a, kind |-> "seen"]].started => sub[a] = "returned"]_vars
  BY AdoptedStep
<1>4. QED
  BY <1>1, <1>2, <1>3, PTL DEF Spec, AdoptedNotResent

-----------------------------------------------------------------------------
(* 5. What the watch still has to hear.                                    *)

(* The reports of an action on their way: no live state after a final one, *)
(* and the last of them is the state the service has.                      *)
StreamOk(s, v) ==
  /\ \A i \in 1..Len(s) : s[i] \in Terminal => s[i] = v
  /\ \A i, j \in 1..Len(s) : i < j /\ s[i] \in Terminal => s[j] \in Terminal
  /\ s # <<>> => s[Len(s)] = v

StreamInv == \A a \in Action : StreamOk(stream[a], srv[a])

LEMMA StreamEmpty == \A v : StreamOk(<<>>, v)
<1>1. Len(<<>>) = 0
  OBVIOUS
<1>2. QED
  BY <1>1 DEF StreamOk

LEMMA StreamFirst ==
  ASSUME NEW v \in Live
  PROVE  /\ <<v>> \in Seq(Live) /\ <<v>> # <<>> /\ StreamOk(<<v>>, v)
         /\ v \in Terminal => \A i \in 1..Len(<<v>>) : <<v>>[i] \in Terminal
<1>1. <<v>> \in Seq(Live) /\ Len(<<v>>) = 1 /\ <<v>>[1] = v
  OBVIOUS
<1>2. \A i \in 1..Len(<<v>>) : i = 1
  BY <1>1
<1>3. \A i, j \in 1..Len(<<v>>) : ~(i < j)
  BY <1>2
<1>4. QED
  BY <1>1, <1>2, <1>3 DEF StreamOk

(* A service state that is not final is overtaken by the next one.         *)
LEMMA StreamPut ==
  ASSUME NEW s \in Seq(Live), NEW v, NEW p \in Live, StreamOk(s, v), v \notin Terminal
  PROVE  Append(s, p) # <<>> /\ StreamOk(Append(s, p), p)
<1> DEFINE t == Append(s, p)
<1>1. /\ Len(s) \in Nat /\ Len(t) = Len(s) + 1 /\ t[Len(s) + 1] = p
      /\ \A i \in 1..Len(s) : t[i] = s[i]
      /\ \A i \in 1..Len(t) : i \in 1..Len(s) \/ i = Len(s) + 1
  OBVIOUS
<1>2. \A i \in 1..Len(s) : s[i] \notin Terminal
  BY DEF StreamOk
<1>3. t # <<>>
  BY <1>1
<1> HIDE DEF t
<1>4. \A i \in 1..Len(t) : t[i] \in Terminal => i = Len(t)
  BY <1>1, <1>2
<1>5. t[Len(t)] = p
  BY <1>1
<1>6. \A i, j \in 1..Len(t) : i < j => t[i] \notin Terminal
  <2> SUFFICES ASSUME NEW i \in 1..Len(t), NEW j \in 1..Len(t), i < j
               PROVE  t[i] \notin Terminal
    OBVIOUS
  <2>1. i # Len(t)
    BY <1>1
  <2>2. QED
    BY <1>4, <2>1
<1>7. StreamOk(t, p)
  BY <1>4, <1>5, <1>6 DEF StreamOk
<1>8. QED
  BY <1>3, <1>7 DEF t

(* What the watch takes from its stream.                                   *)
LEMMA StreamTake ==
  ASSUME NEW s \in Seq(Live), NEW v, StreamOk(s, v), s # <<>>
  PROVE  /\ v \in Live /\ Head(s) \in Live
         /\ Tail(s) \in Seq(Live) /\ StreamOk(Tail(s), v)
         /\ Head(s) \in Terminal => /\ Head(s) = v
                                    /\ \A i \in 1..Len(Tail(s)) : Tail(s)[i] \in Terminal
         /\ Tail(s) = <<>> => Head(s) = v
         /\ (\A i \in 1..Len(s) : s[i] \in Terminal)
              => /\ Head(s) \in Terminal
                 /\ \A i \in 1..Len(Tail(s)) : Tail(s)[i] \in Terminal
<1> DEFINE t == Tail(s)
<1>1. /\ Len(s) \in Nat \ {0} /\ Len(t) = Len(s) - 1 /\ Head(s) = s[1] /\ t \in Seq(Live)
      /\ \A i \in 1..Len(t) : t[i] = s[i + 1]
  OBVIOUS
<1>2. t = <<>> <=> Len(s) = 1
  BY <1>1
<1> HIDE DEF t
<1>3. 1 \in 1..Len(s) /\ Len(s) \in 1..Len(s)
  BY <1>1
<1>4. \A i \in 1..Len(t) : i + 1 \in 1..Len(s) /\ 1 < i + 1
  BY <1>1
<1>5. v \in Live /\ Head(s) \in Live
  BY <1>1, <1>3 DEF StreamOk
<1>6. Head(s) \in Terminal => /\ Head(s) = v
                              /\ \A i \in 1..Len(t) : t[i] \in Terminal
  BY <1>1, <1>3, <1>4 DEF StreamOk
<1>7. t = <<>> => Head(s) = v
  BY <1>1, <1>2, <1>3 DEF StreamOk
<1>8. StreamOk(t, v)
  <2>1. \A i \in 1..Len(t) : t[i] \in Terminal => t[i] = v
    BY <1>1, <1>4 DEF StreamOk
  <2>2. ASSUME NEW i \in 1..Len(t), NEW j \in 1..Len(t), i < j, t[i] \in Terminal
        PROVE  t[j] \in Terminal
    <3>1. i + 1 < j + 1 /\ i + 1 \in 1..Len(s) /\ j + 1 \in 1..Len(s)
      BY <1>4, <2>2
    <3>2. QED
      BY <1>1, <2>2, <3>1 DEF StreamOk
  <2>3. t # <<>> => t[Len(t)] = v
    <3>1. t # <<>> => Len(t) \in 1..Len(t) /\ Len(t) + 1 = Len(s)
      BY <1>1, <1>2
    <3>2. QED
      BY <1>1, <3>1 DEF StreamOk
  <2>4. QED
    BY <2>1, <2>2, <2>3 DEF StreamOk
<1>9. (\A i \in 1..Len(s) : s[i] \in Terminal)
         => Head(s) \in Terminal /\ \A i \in 1..Len(t) : t[i] \in Terminal
  BY <1>1, <1>3, <1>4
<1>10. QED
  BY <1>1, <1>5, <1>6, <1>7, <1>8, <1>9 DEF t

(* What a step may do to the service's state of a and to the reports of it *)
(* on their way, unless it is the watch that takes one.                    *)
ServiceMove(a) ==
  \/ srv'[a] = srv[a] /\ stream'[a] = stream[a]
  \/ srv'[a] = srv[a] /\ stream'[a] = IF Exists(a) THEN <<srv[a]>> ELSE <<>>
  \/ /\ srv[a] \in {"absent", "RUNNING"} /\ srv'[a] \in Live
     /\ stream'[a] = Append(stream[a], srv'[a])

LEMMA NextService ==
  ASSUME TypeOK, [Next]_vars, NEW a \in Action
  PROVE  ServiceMove(a) \/ Update(a)
<1>1. ASSUME UNCHANGED <<srv, stream>> PROVE ServiceMove(a)
  BY <1>1 DEF ServiceMove
<1>2. ASSUME NEW b \in Action, NEW p \in Live, srv[b] \in {"absent", "RUNNING"},
             srv' = [srv EXCEPT ![b] = p], stream' = [stream EXCEPT ![b] = Append(@, p)]
      PROVE  ServiceMove(a)
  BY <1>2 DEF TypeOK, ServiceMove
<1>3. "FINISHED" \in Live /\ "ABORTED" \in Live /\ "RUNNING" \in Live
  BY DEF Live, Terminal
<1>4. ASSUME NEW b \in Action, Accept(b) PROVE ServiceMove(a)
  BY <1>1, <1>2, <1>3, <1>4 DEF Accept
<1>5. ASSUME NEW b \in Action, End(b) PROVE ServiceMove(a)
  BY <1>2, <1>3, <1>5 DEF End
<1>6. ASSUME NEW b \in Action, AbortReplies(b) PROVE ServiceMove(a)
  BY <1>1, <1>2, <1>3, <1>6 DEF AbortReplies
<1>7. ASSUME NEW b \in Action, Update(b) PROVE ServiceMove(a) \/ Update(a)
  <2>1. srv' = srv /\ stream' = [stream EXCEPT ![b] = Tail(@)]
    BY <1>7 DEF Update
  <2>2. CASE a = b
    BY <1>7, <2>2
  <2>3. CASE a # b
    BY <2>1, <2>3 DEF TypeOK, ServiceMove
  <2>4. QED
    BY <2>2, <2>3
<1>8. CASE Reconnect
  BY <1>8 DEF Reconnect, Snapshot, ServiceMove
<1>9. ASSUME StartInformer \/ SyncTimeout \/ Sentinel \/ WatchPut \/ UNCHANGED vars
      PROVE  ServiceMove(a)
  BY <1>1, <1>9 DEF StartInformer, SyncTimeout, Sentinel, WatchPut, vars
<1>10. ASSUME NEW b \in Action, Submit(b) \/ SubmitPut(b) \/ Return(b) \/ CancelSubmit(b)
       PROVE  ServiceMove(a)
  BY <1>1, <1>10 DEF Submit, SubmitPut, Return, CancelSubmit, watchVars
<1>11. ASSUME NEW b \in Action, BeginCancel(b) \/ AbortFails(b)
       PROVE  ServiceMove(a)
  BY <1>1, <1>11 DEF BeginCancel, AbortFails, watchVars
<1>12. ASSUME NEW w \in Worker, Take(w) \/ Send(w) \/ EnqueueOk(w) \/ EnqueueRefused(w)
                                   \/ EnqueueFails(w) \/ Requeue(w) \/ Fire(w)
       PROVE  ServiceMove(a)
  BY <1>1, <1>12 DEF Take, Send, EnqueueOk, EnqueueRefused, EnqueueFails, Requeue, Fire,
     watchVars
<1>13. QED
  BY <1>4, <1>5, <1>6, <1>7, <1>8, <1>9, <1>10, <1>11, <1>12, StepCases

LEMMA UpdateStream ==
  ASSUME TypeOK, NEW a \in Action, Update(a)
  PROVE  /\ srv' = srv /\ stream[a] # <<>> /\ stream[a] \in Seq(Live)
         /\ stream'[a] = Tail(stream[a])
BY DEF TypeOK, Update

LEMMA StreamInit == Init => StreamInv
<1> SUFFICES ASSUME Init, NEW a \in Action PROVE StreamOk(stream[a], srv[a])
  BY DEF StreamInv
<1>1. stream[a] = IF Exists(a) THEN <<srv[a]>> ELSE <<>>
  BY DEF Init, Snapshot
<1>2. QED
  BY <1>1, StreamEmpty, StreamFirst DEF Exists

LEMMA NextStreams ==
  ASSUME TypeOK, StreamInv, [Next]_vars
  PROVE  StreamInv'
<1> SUFFICES ASSUME NEW a \in Action PROVE StreamOk(stream'[a], srv'[a])
  BY DEF StreamInv
<1>1. StreamOk(stream[a], srv[a]) /\ stream[a] \in Seq(Live)
  BY DEF StreamInv, TypeOK
<1>2. CASE Update(a)
  <2>1. srv' = srv /\ stream[a] # <<>> /\ stream'[a] = Tail(stream[a])
    BY <1>2, UpdateStream
  <2>2. StreamOk(Tail(stream[a]), srv[a])
    BY <1>1, <2>1, StreamTake
  <2>3. QED
    BY <2>1, <2>2
<1>3. CASE srv'[a] = srv[a] /\ stream'[a] = IF Exists(a) THEN <<srv[a]>> ELSE <<>>
  BY <1>3, StreamEmpty, StreamFirst DEF Exists
<1>4. CASE /\ srv[a] \in {"absent", "RUNNING"} /\ srv'[a] \in Live
           /\ stream'[a] = Append(stream[a], srv'[a])
  <2>1. srv[a] \notin Terminal
    BY <1>4 DEF Terminal
  <2>2. QED
    BY <1>1, <1>4, <2>1, StreamPut
<1>5. QED
  BY <1>1, <1>2, <1>3, <1>4, NextService DEF ServiceMove

-----------------------------------------------------------------------------
(* 6. What the objects know of the service.                                *)

(* The phase p of an object agrees with the service's state v, or the      *)
(* stream s still has the news.                                            *)
Known(p, v, s) ==
  /\ v \in Live
  /\ p \in Terminal => p = v /\ \A i \in 1..Len(s) : s[i] \in Terminal
  /\ p \notin Terminal => v = "RUNNING" \/ s # <<>>

ReportedTrue ==
  \A r \in Ref : Reported(r) => Known(obj[r].phase, srv[r.act], stream[r.act])

ErrRefused == \A r \in Ref : obj[r].err => srv[r.act] = "refused" \/ cancel[r.act] \in Marked

(* The spec of a task is given up by a cancellation only.                  *)
SpecKept == \A a \in Action \ Trace : ~obj[OwnRef(a)].task => cancel[a] \in Marked

Ended(r) == obj[r].err \/ (obj[r].started /\ obj[r].phase \in Terminal)

FiringEnded ==
  \A w \in Worker : wpc[w] = "firing" => Ended(wref[w]) \/ cancel[wref[w].act] \in Marked

SetEnded ==
  \A a \in Action : sub[a] \in {"putting", "waiting"} /\ event[a] = "set" => Ended(CacheRef(a))

ReportInv ==
  ReportedTrue /\ ErrRefused /\ SpecKept /\ FiringEnded /\ SetEnded /\ ReturnedFinal

(* What a step may do to an object.                                        *)
Observed(r) == Update(r.act) /\ cache'[r.act] = r.kind

ObserveMove(r) ==
  \/ /\ cache[r.act] = r.kind
     /\ obj'[r] = merge_state(obj[r], Head(stream[r.act]))
  \/ /\ cache[r.act] = "none" /\ r.kind # "own"
     /\ obj'[r] = from_state(Head(stream[r.act]))

OtherMove(r) ==
  \/ obj'[r] = obj[r]
  \/ /\ obj'[r] = [obj[r] EXCEPT !.err = TRUE]
     /\ srv[r.act] = "refused" \/ (r.kind = "own" /\ SpecGone(r))
  \/ /\ obj'[r] = mark_cancelled(obj[r])
     /\ r.kind = "own" /\ cancel'[r.act] \in Marked

LEMMA UpdateObjects ==
  ASSUME TypeOK, NEW a \in Action, Update(a), NEW r \in Ref
  PROVE  /\ r.act = a /\ cache'[a] = r.kind => ObserveMove(r)
         /\ ~(r.act = a /\ cache'[a] = r.kind) => obj'[r] = obj[r]
<1> DEFINE k == IF cache[a] # "none" THEN cache[a]
                ELSE IF obj[SeenRef(a)].started THEN "late" ELSE "seen"
           x == [act |-> a, kind |-> k]
<1>1. cache' = [cache EXCEPT ![a] = k]
  BY DEF Update, SeenRef
<1>2. obj' = [obj EXCEPT ![x] = IF cache[a] # "none" THEN merge_state(@, Head(stream[a]))
                                ELSE from_state(Head(stream[a]))]
  BY DEF Update, SeenRef
<1>3. (cache[a] # "none" => k = cache[a]) /\ (cache[a] = "none" => k # "own")
  OBVIOUS
<1>4. x.act = a /\ x.kind = k
  OBVIOUS
<1>5. r.act = a /\ k = r.kind <=> r = x
  BY RefTypes
<1> HIDE DEF k, x
<1>6. cache'[a] = k
  BY <1>1 DEF TypeOK
<1>7. CASE r = x
  <2>1. obj'[r] = IF cache[a] # "none" THEN merge_state(obj[r], Head(stream[a]))
                  ELSE from_state(Head(stream[a]))
    BY <1>2, <1>7 DEF TypeOK
  <2>2. QED
    BY <1>3, <1>4, <1>5, <1>6, <1>7, <2>1 DEF ObserveMove
<1>8. CASE r # x
  BY <1>2, <1>5, <1>6, <1>8 DEF TypeOK
<1>9. QED
  BY <1>7, <1>8

LEMMA NextObjects ==
  ASSUME TypeOK, LaunchInv, [Next]_vars, NEW r \in Ref
  PROVE  IF Observed(r) THEN ObserveMove(r) ELSE OtherMove(r)
<1>1. r.act \in Action
  BY RefTypes
<1>2. CASE Observed(r)
  BY <1>1, <1>2, UpdateObjects DEF Observed
<1>3. ASSUME UNCHANGED obj PROVE OtherMove(r)
  BY <1>3 DEF OtherMove
<1>4. ASSUME NEW a \in Action, Update(a), ~Observed(r) PROVE OtherMove(r)
  BY <1>4, UpdateObjects DEF Observed, OtherMove
<1>5. ASSUME NEW a \in Action, BeginCancel(a) PROVE OtherMove(r)
  <2>1. CASE obj' = [obj EXCEPT ![OwnRef(a)] = mark_cancelled(obj[OwnRef(a)])]
    <3>1. CASE r = OwnRef(a)
      <4>1. r.act = a /\ r.kind = "own"
        BY <3>1 DEF OwnRef
      <4>2. obj'[r] = mark_cancelled(obj[r])
        BY <2>1, <3>1 DEF TypeOK
      <4>3. cancel'[a] \in Marked \/ UNCHANGED obj
        BY <1>5 DEF BeginCancel, TypeOK, Marked
      <4>4. QED
        BY <1>3, <4>1, <4>2, <4>3 DEF OtherMove
    <3>2. CASE r # OwnRef(a)
      BY <2>1, <3>2 DEF TypeOK, OtherMove
    <3>3. QED
      BY <3>1, <3>2
  <2>2. CASE UNCHANGED obj
    BY <1>3, <2>2
  <2>3. QED
    BY <1>5, <2>1, <2>2 DEF BeginCancel
<1>6. ASSUME NEW w \in Worker, Send(w) \/ EnqueueRefused(w) PROVE OtherMove(r)
  <2>1. \/ UNCHANGED obj
        \/ /\ obj' = [obj EXCEPT ![wref[w]] = [obj[wref[w]] EXCEPT !.err = TRUE]]
           /\ srv[wref[w].act] = "refused" \/ SpecGone(wref[w])
    BY <1>6 DEF Send, EnqueueRefused, FailAction
  <2>2. wref[w] \in Ref /\ wref[w].kind = "own"
    BY <1>6 DEF Send, EnqueueRefused, TypeOK, LaunchInv, LaunchersOwn, Launching
  <2>3. CASE r = wref[w]
    BY <1>3, <2>1, <2>2, <2>3 DEF TypeOK, OtherMove
  <2>4. CASE r # wref[w]
    BY <1>3, <2>1, <2>2, <2>4 DEF TypeOK, OtherMove
  <2>5. QED
    BY <2>3, <2>4
<1>7. ASSUME NEW a \in Action, Submit(a) \/ SubmitPut(a) \/ Return(a) \/ CancelSubmit(a)
      PROVE  OtherMove(r)
  BY <1>3, <1>7 DEF Submit, SubmitPut, Return, CancelSubmit
<1>8. ASSUME NEW a \in Action, AbortReplies(a) \/ AbortFails(a) \/ Accept(a) \/ End(a)
      PROVE  OtherMove(r)
  BY <1>3, <1>8 DEF AbortReplies, AbortFails, Accept, End
<1>9. ASSUME NEW w \in Worker, Take(w) \/ EnqueueOk(w) \/ EnqueueFails(w) \/ Requeue(w) \/ Fire(w)
      PROVE  OtherMove(r)
  BY <1>3, <1>9 DEF Take, EnqueueOk, EnqueueFails, Requeue, Fire
<1>10. ASSUME \/ StartInformer \/ SyncTimeout \/ Sentinel \/ Reconnect \/ WatchPut
              \/ UNCHANGED vars
       PROVE  OtherMove(r)
  BY <1>3, <1>10 DEF StartInformer, SyncTimeout, Sentinel, Reconnect, WatchPut, vars
<1>11. CASE ~Observed(r)
  BY <1>4, <1>5, <1>6, <1>7, <1>8, <1>9, <1>10, <1>11, StepCases
<1>12. QED
  BY <1>2, <1>11

(* The fields of an object after such a move.                              *)
LEMMA ObjectFields ==
  ASSUME NEW o \in Object, NEW p \in Live
  PROVE  /\ mark_cancelled(o).phase = "ABORTED" /\ mark_cancelled(o).started
         /\ ~mark_cancelled(o).task /\ mark_cancelled(o).err = o.err
         /\ [o EXCEPT !.err = TRUE].phase = o.phase
         /\ [o EXCEPT !.err = TRUE].started = o.started
         /\ [o EXCEPT !.err = TRUE].task = o.task
         /\ merge_state(o, p).phase = p /\ merge_state(o, p).started
         /\ merge_state(o, p).task = o.task /\ merge_state(o, p).err = o.err
         /\ from_state(p).phase = p /\ from_state(p).started /\ ~from_state(p).err
BY DEF Object, mark_cancelled, merge_state, from_state

LEMMA OtherFields ==
  ASSUME TypeOK, NEW r \in Ref, OtherMove(r)
  PROVE  \/ /\ cancel'[r.act] \in Marked /\ r.kind = "own"
            /\ obj'[r].phase = "ABORTED" /\ obj'[r].started /\ ~obj'[r].task
            /\ obj'[r].err = obj[r].err
         \/ /\ obj'[r].phase = obj[r].phase /\ obj'[r].started = obj[r].started
            /\ obj'[r].task = obj[r].task
            /\ \/ obj'[r].err = obj[r].err
               \/ srv[r.act] = "refused"
               \/ r.kind = "own" /\ SpecGone(r)
<1>1. obj[r] \in Object /\ "RUNNING" \in Live
  BY DEF TypeOK, Live
<1>2. CASE obj'[r] = obj[r]
  BY <1>2
<1>3. CASE /\ obj'[r] = [obj[r] EXCEPT !.err = TRUE]
           /\ srv[r.act] = "refused" \/ (r.kind = "own" /\ SpecGone(r))
  <2>1. /\ obj'[r].phase = obj[r].phase /\ obj'[r].started = obj[r].started
        /\ obj'[r].task = obj[r].task
    BY <1>1, <1>3, ObjectFields
  <2>2. QED
    BY <1>3, <2>1
<1>4. CASE /\ obj'[r] = mark_cancelled(obj[r])
           /\ r.kind = "own" /\ cancel'[r.act] \in Marked
  BY <1>1, <1>4, ObjectFields
<1>5. QED
  BY <1>2, <1>3, <1>4 DEF OtherMove

LEMMA ErrGrows ==
  ASSUME TypeOK, NEW r \in Ref, OtherMove(r), obj[r].err
  PROVE  obj'[r].err
<1>1. obj[r] \in Object /\ "RUNNING" \in Live
  BY DEF TypeOK, Live
<1>2. [obj[r] EXCEPT !.err = TRUE].err
  BY <1>1 DEF Object
<1>3. mark_cancelled(obj[r]).err = obj[r].err
  BY <1>1, ObjectFields
<1>4. QED
  BY <1>2, <1>3 DEF OtherMove

LEMMA ObservedFields ==
  ASSUME TypeOK, NEW r \in Ref, Observed(r), ObserveMove(r)
  PROVE  /\ obj'[r].phase = Head(stream[r.act]) /\ obj'[r].started
         /\ \/ /\ cache[r.act] = r.kind
               /\ obj'[r].task = obj[r].task /\ obj'[r].err = obj[r].err
            \/ cache[r.act] = "none" /\ r.kind # "own" /\ ~obj'[r].err
<1>1. obj[r] \in Object /\ r.act \in Action
  BY RefTypes DEF TypeOK
<1>2. Head(stream[r.act]) \in Live
  BY <1>1 DEF Observed, Update, TypeOK
<1>3. CASE /\ cache[r.act] = r.kind
           /\ obj'[r] = merge_state(obj[r], Head(stream[r.act]))
  BY <1>1, <1>2, <1>3, ObjectFields
<1>4. CASE /\ cache[r.act] = "none" /\ r.kind # "own"
           /\ obj'[r] = from_state(Head(stream[r.act]))
  BY <1>1, <1>2, <1>4, ObjectFields
<1>5. QED
  BY <1>3, <1>4 DEF ObserveMove

(* Who sets a completion event, and who makes one.                         *)
EventMove(a) ==
  /\ event'[a] = "set" =>
       \/ event[a] = "set"
       \/ cancel[a] # "none"
       \/ event[a] = "clear" /\ Resting(a)
            /\ \E w \in Worker : wpc[w] = "firing" /\ wref[w].act = a
  /\ event'[a] = "clear" => event[a] = "clear" \/ sub[a] = "new"

LEMMA NextEvents ==
  ASSUME TypeOK, [Next]_vars, NEW a \in Action
  PROVE  EventMove(a)
<1>1. ASSUME UNCHANGED event PROVE EventMove(a)
  BY <1>1 DEF EventMove
<1>2. ASSUME NEW b \in Action, Submit(b) PROVE EventMove(a)
  BY <1>2 DEF Submit, EventMove, TypeOK
<1>3. ASSUME NEW b \in Action, SubmitPut(b) \/ Return(b) \/ CancelSubmit(b) PROVE EventMove(a)
  BY <1>1, <1>3 DEF SubmitPut, Return, CancelSubmit
<1>4. ASSUME NEW b \in Action, BeginCancel(b) \/ AbortReplies(b) \/ AbortFails(b)
      PROVE  EventMove(a)
  <2>1. /\ cancel[b] # "none"
        /\ event' = event \/ event' = [event EXCEPT ![b] = Fired(@)]
    BY <1>4 DEF BeginCancel, AbortReplies, AbortFails
  <2>2. QED
    BY <2>1 DEF EventMove, Fired, TypeOK
<1>5. ASSUME NEW b \in Action, Update(b) \/ Accept(b) \/ End(b) PROVE EventMove(a)
  BY <1>1, <1>5 DEF Update, Accept, End
<1>6. ASSUME NEW w \in Worker, Fire(w) PROVE EventMove(a)
  <2>1. /\ wpc[w] = "firing" /\ event' = [event EXCEPT ![wref[w].act] = Fired(@)]
        /\ UNCHANGED <<cache, sub, ret>>
    BY <1>6 DEF Fire, callVars
  <2>2. QED
    BY <2>1 DEF EventMove, Fired, TypeOK, Resting
<1>7. ASSUME NEW w \in Worker, Take(w) \/ Send(w) \/ EnqueueOk(w) \/ EnqueueRefused(w)
                                  \/ EnqueueFails(w) \/ Requeue(w)
      PROVE  EventMove(a)
  BY <1>1, <1>7 DEF Take, Send, EnqueueOk, EnqueueRefused, EnqueueFails, Requeue
<1>8. ASSUME \/ StartInformer \/ SyncTimeout \/ Sentinel \/ Reconnect \/ WatchPut
             \/ UNCHANGED vars
      PROVE  EventMove(a)
  BY <1>1, <1>8 DEF StartInformer, SyncTimeout, Sentinel, Reconnect, WatchPut, vars
<1>9. QED
  BY <1>2, <1>3, <1>4, <1>5, <1>6, <1>7, <1>8, StepCases

(* How a worker gets to fire.                                              *)
FiringMove(w) ==
  wpc'[w] = "firing" =>
    \/ wpc[w] = "firing" /\ wref'[w] = wref[w]
    \/ UNCHANGED obj /\ obj[wref'[w]].started /\ obj[wref'[w]].phase \in Terminal
    \/ obj'[wref[w]].err /\ wref'[w] = wref[w]

LEMMA NextFiring ==
  ASSUME TypeOK, [Next]_vars, NEW w \in Worker
  PROVE  FiringMove(w)
<1>1. ASSUME UNCHANGED <<wpc, wref>> PROVE FiringMove(w)
  BY <1>1 DEF FiringMove
<1>2. ASSUME NEW v \in Worker, Take(v) PROVE FiringMove(w)
  <2>1. /\ wpc' = [wpc EXCEPT ![v] = Todo(obj[Head(queue)])] /\ UNCHANGED obj
        /\ wref' = [wref EXCEPT ![v] = IF Todo(obj[Head(queue)]) = "idle" THEN NoRef
                                       ELSE Head(queue)]
    BY <1>2 DEF Take, Suspend
  <2>2. CASE v = w
    <3>1. /\ wpc'[w] = Todo(obj[Head(queue)])
          /\ wref'[w] = IF Todo(obj[Head(queue)]) = "idle" THEN NoRef ELSE Head(queue)
      BY <2>1, <2>2 DEF TypeOK
    <3>2. QED
      BY <2>1, <3>1 DEF FiringMove, Todo
  <2>3. CASE v # w
    BY <2>1, <2>3 DEF FiringMove, TypeOK
  <2>4. QED
    BY <2>2, <2>3
<1>3. ASSUME NEW v \in Worker, Send(v) \/ EnqueueRefused(v) PROVE FiringMove(w)
  <2>1. /\ UNCHANGED wref /\ wpc[v] \in Launching
        /\ \/ /\ wpc' = [wpc EXCEPT ![v] = "firing"]
              /\ obj' = [obj EXCEPT ![wref[v]] = [obj[wref[v]] EXCEPT !.err = TRUE]]
           \/ wpc' = [wpc EXCEPT ![v] = "enqueuing"]
    BY <1>3 DEF Send, EnqueueRefused, FailAction, Suspend, Launching
  <2>2. wref[v] \in Ref
    BY <2>1 DEF TypeOK, Launching
  <2>3. [obj[wref[v]] EXCEPT !.err = TRUE].err
    BY <2>2 DEF TypeOK, Object
  <2>4. CASE v = w
    BY <2>1, <2>2, <2>3, <2>4 DEF TypeOK, FiringMove
  <2>5. CASE v # w
    BY <2>1, <2>5 DEF TypeOK, FiringMove
  <2>6. QED
    BY <2>4, <2>5
<1>4. ASSUME NEW v \in Worker, EnqueueOk(v) \/ Fire(v) \/ Requeue(v) \/ EnqueueFails(v)
      PROVE  FiringMove(w)
  <2>1. /\ \E pc \in {"idle", "backoff", "dead", "requeuing"} : wpc' = [wpc EXCEPT ![v] = pc]
        /\ wref' = wref \/ wref' = [wref EXCEPT ![v] = NoRef]
    BY <1>4 DEF EnqueueOk, Fire, Requeue, EnqueueFails, Finish, Suspend
  <2>2. QED
    BY <2>1 DEF TypeOK, FiringMove
<1>5. ASSUME NEW a \in Action, Submit(a) \/ SubmitPut(a) \/ Return(a) \/ CancelSubmit(a)
      PROVE  FiringMove(w)
  BY <1>1, <1>5 DEF Submit, SubmitPut, Return, CancelSubmit, workerVars
<1>6. ASSUME NEW a \in Action, BeginCancel(a) \/ AbortReplies(a) \/ AbortFails(a)
      PROVE  FiringMove(w)
  BY <1>1, <1>6 DEF BeginCancel, AbortReplies, AbortFails, workerVars
<1>7. ASSUME NEW a \in Action, Update(a) \/ Accept(a) \/ End(a) PROVE FiringMove(w)
  BY <1>1, <1>7 DEF Update, Accept, End, workerVars
<1>8. ASSUME \/ StartInformer \/ SyncTimeout \/ Sentinel \/ Reconnect \/ WatchPut
             \/ UNCHANGED vars
      PROVE  FiringMove(w)
  BY <1>1, <1>8 DEF StartInformer, SyncTimeout, Sentinel, Reconnect, WatchPut, vars, workerVars
<1>9. QED
  BY <1>2, <1>3, <1>4, <1>5, <1>6, <1>7, <1>8, StepCases

LEMMA ReportInit == Init => ReportInv
<1> SUFFICES ASSUME Init PROVE ReportInv
  OBVIOUS
<1>1. /\ \A r \in Ref : obj[r] = Submitted(r.act)
      /\ \A w \in Worker : wpc[w] = "idle"
      /\ \A a \in Action : sub[a] = "new"
  BY DEF Init
<1>2. ASSUME NEW r \in Ref
      PROVE  ~obj[r].started /\ ~obj[r].err /\ (r.act \notin Trace => obj[r].task)
  <2>1. \A a : ~Submitted(a).started /\ ~Submitted(a).err
    BY DEF Submitted
  <2>2. \A a : a \notin Trace => Submitted(a).task
    BY DEF Submitted
  <2>3. QED
    BY <1>1, <2>1, <2>2
<1>3. \A a \in Action : OwnRef(a) \in Ref /\ OwnRef(a).act = a
  BY RefTypes DEF OwnRef
<1>4. ReportedTrue /\ ErrRefused
  BY <1>2 DEF ReportedTrue, Reported, ErrRefused
<1>5. SpecKept
  BY <1>2, <1>3 DEF SpecKept
<1>6. FiringEnded /\ SetEnded /\ ReturnedFinal
  BY <1>1 DEF FiringEnded, SetEnded, ReturnedFinal
<1>7. QED
  BY <1>4, <1>5, <1>6 DEF ReportInv

LEMMA AppendFills ==
  ASSUME NEW s \in Seq(Live), NEW p \in Live
  PROVE  Append(s, p) # <<>>
<1>1. Len(Append(s, p)) = Len(s) + 1 /\ Len(s) \in Nat
  OBVIOUS
<1>2. Len(<<>>) = 0
  OBVIOUS
<1>3. QED
  BY <1>1, <1>2

LEMMA KnownMove ==
  ASSUME TypeOK, NEW a \in Action, NEW p, Known(p, srv[a], stream[a]), ServiceMove(a)
  PROVE  Known(p, srv'[a], stream'[a])
<1>1. CASE srv'[a] = srv[a] /\ stream'[a] = stream[a]
  BY <1>1
<1>2. CASE srv'[a] = srv[a] /\ stream'[a] = IF Exists(a) THEN <<srv[a]>> ELSE <<>>
  <2>1. srv[a] \in Live /\ stream'[a] = <<srv[a]>>
    BY <1>2 DEF Known, Exists
  <2>2. /\ stream'[a] # <<>>
        /\ srv[a] \in Terminal => \A i \in 1..Len(stream'[a]) : stream'[a][i] \in Terminal
    BY <2>1, StreamFirst
  <2>3. QED
    BY <1>2, <2>1, <2>2 DEF Known
<1>3. CASE /\ srv[a] \in {"absent", "RUNNING"} /\ srv'[a] \in Live
           /\ stream'[a] = Append(stream[a], srv'[a])
  <2>1. p \notin Terminal
    BY <1>3 DEF Known, Terminal
  <2>2. stream[a] \in Seq(Live)
    BY DEF TypeOK
  <2>3. stream'[a] # <<>>
    BY <1>3, <2>2, AppendFills
  <2>4. QED
    BY <1>3, <2>1, <2>3 DEF Known
<1>4. QED
  BY <1>1, <1>2, <1>3 DEF ServiceMove

(* A final state of the service, and a refusal, stay.                      *)
LEMMA ServiceFinal ==
  ASSUME TypeOK, [Next]_vars, NEW a \in Action, srv[a] \in Terminal \cup {"refused"}
  PROVE  srv'[a] = srv[a]
<1>1. Update(a) => srv'[a] = srv[a]
  BY UpdateStream
<1>2. QED
  BY <1>1, NextService DEF ServiceMove, Terminal

(* One step of everything the parts of the invariant are about.            *)
Moves ==
  /\ RefStep
  /\ \A a \in Action : ServiceMove(a) \/ Update(a)
  /\ \A a \in Action : EventMove(a)
  /\ \A a \in Action : srv[a] \in Terminal \cup {"refused"} => srv'[a] = srv[a]
  /\ \A r \in Ref : IF Observed(r) THEN ObserveMove(r) ELSE OtherMove(r)
  /\ \A w \in Worker : FiringMove(w)

LEMMA NextMoves ==
  ASSUME TypeOK, TypeOK', LaunchInv, RefInv, [Next]_vars
  PROVE  Moves
BY NextRefStep, NextService, NextEvents, ServiceFinal, NextObjects, NextFiring DEF Moves

LEMMA UpdateCache ==
  ASSUME TypeOK, NEW a \in Action, Update(a)
  PROVE  cache[a] # "none" => cache'[a] = cache[a]
BY DEF TypeOK, Update

LEMMA ReportedTrueStep ==
  ASSUME TypeOK, RefInv, StreamInv, ReportInv, Moves
  PROVE  ReportedTrue'
<1> SUFFICES ASSUME NEW r \in Ref, obj'[r].started,
                    r.kind = "own" => cancel'[r.act] \notin Marked
             PROVE  Known(obj'[r].phase, srv'[r.act], stream'[r.act])
  BY DEF ReportedTrue, Reported
<1> DEFINE a == r.act
<1>1. a \in Action /\ r.kind \in Kind /\ r.kind # "none"
  BY RefTypes DEF Kind
<1>2. stream[a] \in Seq(Live) /\ StreamOk(stream[a], srv[a])
  BY <1>1 DEF TypeOK, StreamInv
<1>3. CASE Observed(r)
  <2>1. /\ srv'[a] = srv[a] /\ stream[a] # <<>> /\ stream'[a] = Tail(stream[a])
    BY <1>1, <1>3, UpdateStream DEF Observed
  <2>2. obj'[r].phase = Head(stream[a])
    BY <1>3, ObservedFields DEF Moves
  <2>3. /\ srv[a] \in Live /\ Head(stream[a]) \in Live
        /\ Head(stream[a]) \in Terminal =>
             /\ Head(stream[a]) = srv[a]
             /\ \A i \in 1..Len(Tail(stream[a])) : Tail(stream[a])[i] \in Terminal
        /\ Tail(stream[a]) = <<>> => Head(stream[a]) = srv[a]
    BY <1>2, <2>1, StreamTake
  <2>4. Head(stream[a]) \notin Terminal => Head(stream[a]) = "RUNNING"
    BY <2>3 DEF Live
  <2>5. QED
    BY <2>1, <2>2, <2>3, <2>4 DEF Known
<1>4. CASE ~Observed(r)
  <2>1. obj'[r].phase = obj[r].phase /\ obj'[r].started = obj[r].started
    BY <1>4, OtherFields DEF Moves
  <2>2. Reported(r)
    BY <1>1, <2>1 DEF Reported, Moves, RefStep
  <2>3. Known(obj[r].phase, srv[a], stream[a])
    BY <2>2 DEF ReportInv, ReportedTrue
  <2>4. CASE ServiceMove(a)
    BY <1>1, <2>1, <2>3, <2>4, KnownMove
  <2>5. CASE Update(a)
    <3>1. cache'[a] # r.kind
      BY <1>4, <2>5 DEF Observed
    <3>2. cache[a] # r.kind
      BY <1>1, <2>5, <3>1, UpdateCache
    <3>3. sub[a] = "returned" /\ ret[a] = r.kind
      BY <2>2, <3>2 DEF RefInv, ReportedCached
    <3>4. IF obj[r].err THEN srv[a] = "refused" ELSE obj[r].phase \in Terminal /\ obj[r].phase = srv[a]
      BY <1>1, <3>3, RefTypes DEF ReportInv, ReturnedFinal
    <3>5. srv[a] # "refused"
      BY <2>3 DEF Known, Live, Terminal
    <3>6. \A i \in 1..Len(stream[a]) : stream[a][i] \in Terminal
      BY <2>3, <3>4, <3>5 DEF Known
    <3>7. /\ srv' = srv /\ stream[a] # <<>> /\ stream'[a] = Tail(stream[a])
      BY <1>1, <2>5, UpdateStream
    <3>8. \A i \in 1..Len(Tail(stream[a])) : Tail(stream[a])[i] \in Terminal
      BY <1>2, <3>6, <3>7, StreamTake
    <3>9. QED
      BY <2>1, <2>3, <3>4, <3>5, <3>7, <3>8 DEF Known
  <2>6. QED
    BY <1>1, <2>4, <2>5 DEF Moves
<1>5. QED
  BY <1>3, <1>4

LEMMA ErrRefusedStep ==
  ASSUME TypeOK, RefInv, ReportInv, Moves
  PROVE  ErrRefused'
<1> SUFFICES ASSUME NEW r \in Ref, obj'[r].err
             PROVE  srv'[r.act] = "refused" \/ cancel'[r.act] \in Marked
  BY DEF ErrRefused
<1>1. r.act \in Action /\ (r.kind = "own" => r = OwnRef(r.act))
  BY RefTypes DEF OwnRef
<1>2. srv[r.act] = "refused" => srv'[r.act] = "refused"
  BY <1>1 DEF Moves
<1>3. cancel[r.act] \in Marked => cancel'[r.act] \in Marked
  BY <1>1 DEF Moves, RefStep
<1>4. CASE obj[r].err
  BY <1>2, <1>3, <1>4 DEF ReportInv, ErrRefused
<1>5. CASE ~obj[r].err
  <2>1. ~Observed(r)
    BY <1>5, ObservedFields DEF Moves
  <2>2. srv[r.act] = "refused" \/ (r.kind = "own" /\ SpecGone(r))
    BY <1>5, <2>1, OtherFields DEF Moves
  <2>3. r.kind = "own" /\ SpecGone(r) => cancel[r.act] \in Marked
    BY <1>1 DEF SpecGone, ReportInv, SpecKept
  <2>4. QED
    BY <1>2, <1>3, <2>2, <2>3
<1>6. QED
  BY <1>4, <1>5

LEMMA SpecKeptStep ==
  ASSUME TypeOK, RefInv, ReportInv, Moves
  PROVE  SpecKept'
<1> SUFFICES ASSUME NEW a \in Action \ Trace, ~obj'[OwnRef(a)].task
             PROVE  cancel'[a] \in Marked
  BY DEF SpecKept, OwnRef
<1>1. OwnRef(a) \in Ref /\ OwnRef(a).act = a /\ OwnRef(a).kind = "own"
  BY RefTypes DEF OwnRef
<1>2. cancel'[a] \in Marked \/ obj'[OwnRef(a)].task = obj[OwnRef(a)].task
  BY <1>1, ObservedFields, OtherFields DEF Moves
<1>3. ~obj[OwnRef(a)].task => cancel[a] \in Marked
  BY DEF ReportInv, SpecKept
<1>4. QED
  BY <1>2, <1>3 DEF Moves, RefStep

(* An object that has ended stays so, unless it is cancelled.              *)
LEMMA EndedKept ==
  ASSUME TypeOK, RefInv, StreamInv, ReportInv, Moves, NEW r \in Ref, Ended(r),
         cancel'[r.act] \notin Marked
  PROVE  Ended(r)'
<1>1. r.act \in Action /\ stream[r.act] \in Seq(Live) /\ StreamOk(stream[r.act], srv[r.act])
  BY RefTypes DEF TypeOK, StreamInv
<1>2. cancel[r.act] \notin Marked
  BY <1>1 DEF Moves, RefStep
<1>3. CASE Observed(r)
  <2>1. stream[r.act] # <<>>
    BY <1>1, <1>3, UpdateStream DEF Observed
  <2>2. srv[r.act] \in Live
    BY <1>1, <2>1, StreamTake
  <2>3. ~obj[r].err
    BY <1>2, <2>2 DEF ReportInv, ErrRefused, Live, Terminal
  <2>4. Reported(r) /\ obj[r].phase \in Terminal
    BY <1>2, <2>3 DEF Ended, Reported
  <2>5. \A i \in 1..Len(stream[r.act]) : stream[r.act][i] \in Terminal
    BY <2>4 DEF ReportInv, ReportedTrue, Known
  <2>6. Head(stream[r.act]) \in Terminal
    BY <1>1, <2>1, <2>5, StreamTake
  <2>7. QED
    BY <1>3, <2>6, ObservedFields DEF Moves, Ended
<1>4. CASE ~Observed(r)
  <2>1. OtherMove(r)
    BY <1>4 DEF Moves
  <2>2. /\ obj'[r].phase = obj[r].phase /\ obj'[r].started = obj[r].started
    BY <2>1, OtherFields
  <2>3. obj[r].err => obj'[r].err
    BY <2>1, ErrGrows
  <2>4. QED
    BY <2>2, <2>3 DEF Ended
<1>5. QED
  BY <1>3, <1>4

LEMMA FiringEndedStep ==
  ASSUME TypeOK, TypeOK', RefInv, StreamInv, ReportInv, Moves
  PROVE  FiringEnded'
<1> SUFFICES ASSUME NEW w \in Worker, wpc'[w] = "firing", cancel'[wref'[w].act] \notin Marked
             PROVE  Ended(wref[w])'
  BY DEF FiringEnded
<1>1. wref'[w] \in Ref /\ wref'[w].act \in Action
  BY RefTypes DEF TypeOK
<1>2. CASE wpc[w] = "firing" /\ wref'[w] = wref[w]
  <2>1. Ended(wref[w]) \/ cancel[wref[w].act] \in Marked
    BY <1>2 DEF ReportInv, FiringEnded
  <2>2. Ended(wref[w])
    BY <1>1, <1>2, <2>1 DEF Moves, RefStep
  <2>3. ASSUME NEW r \in Ref, r = wref[w] PROVE Ended(r)'
    BY <1>2, <2>2, <2>3, EndedKept
  <2>4. QED
    BY <1>1, <1>2, <2>3 DEF Ended
<1>3. CASE UNCHANGED obj /\ obj[wref'[w]].started /\ obj[wref'[w]].phase \in Terminal
  BY <1>3 DEF Ended
<1>4. CASE obj'[wref[w]].err /\ wref'[w] = wref[w]
  BY <1>4 DEF Ended
<1>5. QED
  BY <1>2, <1>3, <1>4 DEF Moves, FiringMove

(* The object a worker holds is the one its caller waits for.              *)
LEMMA HeldIsCached ==
  ASSUME TypeOK, RefInv, NEW w \in Worker, NEW a \in Action, wref[w] # NoRef,
         wref[w].act = a, sub[a] \in {"putting", "waiting"}
  PROVE  wref[w] = CacheRef(a)
<1>1. wref[w] \in Ref /\ wref[w] = [act |-> a, kind |-> wref[w].kind]
  BY RefTypes DEF TypeOK
<1>2. CASE wref[w].kind = "own"
  <2>1. Referred(OwnRef(a))
    BY <1>1, <1>2 DEF OwnRef, Referred, Held
  <2>2. cache[a] = "own"
    BY <2>1 DEF RefInv, OwnCached
  <2>3. QED
    BY <1>1, <1>2, <2>2 DEF CacheRef
<1>3. CASE wref[w].kind # "own"
  <2>1. Reported(wref[w])
    BY <1>3 DEF RefInv, HeldStarted, OwnOrStarted, Reported
  <2>2. cache[a] = wref[w].kind
    BY <1>1, <2>1 DEF RefInv, ReportedCached
  <2>3. QED
    BY <1>1, <2>2 DEF CacheRef
<1>4. QED
  BY <1>2, <1>3

LEMMA SetEndedStep ==
  ASSUME TypeOK, TypeOK', RefInv, RefInv', StreamInv, ReportInv, Moves
  PROVE  SetEnded'
<1> SUFFICES ASSUME NEW a \in Action, sub'[a] \in {"putting", "waiting"}, event'[a] = "set"
             PROVE  Ended(CacheRef(a))'
  BY DEF SetEnded
<1>1. cancel'[a] = "none"
  BY DEF RefInv, CancelledOnly
<1>2. cancel[a] \notin Marked
  BY <1>1 DEF Moves, RefStep, Marked
<1>3. CallMove(a) /\ EventMove(a)
  BY DEF Moves, RefStep
<1>4. sub[a] = "new" => event[a] = "none"
  BY DEF RefInv, NewUntouched
<1>5. cancel[a] # "none" => sub[a] = "cancelled"
  BY DEF RefInv, CancelledOnly
<1>6. sub[a] \in {"putting", "waiting"} /\ cache[a] # "none" /\ cache'[a] = cache[a]
  BY <1>3, <1>4, <1>5 DEF CallMove, Resting, EventMove, TypeOK
<1>7. CacheRef(a)' = CacheRef(a) /\ CacheRef(a) \in Ref /\ CacheRef(a).act = a
  BY <1>6, RefTypes DEF CacheRef, TypeOK
<1>8. Ended(CacheRef(a))
  <2>1. CASE event[a] = "set"
    BY <1>6, <2>1 DEF ReportInv, SetEnded
  <2>2. CASE \E w \in Worker : wpc[w] = "firing" /\ wref[w].act = a
    <3>1. PICK w \in Worker : wpc[w] = "firing" /\ wref[w].act = a
      BY <2>2
    <3>2. wref[w] # NoRef
      BY <3>1 DEF TypeOK
    <3>3. wref[w] = CacheRef(a)
      BY <1>6, <3>1, <3>2, HeldIsCached
    <3>4. Ended(wref[w])
      BY <1>2, <3>1 DEF ReportInv, FiringEnded
    <3>5. QED
      BY <3>3, <3>4
  <2>3. QED
    BY <1>3, <1>5, <1>6, <2>1, <2>2 DEF EventMove
<1>9. ASSUME NEW r \in Ref, r = CacheRef(a) PROVE Ended(r)'
  <2>1. cancel'[r.act] \notin Marked
    BY <1>1, <1>7, <1>9 DEF Marked
  <2>2. QED
    BY <1>8, <1>9, <2>1, EndedKept
<1>10. QED
  BY <1>7, <1>9 DEF Ended, CacheRef

(* What a returned object says of the service.                             *)
Final(r) == IF obj[r].err THEN srv[r.act] = "refused"
            ELSE obj[r].phase \in Terminal /\ obj[r].phase = srv[r.act]

LEMMA FinalKept ==
  ASSUME TypeOK, RefInv, ReportInv, Moves, NEW r \in Ref, Final(r), ~Observed(r),
         cancel'[r.act] = "none"
  PROVE  Final(r)' /\ srv'[r.act] = srv[r.act]
<1>1. r.act \in Action /\ (r.kind = "own" => r = OwnRef(r.act))
  BY RefTypes DEF OwnRef
<1>2. srv'[r.act] = srv[r.act]
  BY <1>1 DEF Final, Moves
<1>3. cancel[r.act] \notin Marked /\ cancel'[r.act] \notin Marked
  BY <1>1 DEF Moves, RefStep, Marked
<1>4. OtherMove(r)
  BY DEF Moves
<1>5. obj'[r].phase = obj[r].phase
  BY <1>3, <1>4, OtherFields
<1>6. ~(r.kind = "own" /\ SpecGone(r))
  BY <1>1, <1>3 DEF SpecGone, ReportInv, SpecKept
<1>7. obj'[r].err = obj[r].err \/ srv[r.act] = "refused"
  BY <1>3, <1>4, <1>6, OtherFields
<1>8. obj[r].err => obj'[r].err
  BY <1>4, ErrGrows
<1>9. srv[r.act] = "refused" => obj[r].err
  BY DEF Final, Terminal
<1>10. Final(r)'
  BY <1>2, <1>5, <1>7, <1>8, <1>9 DEF Final
<1>11. QED
  BY <1>2, <1>10

LEMMA ReturnedFinalStep ==
  ASSUME TypeOK, TypeOK', LaunchInv, RefInv, RefInv', ReportInv, Moves
  PROVE  ReturnedFinal'
<1> SUFFICES ASSUME NEW a \in Action, sub'[a] = "returned",
                    NEW r, r = [act |-> a, kind |-> ret'[a]]
             PROVE  Final(r)'
  BY DEF ReturnedFinal, Final
<1>1. CallMove(a) /\ EventMove(a)
  BY DEF Moves, RefStep
<1>2. /\ ret'[a] \in {"own", "seen"} /\ cache'[a] # ret'[a] /\ cancel'[a] = "none"
  BY DEF RefInv, ReturnedKept, CancelledOnly
<1>3. r \in Ref /\ r.act = a /\ r.kind = ret'[a]
  BY <1>2, RefTypes DEF Kind
<1>4. ~Observed(r)
  BY <1>2, <1>3 DEF Observed
<1>5. CASE sub[a] = "returned"
  <2>1. ret'[a] = ret[a]
    BY <1>1, <1>5 DEF CallMove, Resting
  <2>2. Final(r)
    BY <1>3, <1>5, <2>1 DEF ReportInv, ReturnedFinal, Final
  <2>3. QED
    BY <1>2, <1>3, <1>4, <2>2, FinalKept
<1>6. CASE sub[a] # "returned"
  <2>1. sub[a] = "waiting" /\ event[a] = "set" /\ ret'[a] = cache[a]
    BY <1>1, <1>6 DEF CallMove, Resting
  <2>2. r = CacheRef(a)
    BY <2>1 DEF CacheRef
  <2>3. Ended(r)
    BY <2>1, <2>2 DEF ReportInv, SetEnded
  <2>4. cancel[a] \notin Marked
    BY <1>2 DEF Moves, RefStep, Marked
  <2>5. obj[r].err => srv[a] = "refused"
    BY <1>3, <2>4 DEF ReportInv, ErrRefused
  <2>6. obj[r].started /\ obj[r].phase \in Terminal => obj[r].phase = srv[a]
    BY <1>3, <2>4 DEF ReportInv, ReportedTrue, Reported, Known
  <2>7. Final(r)
    BY <1>3, <2>3, <2>5, <2>6 DEF Ended, Final
  <2>8. QED
    BY <1>2, <1>3, <1>4, <2>7, FinalKept
<1>7. QED
  BY <1>5, <1>6

LEMMA NextReports ==
  ASSUME TypeOK, TypeOK', LaunchInv, RefInv, StreamInv, ReportInv, [Next]_vars
  PROVE  ReportInv'
<1>1. Moves /\ RefInv'
  BY NextMoves, NextRefs
<1>2. QED
  BY <1>1, ReportedTrueStep, ErrRefusedStep, SpecKeptStep, FiringEndedStep, SetEndedStep,
     ReturnedFinalStep DEF ReportInv

(* The object submit_action returns has the final state the service has    *)
(* for the action, or the client error of one that was refused, for every  *)
(* set of actions and workers, whatever is retried, recovered, reported    *)
(* twice or cancelled beside it.                                           *)
THEOREM ReturnedFinalAlways == Spec => []ReturnedFinal
<1> DEFINE Inv == TypeOK /\ LaunchInv /\ RefInv /\ StreamInv /\ ReportInv
<1>1. Init => Inv
  BY InitTypes, LaunchInit, RefInit, StreamInit, ReportInit
<1>2. Inv /\ [Next]_vars => Inv'
  BY NextTypes, NextKeeps, NextRefs, NextStreams, NextReports
<1>3. Inv => ReturnedFinal
  BY DEF ReportInv
<1>4. QED
  BY <1>1, <1>2, <1>3, PTL DEF Spec

-----------------------------------------------------------------------------
(* 7. Who wakes the caller.                                                *)

(* A reference to r that leads to its completion event, r having ended.    *)
FinalToken(r) ==
  \/ Queued(r) \/ watch = r
  \/ \E w \in Worker : wref[w] = r /\ wpc[w] = "firing"

EndedToken ==
  \A a \in Action :
    sub[a] = "waiting" /\ event[a] = "clear" /\ obj[CacheRef(a)].started
      /\ obj[CacheRef(a)].phase \in Terminal => FinalToken(CacheRef(a))

(* When nothing is on its way to the watch, the watch has told all.        *)
ObservedKnown ==
  \A a \in Action :
    sub[a] \in {"new", "putting", "waiting"} /\ Exists(a) /\ stream[a] = <<>>
      => /\ cache[a] # "none" /\ obj[CacheRef(a)].started
         /\ obj[CacheRef(a)].phase = srv[a]

WakeInv == ObservedKnown /\ EndedToken /\ NoLostWakeup

(* Where the references go.                                                *)
LEMMA NextQueue ==
  ASSUME TypeOK, [Next]_vars
  PROVE  \/ queue' = queue
         \/ \E r \in Ref : queue' = Append(queue, r)
         \/ \E w \in Worker : Take(w)
<1> DEFINE Goal == \/ queue' = queue
                   \/ \E r \in Ref : queue' = Append(queue, r)
                   \/ \E w \in Worker : Take(w)
<1>1. ASSUME NEW a \in Action, Submit(a) PROVE Goal
  <2>1. CachedWins(a) \in Kind
    BY DEF TypeOK, CachedWins, Kind
  <2>2. [act |-> a, kind |-> CachedWins(a)] \in Ref
    BY <2>1, RefTypes
  <2>3. QED
    BY <1>1, <2>2 DEF Submit
<1>2. ASSUME NEW a \in Action, SubmitPut(a) PROVE Goal
  <2>1. CacheRef(a) \in Ref
    BY <1>2, RefTypes DEF SubmitPut, TypeOK, CacheRef
  <2>2. QED
    BY <1>2, <2>1 DEF SubmitPut
<1>3. ASSUME NEW a \in Action, Update(a) PROVE Goal
  <2>1. PICK r \in Ref : Notify(r)
    BY <1>3, UpdateEffect
  <2>2. QED
    BY <2>1 DEF Notify
<1>4. ASSUME NEW w \in Worker, Requeue(w) PROVE Goal
  BY <1>4 DEF Requeue, TypeOK
<1>5. CASE WatchPut
  BY <1>5 DEF WatchPut, TypeOK
<1>6. ASSUME NEW a \in Action, Return(a) \/ CancelSubmit(a) \/ BeginCancel(a) \/ AbortReplies(a)
                                 \/ AbortFails(a) \/ Accept(a) \/ End(a)
      PROVE  Goal
  BY <1>6 DEF Return, CancelSubmit, BeginCancel, AbortReplies, AbortFails, Accept, End
<1>7. ASSUME NEW w \in Worker, Send(w) \/ EnqueueOk(w) \/ EnqueueRefused(w)
                                 \/ EnqueueFails(w) \/ Fire(w)
      PROVE  Goal
  BY <1>7 DEF Send, EnqueueOk, EnqueueRefused, EnqueueFails, Fire
<1>8. ASSUME StartInformer \/ SyncTimeout \/ Sentinel \/ Reconnect \/ UNCHANGED vars
      PROVE  Goal
  BY <1>8 DEF StartInformer, SyncTimeout, Sentinel, Reconnect, vars
<1>9. QED
  BY <1>1, <1>2, <1>3, <1>4, <1>5, <1>6, <1>7, <1>8, StepCases

LEMMA QueuedMove ==
  ASSUME TypeOK, [Next]_vars, NEW r, Queued(r)
  PROVE  Queued(r)' \/ \E w \in Worker : Take(w) /\ Head(queue) = r
<1>1. ASSUME NEW w \in Worker, Take(w) PROVE Queued(r)' \/ Head(queue) = r
  <2>1. queue # <<>> /\ queue' = Tail(queue)
    BY <1>1 DEF Take
  <2>2. QED
    BY <2>1, TakeReferences
<1>2. ASSUME NEW x \in Ref, queue' = Append(queue, x) PROVE Queued(r)'
  BY <1>2, PutReferences
<1>3. queue' = queue => Queued(r)'
  BY DEF Queued
<1>4. QED
  BY <1>1, <1>2, <1>3, NextQueue

LEMMA WatchedMove ==
  ASSUME TypeOK, [Next]_vars, NEW r \in Ref, watch = r
  PROVE  watch' = r \/ Queued(r)'
<1>1. ASSUME WatchPut PROVE Queued(r)'
  <2>1. queue' = Append(queue, r)
    BY <1>1 DEF WatchPut
  <2>2. QED
    BY <2>1, PutReferences
<1>2. ASSUME NEW a \in Action, Submit(a) \/ SubmitPut(a) \/ Return(a) \/ CancelSubmit(a)
      PROVE  watch' = watch
  BY <1>2 DEF Submit, SubmitPut, Return, CancelSubmit, watchVars
<1>3. ASSUME NEW a \in Action, BeginCancel(a) \/ AbortReplies(a) \/ AbortFails(a)
      PROVE  watch' = watch
  BY <1>3 DEF BeginCancel, AbortReplies, AbortFails, watchVars
<1>4. ASSUME NEW a \in Action, Update(a) \/ Accept(a) \/ End(a) PROVE watch' = watch
  <2>1. watch # NoRef
    BY ConstantsAssumption
  <2>2. QED
    BY <1>4, <2>1 DEF Update, Accept, End
<1>5. ASSUME NEW w \in Worker, Take(w) \/ Send(w) \/ EnqueueOk(w) \/ EnqueueRefused(w)
                                 \/ EnqueueFails(w) \/ Requeue(w) \/ Fire(w)
      PROVE  watch' = watch
  BY <1>5 DEF Take, Send, EnqueueOk, EnqueueRefused, EnqueueFails, Requeue, Fire, watchVars
<1>6. ASSUME StartInformer \/ SyncTimeout \/ Sentinel \/ Reconnect \/ UNCHANGED vars
      PROVE  watch' = watch
  BY <1>6 DEF StartInformer, SyncTimeout, Sentinel, Reconnect, vars
<1>7. QED
  BY <1>1, <1>2, <1>3, <1>4, <1>5, <1>6, StepCases

LEMMA HeldMove ==
  ASSUME TypeOK, [Next]_vars, NEW w \in Worker, NEW r \in Ref, wref[w] = r
  PROVE  \/ wref'[w] = r /\ (wpc[w] = "firing" => wpc'[w] = "firing")
         \/ Queued(r)' /\ wpc[w] # "firing"
         \/ EnqueueOk(w)
         \/ Fire(w)
<1> DEFINE Goal == \/ wref'[w] = r /\ (wpc[w] = "firing" => wpc'[w] = "firing")
                   \/ Queued(r)' /\ wpc[w] # "firing"
                   \/ EnqueueOk(w)
                   \/ Fire(w)
<1>0. wpc[w] # "idle"
  BY ConstantsAssumption DEF TypeOK
<1>1. ASSUME UNCHANGED <<wpc, wref>> PROVE Goal
  BY <1>1
<1>2. ASSUME NEW v \in Worker, Take(v) PROVE Goal
  <2>1. v # w
    BY <1>0, <1>2 DEF Take
  <2>2. QED
    BY <1>2, <2>1 DEF Take, Suspend, TypeOK
<1>3. ASSUME NEW v \in Worker, Send(v) \/ EnqueueRefused(v) \/ EnqueueFails(v) PROVE Goal
  <2>1. /\ wref' = wref /\ wpc[v] # "firing" /\ \E pc : wpc' = [wpc EXCEPT ![v] = pc]
    BY <1>3 DEF Send, EnqueueRefused, EnqueueFails, FailAction, Suspend
  <2>2. QED
    BY <2>1 DEF TypeOK
<1>4. ASSUME NEW v \in Worker, EnqueueOk(v) \/ Fire(v) PROVE Goal
  <2>1. /\ wpc' = [wpc EXCEPT ![v] = "idle"] /\ wref' = [wref EXCEPT ![v] = NoRef]
    BY <1>4 DEF EnqueueOk, Fire, Finish, Suspend
  <2>2. CASE v = w
    BY <1>4, <2>2
  <2>3. CASE v # w
    BY <2>1, <2>3 DEF TypeOK
  <2>4. QED
    BY <2>2, <2>3
<1>5. ASSUME NEW v \in Worker, Requeue(v) PROVE Goal
  <2>1. CASE v = w
    <3>1. \/ queue' = Append(queue, r)
          \/ wref' = wref
      BY <1>5, <2>1 DEF Requeue
    <3>2. queue' = Append(queue, r) => Queued(r)'
      BY PutReferences
    <3>3. wpc[w] # "firing"
      BY <1>5, <2>1 DEF Requeue
    <3>4. QED
      BY <3>1, <3>2, <3>3
  <2>2. CASE v # w
    BY <1>5, <2>2 DEF Requeue, Finish, Suspend, TypeOK
  <2>3. QED
    BY <2>1, <2>2
<1>6. ASSUME NEW a \in Action, Submit(a) \/ SubmitPut(a) \/ Return(a) \/ CancelSubmit(a)
      PROVE  Goal
  BY <1>1, <1>6 DEF Submit, SubmitPut, Return, CancelSubmit, workerVars
<1>7. ASSUME NEW a \in Action, BeginCancel(a) \/ AbortReplies(a) \/ AbortFails(a)
      PROVE  Goal
  BY <1>1, <1>7 DEF BeginCancel, AbortReplies, AbortFails, workerVars
<1>8. ASSUME NEW a \in Action, Update(a) \/ Accept(a) \/ End(a) PROVE Goal
  BY <1>1, <1>8 DEF Update, Accept, End, workerVars
<1>9. ASSUME StartInformer \/ SyncTimeout \/ Sentinel \/ Reconnect \/ WatchPut \/ UNCHANGED vars
      PROVE  Goal
  BY <1>1, <1>9 DEF StartInformer, SyncTimeout, Sentinel, Reconnect, WatchPut, vars, workerVars
<1>10. QED
  BY <1>2, <1>3, <1>4, <1>5, <1>6, <1>7, <1>8, <1>9, StepCases

LEMMA NewWaiter ==
  ASSUME TypeOK, [Next]_vars, NEW a \in Action, sub'[a] = "waiting", sub[a] # "waiting"
  PROVE  (\E i \in 1..Len(queue) : queue[i] = CacheRef(a))'
<1>1. ASSUME NEW r \in Ref, queue' = Append(queue, r), r = CacheRef(a)'
      PROVE  \E i \in 1..Len(queue') : queue'[i] = CacheRef(a)'
  BY <1>1, PutReferences DEF Queued
<1>2. ASSUME NEW b \in Action, Submit(b) PROVE (\E i \in 1..Len(queue) : queue[i] = CacheRef(a))'
  <2>1. CachedWins(b) \in Kind
    BY DEF TypeOK, CachedWins, Kind
  <2>2. [act |-> b, kind |-> CachedWins(b)] \in Ref
    BY <2>1, RefTypes
  <2>3. b = a /\ queue' = Append(queue, [act |-> b, kind |-> CachedWins(b)])
    BY <1>2 DEF Submit, TypeOK
  <2>4. cache'[a] = CachedWins(a)
    BY <1>2, <2>3 DEF Submit, TypeOK
  <2>5. [act |-> b, kind |-> CachedWins(b)] = CacheRef(a)'
    BY <2>3, <2>4 DEF CacheRef
  <2>6. QED
    BY <1>1, <2>2, <2>3, <2>5
<1>3. ASSUME NEW b \in Action, SubmitPut(b)
      PROVE  (\E i \in 1..Len(queue) : queue[i] = CacheRef(a))'
  <2>1. b = a /\ queue' = Append(queue, CacheRef(a)) /\ cache' = cache
    BY <1>3 DEF SubmitPut, TypeOK
  <2>2. CacheRef(a) \in Ref /\ CacheRef(a)' = CacheRef(a)
    BY <1>3, <2>1, RefTypes DEF SubmitPut, TypeOK, CacheRef
  <2>3. QED
    BY <1>1, <2>1, <2>2
<1>4. ASSUME NEW b \in Action, Return(b) \/ CancelSubmit(b) PROVE FALSE
  BY <1>4 DEF Return, CancelSubmit, TypeOK
<1>5. ASSUME UNCHANGED sub PROVE FALSE
  BY <1>5
<1>6. ASSUME NEW b \in Action, BeginCancel(b) \/ AbortReplies(b) \/ AbortFails(b) PROVE FALSE
  BY <1>5, <1>6 DEF BeginCancel, AbortReplies, AbortFails
<1>7. ASSUME NEW b \in Action, Update(b) \/ Accept(b) \/ End(b) PROVE FALSE
  BY <1>5, <1>7 DEF Update, Accept, End, callVars
<1>8. ASSUME NEW w \in Worker, Take(w) \/ Send(w) \/ EnqueueOk(w) \/ EnqueueRefused(w)
                                 \/ EnqueueFails(w) \/ Requeue(w) \/ Fire(w)
      PROVE  FALSE
  BY <1>5, <1>8 DEF Take, Send, EnqueueOk, EnqueueRefused, EnqueueFails, Requeue, Fire, callVars
<1>9. ASSUME StartInformer \/ SyncTimeout \/ Sentinel \/ Reconnect \/ WatchPut \/ UNCHANGED vars
      PROVE  FALSE
  BY <1>5, <1>9 DEF StartInformer, SyncTimeout, Sentinel, Reconnect, WatchPut, vars, callVars
<1>10. QED
  BY <1>2, <1>3, <1>4, <1>6, <1>7, <1>8, <1>9, StepCases

LEMMA UpdateNotifies ==
  ASSUME TypeOK, NEW a \in Action, Update(a)
  PROVE  (Queued(CacheRef(a)) \/ watch = CacheRef(a))'
<1>1. PICK k \in Kind, r \in Ref, o \in Object :
           /\ r = [act |-> a, kind |-> k]
           /\ cache' = [cache EXCEPT ![a] = k]
           /\ Notify(r)
  BY UpdateEffect
<1>2. cache'[a] = k
  BY <1>1 DEF TypeOK
<1>3. CacheRef(a)' = r
  BY <1>1, <1>2 DEF CacheRef
<1>4. CASE queue' = Append(queue, r)
  BY <1>3, <1>4, PutReferences DEF Queued
<1>5. CASE watch' = r
  BY <1>3, <1>5
<1>6. QED
  BY <1>1, <1>4, <1>5 DEF Notify

LEMMA WakeInit == Init => WakeInv
<1> SUFFICES ASSUME Init PROVE WakeInv
  OBVIOUS
<1>1. \A a \in Action : sub[a] = "new" /\ stream[a] = IF Exists(a) THEN <<srv[a]>> ELSE <<>>
  BY DEF Init, Snapshot
<1>2. \A a \in Action : Exists(a) => stream[a] # <<>>
  BY <1>1, StreamFirst DEF Exists
<1>3. QED
  BY <1>1, <1>2 DEF WakeInv, ObservedKnown, EndedToken, NoLostWakeup

(* A caller that is waiting keeps the object its name stands for.          *)
LEMMA WaitingKept ==
  ASSUME TypeOK, RefInv', Moves, NEW a \in Action, sub[a] = "waiting", sub'[a] = "waiting"
  PROVE  /\ cache'[a] = cache[a] /\ cache[a] # "none" /\ CacheRef(a)' = CacheRef(a)
         /\ CacheRef(a) \in Ref /\ CacheRef(a).act = a /\ CacheRef(a).kind = cache[a]
         /\ cancel[a] \notin Marked /\ cancel'[a] \notin Marked
         /\ event'[a] = "clear" => event[a] = "clear"
<1>1. CallMove(a) /\ EventMove(a)
  BY DEF Moves, RefStep
<1>2. cache[a] # "none" /\ cache'[a] = cache[a]
  BY <1>1 DEF TypeOK, CallMove, Resting
<1>3. CacheRef(a) \in Ref /\ CacheRef(a).act = a /\ CacheRef(a).kind = cache[a]
  BY <1>2, RefTypes DEF TypeOK, CacheRef
<1>4. CacheRef(a)' = CacheRef(a)
  BY <1>2 DEF CacheRef
<1>5. cancel'[a] = "none"
  BY DEF RefInv, CancelledOnly
<1>6. cancel[a] \notin Marked /\ cancel'[a] \notin Marked
  BY <1>5 DEF Moves, RefStep, Marked
<1>7. QED
  BY <1>1, <1>2, <1>3, <1>4, <1>6 DEF EventMove

LEMMA ObservedKnownStep ==
  ASSUME TypeOK, TypeOK', RefInv, RefInv', StreamInv, WakeInv, Moves
  PROVE  ObservedKnown'
<1> SUFFICES ASSUME NEW a \in Action, sub'[a] \in {"new", "putting", "waiting"},
                    srv'[a] \in Live, stream'[a] = <<>>
             PROVE  /\ cache'[a] # "none" /\ obj'[CacheRef(a)'].started
                    /\ obj'[CacheRef(a)'].phase = srv'[a]
  BY DEF ObservedKnown, Exists
<1>1. CallMove(a)
  BY DEF Moves, RefStep
<1>2. stream[a] \in Seq(Live) /\ StreamOk(stream[a], srv[a])
  BY DEF TypeOK, StreamInv
<1>3. CASE Update(a)
  <2>1. srv' = srv /\ stream[a] # <<>> /\ stream'[a] = Tail(stream[a])
    BY <1>3, UpdateStream
  <2>2. Head(stream[a]) = srv[a]
    BY <1>2, <2>1, StreamTake
  <2>3. PICK k \in Kind, r \in Ref, o \in Object :
           r = [act |-> a, kind |-> k] /\ cache' = [cache EXCEPT ![a] = k]
    BY <1>3, UpdateEffect
  <2>4. cache'[a] = k /\ k # "none"
    BY <2>3 DEF TypeOK, Kind
  <2>5. r = CacheRef(a)' /\ r.act = a /\ r.kind = k
    BY <2>3, <2>4 DEF CacheRef
  <2>6. Observed(r)
    BY <1>3, <2>4, <2>5 DEF Observed
  <2>7. obj'[r].started /\ obj'[r].phase = Head(stream[a])
    BY <2>5, <2>6, ObservedFields DEF Moves
  <2>8. QED
    BY <2>1, <2>2, <2>4, <2>5, <2>7
<1>4. CASE srv'[a] = srv[a] /\ stream'[a] = stream[a] /\ ~Update(a)
  <2>1. sub[a] \in {"new", "putting", "waiting"}
    BY <1>1 DEF CallMove, Resting, TypeOK
  <2>2. cache[a] # "none" /\ obj[CacheRef(a)].started /\ obj[CacheRef(a)].phase = srv[a]
    BY <1>4, <2>1 DEF WakeInv, ObservedKnown, Exists
  <2>3. cache'[a] = cache[a]
    BY <1>1, <2>1, <2>2 DEF CallMove, Resting, CachedWins
  <2>4. CacheRef(a)' = CacheRef(a) /\ CacheRef(a) \in Ref /\ CacheRef(a).act = a
    BY <2>2, <2>3, RefTypes DEF TypeOK, CacheRef
  <2>5. ~Observed(CacheRef(a))
    BY <1>4, <2>4 DEF Observed
  <2>6. OtherMove(CacheRef(a))
    BY <2>4, <2>5 DEF Moves
  <2>7. cancel'[a] \notin Marked
    BY DEF RefInv, CancelledOnly, Marked
  <2>8. /\ obj'[CacheRef(a)].phase = obj[CacheRef(a)].phase
        /\ obj'[CacheRef(a)].started = obj[CacheRef(a)].started
    BY <2>4, <2>6, <2>7, OtherFields
  <2>9. QED
    BY <1>4, <2>2, <2>3, <2>4, <2>8
<1>5. CASE srv'[a] = srv[a] /\ stream'[a] = IF Exists(a) THEN <<srv[a]>> ELSE <<>>
  <2>1. stream'[a] = <<srv[a]>>
    BY <1>5 DEF Exists
  <2>2. QED
    BY <1>5, <2>1, StreamFirst
<1>6. CASE srv'[a] \in Live /\ stream'[a] = Append(stream[a], srv'[a])
  BY <1>2, <1>6, AppendFills
<1>7. QED
  BY <1>3, <1>4, <1>5, <1>6 DEF Moves, ServiceMove

(* A token for an object that has ended is passed on until it is fired.    *)
LEMMA FinalTokenMove ==
  ASSUME TypeOK, TypeOK', [Next]_vars, NEW r \in Ref, FinalToken(r),
         obj[r].started, obj[r].phase \in Terminal
  PROVE  \/ Queued(r)' \/ watch' = r
         \/ \E w \in Worker : wref'[w] = r /\ wpc'[w] = "firing"
         \/ event'[r.act] # "clear"
<1>1. CASE Queued(r)
  <2>1. ASSUME NEW w \in Worker, Take(w), Head(queue) = r
        PROVE  wref'[w] = r /\ wpc'[w] = "firing"
    <3>1. Todo(obj[r]) = "firing"
      BY DEF Todo
    <3>2. QED
      BY <2>1, <3>1 DEF Take, Suspend, TypeOK
  <2>2. QED
    BY <1>1, <2>1, QueuedMove
<1>2. CASE watch = r
  BY <1>2, WatchedMove
<1>3. CASE \E w \in Worker : wref[w] = r /\ wpc[w] = "firing"
  <2>1. PICK w \in Worker : wref[w] = r /\ wpc[w] = "firing"
    BY <1>3
  <2>2. ~EnqueueOk(w)
    BY <2>1 DEF EnqueueOk
  <2>3. Fire(w) => event'[r.act] # "clear"
    BY <2>1, RefTypes DEF Fire, Fired, TypeOK
  <2>4. QED
    BY <2>1, <2>2, <2>3, HeldMove
<1>4. QED
  BY <1>1, <1>2, <1>3 DEF FinalToken

LEMMA EndedTokenStep ==
  ASSUME TypeOK, TypeOK', RefInv, RefInv', WakeInv, Moves, [Next]_vars
  PROVE  EndedToken'
<1> SUFFICES ASSUME NEW a \in Action, sub'[a] = "waiting", event'[a] = "clear",
                    obj'[CacheRef(a)'].started, obj'[CacheRef(a)'].phase \in Terminal
             PROVE  FinalToken(CacheRef(a))'
  BY DEF EndedToken
<1>1. CASE sub[a] # "waiting"
  BY <1>1, NewWaiter DEF FinalToken, Queued
<1>2. CASE Update(a)
  BY <1>2, UpdateNotifies DEF FinalToken
<1>3. CASE sub[a] = "waiting" /\ ~Update(a)
  <2>1. /\ CacheRef(a)' = CacheRef(a) /\ CacheRef(a) \in Ref /\ CacheRef(a).act = a
        /\ cancel'[a] \notin Marked /\ event[a] = "clear"
    BY <1>3, WaitingKept
  <2> SUFFICES ASSUME NEW r \in Ref, r = CacheRef(a), r.act = a
               PROVE  FinalToken(CacheRef(a))'
    BY <2>1
  <2>2. OtherMove(r)
    BY <1>3 DEF Moves, Observed
  <2>3. obj[r].started /\ obj[r].phase \in Terminal
    BY <2>1, <2>2, OtherFields
  <2>4. FinalToken(r)
    BY <1>3, <2>1, <2>3 DEF WakeInv, EndedToken
  <2>5. \/ Queued(r)' \/ watch' = r
        \/ \E w \in Worker : wref'[w] = r /\ wpc'[w] = "firing"
    BY <2>3, <2>4, FinalTokenMove
  <2>6. QED
    BY <2>1, <2>5 DEF FinalToken, Queued
<1>4. QED
  BY <1>1, <1>2, <1>3

LEMMA OwedKept ==
  ASSUME TypeOK, NEW a \in Action, Owed(a), ServiceMove(a)
  PROVE  Owed(a)'
<1>1. Known("none", srv[a], stream[a])
  BY DEF Owed, Exists, Known, Terminal
<1>2. Known("none", srv'[a], stream'[a])
  BY <1>1, KnownMove
<1>3. QED
  BY <1>2 DEF Known, Owed, Exists, Terminal

LEMMA NoLostWakeupStep ==
  ASSUME TypeOK, TypeOK', RefInv, RefInv', ReportInv, WakeInv, Moves, [Next]_vars
  PROVE  NoLostWakeup'
<1> SUFFICES ASSUME NEW a \in Action, sub'[a] = "waiting", event'[a] = "clear"
             PROVE  Token(a)' \/ Owed(a)'
  BY DEF NoLostWakeup
<1>1. CASE sub[a] # "waiting"
  BY <1>1, NewWaiter DEF Token
<1>2. CASE Update(a)
  BY <1>2, UpdateNotifies DEF Token, Queued
<1>3. CASE sub[a] = "waiting" /\ ~Update(a)
  <2>1. /\ CacheRef(a)' = CacheRef(a) /\ CacheRef(a) \in Ref /\ CacheRef(a).act = a
        /\ cancel[a] \notin Marked /\ event[a] = "clear"
    BY <1>3, WaitingKept
  <2> SUFFICES ASSUME NEW r \in Ref, r = CacheRef(a), r = CacheRef(a)', r.act = a
               PROVE  Token(a)' \/ Owed(a)'
    BY <2>1
  <2>2. Referred(r) \/ Owed(a)
    BY <1>3, <2>1 DEF WakeInv, NoLostWakeup, Token, Referred, Queued, Held
  <2>3. Owed(a) => Owed(a)'
    BY <1>3, OwedKept DEF Moves
  <2>4. (Queued(r)' \/ watch' = r \/ \E w \in Worker : wref'[w] = r) => Token(a)'
    BY DEF Token, Queued
  <2>5. CASE Queued(r)
    <3>1. ASSUME NEW w \in Worker, Take(w), Head(queue) = r
          PROVE  wref'[w] = r \/ Owed(a)
      <4>1. CASE Todo(obj[r]) = "idle"
        <5>1. obj[r].started /\ obj[r].phase \notin Terminal
          BY <4>1 DEF Todo
        <5>2. Reported(r)
          BY <2>1, <5>1 DEF Reported
        <5>3. QED
          BY <5>1, <5>2 DEF ReportInv, ReportedTrue, Known, Owed, Exists
      <4>2. CASE Todo(obj[r]) # "idle"
        BY <3>1, <4>2 DEF Take, TypeOK
      <4>3. QED
        BY <4>1, <4>2
    <3>2. QED
      BY <2>3, <2>4, <2>5, <3>1, QueuedMove
  <2>6. CASE watch = r
    BY <2>4, <2>6, WatchedMove
  <2>7. CASE Held(r)
    <3>1. PICK w \in Worker : wref[w] = r
      BY <2>7 DEF Held
    <3>2. ASSUME Fire(w) PROVE FALSE
      BY <3>1, <3>2 DEF Fire, Fired, TypeOK
    <3>3. ASSUME EnqueueOk(w) PROVE Token(a)' \/ Owed(a)'
      <4>1. Exists(a) /\ wpc[w] = "enqueuing"
        BY <3>1, <3>3 DEF EnqueueOk
      <4>2. CASE Owed(a)
        BY <2>3, <4>2
      <4>3. CASE ~Owed(a)
        <5>1. srv[a] # "RUNNING" /\ stream[a] = <<>>
          BY <4>1, <4>3 DEF Owed
        <5>2. obj[r].started /\ obj[r].phase = srv[a]
          BY <1>3, <4>1, <5>1 DEF WakeInv, ObservedKnown
        <5>3. obj[r].phase \in Terminal
          BY <4>1, <5>1, <5>2 DEF Exists, Live
        <5>4. FinalToken(r)
          BY <1>3, <2>1, <5>2, <5>3 DEF WakeInv, EndedToken
        <5>5. \/ Queued(r)' \/ watch' = r
              \/ \E v \in Worker : wref'[v] = r /\ wpc'[v] = "firing"
          BY <5>2, <5>3, <5>4, FinalTokenMove
        <5>6. QED
          BY <2>4, <5>5
      <4>4. QED
        BY <4>2, <4>3
    <3>4. QED
      BY <2>4, <3>1, <3>2, <3>3, HeldMove
  <2>8. QED
    BY <2>2, <2>3, <2>5, <2>6, <2>7 DEF Referred
<1>4. QED
  BY <1>1, <1>2, <1>3

LEMMA NextWakes ==
  ASSUME TypeOK, TypeOK', LaunchInv, RefInv, StreamInv, ReportInv, WakeInv, [Next]_vars
  PROVE  WakeInv'
<1>1. Moves /\ RefInv'
  BY NextMoves, NextRefs
<1>2. QED
  BY <1>1, ObservedKnownStep, EndedTokenStep, NoLostWakeupStep DEF WakeInv

CallInv == TypeOK /\ LaunchInv /\ RefInv /\ StreamInv /\ ReportInv /\ WakeInv

LEMMA CallInvInit == Init => CallInv
BY InitTypes, LaunchInit, RefInit, StreamInit, ReportInit, WakeInit DEF CallInv

LEMMA CallInvNext == CallInv /\ [Next]_vars => CallInv'
BY NextTypes, NextKeeps, NextRefs, NextStreams, NextReports, NextWakes DEF CallInv

(* No lost wakeup, for every value of the constants: whenever a caller     *)
(* waits on a clear completion event, a reference to its object is in the  *)
(* queue, with a worker or with the watch, or the service owes the watch   *)
(* another report of the action.                                           *)
THEOREM NoLostWakeupAlways == Spec => []NoLostWakeup
<1>1. CallInv => NoLostWakeup
  BY DEF CallInv, WakeInv
<1>2. QED
  BY <1>1, CallInvInit, CallInvNext, PTL DEF Spec

-----------------------------------------------------------------------------
(* 8. The contract of SubActions.  A returned object is final, so what a   *)
(* returned call shows is a function of the service's state, and that does *)
(* not change any more.                                                    *)

CallOf(a) == CASE sub[a] = "new" -> "idle"
               [] sub[a] \in {"putting", "waiting"} -> "pending"
               [] OTHER -> sub[a]

OutcomeOf(a) == IF sub[a] # "returned" THEN "none"
                ELSE IF obj[[act |-> a, kind |-> ret[a]]].err THEN "error"
                ELSE obj[[act |-> a, kind |-> ret[a]]].phase

Calls    == [a \in Action |-> CallOf(a)]
Outcomes == [a \in Action |-> OutcomeOf(a)]

LEMMA CallValues ==
  ASSUME NEW a
  PROVE  /\ sub[a] = "new" => CallOf(a) = "idle"
         /\ sub[a] \in {"putting", "waiting"} => CallOf(a) = "pending"
         /\ sub[a] = "returned" => CallOf(a) = "returned"
         /\ sub[a] = "cancelled" => CallOf(a) = "cancelled"
BY DEF CallOf

LEMMA OutcomeValues ==
  ASSUME CallInv, NEW a \in Action
  PROVE  /\ sub[a] # "returned" => OutcomeOf(a) = "none"
         /\ sub[a] = "returned" =>
              /\ srv[a] \in Terminal \cup {"refused"}
              /\ srv[a] \in Terminal => OutcomeOf(a) = srv[a]
              /\ srv[a] = "refused" => OutcomeOf(a) = "error"
<1>1. sub[a] # "returned" => OutcomeOf(a) = "none"
  BY DEF OutcomeOf
<1>2. CASE sub[a] = "returned"
  <2>1. LET o == obj[[act |-> a, kind |-> ret[a]]] IN
          IF o.err THEN srv[a] = "refused" ELSE o.phase \in Terminal /\ o.phase = srv[a]
    BY <1>2 DEF CallInv, ReportInv, ReturnedFinal
  <2>2. "refused" \notin Terminal
    BY DEF Terminal
  <2>3. QED
    BY <1>2, <2>1, <2>2 DEF OutcomeOf
<1>3. QED
  BY <1>1, <1>2

LEMMA OutcomeKept ==
  ASSUME CallInv, CallInv', [Next]_vars, NEW a \in Action,
         sub'[a] = "returned" => sub[a] = "returned",
         sub[a] = "returned" => sub'[a] = "returned"
  PROVE  OutcomeOf(a)' = OutcomeOf(a)
<1>1. CASE sub[a] # "returned"
  BY <1>1 DEF OutcomeOf
<1>2. CASE sub[a] = "returned"
  <2>1. /\ srv[a] \in Terminal \cup {"refused"}
        /\ srv[a] \in Terminal => OutcomeOf(a) = srv[a]
        /\ srv[a] = "refused" => OutcomeOf(a) = "error"
    BY <1>2, OutcomeValues
  <2>2. /\ srv'[a] \in Terminal => OutcomeOf(a)' = srv'[a]
        /\ srv'[a] = "refused" => OutcomeOf(a)' = "error"
    <3>1. sub'[a] = "returned"
      BY <1>2
    <3>2. LET o == obj'[[act |-> a, kind |-> ret'[a]]] IN
            IF o.err THEN srv'[a] = "refused" ELSE o.phase \in Terminal /\ o.phase = srv'[a]
      BY <3>1 DEF CallInv, ReportInv, ReturnedFinal
    <3>3. "refused" \notin Terminal
      BY DEF Terminal
    <3>4. QED
      BY <3>1, <3>2, <3>3 DEF OutcomeOf
  <2>3. srv'[a] = srv[a]
    BY <2>1, ServiceFinal DEF CallInv
  <2>4. QED
    BY <2>1, <2>2, <2>3
<1>3. QED
  BY <1>1, <1>2

LEMMA OutcomesSame ==
  ASSUME CallInv, CallInv', [Next]_vars,
         \A a \in Action : sub'[a] = "returned" <=> sub[a] = "returned"
  PROVE  Outcomes' = Outcomes
<1>1. \A a \in Action : OutcomeOf(a)' = OutcomeOf(a)
  BY OutcomeKept
<1>2. QED
  BY <1>1 DEF Outcomes

(* The contract's steps, in the words of the controller.                   *)
LEMMA ContractSteps ==
  ASSUME \/ UNCHANGED <<Calls, Outcomes, srv>>
         \/ \E a \in Action :
              /\ Calls[a] = "idle" /\ Calls' = [Calls EXCEPT ![a] = "pending"]
              /\ UNCHANGED <<Outcomes, srv>>
         \/ \E a \in Action :
              /\ Calls[a] \in {"pending", "cancelled"} /\ srv[a] = "absent"
              /\ \E p \in {"RUNNING", "FINISHED"} : srv' = [srv EXCEPT ![a] = p]
              /\ UNCHANGED <<Calls, Outcomes>>
         \/ \E a \in Action :
              /\ srv[a] = "RUNNING" /\ srv' = [srv EXCEPT ![a] = "FINISHED"]
              /\ UNCHANGED <<Calls, Outcomes>>
         \/ \E a \in Action :
              /\ Calls[a] = "cancelled" /\ srv[a] = "RUNNING"
              /\ srv' = [srv EXCEPT ![a] = "ABORTED"]
              /\ UNCHANGED <<Calls, Outcomes>>
         \/ \E a \in Action :
              /\ Calls[a] = "pending"
              /\ \/ srv[a] \in Terminal /\ Outcomes' = [Outcomes EXCEPT ![a] = srv[a]]
                 \/ srv[a] = "refused" /\ Outcomes' = [Outcomes EXCEPT ![a] = "error"]
              /\ Calls' = [Calls EXCEPT ![a] = "returned"]
              /\ UNCHANGED srv
         \/ \E a \in Action :
              /\ Calls[a] = "pending" /\ Calls' = [Calls EXCEPT ![a] = "cancelled"]
              /\ UNCHANGED <<Outcomes, srv>>
  PROVE  [Contract!Next]_(Contract!vars)
BY DEF Contract!Next, Contract!vars, Contract!Call, Contract!Launch, Contract!End,
   Contract!Abort, Contract!Return, Contract!Cancel, Contract!Final, Terminal,
   Calls, Outcomes, CallOf, OutcomeOf

LEMMA ContractInit == Init => Contract!Init
<1> SUFFICES ASSUME Init PROVE Contract!Init
  OBVIOUS
<1>1. \A a \in Action : sub[a] = "new"
  BY DEF Init
<1>2. Calls = [a \in Action |-> "idle"]
  BY <1>1 DEF Calls, CallOf
<1>3. Outcomes = [a \in Action |-> "none"]
  BY <1>1 DEF Outcomes, OutcomeOf
<1>4. srv \in [Action -> {"absent", "refused", "RUNNING", "FINISHED"}]
  BY DEF Init
<1>5. QED
  BY <1>2, <1>3, <1>4 DEF Contract!Init, Calls, CallOf, Outcomes, OutcomeOf

(* The steps that move neither a call nor the service stutter.             *)
Hidden == /\ \A a \in Action : CallOf(a)' = CallOf(a)
          /\ \A a \in Action : sub'[a] = "returned" <=> sub[a] = "returned"
          /\ srv' = srv

LEMMA HiddenStutters ==
  ASSUME CallInv, CallInv', [Next]_vars, Hidden
  PROVE  UNCHANGED <<Calls, Outcomes, srv>>
<1>1. Outcomes' = Outcomes
  BY OutcomesSame DEF Hidden
<1>2. Calls' = Calls
  BY DEF Calls, Hidden
<1>3. QED
  BY <1>1, <1>2 DEF Hidden

LEMMA IdleHidden == ASSUME sub' = sub, srv' = srv PROVE Hidden
BY DEF Hidden, CallOf

(* A step of the services leaves the calls and what they have returned.    *)
LEMMA ServiceHidden ==
  ASSUME CallInv, CallInv', [Next]_vars, sub' = sub
  PROVE  UNCHANGED <<Calls, Outcomes>>
<1>1. Outcomes' = Outcomes
  BY OutcomesSame
<1>2. Calls' = Calls
  BY DEF Calls, CallOf
<1>3. QED
  BY <1>1, <1>2

(* One call moves and what it has returned does not.                       *)
LEMMA CallMoves ==
  ASSUME CallInv, CallInv', [Next]_vars, NEW a \in Action, NEW s,
         sub' = [sub EXCEPT ![a] = s], s \in {"putting", "waiting", "cancelled"},
         sub[a] # "returned", srv' = srv
  PROVE  /\ Calls' = [Calls EXCEPT ![a] = IF s = "cancelled" THEN s ELSE "pending"]
         /\ UNCHANGED <<Outcomes, srv>>
<1>1. sub'[a] = s /\ \A b \in Action \ {a} : sub'[b] = sub[b]
  BY DEF CallInv, TypeOK
<1>2. Outcomes' = Outcomes
  BY <1>1, OutcomesSame
<1>3. CallOf(a)' = IF s = "cancelled" THEN s ELSE "pending"
  BY <1>1 DEF CallOf
<1>4. \A b \in Action \ {a} : CallOf(b)' = CallOf(b)
  BY <1>1 DEF CallOf
<1>5. QED
  BY <1>2, <1>3, <1>4 DEF Calls

LEMMA ReturnedCall ==
  ASSUME CallInv, NEW a \in Action, Return(a)
  PROVE  /\ Calls[a] = "pending" /\ Calls' = [Calls EXCEPT ![a] = "returned"]
         /\ \A b \in Action \ {a} : sub'[b] = sub[b]
         /\ sub[a] = "waiting" /\ sub'[a] = "returned" /\ srv' = srv
<1>1. sub[a] = "waiting" /\ sub' = [sub EXCEPT ![a] = "returned"] /\ srv' = srv
  BY DEF Return
<1>2. sub'[a] = "returned" /\ \A b \in Action \ {a} : sub'[b] = sub[b]
  BY <1>1 DEF CallInv, TypeOK
<1>3. CallOf(a) = "pending" /\ CallOf(a)' = "returned"
  BY <1>1, <1>2 DEF CallOf
<1>4. \A b \in Action \ {a} : CallOf(b)' = CallOf(b)
  BY <1>2 DEF CallOf
<1>5. Calls[a] = "pending" /\ Calls' = [Calls EXCEPT ![a] = "returned"]
  BY <1>3, <1>4 DEF Calls
<1>6. QED
  BY <1>1, <1>2, <1>5

LEMMA ReturnStep ==
  ASSUME CallInv, CallInv', [Next]_vars, NEW a \in Action, Return(a)
  PROVE  /\ Calls[a] = "pending" /\ Calls' = [Calls EXCEPT ![a] = "returned"]
         /\ \/ srv[a] \in Terminal /\ Outcomes' = [Outcomes EXCEPT ![a] = srv[a]]
            \/ srv[a] = "refused" /\ Outcomes' = [Outcomes EXCEPT ![a] = "error"]
         /\ UNCHANGED srv
<1>1. /\ Calls[a] = "pending" /\ Calls' = [Calls EXCEPT ![a] = "returned"]
      /\ \A b \in Action \ {a} : sub'[b] = sub[b]
      /\ sub'[a] = "returned" /\ srv' = srv
  BY ReturnedCall
<1>2. \A b \in Action \ {a} : OutcomeOf(b)' = OutcomeOf(b)
  BY <1>1, OutcomeKept
<1>3. LET o == obj'[[act |-> a, kind |-> ret'[a]]] IN
        IF o.err THEN srv'[a] = "refused" ELSE o.phase \in Terminal /\ o.phase = srv'[a]
  BY <1>1 DEF CallInv, ReportInv, ReturnedFinal
<1>4. \/ srv[a] \in Terminal /\ OutcomeOf(a)' = srv[a]
      \/ srv[a] = "refused" /\ OutcomeOf(a)' = "error"
  BY <1>1, <1>3 DEF OutcomeOf
<1>5. \A x : OutcomeOf(a)' = x => Outcomes' = [Outcomes EXCEPT ![a] = x]
  BY <1>2 DEF Outcomes
<1>6. QED
  BY <1>1, <1>4, <1>5

(* A request on its way belongs to a call, and not to a returned one: what *)
(* has been returned is on record.                                         *)
LEMMA AcceptStep ==
  ASSUME CallInv, CallInv', [Next]_vars, NEW a \in Action, Accept(a)
  PROVE  \/ UNCHANGED <<Calls, Outcomes, srv>>
         \/ /\ Calls[a] \in {"pending", "cancelled"} /\ srv[a] = "absent"
            /\ \E p \in {"RUNNING", "FINISHED"} : srv' = [srv EXCEPT ![a] = p]
            /\ UNCHANGED <<Calls, Outcomes>>
<1>1. sub' = sub /\ a \in net
  BY DEF Accept, callVars
<1>2. UNCHANGED <<Calls, Outcomes>>
  BY <1>1, ServiceHidden
<1>3. CASE srv[a] # "absent"
  BY <1>2, <1>3 DEF Accept
<1>4. CASE srv[a] = "absent"
  <2>1. \E p \in {"RUNNING", "FINISHED"} : srv' = [srv EXCEPT ![a] = p]
    BY <1>4 DEF Accept
  <2>2. sub[a] # "new"
    BY <1>1 DEF CallInv, RefInv, NewUntouched
  <2>3. sub[a] # "returned"
    BY <1>4, OutcomeValues DEF Terminal
  <2>4. sub[a] \in {"putting", "waiting", "cancelled"}
    BY <2>2, <2>3 DEF CallInv, TypeOK
  <2>5. Calls[a] \in {"pending", "cancelled"}
    BY <2>4, CallValues DEF Calls
  <2>6. QED
    BY <1>2, <1>4, <2>1, <2>5
<1>5. QED
  BY <1>3, <1>4

LEMMA AbortStep ==
  ASSUME CallInv, CallInv', [Next]_vars, NEW a \in Action, AbortReplies(a)
  PROVE  \/ UNCHANGED <<Calls, Outcomes, srv>>
         \/ /\ Calls[a] = "cancelled" /\ srv[a] = "RUNNING"
            /\ srv' = [srv EXCEPT ![a] = "ABORTED"]
            /\ UNCHANGED <<Calls, Outcomes>>
<1>1. sub' = sub /\ cancel[a] = "aborting"
  BY DEF AbortReplies
<1>2. UNCHANGED <<Calls, Outcomes>>
  BY <1>1, ServiceHidden
<1>3. sub[a] = "cancelled"
  BY <1>1 DEF CallInv, RefInv, CancelledOnly
<1>4. Calls[a] = "cancelled"
  BY <1>3, CallValues DEF Calls
<1>5. QED
  BY <1>2, <1>4 DEF AbortReplies

LEMMA CallsStep ==
  ASSUME CallInv, CallInv', [Next]_vars, NEW a \in Action,
         Submit(a) \/ SubmitPut(a) \/ CancelSubmit(a)
  PROVE  \/ UNCHANGED <<Calls, Outcomes, srv>>
         \/ /\ Calls[a] = "idle" /\ Calls' = [Calls EXCEPT ![a] = "pending"]
            /\ UNCHANGED <<Outcomes, srv>>
         \/ /\ Calls[a] = "pending" /\ Calls' = [Calls EXCEPT ![a] = "cancelled"]
            /\ UNCHANGED <<Outcomes, srv>>
<1>1. CASE Submit(a)
  <2>1. sub[a] = "new" /\ srv' = srv
    BY <1>1 DEF Submit
  <2>2. sub' = [sub EXCEPT ![a] = "waiting"] \/ sub' = [sub EXCEPT ![a] = "putting"]
    BY <1>1 DEF Submit
  <2>3. Calls' = [Calls EXCEPT ![a] = "pending"] /\ UNCHANGED <<Outcomes, srv>>
    BY <2>1, <2>2, CallMoves
  <2>4. Calls[a] = "idle"
    BY <2>1, CallValues DEF Calls
  <2>5. QED
    BY <2>3, <2>4
<1>2. CASE SubmitPut(a)
  <2>1. sub[a] = "putting" /\ sub' = [sub EXCEPT ![a] = "waiting"] /\ srv' = srv
    BY <1>2 DEF SubmitPut
  <2>2. sub'[a] = "waiting" /\ \A b \in Action \ {a} : sub'[b] = sub[b]
    BY <2>1 DEF CallInv, TypeOK
  <2>3. \A b \in Action : CallOf(b)' = CallOf(b)
    BY <2>1, <2>2 DEF CallOf
  <2>4. QED
    BY <2>1, <2>2, <2>3, HiddenStutters DEF Hidden
<1>3. CASE CancelSubmit(a)
  <2>1. sub[a] \in {"putting", "waiting"} /\ sub' = [sub EXCEPT ![a] = "cancelled"] /\ srv' = srv
    BY <1>3 DEF CancelSubmit
  <2>2. Calls' = [Calls EXCEPT ![a] = "cancelled"] /\ UNCHANGED <<Outcomes, srv>>
    BY <2>1, CallMoves
  <2>3. Calls[a] = "pending"
    BY <2>1, CallValues DEF Calls
  <2>4. QED
    BY <2>2, <2>3
<1>4. QED
  BY <1>1, <1>2, <1>3

LEMMA ContractNext ==
  ASSUME CallInv, CallInv', [Next]_vars
  PROVE  [Contract!Next]_(Contract!vars)
<1>1. CASE StartInformer \/ SyncTimeout \/ Sentinel \/ Reconnect \/ WatchPut
  BY <1>1, IdleHidden, HiddenStutters, ContractSteps
     DEF StartInformer, SyncTimeout, Sentinel, Reconnect, WatchPut, callVars
<1>2. ASSUME NEW a \in Action, Submit(a) \/ SubmitPut(a) \/ CancelSubmit(a)
      PROVE  [Contract!Next]_(Contract!vars)
  BY <1>2, CallsStep, ContractSteps
<1>3. ASSUME NEW a \in Action, Return(a) PROVE [Contract!Next]_(Contract!vars)
  BY <1>3, ReturnStep, ContractSteps
<1>4. ASSUME NEW a \in Action, AbortReplies(a) PROVE [Contract!Next]_(Contract!vars)
  BY <1>4, AbortStep, ContractSteps
<1>5. ASSUME NEW a \in Action, BeginCancel(a) \/ AbortFails(a) \/ Update(a)
      PROVE  [Contract!Next]_(Contract!vars)
  <2>1. sub' = sub /\ srv' = srv
    BY <1>5 DEF BeginCancel, AbortFails, Update, callVars
  <2>2. QED
    BY <2>1, IdleHidden, HiddenStutters, ContractSteps
<1>6. ASSUME NEW a \in Action, Accept(a) PROVE [Contract!Next]_(Contract!vars)
  BY <1>6, AcceptStep, ContractSteps
<1>7. ASSUME NEW a \in Action, End(a) PROVE [Contract!Next]_(Contract!vars)
  <2>1. sub' = sub /\ srv[a] = "RUNNING" /\ srv' = [srv EXCEPT ![a] = "FINISHED"]
    BY <1>7 DEF End, callVars
  <2>2. UNCHANGED <<Calls, Outcomes>>
    BY <2>1, ServiceHidden
  <2>3. QED
    BY <2>1, <2>2, ContractSteps
<1>8. ASSUME NEW w \in Worker,
             \/ Take(w) \/ Send(w) \/ EnqueueOk(w) \/ EnqueueRefused(w)
             \/ EnqueueFails(w) \/ Requeue(w) \/ Fire(w)
      PROVE  [Contract!Next]_(Contract!vars)
  <2>1. sub' = sub /\ srv' = srv
    BY <1>8 DEF Take, Send, EnqueueOk, EnqueueRefused, EnqueueFails, Requeue, Fire, callVars
  <2>2. QED
    BY <2>1, IdleHidden, HiddenStutters, ContractSteps
<1>9. CASE UNCHANGED vars
  BY <1>9, IdleHidden, HiddenStutters, ContractSteps DEF vars
<1>10. QED
  BY <1>1, <1>2, <1>3, <1>4, <1>5, <1>6, <1>7, <1>8, <1>9, StepCases

(* The controller implements what SubActions promises, for every number of *)
(* actions and workers, every size of the queue and every bound on faults, *)
(* retries and reconnects: each of its steps is a step of the contract or  *)
(* leaves what the contract speaks of alone.                               *)
THEOREM ImplementsContractAlways == Spec => ImplementsContract
<1>1. CallInv /\ CallInv' /\ [Next]_vars => [Contract!Next]_(Contract!vars)
  BY ContractNext
<1>2. QED
  BY <1>1, ContractInit, CallInvInit, CallInvNext, PTL
     DEF Spec, ImplementsContract, Contract!Spec
=============================================================================
