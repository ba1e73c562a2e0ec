------------------------------ MODULE Controller ------------------------------
(***************************************************************************)
(* The remote controller of one parent action: the pool of workers that    *)
(* launches sub-actions on the queue service (_core.py, class Controller), *)
(* the informer that watches their state (_informer.py) and the in-memory  *)
(* actions both of them share (_action.py).                                *)
(*                                                                         *)
(* All of it runs as coroutines of one event loop, so a step below is what *)
(* a coroutine does between two awaits that can suspend it.  Taking an     *)
(* uncontended asyncio lock, and putting into a queue that has room, do    *)
(* not suspend.                                                            *)
(*                                                                         *)
(* Objects have identity.  An action name can be represented by the object *)
(* the parent submitted ("own"), by the one the watch created before the   *)
(* submit ("seen", a recovery), and by the one the watch creates after the *)
(* submit has removed the name from the cache ("late").                    *)
(***************************************************************************)
EXTENDS Naturals, Sequences

CONSTANTS
  Action,       \* names of the sub-actions the parent submits, each once
  Trace,        \* those of type "trace" (already run by the parent)
  Recoverable,  \* those an earlier attempt of the parent may have launched
  Worker,       \* the coroutines of the worker pool
  NoRef,        \* no object
  QueueSize,    \* maxsize of the shared queue (10000 in the code)
  MaxRetries,   \* _max_retries, the system retries of one action
  MaxFaults,    \* bound: failed calls to the queue service
  MaxReconnects \* bound: restarts of the watch stream

Kind == {"own", "seen", "late"}
Ref  == [act : Action, kind : Kind]

ASSUME ConstantsAssumption ==
  /\ Trace \subseteq Action /\ Recoverable \subseteq Action
  /\ NoRef \notin Ref
  /\ QueueSize \in Nat \ {0} /\ MaxRetries \in Nat
  /\ MaxFaults \in Nat /\ MaxReconnects \in Nat

(* Phases, as far as this code tells them apart: PHASE_FAILED, SUCCEEDED   *)
(* and TIMED_OUT are all "FINISHED"; the live phases are all "RUNNING".    *)
Terminal == {"FINISHED", "ABORTED"}
Live     == Terminal \cup {"RUNNING"}
Phase    == Live \cup {"none"}
Object   == [phase : Phase, started : BOOLEAN, task : BOOLEAN, err : BOOLEAN]

VARIABLES
  obj,        \* the Action objects: phase, started, task spec present, client_err
  cache,      \* ActionCache._cache: which object the name maps to
  event,      \* ActionCache._completion_events: none, clear or set
  queue,      \* Controller._shared_queue
  wpc, wref,  \* each worker: where it is suspended and the object it holds
  retries,    \* Action.retries
  alive,      \* the worker pool (and with it the event loop) is running
  sub, ret,   \* each submit_action: where it is, and the object it returned
  cancel,     \* each cancel_action: where it is
  sync,       \* start-up of the informer, during which its cache lock is held
  watch,      \* the object the watch is blocked on putting, or NoRef
  srv,        \* what the services hold for an action name
  stream,     \* state updates on their way to the watch
  net,        \* actions with an EnqueueAction request on its way
  faults, reconnects

vars == <<obj, cache, event, queue, wpc, wref, retries, alive, sub, ret, cancel,
          sync, watch, srv, stream, net, faults, reconnects>>

workerVars == <<wpc, wref, retries, alive>>
callVars   == <<sub, ret, cancel>>
watchVars  == <<sync, watch, stream, reconnects>>

Exists(a)   == srv[a] \in Live
CacheRef(a) == [act |-> a, kind |-> cache[a]]
Ready       == sync \in {"synced", "timedout"}

RoomOffByOne == Len(queue) <= QueueSize
Room         == Len(queue) < QueueSize

Fired(e) == IF e = "none" THEN "none" ELSE "set"

(* The watch is told the present state of every action when it connects.   *)
Snapshot == [a \in Action |-> IF Exists(a) THEN <<srv[a]>> ELSE <<>>]

Submitted(a) == [phase   |-> IF a \in Trace THEN "FINISHED" ELSE "none",
                 started |-> FALSE, task |-> a \notin Trace, err |-> FALSE]

Init ==
  /\ obj = [r \in Ref |-> Submitted(r.act)]
  /\ cache = [a \in Action |-> "none"]
  /\ event = [a \in Action |-> "none"]
  /\ queue = <<>>
  /\ wpc = [w \in Worker |-> "idle"]
  /\ wref = [w \in Worker |-> NoRef]
  /\ retries = [a \in Action |-> 0]
  /\ alive = TRUE
  /\ sub = [a \in Action |-> "new"]
  /\ ret = [a \in Action |-> "none"]
  /\ cancel = [a \in Action |-> "none"]
  /\ sync = "off"
  /\ watch = NoRef
  /\ srv \in [Action -> {"absent", "refused", "RUNNING", "FINISHED"}]
  /\ \A a \in Action : Exists(a) => a \in Recoverable
  /\ stream = Snapshot
  /\ net = {}
  /\ faults = 0
  /\ reconnects = 0

-----------------------------------------------------------------------------
(* Action: the transitions of one object.                                  *)

merge_state_NotStarted(o, p) == [o EXCEPT !.phase = p]
merge_state(o, p) == [o EXCEPT !.phase = p, !.started = TRUE]

from_state(p) == [phase |-> p, started |-> TRUE, task |-> FALSE, err |-> FALSE]

mark_cancelled(o) == [o EXCEPT !.phase = "ABORTED", !.started = TRUE, !.task = FALSE]

-----------------------------------------------------------------------------
(* submit_action.                                                          *)

(* The first caller of get_or_create starts the informer; until it is      *)
(* synced, or the timeout is over, it holds the lock of the InformerCache. *)
StartInformer ==
  /\ alive /\ sync = "off"
  /\ sync' = "starting"
  /\ UNCHANGED <<obj, cache, event, queue, workerVars, callVars, watch, stream,
                 reconnects, srv, net, faults>>

SyncTimeout ==
  /\ alive /\ sync = "starting"
  /\ sync' = "timedout"
  /\ UNCHANGED <<obj, cache, event, queue, workerVars, callVars, watch, stream,
                 reconnects, srv, net, faults>>

(* ActionCache.submit, and the put that follows: the object in the cache   *)
(* wins over the one submitted.                                            *)
SubmittedWins(a) == "own"
CachedWins(a)    == IF cache[a] = "none" THEN "own" ELSE cache[a]

Submit(a) ==
  LET kind == CachedWins(a) IN
  /\ alive /\ Ready /\ sub[a] = "new"
  /\ cache' = [cache EXCEPT ![a] = kind]
  /\ event' = [event EXCEPT ![a] = IF @ = "none" THEN "clear" ELSE @]
  /\ \/ /\ Room
        /\ queue' = Append(queue, [act |-> a, kind |-> kind])
        /\ sub' = [sub EXCEPT ![a] = "waiting"]
     \/ /\ ~Room
        /\ sub' = [sub EXCEPT ![a] = "putting"]
        /\ UNCHANGED queue
  /\ UNCHANGED <<obj, workerVars, ret, cancel, watchVars, srv, net, faults>>

SubmitPut(a) ==
  /\ alive /\ sub[a] = "putting" /\ Room
  /\ queue' = Append(queue, CacheRef(a))
  /\ sub' = [sub EXCEPT ![a] = "waiting"]
  /\ UNCHANGED <<obj, cache, event, workerVars, ret, cancel, watchVars, srv, net, faults>>

(* The completion event is set: read the final object and forget the name. *)
Return(a) ==
  /\ alive /\ sub[a] = "waiting" /\ event[a] = "set"
  /\ ret' = [ret EXCEPT ![a] = cache[a]]
  /\ cache' = [cache EXCEPT ![a] = "none"]
  /\ sub' = [sub EXCEPT ![a] = "returned"]
  /\ UNCHANGED <<obj, event, queue, workerVars, cancel, watchVars, srv, net, faults>>

(* The parent's coroutine is cancelled while it awaits submit_action; for  *)
(* a task it then calls cancel_action.                                     *)
CancelSubmit(a) ==
  /\ alive /\ sub[a] \in {"putting", "waiting"}
  /\ sub' = [sub EXCEPT ![a] = "cancelled"]
  /\ cancel' = [cancel EXCEPT ![a] = IF a \in Trace THEN "none" ELSE "called"]
  /\ UNCHANGED <<obj, cache, event, queue, workerVars, ret, watchVars, srv, net, faults>>

-----------------------------------------------------------------------------
(* cancel_action, on the parent's own object.                              *)

OwnRef(a) == [act |-> a, kind |-> "own"]

BeginCancel(a) ==
  LET own == obj[OwnRef(a)] IN
  /\ alive /\ cancel[a] = "called"
  /\ \/ /\ own.phase \in Terminal
        /\ cancel' = [cancel EXCEPT ![a] = "skipped"]
        /\ UNCHANGED <<obj, event>>
     \/ /\ own.phase \notin Terminal /\ own.started
        /\ obj' = [obj EXCEPT ![OwnRef(a)] = mark_cancelled(own)]
        /\ cancel' = [cancel EXCEPT ![a] = "aborting"]
        /\ UNCHANGED event
     \/ /\ own.phase \notin Terminal /\ ~own.started
        /\ obj' = [obj EXCEPT ![OwnRef(a)] = mark_cancelled(own)]
        /\ event' = [event EXCEPT ![a] = Fired(@)]
        /\ cancel' = [cancel EXCEPT ![a] = "dropped"]
  /\ UNCHANGED <<cache, queue, workerVars, sub, ret, watchVars, srv, net, faults>>

(* AbortQueuedAction answers OK, NOT_FOUND or FAILED_PRECONDITION.         *)
AbortReplies(a) ==
  /\ alive /\ cancel[a] = "aborting"
  /\ cancel' = [cancel EXCEPT ![a] = "aborted"]
  /\ \/ /\ srv[a] = "RUNNING"
        /\ srv' = [srv EXCEPT ![a] = "ABORTED"]
        /\ stream' = [stream EXCEPT ![a] = Append(@, "ABORTED")]
        /\ event' = [event EXCEPT ![a] = Fired(@)]
     \/ /\ srv[a] # "RUNNING"
        /\ UNCHANGED <<srv, stream, event>>
  /\ UNCHANGED <<obj, cache, queue, workerVars, sub, ret, sync, watch, reconnects,
                 net, faults>>

(* Any other error of AbortQueuedAction is swallowed and never retried.    *)
AbortFails(a) ==
  /\ alive /\ cancel[a] = "aborting" /\ faults < MaxFaults
  /\ faults' = faults + 1
  /\ event' = [event EXCEPT ![a] = Fired(@)]
  /\ cancel' = [cancel EXCEPT ![a] = "aborted"]
  /\ UNCHANGED <<obj, cache, queue, workerVars, sub, ret, watchVars, srv, net>>

-----------------------------------------------------------------------------
(* The worker pool.                                                        *)

Suspend(w, pc) == wpc' = [wpc EXCEPT ![w] = pc]

Finish(w) == Suspend(w, "idle") /\ wref' = [wref EXCEPT ![w] = NoRef]

(* _bg_process: what the state of an object calls for.                     *)
TodoTerminalFirst(o) == IF o.phase \in Terminal THEN "firing"
                        ELSE IF ~o.started THEN "limiter" ELSE "idle"
TodoAnyPhase(o)      == IF ~o.started THEN "limiter" ELSE "firing"
Todo(o)              == IF ~o.started THEN "limiter"
                        ELSE IF o.phase \in Terminal THEN "firing" ELSE "idle"

Take(w) ==
  LET r == Head(queue) IN
  /\ alive /\ wpc[w] = "idle" /\ queue # <<>>
  /\ queue' = Tail(queue)
  /\ Suspend(w, Todo(obj[r]))
  /\ wref' = [wref EXCEPT ![w] = IF Todo(obj[r]) = "idle" THEN NoRef ELSE r]
  /\ UNCHANGED <<obj, cache, event, retries, alive, callVars, watchVars, srv, net, faults>>

FailAction(w) ==
  /\ obj' = [obj EXCEPT ![wref[w]].err = TRUE]
  /\ Suspend(w, "firing")

(* The rate limiter lets the worker go on: a task whose spec is gone in    *)
(* the meantime fails, everything else is sent.                            *)
SpecUnchecked(r) == FALSE
SpecGone(r)      == r.act \notin Trace /\ ~obj[r].task

Send(w) ==
  LET a == wref[w].act IN
  /\ alive /\ wpc[w] = "limiter"
  /\ \/ /\ SpecGone(wref[w])
        /\ FailAction(w)
        /\ UNCHANGED net
     \/ /\ ~SpecGone(wref[w])
        /\ Suspend(w, "enqueuing")
        /\ net' = net \cup {a}
        /\ UNCHANGED obj
  /\ UNCHANGED <<cache, event, queue, wref, retries, alive, callVars, watchVars, srv, faults>>

(* EnqueueAction answers OK or ALREADY_EXISTS: go on, the watch will tell. *)
EnqueueOk(w) ==
  LET a == wref[w].act IN
  /\ alive /\ wpc[w] = "enqueuing" /\ a \notin net /\ Exists(a)
  /\ Finish(w)
  /\ UNCHANGED <<obj, cache, event, queue, retries, alive, callVars, watchVars, srv, net, faults>>

(* ... or FAILED_PRECONDITION, INVALID_ARGUMENT, NOT_FOUND.                *)
EnqueueRefused(w) ==
  LET a == wref[w].act IN
  /\ alive /\ wpc[w] = "enqueuing" /\ a \notin net /\ srv[a] = "refused"
  /\ FailAction(w)
  /\ UNCHANGED <<cache, event, queue, wref, retries, alive, callVars, watchVars, srv, net, faults>>

(* ... or anything else (a timeout, say), whether or not the request has   *)
(* reached the service or still will.  An action out of retries takes the  *)
(* worker, the task group of the pool and the event loop down with it.     *)
EnqueueFails(w) ==
  LET a == wref[w].act IN
  /\ alive /\ wpc[w] = "enqueuing" /\ faults < MaxFaults
  /\ faults' = faults + 1
  /\ net' \in {net, net \ {a}}
  /\ retries' = [retries EXCEPT ![a] = @ + 1]
  /\ \/ retries[a] < MaxRetries /\ Suspend(w, "backoff") /\ UNCHANGED alive
     \/ retries[a] >= MaxRetries /\ alive' = FALSE /\ Suspend(w, "dead")
  /\ UNCHANGED <<obj, cache, event, queue, wref, callVars, watchVars, srv>>

(* The backoff is over: put the action back.                               *)
RequeueForgotten(w) ==
  /\ alive /\ wpc[w] = "backoff"
  /\ Finish(w)
  /\ UNCHANGED <<obj, cache, event, queue, retries, alive, callVars, watchVars, srv, net, faults>>

Requeue(w) ==
  /\ alive /\ wpc[w] \in {"backoff", "requeuing"}
  /\ \/ /\ Room
        /\ queue' = Append(queue, wref[w])
        /\ Finish(w)
     \/ /\ ~Room /\ wpc[w] = "backoff"
        /\ Suspend(w, "requeuing")
        /\ UNCHANGED <<queue, wref>>
  /\ UNCHANGED <<obj, cache, event, retries, alive, callVars, watchVars, srv, net, faults>>

(* InformerCache.get has its lock: set the completion event, if any.       *)
Fire(w) ==
  LET a == wref[w].act IN
  /\ alive /\ wpc[w] = "firing" /\ Ready
  /\ event' = [event EXCEPT ![a] = Fired(@)]
  /\ Finish(w)
  /\ UNCHANGED <<obj, cache, queue, retries, alive, callVars, watchVars, srv, net, faults>>

-----------------------------------------------------------------------------
(* The watch of the informer.                                              *)

(* The put that follows observe_state.                                     *)
NotifyPhaseChange(r) ==
  IF obj'[r].phase = obj[r].phase THEN UNCHANGED <<queue, watch>>
  ELSE \/ Room /\ queue' = Append(queue, r) /\ UNCHANGED watch
       \/ ~Room /\ watch' = r /\ UNCHANGED queue

Notify(r) ==
  \/ Room /\ queue' = Append(queue, r) /\ UNCHANGED watch
  \/ ~Room /\ watch' = r /\ UNCHANGED queue

(* observe_state merges into the object in the cache, or makes a new one.  *)
Update(a) ==
  LET p    == Head(stream[a])
      kind == IF cache[a] # "none" THEN cache[a]
              ELSE IF obj[[act |-> a, kind |-> "seen"]].started THEN "late" ELSE "seen"
      r    == [act |-> a, kind |-> kind] IN
  /\ alive /\ sync # "off" /\ watch = NoRef /\ stream[a] # <<>>
  /\ stream' = [stream EXCEPT ![a] = Tail(@)]
  /\ cache' = [cache EXCEPT ![a] = kind]
  /\ obj' = [obj EXCEPT ![r] = IF cache[a] # "none" THEN merge_state(@, p) ELSE from_state(p)]
  /\ Notify(r)
  /\ UNCHANGED <<event, workerVars, callVars, sync, reconnects, srv, net, faults>>

WatchPut ==
  /\ alive /\ watch # NoRef /\ Room
  /\ queue' = Append(queue, watch)
  /\ watch' = NoRef
  /\ UNCHANGED <<obj, cache, event, workerVars, callVars, sync, stream, reconnects,
                 srv, net, faults>>

(* The sentinel follows the states the service had when the watch began.   *)
Sentinel ==
  /\ alive /\ sync = "starting" /\ watch = NoRef
  /\ \A a \in Action : Exists(a) => cache[a] # "none"
  /\ sync' = "synced"
  /\ UNCHANGED <<obj, cache, event, queue, workerVars, callVars, watch, stream,
                 reconnects, srv, net, faults>>

(* The stream breaks, or ends; the watch is opened again.                  *)
Reconnect ==
  /\ alive /\ sync # "off" /\ watch = NoRef /\ reconnects < MaxReconnects
  /\ reconnects' = reconnects + 1
  /\ stream' = Snapshot
  /\ UNCHANGED <<obj, cache, event, queue, workerVars, callVars, sync, watch, srv, net, faults>>

-----------------------------------------------------------------------------
(* The queue service and the state service (external).                     *)

(* An EnqueueAction request arrives; a known name is left alone.           *)
Accept(a) ==
  /\ a \in net
  /\ net' = net \ {a}
  /\ \/ /\ srv[a] = "absent"
        /\ \E p \in IF a \in Trace THEN {"FINISHED"} ELSE {"RUNNING"} :
             /\ srv' = [srv EXCEPT ![a] = p]
             /\ stream' = [stream EXCEPT ![a] = Append(@, p)]
     \/ /\ srv[a] # "absent"
        /\ UNCHANGED <<srv, stream>>
  /\ UNCHANGED <<obj, cache, event, queue, workerVars, callVars, sync, watch, reconnects, faults>>

(* A running action ends by itself.                                        *)
End(a) ==
  /\ srv[a] = "RUNNING"
  /\ srv' = [srv EXCEPT ![a] = "FINISHED"]
  /\ stream' = [stream EXCEPT ![a] = Append(@, "FINISHED")]
  /\ UNCHANGED <<obj, cache, event, queue, workerVars, callVars, sync, watch, reconnects,
                 net, faults>>

-----------------------------------------------------------------------------
Stopped == /\ \/ ~alive
              \/ \A a \in Action : sub[a] \in {"returned", "cancelled"}
           /\ UNCHANGED vars

CallStep(a)   == Submit(a) \/ SubmitPut(a) \/ Return(a) \/ BeginCancel(a)
                   \/ AbortReplies(a) \/ AbortFails(a)
WorkerStep(w) == Take(w) \/ Send(w) \/ EnqueueOk(w) \/ EnqueueRefused(w)
                   \/ EnqueueFails(w) \/ Requeue(w) \/ Fire(w)
ServiceStep(a) == Accept(a) \/ End(a)

Next ==
  \/ StartInformer \/ SyncTimeout \/ Sentinel \/ Reconnect \/ WatchPut
  \/ \E a \in Action : CallStep(a) \/ CancelSubmit(a) \/ Update(a) \/ ServiceStep(a)
  \/ \E w \in Worker : WorkerStep(w)
  \/ Stopped

Spec == Init /\ [][Next]_vars

(* The event loop runs every coroutine that is ready; the services answer, *)
(* and the actions they run end.                                           *)
Fairness ==
  /\ WF_vars(StartInformer) /\ WF_vars(SyncTimeout \/ Sentinel) /\ WF_vars(WatchPut)
  /\ \A a \in Action : /\ WF_vars(CallStep(a)) /\ WF_vars(Update(a))
                       /\ WF_vars(Accept(a)) /\ WF_vars(End(a))
  /\ \A w \in Worker : WF_vars(WorkerStep(w))

FairSpec == Spec /\ Fairness
-----------------------------------------------------------------------------
(* Types.                                                                  *)

WorkerPc == {"idle", "limiter", "enqueuing", "backoff", "requeuing", "firing", "dead"}

(* Every variable ranges over the values the classes allow; an idle worker *)
(* (Controller._bg_run at its queue.get) holds no object and a busy one    *)
(* does, the shared queue is never longer than its maxsize, and a name that *)
(* is waited for is in the cache ("Action ... not found" is never raised). *)
TypeOK ==
  /\ obj \in [Ref -> Object]
  /\ cache \in [Action -> Kind \cup {"none"}]
  /\ event \in [Action -> {"none", "clear", "set"}]
  /\ queue \in Seq(Ref) /\ Len(queue) <= QueueSize
  /\ wpc \in [Worker -> WorkerPc]
  /\ wref \in [Worker -> Ref \cup {NoRef}]
  /\ \A w \in Worker : wpc[w] = "idle" <=> wref[w] = NoRef
  /\ retries \in [Action -> Nat]
  /\ alive \in BOOLEAN
  /\ sub \in [Action -> {"new", "putting", "waiting", "returned", "cancelled"}]
  /\ \A a \in Action : sub[a] \in {"putting", "waiting"} => cache[a] # "none"
  /\ ret \in [Action -> Kind \cup {"none"}]
  /\ \A a \in Action : sub[a] = "returned" => ret[a] # "none"
  /\ cancel \in [Action -> {"none", "called", "skipped", "dropped", "aborting", "aborted"}]
  /\ sync \in {"off", "starting", "synced", "timedout"}
  /\ watch \in Ref \cup {NoRef}
  /\ srv \in [Action -> Live \cup {"absent", "refused"}]
  /\ stream \in [Action -> Seq(Live)]
  /\ net \subseteq Action
  /\ faults \in Nat /\ reconnects \in Nat

-----------------------------------------------------------------------------
(* Safety.                                                                 *)

Launching == {"limiter", "enqueuing", "backoff", "requeuing"}

(* However often a name is in the queue (the submit, every watch update    *)
(* and every retry put it there), at most one worker is in _bg_launch, or  *)
(* backing off to go there again, for it.                                  *)
OneLauncher ==
  \A v, w \in Worker :
    wpc[v] \in Launching /\ wpc[w] \in Launching /\ wref[v].act = wref[w].act => v = w

(* Somebody will look at the object the caller of a waits for ...          *)
Token(a) ==
  \/ \E i \in 1..Len(queue) : queue[i] = CacheRef(a)
  \/ \E w \in Worker : wref[w] = CacheRef(a)
  \/ watch = CacheRef(a)

(* ... or the service still has to tell the watch about it.                *)
Owed(a) == Exists(a) /\ (srv[a] = "RUNNING" \/ stream[a] # <<>>)

(* No lost wakeup: _bg_submit_action waits on a clear completion event     *)
(* only as long as something can still lead to fire_completion_event.      *)
NoLostWakeup ==
  \A a \in Action : sub[a] = "waiting" /\ event[a] = "clear" => Token(a) \/ Owed(a)

(* The object submit_action returns holds the final state the service has  *)
(* for the action; or the service refused it, it carries the client error  *)
(* and it was never created.                                               *)
ReturnedFinal ==
  \A a \in Action : sub[a] = "returned" =>
    LET o == obj[[act |-> a, kind |-> ret[a]]] IN
      IF o.err THEN srv[a] = "refused" ELSE o.phase \in Terminal /\ o.phase = srv[a]

(* The actions for which a worker sends an EnqueueAction in a step.        *)
SentNow == {wref[w].act : w \in {v \in Worker : wpc[v] = "limiter" /\ wpc'[v] = "enqueuing"}}

(* Once cancel_action has marked the parent's object (the tombstone that   *)
(* mark_cancelled leaves), no worker sends an EnqueueAction for it, not    *)
(* even one that was waiting for the rate limiter at that moment.          *)
NoSendAfterCancel ==
  [][\A a \in SentNow : cancel[a] \notin {"dropped", "aborting", "aborted"}]_vars

(* Recovery: an action whose state the watch has reported before the parent *)
(* submits it (there is a "seen" object) is adopted: ActionCache.submit     *)
(* keeps the object it has, and nothing is sent to the queue service for    *)
(* the parent's own.  It is not said of an object of the parent's own that  *)
(* the watch reports while a worker waits for the rate limiter with it: the *)
(* worker sends it (again), and the service knows the name.                 *)
AdoptedNotResent ==
  [][\A a \in SentNow : obj[[act |-> a, kind |-> "seen"]].started => sub[a] = "returned"]_vars

(* The contract the parent relies on, implemented.                         *)
Contract == INSTANCE SubActions WITH
  call    <- [a \in Action |-> CASE sub[a] = "new" -> "idle"
                                 [] sub[a] \in {"putting", "waiting"} -> "pending"
                                 [] OTHER -> sub[a]],
  outcome <- [a \in Action |->
                IF sub[a] # "returned" THEN "none"
                ELSE IF obj[[act |-> a, kind |-> ret[a]]].err THEN "error"
                ELSE obj[[act |-> a, kind |-> ret[a]]].phase],
  remote  <- srv

(* Whatever workers, watch, retries and recovery do, the parent sees each  *)
(* sub-action called once, launched at most once, and returned with the    *)
(* outcome on record, which does not change after it has been returned.    *)
ImplementsContract == Contract!Spec

-----------------------------------------------------------------------------
(* Liveness.                                                               *)

(* Every call of submit_action ends, in a return or a cancellation, unless *)
(* an action out of retries has ended the controller's loop.               *)
SubmitEnds ==
  \A a \in Action :
    sub[a] \in {"putting", "waiting"} ~> sub[a] \in {"returned", "cancelled"} \/ ~alive

(* An action that runs out of system retries is returned to its caller     *)
(* with the client error: the handler in _bg_run reports "system retries   *)
(* ... crossed threshold, for action ...".                                 *)
ExhaustedIsReported ==
  \A a \in Action : retries[a] > MaxRetries ~> sub[a] \in {"returned", "cancelled"}

(* "If the action is not started, we have to ensure it does not get        *)
(* launched" (_bg_cancel_action).                                          *)
DroppedNotLaunched == \A a \in Action : cancel[a] = "dropped" => ~Exists(a)

(* "If the action is cancelled, we need to cancel the action on the server *)
(* as well" (_controller.py), for an action recovered from the watch.      *)
CancelReachesServer ==
  \A a \in Action : cancel[a] \in {"dropped", "aborted"} /\ cache[a] = "seen"
                      => srv[a] # "RUNNING"
=============================================================================
