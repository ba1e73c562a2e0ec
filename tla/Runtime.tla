------------------------------- MODULE Runtime -------------------------------
(***************************************************************************)
(* The life of one task container (_bin/runtime.py): the controller thread *)
(* is started, the task's coroutine races watch_for_errors, and whichever  *)
(* ends first decides how the process ends.                                *)
(*                                                                         *)
(* Two event loops run: the main loop (runtime.py, entrypoints.py and      *)
(* taskrunner.py) and the controller's (_core.py, _informer.py), which is  *)
(* reached with run_coroutine_threadsafe only.  What a worker does with an *)
(* action is in Controller; here a sub-action is queued, launched, fired.  *)
(* The two ends of a future shared by the loops are cancelled in one step. *)
(***************************************************************************)
EXTENDS Naturals, FiniteSets

CONSTANTS
  Call,        \* sub-actions the task's body may call, each once
  Background,  \* those it starts with create_task and does not await
  MaxRetries,  \* _max_watch_retries: failures in a row a watch survives
  MaxFaults,   \* bound: failures of the watch stream
  NoCall

ASSUME ConstantsAssumption ==
  /\ IsFiniteSet(Call) /\ Background \subseteq Call /\ NoCall \notin Call
  /\ MaxRetries \in Nat /\ MaxFaults \in Nat

(* An informer is started by a call that finds none: one for a call at     *)
(* most, so it is named after the call; NoCall stands for no informer.     *)
Informer == Call

VARIABLES
  main,       \* _run_and_stop: where the main coroutine is
  code,       \* how the process ends: none, ok, error
  thread,     \* ControllerThread: connecting, running, ended, crashed
  running,    \* Controller._running
  event,      \* Controller._failure_event is set
  watcher,    \* the coroutine watch_for_errors
  command,    \* the code bundle and resolver on the command line
  task,       \* the coroutine load_and_run_task: where it is
  outcome,    \* what the body ended with: none, ok, err, cancelled
  stopTask,   \* the task's coroutine has been cancelled by the main coroutine
  call, via,  \* each submit_action: where it is, and the informer it uses
  cached,     \* InformerCache._cache: the parent's informer
  lock,       \* the call that holds InformerCache._lock during start
  watch,      \* each Informer._watch_task
  failures,   \* its retries counter
  attached,   \* its done callback is attached
  uploaded,   \* documents written at the output path
  faults

mainVars   == <<main, code, watcher, stopTask>>
threadVars == <<thread, running, event>>
taskVars   == <<command, task, outcome, uploaded>>
infVars    == <<cached, lock, watch, failures, attached, faults>>
vars == <<mainVars, threadVars, taskVars, call, via, infVars>>

Pending == {"asked", "starting", "queued", "launched"}

Command == [bundle : {"none", "tgz", "pkl"}, resolver : BOOLEAN]

Init ==
  /\ main = "constructing" /\ code = "none"
  /\ thread = "connecting" /\ running = FALSE /\ event = FALSE
  /\ watcher = "new"
  /\ command \in Command
  /\ task = "loading" /\ outcome = "none" /\ stopTask = FALSE
  /\ call = [c \in Call |-> "idle"]
  /\ via = [c \in Call |-> NoCall]
  /\ cached = NoCall /\ lock = NoCall
  /\ watch = [i \in Informer |-> "none"]
  /\ failures = [i \in Informer |-> 0]
  /\ attached = [i \in Informer |-> FALSE]
  /\ uploaded = {}
  /\ faults = 0

-----------------------------------------------------------------------------
(* The controller thread.                                                  *)

(* The service client is there and the workers are created.                *)
Connect ==
  /\ thread = "connecting"
  /\ thread' = "running" /\ running' = TRUE
  /\ UNCHANGED <<mainVars, event, taskVars, call, via, infVars>>

(* The client coroutine raises, or a worker does (an action is out of      *)
(* system retries): run_until_complete ends, and the event is set on a     *)
(* loop that no longer runs.                                               *)
Crash ==
  /\ \/ thread = "connecting"
     \/ thread = "running" /\ \E c \in Call : call[c] = "queued"
  /\ thread' = "crashed" /\ event' = TRUE
  /\ UNCHANGED <<mainVars, running, taskVars, call, via, infVars>>

(* With _running unset every worker leaves after the next item it handles; *)
(* when the last one has left, the pool and the loop end.                  *)
PoolEnds ==
  /\ thread = "running" /\ ~running
  /\ thread' = "ended"
  /\ UNCHANGED <<mainVars, running, event, taskVars, call, via, infVars>>

(* watch_for_errors hands _bg_watch_for_errors to the thread, if it lives.  *)
WatcherStarts ==
  /\ main = "racing" /\ watcher = "new"
  /\ watcher' = IF thread = "running" THEN "waiting" ELSE "refused"
  /\ UNCHANGED <<main, code, stopTask, threadVars, taskVars, call, via, infVars>>

WatcherWakes ==
  /\ thread = "running" /\ event /\ watcher = "waiting"
  /\ running' = FALSE
  /\ watcher' = "raised"
  /\ UNCHANGED <<main, code, stopTask, thread, event, taskVars, call, via, infVars>>

-----------------------------------------------------------------------------
(* Sub-actions: submit_action on both loops.                               *)

(* The body calls a sub-action; a call in the background may come later,   *)
(* as long as the main loop runs.  Without a live thread it raises.        *)
Ask(c) ==
  /\ call[c] = "idle"
  /\ \/ task = "executing" /\ ~stopTask
     \/ c \in Background /\ task \in {"finalizing", "uploading", "done", "raised"}
        /\ main \in {"racing", "reporting", "stop", "stopping"}
  /\ call' = [call EXCEPT ![c] = IF thread = "running" THEN "asked" ELSE "failed"]
  /\ UNCHANGED <<mainVars, threadVars, taskVars, via, infVars>>

(* get_or_create and submit: an informer that is cached is used, started   *)
(* or not; otherwise one is put in the cache and started under the lock.   *)
UseInformer(c) ==
  /\ thread = "running" /\ call[c] = "asked" /\ lock = NoCall /\ cached # NoCall
  /\ call' = [call EXCEPT ![c] = "queued"]
  /\ via' = [via EXCEPT ![c] = cached]
  /\ UNCHANGED <<mainVars, threadVars, taskVars, infVars>>

StartInformer(c) ==
  /\ thread = "running" /\ call[c] = "asked" /\ lock = NoCall /\ cached = NoCall
  /\ call' = [call EXCEPT ![c] = "starting"]
  /\ via' = [via EXCEPT ![c] = c]
  /\ cached' = c /\ lock' = c
  /\ watch' = [watch EXCEPT ![c] = "watching"]
  /\ UNCHANGED <<mainVars, threadVars, taskVars, failures, attached, faults>>

AttachIfLive(c) == watch[c] \in {"watching", "backoff"}
Attach(c)     == TRUE

(* The sentinel arrives or the wait for it times out; then the callback is *)
(* attached, the lock released and the action put in the queue.            *)
InformerStarted(c) ==
  /\ thread = "running" /\ call[c] = "starting"
  /\ attached' = [attached EXCEPT ![c] = Attach(c)]
  /\ lock' = NoCall
  /\ call' = [call EXCEPT ![c] = "queued"]
  /\ UNCHANGED <<mainVars, threadVars, taskVars, via, cached, watch, failures, faults>>

Launch(c) ==
  /\ thread = "running" /\ call[c] = "queued"
  /\ call' = [call EXCEPT ![c] = "launched"]
  /\ UNCHANGED <<mainVars, threadVars, taskVars, via, infVars>>

(* The watch sees the end of the action and a worker fires the event of    *)
(* the informer that is in the cache, which must be the one waited on.     *)
Return(c) ==
  /\ thread = "running" /\ call[c] = "launched" /\ lock = NoCall
  /\ cached = via[c] /\ watch[cached] = "watching"
  /\ call' = [call EXCEPT ![c] = "returned"]
  /\ failures' = [failures EXCEPT ![cached] = 0]
  /\ UNCHANGED <<mainVars, threadVars, taskVars, via, cached, lock, watch, attached, faults>>

LockKept(C) == lock
LockLeft(C) == IF lock \in C THEN NoCall ELSE lock

(* Cancelling submit_action cancels get_or_create too: the lock is         *)
(* released, and the informer stays in the cache without its callback.  A  *)
(* second cancellation interrupts the handler of the first.                *)
Cancelled(C) ==
  /\ call' = [c \in Call |-> CASE c \in C /\ call[c] \in Pending -> "cancelling"
                               [] c \in C /\ call[c] = "cancelling" -> "interrupted"
                               [] OTHER -> call[c]]
  /\ lock' = LockLeft(C)

(* The body gives up on one call, with a timeout say.                      *)
CancelCall(c) ==
  /\ task = "executing" /\ call[c] \in Pending
  /\ Cancelled({c})
  /\ UNCHANGED <<mainVars, threadVars, taskVars, via, cached, watch, failures, attached, faults>>

(* The handler of CancelledError runs cancel_action in the thread.         *)
CancelAction(c) ==
  /\ call[c] = "cancelling"
  /\ thread = "running" => lock = NoCall
  /\ call' = [call EXCEPT ![c] = IF thread = "running" THEN "cancelled" ELSE "failed"]
  /\ UNCHANGED <<mainVars, threadVars, taskVars, via, infVars>>

-----------------------------------------------------------------------------
(* Informer.watch.                                                         *)

WatchFails(i) ==
  /\ thread = "running" /\ watch[i] = "watching" /\ faults < MaxFaults
  /\ faults' = faults + 1
  /\ failures' = [failures EXCEPT ![i] = @ + 1]
  /\ watch' = [watch EXCEPT ![i] = "backoff"]
  /\ UNCHANGED <<mainVars, threadVars, taskVars, call, via, cached, lock, attached>>

(* After the backoff: the stream is opened again, or the retries are used  *)
(* up and the watch raises.                                                *)
WatchRetries(i) ==
  /\ thread = "running" /\ watch[i] = "backoff"
  /\ watch' = [watch EXCEPT ![i] = IF failures[i] >= MaxRetries THEN "raised" ELSE "watching"]
  /\ UNCHANGED <<mainVars, threadVars, taskVars, call, via, cached, lock, failures, attached, faults>>

WatchMessage(i) ==
  /\ thread = "running" /\ watch[i] = "watching" /\ failures[i] > 0
  /\ failures' = [failures EXCEPT ![i] = 0]
  /\ UNCHANGED <<mainVars, threadVars, taskVars, call, via, cached, lock, watch, attached, faults>>

(* The done callback; attached to a task that is done, it is called too.   *)
HandleInformerError(i) ==
  /\ thread = "running" /\ watch[i] = "raised" /\ attached[i] /\ ~event
  /\ event' = TRUE
  /\ UNCHANGED <<mainVars, thread, running, taskVars, call, via, infVars>>

(* Informer.stop: a watch that has raised stays so.                        *)
Stopped(w) == IF w \in {"watching", "backoff"} THEN "stopped" ELSE w
Evict ==
  /\ cached' = NoCall
  /\ watch' = [i \in Informer |-> IF i = cached THEN Stopped(watch[i]) ELSE watch[i]]

-----------------------------------------------------------------------------
(* The coroutine load_and_run_task.                                        *)

(* _download_and_load_task: a pickled task needs no resolver.              *)
Malformed(cmd) == cmd.bundle # "pkl" /\ ~cmd.resolver

(* Download and import may fail in ways of their own.                      *)
Load ==
  /\ main = "racing" /\ task = "loading" /\ ~stopTask
  /\ task' \in (IF Malformed(command) THEN {"raisedSystem"} ELSE {"executing"})
               \cup (IF Malformed(command) /\ command.bundle = "none" THEN {} ELSE {"raised"})
  /\ UNCHANGED <<mainVars, threadVars, command, outcome, uploaded, call, via, infVars>>

(* run_task: the body returns when what it awaits has ended, and may raise *)
(* at any time, with calls that nobody awaits any more (gather).           *)
BodyEnds(o) ==
  /\ task = "executing" /\ ~stopTask
  /\ o = "ok" => \A c \in Call \ Background : call[c] \notin Pending \cup {"cancelling"}
  /\ outcome' = o
  /\ task' = "finalizing"
  /\ UNCHANGED <<mainVars, threadVars, command, uploaded, call, via, infVars>>

(* A cancellation reaches the body and what it awaits; the body ends when  *)
(* their handlers have run.                                                *)
CancelBody ==
  /\ task = "executing" /\ stopTask
  /\ task' = "unwinding" /\ stopTask' = FALSE
  /\ Cancelled(Call \ Background)
  /\ UNCHANGED <<main, code, watcher, threadVars, command, outcome, uploaded, via, cached, watch,
                 failures, attached, faults>>

BodyCancelled ==
  /\ task = "unwinding"
  /\ \A c \in Call \ Background : call[c] # "cancelling"
  /\ outcome' = "cancelled"
  /\ task' = "finalizing"
  /\ UNCHANGED <<mainVars, threadVars, command, uploaded, call, via, infVars>>

(* finalize_parent_action in run_task's finally: without a live thread it  *)
(* raises, and what the body returned is lost.                             *)
Finalize ==
  /\ task = "finalizing" /\ ~stopTask
  /\ IF thread = "running"
     THEN /\ lock = NoCall /\ Evict
          /\ task' = IF outcome = "cancelled" THEN "cancelled" ELSE "uploading"
     ELSE /\ task' = "raised" /\ UNCHANGED <<cached, watch>>
  /\ UNCHANGED <<mainVars, threadVars, command, outcome, uploaded, call, via, lock,
                 failures, attached, faults>>

(* upload_outputs or upload_error of extract_download_run_upload; a        *)
(* conversion or the upload may raise.                                     *)
Upload ==
  /\ task = "uploading" /\ ~stopTask
  /\ \/ /\ uploaded' = uploaded \cup {IF outcome = "ok" THEN "outputs" ELSE "error"}
        /\ task' = "done"
     \/ UNCHANGED uploaded /\ task' = "raised"
  /\ UNCHANGED <<mainVars, threadVars, command, outcome, call, via, infVars>>

(* A cancellation before or after the body: what was on its way may have   *)
(* been done.                                                              *)
CancelTask ==
  /\ stopTask /\ task \in {"loading", "finalizing", "uploading"}
  /\ \/ UNCHANGED <<uploaded, cached, watch>>
     \/ task = "uploading" /\ UNCHANGED <<cached, watch>>
        /\ uploaded' = uploaded \cup {IF outcome = "ok" THEN "outputs" ELSE "error"}
     \/ task = "finalizing" /\ thread = "running" /\ lock = NoCall /\ Evict /\ UNCHANGED uploaded
  /\ task' = "cancelled"
  /\ UNCHANGED <<mainVars, threadVars, command, outcome, call, via, lock, failures, attached, faults>>

-----------------------------------------------------------------------------
(* The main coroutine.                                                     *)

(* Controller._start waits for _thread_ready, which a crash does not set.  *)
Construct ==
  /\ main = "constructing"
  /\ \/ thread = "running" /\ main' = "racing" /\ UNCHANGED code
     \/ thread # "running" /\ main' = "exited" /\ code' = "error"
  /\ UNCHANGED <<watcher, stopTask, threadVars, taskVars, call, via, infVars>>

TaskEnded    == task \in {"done", "raised", "raisedSystem"}
WatcherEnded == watcher \in {"raised", "refused"}

(* The errors of the coroutines that are done, in whatever order the set   *)
(* of done tasks has: watch_for_errors never ends without one.             *)
NoErrors   == {}
TaskErrors == IF TaskEnded THEN {task} \ {"done"} ELSE {}
Errors == TaskErrors \cup (CASE watcher = "raised" -> {"raisedSystem"}
                             [] watcher = "refused" -> {"raised"}
                             [] OTHER -> {})

CancelWatcher == watcher' = IF WatcherEnded THEN watcher ELSE "cancelled"

RunCoros ==
  /\ main = "racing" /\ (TaskEnded \/ WatcherEnded)
  /\ stopTask' = ~TaskEnded
  /\ CancelWatcher
  /\ IF Errors = {} THEN main' = "stop" /\ code' = "ok"
     ELSE \E e \in Errors : /\ main' = IF e = "raisedSystem" THEN "reporting" ELSE "exiting"
                            /\ code' = "error"
  /\ UNCHANGED <<threadVars, taskVars, call, via, infVars>>

(* The handler of RuntimeSystemError writes the error, then stops.         *)
Report ==
  /\ main = "reporting"
  /\ \/ uploaded' = uploaded \cup {"error"} /\ main' = "stop"
     \/ UNCHANGED uploaded /\ main' = "exiting"
  /\ UNCHANGED <<code, watcher, stopTask, threadVars, command, task, outcome, call, via, infVars>>

(* controller.stop: refused without a live thread, otherwise handed over.  *)
AskStop ==
  /\ main = "stop"
  /\ IF thread = "running" THEN main' = "stopping" /\ UNCHANGED code
                           ELSE main' = "exiting" /\ code' = "error"
  /\ UNCHANGED <<watcher, stopTask, threadVars, taskVars, call, via, infVars>>

Stop ==
  /\ main = "stopping" /\ thread = "running" /\ lock = NoCall
  /\ running' = FALSE
  /\ Evict
  /\ main' = "exiting"
  /\ UNCHANGED <<code, watcher, stopTask, thread, event, taskVars, call, via, lock,
                 failures, attached, faults>>

(* asyncio.run cancels what is left of its loop and waits for it.          *)
CancelRest ==
  /\ main = "exiting"
  /\ main' = "leaving"
  /\ stopTask' = (~TaskEnded /\ task \notin {"unwinding", "cancelled"})
  /\ CancelWatcher
  /\ Cancelled(IF task = "executing" THEN Background ELSE Call)
  /\ UNCHANGED <<code, threadVars, taskVars, via, cached, watch, failures, attached, faults>>

Leave ==
  /\ main = "leaving"
  /\ TaskEnded \/ task = "cancelled"
  /\ \A c \in Call : call[c] \notin Pending \cup {"cancelling"}
  /\ main' = "exited"
  /\ UNCHANGED <<code, watcher, stopTask, threadVars, taskVars, call, via, infVars>>

-----------------------------------------------------------------------------
ThreadStep == Connect \/ WatcherStarts \/ WatcherWakes
MainStep   == Construct \/ RunCoros \/ Report \/ AskStop \/ Stop \/ CancelRest \/ Leave
TaskStep   == Load \/ (\E o \in {"ok", "err"} : BodyEnds(o)) \/ CancelBody \/ BodyCancelled
              \/ Finalize \/ Upload \/ CancelTask
CallStep(c)  == UseInformer(c) \/ StartInformer(c) \/ InformerStarted(c) \/ Launch(c)
                \/ Return(c) \/ CancelAction(c)
WatchStep(i) == WatchRetries(i) \/ HandleInformerError(i)

(* The process is gone: nothing happens any more.                          *)
Exited == main = "exited" /\ UNCHANGED vars

Next ==
  \/ /\ main # "exited"
     /\ \/ ThreadStep \/ Crash \/ PoolEnds \/ MainStep \/ TaskStep
        \/ \E c \in Call : CallStep(c) \/ Ask(c) \/ CancelCall(c)
        \/ \E i \in Informer : WatchStep(i) \/ WatchFails(i) \/ WatchMessage(i)
  \/ Exited

Spec == Init /\ [][Next]_vars

(* Both loops run what is ready, the services answer, and the body returns *)
(* once what it awaits has ended; nothing makes it raise.                  *)
Fairness ==
  /\ WF_vars(ThreadStep) /\ WF_vars(MainStep)
  /\ WF_vars(Load) /\ WF_vars(BodyEnds("ok")) /\ WF_vars(CancelBody)
  /\ WF_vars(BodyCancelled) /\ WF_vars(Finalize) /\ WF_vars(Upload) /\ WF_vars(CancelTask)
  /\ \A c \in Call : WF_vars(CallStep(c)) /\ WF_vars(WatchStep(c))

FairSpec == Spec /\ Fairness

-----------------------------------------------------------------------------
(* Types.                                                                  *)

CallState == {"idle", "cancelling", "interrupted", "cancelled", "failed", "returned"} \cup Pending

(* Every variable ranges over the values the code gives it; the lock is    *)
(* held by a call in start, whose informer is the cached one, and a call   *)
(* in the queue or launched has an informer whose watch was started.       *)
TypeOK ==
  /\ main \in {"constructing", "racing", "reporting", "stop", "stopping", "exiting",
               "leaving", "exited"}
  /\ code \in {"none", "ok", "error"}
  /\ thread \in {"connecting", "running", "ended", "crashed"}
  /\ running \in BOOLEAN /\ event \in BOOLEAN /\ stopTask \in BOOLEAN
  /\ watcher \in {"new", "waiting", "raised", "refused", "cancelled"}
  /\ command \in Command
  /\ task \in {"loading", "executing", "unwinding", "finalizing", "uploading", "done",
               "raised", "raisedSystem", "cancelled"}
  /\ outcome \in {"none", "ok", "err", "cancelled"}
  /\ call \in [Call -> CallState]
  /\ via \in [Call -> Call \cup {NoCall}]
  /\ cached \in Informer \cup {NoCall} /\ lock \in Call \cup {NoCall}
  /\ watch \in [Informer -> {"none", "watching", "backoff", "raised", "stopped"}]
  /\ failures \in [Informer -> Nat] /\ attached \in [Informer -> BOOLEAN]
  /\ uploaded \subseteq {"outputs", "error"}
  /\ faults \in 0..MaxFaults
  /\ lock # NoCall => call[lock] = "starting" /\ cached = lock
  /\ \A c \in Call : call[c] \in {"queued", "launched"} =>
       via[c] # NoCall /\ watch[via[c]] # "none"

-----------------------------------------------------------------------------
(* Safety.                                                                 *)

(* How the process ends is true of what it leaves behind: it ends without  *)
(* an error only if the task's coroutine ran to its end, and then exactly  *)
(* one document is at the output path.  Both documents are there only when *)
(* the controller failed after the outputs were written (runtime.py writes *)
(* the error on any RuntimeSystemError).                                   *)
ExitIsTruthful ==
  /\ main = "exited" /\ code = "ok" => task = "done" /\ Cardinality(uploaded) = 1
  /\ uploaded = {"outputs", "error"} => watcher = "raised"

(* The call that started the informer was cancelled in start.              *)
Abandoned(i) == ~attached[i] /\ call[i] \in {"cancelling", "interrupted", "cancelled", "failed"}

(* While the body runs and the thread lives, a call that waits for its end *)
(* waits on the informer in the cache, and either the watch of this        *)
(* informer goes on, or its failure is on its way to watch_for_errors.     *)
(* The one exception is an informer whose starter was cancelled.           *)
WaitersAreServed ==
  \A c \in Call :
    call[c] \in {"queued", "launched"} /\ task = "executing"
      /\ thread = "running" /\ main = "racing" =>
      /\ cached = via[c]
      /\ watch[cached] # "stopped"
      /\ watch[cached] = "raised" => attached[cached] \/ Abandoned(cached)

-----------------------------------------------------------------------------
(* Liveness.                                                               *)

(* The container ends, whatever is cancelled, fails or is left behind by   *)
(* the body: a watch that gives up ends the race through its callback and  *)
(* watch_for_errors, although every call that waits on it waits for ever.  *)
(* The exceptions: the controller's thread dies first, or the callback was *)
(* lost with the call that started the informer.                           *)
ContainerExits ==
  main = "racing" ~> \/ main = "exited" \/ thread # "running"
                     \/ \E i \in Informer : watch[i] = "raised" /\ Abandoned(i)

(* The event is created "to signal the errors were observed in the         *)
(* thread's loop", and runtime.py waits for it "to watch for errors": when *)
(* the thread dies, the race ends.                                         *)
ThreadDeathNoticed == main = "racing" /\ thread = "crashed" ~> main # "racing"
=============================================================================
