----------------------------- MODULE ParentReplay -----------------------------
(***************************************************************************)
(* A parent action and the attempts to run it (RemoteController, in        *)
(* remote/_controller.py, and the decorator of _trace.py).  The parent is  *)
(* code whose coroutines (branches) call tasks and traced functions.  Every *)
(* call gets a name from the function, its inputs and the number of calls  *)
(* of that function so far, so that the next attempt, which starts from    *)
(* nothing after a crash, finds under that name what this one has left at  *)
(* the service.                                                            *)
(*                                                                         *)
(* submit_action is taken from Controller by its contract (SubActions): a  *)
(* name is launched at most once, a known one is adopted, and the call     *)
(* returns what the service has recorded.  That holds as long as names     *)
(* differ (NamesUnique); what two calls of one name do is not modelled.    *)
(*                                                                         *)
(* The parent handles the errors its calls raise and goes on: an attempt   *)
(* ends by a crash (or a preemption) or by reaching the end.               *)
(***************************************************************************)
EXTENDS Naturals, Sequences, FiniteSets

CONSTANTS
  Branch,      \* coroutines of the parent
  Program,     \* the calls each of them makes, in order: [fn, input]
  Fn, Input,   \* tasks and traced functions; inputs, by their hash
  TraceFn,     \* the traced functions among Fn
  Hash,        \* the function that stands for f in names: all that have the
               \* task spec, or the __name__ if traced, of f are one in them
  Result,      \* what running a function with an input gives
  Permits,     \* concurrency of one parent action (_F_P_CNC, 1000)
  MaxAttempts, \* bound: attempts of the parent
  MaxFaults    \* bound: requests that fail, and calls that are cancelled

Calls    == UNION {{b} \X DOMAIN Program[b] : b \in Branch}
MaxCalls == Cardinality(Calls)
CallAt(c) == Program[c[1]][c[2]]
Name     == [fn : Fn, input : Input, seq : 1..MaxCalls]
NoName   == [fn |-> "none"]
Gives(n) == Result[n.fn][n.input]

ASSUME ProgramAssumption ==
  /\ IsFiniteSet(Branch)
  /\ Program \in [Branch -> Seq([fn : Fn, input : Input])]
  /\ TraceFn \subseteq Fn
  /\ Hash \in [Fn -> Fn] /\ \A f \in Fn : Hash[f] \in TraceFn <=> f \in TraceFn
  /\ \A f \in Fn, x \in Input :
       Result[f][x] \in IF f \in TraceFn THEN {"value", "falsy", "items", "void", "error"}
                                        ELSE {"succeeded", "failed"}
  /\ Permits \in Nat \ {0} /\ MaxAttempts \in Nat /\ MaxFaults \in Nat

VARIABLES
  parent,      \* the parent action: down, up or done
  attempt,     \* its attempts so far
  synced,      \* the informer of this attempt is synchronized (not timed out)
  known,       \* the names whose state the informer has
  sequence,    \* _parent_action_task_call_sequence
  next, at,    \* each branch: its next call, and where the present one is
  name,        \* ... and the name of that call
  made,        \* ... and what its traced function has just given
  service,     \* the actions, by name, at the service
  outputs,     \* names whose outputs file has been written
  lost,        \* names whose outputs file failed to be written (history)
  faults

vars == <<parent, attempt, synced, known, sequence, next, at, name, made,
          service, outputs, lost, faults>>

memory  == <<known, sequence>>
outside == <<service, outputs, lost>>

Recorded == {n \in Name : service[n] # "absent"}
IsTrace(b) == name[b].fn \in TraceFn

(* The semaphore of the parent action.                                     *)
PermitKept == {b \in Branch : at[b] \in {"sending", "waiting"} \/ next[b] > 1}
Holding    == {b \in Branch : at[b] \in {"sending", "waiting"}}

Init ==
  /\ parent = "down" /\ attempt = 0 /\ synced = FALSE
  /\ known = {} /\ sequence = [f \in Fn |-> 0]
  /\ next = [b \in Branch |-> 1] /\ at = [b \in Branch |-> "idle"]
  /\ name = [b \in Branch |-> NoName] /\ made = [b \in Branch |-> "nothing"]
  /\ service = [n \in Name |-> "absent"] /\ outputs = {} /\ lost = {} /\ faults = 0

-----------------------------------------------------------------------------
(* Attempts.                                                               *)

(* The informer has the state of everything recorded once it is synced; it *)
(* is used as it is when the wait for that times out.                      *)
Start ==
  /\ parent = "down" /\ attempt < MaxAttempts
  /\ parent' = "up" /\ attempt' = attempt + 1
  /\ synced' \in BOOLEAN
  /\ known' = IF synced' THEN Recorded ELSE {}
  /\ UNCHANGED <<sequence, next, at, name, made, outside, faults>>

(* A request in flight at the crash has arrived (Send was before it) or is *)
(* lost (Send was not yet).                                                *)
Crash ==
  /\ parent = "up" /\ attempt < MaxAttempts
  /\ parent' = "down" /\ synced' = FALSE
  /\ known' = {} /\ sequence' = [f \in Fn |-> 0]
  /\ next' = [b \in Branch |-> 1] /\ at' = [b \in Branch |-> "idle"]
  /\ name' = [b \in Branch |-> NoName] /\ made' = [b \in Branch |-> "nothing"]
  /\ UNCHANGED <<attempt, outside, faults>>

Finalize ==
  /\ parent = "up"
  /\ \A b \in Branch : at[b] = "idle" /\ next[b] > Len(Program[b])
  /\ parent' = "done"
  /\ UNCHANGED <<attempt, synced, memory, next, at, name, made, outside, faults>>

-----------------------------------------------------------------------------
(* Calls: RemoteController.submit for a task, the wrapper of flyte.trace.  *)

At(b, place) == parent = "up" /\ at[b] = place

Go(b, place) == at' = [at EXCEPT ![b] = place]

(* The call is over, with a result or an exception the parent handles.     *)
Answer(b) ==
  /\ next' = [next EXCEPT ![b] = @ + 1]
  /\ Go(b, "idle")
  /\ name' = [name EXCEPT ![b] = NoName]
  /\ made' = [made EXCEPT ![b] = "nothing"]

(* generate_task_call_sequence: one counter for each function object.      *)
NumberConstant(f) == 1
NumberAnyFn(f)    ==
  1 + Cardinality({c \in Calls : c[2] < next[c[1]] \/ (c[2] = next[c[1]] /\ at[c[1]] # "idle")})
CallNumber(f)     == sequence[f] + 1

Call(b) ==
  LET c == Program[b][next[b]] IN
  /\ At(b, "idle") /\ next[b] <= Len(Program[b])
  /\ sequence' = [sequence EXCEPT ![c.fn] = CallNumber(c.fn)]
  /\ name' = [name EXCEPT ![b] = [fn |-> Hash[c.fn], input |-> c.input, seq |-> CallNumber(c.fn)]]
  /\ Go(b, IF c.fn \in TraceFn THEN "lookup" ELSE "permit")
  /\ UNCHANGED <<parent, attempt, synced, known, next, made, outside, faults>>

(* get_action_outputs: a record without an outputs file cannot be loaded,  *)
(* which fails the call.  Outputs that are false in Python (0, "", an empty *)
(* list) are loaded and not used, the items of an async generator are used *)
(* and then followed by those of another run.                              *)
Repeated == {"falsy", "items"}

FoundPreviousCall(n) == [n EXCEPT !.seq = @ - 1] \in known
Found(n)             == n \in known

Lookup(b) ==
  LET n == name[b] IN
  /\ At(b, "lookup")
  /\ \/ /\ Found(n) /\ (service[n] = "empty" \/ Gives(n) \notin Repeated)
        /\ Answer(b)
     \/ /\ ~Found(n) \/ (service[n] = "file" /\ Gives(n) \in Repeated)
        /\ Go(b, "body")
        /\ UNCHANGED <<next, name, made>>
  /\ UNCHANGED <<parent, attempt, synced, memory, outside, faults>>

Body(b) ==
  LET n == name[b] IN
  /\ At(b, "body")
  /\ made' = [made EXCEPT ![b] = IF Gives(n) = "error" THEN "error" ELSE "output"]
  /\ Go(b, "record")
  /\ UNCHANGED <<parent, attempt, synced, memory, next, name, outside, faults>>

(* record_trace, up to its semaphore: the outputs are written first.       *)
HasFile(b) == made[b] = "output" /\ Gives(name[b]) # "void"

UploadTruthy(b) ==
  /\ At(b, "record")
  /\ outputs' = IF HasFile(b) /\ Gives(name[b]) = "value" THEN outputs \cup {name[b]} ELSE outputs
  /\ Go(b, "permit")
  /\ UNCHANGED <<parent, attempt, synced, memory, next, name, made, service, lost, faults>>

Upload(b) ==
  /\ At(b, "record")
  /\ outputs' = IF HasFile(b) THEN outputs \cup {name[b]} ELSE outputs
  /\ Go(b, "permit")
  /\ UNCHANGED <<parent, attempt, synced, memory, next, name, made, service, lost, faults>>

(* ... or writing them fails: the wrapper takes that for an error of the   *)
(* function and records it instead.  A failure to record an error fails    *)
(* the call.                                                               *)
UploadFails(b) ==
  /\ At(b, "record") /\ Gives(name[b]) # "void"
  /\ \/ /\ made[b] = "output" /\ faults < MaxFaults
        /\ faults' = faults + 1
        /\ made' = [made EXCEPT ![b] = "error"]
        /\ lost' = lost \cup {name[b]}
        /\ UNCHANGED <<next, at, name>>
     \/ /\ made[b] = "error"
        /\ Answer(b)
        /\ UNCHANGED <<lost, faults>>
  /\ UNCHANGED <<parent, attempt, synced, memory, service, outputs>>

NoPermit(b) ==
  /\ At(b, "permit")
  /\ Go(b, "sending")
  /\ UNCHANGED <<parent, attempt, synced, memory, next, name, made, outside, faults>>

Acquire(b) ==
  /\ At(b, "permit") /\ Cardinality(Holding) < Permits
  /\ Go(b, "sending")
  /\ UNCHANGED <<parent, attempt, synced, memory, next, name, made, outside, faults>>

(* submit_action.  A name the informer knows, or the service has already,  *)
(* is left as it is.                                                       *)
Unsent(n) == n \notin known /\ service[n] = "absent"
Sent(b)   == IF ~IsTrace(b) THEN "running" ELSE IF HasFile(b) THEN "file" ELSE "empty"

Send(b) ==
  LET n == name[b] IN
  /\ At(b, "sending")
  /\ service' = [service EXCEPT ![n] = IF Unsent(n) THEN Sent(b) ELSE @]
  /\ Go(b, "waiting")
  /\ UNCHANGED <<parent, attempt, synced, memory, next, name, made, outputs, lost, faults>>

Return(b) ==
  /\ At(b, "waiting") /\ service[name[b]] \notin {"absent", "running"}
  /\ Answer(b)
  /\ UNCHANGED <<parent, attempt, synced, memory, outside, faults>>

(* A call that fails before there is an action: its inputs cannot be       *)
(* uploaded (a trace's before it is looked up, a task's with the permit    *)
(* held), what is recorded cannot be loaded, or submit_action gives up.    *)
CallFails(b) ==
  /\ At(b, "lookup") \/ At(b, "sending")
  /\ faults < MaxFaults /\ faults' = faults + 1
  /\ Answer(b)
  /\ UNCHANGED <<parent, attempt, synced, memory, outside>>

(* The coroutine is cancelled, wherever it is.  A request under way arrives *)
(* or not; _submit cancels its action at the service, which the wrapper of *)
(* a trace does not, nor does that record anything (a CancelledError is no *)
(* Exception).  An action whose abort fails goes on.                       *)
LeftAtService(b) ==
  LET n     == name[b]
      there == {service[n]} \cup IF at[b] = "sending" /\ Unsent(n) THEN {Sent(b)} ELSE {}
  IN there \cup IF at[b] \in {"sending", "waiting"} /\ "running" \in there
                THEN {"aborted"} ELSE {}

Cancel(b) ==
  /\ parent = "up" /\ at[b] # "idle"
  /\ faults < MaxFaults /\ faults' = faults + 1
  /\ \E left \in LeftAtService(b) : service' = [service EXCEPT ![name[b]] = left]
  /\ Answer(b)
  /\ UNCHANGED <<parent, attempt, synced, memory, outputs, lost>>

-----------------------------------------------------------------------------
(* The service (external) runs the tasks, parent or no parent, and the     *)
(* watch tells the informer what is recorded.                              *)

Finish(n) ==
  /\ service[n] = "running"
  /\ service' = [service EXCEPT ![n] = Gives(n)]
  /\ UNCHANGED <<parent, attempt, synced, memory, next, at, name, made, outputs, lost, faults>>

Learn(n) ==
  /\ parent = "up" /\ n \in Recorded \ known
  /\ known' = known \cup {n}
  /\ UNCHANGED <<parent, attempt, synced, sequence, next, at, name, made, outside, faults>>

-----------------------------------------------------------------------------
Done == parent = "done" /\ UNCHANGED vars

BranchStep(b) == \/ Call(b) \/ Lookup(b) \/ Body(b) \/ Upload(b) \/ UploadFails(b)
                 \/ Acquire(b) \/ Send(b) \/ Return(b) \/ CallFails(b) \/ Cancel(b)

Next ==
  \/ Start \/ Crash \/ Finalize \/ Done
  \/ \E b \in Branch : BranchStep(b)
  \/ \E n \in Name : Finish(n) \/ Learn(n)

Spec == Init /\ [][Next]_vars

(* The event loop runs every coroutine that is ready, the platform starts  *)
(* the parent again after a crash, and tasks end.  The semaphore is fair   *)
(* to the coroutines of one loop: those that wait for it are in a queue.   *)
Fairness ==
  /\ WF_vars(Start) /\ WF_vars(Finalize)
  /\ \A b \in Branch : WF_vars(Call(b) \/ Lookup(b) \/ Body(b) \/ Upload(b) \/ Send(b) \/ Return(b))
                       /\ SF_vars(Acquire(b))
  /\ WF_vars(\E n \in Name : Finish(n))

FairSpec == Spec /\ Fairness
-----------------------------------------------------------------------------
(* Every variable ranges over the values the code can give it; at most     *)
(* Permits calls of a parent (its asyncio.Semaphore) are between           *)
(* submitting and returning.                                               *)
TypeOK ==
  /\ parent \in {"down", "up", "done"} /\ attempt \in 0..MaxAttempts /\ synced \in BOOLEAN
  /\ known \subseteq Name /\ outputs \subseteq Name /\ lost \subseteq Name
  /\ sequence \in [Fn -> 0..MaxCalls]
  /\ next \in [Branch -> 1..MaxCalls + 1]
  /\ at \in [Branch -> {"idle", "lookup", "body", "record", "permit", "sending", "waiting"}]
  /\ name \in [Branch -> Name \cup {NoName}]
  /\ made \in [Branch -> {"nothing", "output", "error"}]
  /\ service \in [Name -> {"absent", "running", "succeeded", "failed", "aborted", "file", "empty"}]
  /\ faults \in 0..MaxFaults
  /\ Cardinality(Holding) <= Permits

(* What is recorded of a traced function tells the next attempt the truth, *)
(* whenever the parent crashes or the call is cancelled: one recorded with *)
(* an outputs file has that file, and one recorded without has none to     *)
(* show: its function raised, or returns nothing, or an upload of its      *)
(* outputs failed in some attempt, which record_trace records as an error. *)
RecordedHasOutputs ==
  \A n \in Name : /\ service[n] = "file" => n \in outputs
                  /\ service[n] = "empty" => Gives(n) \in {"error", "void"} \/ n \in lost

(* What is recorded of a traced function can be loaded by a later attempt. *)
(* False: a record without outputs is of an action that has succeeded with *)
(* no outputs file, and get_action_outputs fails to load that for every    *)
(* later call of the name, also where one upload failed and was not tried  *)
(* again.                                                                  *)
RecordedCanBeLoaded ==
  \A n \in Recorded : n.fn \in TraceFn => service[n] = "file"

(* The sequence number is "used to differentiate between multiple          *)
(* invocations" (convert.py): two calls in progress share a name only if   *)
(* they are calls of different function objects, whatever those hash to.   *)
FnOf(b) == CallAt(<<b, next[b]>>).fn

NamesDiffer ==
  \A b, c \in Branch :
    name[b] = name[c] /\ name[b] # NoName => b = c \/ FnOf(b) # FnOf(c)

(* Two calls in progress never share a name, so that none waits for, or    *)
(* removes from the cache, the action of the other.  False of function     *)
(* objects that hash to the same, as two overrides of one task do: the     *)
(* number counts the calls of an object (its id()), the name has its hash. *)
NamesUnique ==
  \A b, c \in Branch : name[b] = name[c] /\ name[b] # NoName => b = c

(* Attempts do not multiply work: over all attempts, the service has no    *)
(* more actions for a function and an input than the parent has calls of   *)
(* that function, and none for an input it does not call it with, although *)
(* branches interleave differently in each attempt.                        *)
CallsOf(f) == {c \in Calls : Hash[CallAt(c).fn] = Hash[f]}

NoExtraActions ==
  \A f \in Fn, x \in Input :
    Cardinality({n \in Recorded : n.fn = Hash[f] /\ n.input = x})
      <= IF \E c \in CallsOf(f) : CallAt(c).input = x THEN Cardinality(CallsOf(f)) ELSE 0

(* "Function-level checkpointing - recoverable on failure" (README.md): no *)
(* more actions for a function and an input than calls with that input.    *)
(* False: the sequence counts the calls of a function whatever the inputs, *)
(* so branches that reach their calls in another order than in the last    *)
(* attempt give them other names.                                          *)
OneActionPerCall ==
  \A f \in Fn, x \in Input :
    Cardinality({n \in Recorded : n.fn = Hash[f] /\ n.input = x})
      <= Cardinality({c \in CallsOf(f) : CallAt(c).input = x})

(* A traced function that is recorded runs again only if the informer was  *)
(* not synchronized in time, if its outputs are false in Python, or if it  *)
(* is an async generator.                                                  *)
Runs(b) == at[b] = "body" /\ at'[b] = "record"

RerunOnlyUnknown ==
  [][\A b \in Branch :
       Runs(b) /\ name[b] \in Recorded
         => ~synced \/ Gives(name[b]) \in Repeated]_vars

(* "If task fails here, it resumes from the last successful trace"         *)
(* (README.md): a traced function whose outputs are recorded does not run  *)
(* again, once the informer is synchronized.                               *)
ResumesFromTrace ==
  [][\A b \in Branch : Runs(b) => ~(synced /\ service[name[b]] = "file")]_vars

(* The parent gets to its end: the semaphore, which calls of tasks and     *)
(* records of traces share, is given back on every path.                   *)
Completes == <>(parent = "done")
=============================================================================
