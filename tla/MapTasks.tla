------------------------------- MODULE MapTasks -------------------------------
(***************************************************************************)
(* flyte.map (_map.py): the tasks mapped over the arguments, and the       *)
(* consumer that pulls their results one by one.  On the platform all      *)
(* tasks are started by the first pull, and the iterator runs on the       *)
(* background loop; in a local run each task is called when it is pulled.  *)
(*                                                                         *)
(* A parameter is its position.  What a mapped task does is its own:       *)
(* it returns, fails, or is cancelled.                                     *)
(***************************************************************************)
EXTENDS Naturals, Sequences, FiniteSets

CONSTANTS
  MaxTasks,   \* argument tuples
  MaxParams   \* parameters of the mapped function

ASSUME MapConstants == MaxTasks \in Nat /\ MaxParams \in Nat \ {0}

Partials == [params : 1..MaxParams, args : 0..MaxParams, keywords : SUBSET (1..MaxParams)]

VARIABLES
  partial,            \* the partial function that is mapped
  local, isAsync,     \* is the run local?  is the task async?
  return_exceptions,
  count,              \* argument tuples
  task,               \* each mapped task
  current,            \* _current_index
  pc,                 \* the consumer and the iterator it pulls from
  results             \* what was yielded: kind and index

inputVars == <<partial, local, isAsync, return_exceptions, count>>
mapVars == <<inputVars, task, current, pc, results>>

MapInit ==
  /\ partial \in {p \in Partials : p.args <= p.params /\ p.keywords \subseteq 1..p.params}
  /\ local \in BOOLEAN /\ isAsync \in BOOLEAN /\ return_exceptions \in BOOLEAN
  /\ count \in 0..MaxTasks
  /\ task = [i \in 1..count |-> "none"]
  /\ current = 0
  /\ pc = "new" /\ results = <<>>

(* validate_partial: one parameter is left, and it is the next positional  *)
(* one, where the mapped argument goes.                                    *)
Taken(p) == 1..(p.args + 1)

validate_partial(p) ==
  /\ p.params = p.args + Cardinality(p.keywords) + 1
  /\ Taken(p) \cap p.keywords = {}

StartMap ==
  /\ pc = "new"
  /\ pc' = IF validate_partial(partial) THEN "between" ELSE "refused"
  /\ UNCHANGED <<inputVars, task, current, results>>

-----------------------------------------------------------------------------
(* The next result is asked for; the first time all tasks are created.     *)
Exhausted == pc = "between" /\ current = count /\ pc' = "ended"
             /\ UNCHANGED <<inputVars, task, current, results>>

Pull ==
  /\ pc = "between" /\ ~local /\ current < count
  /\ task' = IF current = 0 THEN [i \in 1..count |-> "running"] ELSE task
  /\ current' = current + 1
  /\ pc' = "awaiting"
  /\ UNCHANGED <<inputVars, results>>

(* In a local run the task is called: an async one gives its coroutine,    *)
(* which is yielded.                                                       *)
PullLocal ==
  /\ pc = "between" /\ local /\ current < count
  /\ current' = current + 1
  /\ IF isAsync
     THEN results' = Append(results, <<"coroutine", current'>>) /\ UNCHANGED <<task, pc>>
     ELSE task' = [task EXCEPT ![current'] = "running"] /\ pc' = "awaiting" /\ UNCHANGED results
  /\ UNCHANGED inputVars

TaskEnds(i) ==
  /\ task[i] = "running" /\ \E end \in {"done", "failed"} : task' = [task EXCEPT ![i] = end]
  /\ UNCHANGED <<inputVars, current, pc, results>>

TaskCancelled(i) ==
  /\ task[i] = "cancelling" /\ task' = [task EXCEPT ![i] = "cancelled"]
  /\ UNCHANGED <<inputVars, current, pc, results>>

(* The awaited task has ended (__anext__).                                 *)
Succeeded(i) == task[i] = "done"
Outcome(i)   == task[i] \in {"done", "failed"}

Yield ==
  /\ pc = "awaiting" /\ Outcome(current)
  /\ task[current] = "done" \/ return_exceptions
  /\ results' = Append(results, <<task[current], current>>)
  /\ pc' = "between"
  /\ UNCHANGED <<inputVars, task, current>>

(* The remaining tasks, from the one after the next: the index is already  *)
(* that of the next.                                                       *)
NextOnly == {current + 2}
Rest     == (current + 2)..count

Cancelled(S) ==
  [i \in 1..count |-> IF i \in S /\ task[i] = "running" THEN "cancelling" ELSE task[i]]

Raise ==
  /\ pc = "awaiting" /\ task[current] = "failed" /\ ~return_exceptions
  /\ task' = IF local THEN task ELSE Cancelled(Rest)
  /\ pc' = "raised"
  /\ UNCHANGED <<inputVars, current, results>>

(* The consumer leaves its loop, or is cancelled while it waits, which     *)
(* cancels the task it waits for.                                          *)
Leave ==
  /\ pc = "between" /\ current > 0 /\ pc' = "left"
  /\ UNCHANGED <<inputVars, task, current, results>>

CancelConsumer ==
  /\ pc = "awaiting" /\ ~local /\ task[current] = "running"
  /\ task' = Cancelled({current})
  /\ pc' = "left"
  /\ UNCHANGED <<inputVars, current, results>>

Consume == StartMap \/ Exhausted \/ Pull \/ PullLocal \/ Yield \/ Raise
MapNext ==
  \/ Consume \/ Leave \/ CancelConsumer
  \/ \E i \in 1..count : TaskEnds(i) \/ TaskCancelled(i)

MapSpec == MapInit /\ [][MapNext]_mapVars

(* The consumer goes on, mapped tasks end.                                 *)
MapFairness ==
  /\ WF_mapVars(Consume)
  /\ \A i \in 1..MaxTasks : WF_mapVars(i <= count /\ (TaskEnds(i) \/ TaskCancelled(i)))
MapFairSpec == MapSpec /\ MapFairness

-----------------------------------------------------------------------------
(* "Cancel remaining tasks": after an exception is raised to the consumer, *)
(* no task goes on uncancelled except the one next in line.                *)
RestCancelled ==
  pc = "raised" => \A i \in 1..count : task[i] = "running" => i = current + 1

(* A consumer gets to the end, an error or a refusal, or leaves; and no    *)
(* task is left running or cancelled half-way.  At the end it has got one  *)
(* result for each argument, in their order.                               *)
MapEnds ==
  <>[](/\ pc \in {"ended", "raised", "left", "refused"}
       /\ \A i \in 1..count : task[i] \notin {"running", "cancelling"}
       /\ pc = "ended" => /\ Len(results) = count
                          /\ \A k \in 1..count : results[k][2] = k)
=============================================================================
