---------------------------- MODULE MCParentReplay ----------------------------
(* Small programs for ParentReplay.                                        *)
EXTENDS ParentReplay

call(f, x) == [fn |-> f, input |-> x]

(* Two branches call the same task with the same input and then a traced   *)
(* function, each with its own input, which they reach in either order;    *)
(* what it gives for one of them is false in Python.                       *)
TwoBranches ==
  [b \in Branch |-> IF b = "b1" THEN <<call("task", "x"), call("trace", "x")>>
                    ELSE <<call("task", "x"), call("trace", "y")>>]

OneBranch == [b \in Branch |-> <<call("trace", "y"), call("task", "x")>>]

Results ==
  [f \in Fn |-> [x \in Input |-> CASE f \notin TraceFn -> "failed"
                                     [] f \in TraceFn /\ x = "x" -> "value"
                                     [] f \in TraceFn /\ x # "x" -> "falsy"]]

(* Every function has a name of its own ...                                *)
OwnNames == [f \in Fn |-> f]

(* ... or "again" is another object with the spec of "task", as            *)
(* task.override() makes them.                                             *)
SameSpec == [f \in Fn |-> IF f = "again" THEN "task" ELSE f]

Overridden ==
  [b \in Branch |-> IF b = "b1" THEN <<call("trace", "x"), call("task", "x")>>
                    ELSE <<call("again", "x")>>]

OverriddenResults ==
  [f \in Fn |-> [x \in Input |-> IF f \in TraceFn THEN "value" ELSE "succeeded"]]
=============================================================================
