------------------------------ MODULE SubActions ------------------------------
(***************************************************************************)
(* What a parent action is promised about its sub-actions, with no worker, *)
(* queue, watch or retry in sight: it calls each of them once, the call    *)
(* ends with the outcome the service has recorded, or with an error when   *)
(* the service refuses the action, and nothing runs twice.                 *)
(***************************************************************************)
CONSTANT Action

VARIABLES
  call,     \* the parent's call: idle, pending, returned or cancelled
  outcome,  \* what a returned call has returned
  remote    \* the action at the service

vars == <<call, outcome, remote>>

Final == {"FINISHED", "ABORTED"}

Init ==
  /\ call = [a \in Action |-> "idle"]
  /\ outcome = [a \in Action |-> "none"]
  /\ remote \in [Action -> {"absent", "refused", "RUNNING", "FINISHED"}]

Call(a) ==
  /\ call[a] = "idle"
  /\ call' = [call EXCEPT ![a] = "pending"]
  /\ UNCHANGED <<outcome, remote>>

(* Only an action somebody has called is launched, and at most once; a     *)
(* cancelled call may still be launched, but a returned one may not.       *)
Launch(a) ==
  /\ call[a] \in {"pending", "cancelled"} /\ remote[a] = "absent"
  /\ \E p \in {"RUNNING", "FINISHED"} : remote' = [remote EXCEPT ![a] = p]
  /\ UNCHANGED <<call, outcome>>

End(a) ==
  /\ remote[a] = "RUNNING"
  /\ remote' = [remote EXCEPT ![a] = "FINISHED"]
  /\ UNCHANGED <<call, outcome>>

Abort(a) ==
  /\ call[a] = "cancelled" /\ remote[a] = "RUNNING"
  /\ remote' = [remote EXCEPT ![a] = "ABORTED"]
  /\ UNCHANGED <<call, outcome>>

Return(a) ==
  /\ call[a] = "pending"
  /\ \/ remote[a] \in Final /\ outcome' = [outcome EXCEPT ![a] = remote[a]]
     \/ remote[a] = "refused" /\ outcome' = [outcome EXCEPT ![a] = "error"]
  /\ call' = [call EXCEPT ![a] = "returned"]
  /\ UNCHANGED remote

Cancel(a) ==
  /\ call[a] = "pending"
  /\ call' = [call EXCEPT ![a] = "cancelled"]
  /\ UNCHANGED <<outcome, remote>>

Next == \E a \in Action : \/ Call(a) \/ Launch(a) \/ End(a)
                          \/ Abort(a) \/ Return(a) \/ Cancel(a)

Spec == Init /\ [][Next]_vars
=============================================================================
