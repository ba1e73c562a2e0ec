---------------------------- MODULE RunWatchProofs ----------------------------
(***************************************************************************)
(* Proofs about RunWatch, for any number of attempts, lines, calls,        *)
(* retries and faults.                                                     *)
(***************************************************************************)
EXTENDS RunWatch, TLAPS

(* The action at the service, and the lines that were yielded.             *)
ActionTyped ==
  action \in [phase : {"queued", "running", "done"}, attempts : 0..MaxAttempts,
              available : SUBSET Attempts]
BegunIfRunning == Running(action) => action.attempts > 0
LogTyped       == log \in [Attempts -> Nat]
TailTyped      == position \in Nat /\ shown \in Seq(Nat)

(* What the user knew to be done is done, and the details say so; only     *)
(* then does a wait report without a watch.                                *)
KnownDone == Done(known) => Done(action) /\ (details = None \/ Done(details))
Reports   == pc = "report" => Done(known)

(* The lines since the stream was opened are the last ones shown; and one  *)
(* that has come to its end is of an attempt to which nothing is added.    *)
InStep ==
  /\ position <= Len(shown)
  /\ \A k \in 1..position : shown[Len(shown) - position + k] = k
AtTheEnd ==
  pc = "tailed" /\ ~cut => attempt \in Attempts /\ Finished(attempt) /\ position = log[attempt]

Inv == /\ ActionTyped /\ BegunIfRunning /\ LogTyped /\ TailTyped
       /\ KnownDone /\ Reports /\ WaitReached /\ InStep /\ AtTheEnd

LEMMA InitInv == Init => Inv
<1> SUFFICES ASSUME Init PROVE Inv
  OBVIOUS
<1>1. ActionTyped /\ BegunIfRunning
  BY ConstantsAssumption DEF Init, ActionTyped, BegunIfRunning, Running, Queued, Ended, Attempts
<1>2. LogTyped /\ TailTyped /\ KnownDone /\ Reports
  BY DEF Init, LogTyped, TailTyped, KnownDone, Reports
<1>3. InStep
  BY DEF Init, InStep
<1>4. WaitReached /\ AtTheEnd
  BY DEF Init, WaitReached, AtTheEnd
<1> QED  BY <1>1, <1>2, <1>3, <1>4 DEF Inv

-----------------------------------------------------------------------------
(* What the service does to the action and to the logs.                    *)
LEMMA ServeKeeps ==
  ASSUME ActionTyped, BegunIfRunning, LogTyped, Serve
  PROVE  /\ ActionTyped' /\ BegunIfRunning' /\ LogTyped'
         /\ Done(action) => Done(action)'
         /\ action'.attempts >= action.attempts
         /\ \A k \in Attempts : Finished(k) => Finished(k)' /\ log'[k] = log[k]
<1> USE DEF ActionTyped, BegunIfRunning, LogTyped, Done, Running, Finished, Attempts
<1>1. CASE Begin
  <2>1. /\ action' = [action EXCEPT !.phase = "running", !.attempts = @ + 1]
        /\ action.phase # "done" /\ action.attempts < MaxAttempts /\ log' = log
    BY <1>1 DEF Begin
  <2>2. /\ action'.phase = "running" /\ action'.attempts = action.attempts + 1
        /\ action'.available = action.available
    BY <2>1
  <2>3. action.attempts + 1 \in 0..MaxAttempts
    BY <2>1, ConstantsAssumption
  <2>4. ActionTyped'
    BY <2>1, <2>3
  <2> QED  BY <2>1, <2>2, <2>4, ConstantsAssumption
<1>2. CASE Available
  <2>1. /\ action' = [action EXCEPT !.available = @ \cup {action.attempts}]
        /\ action.phase = "running" /\ log' = log
    BY <1>2 DEF Available
  <2>2. action.attempts \in Attempts
    BY <2>1, ConstantsAssumption
  <2>3. action'.phase = action.phase /\ action'.attempts = action.attempts
    BY <2>1
  <2>4. ActionTyped'
    BY <2>1, <2>2
  <2> QED  BY <2>1, <2>3, <2>4
<1>3. CASE WriteLine
  <2>1. /\ log' = [log EXCEPT ![action.attempts] = @ + 1]
        /\ action.phase = "running" /\ action' = action
    BY <1>3 DEF WriteLine
  <2>2. LogTyped'
    BY <2>1
  <2>3. \A k \in Attempts : Finished(k) => k # action.attempts
    BY <2>1, ConstantsAssumption
  <2> QED  BY <2>1, <2>2, <2>3
<1>4. CASE End
  <2>1. action' = [action EXCEPT !.phase = "done"] /\ log' = log
    BY <1>4 DEF End
  <2>2. action'.phase = "done" /\ action'.attempts = action.attempts
    BY <2>1
  <2>3. ActionTyped'
    BY <2>1
  <2> QED  BY <2>1, <2>2, <2>3
<1> QED  BY <1>1, <1>2, <1>3, <1>4 DEF Serve

LEMMA ServeInv == ASSUME Inv, Serve PROVE Inv'
<1>1. /\ ActionTyped /\ BegunIfRunning /\ LogTyped /\ TailTyped
      /\ KnownDone /\ Reports /\ WaitReached /\ InStep /\ AtTheEnd
  BY DEF Inv
<1>2. UNCHANGED <<known, details, wait_for, pc, attempt, position, shown, cut>>
  BY DEF Serve, callVars, tailVars
<1>3. ActionTyped' /\ BegunIfRunning' /\ LogTyped'
  BY <1>1, ServeKeeps
<1>4. TailTyped' /\ InStep'
  BY <1>1, <1>2 DEF TailTyped, InStep
<1>5. KnownDone' /\ Reports'
  BY <1>1, <1>2, ServeKeeps DEF KnownDone, Reports, Done
<1>6. WaitReached'
  <2>1. (Done(action) => Done(action)') /\ action'.attempts >= action.attempts
    BY <1>1, ServeKeeps
  <2>2. action.attempts \in Nat /\ action'.attempts \in Nat
    BY <1>1, <1>3, ConstantsAssumption DEF ActionTyped
  <2>3. Reached(action) => Reached(action)'
    BY <1>2, <2>1, <2>2 DEF Reached
  <2>4. Reached(details)' <=> Reached(details)
    BY <1>2 DEF Reached, Done
  <2> QED  BY <1>1, <1>2, <2>3, <2>4 DEF WaitReached
<1>7. AtTheEnd'
  BY <1>1, <1>2, ServeKeeps DEF AtTheEnd
<1> QED  BY <1>3, <1>4, <1>5, <1>6, <1>7 DEF Inv

-----------------------------------------------------------------------------
(* A line is shown: it is the next one.                                    *)
LEMMA LineInStep ==
  ASSUME TailTyped, InStep, position' = position + 1, shown' = Append(shown, position')
  PROVE  TailTyped' /\ InStep'
<1> USE DEF TailTyped
<1>1. TailTyped' /\ Len(shown') = Len(shown) + 1
  OBVIOUS
<1>2. position' <= Len(shown')
  BY <1>1 DEF InStep
<1>3. ASSUME NEW k \in 1..position' PROVE shown'[Len(shown') - position' + k] = k
  <2>1. Len(shown') - position' + k = Len(shown) - position + k
    BY <1>1
  <2>2. CASE k = position'
    BY <1>1, <2>1, <2>2
  <2>3. CASE k \in 1..position
    <3>1. Len(shown) - position + k \in 1..Len(shown)
      BY <2>3 DEF InStep
    <3>2. shown[Len(shown) - position + k] = k
      BY <2>3 DEF InStep
    <3>3. \A j \in 1..Len(shown) : shown'[j] = shown[j]
      OBVIOUS
    <3>4. shown'[Len(shown) - position + k] = k
      BY <3>1, <3>2, <3>3
    <3> QED  BY <2>1, <3>4
  <2>4. k = position' \/ k \in 1..position
    BY <1>3
  <2> QED  BY <2>2, <2>3, <2>4
<1> QED  BY <1>1, <1>2, <1>3 DEF InStep

LEMMA UserInv == ASSUME Inv, User PROVE Inv'
<1>1. /\ ActionTyped /\ BegunIfRunning /\ LogTyped /\ TailTyped
      /\ KnownDone /\ Reports /\ WaitReached /\ InStep /\ AtTheEnd
  BY DEF Inv
<1>2. UNCHANGED <<action, log, known>>
  BY DEF User, Call, CheckLogs, Report, DetailsFail, WatchUpdate, WatchCut, WatchFails, OpenTail, TailLine,
         TailEnds, TailCut, TailNotFound, TailFails, Reopen, Awake, serverVars
<1>3. ActionTyped' /\ BegunIfRunning' /\ LogTyped'
  BY <1>1, <1>2 DEF ActionTyped, BegunIfRunning, LogTyped, Running, Done
<1>4. details' \in {details, action} /\ (WatchUpdate => details' = action)
  BY DEF User, Call, CheckLogs, Report, DetailsFail, WatchUpdate, Noted, WatchCut, WatchFails, OpenTail,
         GetDetails, TailLine, TailEnds, TailCut, TailNotFound, TailFails, Reopen, Awake
<1>5. KnownDone'
  BY <1>1, <1>2, <1>4 DEF KnownDone, Done
<1>6. Reports'
  BY <1>1, <1>2
  DEF Reports, User, Call, CheckLogs, Report, DetailsFail, WatchUpdate, WatchEnds, WatchCut, WatchFails,
      OpenTail, TailLine, TailEnds, TailCut, TailNotFound, TailFails, Reopen, Awake
<1>7. TailTyped' /\ InStep'
  <2>1. CASE TailLine
    BY <1>1, <2>1, LineInStep DEF TailLine
  <2>2. CASE position' = 0 /\ (shown' = shown \/ shown' = <<>>)
    <3>1. TailTyped'
      <4>1. shown \in Seq(Nat) /\ <<>> \in Seq(Nat) /\ 0 \in Nat
        BY <1>1 DEF TailTyped
      <4> QED  BY <2>2, <4>1 DEF TailTyped
    <3>2. position' <= Len(shown') /\ 1..position' = {}
      BY <2>2, <3>1 DEF TailTyped
    <3> QED  BY <3>1, <3>2 DEF InStep
  <2>3. CASE UNCHANGED <<position, shown>>
    BY <1>1, <2>3 DEF TailTyped, InStep
  <2> QED
    BY <2>1, <2>2, <2>3
    DEF User, Call, CheckLogs, Report, DetailsFail, WatchUpdate, WatchCut, WatchFails, OpenTail, TailEnds,
        TailCut, TailNotFound, TailFails, Reopen, Restarted, Awake, tailVars
<1>8. WaitReached'
  <2> SUFFICES ASSUME pc' = "waited", ~cut'
               PROVE  Reached(action)' /\ (details' = None \/ Reached(details)')
    BY DEF WaitReached
  <2>1. CASE (Call \/ Report) /\ Done(known)
    BY <1>2, <1>5, <2>1 DEF KnownDone, Reached, Done
  <2>2. CASE WatchUpdate
    <3>1. Done(action) \/ (wait_for = "running" /\ action.attempts > 0)
      BY <1>1, <2>2 DEF WatchUpdate, WatchEnds, Enough, BegunIfRunning
    <3>2. action' = action /\ details' = action /\ wait_for' = wait_for
      BY <1>2, <1>4, <2>2 DEF WatchUpdate, callVars
    <3> QED  BY <3>1, <3>2 DEF Reached, Done
  <2>3. CASE WatchCut
    BY <2>3 DEF WatchCut
  <2> QED
    BY <1>1, <2>1, <2>2, <2>3
    DEF User, Reports, Call, Report, CheckLogs, DetailsFail, WatchFails, OpenTail, TailLine, TailEnds, TailCut,
        TailNotFound, TailFails, Reopen, Awake
<1>9. AtTheEnd'
  <2>1. CASE TailEnds
    <3>1. attempt \in action.available /\ attempt' = attempt /\ position' = position
          /\ Finished(attempt) /\ position = log[attempt]
      BY <2>1 DEF TailEnds, Open, tailVars
    <3>2. attempt \in Attempts
      BY <1>1, <3>1 DEF ActionTyped
    <3> QED  BY <1>2, <3>1, <3>2 DEF AtTheEnd, Finished, Done
  <2>2. CASE ~TailEnds
    <3>1. pc' # "tailed" \/ cut'
      BY <2>2
      DEF User, Call, CheckLogs, Report, DetailsFail, WatchUpdate, WatchEnds, WatchCut, WatchFails, OpenTail,
          TailLine, TailCut, TailNotFound, TailFails, Reopen, Awake
    <3> QED  BY <3>1 DEF AtTheEnd
  <2> QED  BY <2>1, <2>2
<1> QED  BY <1>3, <1>5, <1>6, <1>7, <1>8, <1>9 DEF Inv

LEMMA NextInv == Inv /\ [Next]_vars => Inv'
<1> SUFFICES ASSUME Inv, [Next]_vars PROVE Inv'
  OBVIOUS
<1>1. CASE Serve
  BY <1>1, ServeInv
<1>2. CASE User
  BY <1>2, UserInv
<1>3. CASE UNCHANGED vars
  <2>1. UNCHANGED <<action, log, known, details, wait_for, pc, attempt, position, shown, cut>>
    BY <1>3 DEF vars, serverVars, callVars, tailVars
  <2> QED
    BY <2>1
    DEF Inv, ActionTyped, BegunIfRunning, LogTyped, TailTyped, KnownDone, Reports, WaitReached, Reached,
        InStep, AtTheEnd, Running, Done, Finished
<1> QED  BY <1>1, <1>2, <1>3 DEF Next

LEMMA InvShows == Inv => WaitReached /\ TailComplete
<1> SUFFICES ASSUME Inv, pc = "tailed", ~cut PROVE TailComplete
  BY DEF Inv, TailComplete
<1>1. position = log[attempt] /\ InStep
  BY DEF Inv, AtTheEnd
<1> QED  BY <1>1 DEF TailComplete, InStep, Inv, TailTyped

(* A wait that returns and was not cut short (Action.wait): the action at  *)
(* the service has reached what was waited for, and the details the user's *)
(* object keeps of it are not older than that.                             *)
THEOREM WaitReachedAlways == Spec => []WaitReached
<1> QED  BY InitInv, NextInv, InvShows, PTL DEF Spec

(* A tail that ends and was not cut short (Logs.tail) has shown the whole  *)
(* log at its end, however often the stream was opened again.              *)
THEOREM TailCompleteAlways == Spec => []TailComplete
<1> QED  BY InitInv, NextInv, InvShows, PTL DEF Spec
=============================================================================
