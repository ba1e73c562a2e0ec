------------------------------- MODULE RunWatch -------------------------------
(***************************************************************************)
(* A user who waits for a run or shows its logs (remote/_action.py,        *)
(* remote/_logs.py): Action.wait watches the action, Action.show_logs      *)
(* waits for logs if it has to and then tails those of one attempt,        *)
(* opening the stream again after errors.                                  *)
(*                                                                         *)
(* The service: an action is queued, runs one attempt after another, and   *)
(* is done, at any time.  A log line is its number in the log of its attempt.  A log    *)
(* becomes available some time after its attempt has begun.                *)
(***************************************************************************)
EXTENDS Naturals, Sequences

CONSTANTS
  Retry,        \* the retries of Logs.tail
  MaxAttempts,  \* attempts of the action
  MaxLines,     \* lines in a log
  MaxCalls,     \* calls of the user
  MaxFaults     \* failed requests and streams, and interruptions

ASSUME ConstantsAssumption ==
  /\ Retry \in Nat \ {0} /\ MaxAttempts \in Nat \ {0}
  /\ MaxLines \in Nat /\ MaxCalls \in Nat /\ MaxFaults \in Nat

Attempts == 1..MaxAttempts

VARIABLES
  action,    \* the action at the service: phase, attempts, whose logs can be read
  log,       \* the lines of each attempt
  known,     \* the action when the user's object of it was made (pb2)
  wait_for,  \* what the user waits for; "logs" is show_logs
  details,   \* Action._details, or None
  asked,     \* the attempt the user asked for, 0 if none
  pc,
  attempt, position, retries,  \* the stream of Logs.tail
  shown,     \* the lines that were yielded
  cut,       \* was the watch or the tail ended by the service (CANCELLED) or its caller?
  calls, faults

serverVars == <<action, log, known>>
callVars   == <<wait_for, asked, calls>>
tailVars   == <<attempt, position, retries, shown>>
vars == <<serverVars, callVars, details, pc, tailVars, cut, faults>>

None == [phase |-> "none", attempts |-> 0, available |-> {}]

Queued == [phase |-> "queued", attempts |-> 0, available |-> {}]
Ended  == [phase |-> "done", attempts |-> 1, available |-> {1}]

Done(ad)           == ad.phase = "done"
Running(ad)        == ad.phase = "running"
logs_available(ad) == ad.attempts \in ad.available

Wishes == [wait_for : {"terminal", "running"}, asked : {0}] \cup [wait_for : {"logs"}, asked : {0, 1}]

Init ==
  /\ action \in {Queued, Ended} /\ known = action /\ log = [k \in Attempts |-> 0]
  /\ wait_for = "none" /\ asked = 0
  /\ details = None
  /\ pc = "idle"
  /\ attempt = 0 /\ position = 0 /\ retries = 0 /\ shown = <<>>
  /\ cut = FALSE /\ calls = 0 /\ faults = 0

Fault == faults < MaxFaults /\ faults' = faults + 1

-----------------------------------------------------------------------------
(* The service.                                                            *)
Begin ==
  /\ ~Done(action) /\ action.attempts < MaxAttempts
  /\ action' = [action EXCEPT !.phase = "running", !.attempts = @ + 1]
  /\ UNCHANGED log

Available ==
  /\ Running(action) /\ action.attempts \notin action.available
  /\ action' = [action EXCEPT !.available = @ \cup {action.attempts}]
  /\ UNCHANGED log

WriteLine ==
  /\ Running(action) /\ log[action.attempts] < MaxLines
  /\ log' = [log EXCEPT ![action.attempts] = @ + 1]
  /\ UNCHANGED action

End ==
  /\ ~Done(action)
  /\ action' = [action EXCEPT !.phase = "done"]
  /\ UNCHANGED log

Serve ==
  /\ Begin \/ Available \/ WriteLine \/ End
  /\ UNCHANGED <<known, callVars, details, pc, tailVars, cut, faults>>

-----------------------------------------------------------------------------
(* Action.wait watches unless the action is done, and may then have to get *)
(* the details to say how; Action.show_logs begins with the details it     *)
(* has, or gets.                                                           *)
Call ==
  /\ pc \in {"idle", "waited", "tailed", "raised"} /\ calls < MaxCalls /\ calls' = calls + 1
  /\ \E w \in Wishes :
       /\ wait_for' = w.wait_for /\ asked' = w.asked
       /\ pc' \in IF w.wait_for = "logs" THEN {"details"}
                 ELSE IF Done(known) THEN {"waited", "report"} ELSE {"watching"}
  /\ attempt' = 0 /\ position' = 0 /\ retries' = 0 /\ shown' = <<>> /\ cut' = FALSE
  /\ UNCHANGED <<serverVars, details, faults>>

GetDetails == IF details = None THEN action ELSE details

(* Not running and not done: wait for logs, and look again.                *)
CheckLogs ==
  /\ pc = "details"
  /\ details' = GetDetails
  /\ pc' = IF ~Running(details') /\ ~Done(details') THEN "watching" ELSE "tail"
  /\ UNCHANGED <<serverVars, callVars, tailVars, cut, faults>>

Report ==
  /\ pc = "report" /\ pc' = "waited"
  /\ details' = GetDetails
  /\ UNCHANGED <<serverVars, callVars, tailVars, cut, faults>>

(* The request of the details fails, or is cancelled.                      *)
DetailsFail ==
  /\ pc \in {"details", "tail", "report"} /\ details = None /\ Fault
  /\ pc' = "raised"
  /\ UNCHANGED <<serverVars, callVars, details, tailVars, cut>>

(* An update: the watch ends when the action is done, or when it is what   *)
(* the user waits for.                                                     *)
EveryUpdate(ad) == TRUE
NeverDone(ad) ==
  \/ wait_for = "running" /\ Running(ad)
  \/ wait_for = "logs" /\ logs_available(ad)
Enough(ad) ==
  \/ Done(ad)
  \/ wait_for = "running" /\ Running(ad)
  \/ wait_for = "logs" /\ logs_available(ad)

WatchEnds == pc' = IF wait_for = "logs" THEN "tail" ELSE "waited"

NotedLate(ad) == IF Enough(ad) THEN details ELSE ad
Noted(ad)     == ad

WatchUpdate ==
  /\ pc = "watching"
  /\ details' = Noted(action)
  /\ IF Enough(action) THEN WatchEnds ELSE UNCHANGED pc
  /\ UNCHANGED <<serverVars, callVars, tailVars, cut, faults>>

(* The service ends the stream: an error is raised, except CANCELLED.  And *)
(* wait takes a CancelledError or KeyboardInterrupt for its own end.       *)
WatchCut ==
  /\ pc = "watching" /\ Fault /\ cut' = TRUE /\ WatchEnds
  /\ UNCHANGED <<serverVars, callVars, details, tailVars>>

WatchFails ==
  /\ pc = "watching" /\ Fault /\ pc' = "raised"
  /\ UNCHANGED <<serverVars, callVars, details, tailVars, cut>>

(* The attempt to show is the one asked for, or the last one known, even   *)
(* if the wait before was cut.                                             *)
OpenTail ==
  /\ pc = "tail"
  /\ details' = GetDetails
  /\ attempt' = IF asked # 0 THEN asked ELSE details'.attempts
  /\ pc' = IF attempt' < 1 THEN "raised" ELSE "tailing"
  /\ cut' = FALSE
  /\ UNCHANGED <<serverVars, callVars, position, retries, shown, faults>>

-----------------------------------------------------------------------------
(* Logs.tail: the stream gives the lines from the first; the service ends  *)
(* it after the last.                                                      *)
Open(k)     == k \in action.available
Finished(k) == Done(action) \/ action.attempts > k

TailLine ==
  /\ pc = "tailing" /\ Open(attempt) /\ position < log[attempt]
  /\ position' = position + 1
  /\ shown' = Append(shown, position')
  /\ UNCHANGED <<serverVars, callVars, details, pc, attempt, retries, cut, faults>>

TailEnds ==
  /\ pc = "tailing" /\ Open(attempt) /\ Finished(attempt) /\ position = log[attempt]
  /\ pc' = "tailed"
  /\ UNCHANGED <<serverVars, callVars, details, tailVars, cut, faults>>

(* A CancelledError or KeyboardInterrupt ends the tail like its last line, *)
(* but not the sleep.                                                      *)
TailCut ==
  /\ pc \in {"tailing", "sleeping"} /\ Fault
  /\ pc' = IF pc = "tailing" THEN "tailed" ELSE "raised"
  /\ cut' = TRUE
  /\ UNCHANGED <<serverVars, callVars, details, tailVars>>

(* An error: sleep and open the stream again, from the first line.  When   *)
(* the retries are used up, an error NOT_FOUND is raised, and any other is *)
(* tried again at once, for ever.                                          *)
AtNewLine == log[attempt]
Restarted == 0

Reopen(notFound) ==
  /\ retries' = retries + 1
  /\ position' = Restarted
  /\ pc' = IF retries' < Retry THEN "sleeping" ELSE IF notFound THEN "raised" ELSE "tailing"
  /\ UNCHANGED <<serverVars, callVars, details, attempt, shown, cut>>

TailNotFound ==
  pc = "tailing" /\ ~Open(attempt) /\ Reopen(TRUE) /\ UNCHANGED faults
TailFails == pc = "tailing" /\ Fault /\ Reopen(FALSE)

Awake ==
  /\ pc = "sleeping" /\ pc' = "tailing"
  /\ UNCHANGED <<serverVars, callVars, details, tailVars, cut, faults>>

User ==
  \/ Call \/ CheckLogs \/ Report \/ DetailsFail \/ WatchUpdate \/ WatchCut \/ WatchFails
  \/ OpenTail \/ TailLine \/ TailEnds \/ TailCut \/ TailNotFound \/ TailFails \/ Awake

Next == Serve \/ User

Spec == Init /\ [][Next]_vars

(* The service gets on with the action and answers the user.               *)
Fairness == WF_vars(Serve) /\ WF_vars(User)
FairSpec == Spec /\ Fairness
-----------------------------------------------------------------------------
(* Action.wait: when a wait that was not cut returns, the action is where  *)
(* it was waited for, and so is what the user's object says of it: its     *)
(* details, if there are any, are not from before.                         *)
Reached(ad) == Done(ad) \/ (wait_for = "running" /\ ad.attempts > 0)

WaitReached ==
  pc = "waited" /\ ~cut => Reached(action) /\ (details = None \/ Reached(details))

(* "Wait for the run to complete" (Action.wait).  False: a wait that the   *)
(* service cuts off or that is cancelled, as by asyncio.wait_for, returns  *)
(* as well, while the action goes on.                                      *)
WaitMeansDone == pc = "waited" /\ wait_for = "terminal" => Done(action)

(* However often the stream was opened again, when it ends and was not cut *)
(* all lines of the attempt have been shown, in order, at the end of what  *)
(* was shown.                                                              *)
TailComplete ==
  pc = "tailed" /\ ~cut =>
    LET n == log[attempt] IN
      /\ Len(shown) >= n
      /\ \A k \in 1..n : shown[Len(shown) - n + k] = k

(* Each call returns or raises, once the service no longer fails.          *)
Waiting == pc \notin {"idle", "waited", "tailed", "raised"}
CallsReturn == Waiting ~> ~Waiting
=============================================================================
