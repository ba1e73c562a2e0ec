----------------------------- MODULE ReplayProofs -----------------------------
(***************************************************************************)
(* Proofs about ParentReplay, for every program, any number of branches,   *)
(* attempts and faults.  The invariant of names and files (ReplayInv)      *)
(* comes first; the counting of calls (OrderInv), which bounds the numbers *)
(* in names over all attempts, rests on it, and on both what one attempt   *)
(* knows of the records of the others (RerunInv).                          *)
(***************************************************************************)
EXTENDS ParentReplay, FiniteSetTheorems, TLAPS

Places   == {"idle", "lookup", "body", "record", "permit", "sending", "waiting"}
CallName == [fn : Fn, input : Input, seq : Nat]
States   == {"absent", "running", "succeeded", "failed", "aborted", "file", "empty"}

(* The types the arguments below need.  The bounds of TypeOK, which count  *)
(* calls, are not among them.                                              *)
Shape ==
  /\ sequence \in [Fn -> Nat]
  /\ next \in [Branch -> Nat \ {0}]
  /\ at \in [Branch -> Places]
  /\ name \in [Branch -> CallName \cup {NoName}]
  /\ made \in [Branch -> {"nothing", "output", "error"}]
  /\ service \in [Name -> States]

(* No two functions have one name.                                         *)
Injective == \A f, g \in Fn : Hash[f] = Hash[g] => f = g

(* The counter of a function is not behind any call of it in progress.     *)
Numbered ==
  \A b \in Branch :
    name[b] # NoName => FnOf(b) \in Fn /\ name[b].seq <= sequence[FnOf(b)]

(* What a traced function gives is there from its end to the end of the    *)
(* call only, ...                                                          *)
Unmade == \A b \in Branch : at[b] \in {"idle", "lookup"} => made[b] = "nothing"

(* ... and once it is about to be recorded, its file has been written.     *)
Uploaded ==
  \A b \in Branch : at[b] \in {"permit", "sending", "waiting"} /\ HasFile(b)
                      => name[b] \in outputs

(* Before a trace is recorded its function has run, and the error recorded *)
(* is that of the function or of an upload.                                *)
Told ==
  \A b \in Branch : at[b] \in {"record", "permit", "sending", "waiting"} /\ IsTrace(b) =>
    /\ made[b] # "nothing"
    /\ made[b] = "error" => Gives(name[b]) = "error" \/ name[b] \in lost

(* Only tasks run at the service.                                          *)
TasksRun == \A n \in Name : service[n] = "running" => n.fn \notin TraceFn

ReplayInv == /\ Shape /\ Numbered /\ NamesDiffer
             /\ Unmade /\ Uploaded /\ Told /\ TasksRun /\ RecordedHasOutputs

-----------------------------------------------------------------------------
(* What the invariant reads, and the program, which does not change.       *)
Read == <<sequence, next, at, name, made, service, outputs, lost>>

LEMMA CallTyped ==
  ASSUME NEW b \in Branch, next \in [Branch -> Nat \ {0}], next[b] <= Len(Program[b])
  PROVE  Program[b][next[b]] \in [fn : Fn, input : Input]
<1>1. Program[b] \in Seq([fn : Fn, input : Input])
  BY ProgramAssumption
<1> DEFINE S == [fn : Fn, input : Input]
<1> HIDE DEF S
<1>2. \A s \in Seq(S) : \A i \in 1..Len(s) : s[i] \in S
  OBVIOUS
<1>3. next[b] \in 1..Len(Program[b])
  BY <1>1
<1> QED  BY <1>1, <1>2, <1>3 DEF S

LEMMA Untouched ==
  ASSUME ReplayInv, UNCHANGED Read
  PROVE  ReplayInv'
  BY DEF ReplayInv, Read, Shape, Numbered, NamesDiffer, FnOf, Unmade, Uploaded, HasFile, Told,
         IsTrace, TasksRun, RecordedHasOutputs

LEMMA InitHolds == Init => ReplayInv
  BY DEF Init, ReplayInv, Shape, Places, States, Numbered, NamesDiffer, Unmade, Uploaded, HasFile,
         Told, TasksRun, RecordedHasOutputs

LEMMA CrashKeeps == ReplayInv /\ Crash => ReplayInv'
  BY DEF Crash, outside, ReplayInv, Shape, Places, Numbered, NamesDiffer, Unmade, Uploaded,
         HasFile, Told, TasksRun, RecordedHasOutputs

LEMMA CallKeeps ==
  ASSUME ReplayInv, NEW b \in Branch, Call(b)
  PROVE  ReplayInv'
<1> DEFINE c == Program[b][next[b]]
<1>1. c \in [fn : Fn, input : Input] /\ at[b] = "idle" /\ c = CallAt(<<b, next[b]>>)
  BY CallTyped DEF Call, At, ReplayInv, Shape, CallAt
<1>0. Hash[c.fn] \in Fn /\ (Hash[c.fn] \in TraceFn <=> c.fn \in TraceFn)
  BY <1>1, ProgramAssumption
<1>2. /\ sequence' = [sequence EXCEPT ![c.fn] = sequence[c.fn] + 1]
      /\ name' = [name EXCEPT ![b] = [fn |-> Hash[c.fn], input |-> c.input, seq |-> sequence[c.fn] + 1]]
      /\ at' = [at EXCEPT ![b] = IF c.fn \in TraceFn THEN "lookup" ELSE "permit"]
      /\ UNCHANGED <<next, made, service, outputs, lost>>
  BY DEF Call, CallNumber, Go, outside
<1> HIDE DEF c
<1>3. Shape'
  BY <1>0, <1>1, <1>2 DEF ReplayInv, Shape, CallName, Places
<1>4. \A d \in Branch : FnOf(d)' = FnOf(d)
  BY <1>2 DEF FnOf
<1>5. FnOf(b) = c.fn
  BY <1>1 DEF FnOf
<1>6. \A f \in Fn : sequence[f] \in Nat /\ sequence[f] <= sequence'[f]
  BY <1>1, <1>2 DEF ReplayInv, Shape
<1>7. Numbered'
  <2>1. ASSUME NEW d \in Branch, name'[d] # NoName
        PROVE  FnOf(d)' \in Fn /\ name'[d].seq <= sequence'[FnOf(d)']
    <3>1. CASE d = b
      BY <1>1, <1>2, <1>4, <1>5, <3>1 DEF ReplayInv, Shape
    <3>2. CASE d # b
      <4>1. name'[d] = name[d] /\ name[d].seq \in Nat
        BY <1>2, <2>1, <3>2 DEF ReplayInv, Shape, CallName
      <4>2. FnOf(d) \in Fn /\ name[d].seq <= sequence[FnOf(d)]
        BY <2>1, <4>1 DEF ReplayInv, Numbered
      <4>3. sequence[FnOf(d)] \in Nat /\ sequence'[FnOf(d)] \in Nat
            /\ sequence[FnOf(d)] <= sequence'[FnOf(d)]
        BY <1>3, <1>6, <4>2 DEF Shape
      <4> QED  BY <1>4, <4>1, <4>2, <4>3
    <3> QED  BY <3>1, <3>2
  <2> QED  BY <2>1 DEF Numbered
<1>8. NamesDiffer'
  <2>1. ASSUME NEW d \in Branch \ {b}, name'[d] = name'[b], FnOf(d) = FnOf(b) PROVE FALSE
    <3>1. name[d] = name'[b] /\ name'[b].seq = sequence[c.fn] + 1 /\ name[d] # NoName
      BY <1>2, <2>1 DEF ReplayInv, Shape, NoName
    <3>2. name[d].seq <= sequence[c.fn]
      BY <1>5, <2>1, <3>1 DEF ReplayInv, Numbered
    <3> QED  BY <1>1, <1>6, <3>1, <3>2
  <2>2. \A d \in Branch \ {b} : name'[d] = name[d]
    BY <1>2 DEF ReplayInv, Shape
  <2> QED  BY <1>4, <2>1, <2>2 DEF ReplayInv, NamesDiffer
<1>9. Unmade'
  BY <1>1, <1>2 DEF ReplayInv, Shape, Unmade
<1>10. Uploaded'
  BY <1>1, <1>2 DEF ReplayInv, Shape, Unmade, Uploaded, HasFile
<1>11. Told'
  BY <1>0, <1>1, <1>2 DEF ReplayInv, Shape, Told, IsTrace
<1>12. TasksRun' /\ RecordedHasOutputs'
  BY <1>2 DEF ReplayInv, TasksRun, RecordedHasOutputs
<1> QED  BY <1>3, <1>7, <1>8, <1>9, <1>10, <1>11, <1>12 DEF ReplayInv

(* The end of a call, whatever it leaves at the service.                   *)
LEMMA AnswerKeeps ==
  ASSUME ReplayInv, NEW b \in Branch, Answer(b), UNCHANGED <<sequence, outputs, lost>>,
         service' \in [Name -> States], TasksRun', RecordedHasOutputs'
  PROVE  ReplayInv'
<1>1. Shape'
  BY DEF ReplayInv, Shape, Places, Answer, Go
<1>2. /\ name' = [name EXCEPT ![b] = NoName]
      /\ \A d \in Branch \ {b} : FnOf(d)' = FnOf(d)
  BY DEF Answer, FnOf, ReplayInv, Shape
<1>3. Numbered' /\ NamesDiffer'
  BY <1>2 DEF ReplayInv, Shape, Numbered, NamesDiffer
<1>4. Unmade'
  BY DEF ReplayInv, Shape, Unmade, Answer, Go
<1>5. Uploaded'
  BY DEF ReplayInv, Shape, Uploaded, HasFile, Answer, Go
<1>6. Told'
  BY DEF ReplayInv, Shape, Told, IsTrace, Answer, Go
<1> QED  BY <1>1, <1>3, <1>4, <1>5, <1>6 DEF ReplayInv

(* ... which is nothing new, mostly.                                       *)
LEMMA AnswerAsIs ==
  ASSUME ReplayInv, NEW b \in Branch, Answer(b), UNCHANGED <<sequence, service, outputs, lost>>
  PROVE  ReplayInv'
<1>1. service' \in [Name -> States] /\ TasksRun' /\ RecordedHasOutputs'
  BY DEF ReplayInv, Shape, TasksRun, RecordedHasOutputs
<1> QED  BY <1>1, AnswerKeeps

(* A branch that goes on, with the name and the counters it has.           *)
LEMMA GoKeeps ==
  ASSUME ReplayInv, NEW b \in Branch, NEW place \in Places, Go(b, place),
         UNCHANGED <<sequence, next, name, service>>,
         made' \in [Branch -> {"nothing", "output", "error"}],
         outputs \subseteq outputs', lost \subseteq lost',
         \A d \in Branch \ {b} : made'[d] = made[d],
         place \in {"idle", "lookup"} => made'[b] = "nothing",
         place \in {"permit", "sending", "waiting"} /\ HasFile(b)' => name[b] \in outputs',
         place \in {"record", "permit", "sending", "waiting"} /\ IsTrace(b) =>
           /\ made'[b] # "nothing"
           /\ made'[b] = "error" => Gives(name[b]) = "error" \/ name[b] \in lost'
  PROVE  ReplayInv'
<1>1. Shape'
  BY DEF ReplayInv, Shape, Go
<1>2. Numbered' /\ NamesDiffer'
  BY DEF ReplayInv, Numbered, NamesDiffer, FnOf
<1>3. Unmade'
  BY DEF ReplayInv, Shape, Unmade, Go
<1>4. Uploaded'
  BY DEF ReplayInv, Shape, Uploaded, HasFile, Go
<1>5. Told'
  BY DEF ReplayInv, Shape, Told, IsTrace, Go
<1>6. TasksRun' /\ RecordedHasOutputs'
  BY DEF ReplayInv, TasksRun, RecordedHasOutputs
<1> QED  BY <1>1, <1>2, <1>3, <1>4, <1>5, <1>6 DEF ReplayInv

LEMMA ServiceKeeps ==
  ASSUME ReplayInv, UNCHANGED <<sequence, next, at, name, made, outputs, lost>>,
         service' \in [Name -> States], TasksRun', RecordedHasOutputs'
  PROVE  ReplayInv'
  BY DEF ReplayInv, Shape, Numbered, NamesDiffer, FnOf, Unmade, Uploaded, HasFile, Told, IsTrace

LEMMA LookupKeeps ==
  ASSUME ReplayInv, NEW b \in Branch, Lookup(b)
  PROVE  ReplayInv'
<1>1. UNCHANGED <<sequence, service, outputs, lost>> /\ at[b] = "lookup"
  BY DEF Lookup, At, memory, outside
<1>2. CASE Answer(b)
  BY <1>1, <1>2, AnswerAsIs
<1>3. CASE Go(b, "body") /\ UNCHANGED <<next, name, made>>
  <2>1. made' \in [Branch -> {"nothing", "output", "error"}]
    BY <1>3 DEF ReplayInv, Shape
  <2> QED  BY <1>1, <1>3, <2>1, GoKeeps DEF Places
<1> QED  BY <1>2, <1>3 DEF Lookup

LEMMA BodyKeeps ==
  ASSUME ReplayInv, NEW b \in Branch, Body(b)
  PROVE  ReplayInv'
<1>1. UNCHANGED <<sequence, next, name, service, outputs, lost>> /\ Go(b, "record")
  BY DEF Body, memory, outside
<1>2. /\ made' \in [Branch -> {"nothing", "output", "error"}]
      /\ \A d \in Branch \ {b} : made'[d] = made[d]
      /\ made'[b] # "nothing" /\ (made'[b] = "error" => Gives(name[b]) = "error")
  BY DEF Body, ReplayInv, Shape
<1> QED  BY <1>1, <1>2, GoKeeps DEF Places

(* What was told of a branch at one of these places is still so.           *)
LEMMA StillTold ==
  ASSUME ReplayInv, NEW b \in Branch, at[b] \in {"record", "permit", "sending", "waiting"}, IsTrace(b)
  PROVE  /\ made[b] # "nothing"
         /\ made[b] = "error" => Gives(name[b]) = "error" \/ name[b] \in lost
  BY DEF ReplayInv, Told

LEMMA UploadKeeps ==
  ASSUME ReplayInv, NEW b \in Branch, Upload(b)
  PROVE  ReplayInv'
<1>1. UNCHANGED <<sequence, next, name, made, service, lost>> /\ Go(b, "permit") /\ at[b] = "record"
  BY DEF Upload, At, memory
<1>2. outputs \subseteq outputs' /\ (HasFile(b) => name[b] \in outputs')
  BY DEF Upload
<1>3. made' \in [Branch -> {"nothing", "output", "error"}]
  BY <1>1 DEF ReplayInv, Shape
<1>4. HasFile(b)' => HasFile(b)
  BY <1>1 DEF HasFile
<1> QED  BY <1>1, <1>2, <1>3, <1>4, StillTold, GoKeeps DEF Places

LEMMA UploadFailsKeeps ==
  ASSUME ReplayInv, NEW b \in Branch, UploadFails(b)
  PROVE  ReplayInv'
<1>1. UNCHANGED <<sequence, service, outputs>> /\ at[b] = "record"
  BY DEF UploadFails, At, memory
<1>2. CASE Answer(b) /\ UNCHANGED lost
  BY <1>1, <1>2, AnswerAsIs
<1>3. CASE /\ made' = [made EXCEPT ![b] = "error"] /\ lost' = lost \cup {name[b]}
           /\ UNCHANGED <<next, at, name>>
  <2>1. Go(b, "record")
    BY <1>1, <1>3 DEF Go, ReplayInv, Shape
  <2>2. /\ made' \in [Branch -> {"nothing", "output", "error"}] /\ made'[b] = "error"
        /\ \A d \in Branch \ {b} : made'[d] = made[d]
    BY <1>3 DEF ReplayInv, Shape
  <2> QED  BY <1>1, <1>3, <2>1, <2>2, GoKeeps DEF Places
<1> QED  BY <1>2, <1>3 DEF UploadFails

LEMMA AcquireKeeps ==
  ASSUME ReplayInv, NEW b \in Branch, Acquire(b)
  PROVE  ReplayInv'
<1>1. /\ UNCHANGED <<sequence, next, name, made, service, outputs, lost>>
      /\ Go(b, "sending") /\ at[b] = "permit"
  BY DEF Acquire, At, memory, outside
<1>2. made' \in [Branch -> {"nothing", "output", "error"}]
  BY <1>1 DEF ReplayInv, Shape
<1>3. HasFile(b)' => name[b] \in outputs'
  BY <1>1 DEF HasFile, ReplayInv, Uploaded
<1> QED  BY <1>1, <1>2, <1>3, StillTold, GoKeeps DEF Places

(* A request of a branch that is sending, or its abort, keeps what the     *)
(* service may have.                                                       *)
LEMMA SentKeeps ==
  ASSUME ReplayInv, NEW b \in Branch, UNCHANGED <<outputs, lost>>, NEW left \in {service[name[b]], Sent(b), "aborted"},
         left = Sent(b) => at[b] = "sending" \/ left = service[name[b]],
         service' = [service EXCEPT ![name[b]] = left]
  PROVE  service' \in [Name -> States] /\ TasksRun' /\ RecordedHasOutputs'
<1>1. Sent(b) \in {"running", "file", "empty"}
  BY DEF Sent
<1>2. \A n \in Name : service'[n] = service[n] \/ (n = name[b] /\ service'[n] = left)
  BY DEF ReplayInv, Shape
<1>3. service' \in [Name -> States]
  BY <1>1, <1>2 DEF ReplayInv, Shape, States
<1>4. TasksRun'
  BY <1>2 DEF ReplayInv, TasksRun, IsTrace, Sent
<1>5. at[b] = "sending" /\ Sent(b) = "file" => name[b] \in outputs
  BY DEF ReplayInv, Uploaded, Sent
<1>6. at[b] = "sending" /\ Sent(b) = "empty" => Gives(name[b]) \in {"error", "void"} \/ name[b] \in lost
  <2> SUFFICES ASSUME at[b] = "sending", Sent(b) = "empty" PROVE Gives(name[b]) \in {"error", "void"} \/ name[b] \in lost
    OBVIOUS
  <2>1. IsTrace(b) /\ ~HasFile(b)
    BY DEF Sent
  <2>2. made[b] \in {"nothing", "output", "error"}
    BY DEF ReplayInv, Shape
  <2> QED  BY <2>1, <2>2, StillTold DEF HasFile
<1>7. RecordedHasOutputs'
  BY <1>2, <1>5, <1>6 DEF ReplayInv, RecordedHasOutputs
<1> QED  BY <1>3, <1>4, <1>7

(* Recording: the service first, then the branch waits.                    *)
LEMMA SendKeeps ==
  ASSUME ReplayInv, NEW b \in Branch, Send(b)
  PROVE  ReplayInv'
<1>1. /\ UNCHANGED <<sequence, next, name, made, outputs, lost>> /\ at[b] = "sending"
      /\ at' = [at EXCEPT ![b] = "waiting"]
      /\ service' = [service EXCEPT ![name[b]] = IF Unsent(name[b]) THEN Sent(b) ELSE service[name[b]]]
  BY DEF Send, At, Go, memory
<1>2. service' \in [Name -> States] /\ TasksRun' /\ RecordedHasOutputs'
  BY <1>1, SentKeeps
<1>3. Shape'
  BY <1>1, <1>2 DEF ReplayInv, Shape, Places
<1>4. Numbered' /\ NamesDiffer'
  BY <1>1 DEF ReplayInv, Numbered, NamesDiffer, FnOf
<1>5. Unmade' /\ Uploaded' /\ Told'
  BY <1>1 DEF ReplayInv, Shape, Unmade, Uploaded, HasFile, Told, IsTrace
<1> QED  BY <1>2, <1>3, <1>4, <1>5 DEF ReplayInv

LEMMA LeftIs ==
  ASSUME NEW b \in Branch, NEW left \in LeftAtService(b)
  PROVE  /\ left \in {service[name[b]], Sent(b), "aborted"}
         /\ left = service[name[b]] \/ at[b] \in {"sending", "waiting"}
         /\ left = Sent(b) => at[b] = "sending" \/ left = service[name[b]]
  BY DEF LeftAtService, Sent

LEMMA CancelKeeps ==
  ASSUME ReplayInv, NEW b \in Branch, Cancel(b)
  PROVE  ReplayInv'
<1>1. UNCHANGED <<sequence, outputs, lost>> /\ Answer(b)
  BY DEF Cancel, memory
<1>2. PICK left \in LeftAtService(b) : service' = [service EXCEPT ![name[b]] = left]
  BY DEF Cancel
<1>3. service' \in [Name -> States] /\ TasksRun' /\ RecordedHasOutputs'
  BY <1>1, <1>2, LeftIs, SentKeeps
<1> QED  BY <1>1, <1>3, AnswerKeeps

LEMMA FinishKeeps ==
  ASSUME ReplayInv, NEW n \in Name, Finish(n)
  PROVE  ReplayInv'
<1>1. n.fn \in Fn \ TraceFn /\ n.input \in Input
  BY DEF Finish, ReplayInv, TasksRun, Name
<1>2. Gives(n) \in {"succeeded", "failed"}
  BY <1>1, ProgramAssumption DEF Gives
<1>3. /\ UNCHANGED <<sequence, next, at, name, made, outputs, lost>>
      /\ service' = [service EXCEPT ![n] = Gives(n)]
  BY DEF Finish, memory
<1>4. service' \in [Name -> States]
  BY <1>2, <1>3 DEF ReplayInv, Shape, States
<1>5. TasksRun' /\ RecordedHasOutputs'
  BY <1>2, <1>3 DEF ReplayInv, Shape, TasksRun, RecordedHasOutputs
<1> QED  BY <1>3, <1>4, <1>5, ServiceKeeps

LEMMA NextKeeps == ReplayInv /\ [Next]_vars => ReplayInv'
<1> SUFFICES ASSUME ReplayInv, [Next]_vars PROVE ReplayInv'
  OBVIOUS
<1>1. CASE Start \/ Finalize \/ Done \/ UNCHANGED vars
  <2>1. UNCHANGED Read
    BY <1>1 DEF Start, Finalize, Done, vars, memory, outside, Read
  <2> QED  BY <2>1, Untouched
<1>2. CASE Crash
  BY <1>2, CrashKeeps
<1>3. ASSUME NEW b \in Branch, BranchStep(b) PROVE ReplayInv'
  <2>1. CASE Return(b) \/ CallFails(b)
    <3>1. Answer(b) /\ UNCHANGED <<sequence, service, outputs, lost>>
      BY <2>1 DEF Return, CallFails, memory, outside
    <3> QED  BY <3>1, AnswerAsIs
  <2> QED
    BY <1>3, <2>1, CallKeeps, LookupKeeps, BodyKeeps, UploadKeeps, UploadFailsKeeps,
       AcquireKeeps, SendKeeps, CancelKeeps DEF BranchStep
<1>4. ASSUME NEW n \in Name, Finish(n) PROVE ReplayInv'
  BY <1>4, FinishKeeps
<1>5. ASSUME NEW n \in Name, Learn(n) PROVE ReplayInv'
  <2>1. UNCHANGED Read
    BY <1>5 DEF Learn, outside, Read
  <2> QED  BY <2>1, Untouched
<1> QED  BY <1>1, <1>2, <1>3, <1>4, <1>5 DEF Next

LEMMA ReplayInvAlways == Spec => []ReplayInv
  BY InitHolds, NextKeeps, PTL DEF Spec

-----------------------------------------------------------------------------
(* A record of a trace tells what there is to load: an outputs file that   *)
(* exists (record_trace uploads before it submits), or none because the    *)
(* function raised or returns nothing or an upload failed; for every       *)
(* program, whenever the parent crashes, whichever call is cancelled.      *)
THEOREM RecordedHasOutputsAlways == Spec => []RecordedHasOutputs
  BY ReplayInvAlways, PTL DEF ReplayInv

(* Two calls in progress that share a name are calls of different function *)
(* objects, however many coroutines of the parent call the same function   *)
(* with the same inputs (what generate_task_call_sequence is for), and     *)
(* whatever functions hash to the same.                                    *)
THEOREM NamesDifferAlways == Spec => []NamesDiffer
<1>1. ReplayInv => NamesDiffer
  BY DEF ReplayInv
<1> QED  BY <1>1, ReplayInvAlways, PTL

-----------------------------------------------------------------------------
(* Counting calls.  A counter of an attempt is the number of calls of its  *)
(* function that the attempt has started, and so never more than the calls *)
(* of that function in the program; this bounds the numbers in names.      *)
CallsTo(f)   == {c \in Calls : CallAt(c).fn = f}
Started(c)   == c[2] < next[c[1]] \/ (c[2] = next[c[1]] /\ at[c[1]] # "idle")
StartedTo(f) == {c \in CallsTo(f) : Started(c)}

Counted == \A f \in Fn : sequence[f] = Cardinality(StartedTo(f))

(* n is a name that call c may get in some attempt.                        *)
Named(n, c) ==
  /\ n.fn = Hash[CallAt(c).fn] /\ n.input = CallAt(c).input
  /\ n.seq \in 1..Cardinality(CallsTo(CallAt(c).fn))

InOrder ==
  \A b \in Branch :
    /\ next[b] <= Len(Program[b]) + 1
    /\ at[b] = "idle" => name[b] = NoName
    /\ at[b] # "idle" => /\ next[b] <= Len(Program[b]) /\ name[b] \in Name
                        /\ Named(name[b], <<b, next[b]>>)

Bounds ==
  /\ parent \in {"down", "up", "done"} /\ attempt \in 0..MaxAttempts
  /\ synced \in BOOLEAN /\ faults \in 0..MaxFaults

Files == known \subseteq Name /\ outputs \subseteq Name /\ lost \subseteq Name

(* Whatever is recorded was recorded under the name of some call.          *)
Recalled == \A n \in Recorded : \E c \in Calls : Named(n, c)

Spared == Cardinality(Holding) <= Permits

OrderInv == InOrder /\ Counted /\ Recalled

-----------------------------------------------------------------------------
(* Calls that others have recorded.  Under a synchronized informer, what   *)
(* it does not know was recorded by this attempt, under numbers its        *)
(* counters have passed, ...                                               *)
Passed ==
  synced => \A n \in Recorded \ known : \E f \in Fn : n.fn = Hash[f] /\ n.seq <= sequence[f]

(* ... so that a call that looks its name up finds what is recorded, ...   *)
Seen ==
  synced => \A b \in Branch : at[b] = "lookup" /\ name[b] \in Recorded => name[b] \in known

(* ... and goes on to run its function only if nothing is recorded or it   *)
(* cannot use it.                                                          *)
Needed ==
  synced => \A b \in Branch : at[b] = "body" /\ name[b] \in Recorded
                                => Gives(name[b]) \in Repeated

(* Nothing goes on while the parent is down.                               *)
Quiet == parent = "down" => \A b \in Branch : at[b] = "idle"

RerunInv == Quiet /\ Passed /\ Seen /\ Needed

-----------------------------------------------------------------------------
LEMMA CallIs ==
  ASSUME NEW c
  PROVE  c \in Calls <=> \E b \in Branch : \E i \in 1..Len(Program[b]) : c = <<b, i>>
<1>1. \A b \in Branch : DOMAIN Program[b] = 1..Len(Program[b])
  BY ProgramAssumption
<1>2. c \in Calls <=> \E b \in Branch : c \in {b} \X DOMAIN Program[b]
  BY DEF Calls
<1>3. \A b \in Branch : c \in {b} \X DOMAIN Program[b] <=> \E i \in DOMAIN Program[b] : c = <<b, i>>
  OBVIOUS
<1> QED  BY <1>1, <1>2, <1>3

LEMMA CallIsTyped ==
  ASSUME NEW c \in Calls
  PROVE  CallAt(c) \in [fn : Fn, input : Input]
<1>1. PICK b \in Branch : \E i \in 1..Len(Program[b]) : c = <<b, i>>
  BY CallIs
<1>4. PICK i \in 1..Len(Program[b]) : c = <<b, i>>
  BY <1>1
<1>2. Program[b] \in Seq([fn : Fn, input : Input])
  BY ProgramAssumption
<1> DEFINE S == [fn : Fn, input : Input]
<1> HIDE DEF S
<1>3. \A s \in Seq(S) : \A k \in 1..Len(s) : s[k] \in S
  OBVIOUS
<1>5. Program[b][i] \in S
  BY <1>2, <1>3 DEF S
<1>6. CallAt(c) = Program[b][i]
  BY <1>4 DEF CallAt
<1> QED  BY <1>5, <1>6 DEF S

LEMMA LengthTyped == \A b \in Branch : Len(Program[b]) \in Nat
  BY ProgramAssumption

LEMMA BoundsTyped == Permits \in Nat \ {0} /\ MaxAttempts \in Nat /\ MaxFaults \in Nat
  BY ProgramAssumption

LEMMA CallsFinite == IsFiniteSet(Calls)
<1> DEFINE Of == [b \in Branch |-> {b} \X DOMAIN Program[b]]
           All == {{b} \X DOMAIN Program[b] : b \in Branch}
<1>1. Of \in Surjection(Branch, All)
  BY DEF Surjection
<1>2. IsFiniteSet(All)
  BY <1>1, FS_Surjection, ProgramAssumption
<1>3. ASSUME NEW b \in Branch PROVE IsFiniteSet({b} \X DOMAIN Program[b])
  <2>1. DOMAIN Program[b] = 1..Len(Program[b]) /\ Len(Program[b]) \in Int
    BY ProgramAssumption
  <2>2. IsFiniteSet(DOMAIN Program[b])
    BY <2>1, FS_Interval
  <2> QED  BY <2>2, FS_Singleton, FS_Product
<1>4. \A T \in All : IsFiniteSet(T)
  BY <1>3
<1> HIDE DEF All
<1>5. IsFiniteSet(UNION All)
  BY <1>2, <1>4, FS_UNION
<1> QED  BY <1>5 DEF Calls, All

LEMMA CallsBounded ==
  /\ MaxCalls \in Nat
  /\ \A C \in SUBSET Calls :
       IsFiniteSet(C) /\ Cardinality(C) \in Nat /\ Cardinality(C) <= MaxCalls
<1>1. MaxCalls \in Nat
  BY CallsFinite, FS_CardinalityType DEF MaxCalls
<1>2. ASSUME NEW C \in SUBSET Calls
      PROVE  IsFiniteSet(C) /\ Cardinality(C) <= Cardinality(Calls)
  BY CallsFinite, FS_Subset
<1>3. \A C \in SUBSET Calls : IsFiniteSet(C) => Cardinality(C) \in Nat
  BY FS_CardinalityType
<1> QED  BY <1>1, <1>2, <1>3 DEF MaxCalls

(* A branch in a call, and the call it is in.                              *)
LEMMA InCall ==
  ASSUME Shape, NEW b \in Branch, next[b] <= Len(Program[b])
  PROVE  /\ <<b, next[b]>> \in Calls
         /\ CallAt(<<b, next[b]>>) = Program[b][next[b]]
<1>1. Len(Program[b]) \in Nat
  BY ProgramAssumption
<1>2. next[b] \in 1..Len(Program[b])
  BY <1>1 DEF Shape
<1> QED  BY <1>2, CallIs DEF CallAt

LEMMA SameCount ==
  ASSUME Counted, sequence' = sequence, \A c \in Calls : Started(c)' <=> Started(c)
  PROVE  Counted'
<1>1. \A f \in Fn : StartedTo(f)' = StartedTo(f)
  BY DEF StartedTo, CallsTo
<1> QED  BY <1>1 DEF Counted

LEMMA OrderInit == Init => OrderInv
<1> SUFFICES ASSUME Init PROVE OrderInv
  OBVIOUS
<1>1. InOrder
  BY ProgramAssumption DEF Init, InOrder
<1>2. \A c \in Calls : ~Started(c)
  BY CallIs DEF Init, Started
<1>3. Counted
  BY <1>2, FS_EmptySet DEF Init, Counted, StartedTo, CallsTo
<1> QED  BY <1>1, <1>3 DEF Init, OrderInv, Recalled, Recorded

LEMMA CrashOrders ==
  ASSUME Shape, OrderInv, Crash
  PROVE  OrderInv'
<1>1. InOrder'
  BY ProgramAssumption DEF Crash, InOrder
<1>2. \A c \in Calls : ~Started(c)'
  BY CallIs DEF Crash, Started
<1>3. Counted'
  BY <1>2, FS_EmptySet DEF Crash, Counted, StartedTo, CallsTo
<1> QED  BY <1>1, <1>3 DEF Crash, outside, OrderInv, Recalled, Recorded

LEMMA CallOrders ==
  ASSUME Shape, OrderInv, NEW b \in Branch, Call(b)
  PROVE  OrderInv'
<1>0. at[b] = "idle" /\ next[b] <= Len(Program[b])
  BY DEF Call, At
<1>1. PICK c \in Calls : c = <<b, next[b]>> /\ CallAt(c) = Program[b][next[b]]
  BY <1>0, InCall
<1>f. PICK f \in Fn : f = CallAt(c).fn
  BY CallIsTyped
<1>2. CallAt(c) \in [fn : Fn, input : Input] /\ Hash[f] \in Fn
  BY <1>f, CallIsTyped, ProgramAssumption
<1>3. /\ sequence' = [sequence EXCEPT ![f] = sequence[f] + 1]
      /\ name' = [name EXCEPT ![b] = [fn |-> Hash[f], input |-> CallAt(c).input, seq |-> sequence[f] + 1]]
      /\ at' = [at EXCEPT ![b] = IF f \in TraceFn THEN "lookup" ELSE "permit"]
      /\ UNCHANGED <<next, service>>
  BY <1>1, <1>f DEF Call, CallNumber, Go, outside
<1>4. ASSUME NEW d \in Calls PROVE Started(d)' <=> Started(d) \/ d = c
  <2>1. PICK e \in Branch : \E i \in 1..Len(Program[e]) : d = <<e, i>>
    BY CallIs
  <2> QED  BY <1>0, <1>1, <1>3, <2>1 DEF Shape, Started
<1>5. ~Started(c)
  BY <1>0, <1>1 DEF Shape, Started
<1>6. /\ StartedTo(f)' = StartedTo(f) \cup {c} /\ c \notin StartedTo(f)
      /\ \A g \in Fn \ {f} : StartedTo(g)' = StartedTo(g)
  BY <1>f, <1>4, <1>5 DEF StartedTo, CallsTo
<1>7. StartedTo(f) \in SUBSET Calls /\ StartedTo(f)' \in SUBSET CallsTo(f)
  BY DEF StartedTo, CallsTo
<1>8. Cardinality(StartedTo(f)') = sequence[f] + 1
  BY <1>2, <1>6, <1>7, CallsBounded, FS_AddElement DEF OrderInv, Counted
<1>9. Counted'
  BY <1>2, <1>3, <1>6, <1>8 DEF OrderInv, Counted, Shape
<1>10. sequence[f] + 1 <= Cardinality(CallsTo(f)) /\ Cardinality(CallsTo(f)) <= MaxCalls
       /\ Cardinality(CallsTo(f)) \in Nat
  <2>1. CallsTo(f) \in SUBSET Calls
    BY DEF CallsTo
  <2>2. IsFiniteSet(CallsTo(f))
    BY <2>1, CallsBounded
  <2>3. Cardinality(StartedTo(f)') <= Cardinality(CallsTo(f))
    BY <1>7, <2>2, FS_Subset
  <2> QED  BY <1>8, <2>1, <2>3, CallsBounded
<1>11. name'[b] \in Name /\ Named(name'[b], c)
  BY <1>2, <1>3, <1>f, <1>10, CallsBounded DEF Name, Named, Shape
<1>12. InOrder'
  BY <1>0, <1>1, <1>3, <1>11 DEF InOrder, Shape, OrderInv
<1> QED  BY <1>3, <1>9, <1>11, <1>12 DEF OrderInv, Recalled, Recorded, Name

LEMMA AnswerOrders ==
  ASSUME Shape, OrderInv, NEW b \in Branch, at[b] # "idle", Answer(b), UNCHANGED sequence,
         Recorded' \subseteq Recorded \cup {name[b]}
  PROVE  OrderInv'
<1>1. next[b] <= Len(Program[b]) /\ Len(Program[b]) \in Nat
  BY LengthTyped DEF OrderInv, InOrder
<1>2. /\ next' = [next EXCEPT ![b] = next[b] + 1]
      /\ at' = [at EXCEPT ![b] = "idle"] /\ name' = [name EXCEPT ![b] = NoName]
  BY DEF Answer, Go
<1>3. InOrder'
  BY <1>1, <1>2 DEF OrderInv, InOrder, Shape
<1>4. ASSUME NEW d \in Calls PROVE Started(d)' <=> Started(d)
  <2>1. PICK e \in Branch : \E i \in 1..Len(Program[e]) : d = <<e, i>>
    BY CallIs
  <2> QED  BY <1>2, <2>1 DEF Shape, Started
<1>5. Counted'
  BY <1>4, SameCount DEF OrderInv
<1>6. <<b, next[b]>> \in Calls /\ Named(name[b], <<b, next[b]>>)
  BY InCall DEF OrderInv, InOrder
<1>7. Recalled'
  BY <1>6 DEF OrderInv, Recalled
<1> QED  BY <1>3, <1>5, <1>7 DEF OrderInv

LEMMA GoOrders ==
  ASSUME Shape, OrderInv, NEW b \in Branch, NEW place \in Places \ {"idle"}, Go(b, place),
         at[b] # "idle", UNCHANGED <<sequence, next, name>>,
         Recorded' \subseteq Recorded \cup {name[b]}
  PROVE  OrderInv'
<1>1. at' = [at EXCEPT ![b] = place]
  BY DEF Go
<1>2. InOrder'
  BY <1>1 DEF OrderInv, InOrder, Shape
<1>3. \A d \in Calls : Started(d)' <=> Started(d)
  <2> TAKE d \in Calls
  <2>1. PICK e \in Branch : \E i \in 1..Len(Program[e]) : d = <<e, i>>
    BY CallIs
  <2> QED  BY <1>1, <2>1 DEF Shape, Started
<1>4. Counted'
  BY <1>3, SameCount DEF OrderInv
<1>5. <<b, next[b]>> \in Calls /\ Named(name[b], <<b, next[b]>>)
  BY InCall DEF OrderInv, InOrder
<1>6. Recalled'
  BY <1>5 DEF OrderInv, Recalled
<1> QED  BY <1>2, <1>4, <1>6 DEF OrderInv

LEMMA StillOrdered ==
  ASSUME Shape, OrderInv, UNCHANGED <<sequence, next, at, name>>, Recorded' \subseteq Recorded
  PROVE  OrderInv'
<1>1. Counted'
  BY SameCount DEF OrderInv, Started
<1> QED  BY <1>1 DEF OrderInv, InOrder, Recalled

LEMMA StepOrders ==
  ASSUME ReplayInv, OrderInv, NEW b \in Branch, BranchStep(b)
  PROVE  OrderInv'
<1>0. Shape
  BY DEF ReplayInv
<1>1. CASE Call(b)
  BY <1>0, <1>1, CallOrders
<1>2. CASE Return(b) \/ Lookup(b)
  <2>1. at[b] \in {"lookup", "waiting"} /\ UNCHANGED <<sequence, service>>
    BY <1>2 DEF Return, Lookup, At, memory, outside
  <2>2. CASE Answer(b)
    BY <1>0, <2>1, <2>2, AnswerOrders DEF Recorded
  <2>3. CASE Go(b, "body") /\ UNCHANGED <<next, name>>
    BY <1>0, <2>1, <2>3, GoOrders DEF Places, Recorded
  <2> QED  BY <1>2, <2>2, <2>3 DEF Return, Lookup
<1>3. CASE Body(b) \/ Upload(b) \/ Acquire(b)
  <2>1. /\ UNCHANGED <<sequence, next, name, service>> /\ at[b] # "idle"
        /\ \E place \in Places \ {"idle"} : Go(b, place)
    BY <1>3 DEF Body, Upload, Acquire, At, memory, outside, Places
  <2> QED  BY <1>0, <2>1, GoOrders DEF Recorded
<1>4. CASE UploadFails(b)
  <2>1. at[b] = "record" /\ UNCHANGED <<sequence, service>>
    BY <1>4 DEF UploadFails, At, memory
  <2>2. CASE Answer(b)
    BY <1>0, <2>1, <2>2, AnswerOrders DEF Recorded
  <2>3. CASE UNCHANGED <<next, at, name>>
    BY <1>0, <2>1, <2>3, StillOrdered DEF Recorded
  <2> QED  BY <1>4, <2>2, <2>3 DEF UploadFails
<1>5. CASE Send(b)
  <2>1. UNCHANGED <<sequence, next, name>> /\ at[b] = "sending" /\ Go(b, "waiting")
    BY <1>5 DEF Send, At, memory
  <2>2. \A n \in Name \ {name[b]} : service'[n] = service[n]
    BY <1>0, <1>5 DEF Send, Shape
  <2>3. Recorded' \subseteq Recorded \cup {name[b]}
    BY <2>2 DEF Recorded
  <2> QED  BY <1>0, <2>1, <2>3, GoOrders DEF Places
<1>6. CASE CallFails(b) \/ Cancel(b)
  <2>1. at[b] # "idle" /\ UNCHANGED sequence /\ Answer(b)
    BY <1>6 DEF CallFails, Cancel, At, memory
  <2>2. \A n \in Name \ {name[b]} : service'[n] = service[n]
    BY <1>0, <1>6 DEF CallFails, Cancel, outside, Shape
  <2>3. Recorded' \subseteq Recorded \cup {name[b]}
    BY <2>2 DEF Recorded
  <2> QED  BY <1>0, <2>1, <2>3, AnswerOrders
<1> QED  BY <1>1, <1>2, <1>3, <1>4, <1>5, <1>6 DEF BranchStep

LEMMA OrderNext == ReplayInv /\ OrderInv /\ [Next]_vars => OrderInv'
<1> SUFFICES ASSUME ReplayInv, OrderInv, [Next]_vars PROVE OrderInv'
  OBVIOUS
<1>0. Shape
  BY DEF ReplayInv
<1>1. CASE Start \/ Finalize \/ Done \/ UNCHANGED vars
  <2>1. UNCHANGED <<sequence, next, at, name, service>>
    BY <1>1 DEF Start, Finalize, Done, vars, memory, outside
  <2> QED  BY <1>0, <2>1, StillOrdered DEF Recorded
<1>2. CASE Crash
  BY <1>0, <1>2, CrashOrders
<1>3. ASSUME NEW b \in Branch, BranchStep(b) PROVE OrderInv'
  BY <1>3, StepOrders
<1>4. ASSUME NEW n \in Name, Finish(n) PROVE OrderInv'
  <2>1. UNCHANGED <<sequence, next, at, name>> /\ service[n] = "running"
    BY <1>4 DEF Finish, memory
  <2>2. \A m \in Name \ {n} : service'[m] = service[m]
    BY <1>0, <1>4 DEF Finish, Shape
  <2>3. Recorded' \subseteq Recorded
    BY <2>1, <2>2 DEF Recorded
  <2> QED  BY <1>0, <2>1, <2>3, StillOrdered
<1>5. ASSUME NEW n \in Name, Learn(n) PROVE OrderInv'
  <2>1. UNCHANGED <<sequence, next, at, name, service>>
    BY <1>5 DEF Learn, outside
  <2> QED  BY <1>0, <2>1, StillOrdered DEF Recorded
<1> QED  BY <1>1, <1>2, <1>3, <1>4, <1>5 DEF Next

-----------------------------------------------------------------------------
LEMMA BoundsNext == Bounds /\ [Next]_vars => Bounds'
<1> SUFFICES ASSUME Bounds, [Next]_vars PROVE Bounds'
  OBVIOUS
<1>1. CASE Start \/ Crash \/ Finalize \/ Done \/ UNCHANGED vars
  <2>1. CASE Start
    <3>1. attempt' \in 0..MaxAttempts
      BY <2>1, BoundsTyped DEF Start, Bounds
    <3> QED  BY <2>1, <3>1 DEF Start, Bounds
  <2> QED  BY <1>1, <2>1 DEF Crash, Finalize, Done, vars, Bounds
<1>2. ASSUME NEW b \in Branch, BranchStep(b) PROVE Bounds'
  <2>1. CASE UploadFails(b) \/ CallFails(b) \/ Cancel(b)
    BY <2>1, BoundsTyped DEF UploadFails, CallFails, Cancel, Bounds
  <2> QED  BY <1>2, <2>1 DEF BranchStep, Call, Lookup, Body, Upload, Acquire, Send, Return, Bounds
<1>3. ASSUME NEW n \in Name, Finish(n) \/ Learn(n) PROVE Bounds'
  BY <1>3 DEF Finish, Learn, Bounds
<1> QED  BY <1>1, <1>2, <1>3 DEF Next

LEMMA FilesNext == OrderInv /\ Files /\ [Next]_vars => Files'
<1> SUFFICES ASSUME OrderInv, Files, [Next]_vars PROVE Files'
  OBVIOUS
<1>1. CASE Start \/ Crash \/ Finalize \/ Done \/ UNCHANGED vars
  BY <1>1 DEF Start, Crash, Finalize, Done, vars, Files, memory, outside, Recorded
<1>2. ASSUME NEW b \in Branch, BranchStep(b) PROVE Files'
  <2>1. CASE Upload(b)
    <3>1. name[b] \in Name
      BY <2>1 DEF Upload, At, OrderInv, InOrder
    <3> QED  BY <2>1, <3>1 DEF Upload, Files, memory
  <2>2. CASE UploadFails(b)
    <3>1. name[b] \in Name
      BY <2>2 DEF UploadFails, At, OrderInv, InOrder
    <3> QED  BY <2>2, <3>1 DEF UploadFails, Files, memory
  <2> QED
    BY <1>2, <2>1, <2>2 DEF BranchStep, Call, Lookup, Body, Acquire, Send, Return, CallFails,
                            Cancel, Files, memory, outside
<1>3. ASSUME NEW n \in Name, Finish(n) \/ Learn(n) PROVE Files'
  BY <1>3 DEF Finish, Learn, Files, memory, outside
<1> QED  BY <1>1, <1>2, <1>3 DEF Next

(* The semaphore: only Acquire adds to those that hold it.                 *)
LEMMA HoldingFinite ==
  ASSUME NEW H \in SUBSET Branch
  PROVE  IsFiniteSet(H) /\ Cardinality(H) \in Nat
         /\ \A G \in SUBSET H : Cardinality(G) <= Cardinality(H) /\ Cardinality(G) \in Nat
<1>1. IsFiniteSet(H)
  BY ProgramAssumption, FS_Subset
<1>2. ASSUME NEW G \in SUBSET H PROVE Cardinality(G) <= Cardinality(H) /\ IsFiniteSet(G)
  BY <1>1, FS_Subset
<1> QED  BY <1>1, <1>2, FS_CardinalityType

LEMMA SparedIfFewer ==
  ASSUME Spared, Holding' \subseteq Holding
  PROVE  Spared'
<1>1. Holding \in SUBSET Branch /\ Holding' \in SUBSET Holding
  BY DEF Holding
<1>2. Cardinality(Holding') <= Cardinality(Holding) /\ Cardinality(Holding') \in Nat
      /\ Cardinality(Holding) \in Nat
  BY <1>1, HoldingFinite
<1> QED  BY <1>2, BoundsTyped DEF Spared

LEMMA SparedNext == Shape /\ Spared /\ [Next]_vars => Spared'
<1> SUFFICES ASSUME Shape, Spared, [Next]_vars PROVE Spared'
  OBVIOUS
<1>1. CASE Start \/ Crash \/ Finalize \/ Done \/ UNCHANGED vars
  <2>1. Holding' \subseteq Holding
    BY <1>1 DEF Start, Crash, Finalize, Done, vars, Holding
  <2> QED  BY <2>1, SparedIfFewer
<1>2. ASSUME NEW b \in Branch, BranchStep(b) PROVE Spared'
  <2>1. CASE Acquire(b)
    <3>1. Holding' \subseteq Holding \cup {b}
      BY <2>1 DEF Acquire, Go, Holding, Shape
    <3>2. Holding \in SUBSET Branch /\ Holding \cup {b} \in SUBSET Branch
      BY DEF Holding
    <3>3. Cardinality(Holding \cup {b}) <= Cardinality(Holding) + 1 /\ Cardinality(Holding) \in Nat
      BY <3>2, HoldingFinite, FS_AddElement
    <3>4. Cardinality(Holding') <= Cardinality(Holding \cup {b}) /\ Cardinality(Holding') \in Nat
          /\ Cardinality(Holding \cup {b}) \in Nat
      BY <3>1, <3>2, HoldingFinite
    <3> QED  BY <2>1, <3>3, <3>4, BoundsTyped DEF Acquire, Spared
  <2>2. CASE Send(b)
    <3>1. Holding' \subseteq Holding
      BY <2>2 DEF Send, At, Go, Holding, Shape
    <3> QED  BY <3>1, SparedIfFewer
  <2>3. CASE Call(b) \/ Lookup(b) \/ Body(b) \/ Upload(b) \/ UploadFails(b) \/ Return(b)
             \/ CallFails(b) \/ Cancel(b)
    <3>1. at' = at \/ \E place \in Places \ {"sending", "waiting"} : at' = [at EXCEPT ![b] = place]
      BY <2>3 DEF Call, Lookup, Body, Upload, UploadFails, Return, CallFails, Cancel, Answer, Go, Places
    <3>2. Holding' \subseteq Holding
      BY <3>1 DEF Holding, Shape
    <3> QED  BY <3>2, SparedIfFewer
  <2> QED  BY <1>2, <2>1, <2>2, <2>3 DEF BranchStep
<1>3. ASSUME NEW n \in Name, Finish(n) \/ Learn(n) PROVE Spared'
  <2>1. Holding' \subseteq Holding
    BY <1>3 DEF Finish, Learn, Holding
  <2> QED  BY <2>1, SparedIfFewer
<1> QED  BY <1>1, <1>2, <1>3 DEF Next

TypedInv == ReplayInv /\ OrderInv /\ Bounds /\ Files /\ Spared

LEMMA TypedInvAlways == Spec => []TypedInv
<1>1. Init => TypedInv
  <2> SUFFICES ASSUME Init PROVE TypedInv
    OBVIOUS
  <2>1. Holding = {}
    BY DEF Init, Holding
  <2>2. Bounds /\ Files
    <3>1. 0 \in 0..MaxAttempts /\ 0 \in 0..MaxFaults
      BY BoundsTyped
    <3> QED  BY <3>1 DEF Init, Bounds, Files
  <2>3. Spared
    BY <2>1, FS_EmptySet, BoundsTyped DEF Spared
  <2> QED  BY <2>2, <2>3, InitHolds, OrderInit DEF TypedInv
<1>2. TypedInv /\ [Next]_vars => TypedInv'
  <2>1. ReplayInv => Shape
    BY DEF ReplayInv
  <2> QED  BY <2>1, NextKeeps, OrderNext, BoundsNext, FilesNext, SparedNext DEF TypedInv
<1> QED  BY <1>1, <1>2, PTL DEF Spec

LEMMA TypedInvTypes == TypedInv => TypeOK
<1> SUFFICES ASSUME TypedInv PROVE TypeOK
  OBVIOUS
<1>1. Shape
  BY DEF TypedInv, ReplayInv
<1>2. MaxCalls \in Nat
  BY CallsBounded
<1>3. sequence \in [Fn -> 0..MaxCalls]
  <2>1. ASSUME NEW f \in Fn PROVE sequence[f] \in 0..MaxCalls
    <3>1. StartedTo(f) \in SUBSET Calls
      BY DEF StartedTo, CallsTo
    <3>2. Cardinality(StartedTo(f)) \in 0..MaxCalls
      BY <1>2, <3>1, CallsBounded
    <3> QED  BY <3>2 DEF TypedInv, OrderInv, Counted
  <2> QED  BY <1>1, <2>1 DEF Shape
<1>4. next \in [Branch -> 1..MaxCalls + 1]
  <2>1. ASSUME NEW b \in Branch PROVE next[b] \in 1..MaxCalls + 1
    <3> DEFINE L == Len(Program[b])
               Mine == {<<b, i>> : i \in 1..L}
               Put == [i \in 1..L |-> <<b, i>>]
    <3>1. L \in Nat /\ next[b] \in Nat \ {0} /\ next[b] <= L + 1
      BY <1>1, LengthTyped DEF Shape, TypedInv, OrderInv, InOrder
    <3>2. Mine \in SUBSET Calls
      BY CallIs
    <3>3. Put \in Injection(1..L, Mine)
      BY DEF Injection, IsInjective
    <3> HIDE DEF Put, Mine
    <3>4. IsFiniteSet(Mine) /\ Cardinality(Mine) <= MaxCalls /\ Cardinality(Mine) \in Nat
      BY <3>2, CallsBounded
    <3>5. Cardinality(1..L) <= Cardinality(Mine)
      BY <3>3, <3>4, FS_Injection
    <3>6. Cardinality(1..L) = L
      BY <3>1, FS_Interval
    <3> QED  BY <1>2, <3>1, <3>4, <3>5, <3>6
  <2> QED  BY <1>1, <2>1 DEF Shape
<1>5. name \in [Branch -> Name \cup {NoName}]
  BY <1>1 DEF Shape, TypedInv, OrderInv, InOrder
<1>6. at \in [Branch -> {"idle", "lookup", "body", "record", "permit", "sending", "waiting"}]
  BY <1>1 DEF Shape, Places
<1> QED
  BY <1>1, <1>3, <1>4, <1>5, <1>6 DEF Shape, States, TypedInv, Bounds, Files, Spared, TypeOK

(* What TypeOK adds to the ranges of the variables: no counter and no      *)
(* number in a name exceeds the number of calls in the program, and never  *)
(* more calls than the semaphore has permits are between submitting and    *)
(* returning.                                                              *)
THEOREM TypesCorrect == Spec => []TypeOK
  BY TypedInvAlways, TypedInvTypes, PTL

-----------------------------------------------------------------------------
LEMMA FewNames == Recalled => NoExtraActions
<1> SUFFICES ASSUME Recalled, NEW f \in Fn, NEW x \in Input
    PROVE Cardinality({n \in Recorded : n.fn = Hash[f] /\ n.input = x})
            <= IF \E c \in CallsOf(f) : CallAt(c).input = x THEN Cardinality(CallsOf(f)) ELSE 0
  BY DEF NoExtraActions
<1> DEFINE S == {n \in Recorded : n.fn = Hash[f] /\ n.input = x}
           K == Cardinality(CallsOf(f))
<1>1. CallsOf(f) \in SUBSET Calls
  BY DEF CallsOf
<1>2. IsFiniteSet(CallsOf(f)) /\ K \in Nat
  BY <1>1, CallsBounded
<1>3. ASSUME NEW n \in S
      PROVE  n \in Name /\ n.seq \in 1..K /\ \E c \in CallsOf(f) : CallAt(c).input = x
  <2>1. PICK c \in Calls : Named(n, c)
    BY DEF Recalled
  <2>2. c \in CallsOf(f) /\ CallAt(c).input = x
    BY <2>1 DEF Named, CallsOf
  <2>3. CallsTo(CallAt(c).fn) \in SUBSET CallsOf(f)
    BY <2>1 DEF Named, CallsOf, CallsTo
  <2>4. CallsTo(CallAt(c).fn) \in SUBSET Calls
    BY DEF CallsTo
  <2>5. /\ Cardinality(CallsTo(CallAt(c).fn)) <= K
        /\ Cardinality(CallsTo(CallAt(c).fn)) \in Nat
    BY <1>2, <2>3, <2>4, CallsBounded, FS_Subset
  <2>6. n.seq \in 1..K
    BY <1>2, <2>1, <2>5 DEF Named
  <2> QED  BY <2>2, <2>6 DEF Recorded
<1>4. CASE S = {}
  <2>1. Cardinality(S) = 0
    BY <1>4, FS_EmptySet
  <2> QED  BY <1>2, <2>1
<1>5. CASE S # {}
  <2> DEFINE Number == [n \in S |-> n.seq]
  <2>1. Number \in Injection(S, 1..K)
    <3>1. Number \in [S -> 1..K]
      BY <1>3
    <3>2. ASSUME NEW n \in S, NEW m \in S, n.seq = m.seq PROVE n = m
      BY <1>3, <3>2 DEF Name
    <3> HIDE DEF S
    <3> QED  BY <3>1, <3>2 DEF Injection, IsInjective
  <2> HIDE DEF Number, S
  <2>2. IsFiniteSet(1..K) /\ Cardinality(1..K) = K
    BY <1>2, FS_Interval
  <2>3. Cardinality(S) <= K
    BY <2>1, <2>2, FS_Injection
  <2>4. \E c \in CallsOf(f) : CallAt(c).input = x
    BY <1>3, <1>5
  <2> QED  BY <2>3, <2>4 DEF S
<1> QED  BY <1>4, <1>5

(* Attempts do not multiply work, for every program and any number of      *)
(* attempts: under a function and an input, the service never has more     *)
(* actions than the program has calls of that function.                    *)
THEOREM NoExtraActionsAlways == Spec => []NoExtraActions
<1>1. TypedInv => NoExtraActions
  BY FewNames DEF TypedInv, OrderInv
<1> QED  BY <1>1, TypedInvAlways, PTL

-----------------------------------------------------------------------------
(* A branch that goes to where nothing has been looked up or run.          *)
LEMMA MoveReruns ==
  ASSUME Shape, RerunInv, NEW b \in Branch, NEW place \in Places \ {"lookup", "body"}, Go(b, place),
         parent = "up", UNCHANGED <<parent, synced, known, sequence, service>>,
         \A d \in Branch \ {b} : name'[d] = name[d]
  PROVE  RerunInv'
<1>1. \A d \in Branch : at'[d] \in {"lookup", "body"} => d # b /\ at'[d] = at[d]
  BY DEF Go, Shape
<1> QED  BY <1>1 DEF RerunInv, Quiet, Passed, Seen, Needed, Recorded

LEMMA CallReruns ==
  ASSUME Injective, Shape, RerunInv, NEW b \in Branch, Call(b)
  PROVE  RerunInv'
<1>1. PICK f \in Fn, x \in Input :
        /\ sequence' = [sequence EXCEPT ![f] = sequence[f] + 1]
        /\ name' = [name EXCEPT ![b] = [fn |-> Hash[f], input |-> x, seq |-> sequence[f] + 1]]
        /\ at' = [at EXCEPT ![b] = IF f \in TraceFn THEN "lookup" ELSE "permit"]
        /\ UNCHANGED <<parent, synced, known, service>> /\ parent = "up"
  <2>1. Program[b][next[b]] \in [fn : Fn, input : Input]
    BY CallTyped DEF Call, Shape
  <2> QED  BY <2>1 DEF Call, CallNumber, Go, At, outside
<1>2. \A g \in Fn : sequence[g] \in Nat /\ sequence'[g] \in Nat /\ sequence[g] <= sequence'[g]
  BY <1>1 DEF Shape
<1>3. Passed'
  BY <1>1, <1>2 DEF RerunInv, Passed, Recorded, Name
<1>4. ASSUME synced, name'[b] \in Recorded \ known PROVE FALSE
  <2>1. PICK g \in Fn : name'[b].fn = Hash[g] /\ name'[b].seq <= sequence[g]
    BY <1>4 DEF RerunInv, Passed
  <2>2. g = f
    BY <1>1, <2>1 DEF Injective, Shape
  <2> QED  BY <1>1, <1>2, <2>1, <2>2 DEF Shape
<1>5. Seen'
  BY <1>1, <1>4 DEF RerunInv, Seen, Recorded, Shape
<1>6. Needed' /\ Quiet'
  BY <1>1 DEF RerunInv, Needed, Quiet, Recorded, Shape
<1> QED  BY <1>3, <1>5, <1>6 DEF RerunInv

LEMMA LookupReruns ==
  ASSUME Shape, RerunInv, NEW b \in Branch, Lookup(b)
  PROVE  RerunInv'
<1>1. UNCHANGED <<parent, synced, known, sequence, service>> /\ at[b] = "lookup" /\ parent = "up"
  BY DEF Lookup, At, memory, outside
<1>2. CASE Answer(b)
  <2>1. \A d \in Branch \ {b} : name'[d] = name[d]
    BY <1>2 DEF Answer, Shape
  <2> QED  BY <1>1, <1>2, <2>1, MoveReruns DEF Answer, Places
<1>3. CASE /\ ~Found(name[b]) \/ (service[name[b]] = "file" /\ Gives(name[b]) \in Repeated)
           /\ Go(b, "body") /\ UNCHANGED <<next, name, made>>
  <2>1. \A d \in Branch : d # b => at'[d] = at[d]
    BY <1>3 DEF Go, Shape
  <2>2. at'[b] = "body"
    BY <1>3 DEF Go, Shape
  <2>3. synced /\ name[b] \in Recorded => Gives(name[b]) \in Repeated
    BY <1>1, <1>3 DEF Found, RerunInv, Seen
  <2> QED  BY <1>1, <1>3, <2>1, <2>2, <2>3 DEF RerunInv, Quiet, Passed, Seen, Needed, Recorded
<1> QED  BY <1>2, <1>3 DEF Lookup

(* Recording a call: no other call in progress has its name.               *)
LEMMA RecordReruns ==
  ASSUME Injective, ReplayInv, OrderInv, RerunInv, NEW b \in Branch, at[b] # "idle", parent = "up",
         NEW place \in Places \ {"lookup", "body"}, Go(b, place),
         UNCHANGED <<parent, synced, known, sequence>>, \A d \in Branch \ {b} : name'[d] = name[d],
         Recorded' \subseteq Recorded \cup {name[b]}
  PROVE  RerunInv'
<1>1. \A d \in Branch : at[d] # "idle" =>
        /\ name[d] # NoName /\ name[d].fn = Hash[FnOf(d)]
        /\ FnOf(d) \in Fn /\ name[d].seq <= sequence[FnOf(d)]
  <2> SUFFICES ASSUME NEW d \in Branch, at[d] # "idle"
      PROVE /\ name[d] # NoName /\ name[d].fn = Hash[FnOf(d)]
            /\ FnOf(d) \in Fn /\ name[d].seq <= sequence[FnOf(d)]
    OBVIOUS
  <2>1. name[d] \in Name /\ Named(name[d], <<d, next[d]>>)
    BY DEF OrderInv, InOrder
  <2>2. name[d] # NoName
    BY <2>1 DEF Name, NoName
  <2> QED  BY <2>1, <2>2 DEF Named, FnOf, ReplayInv, Numbered
<1>2. \A d \in Branch : at'[d] \in {"lookup", "body"}
                        => at'[d] = at[d] /\ name'[d] = name[d] /\ name[d] # name[b]
  <2>1. \A d \in Branch : at'[d] \in {"lookup", "body"} => d # b /\ at'[d] = at[d]
    BY DEF Go, ReplayInv, Shape
  <2>2. ASSUME NEW d \in Branch \ {b}, at[d] # "idle", name[d] = name[b] PROVE FALSE
    <3>1. FnOf(d) = FnOf(b)
      BY <1>1, <2>2 DEF Injective
    <3> QED  BY <1>1, <2>2, <3>1 DEF ReplayInv, NamesDiffer
  <2> QED  BY <2>1, <2>2
<1>3. Passed'
  BY <1>1 DEF RerunInv, Passed
<1>4. Seen' /\ Needed' /\ Quiet'
  BY <1>2 DEF RerunInv, Seen, Needed, Quiet
<1> QED  BY <1>3, <1>4 DEF RerunInv

LEMMA SendReruns ==
  ASSUME Injective, ReplayInv, OrderInv, RerunInv, NEW b \in Branch, Send(b) \/ Cancel(b)
  PROVE  RerunInv'
<1>1. /\ UNCHANGED <<parent, synced, known, sequence>> /\ at[b] # "idle" /\ parent = "up"
      /\ \E place \in Places \ {"lookup", "body"} : Go(b, place)
      /\ \A d \in Branch \ {b} : name'[d] = name[d]
  BY DEF Send, Cancel, Answer, At, memory, Places, ReplayInv, Shape
<1>2. \A n \in Name \ {name[b]} : service'[n] = service[n]
  BY DEF Send, Cancel, ReplayInv, Shape
<1>3. Recorded' \subseteq Recorded \cup {name[b]}
  BY <1>2 DEF Recorded
<1> QED  BY <1>1, <1>3, RecordReruns

LEMMA RerunNext == Injective /\ ReplayInv /\ OrderInv /\ RerunInv /\ [Next]_vars => RerunInv'
<1> SUFFICES ASSUME Injective, ReplayInv, OrderInv, RerunInv, [Next]_vars PROVE RerunInv'
  OBVIOUS
<1>0. Shape
  BY DEF ReplayInv
<1>1. CASE Start
  <2>1. UNCHANGED <<at, service>> /\ parent = "down" /\ parent' = "up"
        /\ known' = (IF synced' THEN Recorded ELSE {})
    BY <1>1 DEF Start, outside
  <2> QED  BY <2>1 DEF RerunInv, Quiet, Passed, Seen, Needed, Recorded
<1>2. CASE Crash
  BY <1>2 DEF Crash, RerunInv, Quiet, Passed, Seen, Needed
<1>3. CASE Finalize \/ Done \/ UNCHANGED vars
  <2>1. UNCHANGED <<at, service, known, synced, sequence, name>> /\ parent' \in {parent, "done"}
    BY <1>3 DEF Finalize, Done, vars, memory, outside
  <2> QED  BY <2>1 DEF RerunInv, Quiet, Passed, Seen, Needed, Recorded
<1>4. ASSUME NEW b \in Branch, BranchStep(b) PROVE RerunInv'
  <2>1. CASE Call(b)
    BY <1>0, <2>1, CallReruns
  <2>2. CASE Lookup(b)
    BY <1>0, <2>2, LookupReruns
  <2>3. CASE Send(b) \/ Cancel(b)
    BY <2>3, SendReruns
  <2>4. CASE Body(b) \/ Upload(b) \/ Acquire(b)
    <3>1. /\ UNCHANGED <<parent, synced, known, sequence, service, name>> /\ parent = "up"
          /\ \E place \in Places \ {"lookup", "body"} : Go(b, place)
      BY <2>4 DEF Body, Upload, Acquire, At, memory, outside, Places
    <3> QED  BY <1>0, <3>1, MoveReruns
  <2>5. CASE UploadFails(b) \/ Return(b) \/ CallFails(b)
    <3>1. UNCHANGED <<parent, synced, known, sequence, service>> /\ parent = "up"
      BY <2>5 DEF UploadFails, Return, CallFails, At, memory, outside
    <3>2. CASE Answer(b)
      <4>1. \A d \in Branch \ {b} : name'[d] = name[d]
        BY <1>0, <3>2 DEF Answer, Shape
      <4> QED  BY <1>0, <3>1, <3>2, <4>1, MoveReruns DEF Answer, Places
    <3>3. CASE UNCHANGED <<next, at, name>>
      BY <3>1, <3>3 DEF RerunInv, Quiet, Passed, Seen, Needed, Recorded
    <3> QED  BY <2>5, <3>2, <3>3 DEF UploadFails, Return, CallFails
  <2> QED  BY <1>4, <2>1, <2>2, <2>3, <2>4, <2>5 DEF BranchStep
<1>5. ASSUME NEW n \in Name, Finish(n) PROVE RerunInv'
  <2>1. UNCHANGED <<parent, at, known, synced, sequence, name>> /\ service[n] = "running"
    BY <1>5 DEF Finish, memory
  <2>2. \A m \in Name \ {n} : service'[m] = service[m]
    BY <1>0, <1>5 DEF Finish, Shape
  <2>3. Recorded' \subseteq Recorded
    BY <2>1, <2>2 DEF Recorded
  <2> QED  BY <2>1, <2>3 DEF RerunInv, Quiet, Passed, Seen, Needed
<1>6. ASSUME NEW n \in Name, Learn(n) PROVE RerunInv'
  <2>1. /\ UNCHANGED <<parent, at, service, synced, sequence, name>>
        /\ known' = known \cup {n}
    BY <1>6 DEF Learn, outside
  <2> QED  BY <2>1 DEF RerunInv, Quiet, Passed, Seen, Needed, Recorded
<1> QED  BY <1>1, <1>2, <1>3, <1>4, <1>5, <1>6 DEF Next

(* A traced function that is on record runs again only if the informer was *)
(* not synchronized in time or its outputs cannot be used, for every       *)
(* program and any number of crashes, provided no two functions hash to    *)
(* the same: what an attempt does not find when it looks a name up, no     *)
(* other call of it records before the function runs.                      *)
THEOREM RerunOnlyUnknownAlways ==
  ASSUME Injective
  PROVE  Spec => RerunOnlyUnknown
<1>1. Init => RerunInv
  BY DEF Init, RerunInv, Quiet, Passed, Seen, Needed
<1>2. TypedInv /\ RerunInv /\ [Next]_vars => RerunInv'
  BY RerunNext DEF TypedInv
<1>3. RerunInv => \A b \in Branch : Runs(b) /\ name[b] \in Recorded
                                     => ~synced \/ Gives(name[b]) \in Repeated
  BY DEF RerunInv, Needed, Runs
<1>4. RerunInv => [\A b \in Branch : Runs(b) /\ name[b] \in Recorded
                                     => ~synced \/ Gives(name[b]) \in Repeated]_vars
  BY <1>3
<1> QED  BY <1>1, <1>2, <1>4, TypedInvAlways, PTL DEF Spec, RerunOnlyUnknown
=============================================================================
