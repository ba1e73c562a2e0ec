---------------------------- MODULE ParallelReader ----------------------------
(***************************************************************************)
(* ObstoreParallelReader.download_files (storage/_parallel_reader.py) on   *)
(* Python 3.11 or later: one coroutine lists the objects under a prefix    *)
(* and puts their chunks into a bounded queue, workers fetch the chunks    *)
(* and write them into temporary files, the worker that completes a file   *)
(* moves it to its target and reports it, and the caller's coroutine       *)
(* consumes the reports.  All of them share one event loop, and, the       *)
(* caller's apart, one asyncio.TaskGroup.                                  *)
(*                                                                         *)
(* A step is what a coroutine does between two awaits that suspend it.     *)
(* Queue.get suspends only if the queue is empty, Queue.put only if it is  *)
(* full.                                                                   *)
(***************************************************************************)
EXTENDS Integers, Sequences, FiniteSets

CONSTANTS
  File, Size,  \* the objects, and their sizes
  Listings,    \* what the listing of the prefix can be
  ChunkSize,   \* _chunk_size (16 MiB)
  Worker,      \* the _max_concurrency workers (32)
  MaxFaults    \* bound: failures of the store and the file system

QueueSize == 2 * Cardinality(Worker)

ASSUME ReaderAssumption ==
  /\ Size \in [File -> Nat] /\ Listings \subseteq Seq(File)
  /\ \A l \in Listings : \A i, j \in DOMAIN l : l[i] = l[j] => i = j
  /\ ChunkSize \in Nat \ {0} /\ IsFiniteSet(Worker) /\ Worker # {} /\ MaxFaults \in Nat

(* _chunks: offset and length of each chunk of a file.                     *)
Smaller(m, n) == IF m < n THEN m ELSE n
Chunks(f)     == (Size[f] + ChunkSize - 1) \div ChunkSize
TaskOfFull(f, i) == [file |-> f, offset |-> (i - 1) * ChunkSize, length |-> ChunkSize]
Task(f, i)       == [file |-> f, offset |-> (i - 1) * ChunkSize,
                     length |-> Smaller(ChunkSize, Size[f] - (i - 1) * ChunkSize)]
Sentinel      == [file |-> "sentinel"]
NoTask        == [file |-> "none"]

FileTasks(f) == [i \in 1..Chunks(f) |-> Task(f, i)]
AllTasks     == UNION {{FileTasks(f)[i] : i \in 1..Chunks(f)} : f \in File}

VARIABLES
  listing,   \* what the listing yields
  listed,    \* ... and how many objects it has yielded
  fill,      \* _fill: listing, putting, ended or failed
  offered,   \* ... and what it still has to put
  inq, outq, \* the queues
  active,    \* the files that have a buffer
  pending,   \* ... and how many bytes it waits for
  pc, task,  \* each worker, and its task
  done,      \* the event the first worker to end sets
  main,      \* the caller: waiting, joining, ended or failed
  written,   \* the chunks that are in their temporary file
  target,    \* the files that are at their target
  faults

vars == <<listing, listed, fill, offered, inq, outq, active, pending, pc, task,
          done, main, written, target, faults>>

fillVars == <<listing, listed, fill, offered>>
files    == <<active, pending, written, target>>

Listed == {listing[i] : i \in DOMAIN listing}

Init ==
  /\ listing \in Listings /\ listed = 0
  /\ fill = "listing" /\ offered = <<>>
  /\ inq = <<>> /\ outq = <<>>
  /\ active = {} /\ pending = [f \in File |-> 0]
  /\ pc = [w \in Worker |-> "getting"] /\ task = [w \in Worker |-> NoTask]
  /\ done = FALSE /\ main = "waiting"
  /\ written = {} /\ target = {} /\ faults = 0

Running == main \notin {"ended", "failed"}

-----------------------------------------------------------------------------
(* _fill.                                                                  *)

(* Put as much as there is room for; wait with the rest.                   *)
Put(tasks) ==
  LET n == Smaller(Len(tasks), QueueSize - Len(inq)) IN
  /\ inq' = inq \o SubSeq(tasks, 1, n)
  /\ offered' = SubSeq(tasks, n + 1, Len(tasks))
  /\ fill' = IF n < Len(tasks) THEN "putting"
             ELSE IF Sentinel \notin {tasks[i] : i \in DOMAIN tasks} THEN "listing"
             ELSE IF \A f \in Listed : Chunks(f) = 0 THEN "failed" ELSE "ended"

(* The generator yields the chunks of the next object: none if it is empty. *)
PendingOfChunk(f) == Smaller(ChunkSize, Size[f])
Pending(f)        == Size[f]

List ==
  LET f == listing[listed + 1] IN
  /\ Running /\ fill = "listing" /\ listed < Len(listing)
  /\ listed' = listed + 1
  /\ active' = IF Chunks(f) > 0 THEN active \cup {f} ELSE active
  /\ pending' = [pending EXCEPT ![f] = Pending(f)]
  /\ Put(FileTasks(f))
  /\ UNCHANGED <<listing, outq, pc, task, done, main, written, target, faults>>

(* It ends: the sentinel, and DownloadQueueEmpty if there was no chunk.    *)
ListingEnds ==
  /\ Running /\ fill = "listing" /\ listed = Len(listing)
  /\ Put(<<Sentinel>>)
  /\ UNCHANGED <<listing, listed, outq, pc, task, done, main, files, faults>>

PutRest ==
  /\ Running /\ fill = "putting" /\ Len(inq) < QueueSize
  /\ Put(offered)
  /\ UNCHANGED <<listing, listed, outq, pc, task, done, main, files, faults>>

ListingFails ==
  /\ Running /\ fill = "listing" /\ faults < MaxFaults
  /\ fill' = "failed" /\ faults' = faults + 1
  /\ UNCHANGED <<listing, listed, offered, inq, outq, pc, task, done, main, files>>

-----------------------------------------------------------------------------
(* _worker.                                                                *)

At(w, place) == Running /\ pc[w] = place

Go(w, place, t) == pc' = [pc EXCEPT ![w] = place] /\ task' = [task EXCEPT ![w] = t]

(* The first in the queue: a sentinel is put back for the other workers.   *)
BackKept == Tail(inq)
Back     == Append(Tail(inq), Sentinel)

Take(w) ==
  \/ /\ Head(inq) = Sentinel
     /\ inq' = Back /\ done' = TRUE
     /\ Go(w, "ended", NoTask)
  \/ /\ Head(inq) # Sentinel
     /\ inq' = Tail(inq) /\ UNCHANGED done
     /\ Go(w, "fetching", Head(inq))

(* The head of the loop.                                                   *)
Loop(w) ==
  \/ done /\ Go(w, "ended", NoTask) /\ UNCHANGED <<inq, done>>
  \/ ~done /\ inq = <<>> /\ Go(w, "getting", NoTask) /\ UNCHANGED <<inq, done>>
  \/ ~done /\ inq # <<>> /\ Take(w)

Wake(w) ==
  /\ At(w, "getting") /\ inq # <<>>
  /\ Take(w)
  /\ UNCHANGED <<fillVars, outq, files, main, faults>>

Fetch(w) ==
  /\ At(w, "fetching")
  /\ Go(w, "writing", task[w])
  /\ UNCHANGED <<fillVars, inq, outq, files, done, main, faults>>

CompleteAtRest(left) == left < ChunkSize
Complete(left)       == left = 0

Write(w) ==
  LET t    == task[w]
      left == pending[t.file] - t.length IN
  /\ At(w, "writing")
  /\ written' = written \cup {t}
  /\ pending' = [pending EXCEPT ![t.file] = left]
  /\ \/ Complete(left) /\ Go(w, "moving", t) /\ UNCHANGED <<inq, done>>
     \/ ~Complete(left) /\ Loop(w)
  /\ UNCHANGED <<fillVars, outq, active, target, main, faults>>

(* The transformer, and the report.                                        *)
Move(w) ==
  LET f == task[w].file IN
  /\ At(w, "moving")
  /\ target' = target \cup {f}
  /\ outq' = Append(outq, f)
  /\ active' = active \ {f}
  /\ Loop(w)
  /\ UNCHANGED <<fillVars, pending, written, main, faults>>

WorkerFails(w) ==
  /\ Running /\ pc[w] \in {"fetching", "writing", "moving"} /\ faults < MaxFaults
  /\ faults' = faults + 1 /\ done' = TRUE
  /\ Go(w, "failed", NoTask)
  /\ UNCHANGED <<fillVars, inq, outq, files, main>>

-----------------------------------------------------------------------------
(* _as_completed, as download_files consumes it.                           *)

Consume ==
  /\ main = "waiting" /\ outq # <<>>
  /\ outq' = Tail(outq)
  /\ main' = IF done THEN "joining" ELSE "waiting"
  /\ UNCHANGED <<fillVars, inq, files, pc, task, done, faults>>

(* The task group is left when its tasks have ended.                       *)
JoinedByOne == done
Joined      == fill = "ended" /\ \A w \in Worker : pc[w] = "ended"

Join ==
  /\ main = "joining" /\ Joined
  /\ main' = "ended" /\ outq' = <<>>
  /\ UNCHANGED <<fillVars, inq, files, pc, task, done, faults>>

(* A task of the group has failed: the others, and the caller, are         *)
(* cancelled; what has been moved stays.                                   *)
Abort ==
  /\ Running /\ (fill = "failed" \/ \E w \in Worker : pc[w] = "failed")
  /\ main' = "failed" /\ done' = TRUE
  /\ UNCHANGED <<fillVars, inq, outq, files, pc, task, faults>>

Stopped == ~Running /\ UNCHANGED vars

WorkerStep(w) == Wake(w) \/ Fetch(w) \/ Write(w) \/ Move(w)

Next ==
  \/ List \/ ListingEnds \/ PutRest \/ ListingFails \/ Consume \/ Join \/ Abort \/ Stopped
  \/ \E w \in Worker : WorkerStep(w) \/ WorkerFails(w)

Spec == Init /\ [][Next]_vars

(* The event loop runs every coroutine that is ready; the store and the    *)
(* file system answer.                                                     *)
Fairness ==
  /\ WF_vars(List \/ ListingEnds \/ PutRest) /\ WF_vars(Consume) /\ WF_vars(Join)
  /\ WF_vars(Abort)
  /\ \A w \in Worker : WF_vars(WorkerStep(w))

FairSpec == Spec /\ Fairness
-----------------------------------------------------------------------------
NonEmpty == {f \in File : Size[f] > 0}

Places == {"getting", "fetching", "writing", "moving", "ended", "failed"}

(* Every variable ranges over the values the code can give it, the queue   *)
(* is never longer than its maxsize (the sentinel is put back without      *)
(* waiting), and a file never waits for less than no bytes.                *)
TypeOK ==
  /\ listing \in Listings /\ listed \in 0..Len(listing)
  /\ fill \in {"listing", "putting", "ended", "failed"}
  /\ offered \in Seq(AllTasks \cup {Sentinel}) /\ (fill = "putting" <=> offered # <<>>)
  /\ inq \in Seq(AllTasks \cup {Sentinel}) /\ Len(inq) <= QueueSize
  /\ outq \in Seq(NonEmpty)
  /\ active \subseteq NonEmpty /\ \A f \in File : pending[f] \in 0..Size[f]
  /\ pc \in [Worker -> Places] /\ task \in [Worker -> AllTasks \cup {NoTask}]
  /\ \A w \in Worker : pc[w] \in {"fetching", "writing", "moving"} <=> task[w] # NoTask
  /\ done \in BOOLEAN /\ main \in {"waiting", "joining", "ended", "failed"}
  /\ written \subseteq AllTasks /\ target \subseteq NonEmpty /\ faults \in 0..MaxFaults

(* A file is moved to its target by one worker while others may still hold *)
(* chunks of it: every chunk is in the temporary file by then.  It rests   *)
(* on _FileBuffer.pending, which the workers count down with no lock.      *)
MovedWhole ==
  \A f \in target : \A i \in 1..Chunks(f) : Task(f, i) \in written

(* A chunk that is still to be written finds the buffer of its file: the   *)
(* `del active[...]` of another worker is never early (a KeyError).        *)
BufferKept ==
  \A t \in AllTasks :
    (\E w \in Worker : task[w] = t) \/ (\E i \in DOMAIN inq : inq[i] = t)
      => t.file \in active

(* Workers stop at the sentinel, or because another one has (`done`), and  *)
(* the caller stops waiting for reports as soon as one has: still, a       *)
(* download that ends without an error leaves no chunk behind, and has at  *)
(* their target exactly the listed files that are not empty.               *)
EndedIsComplete == main = "ended" => target = Listed \cap NonEmpty

(* The task group ends, with a failure or with all of it downloaded: every *)
(* worker sees the sentinel, which there is only one of.                   *)
GroupEnds ==
  <>(\/ main = "failed"
     \/ /\ fill = "ended" /\ \A w \in Worker : pc[w] = "ended"
        /\ Listed \cap NonEmpty \subseteq target)

(* "If empty, download everything" (download_files): the caller gets to    *)
(* know, by a return or an exception.                                      *)
DownloadReturns == <>(main \in {"ended", "failed"})
=============================================================================
