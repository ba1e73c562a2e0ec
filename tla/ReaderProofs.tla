----------------------------- MODULE ReaderProofs -----------------------------
(***************************************************************************)
(* Theorems about ParallelReader for every set of files of every size,     *)
(* every listing, chunk size and number of workers, and every bound on     *)
(* failures.                                                               *)
(*                                                                         *)
(* What a file waits for is a number the workers count down, chunk by      *)
(* chunk.  All chunks but the last have one size, so that the number has a *)
(* closed form in the chunks written (Left, 2), which is zero only when    *)
(* all are.  The queue and what the listing still has to put into it are   *)
(* one line of different chunks that the sentinel ends (3).  A chunk is in *)
(* one place only: in the line, with one worker, or written (OnePlace, 5); *)
(* it is in one of them as long as no worker has failed (KeptInv, 6), and  *)
(* done means that no chunk is left in the line (DoneInv, 6).              *)
(***************************************************************************)
EXTENDS ParallelReader, SequenceTheorems, FiniteSetTheorems, TLAPS

-----------------------------------------------------------------------------
(* 1. Chunks.                                                              *)

LEMMA ChunkBounds ==
  ASSUME NEW f \in File
  PROVE  /\ Size[f] \in Nat /\ Chunks(f) \in Nat
         /\ Size[f] <= ChunkSize * Chunks(f)
         /\ ChunkSize * Chunks(f) < Size[f] + ChunkSize
         /\ Size[f] = 0 <=> Chunks(f) = 0
<1> DEFINE s == Size[f] c == ChunkSize n == Chunks(f)
<1>1. s \in Nat /\ c \in Nat \ {0}
  BY ReaderAssumption
<1>2. n = (s + c - 1) \div c
  BY DEF Chunks
<1> HIDE DEF s, c, n
<1>3. n \in Int /\ c * n <= s + c - 1 /\ s + c - 1 < c * n + c
  BY <1>1, <1>2, Z3
<1>4. n >= 0
  <2> SUFFICES ASSUME n <= -1 PROVE FALSE
    BY <1>3
  <2>1. c * n <= -c
    BY <1>1, <1>3, Z3
  <2>2. QED
    BY <1>1, <1>3, <2>1, Z3
<1>5. s = 0 => n = 0
  <2> SUFFICES ASSUME s = 0, n >= 1 PROVE FALSE
    BY <1>3, <1>4
  <2>1. c * n >= c
    BY <1>1, <1>3, Z3
  <2>2. QED
    BY <1>1, <1>3, <2>1, Z3
<1>6. n = 0 => s = 0
  BY <1>1, <1>3, Z3
<1>7. QED
  BY <1>1, <1>3, <1>4, <1>5, <1>6 DEF s, c, n

(* A file of no bytes has no chunk; of the others, the last chunk may be   *)
(* shorter.                                                                *)
LEMMA TaskLengths ==
  ASSUME NEW f \in File, NEW i \in 1..Chunks(f)
  PROVE  /\ Task(f, i).file = f
         /\ i < Chunks(f) => Task(f, i).length = ChunkSize
         /\ i = Chunks(f) => Task(f, i).length = Size[f] - ChunkSize * Chunks(f) + ChunkSize
<1> DEFINE s == Size[f] c == ChunkSize n == Chunks(f)
<1>1. s \in Nat /\ c \in Nat \ {0} /\ n \in Nat /\ s <= c * n /\ c * n < s + c
  BY ReaderAssumption, ChunkBounds
<1>2. Task(f, i).file = f /\ Task(f, i).length = Smaller(c, s - (i - 1) * c)
  BY DEF Task
<1>3. i \in Nat /\ i >= 1 /\ i <= n
  BY <1>1
<1> HIDE DEF s, c, n
<1>4. i < n => c <= s - (i - 1) * c
  <2> SUFFICES ASSUME i <= n - 1 PROVE i * c < s
    BY <1>1, <1>3, Z3
  <2>1. i * c <= (n - 1) * c
    BY <1>1, <1>3, Z3
  <2>2. (n - 1) * c = c * n - c
    BY <1>1, Z3
  <2>3. QED
    BY <1>1, <1>3, <2>1, <2>2, Z3
<1>5. i = n => s - (i - 1) * c = s - c * n + c /\ s - (i - 1) * c <= c
  BY <1>1, <1>3, Z3
<1>6. QED
  BY <1>1, <1>2, <1>3, <1>4, <1>5 DEF Smaller, s, c, n

LEMMA TaskInjective ==
  ASSUME NEW f \in File, NEW g \in File, NEW i \in Int, NEW j \in Int, Task(f, i) = Task(g, j)
  PROVE  f = g /\ i = j
<1>1. f = g /\ (i - 1) * ChunkSize = (j - 1) * ChunkSize
  BY DEF Task
<1>2. i = j
  BY <1>1, ReaderAssumption, Z3
<1>3. QED
  BY <1>1, <1>2

LEMMA TasksAre ==
  /\ \A f \in File, i \in Int : i \in 1..Chunks(f) => Task(f, i) \in AllTasks
  /\ \A t \in AllTasks : /\ t.file \in File /\ t.file \in NonEmpty
                         /\ \E i \in 1..Chunks(t.file) : t = Task(t.file, i)
  /\ Sentinel \notin AllTasks /\ NoTask \notin AllTasks /\ Sentinel # NoTask
<1>1. \A f \in File, i \in Int : i \in 1..Chunks(f) => Task(f, i) \in AllTasks
  BY DEF AllTasks, FileTasks
<1>2. ASSUME NEW t \in AllTasks
      PROVE  /\ t.file \in File /\ t.file \in NonEmpty
             /\ \E i \in 1..Chunks(t.file) : t = Task(t.file, i)
  <2>1. PICK f \in File : t \in {FileTasks(f)[i] : i \in 1..Chunks(f)}
    BY DEF AllTasks
  <2>2. PICK i \in 1..Chunks(f) : t = Task(f, i)
    BY <2>1 DEF FileTasks
  <2>3. t.file = f
    BY <2>2 DEF Task
  <2>4. f \in NonEmpty
    BY <2>2, ChunkBounds DEF NonEmpty
  <2>5. QED
    BY <2>2, <2>3, <2>4
<1>3. DOMAIN Sentinel = {"file"} /\ DOMAIN NoTask = {"file"}
  BY DEF Sentinel, NoTask
<1>4. \A t \in AllTasks : "offset" \in DOMAIN t
  BY <1>2 DEF Task
<1>5. Sentinel # NoTask
  BY DEF Sentinel, NoTask
<1>6. QED
  BY <1>1, <1>2, <1>3, <1>4, <1>5

-----------------------------------------------------------------------------
(* 2. What a file waits for, in closed form: its size less the chunks that *)
(* are written, all of which but the last have the full length.            *)

Index(f) == 1..Chunks(f)
WrittenOf(f) == {i \in Index(f) : Task(f, i) \in written}

Rest(f, W) == Size[f] - ChunkSize * Cardinality(W)
                + (IF Chunks(f) \in W THEN ChunkSize * Chunks(f) - Size[f] ELSE 0)
Left(f) == Rest(f, WrittenOf(f))

LEMMA WrittenIndex == \A f \in File : WrittenOf(f) \in SUBSET Index(f)
BY DEF WrittenOf

LEMMA WrittenCount ==
  ASSUME NEW f \in File, NEW W \in SUBSET Index(f)
  PROVE  /\ IsFiniteSet(W) /\ Cardinality(W) \in 0..Chunks(f)
         /\ Cardinality(W) = Chunks(f) <=> W = Index(f)
<1>1. Chunks(f) \in Nat
  BY ChunkBounds
<1>2. IsFiniteSet(Index(f)) /\ Cardinality(Index(f)) = Chunks(f)
  BY <1>1, FS_Interval DEF Index
<1>3. W \in SUBSET Index(f)
  OBVIOUS
<1>4. /\ IsFiniteSet(W) /\ Cardinality(W) <= Chunks(f)
      /\ Chunks(f) = Cardinality(W) => Index(f) = W
  BY <1>2, <1>3, FS_Subset
<1>5. Cardinality(W) \in Nat
  BY <1>4, FS_CardinalityType
<1>6. QED
  BY <1>1, <1>2, <1>4, <1>5

(* A file waits for nothing exactly when all of its chunks are written.    *)
LEMMA LeftZero ==
  ASSUME NEW f \in File, NEW W \in SUBSET Index(f)
  PROVE  Rest(f, W) \in 0..Size[f] /\ (Rest(f, W) = 0 <=> W = Index(f))
<1> DEFINE s == Size[f] c == ChunkSize n == Chunks(f) k == Cardinality(W)
           last == n \in W
<1>1. /\ s \in Nat /\ c \in Nat \ {0} /\ n \in Nat /\ s <= c * n /\ c * n < s + c
      /\ (s = 0 <=> n = 0)
  BY ReaderAssumption, ChunkBounds
<1>2. k \in 0..n /\ (k = n <=> W = Index(f))
  BY WrittenCount
<1>3. Rest(f, W) = s - c * k + (IF last THEN c * n - s ELSE 0)
  BY DEF Rest
<1>4. ~last => k < n \/ n = 0
  <2>1. n # 0 => n \in Index(f)
    BY <1>1 DEF Index
  <2>2. QED
    BY <1>1, <1>2, <2>1
<1>5. last => k >= 1
  <2>1. last => W # {}
    OBVIOUS
  <2>2. k = 0 => W = {}
    BY WrittenCount, FS_EmptySet
  <2>3. QED
    BY <1>1, <1>2, <2>1, <2>2
<1> HIDE DEF s, c, n, k, last
<1>6. CASE last
  <2>1. Rest(f, W) = c * (n - k)
    BY <1>1, <1>2, <1>3, <1>6, Z3
  <2>2. n - k \in Nat /\ n - k <= n - 1
    BY <1>1, <1>2, <1>5, <1>6
  <2>3. c * (n - k) <= c * (n - 1)
    BY <1>1, <2>2, Z3
  <2>4. c * (n - k) >= 0 /\ (c * (n - k) = 0 <=> n - k = 0)
    BY <1>1, <2>2, Z3
  <2>5. c * (n - 1) < s
    BY <1>1, Z3
  <2>6. QED
    BY <1>1, <1>2, <2>1, <2>2, <2>3, <2>4, <2>5, Z3 DEF s
<1>7. CASE ~last /\ k < n
  <2>1. Rest(f, W) = s - c * k
    BY <1>1, <1>2, <1>3, <1>7, Z3
  <2>2. c * k <= c * (n - 1) /\ c * k >= 0
    BY <1>1, <1>2, <1>7, Z3
  <2>3. c * (n - 1) = c * n - c
    BY <1>1, Z3
  <2>4. QED
    BY <1>1, <1>2, <1>7, <2>1, <2>2, <2>3, Z3 DEF s
<1>8. CASE ~last /\ n = 0
  <2>1. k = 0 /\ s = 0
    BY <1>1, <1>2, <1>8
  <2>2. Rest(f, W) = 0
    BY <1>1, <1>3, <1>8, <2>1, Z3
  <2>3. QED
    BY <1>1, <1>2, <1>8, <2>1, <2>2 DEF s
<1>9. QED
  BY <1>4, <1>6, <1>7, <1>8

LEMMA LeftSame ==
  ASSUME NEW f \in File, \A i \in Index(f) : Task(f, i) \in written' <=> Task(f, i) \in written
  PROVE  WrittenOf(f)' = WrittenOf(f) /\ Left(f)' = Left(f)
<1>1. WrittenOf(f)' = WrittenOf(f)
  BY DEF WrittenOf, Index
<1>2. QED
  BY <1>1 DEF Left

LEMMA LeftWritten ==
  ASSUME NEW f \in File, NEW i \in Index(f), Task(f, i) \notin written,
         written' = written \cup {Task(f, i)}
  PROVE  Left(f)' = Left(f) - Task(f, i).length
<1> DEFINE W == WrittenOf(f)
<1>1. i \in Int /\ Chunks(f) \in Nat /\ i >= 1 /\ i <= Chunks(f)
  BY ChunkBounds DEF Index
<1>2. W' = W \cup {i} /\ i \notin W
  <2>1. \A j \in Index(f) : Task(f, j) = Task(f, i) => j = i
    BY <1>1, TaskInjective DEF Index
  <2>2. QED
    BY <2>1 DEF WrittenOf, Index
<1>3. IsFiniteSet(W) /\ Cardinality(W) \in Nat
  BY WrittenIndex, WrittenCount, FS_CardinalityType
<1>4. Cardinality(W') = Cardinality(W) + 1
  BY <1>2, <1>3, FS_AddElement
<1>5. Chunks(f) \in W' <=> Chunks(f) \in W \/ i = Chunks(f)
  BY <1>2
<1>6. /\ i < Chunks(f) => Task(f, i).length = ChunkSize
      /\ i = Chunks(f) => Task(f, i).length = Size[f] - ChunkSize * Chunks(f) + ChunkSize
  BY TaskLengths DEF Index
<1>7. Left(f)' = Size[f] - ChunkSize * Cardinality(W')
                   + (IF Chunks(f) \in W' THEN ChunkSize * Chunks(f) - Size[f] ELSE 0)
  BY DEF Left, Rest
<1>8. Left(f) = Size[f] - ChunkSize * Cardinality(W)
                  + (IF Chunks(f) \in W THEN ChunkSize * Chunks(f) - Size[f] ELSE 0)
  BY DEF Left, Rest
<1> DEFINE k == Cardinality(W) s == Size[f] c == ChunkSize n == Chunks(f)
<1>9. s \in Nat /\ c \in Nat /\ n \in Nat /\ k \in Nat
  BY <1>3, ReaderAssumption, ChunkBounds
<1>10. c * (k + 1) = c * k + c /\ c * k \in Int /\ c * n \in Int
  BY <1>9, Z3
<1>11. Left(f)' = s - (c * k + c) + (IF n \in W' THEN c * n - s ELSE 0)
  BY <1>4, <1>7, <1>10
<1>12. CASE i = n
  <2>1. n \in W' /\ n \notin W
    BY <1>2, <1>5, <1>12
  <2>2. QED
    BY <1>6, <1>8, <1>9, <1>10, <1>11, <1>12, <2>1
<1>13. CASE i < n
  <2>1. n \in W' <=> n \in W
    BY <1>5, <1>13, <1>1
  <2>2. QED
    BY <1>6, <1>8, <1>9, <1>10, <1>11, <1>13, <2>1
<1>14. QED
  BY <1>1, <1>12, <1>13

LEMMA LeftFresh ==
  ASSUME NEW f \in File, WrittenOf(f) = {}
  PROVE  Left(f) = Size[f]
<1>1. Cardinality(WrittenOf(f)) = 0 /\ Chunks(f) \notin WrittenOf(f)
  BY FS_EmptySet
<1>2. Size[f] \in Nat /\ ChunkSize \in Nat
  BY ReaderAssumption
<1>3. QED
  BY <1>1, <1>2 DEF Left, Rest

-----------------------------------------------------------------------------
(* 3. What is still to be fetched is one line: the queue, and what _fill   *)
(* has not put yet.  A put moves the border, a worker takes the head.      *)

Item == AllTasks \cup {Sentinel}
line == inq \o offered
InLine(t) == \E i \in 1..Len(line) : line[i] = t

QueueTyped ==
  /\ offered \in Seq(Item) /\ (fill = "putting" <=> offered # <<>>)
  /\ inq \in Seq(Item) /\ Len(inq) <= QueueSize

Distinct(s) == \A i, j \in 1..Len(s) : s[i] = s[j] => i = j

LineInv ==
  /\ Distinct(line)
  /\ \A i \in 1..Len(line) : line[i] = Sentinel =>
       i = Len(line) /\ listed = Len(listing) /\ fill # "listing"
  /\ fill = "ended" => listed = Len(listing)

LEMMA QueueSizeType == QueueSize \in Nat \ {0}
<1>1. Cardinality(Worker) \in Nat /\ (Cardinality(Worker) = 0 <=> Worker = {})
  BY ReaderAssumption, FS_CardinalityType, FS_EmptySet
<1>2. QED
  BY <1>1, ReaderAssumption DEF QueueSize

LEMMA ConcatIs ==
  ASSUME NEW q \in Seq(Item), NEW o \in Seq(Item)
  PROVE  /\ q \o o \in Seq(Item) /\ Len(q \o o) = Len(q) + Len(o)
         /\ Len(q) \in Nat /\ Len(o) \in Nat
         /\ \A i \in 1..Len(q) : (q \o o)[i] = q[i]
         /\ \A i \in 1..Len(o) : (q \o o)[Len(q) + i] = o[i]
         /\ o = <<>> => q \o o = q
<1>1. Len(q) \in Nat /\ Len(o) \in Nat
  BY LenProperties
<1>2. /\ q \o o \in Seq(Item) /\ Len(q \o o) = Len(q) + Len(o)
      /\ \A i \in 1..Len(q) + Len(o) :
           (q \o o)[i] = IF i <= Len(q) THEN q[i] ELSE o[i - Len(q)]
  BY ConcatProperties
<1>3. \A i \in 1..Len(q) : (q \o o)[i] = q[i]
  BY <1>1, <1>2
<1>4. \A i \in 1..Len(o) : (q \o o)[Len(q) + i] = o[i]
  BY <1>1, <1>2
<1>5. o = <<>> => q \o o = q
  BY ConcatEmptySeq
<1>6. QED
  BY <1>1, <1>2, <1>3, <1>4, <1>5

LEMMA LineProperties ==
  ASSUME QueueTyped
  PROVE  /\ line \in Seq(Item) /\ Len(line) = Len(inq) + Len(offered)
         /\ Len(inq) \in Nat /\ Len(offered) \in Nat /\ Len(line) \in Nat
         /\ \A i \in 1..Len(inq) : line[i] = inq[i]
         /\ \A i \in 1..Len(offered) : line[Len(inq) + i] = offered[i]
         /\ offered = <<>> => line = inq
BY ConcatIs DEF QueueTyped, line

(* Put leaves what the queue and tasks make together.                      *)
LEMMA PutLine ==
  ASSUME QueueTyped, NEW tasks \in Seq(Item), Put(tasks)
  PROVE  /\ inq' \in Seq(Item) /\ offered' \in Seq(Item) /\ Len(inq') <= QueueSize
         /\ line' = inq \o tasks
         /\ fill' = "putting" <=> offered' # <<>>
         /\ fill' \in {"listing", "putting", "ended", "failed"}
         /\ fill' = "listing" => Sentinel \notin {tasks[i] : i \in DOMAIN tasks}
<1> DEFINE k == Len(tasks) m == Len(inq)
           n == Smaller(k, QueueSize - m)
<1>1. k \in Nat /\ m \in Nat /\ m <= QueueSize /\ QueueSize \in Nat
  BY LenProperties, QueueSizeType DEF QueueTyped
<1>2. n \in 0..k /\ n + m <= QueueSize
  BY <1>1 DEF Smaller
<1>3. inq' = inq \o SubSeq(tasks, 1, n) /\ offered' = SubSeq(tasks, n + 1, k)
  BY DEF Put
<1>4. \A i \in 1..k : tasks[i] \in Item
  BY ElementOfSeq
<1>5. SubSeq(tasks, 1, n) \in Seq(Item) /\ Len(SubSeq(tasks, 1, n)) = n
  <2>1. \A i \in 1..n : tasks[i] \in Item
    BY <1>1, <1>2, <1>4
  <2>2. SubSeq(tasks, 1, n) \in Seq(Item) /\ Len(SubSeq(tasks, 1, n)) = IF 1 <= n THEN n - 1 + 1 ELSE 0
    BY <1>2, <2>1, SubSeqProperties
  <2>3. QED
    BY <1>1, <1>2, <2>2
<1>6. SubSeq(tasks, n + 1, k) \in Seq(Item) /\ Len(SubSeq(tasks, n + 1, k)) = k - n
  <2>1. n + 1 \in Int /\ k \in Int /\ \A i \in (n + 1)..k : tasks[i] \in Item
    BY <1>1, <1>2, <1>4
  <2>2. /\ SubSeq(tasks, n + 1, k) \in Seq(Item)
        /\ Len(SubSeq(tasks, n + 1, k)) = IF n + 1 <= k THEN k - (n + 1) + 1 ELSE 0
    BY <2>1, SubSeqProperties
  <2>3. QED
    BY <1>1, <1>2, <2>2
<1>7. SubSeq(tasks, 1, n) \o SubSeq(tasks, n + 1, k) = tasks
  <2>1. SubSeq(tasks, 1, n) \o SubSeq(tasks, n + 1, k) = SubSeq(tasks, 1, k)
    <3>1. 1 \in 1..(k + 1) /\ n \in (1 - 1)..k /\ k \in n..k
      BY <1>1, <1>2
    <3>2. QED
      BY <3>1, ConcatAdjacentSubSeq
  <2>2. QED
    BY <2>1, SubSeqFull
<1>8. inq' \in Seq(Item) /\ Len(inq') = m + n
  BY <1>3, <1>5, ConcatProperties DEF QueueTyped
<1>9. line' = inq \o tasks
  <2>1. line' = inq' \o offered'
    BY DEF line
  <2>2. inq \in Seq(Item)
    BY DEF QueueTyped
  <2>3. \A A, B \in Seq(Item) : (inq \o A) \o B = inq \o (A \o B)
    BY <2>2, ConcatAssociative
  <2>4. QED
    BY <1>3, <1>5, <1>6, <1>7, <2>1, <2>3
<1>10. offered' # <<>> <=> n < k
  <2>1. offered' \in Seq(Item) /\ Len(offered') = k - n
    BY <1>3, <1>6
  <2>2. offered' # <<>> => Len(offered') \in Nat \ {0}
    BY <2>1, EmptySeq
  <2>3. Len(<<>>) = 0
    OBVIOUS
  <2>4. QED
    BY <1>1, <1>2, <2>1, <2>2, <2>3
<1>11. /\ fill' = "putting" <=> n < k
       /\ fill' \in {"listing", "putting", "ended", "failed"}
       /\ fill' = "listing" => Sentinel \notin {tasks[i] : i \in DOMAIN tasks}
  BY DEF Put
<1>12. QED
  BY <1>2, <1>3, <1>6, <1>8, <1>9, <1>10, <1>11

(* Chunks of a new object, or the sentinel, join the end of the line.      *)
LEMMA LineGrows ==
  ASSUME QueueTyped, Distinct(line), NEW tasks \in Seq(Item), line' = line \o tasks, Distinct(tasks),
         \A i \in 1..Len(tasks) : ~InLine(tasks[i])
  PROVE  /\ Distinct(line)'
         /\ \A t : InLine(t)' <=> InLine(t) \/ \E i \in 1..Len(tasks) : tasks[i] = t
         /\ Len(line') = Len(line) + Len(tasks)
         /\ \A i \in 1..Len(line') : line'[i] = IF i <= Len(line) THEN line[i]
                                                ELSE tasks[i - Len(line)]
<1> DEFINE n == Len(line) m == Len(tasks)
<1>1. line \in Seq(Item) /\ n \in Nat /\ m \in Nat
  BY LineProperties, LenProperties
<1>2. /\ Len(line') = n + m
      /\ \A i \in 1..n + m : line'[i] = IF i <= n THEN line[i] ELSE tasks[i - n]
  BY <1>1, ConcatProperties
<1>3. ASSUME NEW i \in 1..n + m, NEW j \in 1..n + m, line'[i] = line'[j] PROVE i = j
  <2>1. CASE i <= n /\ j <= n
    BY <1>1, <1>2, <1>3, <2>1 DEF Distinct
  <2>2. CASE i > n /\ j > n
    <3>1. i - n \in 1..m /\ j - n \in 1..m /\ tasks[i - n] = tasks[j - n]
      BY <1>1, <1>2, <1>3, <2>2
    <3>2. i - n = j - n
      BY <3>1 DEF Distinct
    <3>3. QED
      BY <1>1, <3>2
  <2>3. CASE i <= n /\ j > n
    <3>1. i \in 1..n /\ j - n \in 1..m /\ line[i] = tasks[j - n]
      BY <1>1, <1>2, <1>3, <2>3
    <3>2. QED
      BY <3>1 DEF InLine
  <2>4. CASE i > n /\ j <= n
    <3>1. j \in 1..n /\ i - n \in 1..m /\ line[j] = tasks[i - n]
      BY <1>1, <1>2, <1>3, <2>4
    <3>2. QED
      BY <3>1 DEF InLine
  <2>5. QED
    BY <1>1, <2>1, <2>2, <2>3, <2>4
<1>4. ASSUME NEW t PROVE InLine(t)' <=> InLine(t) \/ \E i \in 1..m : tasks[i] = t
  <2>1. InLine(t)' <=> \E i \in 1..n + m : line'[i] = t
    BY <1>2 DEF InLine
  <2>2. \A i \in 1..n : i \in 1..n + m /\ line'[i] = line[i]
    BY <1>1, <1>2
  <2>3. \A i \in 1..m : n + i \in 1..n + m /\ line'[n + i] = tasks[i]
    BY <1>1, <1>2
  <2>4. \A i \in 1..n + m : i \in 1..n \/ (i - n \in 1..m /\ line'[i] = tasks[i - n])
    BY <1>1, <1>2
  <2>5. InLine(t) => InLine(t)'
    BY <2>1, <2>2 DEF InLine
  <2>6. (\E i \in 1..m : tasks[i] = t) => InLine(t)'
    BY <2>1, <2>3
  <2>7. InLine(t)' => InLine(t) \/ \E i \in 1..m : tasks[i] = t
    <3>1. SUFFICES ASSUME NEW i \in 1..n + m, line'[i] = t
                   PROVE  InLine(t) \/ \E j \in 1..m : tasks[j] = t
      BY <2>1
    <3>2. i \in 1..n => InLine(t)
      BY <2>2, <3>1 DEF InLine
    <3>3. QED
      BY <2>4, <3>1, <3>2
  <2>8. QED
    BY <2>5, <2>6, <2>7
<1>5. QED
  BY <1>2, <1>3, <1>4 DEF Distinct

(* The head leaves it.                                                     *)
LEMMA LineTaken ==
  ASSUME QueueTyped, LineInv, inq # <<>>, inq' = Tail(inq), offered' = offered,
         UNCHANGED <<listing, listed, fill>>
  PROVE  /\ QueueTyped' /\ LineInv'
         /\ InLine(Head(inq)) /\ \A t : InLine(t)' <=> InLine(t) /\ t # Head(inq)
<1> DEFINE n == Len(line)
<1>1. /\ line \in Seq(Item) /\ n = Len(inq) + Len(offered)
      /\ Len(inq) \in Nat \ {0} /\ Len(offered) \in Nat
      /\ \A i \in 1..Len(inq) : line[i] = inq[i]
      /\ \A i \in 1..Len(offered) : line[Len(inq) + i] = offered[i]
  BY LineProperties, EmptySeq DEF QueueTyped
<1>2. /\ Tail(inq) \in Seq(Item) /\ Len(Tail(inq)) = Len(inq) - 1
      /\ \A i \in 1..Len(Tail(inq)) : Tail(inq)[i] = inq[i + 1]
  BY HeadTailProperties DEF QueueTyped
<1>3. QueueTyped'
  <2>1. Len(Tail(inq)) <= QueueSize
    BY <1>1, <1>2, QueueSizeType DEF QueueTyped
  <2>2. QED
    BY <1>2, <2>1 DEF QueueTyped, QueueSize
<1>4. /\ Len(line') = Len(inq') + Len(offered')
      /\ \A i \in 1..Len(inq') : line'[i] = inq'[i]
      /\ \A i \in 1..Len(offered') : line'[Len(inq') + i] = offered'[i]
  <2>1. line' = inq' \o offered' /\ inq' \in Seq(Item) /\ offered' \in Seq(Item)
    BY <1>3 DEF line, QueueTyped
  <2>2. QED
    BY <2>1, ConcatIs
<1>5. Len(line') = n - 1
  BY <1>1, <1>2, <1>4
<1>6. ASSUME NEW i \in 1..n - 1 PROVE line'[i] = line[i + 1]
  <2>1. CASE i <= Len(inq) - 1
    <3>1. i \in 1..Len(Tail(inq)) /\ i + 1 \in 1..Len(inq)
      BY <1>1, <1>2, <2>1
    <3>2. QED
      BY <1>1, <1>2, <1>4, <3>1
  <2>2. CASE i > Len(inq) - 1
    <3>1. DEFINE j == i - (Len(inq) - 1)
    <3>2. j \in 1..Len(offered) /\ Len(inq') + j = i /\ Len(inq) + j = i + 1
      BY <1>1, <1>2, <2>2
    <3>3. line'[Len(inq') + j] = offered[j] /\ line[Len(inq) + j] = offered[j]
      BY <1>1, <1>4, <3>2
    <3>4. QED
      BY <3>2, <3>3
  <2>3. QED
    BY <1>1, <2>1, <2>2
<1>7. Head(inq) = line[1] /\ n \in Nat /\ n >= 1
  BY <1>1
<1>8. \A i \in 1..n - 1 : i + 1 \in 1..n
  BY <1>7
<1>9. Distinct(line)'
  <2>1. ASSUME NEW i \in 1..n - 1, NEW j \in 1..n - 1, line'[i] = line'[j] PROVE i = j
    <3>1. i + 1 \in 1..n /\ j + 1 \in 1..n
      BY <1>8
    <3>2. line[i + 1] = line[j + 1]
      BY <1>6, <2>1
    <3>3. i + 1 = j + 1
      BY <3>1, <3>2 DEF Distinct, LineInv
    <3>4. QED
      BY <1>7, <3>3
  <2>2. QED
    BY <1>5, <2>1 DEF Distinct
<1>10. ASSUME NEW i \in 1..Len(line'), line'[i] = Sentinel
       PROVE  i = Len(line') /\ listed' = Len(listing') /\ fill' # "listing"
  <2>1. i + 1 \in 1..n /\ line[i + 1] = Sentinel
    BY <1>5, <1>6, <1>8, <1>10
  <2>2. QED
    BY <1>5, <1>7, <2>1 DEF LineInv
<1>11. InLine(Head(inq))
  BY <1>7 DEF InLine
<1>12. ASSUME NEW t PROVE InLine(t)' <=> InLine(t) /\ t # Head(inq)
  <2>1. ASSUME InLine(t)' PROVE InLine(t) /\ t # Head(inq)
    <3>1. PICK i \in 1..n - 1 : line'[i] = t
      BY <1>5, <2>1 DEF InLine
    <3>2. i + 1 \in 1..n /\ line[i + 1] = t /\ 1 \in 1..n /\ i + 1 # 1
      BY <1>6, <1>7, <1>8, <3>1
    <3>3. QED
      BY <1>7, <3>2 DEF InLine, Distinct, LineInv
  <2>2. ASSUME InLine(t), t # Head(inq) PROVE InLine(t)'
    <3>1. PICK i \in 1..n : line[i] = t
      BY <2>2 DEF InLine
    <3>2. i # 1
      BY <1>7, <2>2, <3>1
    <3>3. i - 1 \in 1..n - 1 /\ (i - 1) + 1 = i
      BY <1>7, <3>2
    <3>4. line'[i - 1] = t
      BY <1>6, <3>1, <3>3
    <3>5. QED
      BY <1>5, <3>3, <3>4 DEF InLine
  <2>3. QED
    BY <2>1, <2>2
<1>13. QED
  BY <1>3, <1>9, <1>10, <1>11, <1>12 DEF LineInv

(* A sentinel at the head is all that is left.                             *)
LEMMA SentinelLast ==
  ASSUME QueueTyped, LineInv, inq # <<>>, Head(inq) = Sentinel
  PROVE  line = <<Sentinel>> /\ Back = inq
<1>1. /\ line \in Seq(Item) /\ Len(line) = Len(inq) + Len(offered)
      /\ Len(inq) \in Nat \ {0} /\ Len(offered) \in Nat
      /\ \A i \in 1..Len(inq) : line[i] = inq[i]
  BY LineProperties, EmptySeq DEF QueueTyped
<1>2. 1 \in 1..Len(line) /\ line[1] = Sentinel
  BY <1>1
<1>3. Len(line) = 1
  BY <1>1, <1>2 DEF LineInv
<1>4. line = <<Sentinel>>
  <2>1. \A s \in Seq(Item) : Len(s) = 1 /\ s[1] = Sentinel => s = <<Sentinel>>
    OBVIOUS
  <2>2. QED
    BY <1>1, <1>2, <1>3, <2>1
<1>5. Len(inq) = 1 /\ inq[1] = Sentinel /\ inq \in Seq(Item)
  BY <1>1, <1>2, <1>3 DEF QueueTyped
<1>6. inq = <<Sentinel>>
  BY <1>5
<1>7. Back = inq
  BY <1>6 DEF Back
<1>8. QED
  BY <1>4, <1>7

-----------------------------------------------------------------------------
(* 4. Steps, and the types of the rest.                                    *)

LEMMA StepCases ==
  ASSUME [Next]_vars
  PROVE  \/ List \/ ListingEnds \/ PutRest \/ ListingFails \/ Consume \/ Join \/ Abort
         \/ \E w \in Worker : Wake(w) \/ Fetch(w) \/ Write(w) \/ Move(w) \/ WorkerFails(w)
         \/ UNCHANGED vars
BY DEF Next, WorkerStep, Stopped

Busy == {"fetching", "writing", "moving"}

WorkersTyped ==
  /\ pc \in [Worker -> Places] /\ task \in [Worker -> AllTasks \cup {NoTask}]
  /\ \A w \in Worker : pc[w] \in Busy <=> task[w] # NoTask
  /\ done \in BOOLEAN

FilesTyped ==
  /\ pending \in [File -> Int] /\ active \subseteq NonEmpty
  /\ written \subseteq AllTasks /\ target \subseteq NonEmpty /\ outq \in Seq(NonEmpty)

RestTyped ==
  /\ listing \in Listings /\ listed \in 0..Len(listing)
  /\ fill \in {"listing", "putting", "ended", "failed"}
  /\ main \in {"waiting", "joining", "ended", "failed"}
  /\ faults \in 0..MaxFaults

(* How a worker goes on: it waits, or ends, or has a new task.             *)
Free(w, place) == Go(w, place, NoTask) /\ inq' = inq
Job(w) ==
  \/ Free(w, "getting") /\ done' = done
  \/ Free(w, "ended") /\ done' = TRUE /\ (done \/ line = <<Sentinel>>)
  \/ /\ inq # <<>> /\ Head(inq) \in AllTasks /\ inq' = Tail(inq) /\ done' = done
     /\ Go(w, "fetching", Head(inq))

LEMMA TakeIsJob ==
  ASSUME QueueTyped, LineInv, NEW w \in Worker, inq # <<>>, Take(w)
  PROVE  Job(w)
<1>1. CASE Head(inq) = Sentinel
  BY <1>1, SentinelLast DEF Take, Job, Free
<1>2. CASE Head(inq) # Sentinel
  <2>1. Head(inq) \in AllTasks
    BY <1>2, HeadTailProperties DEF QueueTyped, Item
  <2>2. QED
    BY <1>2, <2>1 DEF Take, Job
<1>3. QED
  BY <1>1, <1>2

LEMMA LoopIsJob ==
  ASSUME QueueTyped, LineInv, WorkersTyped, NEW w \in Worker, Loop(w)
  PROVE  Job(w)
<1>1. CASE ~done /\ inq # <<>> /\ Take(w)
  BY <1>1, TakeIsJob
<1>2. CASE done /\ Go(w, "ended", NoTask) /\ UNCHANGED <<inq, done>>
  BY <1>2 DEF Job, Free
<1>3. CASE ~done /\ inq = <<>> /\ Go(w, "getting", NoTask) /\ UNCHANGED <<inq, done>>
  BY <1>3 DEF Job, Free
<1>4. QED
  BY <1>1, <1>2, <1>3 DEF Loop

(* What the step of a worker does to the workers and the line.             *)
WorkerEffect(w) ==
  /\ \/ Job(w)
     \/ Go(w, "failed", NoTask) /\ inq' = inq /\ done' = TRUE
     \/ /\ \E place \in {"writing", "moving"} : Go(w, place, task[w])
        /\ task[w] # NoTask /\ inq' = inq /\ done' = done
  /\ UNCHANGED <<listing, listed, fill, offered, main>>

LEMMA WorkerEffects ==
  ASSUME QueueTyped, LineInv, WorkersTyped, NEW w \in Worker,
         Wake(w) \/ Fetch(w) \/ Write(w) \/ Move(w) \/ WorkerFails(w)
  PROVE  WorkerEffect(w)
<1>1. CASE Wake(w)
  BY <1>1, TakeIsJob DEF Wake, WorkerEffect, fillVars
<1>2. CASE Fetch(w)
  <2>1. task[w] # NoTask
    BY <1>2 DEF Fetch, At, WorkersTyped, Busy
  <2>2. QED
    BY <1>2, <2>1 DEF Fetch, WorkerEffect, fillVars
<1>3. CASE Write(w)
  <2>1. task[w] # NoTask
    BY <1>3 DEF Write, At, WorkersTyped, Busy
  <2>2. \/ Go(w, "moving", task[w]) /\ UNCHANGED <<inq, done>>
        \/ Loop(w)
    BY <1>3 DEF Write
  <2>3. UNCHANGED <<listing, listed, fill, offered, main>>
    BY <1>3 DEF Write, fillVars
  <2>4. QED
    BY <2>1, <2>2, <2>3, LoopIsJob DEF WorkerEffect
<1>4. CASE Move(w)
  BY <1>4, LoopIsJob DEF Move, WorkerEffect, fillVars
<1>5. CASE WorkerFails(w)
  BY <1>5 DEF WorkerFails, WorkerEffect, fillVars
<1>6. QED
  BY <1>1, <1>2, <1>3, <1>4, <1>5

LEMMA InitTypes == Init => QueueTyped /\ LineInv /\ WorkersTyped /\ FilesTyped /\ RestTyped
<1> SUFFICES ASSUME Init PROVE QueueTyped /\ LineInv /\ WorkersTyped /\ FilesTyped /\ RestTyped
  OBVIOUS
<1>1. offered = <<>> /\ inq = <<>> /\ outq = <<>> /\ fill = "listing"
  BY DEF Init
<1>2. <<>> \in Seq(Item) /\ <<>> \in Seq(NonEmpty) /\ Len(<<>>) = 0
  OBVIOUS
<1>3. QueueTyped
  BY <1>1, <1>2, QueueSizeType DEF QueueTyped
<1>4. Len(line) = 0
  BY <1>1, <1>2, <1>3, LineProperties
<1>5. LineInv
  BY <1>1, <1>4 DEF LineInv, Distinct
<1>6. WorkersTyped
  BY DEF Init, WorkersTyped, Places, Busy
<1>7. FilesTyped
  BY <1>1, <1>2 DEF Init, FilesTyped
<1>8. RestTyped
  <2>1. listing \in Listings /\ listed = 0 /\ listing \in Seq(File)
    BY ReaderAssumption DEF Init
  <2>2. Len(listing) \in Nat
    BY <2>1, LenProperties
  <2>3. QED
    BY <2>1, <2>2, ReaderAssumption DEF Init, RestTyped
<1>9. QED
  BY <1>3, <1>5, <1>6, <1>7, <1>8

LEMMA RestTypes == RestTyped /\ QueueTyped /\ [Next]_vars => RestTyped'
<1> SUFFICES ASSUME RestTyped, QueueTyped, [Next]_vars PROVE RestTyped'
  OBVIOUS
<1>1. Len(listing) \in Nat /\ listing \in Seq(File)
  BY ReaderAssumption, LenProperties DEF RestTyped
<1>2. \A t \in Seq(Item) : Put(t) => fill' \in {"listing", "putting", "ended", "failed"}
  BY PutLine
<1>3. CASE List
  <2>1. fill' \in {"listing", "putting", "ended", "failed"}
    BY <1>3 DEF List, Put
  <2>2. listed' \in 0..Len(listing)
    BY <1>1, <1>3 DEF List, RestTyped
  <2>3. UNCHANGED <<listing, main, faults>>
    BY <1>3 DEF List
  <2>4. QED
    BY <2>1, <2>2, <2>3 DEF RestTyped
<1>4. CASE ListingEnds \/ PutRest
  <2>1. fill' \in {"listing", "putting", "ended", "failed"}
    BY <1>4 DEF ListingEnds, PutRest, Put
  <2>2. UNCHANGED <<listing, listed, main, faults>>
    BY <1>4 DEF ListingEnds, PutRest
  <2>3. QED
    BY <2>1, <2>2 DEF RestTyped
<1>5. CASE ListingFails
  BY <1>5, ReaderAssumption DEF ListingFails, RestTyped
<1>6. CASE Consume \/ Join \/ Abort
  BY <1>6 DEF Consume, Join, Abort, RestTyped, fillVars
<1>7. ASSUME NEW w \in Worker, Wake(w) \/ Fetch(w) \/ Write(w) \/ Move(w) PROVE RestTyped'
  BY <1>7 DEF Wake, Fetch, Write, Move, RestTyped, fillVars
<1>8. ASSUME NEW w \in Worker, WorkerFails(w) PROVE RestTyped'
  BY <1>8, ReaderAssumption DEF WorkerFails, RestTyped, fillVars
<1>9. CASE UNCHANGED vars
  BY <1>9 DEF vars, RestTyped
<1>10. QED
  BY <1>3, <1>4, <1>5, <1>6, <1>7, <1>8, <1>9, StepCases

LEMMA WorkerTypes ==
  QueueTyped /\ LineInv /\ WorkersTyped /\ [Next]_vars => WorkersTyped'
<1> SUFFICES ASSUME QueueTyped, LineInv, WorkersTyped, [Next]_vars PROVE WorkersTyped'
  OBVIOUS
<1>1. CASE UNCHANGED <<pc, task>> /\ done' \in {done, TRUE}
  BY <1>1 DEF WorkersTyped
<1>2. CASE \/ List \/ ListingEnds \/ PutRest \/ ListingFails \/ Consume \/ Join \/ Abort
           \/ UNCHANGED vars
  BY <1>1, <1>2 DEF List, ListingEnds, PutRest, ListingFails, Consume, Join, Abort, vars
<1>3. ASSUME NEW w \in Worker, WorkerEffect(w) PROVE WorkersTyped'
  <2>1. PICK p \in Places, t \in AllTasks \cup {NoTask} :
          Go(w, p, t) /\ (p \in Busy <=> t # NoTask)
    <3>1. NoTask \notin AllTasks
      BY TasksAre
    <3>2. QED
      BY <1>3, <3>1 DEF WorkerEffect, Job, Free, Places, Busy, WorkersTyped
  <2>2. done' \in BOOLEAN
    BY <1>3 DEF WorkerEffect, Job, WorkersTyped
  <2>3. /\ pc' \in [Worker -> Places] /\ task' \in [Worker -> AllTasks \cup {NoTask}]
        /\ pc'[w] = p /\ task'[w] = t
        /\ \A v \in Worker \ {w} : pc'[v] = pc[v] /\ task'[v] = task[v]
    BY <2>1 DEF Go, WorkersTyped
  <2>4. QED
    BY <2>1, <2>2, <2>3 DEF WorkersTyped
<1>4. QED
  BY <1>2, <1>3, WorkerEffects, StepCases

LEMMA FileTypes == FilesTyped /\ RestTyped /\ WorkersTyped /\ [Next]_vars => FilesTyped'
<1> SUFFICES ASSUME FilesTyped, RestTyped, WorkersTyped, [Next]_vars PROVE FilesTyped'
  OBVIOUS
<1>1. CASE UNCHANGED <<active, pending, written, target>> /\ outq' \in {outq, Tail(outq), <<>>}
      /\ (outq = <<>> => outq' = <<>>)
  <2>1. outq \in Seq(NonEmpty) /\ <<>> \in Seq(NonEmpty)
    BY DEF FilesTyped
  <2>2. outq # <<>> => Tail(outq) \in Seq(NonEmpty)
    BY <2>1, HeadTailProperties
  <2>3. outq' \in Seq(NonEmpty)
    BY <1>1, <2>1, <2>2
  <2>4. QED
    BY <1>1, <2>3 DEF FilesTyped
<1>2. CASE \/ ListingEnds \/ PutRest \/ ListingFails \/ Consume \/ Join \/ Abort \/ UNCHANGED vars
  BY <1>1, <1>2 DEF ListingEnds, PutRest, ListingFails, Consume, Join, Abort, vars, files
<1>3. CASE List
  <2>1. listing \in Seq(File) /\ listed + 1 \in 1..Len(listing)
    BY <1>3, ReaderAssumption, LenProperties DEF List, RestTyped
  <2>2. listing[listed + 1] \in File
    BY <2>1, ElementOfSeq
  <2>3. PICK f \in File : f = listing[listed + 1]
    BY <2>2
  <2>4. Chunks(f) > 0 => f \in NonEmpty
    BY ChunkBounds DEF NonEmpty
  <2>5. Size[f] \in Int
    BY ReaderAssumption
  <2>6. /\ active' = IF Chunks(f) > 0 THEN active \cup {f} ELSE active
        /\ pending' = [pending EXCEPT ![f] = Size[f]]
        /\ UNCHANGED <<written, target, outq>>
    BY <1>3, <2>3 DEF List, Pending
  <2>7. QED
    BY <2>4, <2>5, <2>6 DEF FilesTyped
<1>4. ASSUME NEW w \in Worker, Wake(w) \/ Fetch(w) \/ WorkerFails(w) PROVE FilesTyped'
  BY <1>4 DEF Wake, Fetch, WorkerFails, files, FilesTyped
<1>5. ASSUME NEW w \in Worker, Write(w) PROVE FilesTyped'
  <2>1. task[w] \in AllTasks
    BY <1>5 DEF Write, At, WorkersTyped, Busy
  <2>2. PICK f \in File : f = task[w].file /\ \E i \in 1..Chunks(f) : task[w] = Task(f, i)
    BY <2>1, TasksAre
  <2>3. task[w].length \in Int
    <3>1. Chunks(f) \in Nat /\ Size[f] \in Nat /\ ChunkSize \in Nat /\ ChunkSize * Chunks(f) \in Int
      BY ReaderAssumption, ChunkBounds
    <3>2. QED
      BY <2>2, <3>1, TaskLengths
  <2>4. pending' = [pending EXCEPT ![f] = pending[f] - task[w].length]
    BY <1>5, <2>2 DEF Write
  <2>5. pending' \in [File -> Int]
    BY <2>3, <2>4 DEF FilesTyped
  <2>6. written' = written \cup {task[w]} /\ UNCHANGED <<outq, active, target>>
    BY <1>5 DEF Write
  <2>7. QED
    BY <2>1, <2>5, <2>6 DEF FilesTyped
<1>6. ASSUME NEW w \in Worker, Move(w) PROVE FilesTyped'
  <2>1. task[w] \in AllTasks
    BY <1>6 DEF Move, At, WorkersTyped, Busy
  <2>2. task[w].file \in NonEmpty
    BY <2>1, TasksAre
  <2>3. outq' \in Seq(NonEmpty)
    BY <1>6, <2>2, AppendProperties DEF Move, FilesTyped
  <2>4. QED
    BY <1>6, <2>2, <2>3 DEF Move, FilesTyped
<1>7. QED
  BY <1>2, <1>3, <1>4, <1>5, <1>6, StepCases

-----------------------------------------------------------------------------
(* 5. Where the chunks are: each is in the line, with one worker, or       *)
(* written; and what is not written has the buffer of its file.            *)

Sofar == {listing[i] : i \in 1..listed}

Held(t) == \E w \in Worker : task[w] = t

OnePlace ==
  /\ \A v, w \in Worker : task[v] = task[w] /\ task[v] # NoTask => v = w
  /\ \A t \in AllTasks : InLine(t) => ~Held(t) /\ t \notin written
  /\ \A w \in Worker : pc[w] \in {"fetching", "writing"} => task[w] \notin written

Whole(f) == WrittenOf(f) = Index(f)

MoversInv ==
  /\ \A w \in Worker : pc[w] = "moving" => Whole(task[w].file)
  /\ \A v, w \in Worker :
       pc[v] = "moving" /\ pc[w] = "moving" /\ task[v].file = task[w].file => v = w

ActiveInv ==
  /\ \A t \in AllTasks : InLine(t) \/ Held(t) => t.file \in active
  /\ active \subseteq Sofar

FileInv ==
  /\ \A t \in written : t.file \in Sofar
  /\ \A f \in Sofar : pending[f] = Left(f)
  /\ \A f \in File \ Sofar : pending[f] = 0
  /\ \A f \in target : Whole(f) /\ f \in Sofar

Typed == QueueTyped /\ WorkersTyped /\ FilesTyped /\ RestTyped

LEMMA SofarTypes ==
  ASSUME RestTyped
  PROVE  /\ listing \in Seq(File) /\ Len(listing) \in Nat /\ listed \in Nat
         /\ listed <= Len(listing) /\ DOMAIN listing = 1..Len(listing)
         /\ Sofar \subseteq File /\ Sofar \subseteq Listed
         /\ listed = Len(listing) => Sofar = Listed
<1>1. listing \in Seq(File) /\ listed \in 0..Len(listing)
  BY ReaderAssumption DEF RestTyped
<1>2. Len(listing) \in Nat /\ DOMAIN listing = 1..Len(listing)
  BY <1>1, LenProperties
<1>3. \A i \in 1..Len(listing) : listing[i] \in File
  BY <1>1, ElementOfSeq
<1>4. listed \in Nat /\ listed <= Len(listing) /\ \A i \in 1..listed : i \in 1..Len(listing)
  BY <1>1, <1>2
<1>5. Sofar \subseteq File
  BY <1>3, <1>4 DEF Sofar
<1>6. Sofar \subseteq Listed
  BY <1>2, <1>4 DEF Sofar, Listed
<1>7. listed = Len(listing) => Sofar = Listed
  BY <1>2 DEF Sofar, Listed
<1>8. QED
  BY <1>1, <1>2, <1>4, <1>5, <1>6, <1>7

(* The object that is listed next is new.                                  *)
LEMMA NextListed ==
  ASSUME RestTyped, List
  PROVE  /\ listing[listed + 1] \in File /\ listing[listed + 1] \notin Sofar
         /\ Sofar' = Sofar \cup {listing[listed + 1]}
<1>1. /\ listing \in Seq(File) /\ Len(listing) \in Nat /\ listed \in Nat
      /\ DOMAIN listing = 1..Len(listing) /\ listed < Len(listing)
  BY SofarTypes DEF List
<1>2. listed + 1 \in 1..Len(listing) /\ \A i \in 1..listed : i \in 1..Len(listing) /\ i # listed + 1
  BY <1>1
<1>3. listing[listed + 1] \in File
  BY <1>1, <1>2, ElementOfSeq
<1>4. \A i, j \in DOMAIN listing : listing[i] = listing[j] => i = j
  BY ReaderAssumption DEF RestTyped
<1>5. listing[listed + 1] \notin Sofar
  BY <1>1, <1>2, <1>4 DEF Sofar
<1>6. listing' = listing /\ listed' = listed + 1
  BY DEF List
<1>7. \A i \in Int : i \in 1..(listed + 1) <=> i \in 1..listed \/ i = listed + 1
  BY <1>1
<1>8. Sofar' = Sofar \cup {listing[listed + 1]}
  <2>1. Sofar' = {listing[i] : i \in 1..(listed + 1)}
    BY <1>6 DEF Sofar
  <2>2. 1..(listed + 1) = (1..listed) \cup {listed + 1}
    BY <1>1
  <2>3. QED
    BY <2>1, <2>2 DEF Sofar
<1>9. QED
  BY <1>3, <1>5, <1>8

LEMMA FileTasksAre ==
  ASSUME NEW f \in File
  PROVE  /\ FileTasks(f) \in Seq(Item) /\ Len(FileTasks(f)) = Chunks(f) /\ Distinct(FileTasks(f))
         /\ \A i \in 1..Chunks(f) : FileTasks(f)[i] = Task(f, i) /\ FileTasks(f)[i].file = f
         /\ \A i \in DOMAIN FileTasks(f) : FileTasks(f)[i] # Sentinel
         /\ \A t \in AllTasks : t.file = f <=> \E i \in 1..Chunks(f) : FileTasks(f)[i] = t
<1>1. Chunks(f) \in Nat
  BY ChunkBounds
<1>2. \A i \in 1..Chunks(f) : /\ FileTasks(f)[i] = Task(f, i) /\ Task(f, i) \in AllTasks
                              /\ Task(f, i).file = f
  BY <1>1, TasksAre DEF FileTasks, Task
<1>3. FileTasks(f) \in [1..Chunks(f) -> Item]
  BY <1>2 DEF FileTasks, Item
<1>4. FileTasks(f) \in Seq(Item) /\ Len(FileTasks(f)) = Chunks(f)
  BY <1>1, <1>3
<1>5. Distinct(FileTasks(f))
  <2>1. ASSUME NEW i \in 1..Chunks(f), NEW j \in 1..Chunks(f), FileTasks(f)[i] = FileTasks(f)[j]
        PROVE  i = j
    BY <1>1, <1>2, <2>1, TaskInjective
  <2>2. QED
    BY <1>4, <2>1 DEF Distinct
<1>6. \A i \in DOMAIN FileTasks(f) : FileTasks(f)[i] # Sentinel
  BY <1>2, TasksAre DEF FileTasks
<1>7. \A t \in AllTasks : t.file = f <=> \E i \in 1..Chunks(f) : FileTasks(f)[i] = t
  BY <1>2, TasksAre
<1>8. QED
  BY <1>2, <1>4, <1>5, <1>6, <1>7

(* The line at a step.                                                     *)
LEMMA ListLine ==
  ASSUME Typed, LineInv, ActiveInv, NEW f \in File, f = listing[listed + 1], List
  PROVE  /\ QueueTyped' /\ LineInv'
         /\ \A t \in AllTasks : InLine(t)' <=> InLine(t) \/ t.file = f
<1>1. /\ FileTasks(f) \in Seq(Item) /\ Len(FileTasks(f)) = Chunks(f) /\ Distinct(FileTasks(f))
      /\ \A i \in 1..Chunks(f) : FileTasks(f)[i] = Task(f, i) /\ FileTasks(f)[i].file = f
      /\ \A i \in DOMAIN FileTasks(f) : FileTasks(f)[i] # Sentinel
      /\ \A t \in AllTasks : t.file = f <=> \E i \in 1..Chunks(f) : FileTasks(f)[i] = t
  BY FileTasksAre
<1>2. Put(FileTasks(f)) /\ fill = "listing" /\ listing' = listing
  BY DEF List
<1>3. QueueTyped /\ offered = <<>>
  BY <1>2 DEF Typed, QueueTyped
<1>4. /\ inq' \in Seq(Item) /\ offered' \in Seq(Item) /\ Len(inq') <= QueueSize
      /\ line' = inq \o FileTasks(f)
      /\ fill' = "putting" <=> offered' # <<>>
  BY <1>1, <1>2, <1>3, PutLine
<1>5. line = inq
  BY <1>3, LineProperties
<1>6. fill' \in {"listing", "putting"}
  BY <1>1, <1>2 DEF Put
<1>7. QueueTyped'
  BY <1>4 DEF QueueTyped, QueueSize
<1>8. \A i \in 1..Chunks(f) : ~InLine(FileTasks(f)[i])
  <2>1. f \notin active
    BY NextListed DEF ActiveInv, Typed
  <2>2. \A i \in 1..Chunks(f) : FileTasks(f)[i] \in AllTasks
    BY <1>1, TasksAre, ChunkBounds
  <2>3. QED
    BY <1>1, <2>1, <2>2 DEF ActiveInv
<1>9. /\ Distinct(line)'
      /\ \A t : InLine(t)' <=> InLine(t) \/ \E i \in 1..Len(FileTasks(f)) : FileTasks(f)[i] = t
  BY <1>1, <1>3, <1>4, <1>5, <1>8, LineGrows DEF LineInv
<1>10. ~InLine(Sentinel)'
  <2>1. ~InLine(Sentinel)
    BY <1>2 DEF InLine, LineInv
  <2>2. DOMAIN FileTasks(f) = 1..Len(FileTasks(f))
    BY <1>1, LenProperties
  <2>3. QED
    BY <1>1, <1>9, <2>1, <2>2
<1>11. LineInv'
  BY <1>6, <1>9, <1>10 DEF LineInv, InLine
<1>12. QED
  BY <1>1, <1>7, <1>9, <1>11

LEMMA EndLine ==
  ASSUME Typed, LineInv, ListingEnds
  PROVE  /\ QueueTyped' /\ LineInv'
         /\ \A t \in AllTasks : InLine(t)' <=> InLine(t)
<1> DEFINE tasks == <<Sentinel>>
<1>1. tasks \in Seq(Item) /\ Len(tasks) = 1 /\ tasks[1] = Sentinel /\ Distinct(tasks)
  BY DEF Item, Distinct
<1>2. /\ Put(tasks) /\ fill = "listing" /\ listing' = listing /\ listed' = listed
      /\ listed = Len(listing)
  BY DEF ListingEnds
<1>3. QueueTyped /\ offered = <<>>
  BY <1>2 DEF Typed, QueueTyped
<1> HIDE DEF tasks
<1>4. /\ inq' \in Seq(Item) /\ offered' \in Seq(Item) /\ Len(inq') <= QueueSize
      /\ line' = inq \o tasks
      /\ fill' = "putting" <=> offered' # <<>>
      /\ fill' = "listing" => Sentinel \notin {tasks[i] : i \in DOMAIN tasks}
  BY <1>1, <1>2, <1>3, PutLine
<1>5. line = inq
  BY <1>3, LineProperties
<1>6. fill' # "listing"
  <2>1. 1 \in DOMAIN tasks
    BY <1>1, LenProperties
  <2>2. QED
    BY <1>1, <1>4, <2>1
<1>7. QueueTyped'
  BY <1>4 DEF QueueTyped, QueueSize
<1>8. ~InLine(Sentinel)
  BY <1>2 DEF InLine, LineInv
<1>9. /\ Distinct(line)'
      /\ \A t : InLine(t)' <=> InLine(t) \/ \E i \in 1..Len(tasks) : tasks[i] = t
      /\ Len(line') = Len(line) + Len(tasks)
      /\ \A i \in 1..Len(line') : line'[i] = IF i <= Len(line) THEN line[i]
                                             ELSE tasks[i - Len(line)]
  <2>1. line' = line \o tasks /\ Distinct(line)
    BY <1>4, <1>5 DEF LineInv
  <2>2. \A i \in 1..Len(tasks) : ~InLine(tasks[i])
    BY <1>1, <1>8
  <2>3. QED
    BY <1>1, <1>3, <2>1, <2>2, LineGrows
<1>10. \A i \in 1..Len(line') : line'[i] = Sentinel => i = Len(line')
  <2>1. Len(line) \in Nat
    BY <1>3, LineProperties
  <2>2. QED
    BY <1>1, <1>8, <1>9, <2>1 DEF InLine
<1>11. LineInv'
  BY <1>2, <1>6, <1>9, <1>10 DEF LineInv
<1>12. \A t \in AllTasks : InLine(t)' <=> InLine(t)
  BY <1>1, <1>9, TasksAre
<1>13. QED
  BY <1>7, <1>11, <1>12

LEMMA RestLine ==
  ASSUME Typed, LineInv, PutRest
  PROVE  QueueTyped' /\ LineInv' /\ line' = line
<1>1. QueueTyped /\ Put(offered) /\ fill = "putting" /\ offered # <<>> /\ offered \in Seq(Item)
      /\ listing' = listing /\ listed' = listed
  BY DEF PutRest, Typed, QueueTyped
<1>2. /\ inq' \in Seq(Item) /\ offered' \in Seq(Item) /\ Len(inq') <= QueueSize
      /\ line' = inq \o offered
      /\ fill' = "putting" <=> offered' # <<>>
      /\ fill' = "listing" => Sentinel \notin {offered[i] : i \in DOMAIN offered}
  BY <1>1, PutLine
<1>3. line' = line
  BY <1>2 DEF line
<1>4. QueueTyped'
  BY <1>2 DEF QueueTyped, QueueSize
<1>5. /\ Len(line) = Len(inq) + Len(offered) /\ Len(inq) \in Nat /\ Len(offered) \in Nat
      /\ \A i \in 1..Len(offered) : line[Len(inq) + i] = offered[i]
  BY <1>1, LineProperties
<1>6. DOMAIN offered = 1..Len(offered) /\ Len(offered) >= 1
  BY <1>1, <1>5, LenProperties, EmptySeq
<1>7. ASSUME NEW i \in 1..Len(line), line[i] = Sentinel PROVE fill' # "listing"
  <2>1. i = Len(line)
    BY <1>7 DEF LineInv
  <2>2. offered[Len(offered)] = Sentinel /\ Len(offered) \in DOMAIN offered
    BY <1>5, <1>6, <1>7, <2>1
  <2>3. QED
    BY <1>2, <2>2
<1>8. fill' = "ended" => listed = Len(listing)
  <2>1. fill' = "ended" => \E i \in DOMAIN offered : offered[i] = Sentinel
    BY <1>1 DEF Put
  <2>2. \A i \in DOMAIN offered : Len(inq) + i \in 1..Len(line)
    BY <1>5, <1>6
  <2>3. QED
    BY <1>5, <1>6, <2>1, <2>2 DEF LineInv
<1>9. LineInv'
  BY <1>1, <1>3, <1>7, <1>8 DEF LineInv
<1>10. QED
  BY <1>3, <1>4, <1>9

(* What a worker goes on with: nothing, or what was the head of the line.  *)
NextTask(w, t) ==
  /\ task'[w] = t /\ t \in AllTasks \cup {NoTask}
  /\ \A v \in Worker \ {w} : task'[v] = task[v] /\ pc'[v] = pc[v]
  /\ pc'[w] \in {"getting", "ended", "failed", "fetching"} /\ (t # NoTask <=> pc'[w] = "fetching")
  /\ t # NoTask => InLine(t)
  /\ \A u \in AllTasks : InLine(u)' <=> InLine(u) /\ u # t

LEMMA JobTask ==
  ASSUME QueueTyped, LineInv, WorkersTyped, NEW w \in Worker,
         Job(w) \/ (Go(w, "failed", NoTask) /\ inq' = inq),
         UNCHANGED <<listing, listed, fill, offered>>
  PROVE  /\ QueueTyped' /\ LineInv'
         /\ \E t \in AllTasks \cup {NoTask} : NextTask(w, t)
<1>1. ASSUME NEW place \in {"getting", "ended", "failed"}, Free(w, place)
      PROVE  QueueTyped' /\ LineInv' /\ NextTask(w, NoTask)
  <2>1. inq' = inq /\ line' = line
    BY <1>1 DEF Free, line
  <2>2. QueueTyped' /\ LineInv'
    BY <2>1 DEF QueueTyped, QueueSize, LineInv
  <2>3. \A u \in AllTasks : (InLine(u)' <=> InLine(u)) /\ u # NoTask
    BY <2>1, TasksAre DEF InLine
  <2>4. /\ task'[w] = NoTask /\ pc'[w] = place
        /\ \A v \in Worker \ {w} : task'[v] = task[v] /\ pc'[v] = pc[v]
    BY <1>1 DEF Free, Go, WorkersTyped
  <2>5. QED
    BY <2>2, <2>3, <2>4 DEF NextTask
<1>2. CASE /\ inq # <<>> /\ Head(inq) \in AllTasks /\ inq' = Tail(inq)
           /\ Go(w, "fetching", Head(inq))
  <2>1. /\ QueueTyped' /\ LineInv'
        /\ InLine(Head(inq)) /\ \A t : InLine(t)' <=> InLine(t) /\ t # Head(inq)
    BY <1>2, LineTaken
  <2>2. /\ task'[w] = Head(inq) /\ pc'[w] = "fetching"
        /\ \A v \in Worker \ {w} : task'[v] = task[v] /\ pc'[v] = pc[v]
    BY <1>2 DEF Go, WorkersTyped
  <2>3. Head(inq) # NoTask
    BY <1>2, TasksAre
  <2>4. NextTask(w, Head(inq))
    BY <1>2, <2>1, <2>2, <2>3 DEF NextTask
  <2>5. QED
    BY <1>2, <2>1, <2>4
<1>3. QED
  BY <1>1, <1>2 DEF Job, Free

LEMMA LineStep ==
  ASSUME Typed, LineInv, ActiveInv, [Next]_vars
  PROVE  QueueTyped' /\ LineInv'
<1>1. QueueTyped /\ WorkersTyped /\ RestTyped
  BY DEF Typed
<1>2. CASE List
  <2>1. listing[listed + 1] \in File
    BY <1>1, <1>2, NextListed
  <2>2. QED
    BY <1>2, <2>1, ListLine
<1>3. CASE ListingEnds
  BY <1>3, EndLine
<1>4. CASE PutRest
  BY <1>4, RestLine
<1>5. CASE ListingFails
  <2>1. line' = line
    BY <1>5 DEF ListingFails, line
  <2>2. QED
    BY <1>1, <1>5, <2>1 DEF ListingFails, QueueTyped, QueueSize, LineInv
<1>6. CASE Consume \/ Join \/ Abort \/ UNCHANGED vars
  <2>1. UNCHANGED <<fillVars, inq>>
    BY <1>6 DEF Consume, Join, Abort, vars, fillVars
  <2>2. line' = line
    BY <2>1 DEF line, fillVars
  <2>3. QED
    BY <1>1, <2>1, <2>2 DEF fillVars, QueueTyped, QueueSize, LineInv
<1>7. ASSUME NEW w \in Worker, WorkerEffect(w)
      PROVE  QueueTyped' /\ LineInv'
  <2>1. CASE inq' = inq
    <3>1. line' = line
      BY <1>7, <2>1 DEF WorkerEffect, line
    <3>2. QED
      BY <1>1, <1>7, <2>1, <3>1 DEF WorkerEffect, QueueTyped, QueueSize, LineInv
  <2>2. CASE Job(w)
    BY <1>1, <1>7, <2>2, JobTask DEF WorkerEffect
  <2>3. QED
    BY <1>7, <2>1, <2>2 DEF WorkerEffect
<1>8. QED
  BY <1>1, <1>2, <1>3, <1>4, <1>5, <1>6, <1>7, WorkerEffects, StepCases

(* A worker that leaves a chunk, written or lost, for another.             *)
LEMMA OnwardOnePlace ==
  ASSUME WorkersTyped, OnePlace, NEW w \in Worker, NEW t, NextTask(w, t),
         written' = written \/ written' = written \cup {task[w]}
  PROVE  OnePlace'
<1>1. \A u, v \in Worker : task[u] = task[v] /\ task[u] # NoTask => u = v
  BY DEF OnePlace
<1>2. t # NoTask => t \in AllTasks /\ InLine(t) /\ ~Held(t) /\ t \notin written
  BY DEF NextTask, OnePlace
<1>3. ASSUME NEW u \in Worker, NEW v \in Worker, task'[u] = task'[v], task'[u] # NoTask
      PROVE  u = v
  <2>1. CASE u # w /\ v # w
    BY <1>1, <1>3, <2>1 DEF NextTask
  <2>2. CASE u = w /\ v # w
    BY <1>2, <1>3, <2>2 DEF NextTask, Held
  <2>3. CASE u # w /\ v = w
    BY <1>2, <1>3, <2>3 DEF NextTask, Held
  <2>4. QED
    BY <2>1, <2>2, <2>3
<1>4. ASSUME NEW u \in AllTasks, InLine(u)' PROVE ~Held(u)' /\ u \notin written'
  <2>1. InLine(u) /\ u # t /\ ~Held(u) /\ u \notin written
    BY <1>4 DEF NextTask, OnePlace
  <2>2. \A v \in Worker : task'[v] # u
    BY <2>1 DEF NextTask, Held
  <2>3. QED
    BY <2>1, <2>2 DEF Held
<1>5. ASSUME NEW v \in Worker, pc'[v] \in {"fetching", "writing"} PROVE task'[v] \notin written'
  <2>1. CASE v = w
    <3>1. t # NoTask /\ task'[v] = t
      BY <1>5, <2>1 DEF NextTask
    <3>2. QED
      BY <1>2, <3>1 DEF Held
  <2>2. CASE v # w
    <3>1. task'[v] = task[v] /\ pc'[v] = pc[v]
      BY <2>2 DEF NextTask
    <3>2. task[v] # NoTask /\ task[v] \notin written
      BY <1>5, <3>1 DEF OnePlace, WorkersTyped, Busy
    <3>3. task[v] # task[w]
      BY <1>1, <2>2, <3>2
    <3>4. QED
      BY <3>1, <3>2, <3>3
  <2>3. QED
    BY <2>1, <2>2
<1>6. QED
  BY <1>3, <1>4, <1>5 DEF OnePlace

(* A worker that keeps its chunk: it goes to write it, or has written the  *)
(* last one of the file.                                                   *)
LEMMA SameOnePlace ==
  ASSUME WorkersTyped, OnePlace, NEW w \in Worker, NEW place, Go(w, place, task[w]),
         \A u \in AllTasks : InLine(u)' <=> InLine(u),
         \/ pc[w] = "fetching" /\ written' = written
         \/ place = "moving" /\ written' = written \cup {task[w]}
  PROVE  OnePlace' /\ task' = task
<1>1. task' = task /\ pc'[w] = place /\ \A v \in Worker \ {w} : pc'[v] = pc[v]
  BY DEF Go, WorkersTyped
<1>2. \A u, v \in Worker : task'[u] = task'[v] /\ task'[u] # NoTask => u = v
  BY <1>1 DEF OnePlace
<1>3. ASSUME NEW u \in AllTasks, InLine(u)' PROVE ~Held(u)' /\ u \notin written'
  BY <1>1, <1>3 DEF OnePlace, Held
<1>4. ASSUME NEW v \in Worker, pc'[v] \in {"fetching", "writing"} PROVE task'[v] \notin written'
  <2>1. CASE v = w
    <3>1. place # "moving" /\ pc[w] = "fetching" /\ written' = written
      BY <1>1, <1>4, <2>1
    <3>2. QED
      BY <1>1, <2>1, <3>1 DEF OnePlace
  <2>2. CASE v # w
    <3>1. pc'[v] = pc[v] /\ task[v] # NoTask /\ task[v] \notin written
      BY <1>1, <1>4, <2>2 DEF OnePlace, WorkersTyped, Busy
    <3>2. task[v] # task[w]
      BY <2>2, <3>1 DEF OnePlace
    <3>3. QED
      BY <1>1, <3>1, <3>2
  <2>3. QED
    BY <2>1, <2>2
<1>5. QED
  BY <1>1, <1>2, <1>3, <1>4 DEF OnePlace

PlaceInv == OnePlace /\ MoversInv /\ ActiveInv /\ FileInv

LEMMA SameWritten ==
  ASSUME written' = written
  PROVE  \A f \in File : Left(f)' = Left(f) /\ WrittenOf(f)' = WrittenOf(f) /\ (Whole(f)' <=> Whole(f))
<1> SUFFICES ASSUME NEW f \in File
             PROVE  Left(f)' = Left(f) /\ WrittenOf(f)' = WrittenOf(f) /\ (Whole(f)' <=> Whole(f))
  OBVIOUS
<1>1. Left(f)' = Left(f) /\ WrittenOf(f)' = WrittenOf(f)
  BY LeftSame
<1>2. QED
  BY <1>1 DEF Whole, Index

LEMMA MoreWritten ==
  ASSUME written \subseteq written'
  PROVE  \A f \in File : Whole(f) => Whole(f)'
BY DEF Whole, WrittenOf, Index

LEMMA SameSofar == listing' = listing /\ listed' = listed => Sofar' = Sofar
BY DEF Sofar

(* Steps that move no chunk.                                               *)
LEMMA QuietPlace ==
  ASSUME Typed, PlaceInv, UNCHANGED <<active, pending, written, target, pc, task>>,
         UNCHANGED <<listing, listed>>, \A t \in AllTasks : InLine(t)' <=> InLine(t)
  PROVE  PlaceInv'
<1>1. Sofar' = Sofar /\ Sofar \subseteq File
  BY SameSofar, SofarTypes DEF Typed
<1>2. \A f \in File : Left(f)' = Left(f) /\ (Whole(f)' <=> Whole(f))
  BY SameWritten
<1>3. OnePlace'
  BY DEF PlaceInv, OnePlace, Held
<1>4. MoversInv'
  <2>1. \A w \in Worker : pc[w] = "moving" => task[w].file \in File
    BY TasksAre DEF Typed, WorkersTyped, Busy
  <2>2. QED
    BY <1>2, <2>1 DEF PlaceInv, MoversInv
<1>5. ActiveInv'
  BY <1>1 DEF PlaceInv, ActiveInv, Held
<1>6. FileInv'
  BY <1>1, <1>2 DEF PlaceInv, FileInv, Typed, FilesTyped, NonEmpty
<1>7. QED
  BY <1>3, <1>4, <1>5, <1>6 DEF PlaceInv

LEMMA ListPlace ==
  ASSUME Typed, LineInv, PlaceInv, List
  PROVE  PlaceInv'
<1>1. listing[listed + 1] \in File /\ listing[listed + 1] \notin Sofar
      /\ Sofar' = Sofar \cup {listing[listed + 1]}
  BY NextListed DEF Typed
<1>2. PICK f \in File : f = listing[listed + 1]
  BY <1>1
<1>3. Sofar \subseteq File /\ f \notin Sofar /\ Sofar' = Sofar \cup {f}
  BY <1>1, <1>2, SofarTypes DEF Typed
<1>4. \A t \in AllTasks : InLine(t)' <=> InLine(t) \/ t.file = f
  BY <1>2, ListLine DEF PlaceInv
<1>5. /\ active' = IF Chunks(f) > 0 THEN active \cup {f} ELSE active
      /\ pending' = [pending EXCEPT ![f] = Size[f]]
      /\ UNCHANGED <<pc, task, written, target>>
  BY <1>2 DEF List, Pending
<1>6. \A g \in File : Left(g)' = Left(g) /\ WrittenOf(g)' = WrittenOf(g) /\ (Whole(g)' <=> Whole(g))
  BY <1>5, SameWritten
<1>7. \A t \in AllTasks : t.file = f => ~Held(t) /\ t \notin written
  BY <1>3 DEF PlaceInv, ActiveInv, FileInv
<1>8. OnePlace'
  BY <1>4, <1>5, <1>7 DEF PlaceInv, OnePlace, Held
<1>9. MoversInv'
  <2>1. \A w \in Worker : pc[w] = "moving" => task[w].file \in File
    BY TasksAre DEF Typed, WorkersTyped, Busy
  <2>2. QED
    BY <1>5, <1>6, <2>1 DEF PlaceInv, MoversInv
<1>10. ActiveInv'
  <2>1. ASSUME NEW t \in AllTasks, t.file = f PROVE Chunks(f) > 0
    BY <2>1, TasksAre, ChunkBounds DEF NonEmpty
  <2>2. QED
    BY <1>3, <1>4, <1>5, <2>1 DEF PlaceInv, ActiveInv, Held
<1>11. FileInv'
  <2>1. WrittenOf(f) = {}
    <3>1. \A i \in Index(f) : Task(f, i) \in AllTasks /\ Task(f, i).file = f
      BY TasksAre DEF Task, Index
    <3>2. QED
      BY <1>7, <3>1 DEF WrittenOf
  <2>2. Left(f)' = Size[f]
    BY <1>6, <2>1, LeftFresh
  <2>3. pending'[f] = Size[f] /\ \A g \in File \ {f} : pending'[g] = pending[g]
    BY <1>5 DEF Typed, FilesTyped
  <2>4. \A g \in Sofar' : pending'[g] = Left(g)'
    BY <1>3, <1>6, <2>2, <2>3 DEF PlaceInv, FileInv
  <2>5. \A g \in File \ Sofar' : pending'[g] = 0
    BY <1>3, <2>3 DEF PlaceInv, FileInv
  <2>6. QED
    BY <1>3, <1>5, <1>6, <2>4, <2>5 DEF PlaceInv, FileInv, Typed, FilesTyped, NonEmpty
<1>12. QED
  BY <1>8, <1>9, <1>10, <1>11 DEF PlaceInv

(* A worker that takes a chunk, or fails.                                  *)
LEMMA TakerPlace ==
  ASSUME Typed, PlaceInv, NEW w \in Worker, NEW t, NextTask(w, t),
         UNCHANGED <<active, pending, written, target, listing, listed>>
  PROVE  PlaceInv'
<1>1. Sofar' = Sofar /\ Sofar \subseteq File
  BY SameSofar, SofarTypes DEF Typed
<1>2. \A f \in File : Left(f)' = Left(f) /\ (Whole(f)' <=> Whole(f))
  BY SameWritten
<1>3. OnePlace'
  BY OnwardOnePlace DEF PlaceInv, Typed
<1>4. MoversInv'
  <2>1. \A v \in Worker : pc'[v] = "moving" => v # w /\ pc[v] = "moving" /\ task'[v] = task[v]
    BY DEF NextTask
  <2>2. \A v \in Worker : pc[v] = "moving" => task[v].file \in File
    BY TasksAre DEF Typed, WorkersTyped, Busy
  <2>3. QED
    BY <1>2, <2>1, <2>2 DEF PlaceInv, MoversInv
<1>5. ActiveInv'
  <2>1. ASSUME NEW u \in AllTasks, InLine(u)' \/ Held(u)' PROVE u.file \in active
    <3>1. InLine(u)' => InLine(u)
      BY DEF NextTask
    <3>2. Held(u)' => Held(u) \/ InLine(u)
      <4>1. u # NoTask
        BY TasksAre
      <4>2. QED
        BY <4>1 DEF NextTask, Held
    <3>3. QED
      BY <2>1, <3>1, <3>2 DEF PlaceInv, ActiveInv
  <2>2. QED
    BY <1>1, <2>1 DEF PlaceInv, ActiveInv
<1>6. FileInv'
  BY <1>1, <1>2 DEF PlaceInv, FileInv, Typed, FilesTyped, NonEmpty
<1>7. QED
  BY <1>3, <1>4, <1>5, <1>6 DEF PlaceInv

LEMMA FetchPlace ==
  ASSUME Typed, PlaceInv, NEW w \in Worker, Fetch(w)
  PROVE  PlaceInv'
<1>1. /\ Go(w, "writing", task[w]) /\ pc[w] = "fetching"
      /\ UNCHANGED <<active, pending, written, target, listing, listed, inq, offered>>
  BY DEF Fetch, At, fillVars, files
<1>2. \A t \in AllTasks : InLine(t)' <=> InLine(t)
  BY <1>1 DEF InLine, line
<1>3. OnePlace' /\ task' = task
  BY <1>1, <1>2, SameOnePlace DEF Typed, PlaceInv
<1>4. Sofar' = Sofar /\ Sofar \subseteq File
  BY <1>1, SameSofar, SofarTypes DEF Typed
<1>5. \A f \in File : Left(f)' = Left(f) /\ (Whole(f)' <=> Whole(f))
  BY <1>1, SameWritten
<1>6. MoversInv'
  <2>1. \A v \in Worker : pc'[v] = "moving" => pc[v] = "moving"
    BY <1>1 DEF Go, Typed, WorkersTyped
  <2>2. \A v \in Worker : pc[v] = "moving" => task[v].file \in File
    BY TasksAre DEF Typed, WorkersTyped, Busy
  <2>3. QED
    BY <1>3, <1>5, <2>1, <2>2 DEF PlaceInv, MoversInv
<1>7. ActiveInv'
  BY <1>1, <1>2, <1>3, <1>4 DEF PlaceInv, ActiveInv, Held
<1>8. FileInv'
  BY <1>1, <1>4, <1>5 DEF PlaceInv, FileInv, Typed, FilesTyped, NonEmpty
<1>9. QED
  BY <1>3, <1>6, <1>7, <1>8 DEF PlaceInv

(* A chunk is written: its file waits for that much less.                  *)
LEMMA WriteFiles ==
  ASSUME Typed, PlaceInv, NEW w \in Worker, Write(w)
  PROVE  /\ FileInv' /\ task[w] \in AllTasks /\ task[w].file \in File /\ task[w] \notin written
         /\ \A f \in File : f = task[w].file =>
              pending'[f] = Left(f)' /\ f \in Sofar /\ ~Whole(f)
<1>1. /\ pc[w] = "writing" /\ written' = written \cup {task[w]}
      /\ pending' = [pending EXCEPT ![task[w].file] = pending[task[w].file] - task[w].length]
      /\ UNCHANGED <<listing, listed, active, target>>
  BY DEF Write, At, fillVars
<1>2. task[w] \in AllTasks /\ task[w] \notin written
  BY <1>1 DEF Typed, WorkersTyped, Busy, PlaceInv, OnePlace
<1>3. PICK f \in File : f = task[w].file /\ \E i \in 1..Chunks(f) : task[w] = Task(f, i)
  BY <1>2, TasksAre
<1>4. PICK i \in Index(f) : task[w] = Task(f, i)
  BY <1>3 DEF Index
<1>5. f \in Sofar /\ Sofar \subseteq File /\ Sofar' = Sofar
  BY <1>1, <1>2, <1>3, SameSofar, SofarTypes DEF PlaceInv, ActiveInv, Held, Typed
<1>6. Left(f)' = Left(f) - task[w].length
  BY <1>1, <1>2, <1>4, LeftWritten
<1>7. \A g \in File \ {f} : Left(g)' = Left(g)
  <2>1. ASSUME NEW g \in File \ {f}, NEW j \in Index(g) PROVE Task(g, j) # task[w]
    BY <1>4, <2>1 DEF Task
  <2>2. QED
    BY <1>1, <2>1, LeftSame
<1>8. pending'[f] = Left(f)' /\ \A g \in File \ {f} : pending'[g] = pending[g]
  BY <1>1, <1>3, <1>5, <1>6 DEF Typed, FilesTyped, PlaceInv, FileInv
<1>9. ~Whole(f)
  BY <1>2, <1>4 DEF Whole, WrittenOf
<1>10. FileInv'
  <2>1. \A t \in written' : t.file \in Sofar'
    BY <1>1, <1>3, <1>5 DEF PlaceInv, FileInv
  <2>2. \A g \in Sofar' : pending'[g] = Left(g)'
    BY <1>5, <1>7, <1>8 DEF PlaceInv, FileInv
  <2>3. \A g \in File \ Sofar' : pending'[g] = 0
    BY <1>5, <1>8 DEF PlaceInv, FileInv
  <2>4. \A g \in target' : Whole(g)' /\ g \in Sofar'
    BY <1>1, <1>5, MoreWritten DEF PlaceInv, FileInv
  <2>5. QED
    BY <2>1, <2>2, <2>3, <2>4 DEF FileInv
<1>11. QED
  BY <1>2, <1>3, <1>5, <1>8, <1>9, <1>10

LEMMA WritePlace ==
  ASSUME Typed, LineInv, PlaceInv, NEW w \in Worker, Write(w)
  PROVE  PlaceInv'
<1>1. /\ pc[w] = "writing" /\ written' = written \cup {task[w]}
      /\ UNCHANGED <<listing, listed, fill, offered, active>>
  BY DEF Write, At, fillVars
<1>2. /\ FileInv' /\ task[w] \in AllTasks /\ task[w].file \in File /\ task[w] \notin written
      /\ \A f \in File : f = task[w].file =>
           pending'[f] = Left(f)' /\ f \in Sofar /\ ~Whole(f)
  BY WriteFiles
<1>3. Sofar' = Sofar
  BY <1>1, SameSofar
<1>4. \A f \in File : Whole(f) => Whole(f)'
  BY <1>1, MoreWritten
<1>5. \A v \in Worker : pc[v] = "moving" => task[v].file \in File /\ v # w
                                           /\ task[v].file # task[w].file
  BY <1>1, <1>2, TasksAre DEF Typed, WorkersTyped, Busy, PlaceInv, MoversInv
<1>6. CASE /\ pending[task[w].file] - task[w].length = 0
           /\ Go(w, "moving", task[w]) /\ UNCHANGED <<inq, done>>
  <2>1. \A t \in AllTasks : InLine(t)' <=> InLine(t)
    BY <1>1, <1>6 DEF InLine, line
  <2>2. OnePlace' /\ task' = task
    BY <1>1, <1>6, <2>1, SameOnePlace DEF Typed, PlaceInv
  <2>3. Whole(task[w].file)'
    <3>1. PICK f \in File : f = task[w].file
      BY <1>2
    <3>2. Rest(f, WrittenOf(f)') = 0
      <4>1. Left(f)' = Rest(f, WrittenOf(f)')
        BY DEF Left, Rest
      <4>2. pending'[f] = pending[f] - task[w].length
        BY <3>1 DEF Write, Typed, FilesTyped
      <4>3. QED
        BY <1>2, <1>6, <3>1, <4>1, <4>2
    <3>3. WrittenOf(f)' \in SUBSET Index(f)
      BY DEF WrittenOf, Index
    <3>4. WrittenOf(f)' = Index(f)
      BY <3>2, <3>3, LeftZero
    <3>5. Whole(f)'
      BY <3>4 DEF Whole, Index
    <3>6. QED
      BY <2>2, <3>1, <3>5
  <2>4. \A v \in Worker : pc'[v] = "moving" => v = w \/ pc[v] = "moving"
    BY <1>6 DEF Go, Typed, WorkersTyped
  <2>5. MoversInv'
    BY <1>4, <1>5, <2>2, <2>3, <2>4 DEF PlaceInv, MoversInv
  <2>6. ActiveInv'
    BY <1>1, <1>3, <2>1, <2>2 DEF PlaceInv, ActiveInv, Held
  <2>7. QED
    BY <1>2, <2>2, <2>5, <2>6 DEF PlaceInv
<1>7. CASE Loop(w)
  <2>1. PICK t \in AllTasks \cup {NoTask} : NextTask(w, t)
    BY <1>1, <1>7, LoopIsJob, JobTask DEF Typed
  <2>2. OnePlace'
    BY <1>1, <2>1, OnwardOnePlace DEF PlaceInv, Typed
  <2>3. MoversInv'
    <3>1. \A v \in Worker : pc'[v] = "moving" => v # w /\ pc[v] = "moving" /\ task'[v] = task[v]
      BY <2>1 DEF NextTask
    <3>2. QED
      BY <1>4, <1>5, <3>1 DEF PlaceInv, MoversInv
  <2>4. ActiveInv'
    <3>1. ASSUME NEW u \in AllTasks, InLine(u)' \/ Held(u)' PROVE u.file \in active
      <4>1. InLine(u)' => InLine(u)
        BY <2>1 DEF NextTask
      <4>2. Held(u)' => Held(u) \/ InLine(u)
        <5>1. u # NoTask
          BY TasksAre
        <5>2. QED
          BY <2>1, <5>1 DEF NextTask, Held
      <4>3. QED
        BY <3>1, <4>1, <4>2 DEF PlaceInv, ActiveInv
    <3>2. QED
      BY <1>1, <1>3, <3>1 DEF PlaceInv, ActiveInv
  <2>5. QED
    BY <1>2, <2>2, <2>3, <2>4 DEF PlaceInv
<1>8. QED
  BY <1>6, <1>7 DEF Write, Complete

(* A file is moved: none of its chunks is in the line or with a worker.    *)
LEMMA MovePlace ==
  ASSUME Typed, LineInv, PlaceInv, NEW w \in Worker, Move(w)
  PROVE  PlaceInv'
<1>1. /\ pc[w] = "moving" /\ target' = target \cup {task[w].file}
      /\ active' = active \ {task[w].file} /\ Loop(w)
      /\ UNCHANGED <<listing, listed, fill, offered, pending, written>>
  BY DEF Move, At, fillVars
<1>2. task[w] \in AllTasks /\ task[w].file \in File
  BY <1>1, TasksAre DEF Typed, WorkersTyped, Busy
<1>3. PICK f \in File : f = task[w].file
  BY <1>2
<1>4. Whole(f) /\ f \in Sofar
  BY <1>1, <1>2, <1>3 DEF PlaceInv, MoversInv, ActiveInv, Held
<1>5. Sofar' = Sofar /\ Sofar \subseteq File
  BY <1>1, SameSofar, SofarTypes DEF Typed
<1>6. \A g \in File : Left(g)' = Left(g) /\ (Whole(g)' <=> Whole(g))
  BY <1>1, SameWritten
<1>7. PICK t \in AllTasks \cup {NoTask} : NextTask(w, t)
  BY <1>1, LoopIsJob, JobTask DEF Typed
<1>8. OnePlace'
  BY <1>1, <1>7, OnwardOnePlace DEF PlaceInv, Typed
<1>9. MoversInv'
  <2>1. \A v \in Worker : pc'[v] = "moving" => v # w /\ pc[v] = "moving" /\ task'[v] = task[v]
    BY <1>7 DEF NextTask
  <2>2. \A v \in Worker : pc[v] = "moving" => task[v].file \in File
    BY TasksAre DEF Typed, WorkersTyped, Busy
  <2>3. QED
    BY <1>6, <2>1, <2>2 DEF PlaceInv, MoversInv
<1>10. \A u \in AllTasks : u.file = f => u \in written
  BY <1>4, TasksAre DEF Whole, WrittenOf, Index
<1>11. ASSUME NEW u \in AllTasks, InLine(u)' \/ Held(u)' PROVE u.file \in active'
  <2>1. u # NoTask
    BY TasksAre
  <2>2. CASE InLine(u)
    BY <1>1, <1>3, <1>10, <2>2 DEF PlaceInv, OnePlace, ActiveInv
  <2>3. CASE ~InLine(u)
    <3>1. t # u /\ ~InLine(u)'
      BY <1>7, <2>1, <2>3 DEF NextTask
    <3>2. PICK v \in Worker : v # w /\ task[v] = u /\ pc[v] \in Busy
      BY <1>7, <1>11, <2>1, <3>1 DEF NextTask, Held, Typed, WorkersTyped
    <3>3. u.file # f
      <4> SUFFICES ASSUME u.file = f PROVE FALSE
        OBVIOUS
      <4>1. u \in written
        BY <1>10
      <4>2. pc[v] = "moving"
        BY <3>2, <4>1 DEF PlaceInv, OnePlace, Busy
      <4>3. QED
        BY <1>1, <1>3, <3>2, <4>2 DEF PlaceInv, MoversInv
    <3>4. QED
      BY <1>1, <1>3, <3>2, <3>3 DEF PlaceInv, ActiveInv, Held
  <2>4. QED
    BY <2>2, <2>3
<1>12. ActiveInv'
  BY <1>1, <1>5, <1>11 DEF PlaceInv, ActiveInv
<1>13. FileInv'
  <2>1. \A g \in target : g \in File
    BY DEF Typed, FilesTyped, NonEmpty
  <2>2. QED
    BY <1>1, <1>3, <1>4, <1>5, <1>6, <2>1 DEF PlaceInv, FileInv
<1>14. QED
  BY <1>8, <1>9, <1>12, <1>13 DEF PlaceInv

QuietStep ==
  ListingEnds \/ PutRest \/ ListingFails \/ Consume \/ Join \/ Abort \/ UNCHANGED vars

LEMMA QuietEffect ==
  ASSUME Typed, LineInv, QuietStep
  PROVE  /\ UNCHANGED <<active, pending, written, target, pc, task>>
         /\ UNCHANGED <<listing, listed>> /\ \A t \in AllTasks : InLine(t)' <=> InLine(t)
<1>1. CASE ListingEnds
  BY <1>1, EndLine DEF ListingEnds, files
<1>2. CASE PutRest
  <2>1. line' = line
    BY <1>2, RestLine
  <2>2. QED
    BY <1>2, <2>1 DEF PutRest, files, InLine
<1>3. CASE ListingFails \/ Consume \/ Join \/ Abort \/ UNCHANGED vars
  <2>1. /\ UNCHANGED <<active, pending, written, target, pc, task>>
        /\ UNCHANGED <<listing, listed, offered, inq>>
    BY <1>3 DEF ListingFails, Consume, Join, Abort, vars, fillVars, files
  <2>2. line' = line
    BY <2>1 DEF line
  <2>3. QED
    BY <2>1, <2>2 DEF InLine
<1>4. QED
  BY <1>1, <1>2, <1>3 DEF QuietStep

LEMMA TakerTask ==
  ASSUME Typed, LineInv, NEW w \in Worker, Wake(w) \/ WorkerFails(w)
  PROVE  /\ \E t \in AllTasks \cup {NoTask} : NextTask(w, t)
         /\ UNCHANGED <<active, pending, written, target, listing, listed>>
<1>1. CASE Wake(w)
  BY <1>1, TakeIsJob, JobTask DEF Typed, Wake, fillVars, files
<1>2. CASE WorkerFails(w)
  BY <1>2, JobTask DEF Typed, WorkerFails, fillVars, files
<1>3. QED
  BY <1>1, <1>2

LEMMA PlaceStep ==
  ASSUME Typed, LineInv, PlaceInv, [Next]_vars
  PROVE  PlaceInv'
<1>1. CASE QuietStep
  BY <1>1, QuietEffect, QuietPlace
<1>2. CASE List
  BY <1>2, ListPlace
<1>3. ASSUME NEW w \in Worker, Wake(w) \/ Fetch(w) \/ Write(w) \/ Move(w) \/ WorkerFails(w)
      PROVE  PlaceInv'
  BY <1>3, TakerTask, TakerPlace, FetchPlace, WritePlace, MovePlace
<1>4. QED
  BY <1>1, <1>2, <1>3, StepCases DEF QuietStep

-----------------------------------------------------------------------------
(* 6. Nothing is left behind, unless a worker has failed.                  *)

Failed == \E w \in Worker : pc[w] = "failed"

KeptInv ==
  \A t \in AllTasks : t.file \in Sofar => t \in written \/ InLine(t) \/ Held(t) \/ Failed

Moving(f) == \E w \in Worker : pc[w] = "moving" /\ task[w].file = f

MovedInv == \A f \in Sofar \cap NonEmpty : Whole(f) => f \in target \/ Moving(f) \/ Failed

DoneInv ==
  /\ done => Failed \/ main = "failed" \/ line = <<Sentinel>>
  /\ \A w \in Worker : pc[w] = "ended" => done

LEMMA FailedStays == WorkersTyped /\ Failed /\ [Next]_vars => Failed'
<1> SUFFICES ASSUME WorkersTyped, NEW w \in Worker, pc[w] = "failed", [Next]_vars PROVE pc'[w] = "failed"
  BY DEF Failed
<1>1. CASE UNCHANGED pc
  BY <1>1
<1>2. CASE List \/ ListingEnds \/ PutRest \/ ListingFails \/ Consume \/ Join \/ Abort
           \/ UNCHANGED vars
  BY <1>1, <1>2 DEF List, ListingEnds, PutRest, ListingFails, Consume, Join, Abort, vars
<1>3. ASSUME NEW v \in Worker, Wake(v) \/ Fetch(v) \/ Write(v) \/ Move(v) \/ WorkerFails(v)
      PROVE  pc'[w] = "failed"
  <2>1. pc[v] # "failed"
    BY <1>3 DEF Wake, Fetch, Write, Move, WorkerFails, At
  <2>2. \E place : pc' = [pc EXCEPT ![v] = place]
    BY <1>3 DEF Wake, Fetch, Write, Move, WorkerFails, Loop, Take, Go
  <2>3. QED
    BY <2>1, <2>2 DEF WorkersTyped
<1>4. QED
  BY <1>2, <1>3, StepCases

(* A worker ends without a failure only when the line holds nothing but    *)
(* the sentinel, and then it holds that for good.                          *)
LEMMA DoneStep ==
  ASSUME Typed, LineInv, DoneInv, [Next]_vars
  PROVE  DoneInv'
<1>1. Failed => Failed'
  BY FailedStays DEF Typed
<1>2. CASE List \/ ListingEnds
  <2>1. fill = "listing" /\ main # "failed" /\ UNCHANGED <<pc, done, main>>
    BY <1>2 DEF List, ListingEnds, Running
  <2>2. line # <<Sentinel>>
    <3>1. line = <<Sentinel>> => 1 \in 1..Len(line) /\ line[1] = Sentinel
      OBVIOUS
    <3>2. QED
      BY <2>1, <3>1 DEF LineInv
  <2>3. QED
    BY <1>1, <2>1, <2>2 DEF DoneInv
<1>3. CASE PutRest \/ ListingFails \/ Consume \/ Join \/ UNCHANGED vars
  <2>1. line' = line
    <3>1. PutRest => line' = line
      BY RestLine
    <3>2. ~PutRest => UNCHANGED <<inq, offered>>
      BY <1>3 DEF ListingFails, Consume, Join, vars, fillVars
    <3>3. QED
      BY <3>1, <3>2 DEF line
  <2>2. UNCHANGED <<pc, done>> /\ (main = "failed" => main' = "failed")
    BY <1>3 DEF PutRest, ListingFails, Consume, Join, vars
  <2>3. QED
    BY <1>1, <2>1, <2>2 DEF DoneInv
<1>4. CASE Abort
  BY <1>4 DEF Abort, DoneInv
<1>5. ASSUME NEW w \in Worker, WorkerEffect(w) PROVE DoneInv'
  <2>1. main' = main
    BY <1>5 DEF WorkerEffect
  <2>2. \A v \in Worker \ {w} : pc'[v] = pc[v]
    BY <1>5 DEF WorkerEffect, Job, Free, Go, Typed, WorkersTyped
  <2>3. CASE Job(w) /\ inq # <<>> /\ Head(inq) \in AllTasks /\ done' = done
              /\ Go(w, "fetching", Head(inq))
    <3>1. line # <<Sentinel>>
      <4>1. line[1] = inq[1]
        BY <2>3, LineProperties, EmptySeq DEF Typed, QueueTyped
      <4>2. Head(inq) # Sentinel
        BY <2>3, TasksAre
      <4>3. QED
        BY <4>1, <4>2
    <3>2. pc'[w] = "fetching"
      BY <2>3 DEF Go, Typed, WorkersTyped
    <3>3. QED
      BY <1>1, <2>1, <2>2, <2>3, <3>1, <3>2 DEF DoneInv
  <2>4. CASE inq' = inq
    <3>1. line' = line
      BY <1>5, <2>4 DEF WorkerEffect, line
    <3>2. CASE Free(w, "getting") /\ done' = done
      <4>1. pc'[w] = "getting"
        BY <3>2 DEF Free, Go, Typed, WorkersTyped
      <4>2. QED
        BY <1>1, <2>1, <2>2, <3>1, <3>2, <4>1 DEF DoneInv
    <3>3. CASE done' = TRUE /\ (done \/ line = <<Sentinel>>)
      BY <1>1, <2>1, <3>1, <3>3 DEF DoneInv
    <3>4. CASE Go(w, "failed", NoTask) /\ done' = TRUE
      <4>1. Failed'
        BY <3>4 DEF Go, Typed, WorkersTyped, Failed
      <4>2. QED
        BY <3>4, <4>1 DEF DoneInv
    <3>5. CASE (\E place \in {"writing", "moving"} : Go(w, place, task[w])) /\ done' = done
      <4>1. pc'[w] # "ended"
        BY <3>5 DEF Go, Typed, WorkersTyped
      <4>2. QED
        BY <1>1, <2>1, <2>2, <3>1, <3>5, <4>1 DEF DoneInv
    <3>6. CASE Job(w)
      BY <2>3, <3>2, <3>3, <3>6 DEF Job
    <3>7. QED
      BY <1>5, <3>4, <3>5, <3>6 DEF WorkerEffect
  <2>5. QED
    BY <1>5, <2>3, <2>4 DEF WorkerEffect, Job, Free
<1>6. QED
  BY <1>2, <1>3, <1>4, <1>5, WorkerEffects, StepCases DEF Typed

LEMMA KeptStep ==
  ASSUME Typed, LineInv, PlaceInv, KeptInv, [Next]_vars
  PROVE  KeptInv'
<1>1. Failed => Failed'
  BY FailedStays DEF Typed
<1>2. CASE QuietStep
  <2>1. /\ UNCHANGED <<written, task, listing, listed>>
        /\ \A t \in AllTasks : InLine(t)' <=> InLine(t)
    BY <1>2, QuietEffect
  <2>2. QED
    BY <1>1, <2>1, SameSofar DEF KeptInv, Held
<1>3. CASE List
  <2>1. PICK f \in File : f = listing[listed + 1] /\ Sofar' = Sofar \cup {f}
    BY <1>3, NextListed DEF Typed
  <2>2. \A t \in AllTasks : InLine(t)' <=> InLine(t) \/ t.file = f
    BY <1>3, <2>1, ListLine DEF PlaceInv
  <2>3. QED
    BY <1>1, <1>3, <2>1, <2>2 DEF KeptInv, Held, List
<1>4. ASSUME NEW w \in Worker, NEW t, NextTask(w, t), listing' = listing, listed' = listed,
             \/ task[w] \in written' \/ task[w] = NoTask \/ pc'[w] = "failed",
             written \subseteq written'
      PROVE  KeptInv'
  <2>1. ASSUME NEW u \in AllTasks, u.file \in Sofar, ~Failed'
        PROVE  u \in written' \/ InLine(u)' \/ Held(u)'
    <3>1. u \in written \/ InLine(u) \/ Held(u)
      BY <1>1, <2>1 DEF KeptInv
    <3>2. InLine(u) => InLine(u)' \/ task'[w] = u
      BY <1>4 DEF NextTask
    <3>3. u # NoTask /\ pc'[w] # "failed"
      BY <2>1, TasksAre DEF Failed
    <3>4. Held(u) => Held(u)' \/ task[w] = u
      BY <1>4 DEF NextTask, Held
    <3>5. QED
      BY <1>4, <3>1, <3>2, <3>3, <3>4 DEF Held
  <2>2. QED
    BY <1>4, <2>1, SameSofar DEF KeptInv
<1>5. ASSUME NEW w \in Worker, NEW place, Go(w, place, task[w]), listing' = listing, listed' = listed,
             inq' = inq, offered' = offered, written \subseteq written'
      PROVE  KeptInv'
  <2>1. task' = task /\ line' = line
    BY <1>5 DEF Go, Typed, WorkersTyped, line
  <2>2. QED
    BY <1>1, <1>5, <2>1, SameSofar DEF KeptInv, Held, InLine
<1>6. ASSUME NEW w \in Worker, Wake(w) \/ WorkerFails(w) PROVE KeptInv'
  <2>1. PICK t : NextTask(w, t)
    BY <1>6, TakerTask
  <2>2. UNCHANGED <<written, listing, listed>>
    BY <1>6, TakerTask
  <2>3. task[w] = NoTask \/ pc'[w] = "failed"
    BY <1>6 DEF Wake, At, WorkerFails, Go, Typed, WorkersTyped, Busy
  <2>4. QED
    BY <1>4, <2>1, <2>2, <2>3
<1>7. ASSUME NEW w \in Worker, Fetch(w) PROVE KeptInv'
  BY <1>5, <1>7 DEF Fetch, fillVars, files
<1>8. ASSUME NEW w \in Worker, Write(w) PROVE KeptInv'
  <2>1. /\ written' = written \cup {task[w]}
        /\ UNCHANGED <<listing, listed, fill, offered>>
    BY <1>8 DEF Write, fillVars
  <2>2. CASE Go(w, "moving", task[w]) /\ UNCHANGED <<inq, done>>
    BY <1>5, <2>1, <2>2
  <2>3. CASE Loop(w)
    <3>1. PICK t : NextTask(w, t)
      BY <2>1, <2>3, LoopIsJob, JobTask DEF Typed
    <3>2. QED
      BY <1>4, <2>1, <3>1
  <2>4. QED
    BY <1>8, <2>2, <2>3 DEF Write
<1>9. ASSUME NEW w \in Worker, Move(w) PROVE KeptInv'
  <2>1. /\ pc[w] = "moving" /\ Loop(w)
        /\ UNCHANGED <<listing, listed, fill, offered, written>>
    BY <1>9 DEF Move, At, fillVars
  <2>2. PICK t : NextTask(w, t)
    BY <2>1, LoopIsJob, JobTask DEF Typed
  <2>3. task[w] \in AllTasks /\ Whole(task[w].file)
    BY <2>1 DEF Typed, WorkersTyped, Busy, PlaceInv, MoversInv
  <2>4. task[w] \in written
    BY <2>3, TasksAre DEF Whole, WrittenOf, Index
  <2>5. QED
    BY <1>4, <2>1, <2>2, <2>4
<1>10. QED
  BY <1>2, <1>3, <1>6, <1>7, <1>8, <1>9, StepCases DEF QuietStep

LEMMA MovedStep ==
  ASSUME Typed, LineInv, PlaceInv, MovedInv, [Next]_vars
  PROVE  MovedInv'
<1>1. Failed => Failed'
  BY FailedStays DEF Typed
<1>2. Sofar \subseteq File
  BY SofarTypes DEF Typed
<1>3. CASE QuietStep
  <2>1. UNCHANGED <<written, target, pc, task, listing, listed>>
    BY <1>3, QuietEffect
  <2>2. QED
    BY <1>1, <1>2, <2>1, SameSofar, SameWritten DEF MovedInv, Moving
<1>4. CASE List
  <2>1. PICK f \in File : f = listing[listed + 1] /\ Sofar' = Sofar \cup {f} /\ f \notin Sofar
    BY <1>4, NextListed DEF Typed
  <2>2. UNCHANGED <<written, target, pc, task>>
    BY <1>4 DEF List
  <2>3. f \in NonEmpty => ~Whole(f)'
    <3>1. WrittenOf(f)' = {}
      <4>1. \A i \in Index(f) : Task(f, i) \in AllTasks /\ Task(f, i).file = f
        BY TasksAre DEF Task, Index
      <4>2. WrittenOf(f) = {}
        BY <2>1, <4>1 DEF WrittenOf, PlaceInv, FileInv
      <4>3. QED
        BY <2>2, <4>2, SameWritten
    <3>2. f \in NonEmpty => 1 \in Index(f)
      BY ChunkBounds DEF NonEmpty, Index
    <3>3. QED
      BY <3>1, <3>2 DEF Whole, Index
  <2>4. QED
    BY <1>1, <1>2, <2>1, <2>2, <2>3, SameWritten DEF MovedInv, Moving
<1>5. ASSUME NEW w \in Worker, Wake(w) \/ Fetch(w) \/ WorkerFails(w) PROVE MovedInv'
  <2>1. UNCHANGED <<written, target, listing, listed>>
    BY <1>5 DEF Wake, Fetch, WorkerFails, fillVars, files
  <2>2. \E place, t : Go(w, place, t)
    BY <1>5 DEF Wake, Fetch, WorkerFails, Take
  <2>3. \A v \in Worker \ {w} : pc'[v] = pc[v] /\ task'[v] = task[v]
    BY <2>2 DEF Go, Typed, WorkersTyped
  <2>4. pc[w] = "moving" => Failed'
    BY <1>5 DEF Wake, Fetch, WorkerFails, At, Go, Typed, WorkersTyped, Failed
  <2>5. \A f : Moving(f) => Moving(f)' \/ Failed'
    BY <2>3, <2>4 DEF Moving
  <2>6. QED
    BY <1>1, <1>2, <2>1, <2>5, SameSofar, SameWritten DEF MovedInv
<1>6. ASSUME NEW w \in Worker, Write(w) PROVE MovedInv'
  <2>1. /\ pc[w] = "writing" /\ UNCHANGED <<listing, listed, target>>
        /\ written' = written \cup {task[w]}
    BY <1>6 DEF Write, At, fillVars
  <2>2. \E place, t : Go(w, place, t)
    BY <1>6 DEF Write, Loop, Take
  <2>3. \A v \in Worker \ {w} : pc'[v] = pc[v] /\ task'[v] = task[v]
    BY <2>2 DEF Go, Typed, WorkersTyped
  <2>4. \A f : Moving(f) => Moving(f)'
    BY <2>1, <2>3 DEF Moving
  <2>5. PICK f \in File : f = task[w].file /\ pending'[f] = Left(f)' /\ task[w] \in AllTasks
    BY <1>6, WriteFiles
  <2>6. ASSUME Whole(f)' PROVE Moving(f)'
    <3>1. Rest(f, WrittenOf(f)') = 0
      <4>1. WrittenOf(f)' = Index(f)
        BY <2>6 DEF Whole, Index
      <4>2. QED
        BY <4>1, LeftZero
    <3>2. pending'[f] = 0
      BY <2>5, <3>1 DEF Left, Rest
    <3>3. pending'[f] = pending[f] - task[w].length
      BY <1>6, <2>5 DEF Write, Typed, FilesTyped
    <3>4. Go(w, "moving", task[w])
      BY <1>6, <2>5, <3>2, <3>3 DEF Write, Complete
    <3>5. QED
      BY <2>5, <3>4 DEF Go, Typed, WorkersTyped, Moving
  <2>7. \A g \in File \ {f} : Whole(g)' => Whole(g)
    <3>1. ASSUME NEW g \in File \ {f}, NEW j \in Index(g) PROVE Task(g, j) # task[w]
      BY <2>5, <3>1 DEF Task
    <3>2. QED
      BY <2>1, <3>1 DEF Whole, WrittenOf, Index
  <2>8. QED
    BY <1>1, <1>2, <2>1, <2>4, <2>5, <2>6, <2>7, SameSofar DEF MovedInv
<1>7. ASSUME NEW w \in Worker, Move(w) PROVE MovedInv'
  <2>1. /\ target' = target \cup {task[w].file} /\ UNCHANGED <<listing, listed, written>>
    BY <1>7 DEF Move, fillVars
  <2>2. \E place, t : Go(w, place, t)
    BY <1>7 DEF Move, Loop, Take
  <2>3. \A v \in Worker \ {w} : pc'[v] = pc[v] /\ task'[v] = task[v]
    BY <2>2 DEF Go, Typed, WorkersTyped
  <2>4. \A f : Moving(f) => Moving(f)' \/ f \in target'
    BY <2>1, <2>3 DEF Moving
  <2>5. QED
    BY <1>1, <1>2, <2>1, <2>4, SameSofar, SameWritten DEF MovedInv
<1>8. QED
  BY <1>3, <1>4, <1>5, <1>6, <1>7, StepCases DEF QuietStep

LEMMA EndedStep ==
  ASSUME Typed, LineInv, PlaceInv, KeptInv, MovedInv, DoneInv, EndedIsComplete, [Next]_vars
  PROVE  EndedIsComplete'
<1>1. CASE Join
  <2>1. /\ main = "joining" /\ fill = "ended" /\ \A w \in Worker : pc[w] = "ended"
        /\ UNCHANGED <<listing, target>>
    BY <1>1 DEF Join, Joined, fillVars, files
  <2>2. ~Failed /\ (\A f : ~Moving(f)) /\ \A t \in AllTasks : ~Held(t)
    BY <2>1, TasksAre DEF Failed, Moving, Held, Typed, WorkersTyped, Busy
  <2>3. done
    BY <2>1, ReaderAssumption DEF DoneInv
  <2>4. line = <<Sentinel>>
    BY <2>1, <2>2, <2>3 DEF DoneInv
  <2>5. \A t \in AllTasks : ~InLine(t)
    <3>1. \A i \in 1..Len(line) : line[i] = Sentinel
      BY <2>4
    <3>2. QED
      BY <3>1, TasksAre DEF InLine
  <2>6. Sofar = Listed /\ Sofar \subseteq File
    BY <2>1, SofarTypes DEF LineInv, Typed
  <2>7. ASSUME NEW f \in Listed \cap NonEmpty PROVE f \in target
    <3>1. f \in File /\ f \in Sofar
      BY <2>6
    <3>2. \A i \in Index(f) : Task(f, i) \in AllTasks /\ Task(f, i).file = f
      BY <3>1, TasksAre DEF Task, Index
    <3>3. \A i \in Index(f) : Task(f, i) \in written
      BY <2>2, <2>5, <3>1, <3>2 DEF KeptInv
    <3>4. Whole(f)
      BY <3>3 DEF Whole, WrittenOf
    <3>5. QED
      BY <2>2, <3>1, <3>4 DEF MovedInv
  <2>8. target \subseteq Listed \cap NonEmpty
    BY <2>6 DEF PlaceInv, FileInv, Typed, FilesTyped
  <2>9. QED
    BY <2>1, <2>7, <2>8 DEF EndedIsComplete, Listed
<1>2. CASE ~Join
  <2>1. main' = "ended" => UNCHANGED <<listing, target, main>>
    <3>1. CASE List \/ ListingEnds \/ PutRest \/ ListingFails
      BY <3>1 DEF List, ListingEnds, PutRest, ListingFails, Running
    <3>2. CASE Consume \/ Abort
      BY <3>2 DEF Consume, Abort
    <3>3. ASSUME NEW w \in Worker, Wake(w) \/ Fetch(w) \/ Write(w) \/ Move(w) \/ WorkerFails(w)
          PROVE  main' # "ended"
      BY <3>3 DEF Wake, Fetch, Write, Move, WorkerFails, At, Running
    <3>4. CASE UNCHANGED vars
      BY <3>4 DEF vars
    <3>5. QED
      BY <1>2, <3>1, <3>2, <3>3, <3>4, StepCases
  <2>2. QED
    BY <2>1 DEF EndedIsComplete, Listed
<1>3. QED
  BY <1>1, <1>2

-----------------------------------------------------------------------------
(* 7. The theorems.                                                        *)

ReaderInv ==
  Typed /\ LineInv /\ PlaceInv /\ KeptInv /\ MovedInv /\ DoneInv /\ EndedIsComplete

LEMMA InitReader == Init => ReaderInv
<1> SUFFICES ASSUME Init PROVE ReaderInv
  OBVIOUS
<1>1. Typed /\ LineInv
  BY InitTypes DEF Typed
<1>2. Sofar = {}
  BY DEF Init, Sofar
<1>3. \A t : ~InLine(t)
  <2>1. Len(line) = 0
    BY <1>1, LineProperties DEF Init, Typed, QueueTyped, line
  <2>2. QED
    BY <2>1 DEF InLine
<1>4. \A t \in AllTasks : ~Held(t)
  BY TasksAre DEF Init, Held
<1>5. PlaceInv
  BY <1>2, <1>3, <1>4 DEF Init, PlaceInv, OnePlace, MoversInv, ActiveInv, FileInv
<1>6. KeptInv /\ MovedInv /\ DoneInv /\ EndedIsComplete
  BY <1>2 DEF Init, KeptInv, MovedInv, DoneInv, EndedIsComplete
<1>7. QED
  BY <1>1, <1>5, <1>6 DEF ReaderInv

LEMMA ReaderStep == ReaderInv /\ [Next]_vars => ReaderInv'
<1> SUFFICES ASSUME ReaderInv, [Next]_vars PROVE ReaderInv'
  OBVIOUS
<1>1. /\ Typed /\ LineInv /\ PlaceInv /\ KeptInv /\ MovedInv /\ DoneInv /\ EndedIsComplete
      /\ ActiveInv
  BY DEF ReaderInv, PlaceInv
<1>2. QueueTyped' /\ LineInv'
  BY <1>1, LineStep
<1>3. WorkersTyped' /\ FilesTyped' /\ RestTyped'
  BY <1>1, WorkerTypes, FileTypes, RestTypes DEF Typed
<1>4. PlaceInv'
  BY <1>1, PlaceStep
<1>5. KeptInv' /\ MovedInv' /\ DoneInv' /\ EndedIsComplete'
  BY <1>1, KeptStep, MovedStep, DoneStep, EndedStep
<1>6. QED
  BY <1>2, <1>3, <1>4, <1>5 DEF ReaderInv, Typed

LEMMA ReaderAlways == Spec => []ReaderInv
BY InitReader, ReaderStep, PTL DEF Spec

(* Every variable has its type.  The queue never outgrows its maxsize, and *)
(* what a file waits for, which the workers count down with no lock, never *)
(* goes below no bytes: it is what its chunks that are not written add up  *)
(* to.                                                                     *)
THEOREM TypesCorrect == Spec => []TypeOK
<1>1. ReaderInv => TypeOK
  <2> SUFFICES ASSUME ReaderInv PROVE TypeOK
    OBVIOUS
  <2>1. /\ QueueTyped /\ WorkersTyped /\ FilesTyped /\ RestTyped /\ FileInv /\ Sofar \subseteq File
    BY SofarTypes DEF ReaderInv, Typed, PlaceInv
  <2>2. \A f \in File : pending[f] \in 0..Size[f]
    BY <2>1, WrittenIndex, LeftZero, ReaderAssumption DEF FileInv, Left
  <2>3. QED
    BY <2>1, <2>2 DEF TypeOK, QueueTyped, WorkersTyped, FilesTyped, RestTyped, Item, Busy
<1>2. QED
  BY <1>1, ReaderAlways, PTL

(* A file is moved to its target by one worker while others go on: every   *)
(* chunk is in the temporary file by then.                                 *)
THEOREM MovedWholeAlways == Spec => []MovedWhole
<1>1. ReaderInv => MovedWhole
  <2> SUFFICES ASSUME ReaderInv, NEW f \in target, NEW i \in 1..Chunks(f)
               PROVE  Task(f, i) \in written
    BY DEF MovedWhole
  <2>1. Whole(f)
    BY DEF ReaderInv, PlaceInv, FileInv
  <2>2. QED
    BY <2>1 DEF Whole, WrittenOf, Index
<1>2. QED
  BY <1>1, ReaderAlways, PTL

(* The buffer of a file is not deleted while a chunk of it is in the queue *)
(* or with a worker.                                                       *)
THEOREM BufferKeptAlways == Spec => []BufferKept
<1>1. ReaderInv => BufferKept
  <2> SUFFICES ASSUME ReaderInv, NEW t \in AllTasks,
                      (\E w \in Worker : task[w] = t) \/ (\E i \in DOMAIN inq : inq[i] = t)
               PROVE  t.file \in active
    BY DEF BufferKept
  <2>1. QueueTyped /\ ActiveInv
    BY DEF ReaderInv, Typed, PlaceInv
  <2>2. \A i \in DOMAIN inq : i \in 1..Len(line) /\ line[i] = inq[i]
    <3>1. DOMAIN inq = 1..Len(inq)
      BY <2>1, LenProperties DEF QueueTyped
    <3>2. QED
      BY <2>1, <3>1, LineProperties
  <2>3. InLine(t) \/ Held(t)
    BY <2>2 DEF InLine, Held
  <2>4. QED
    BY <2>1, <2>3 DEF ActiveInv
<1>2. QED
  BY <1>1, ReaderAlways, PTL

(* A download that ends without an error has at their target exactly the   *)
(* listed files that are not empty.                                        *)
THEOREM EndedIsCompleteAlways == Spec => []EndedIsComplete
<1>1. ReaderInv => EndedIsComplete
  BY DEF ReaderInv
<1>2. QED
  BY <1>1, ReaderAlways, PTL
=============================================================================
