---------------------------- MODULE AsyncLRUCache ----------------------------
(***************************************************************************)
(* The LRU cache of uploaded code bundles (_utils/async_cache.py), shared  *)
(* by the coroutines of several event loops, each on a thread of its own:  *)
(* build_pkl_bundle runs on the main loop for an async task that is        *)
(* awaited, and on the syncify and the submit loop for one that map or a   *)
(* sync caller runs (_map.py, _code_bundle/bundle.py), so that a key may   *)
(* be asked for from two loops.                                            *)
(*                                                                         *)
(* A coroutine runs without interruption from its own loop until it awaits *)
(* something that is not ready; the thread of another loop may run at any  *)
(* moment.  asyncio.Lock knows nothing of threads: a lock belongs to the   *)
(* loop that first waits for it, and raises in any other that has to wait; *)
(* its release sets a future of that loop, and from another thread nothing *)
(* makes the loop notice.  A call of acquire or release is one step here.  *)
(***************************************************************************)
EXTENDS Naturals, Sequences, FiniteSets, SequencesExt

CONSTANTS
  Getter,     \* coroutines, each in one call of get
  Loop,       \* event loops
  LoopOf,     \* LoopOf[c]
  Key,
  KeyOf,      \* KeyOf[c]: the key it asks for
  MaxSize,    \* maxsize
  Ttl,        \* entries expire
  MaxCalls,   \* bound: calls of set, invalidate and clear, and expiries
  Nobody

ASSUME CacheConstants ==
  /\ LoopOf \in [Getter -> Loop] /\ KeyOf \in [Getter -> Key]
  /\ Nobody \notin Getter \cup Loop
  /\ MaxSize \in Nat \ {0} /\ MaxCalls \in Nat /\ Ttl \in BOOLEAN

VARIABLES
  cache,    \* _cache: keys, the next to be evicted first
  old,      \* keys in it whose time is over
  locks,    \* _locks: the lock of each key, named by the coroutine that made it
  holder,   \* who holds each lock
  access,   \* _access_lock: who holds it
  bound,    \* the loop of each lock, once somebody waited for it
  waker,    \* the loop whose thread set the future of a waiter, for each lock
  running,  \* the coroutine that a loop is in the middle of
  pc, mine, \* each coroutine: where it is, the lock it took from _locks
  ops,      \* calls of the other operations so far
  used,     \* history: keys, the least recently returned or stored first
  lapsed    \* history: keys that were dropped, expired or assigned again

entryVars == <<cache, old, used>>
lockVars  == <<locks, holder, mine>>
cacheVars == <<entryVars, lockVars, access, bound, waker, running, pc, ops, lapsed>>

AccessLock == "_access_lock"
AnyLock    == Getter \cup {AccessLock}

CacheInit ==
  /\ cache = <<>> /\ old = {} /\ used = <<>>
  /\ locks = [k \in Key |-> Nobody] /\ mine = [c \in Getter |-> Nobody]
  /\ holder = [c \in Getter |-> Nobody]
  /\ access = Nobody
  /\ bound = [l \in AnyLock |-> Nobody] /\ waker = [l \in AnyLock |-> Nobody]
  /\ running = [l \in Loop |-> Nobody]
  /\ pc = [c \in Getter |-> "new"]
  /\ ops = 0 /\ lapsed = {}

Cached(k)  == k \in ToSet(cache)
Valid(k)   == Cached(k) /\ k \notin old

(* A key occurs once.                                                      *)
Without(s, k) == IF k \in ToSet(s) THEN RemoveAt(s, CHOOSE i \in DOMAIN s : s[i] = k) ELSE s
ToEnd(s, k)   == Append(Without(s, k), k)

Turn(c)   == running[LoopOf[c]] \in {Nobody, c}
Give(c)   == running' = [running EXCEPT ![LoopOf[c]] = Nobody]
Keep(c)   == running' = [running EXCEPT ![LoopOf[c]] = c]
Step(c, p) == pc' = [pc EXCEPT ![c] = p]

-----------------------------------------------------------------------------
(* asyncio.Lock: who has to wait binds the lock to its loop, and a release *)
(* sets the future of a waiter if there is one.                            *)
AccessWaits == {"hit waiting", "miss waiting", "again waiting", "store waiting"}
Queued(l) == {d \in Getter : IF l = AccessLock THEN pc[d] \in AccessWaits
                                               ELSE pc[d] = "waiting" /\ mine[d] = l}

MayWait(c, l)  == bound[l] \in {Nobody, LoopOf[c]}
Bind(c, l)     == bound' = [bound EXCEPT ![l] = LoopOf[c]]
Release(c, ls) == waker' = [l \in AnyLock |-> IF l \in ls /\ Queued(l) # {} THEN LoopOf[c] ELSE waker[l]]
Awake(l)       == waker' = [waker EXCEPT ![l] = Nobody]

(* "async with self._access_lock": taken at once if it is free and nobody  *)
(* waits; otherwise a future of the loop is waited for, or the lock        *)
(* belongs to another loop.                                                *)
Open == access = Nobody /\ Queued(AccessLock) = {}

Taken(c, p) == access = Nobody /\ access' = c /\ Step(c, p) /\ Keep(c) /\ UNCHANGED bound

Enter(c, from, waiting, to) ==
  /\ pc[c] = from /\ Turn(c)
  /\ \/ Open /\ Taken(c, to)
     \/ /\ ~Open /\ MayWait(c, AccessLock)
        /\ Bind(c, AccessLock) /\ Step(c, waiting) /\ Give(c) /\ UNCHANGED access
     \/ /\ ~Open /\ ~MayWait(c, AccessLock)
        /\ Step(c, "raised") /\ Give(c) /\ UNCHANGED <<access, bound>>
  /\ UNCHANGED <<entryVars, ops, lapsed>>

(* The release has set the result of the future.                           *)
Woken(c, waiting, to) ==
  /\ pc[c] = waiting /\ Turn(c)
  /\ Taken(c, to) /\ Awake(AccessLock)
  /\ UNCHANGED <<entryVars, lockVars, ops, lapsed>>

StillLocked(c) == holder
Unlocked(c)    == [holder EXCEPT ![mine[c]] = Nobody]

(* Leaves get; holding the key's lock or not.                              *)
Leave(c, p) ==
  /\ access' = Nobody /\ Step(c, p) /\ Give(c)
  /\ holder' = IF mine[c] # Nobody THEN Unlocked(c) ELSE holder
  /\ Release(c, {AccessLock, mine[c]})
  /\ UNCHANGED <<bound, ops>>

(* An exception under the lock of the key, outside _access_lock.           *)
Raise(c) ==
  /\ Step(c, "raised") /\ Give(c)
  /\ holder' = Unlocked(c) /\ Release(c, {mine[c]})

-----------------------------------------------------------------------------
(* get: "key in self._cache", and then the read, which raises KeyError if  *)
(* the thread of another loop dropped the entry in between.                *)
Look(c) ==
  /\ pc[c] = "new" /\ Turn(c)
  /\ Step(c, IF Cached(KeyOf[c]) THEN "found" ELSE "miss") /\ Keep(c)
  /\ UNCHANGED <<entryVars, lockVars, access, bound, waker, ops, lapsed>>

Read(c) ==
  /\ pc[c] = "found"
  /\ IF Cached(KeyOf[c])
     THEN Step(c, IF Valid(KeyOf[c]) THEN "hit" ELSE "miss") /\ Keep(c)
     ELSE Step(c, "raised") /\ Give(c)
  /\ UNCHANGED <<entryVars, lockVars, access, bound, waker, ops, lapsed>>

EnterHit(c) == Enter(c, "hit", "hit waiting", "moving") /\ UNCHANGED <<lockVars, waker>>
WokenHit(c) == Woken(c, "hit waiting", "moving")

Unmoved(k) == cache
Moved(k)   == ToEnd(cache, k)

(* move_to_end raises KeyError if the entry has been evicted.              *)
MoveToEnd(c) ==
  LET k == KeyOf[c] IN
  /\ pc[c] = "moving"
  /\ IF Cached(k)
     THEN cache' = Moved(k) /\ used' = ToEnd(used, k) /\ Leave(c, "returned")
     ELSE UNCHANGED <<cache, used>> /\ Leave(c, "raised")
  /\ UNCHANGED <<old, locks, mine, lapsed>>

EnterMiss(c) == Enter(c, "miss", "miss waiting", "naming") /\ UNCHANGED <<lockVars, waker>>
WokenMiss(c) == Woken(c, "miss waiting", "naming")

(* self._locks.get(key), or a new lock.                                    *)
LockFresh(c) == c
LockFor(c)   == IF locks[KeyOf[c]] # Nobody THEN locks[KeyOf[c]] ELSE c

FindLock(c) ==
  /\ pc[c] = "naming"
  /\ locks' = [locks EXCEPT ![KeyOf[c]] = LockFor(c)]
  /\ mine' = [mine EXCEPT ![c] = LockFor(c)]
  /\ access' = Nobody /\ Release(c, {AccessLock}) /\ Step(c, "locking") /\ Keep(c)
  /\ UNCHANGED <<entryVars, holder, bound, ops, lapsed>>

(* "async with lock", then the second look at the cache.                   *)
Free(c)    == holder[mine[c]] = Nobody
OpenKey(c) == Free(c) /\ Queued(mine[c]) = {}

TakeKey(c) ==
  /\ Free(c) /\ holder' = [holder EXCEPT ![mine[c]] = c]
  /\ IF Cached(KeyOf[c]) THEN Step(c, "found again") /\ Keep(c)
                         ELSE Step(c, "computing") /\ Give(c)
  /\ UNCHANGED bound

Lock(c) ==
  /\ pc[c] = "locking" /\ Turn(c)
  /\ \/ OpenKey(c) /\ TakeKey(c)
     \/ /\ ~OpenKey(c) /\ MayWait(c, mine[c])
        /\ Bind(c, mine[c]) /\ Step(c, "waiting") /\ Give(c) /\ UNCHANGED holder
     \/ /\ ~OpenKey(c) /\ ~MayWait(c, mine[c])
        /\ Step(c, "raised") /\ Give(c) /\ UNCHANGED <<holder, bound>>
  /\ UNCHANGED <<entryVars, locks, mine, access, waker, ops, lapsed>>

WokenKey(c) ==
  /\ pc[c] = "waiting" /\ Turn(c)
  /\ TakeKey(c) /\ Awake(mine[c])
  /\ UNCHANGED <<entryVars, locks, mine, access, ops, lapsed>>

ReadAgain(c) ==
  /\ pc[c] = "found again"
  /\ \/ Valid(KeyOf[c]) /\ Step(c, "again") /\ Keep(c) /\ UNCHANGED <<holder, waker>>
     \/ /\ Cached(KeyOf[c]) /\ ~Valid(KeyOf[c])
        /\ Step(c, "computing") /\ Give(c) /\ UNCHANGED <<holder, waker>>
     \/ ~Cached(KeyOf[c]) /\ Raise(c)
  /\ UNCHANGED <<entryVars, locks, mine, access, bound, ops, lapsed>>

(* Waiting for _access_lock under the lock of the key, which an exception  *)
(* releases.                                                               *)
EnterUnder(c, from, waiting, to) ==
  /\ Enter(c, from, waiting, to)
  /\ IF pc'[c] = "raised" THEN holder' = Unlocked(c) /\ Release(c, {mine[c]})
                          ELSE UNCHANGED <<holder, waker>>
  /\ UNCHANGED <<locks, mine>>

EnterAgain(c) == EnterUnder(c, "again", "again waiting", "moving")
WokenAgain(c) == Woken(c, "again waiting", "moving")

(* value_func fails: the lock stays in _locks.                             *)
ComputeFails(c) ==
  /\ pc[c] = "computing" /\ Turn(c)
  /\ Raise(c)
  /\ UNCHANGED <<entryVars, locks, mine, access, bound, ops, lapsed>>

EnterStore(c) == EnterUnder(c, "computing", "store waiting", "storing")
WokenStore(c) == Woken(c, "store waiting", "storing")

(* What an assignment does to the history: the evicted key, and its own.   *)
Dropped(k) == (ToSet(cache) \ ToSet(cache')) \cup (ToSet(cache) \cap {k})

(* An OrderedDict leaves a key that is assigned again where it was.        *)
Assigned(k) == IF Cached(k) THEN cache ELSE Append(cache, k)
Trimmed(s) == IF Len(s) > MaxSize THEN Tail(s) ELSE s

Assign(k) ==
  /\ cache' = Trimmed(Assigned(k))
  /\ old' = (old \ {k}) \cap ToSet(cache')
  /\ used' = ToEnd(used, k)

LockPopped(k) == [locks EXCEPT ![k] = Nobody]

Store(c) ==
  LET k == KeyOf[c] IN
  /\ pc[c] = "storing"
  /\ Assign(k) /\ locks' = LockPopped(k)
  /\ lapsed' = lapsed \cup Dropped(k)
  /\ Leave(c, "returned")
  /\ UNCHANGED mine

-----------------------------------------------------------------------------
(* The other operations, from any loop, and the passing of time.           *)
Call ==
  /\ ops < MaxCalls /\ ops' = ops + 1
  /\ access = Nobody /\ \E l \in Loop : running[l] = Nobody
  /\ UNCHANGED <<holder, mine, access, bound, waker, running, pc>>

set == \E k \in Key :
  /\ Call /\ Assign(k)
  /\ lapsed' = lapsed \cup Dropped(k)
  /\ UNCHANGED locks

invalidate == \E k \in Key :
  /\ Call
  /\ cache' = Without(cache, k) /\ old' = old \ {k}
  /\ lapsed' = lapsed \cup {k}
  /\ UNCHANGED <<used, locks>>

clear ==
  /\ Call
  /\ cache' = <<>> /\ old' = {} /\ locks' = [k \in Key |-> Nobody]
  /\ lapsed' = Key
  /\ UNCHANGED used

Expire == \E k \in ToSet(cache) \ old :
  /\ Ttl /\ Call
  /\ old' = old \cup {k} /\ lapsed' = lapsed \cup {k}
  /\ UNCHANGED <<cache, used, locks>>

-----------------------------------------------------------------------------
Hit(c)  == Look(c) \/ Read(c) \/ EnterHit(c) \/ MoveToEnd(c)
Miss(c) == EnterMiss(c) \/ FindLock(c) \/ Lock(c) \/ ReadAgain(c) \/ EnterAgain(c)
             \/ ComputeFails(c) \/ EnterStore(c) \/ Store(c)
Woke(c) == WokenHit(c) \/ WokenMiss(c) \/ WokenKey(c) \/ WokenAgain(c) \/ WokenStore(c)
Done    == (\A c \in Getter : pc[c] \in {"returned", "raised"}) /\ UNCHANGED cacheVars

CacheNext ==
  \/ \E c \in Getter : Hit(c) \/ Miss(c) \/ Woke(c)
  \/ set \/ invalidate \/ clear \/ Expire
  \/ Done

CacheSpec == CacheInit /\ [][CacheNext]_cacheVars

(* The lock that c waits for, and who holds it: c is at the mercy of       *)
(* another loop if a coroutine of that loop holds it or set its future.    *)
Awaited(c)   == IF pc[c] = "waiting" THEN mine[c] ELSE AccessLock
HolderOf(l)  == IF l = AccessLock THEN access ELSE holder[l]
AtMercy(c) ==
  /\ pc[c] \in AccessWaits \cup {"waiting"}
  /\ LET h == HolderOf(Awaited(c)) IN
     LoopOf[c] # (IF h = Nobody THEN waker[Awaited(c)] ELSE LoopOf[h])

(* The loops run what is ready and value_func ends.  A waiter goes on if   *)
(* its own loop's thread set its future; nothing wakes a loop whose future *)
(* another thread has set.                                                 *)
CacheFairness ==
  \A c \in Getter : WF_cacheVars(Hit(c) \/ Miss(c) \/ (~AtMercy(c) /\ Woke(c)))
CacheFairSpec == CacheSpec /\ CacheFairness

-----------------------------------------------------------------------------
(* A value is computed by one coroutine at a time ("a lock for this key to *)
(* prevent redundant computation").  The exception: while others wait for  *)
(* the lock it is taken out of _locks, so a key that was dropped or has    *)
(* expired since may be computed twice at once.                            *)
Computing(k) == {c \in Getter : KeyOf[c] = k /\ pc[c] \in {"computing", "store waiting", "storing"}}

SingleFlight == \A k \in Key \ lapsed : Cardinality(Computing(k)) <= 1

(* The cache never holds more than maxsize entries, and one that get used  *)
(* goes after those that were used before: what is evicted is the least    *)
(* recently used one.  The exception: a key that was assigned again, after *)
(* it expired or by set, stays where it was.                               *)
Regular(k) == Cached(k) /\ k \notin lapsed

Before(s, x, y) == \E i, j \in DOMAIN s : i < j /\ s[i] = x /\ s[j] = y

Recency ==
  /\ Len(cache) <= MaxSize /\ IsInjective(cache) /\ old \subseteq ToSet(cache)
  /\ \A x, y \in Key : Regular(x) /\ Regular(y) => (Before(cache, x, y) <=> Before(used, x, y))

(* Every get ends, one way or the other.  The exception: it hangs because  *)
(* a coroutine of its loop waits for ever for a lock, _access_lock or that *)
(* of a key asked for from two loops, which a coroutine of another loop    *)
(* holds or has released.                                                  *)
GetsEnd ==
  <>[](\A c \in Getter : \/ pc[c] \in {"returned", "raised"}
                         \/ \E d \in Getter : LoopOf[d] = LoopOf[c] /\ AtMercy(d))
=============================================================================
