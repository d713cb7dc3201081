------------------------------- MODULE Bcache -------------------------------
(* The buffer cache (bio.c) with its sleep locks (sleeplock.c), on top of    *)
(* the disk driver.  A section under bcache.lock or under a sleep lock's     *)
(* spin lock is one step.  Contents are abstracted to "latest or not": a     *)
(* process that modifies a buffer makes it fresh and the disk stale.         *)
(*                                                                           *)
(* The callers follow the protocol of the log: a modified buffer is either   *)
(* pinned by log_write() before brelse(), and unpinned after install_trans() *)
(* wrote it, or written at once with bwrite().                               *)
EXTENDS Virtio, Functions

CONSTANTS
  Wants,    \* Wants[t]: the blocks that t asks for
  Writer,   \* the processes that write, within a transaction
  MaxPins   \* bound: blocks in the log header

ASSUME BufAssumption == IsFiniteSet(Buf)
ASSUME WantsAssumption == Wants \in [Thr -> SUBSET Block]

VARIABLES
  valid,    \* the buffers with b->valid
  refcnt,   \* refcnt[b]
  lock,     \* lock[b]: the process that holds b->lock, or None
  lru,      \* the list bcache.head, most recently used first
  blk,      \* blk[t]: the block t asked for
  pinned    \* the blocks pinned by log_write() (log.lh)

cacheVars == <<valid, refcnt, lock, lru, blk, pinned>>
vars == <<blockno, fresh, pc, buf, write, chan, driverVars, cacheVars>>

\* binit() links every buffer.
Linked == CHOOSE s \in Bijection(1 .. Cardinality(Buf), Buf) : TRUE

Init ==
  /\ InitDriver
  /\ blockno = [b \in Buf |-> None] /\ fresh = {} /\ valid = {}
  /\ refcnt = [b \in Buf |-> 0] /\ lock = [b \in Buf |-> None]
  /\ lru = Linked
  /\ pc = [t \in Thr |-> "idle"] /\ chan = [t \in Thr |-> None]
  /\ buf = [t \in Thr |-> None] /\ blk = [t \in Thr |-> None]
  /\ write = [t \in Thr |-> FALSE] /\ pinned = {}

\* panic("bget: no buffers") leaves bcache.lock held for ever.
BcacheLockFree == \A t \in Thr : pc[t] # "panic"

Cached_mut(n) == {b \in Buf : blockno[b] = n /\ refcnt[b] > 0}
Cached(n) == {b \in Buf : blockno[b] = n}
\* Least recently used buffer that nobody refers to.
Unused == {i \in DOMAIN lru : refcnt[lru[i]] = 0}
Victim == lru[Max(Unused)]
\* b->valid = 0 for the recycled buffer.
Invalidated_mut == valid
Invalidated == valid \ {Victim}

BgetHit(t, n) ==
  /\ pc[t] = "idle" /\ BcacheLockFree
  /\ \E b \in Cached(n) :
       /\ refcnt' = [refcnt EXCEPT ![b] = @ + 1]
       /\ buf' = [buf EXCEPT ![t] = b]
  /\ blk' = [blk EXCEPT ![t] = n]
  /\ pc' = [pc EXCEPT ![t] = "lock"]
  /\ UNCHANGED <<blockno, fresh, write, chan, driverVars, valid, lock, lru, pinned>>

BgetMiss(t, n) ==
  /\ pc[t] = "idle" /\ BcacheLockFree /\ Cached(n) = {} /\ Unused # {}
  /\ blockno' = [blockno EXCEPT ![Victim] = n]
  /\ valid' = Invalidated /\ fresh' = fresh \ {Victim}
  /\ refcnt' = [refcnt EXCEPT ![Victim] = 1]
  /\ buf' = [buf EXCEPT ![t] = Victim]
  /\ blk' = [blk EXCEPT ![t] = n]
  /\ pc' = [pc EXCEPT ![t] = "lock"]
  /\ UNCHANGED <<write, chan, driverVars, lock, lru, pinned>>

BgetPanic(t, n) ==
  /\ pc[t] = "idle" /\ BcacheLockFree /\ Cached(n) = {} /\ Unused = {}
  /\ pc' = [pc EXCEPT ![t] = "panic"]
  /\ UNCHANGED <<blockno, fresh, buf, write, chan, driverVars, cacheVars>>

AcquireBusy(t) ==
  /\ Awake(t, "lock") /\ lock[buf[t]] # None
  /\ chan' = [chan EXCEPT ![t] = <<"lock", buf[t]>>]
  /\ UNCHANGED <<blockno, fresh, pc, buf, write, driverVars, cacheVars>>

\* acquiresleep() succeeds; bread() asks the disk unless the buffer is valid.
Acquire(t) ==
  /\ Awake(t, "lock") /\ lock[buf[t]] = None
  /\ lock' = [lock EXCEPT ![buf[t]] = t]
  /\ write' = [write EXCEPT ![t] = FALSE]
  /\ pc' = [pc EXCEPT ![t] = IF buf[t] \in valid THEN "hold" ELSE "desc"]
  /\ UNCHANGED <<blockno, fresh, buf, chan, driverVars, valid, refcnt, lru, blk, pinned>>

\* virtio_disk_rw() returns; bread() sets b->valid.
Transferred(t) ==
  /\ Finish(t)
  /\ valid' = IF write[t] THEN valid ELSE valid \cup {buf[t]}
  /\ UNCHANGED <<refcnt, lock, lru, blk, pinned>>

\* The caller changes the data: its buffer is the latest, the disk is not.
Modified(t) ==
  /\ fresh' = (fresh \ Cached(blk[t])) \cup {buf[t]}
  /\ dfresh' = dfresh \ {blk[t]}
  /\ UNCHANGED <<bdisk, free, idx, ops, info, avail, used, irq, handler>>

NeedsPin_mut1(t) == TRUE
NeedsPin_mut2(t) == FALSE
NeedsPin(t) == blk[t] \notin pinned

\* log_write(): bpin() unless the block is in the log already (absorption).
LogWrite(t) ==
  /\ t \in Writer /\ pc[t] = "hold" /\ BcacheLockFree
  /\ Modified(t)
  /\ blk[t] \in pinned \/ Cardinality(pinned) < MaxPins
  /\ \/ ~NeedsPin(t) /\ UNCHANGED <<refcnt, pinned>>
     \/ /\ NeedsPin(t)
        /\ refcnt' = [refcnt EXCEPT ![buf[t]] = @ + 1]
        /\ pinned' = pinned \cup {blk[t]}
  /\ pc' = [pc EXCEPT ![t] = "release"]
  /\ UNCHANGED <<blockno, buf, write, chan, valid, lock, lru, blk>>

\* write_log(), write_head(): new contents, written at once.
WriteThrough(t) ==
  /\ t \in Writer /\ pc[t] = "hold" /\ blk[t] \notin pinned
  /\ Modified(t)
  /\ write' = [write EXCEPT ![t] = TRUE]
  /\ pc' = [pc EXCEPT ![t] = "desc"]
  /\ UNCHANGED <<blockno, buf, chan, cacheVars>>

\* install_trans(): the contents of a pinned block go to its home.
Install(t) ==
  /\ t \in Writer /\ pc[t] = "hold" /\ blk[t] \in pinned
  /\ write' = [write EXCEPT ![t] = TRUE]
  /\ pc' = [pc EXCEPT ![t] = "desc"]
  /\ UNCHANGED <<blockno, fresh, buf, chan, driverVars, cacheVars>>

\* bunpin() of install_trans(), after bwrite() returned.
Unpin(t) ==
  /\ pc[t] = "written" /\ blk[t] \in pinned /\ BcacheLockFree
  /\ refcnt' = [refcnt EXCEPT ![buf[t]] = @ - 1]
  /\ pinned' = pinned \ {blk[t]}
  /\ pc' = [pc EXCEPT ![t] = "release"]
  /\ UNCHANGED <<blockno, fresh, buf, write, chan, driverVars, valid, lock, lru, blk>>

\* brelse(), first half: releasesleep().
ReleaseSleep(t) ==
  /\ \/ pc[t] \in {"hold", "release"}
     \/ pc[t] = "written" /\ blk[t] \notin pinned
  /\ lock' = [lock EXCEPT ![buf[t]] = None]
  /\ chan' = Woken(<<"lock", buf[t]>>)
  /\ pc' = [pc EXCEPT ![t] = "drop"]
  /\ UNCHANGED <<blockno, fresh, buf, write, driverVars, valid, refcnt, lru, blk, pinned>>

\* b is unlinked and put at the head of the list.
ToFront(b) ==
  LET p == CHOOSE i \in DOMAIN lru : lru[i] = b
  IN <<b>> \o (SubSeq(lru, 1, p - 1) \o SubSeq(lru, p + 1, Len(lru)))

\* brelse(), second half: drop the reference; an unused buffer becomes the
\* most recently used one.
Brelse(t) ==
  /\ pc[t] = "drop" /\ BcacheLockFree
  /\ refcnt' = [refcnt EXCEPT ![buf[t]] = @ - 1]
  /\ lru' = IF refcnt[buf[t]] = 1 THEN ToFront(buf[t]) ELSE lru
  /\ buf' = [buf EXCEPT ![t] = None] /\ blk' = [blk EXCEPT ![t] = None]
  /\ pc' = [pc EXCEPT ![t] = "idle"]
  /\ UNCHANGED <<blockno, fresh, write, chan, driverVars, valid, lock, pinned>>

Process(t) ==
  \/ NoDesc(t) /\ UNCHANGED cacheVars
  \/ Submit(t) /\ UNCHANGED cacheVars
  \/ Transferred(t)
  \/ AcquireBusy(t) \/ Acquire(t)
  \/ LogWrite(t) \/ WriteThrough(t) \/ Install(t) \/ Unpin(t)
  \/ ReleaseSleep(t) \/ Brelse(t)

Bread(t) == \E n \in Wants[t] : BgetHit(t, n) \/ BgetMiss(t, n) \/ BgetPanic(t, n)

Next ==
  \/ \E t \in Thr : Process(t) \/ Bread(t)
  \/ (Device \/ Interrupt) /\ UNCHANGED cacheVars

Spec == Init /\ [][Next]_vars
-----------------------------------------------------------------------------
(* Properties *)

\* bget() under bcache.lock never gives one block two buffers, however lookups,
\* recycling and releases interleave.
OneBufferPerBlock ==
  \A a, b \in Buf : a # b /\ blockno[a] = blockno[b] => blockno[a] = None

\* Between bread() and brelse() the caller has the buffer to itself, it still
\* caches the block asked for, and its data is the latest written to that
\* block, whether it came from the cache or from the disk.
HolderSeesLatest ==
  \A t \in Thr : pc[t] \in {"hold", "release", "written"} =>
    /\ lock[buf[t]] = t
    /\ blockno[buf[t]] = blk[t]
    /\ buf[t] \in valid \cap fresh

\* Every reference counted in refcnt is that of a process between bget() and
\* brelse() or of one pin: a buffer is never recycled under its user, and no
\* reference leaks until bget() panics for want of buffers.
RefcntExact ==
  \A b \in Buf :
    refcnt[b] = Cardinality({t \in Thr : buf[t] = b})
                  + (IF blockno[b] \in pinned THEN 1 ELSE 0)

\* When bwrite() returns, the disk has the caller's data, and a block whose
\* only latest copy is in memory is pinned or still being written: brelse()
\* never makes the last copy recyclable.
WriteReachesDisk ==
  /\ \A t \in Thr : pc[t] = "written" => blk[t] \in dfresh
  /\ \A n \in Block \ dfresh :
       n \in pinned \/ \E t \in Thr : blk[t] = n /\ pc[t] \in {"desc", "io"}

\* Nobody sleeps on what has already happened: a request whose caller sleeps
\* is with the device or in the used ring with an interrupt to come, waiters
\* for descriptors sleep only while fewer than three are free, and waiters for
\* a buffer only while it is locked.
NoLostWakeup ==
  \A t \in Thr : chan[t] # None =>
    CASE pc[t] = "io"   -> \/ Lowest(idx[t]) \in avail
                           \/ Lowest(idx[t]) \in Range(used) /\ (irq \/ handler = "loop")
      [] pc[t] = "desc" -> Cardinality(free) < 3
      [] pc[t] = "lock" -> lock[buf[t]] # None
=============================================================================
