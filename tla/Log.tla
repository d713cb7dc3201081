-------------------------------- MODULE Log --------------------------------
(***************************************************************************)
(* The write-ahead log (kernel/log.c) with the part of the buffer cache it *)
(* relies on: group commit of concurrent file-system calls, one disk write *)
(* per step, a crash at any point, recovery, and sync().                   *)
(*                                                                         *)
(* On disk: home (the home locations), dlog (the log blocks) and dhdr (the *)
(* header block: the block numbers of a committed transaction, or none).   *)
(* In memory: the cached blocks, their pins, log.lh and the counters of    *)
(* struct log.  Sections under log.lock are single steps; sleep(&log) and  *)
(* wakeup(&log) are the "...Sleep" labels and Woken.                       *)
(***************************************************************************)
EXTENDS Naturals, Sequences, FiniteSets

CONSTANTS
  Thr,          \* processes that run file-system calls
  Block,        \* blocks outside the log
  Val, Zero,    \* block contents, and those of a freshly made file system
  None,         \* not in the buffer cache
  Torn,         \* a block whose write a crash interrupted
  MAXOPBLOCKS,  \* log space reserved for one operation
  LOGBLOCKS,    \* blocks of the log
  OPBLOCKS,     \* most distinct blocks that one operation writes
  MaxCommit     \* bound: no operation starts once ncommit has reached it

\* The kernel has MAXOPBLOCKS = 10 and LOGBLOCKS = 3 * MAXOPBLOCKS; the largest
\* operation (a write of 3 unaligned blocks) logs 7 distinct blocks.
ASSUME LogAssumption ==
  /\ MAXOPBLOCKS \in Nat /\ LOGBLOCKS \in Nat /\ OPBLOCKS \in Nat
  /\ OPBLOCKS < MAXOPBLOCKS /\ MAXOPBLOCKS <= LOGBLOCKS
ASSUME ValAssumption == Zero \in Val /\ None \notin Val /\ Torn \notin Val

VARIABLES
  home, dlog, dhdr,                 \* the disk
  cache, pins,                      \* buffer cache, by block
  lh, outstanding, committing, ncommit,   \* struct log
  boot,                             \* "up", or where recovery is
  pc, tail, wrote, target,          \* locals of the processes and of commit()
  pending, owed                     \* history: ended, not durable; due to a sync

disk   == <<home, dlog, dhdr>>
bufs   == <<cache, pins>>
logv   == <<lh, outstanding, committing, ncommit>>
local  == <<tail, wrote, target>>
hist   == <<pending, owed>>
vars   == <<disk, bufs, logv, boot, pc, local, hist>>

Label == {"idle", "begin", "beginSleep", "op", "writeLog", "writeHead",
          "install", "clearHead", "commitDone", "sync", "syncSleep"}

Logged == {lh[i] : i \in 1 .. Len(lh)}

\* A disk made by mkfs, and the machine about to boot.
Init ==
  /\ home = [b \in Block |-> Zero]
  /\ dlog = [i \in 1 .. LOGBLOCKS |-> Zero]
  /\ dhdr = <<>>
  /\ cache = [b \in Block |-> None]
  /\ pins = [b \in Block |-> 0]
  /\ lh = <<>>
  /\ outstanding = 0
  /\ committing = FALSE
  /\ ncommit = 0
  /\ boot = "readHead"
  /\ pc = [t \in Thr |-> "idle"]
  /\ tail = 1
  /\ wrote = [t \in Thr |-> {}]
  /\ target = [t \in Thr |-> 0]
  /\ pending = FALSE
  /\ owed = [t \in Thr |-> FALSE]

-----------------------------------------------------------------------------
(* The buffer cache, as the log sees it.                                     *)

\* bread(b): the cached contents, or those on disk.
Bread(b) == IF cache[b] = None THEN home[b] ELSE cache[b]

\* A reader brings block b into the cache.
Load(b) ==
  /\ boot = "up"
  /\ cache[b] = None
  /\ cache' = [cache EXCEPT ![b] = home[b]]
  /\ UNCHANGED <<disk, pins, logv, boot, pc, local, hist>>

\* bget() recycles the buffer of block b for another block: it is not pinned.
Evict(b) ==
  /\ boot = "up"
  /\ cache[b] # None
  /\ pins[b] = 0
  /\ cache' = [cache EXCEPT ![b] = None]
  /\ UNCHANGED <<disk, pins, logv, boot, pc, local, hist>>

-----------------------------------------------------------------------------
(* begin_op, log_write, end_op                                               *)

\* wakeup(&log): every sleeper goes back to its loop.
Woken(l) == IF l = "beginSleep" THEN "begin" ELSE IF l = "syncSleep" THEN "sync" ELSE l

\* Mutant of HasRoom: the operations already admitted reserve nothing.
HasRoomForOne == Len(lh) + MAXOPBLOCKS <= LOGBLOCKS

\* Is there room in the log for one more operation?
HasRoom == Len(lh) + (outstanding + 1) * MAXOPBLOCKS <= LOGBLOCKS

AtBegin(t) ==
  /\ boot = "up"
  /\ pc[t] = "begin" \/ (pc[t] = "idle" /\ ncommit < MaxCommit)

BeginOp(t) ==
  /\ AtBegin(t)
  /\ ~committing
  /\ HasRoom
  /\ outstanding' = outstanding + 1
  /\ pc' = [pc EXCEPT ![t] = "op"]
  /\ UNCHANGED <<disk, bufs, lh, committing, ncommit, boot, local, hist>>

BeginSleep(t) ==
  /\ AtBegin(t)
  /\ committing \/ ~HasRoom
  /\ pc' = [pc EXCEPT ![t] = "beginSleep"]
  /\ UNCHANGED <<disk, bufs, logv, boot, local, hist>>

\* The operation modifies block b and calls log_write(), which absorbs the write
\* when the block is already in the transaction and pins the buffer otherwise.
LogWrite(t, b, v) ==
  /\ pc[t] = "op"
  /\ b \in wrote[t] \/ Cardinality(wrote[t]) < OPBLOCKS
  /\ Len(lh) < LOGBLOCKS
  /\ cache' = [cache EXCEPT ![b] = v]
  /\ wrote' = [wrote EXCEPT ![t] = @ \cup {b}]
  /\ \/ /\ b \in Logged
        /\ UNCHANGED <<lh, pins>>
     \/ /\ b \notin Logged
        /\ lh' = Append(lh, b)
        /\ pins' = [pins EXCEPT ![b] = @ + 1]
  /\ UNCHANGED <<disk, outstanding, committing, ncommit, boot, pc, tail, target, hist>>

\* Mutant of EndOp: it wakes nobody, as if only a commit made room.
EndOpNoWake(t) ==
  /\ pc[t] = "op"
  /\ outstanding > 1
  /\ outstanding' = outstanding - 1
  /\ pc' = [pc EXCEPT ![t] = "idle"]
  /\ wrote' = [wrote EXCEPT ![t] = {}]
  /\ pending' = TRUE
  /\ UNCHANGED <<disk, bufs, lh, committing, ncommit, boot, tail, target, owed>>

\* Mutant of EndOp: the last operation may leave its commit to the next one.
EndOpDefers(t) ==
  /\ pc[t] = "op"
  /\ outstanding' = outstanding - 1
  /\ pc' = [u \in Thr |-> IF u = t THEN "idle" ELSE Woken(pc[u])]
  /\ wrote' = [wrote EXCEPT ![t] = {}]
  /\ pending' = TRUE
  /\ UNCHANGED <<disk, bufs, lh, committing, ncommit, boot, tail, target, owed>>

\* end_op() of an operation that leaves others running.
EndOp(t) ==
  /\ pc[t] = "op"
  /\ outstanding > 1
  /\ outstanding' = outstanding - 1
  /\ pc' = [u \in Thr |-> IF u = t THEN "idle" ELSE Woken(pc[u])]
  /\ wrote' = [wrote EXCEPT ![t] = {}]
  /\ pending' = TRUE
  /\ UNCHANGED <<disk, bufs, lh, committing, ncommit, boot, tail, target, owed>>

\* The transaction is durable: nothing is due any more.
Durable ==
  /\ pending' = FALSE
  /\ owed' = [t \in Thr |-> FALSE]

\* end_op() of the last operation: it commits, at once if nothing was logged.
EndOpLast(t) ==
  /\ pc[t] = "op"
  /\ outstanding = 1
  /\ outstanding' = 0
  /\ committing' = TRUE
  /\ tail' = 1
  /\ wrote' = [wrote EXCEPT ![t] = {}]
  /\ \/ /\ lh # <<>>
        /\ pc' = [pc EXCEPT ![t] = "writeLog"]
        /\ pending' = TRUE
        /\ UNCHANGED owed
     \/ /\ lh = <<>>
        /\ pc' = [pc EXCEPT ![t] = "commitDone"]
        /\ Durable
  /\ UNCHANGED <<disk, bufs, lh, ncommit, boot, target>>

-----------------------------------------------------------------------------
(* commit(), one disk write per step                                         *)

\* The loop over the transaction goes on, or ends at label l.
NextTail(t, l) ==
  \/ /\ tail < Len(lh)
     /\ tail' = tail + 1
     /\ UNCHANGED pc
  \/ /\ tail = Len(lh)
     /\ tail' = 1
     /\ pc' = [pc EXCEPT ![t] = l]

\* write_log(): copy a cached block to its log block.
WriteLog(t) ==
  /\ pc[t] = "writeLog"
  /\ dlog' = [dlog EXCEPT ![tail] = Bread(lh[tail])]
  /\ NextTail(t, "writeHead")
  /\ UNCHANGED <<home, dhdr, bufs, logv, boot, wrote, target, hist>>

\* Mutant of WriteHead: the loop that fills the header stops one entry short.
WriteHeadShort(t) ==
  /\ pc[t] = "writeHead"
  /\ dhdr' = SubSeq(lh, 1, Len(lh) - 1)
  /\ pc' = [pc EXCEPT ![t] = "install"]
  /\ Durable
  /\ UNCHANGED <<home, dlog, bufs, logv, boot, local>>

\* write_head(): the commit point.
WriteHead(t) ==
  /\ pc[t] = "writeHead"
  /\ dhdr' = lh
  /\ pc' = [pc EXCEPT ![t] = "install"]
  /\ Durable
  /\ UNCHANGED <<home, dlog, bufs, logv, boot, local>>

\* Mutant of Install: no bunpin().
InstallKeepsPin(t) ==
  /\ pc[t] = "install"
  /\ home' = [home EXCEPT ![lh[tail]] = dlog[tail]]
  /\ cache' = [cache EXCEPT ![lh[tail]] = dlog[tail]]
  /\ NextTail(t, "clearHead")
  /\ UNCHANGED <<dlog, dhdr, pins, logv, boot, wrote, target, hist>>

\* install_trans(0): copy a log block to its home location and unpin it.
Install(t) ==
  /\ pc[t] = "install"
  /\ home' = [home EXCEPT ![lh[tail]] = dlog[tail]]
  /\ cache' = [cache EXCEPT ![lh[tail]] = dlog[tail]]
  /\ pins' = [pins EXCEPT ![lh[tail]] = @ - 1]
  /\ NextTail(t, "clearHead")
  /\ UNCHANGED <<dlog, dhdr, logv, boot, wrote, target, hist>>

\* log.lh.n = 0 and write_head(): erase the transaction.
ClearHead(t) ==
  /\ pc[t] = "clearHead"
  /\ lh' = <<>>
  /\ dhdr' = <<>>
  /\ pc' = [pc EXCEPT ![t] = "commitDone"]
  /\ UNCHANGED <<home, dlog, bufs, outstanding, committing, ncommit, boot, local, hist>>

\* end_op() after commit().
CommitDone(t) ==
  /\ pc[t] = "commitDone"
  /\ committing' = FALSE
  /\ ncommit' = ncommit + 1
  /\ pc' = [u \in Thr |-> IF u = t THEN "idle" ELSE Woken(pc[u])]
  /\ UNCHANGED <<disk, bufs, lh, outstanding, boot, local, hist>>

-----------------------------------------------------------------------------
(* sync                                                                      *)

\* Mutant of SyncCall: the commit waited for is one too many.
SyncCallTwo(t) ==
  /\ boot = "up"
  /\ pc[t] = "idle"
  /\ committing \/ outstanding > 0
  /\ target' = [target EXCEPT ![t] = ncommit + 2]
  /\ pc' = [pc EXCEPT ![t] = "syncSleep"]
  /\ owed' = [owed EXCEPT ![t] = pending]
  /\ UNCHANGED <<disk, bufs, logv, boot, tail, wrote, pending>>

\* Something is active: wait for the next commit to end.  (When nothing is,
\* sync() returns at once and changes nothing.)
SyncCall(t) ==
  /\ boot = "up"
  /\ pc[t] = "idle"
  /\ committing \/ outstanding > 0
  /\ target' = [target EXCEPT ![t] = ncommit + 1]
  /\ pc' = [pc EXCEPT ![t] = "syncSleep"]
  /\ owed' = [owed EXCEPT ![t] = pending]
  /\ UNCHANGED <<disk, bufs, logv, boot, tail, wrote, pending>>

SyncAgain(t) ==
  /\ pc[t] = "sync"
  /\ ncommit < target[t]
  /\ pc' = [pc EXCEPT ![t] = "syncSleep"]
  /\ UNCHANGED <<disk, bufs, logv, boot, local, hist>>

SyncReturn(t) ==
  /\ pc[t] = "sync"
  /\ ncommit >= target[t]
  /\ pc' = [pc EXCEPT ![t] = "idle"]
  /\ target' = [target EXCEPT ![t] = 0]
  /\ owed' = [owed EXCEPT ![t] = FALSE]
  /\ UNCHANGED <<disk, bufs, logv, boot, tail, wrote, pending>>

-----------------------------------------------------------------------------
(* Crash and recovery                                                        *)

\* The machine stops; memory is lost.  The block being written at that moment is
\* old, new or torn.  The header occupies one sector, so it is never torn.
Crash ==
  /\ \/ UNCHANGED home
     \/ /\ boot = "install" \/ \E t \in Thr : pc[t] = "install"
        /\ home' = [home EXCEPT ![lh[tail]] = Torn]
  /\ \/ UNCHANGED dlog
     \/ /\ \E t \in Thr : pc[t] = "writeLog"
        /\ dlog' = [dlog EXCEPT ![tail] = Torn]
  /\ UNCHANGED dhdr
  /\ cache' = [b \in Block |-> None]
  /\ pins' = [b \in Block |-> 0]
  /\ lh' = <<>>
  /\ outstanding' = 0
  /\ committing' = FALSE
  /\ ncommit' = 0
  /\ boot' = "readHead"
  /\ pc' = [t \in Thr |-> "idle"]
  /\ tail' = 1
  /\ wrote' = [t \in Thr |-> {}]
  /\ target' = [t \in Thr |-> 0]
  /\ pending' = FALSE
  /\ owed' = [t \in Thr |-> FALSE]

\* read_head().
ReadHead ==
  /\ boot = "readHead"
  /\ lh' = dhdr
  /\ tail' = 1
  /\ boot' = IF dhdr = <<>> THEN "clear" ELSE "install"
  /\ UNCHANGED <<disk, bufs, outstanding, committing, ncommit, pc, wrote, target, hist>>

\* install_trans(1): the buffers are not pinned.
RecoverInstall ==
  /\ boot = "install"
  /\ home' = [home EXCEPT ![lh[tail]] = dlog[tail]]
  /\ cache' = [cache EXCEPT ![lh[tail]] = dlog[tail]]
  /\ IF tail < Len(lh)
       THEN tail' = tail + 1 /\ UNCHANGED boot
       ELSE tail' = 1 /\ boot' = "clear"
  /\ UNCHANGED <<dlog, dhdr, pins, logv, pc, wrote, target, hist>>

\* log.lh.n = 0 and write_head(): clear the log; the system is up.
RecoverClear ==
  /\ boot = "clear"
  /\ lh' = <<>>
  /\ dhdr' = <<>>
  /\ boot' = "up"
  /\ UNCHANGED <<home, dlog, bufs, outstanding, committing, ncommit, pc, local, hist>>

-----------------------------------------------------------------------------
Step(t) ==
  \/ BeginOp(t) \/ BeginSleep(t)
  \/ EndOp(t) \/ EndOpLast(t)
  \/ WriteLog(t) \/ WriteHead(t) \/ Install(t) \/ ClearHead(t) \/ CommitDone(t)
  \/ SyncCall(t) \/ SyncAgain(t) \/ SyncReturn(t)
  \/ \E b \in Block, v \in Val : LogWrite(t, b, v)

Recovery == ReadHead \/ RecoverInstall \/ RecoverClear

Next ==
  \/ \E t \in Thr : Step(t)
  \/ \E b \in Block : Load(b) \/ Evict(b)
  \/ Crash
  \/ Recovery

Spec == Init /\ [][Next]_vars

-----------------------------------------------------------------------------
\* While an operation is active the log has a free block, so log_write() never
\* panics with "too big a transaction": what begin_op() reserves covers every
\* interleaving of the writes of all admitted operations.
LogHasRoom ==
  (\E t \in Thr : pc[t] = "op") => Len(lh) < LOGBLOCKS

\* Nothing is written between commit() and its end: no operation is active while
\* a commit runs (end_op() panics otherwise), and log.outstanding counts them.
NoOpDuringCommit ==
  /\ outstanding = Cardinality({t \in Thr : pc[t] = "op"})
  /\ committing => outstanding = 0

\* Pins are balanced: exactly the blocks of the transaction that are not yet
\* installed are pinned, each once, so the cache gets all its buffers back.
PinsBalanced ==
  LET installed == {lh[i] : i \in 1 .. (IF \E t \in Thr : pc[t] = "install" THEN tail - 1
                                        ELSE IF \E t \in Thr : pc[t] = "clearHead" THEN Len(lh)
                                        ELSE 0)}
  IN boot = "up" =>
       \A b \in Block : pins[b] = IF b \in Logged \ installed THEN 1 ELSE 0

\* What recovery makes of the disk: the home locations, overlaid with the log
\* blocks when the header holds a transaction.
Recovered ==
  [b \in Block |->
    IF \E i \in 1 .. Len(dhdr) : dhdr[i] = b
      THEN dlog[CHOOSE i \in 1 .. Len(dhdr) : dhdr[i] = b]
      ELSE home[b]]

\* The image operations see: the cache over the disk, once recovery is over.
Image == [b \in Block |-> IF boot = "up" THEN Bread(b) ELSE Recovered[b]]

\* The log implements AtomicLog: a transaction reaches the disk whole, between
\* operations, or not at all, wherever a crash falls (in write_log(), around
\* write_head(), in install_trans() or in recovery itself), and no operation
\* ever reads a block that went stale when its buffer was recycled.
Abstract == INSTANCE AtomicLog
              WITH mem <- Image, durable <- Recovered, open <- {t \in Thr : pc[t] = "op"}
AtomicSpec == Abstract!Spec

\* When sync() returns, everything that had ended before it was called is on
\* disk: the commit it waited for is late enough, and when it finds nothing
\* active nothing was left to commit.
SyncDurable ==
  /\ \A t \in Thr : pc[t] = "sync" /\ ncommit >= target[t] => ~owed[t]
  /\ boot = "up" /\ ~committing /\ outstanding = 0 => ~pending

\* The labels of a process that ends an operation, or a commit, if it goes on.
Active == {"op", "writeLog", "writeHead", "install", "clearHead", "commitDone"}

\* No process is left asleep in begin_op(): whoever sleeps there could not be
\* admitted now, and an operation or a commit is under way whose end wakes it.
\* So the log is never full with nobody to empty it, and neither the end of one
\* operation among several nor that of a commit misses a sleeper.
BeginWaitersWoken ==
  \A t \in Thr : pc[t] = "beginSleep" =>
    (committing \/ ~HasRoom) /\ \E u \in Thr : pc[u] \in Active

\* sync() never waits longer than it must: whoever sleeps there waits for the
\* commit that ends next, however many operations started and ended meanwhile,
\* and somebody is under way to it.
SyncWaitersWoken ==
  \A t \in Thr : pc[t] = "syncSleep" =>
    target[t] = ncommit + 1 /\ \E u \in Thr : pc[u] \in Active
=============================================================================
