------------------------------- MODULE Virtio -------------------------------
(* The block device driver (virtio_disk.c) and the device it talks to.       *)
(*                                                                           *)
(* A request uses three descriptors.  The available and the used ring never  *)
(* hold more than NUM \div 3 entries, so the available ring is a set of      *)
(* chain heads (the device completes requests in any order) and the used     *)
(* ring a queue.  A section under vdisk_lock is one step, except the         *)
(* interrupt handler, whose loop lets the device add entries meanwhile.      *)
(* A sleeping caller has its channel in chan; wakeup() clears it.            *)
EXTENDS Naturals, Sequences, FiniteSets, FiniteSetsExt

CONSTANTS
  Thr,     \* processes that use the disk
  Buf,     \* buffers of the cache (struct buf)
  Block,   \* disk blocks
  NUM,     \* number of descriptors
  None     \* no buffer, no block, not sleeping

ASSUME NumAssumption == NUM \in Nat /\ NUM >= 3
ASSUME ThrAssumption == IsFiniteSet(Thr)
ASSUME NoneAssumption == None \notin Thr \cup Buf \cup Block

VARIABLES
  blockno,   \* blockno[b]: the block that buffer b caches, or None
  bdisk,     \* the buffers with b->disk = 1
  free,      \* disk.free: the free descriptors
  idx,       \* idx[t]: the descriptors of t's request
  ops,       \* ops[i]: request whose chain starts at i (buffer, block, write)
  info,      \* disk.info[i].b
  avail,     \* heads handed to the device
  used,      \* heads the device has finished, as yet unseen by the driver
  irq,       \* the device asserts its interrupt
  handler,   \* virtio_disk_intr: "off", or "loop" (then it has vdisk_lock)
  dfresh,    \* the blocks whose contents on disk are the latest written
  fresh,     \* the buffers whose data is the latest of their block
  pc,        \* where each process is
  buf,       \* buf[t]: the buffer t works on
  write,     \* write[t]: argument of virtio_disk_rw
  chan       \* chan[t]: the channel t sleeps on, or None

driverVars == <<bdisk, free, idx, ops, info, avail, used, irq, handler, dfresh>>

Desc == 0 .. NUM - 1
Lowest(S) == Min(S)

InitDriver ==
  /\ bdisk = {} /\ free = Desc
  /\ idx = [t \in Thr |-> {}]
  /\ ops = [i \in Desc |-> None] /\ info = [i \in Desc |-> None]
  /\ avail = {} /\ used = <<>> /\ irq = FALSE /\ handler = "off"
  /\ dfresh = Block

Awake(t, label) == pc[t] = label /\ chan[t] = None
VdiskLockFree == handler = "off"

\* Sleep channels: &disk.free[0], and b while its transfer is under way.
FreeChan == <<"free", None>>
DiskChan(b) == <<"disk", b>>

\* wakeup(c).
Woken(c) == [t \in Thr |-> IF chan[t] = c THEN None ELSE chan[t]]

\* alloc3_desc() fails: it gives back what it took, each free_desc() waking
\* the other waiters, and the caller sleeps on &disk.free[0].
NoDesc(t) ==
  /\ Awake(t, "desc") /\ VdiskLockFree /\ Cardinality(free) < 3
  /\ chan' = [(IF free = {} THEN chan ELSE Woken(FreeChan)) EXCEPT ![t] = FreeChan]
  /\ UNCHANGED <<blockno, fresh, pc, buf, write, driverVars>>

\* alloc_desc() takes the lowest free descriptor; the first heads the chain.
Chain ==
  LET a == Lowest(free)
      b == Lowest(free \ {a})
  IN {a, b, Lowest(free \ {a, b})}

\* The request is formatted and published; b->disk = 1, so the caller sleeps.
Submit(t) ==
  /\ Awake(t, "desc") /\ VdiskLockFree /\ Cardinality(free) >= 3
  /\ free' = free \ Chain
  /\ idx' = [idx EXCEPT ![t] = Chain]
  /\ LET head == Lowest(free) IN
     /\ ops' = [ops EXCEPT ![head] =
          [buf |-> buf[t], blk |-> blockno[buf[t]], write |-> write[t]]]
     /\ info' = [info EXCEPT ![head] = buf[t]]
     /\ avail' = avail \cup {head}
  /\ bdisk' = bdisk \cup {buf[t]}
  /\ pc' = [pc EXCEPT ![t] = "io"]
  /\ chan' = [chan EXCEPT ![t] = DiskChan(buf[t])]
  /\ UNCHANGED <<blockno, fresh, buf, write, used, irq, handler, dfresh>>

\* free_desc() of each descriptor of a chain.
FreeDesc(S) == free \cup S

\* b->disk is 0 again: free_chain() and return to bread() or bwrite().
Finish(t) ==
  /\ Awake(t, "io") /\ VdiskLockFree /\ buf[t] \notin bdisk
  /\ info' = [info EXCEPT ![Lowest(idx[t])] = None]
  /\ ops' = [ops EXCEPT ![Lowest(idx[t])] = None]
  /\ free' = FreeDesc(idx[t])
  /\ idx' = [idx EXCEPT ![t] = {}]
  /\ chan' = Woken(FreeChan)
  /\ pc' = [pc EXCEPT ![t] = IF write[t] THEN "written" ELSE "hold"]
  /\ UNCHANGED <<blockno, fresh, buf, write, bdisk, avail, used, irq, handler, dfresh>>

\* The device moves the data of one request and reports it in the used ring.
DeviceDone(i) ==
  /\ i \in avail
  /\ LET r == ops[i] IN
     IF r.write
     THEN /\ dfresh' = IF r.buf \in fresh THEN dfresh \cup {r.blk} ELSE dfresh \ {r.blk}
          /\ UNCHANGED fresh
     ELSE /\ fresh' = IF r.blk \in dfresh THEN fresh \cup {r.buf} ELSE fresh \ {r.buf}
          /\ UNCHANGED dfresh
  /\ avail' = avail \ {i}
  /\ used' = Append(used, i)
  /\ irq' = TRUE
  /\ UNCHANGED <<blockno, bdisk, free, idx, ops, info, handler, pc, buf, write, chan>>

IntrFrame == UNCHANGED <<blockno, free, idx, ops, info, avail, dfresh, fresh, pc, buf, write>>

\* The handler acknowledges first, then reads the used ring.
IntrAck ==
  /\ irq /\ handler = "off"
  /\ irq' = FALSE /\ handler' = "loop"
  /\ UNCHANGED <<bdisk, used, chan>> /\ IntrFrame

IntrEntry_mut ==
  /\ handler = "loop" /\ used # <<>>
  /\ bdisk' = bdisk \ {info[Head(used)]}
  /\ chan' = Woken(DiskChan(info[Head(used)]))
  /\ used' = Tail(used) /\ handler' = "off"
  /\ UNCHANGED irq /\ IntrFrame
IntrEntry ==
  /\ handler = "loop" /\ used # <<>>
  /\ bdisk' = bdisk \ {info[Head(used)]}
  /\ chan' = Woken(DiskChan(info[Head(used)]))
  /\ used' = Tail(used)
  /\ UNCHANGED <<irq, handler>> /\ IntrFrame

IntrReturn ==
  /\ handler = "loop" /\ used = <<>>
  /\ handler' = "off"
  /\ UNCHANGED <<bdisk, used, irq, chan>> /\ IntrFrame

Device == \E i \in Desc : DeviceDone(i)
Interrupt == IntrAck \/ IntrEntry \/ IntrReturn
=============================================================================
