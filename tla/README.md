# A TLA+ model of the xv6 kernel with the FCFS scheduler

The repository is xv6 for RISC-V with an FCFS scheduler in place of round robin
(`yield()` is empty) and the system calls `getppid`, `getidade` and `sync`. This
directory models the kernel in `src/code/kernel`, the shell and its first programs
in `src/code/user`, and the image that `mkfs` builds. TLC checks the models on small
instances; TLAPS proves the central facts for every size.

## 1. The parts and how they meet

| part | source | module | what is hard |
|---|---|---|---|
| process table | `proc.c`, `sysproc.c`, `trap.c` | `Proc` | locks handed over in `swtch`, lost wakeups, lock order, slot reuse |
| start of the harts | `main.c` | `Proc` (`up`, `Start`) | what holds on one hart, and when a second appears |
| scheduling policy | `proc.c`, `proc_RR_backup.c` | `Sched` | starvation, overtaking |
| spin locks, traps, interrupts | `spinlock.c`, `trap.c`, `plic.c`, `start.c`, `*.S` | `Intr` | handlers against locks, per-hart state of a thread that moves |
| log | `log.c` | `AtomicLog`, `Log` | a crash at any disk write, reservation, group commit |
| buffer cache, sleep locks | `bio.c`, `sleeplock.c` | `Bcache` | recycling a buffer in use |
| disk driver | `virtio_disk.c` | `Virtio` | completion in any order, exhaustion |
| inodes, directories, paths | `fs.c`, `sysfile.c`, `mkfs.c` | `Fs`, `Mkfs` | last reference, lock order, orphans after a crash |
| open files, pipes | `file.c`, `pipe.c`, `sysfile.c` | `File` | last close against dup and fork, wrap of the counters |
| console, UART | `console.c`, `uart.c` | `Console` | input overrun, several writers, echo |
| memory, exec | `kalloc.c`, `vm.c`, `exec.c`, `proc.c` | `Vm` | failure half way, leaks |
| init, sh, cat, echo | `user/*.c` | `ShParse`, `Shell` | pipe ends left open, who waits for whom |

Every blocking operation ends in `sleep`/`wakeup` of the process table. File calls
run inside `begin_op .. end_op` of the log; the log pins buffers of the cache; the
cache waits for the disk driver. The shell runs on open files, pipes and the console.
In the modules: `Log` refines `AtomicLog`, on which `Fs` stands;
`Bcache` extends `Virtio`; `Shell` extends `File`, `Console` and `ShParse`.

## 2. Modules

**Proc.** Every CPU runs `scheduler()` (`cproc[c] = 0`) or the process `cproc[c]`,
whose place in the kernel is `pc`. A lock is owned by a CPU, as in `spinlock.c`. A
section under one lock is one step; a lock kept over several steps (`wait_lock` in
exit and wait, `first_proc->lock` in the scan, `p->lock` across `swtch`) is visible in
`waitlock` and `plock`. The table loops of allocproc, wakeup, reparent, wait, kill and
the scan go slot by slot, so other CPUs act in between. Left out: exit status, file
closing in `kexit`, `fsinit`/`kexec` in `forkret`. `init` never exits and is not a kill
target (`kexit` panics). `AllocFail` covers every out-of-memory path of `allocproc` and
`kfork`. `up` is the set of harts that have entered `scheduler()`: the one that set the
kernel up, and then the others in any order and at any time (`Start`). getppid without a parent (only init) changes nothing and is left out.

**Sched.** One CPU and both policies. FCFS scans with interrupts off, so its choice is
one step; round robin scans with interrupts on, one slot per step. `Tick` is `clockintr`
with its wakeup and the `yield` of the policy. A process that computes takes no step.
`left` replaces the tick counter of `sys_pause`; the counter itself is in `Intr`.

**Intr.** A kernel thread is the list of the steps it still has to make; an interrupt
handler that stops kernel code has a list of its own, and its hart does nothing else
until it is empty. `noff` and `intena` are indexed by register `tp`. The kernel's work
is reduced to three calls, which take a lock that a handler takes as well. A step that
touches only state of its own hart runs at once: no other hart can see it. Killing and
page faults in `usertrap` are in `Proc` and `Vm`.

**AtomicLog, Log.** `AtomicLog` is the promise: an image in memory, a durable image
that becomes the whole of it only when no operation is active, a crash that falls back
to it. `Log` is the code: one disk write per step, the cache with pins and recycling,
reservation, group commit, `sync`. `Crash` can happen in every state; the block being
written may be torn, the header not: its 124 bytes are in one sector. `pending` and
`owed` are history variables for `sync`. Assumption: an operation writes at most
`OPBLOCKS < MAXOPBLOCKS` distinct blocks. The largest in the source, a `filewrite` chunk,
logs 7 of 10. Strictness matters: `log_write` tests for a full log before it looks for
absorption, so an operation that used its whole reservation could panic when it writes
a block again.

**Bcache, Virtio.** A section under `bcache.lock`, under a sleep lock's spin lock or
under `vdisk_lock` is one step; the loop of the interrupt handler is not. Contents are
abstracted to "latest or not". Callers follow the log's protocol: a modified buffer is
pinned before `brelse`, or written at once. The device completes requests in any order.

**Fs.** A call is the list of its remaining steps. A section between `ilock` and
`iunlock` that waits for nothing else is one step; a lock held while another is awaited,
or across an `iput`, is in `lock`. Transactions are those of `AtomicLog`: a crash falls
back to the file system of the last commit, then recovery reclaims orphans. The two panics
that a stale number could reach, in `ilock` and in `sys_unlink`, are not guards: `LockedInodeLive`
and `IlockFindsType` say where they cannot happen. `Mkfs` builds the images to begin with.
`MCFs` adds a history variable, `stray`: the inodes entered in a directory already removed,
whose link is never taken back. With it `TreeSound` can state every other `nlink` exactly.

**File, Console.** A step is what a call does under one lock. `nread`, `nwrite` and the
console's `r`, `w`, `e` wrap, at a small modulus instead of 2^32. A pipe has one writer and one
reader at a time in every script, as `sh` sets them up. The UART's interrupt
handler is a process of its own. `keys` is the history of what was typed and read; what the lines
should be is computed from it alone (`Edited`).

**Vm.** A page table belongs to one process and only the free list is shared, so a call
is one step; other users of `kalloc` take and return pages between calls, which lets an
allocation fail at every point of every call. Page tables have three levels as in the
code, with a small fan-out. `ideal` is what each process must see.

**ShParse, Shell.** The parser works on characters and is checked against a grammar on
tokens. `runcmd` turns a command into a list of calls; `init`, `sh`, `cat` and `echo` are
such lists. fork, exit and wait are one step each (their interleavings are in `Proc`),
except that exit closes one descriptor after the other. A call that sleeps does so in `SleepOn`,
where a kill may come between its test of `killed()` and the sleep; `pipewrite` may be killed between
two bytes, and then returns without a wakeup (history field `cut`). A `pipe` or `open` that fails
first holds the files it took, then gives them back one by one (`GiveBackCall`); an `open` for
writing has created its file by then. `pipe` fails for want of files or pages in the scripts; its
failing for want of descriptors is modelled, but no program of the run has so many open.

Mutated forms of operators, named in `PROJECT.json`, stand before the operator they
change; they are used by no specification and show that a property notices the change.

## 3. Runs

| run | instance | shows |
|---|---|---|
| `boot` | 3 slots, 3 harts, pids to 4 | `OnOneCpu`, `NoLockPanic`, `ParentsLive`, `NoMissedExit`, `KilledIsLive` over all interleavings; `KillInterruptsWait`, `LowestPidChosen` while one hart is up |
| `proc_live` | 3 slots, 2 CPUs, fork/exit/wait | `KernelPathsEnd`, `ScansEnd` |
| `log` | 3 processes, 4 blocks, log of 4, 2 values | `Log` refines `AtomicLog` (`AtomicSpec`), `SyncDurable`, `PinsBalanced`, `LogHasRoom` at the limit, `BeginWaitersWoken`, `SyncWaitersWoken` |
| `kernel` | 2 slots, 18 pages, fan-out 3; 2 harts, 2 processes | `NoVmPanic`, `PagesPartition`, `MemoryIsIdeal` of `Vm`; `LocksMaskInterrupts`, `ThreadContextKept`, `PauseNotEarly` of `Intr` |
| `sched` | 3 slots, both policies, pids to 6 | `BoundedOvertaking` (round robin), `NoStarvation` |
| `io` | 3 processes, 3 buffers, 4 blocks, 2 chains | `OneBufferPerBlock`, `HolderSeesLatest`, `RefcntExact`, `WriteReachesDisk`, `NoLostWakeup` |
| `fs` | 2 processes, 4 inodes, 5 blocks, 3 calls, 1 crash, 3 images, one with a directory in a directory | `TreeSound`, `BlocksOwned`, `RefExact`, `LockedInodeLive`, `IputNeverBlocks`, `NoLockCycle` |
| `shell` | 5 slots, 4 files, 1 pipe, typed scripts | `InputAsEdited`, `PipeInOrder`, `DescriptorsCounted`, `SleepersHaveReason`, `RestsAtPrompt`; `ParserMatchesGrammar` for all lines of up to 5 characters |
| `proc_getppid` | 2 CPUs | violated: getppid can return 0 |
| `sched_preempt` | FCFS only | violated: a RUNNABLE process may never run |
| `fs_orphan` | as `fs` | violated: an unlinked inode that nobody holds stays allocated |
| `fs_dotdot` | 1 process, nested image, 4 calls | violated: `..` of a removed directory reaches a free inode |

`kernel` explores `Vm` and `Intr` side by side: they have no state in common, and a
behaviour is one of either, so nothing is multiplied.

Bounds. Three slots let a grandparent, a parent and a child exist at once, so
reparenting, reaping and slot reuse all happen. Two CPUs are enough for a race of two;
the third of `boot` appears while they race. In `log` two operations make a transaction of
several blocks, which a crash can tear, and a third process waits in `begin_op` or `sync`
meanwhile and is woken while operations are still active; the log has room for two
reservations, so the third waits for room as well. In `io` three processes compete
for two chains, and four blocks for three buffers. In `fs` the root directory's block
holds three entries, so a new name takes a block, and inodes and blocks run out. In
`kernel` memory runs out inside every call. Counters wrap within a run. `MaxPid`,
`MaxCommit`, `MaxCalls`, `MaxCrash`, `MaxPins`, `MaxSz`, `MaxPause` and `MaxLine` stop new work,
never work in progress.

Fairness. `Proc`: strong fairness per CPU for kernel steps and for the scheduler: a CPU
executes for ever, and a spinning `acquire` succeeds if the lock is free again and again
(the atomic swap gives no stronger order). Nothing is assumed of user code. `Sched`: the timer
ticks and the scheduler runs; of the processes, init included, nothing is assumed. No other
module has a fairness condition. In particular it would be wrong to assume of `Log` that every
process in a system call goes on: the scheduler takes the lowest pid and is never preempted, so a
RUNNABLE process may wait for ever (run `sched_preempt`). Elsewhere "nobody waits for ever" is
therefore an invariant: whoever sleeps has a reason, and what it waits for is on its way. That
a process which is ready gets the CPU is not part of it.

### Known limits of the code that the models show

- With several harts `KillInterruptsWait` and `LowestPidChosen` are false: a kill between
  `killed()` and `sleep()` in wait leaves the victim asleep until a child exits, and a
  lower pid may become RUNNABLE behind the scan. The properties are stated for one hart.
- The same window is in `pipewrite`, `piperead` and `consoleread`: the victim sleeps, with its
  kill mark set, until the other end moves or a line is typed. `SleepersHaveReason` therefore
  says of a sleeper only that what it waits for has not happened, not that it is not killed.
- A writer killed between two bytes leaves through the `return -1` of `pipewrite`, which wakes
  nobody: a reader asleep sees its bytes only when it closes the pipe or another write ends.
- `sync()` waits as long as operations overlap, since only the last `end_op` commits.
- `kill(0)` matches a free slot (its pid is 0) and leaves a kill mark in it. The instances
  kill pids 2 and 3, and the theorem about kill marks has the assumption in its statement.
- `bget: no buffers` is reachable when pins and held buffers reach `NBUF`; run `io` lets the
  system stop there. `iget: no inodes` is reachable too (`NINODE` < `NFILE` + `NPROC`).
- A directory entry created or linked in a directory that is being removed is lost with it,
  and its inode stays allocated for ever: its link count is not 0, and `ireclaim` frees only
  inodes without links. `TreeSound` lets exactly these have more links than entries (`stray`).
- `..` of a removed directory still names its parent, to which it has no link any more. If the
  parent is removed and freed too, a process in the directory that opens `..` reaches
  `panic("ilock: no type")` (run `fs_dotdot`). `LockedInodeLive` is stated for calls without
  `..` in their paths; run `fs` has calls with it, and all its other properties hold for them.
- In `sh`, `>>` does not append, and of two output redirections the first wins. A `cat` in
  the background competes with the shell for the console.
- A killed process that waits in `uartwrite` is not woken by the kill.

## 4. Proofs

`ProcProofs` proves for any `NPROC` and any set of CPUs:

- `TypeCorrect`: `Spec => []TypeOK`;
- `LockInvariant`: `Spec => []LockInv`;
- `OneCpuPerProcess`: `Spec => []OnOneCpu`;
- `LocksNeverPanic`: `Spec => []NoLockPanic`.

`OnOneCpu` is not inductive: whether a dispatch is safe depends on the candidate
being RUNNABLE, locked by that CPU and on no CPU. `LockInv` adds: the candidate of
a scan is RUNNABLE and its lock is held (`FirstInv`), a process on a CPU is RUNNING
except between its state change and `swtch`, where its lock is held (`RunInv`), one
on no CPU is at a saved context (`OffInv`), a slot being forked is USED and belongs
to one forker (`ForkInv`), and every owned lock has its reason (`OwnerInv`). Most
steps only move a process between labels and change nothing the invariant looks
at (`MoveInv`); the entering, leaving, forking and scanning steps have a lemma each.
The assumptions are `NPROC > 0`, `NoCpu` is no CPU, and kill arguments are naturals.

`ProcTreeProofs` proves, from `LockInv`, for any `NPROC` and any set of CPUs:

- `FamilyInvariant`: `Spec => []FamilyInv`;
- `TreeIsSound`: `Spec => []ParentsLive`;
- `ExitsAreNotMissed`: `Spec => []NoMissedExit`.

Neither property is inductive, because `kexit()` works through the table one slot at a time.
`TreeInv` adds how far it has come: the slots `reparent()` has passed are not children of the
exiting process any more (`Gone`), so that it has none left when it becomes a zombie, and
`init` never exits. `MissInv` covers the other side: a sleeper has an exited child only if it
is `init` and `reparent()`, which has just given it that child, is still about to wake it; a
process about to become a zombie has woken its parent (`ParentAwake`); and the slots a scan of
`kwait()` has passed hold no exited child (`Seen`). `wait_lock` makes this work:
at most one process is in any of these loops (`OneWaiter`). `LoopInv` and `SleepInv` say where the
loop variables rest and on what channel a process sleeps. Most steps are `Quiet` (tree) or
`Steady` (missed exits); the others have a lemma each.

`ProcTreeProofs` goes on, also from `LockInv`, with:

- `KillMarksProcesses`: `0 \notin KillPids => (Spec => []KilledIsLive)`;
- `OneHartInvariant`: `Spec => []OneHartInv`;
- `KillEndsWait`: `Spec => []KillInterruptsWait`;
- `LowestPidFirst`: `Spec => []LowestPidChosen`.

The first needs that a free slot has pid 0 (`MarkInv`); the premise is exactly what section 3
says about `kill(0)`. The last two hold while one hart runs. Harts are only
added, so the invariant may speak of the states with one hart alone (`OneHartBefore`). In
those no other process moves between the check of `killed()` and the sleep (`KillInv`), and no
process becomes RUNNABLE behind the scan (`LowInv`).

`LogProofs` proves for any processes, blocks, values and log size:

- `LogInvariant`: `Spec => []LogInv`;
- `CommitAlone`: `Spec => []NoOpDuringCommit`;
- `PinsAreBalanced`: `Spec => []PinsBalanced`;
- `SyncIsDurable`: `Spec => []SyncDurable`;
- `LogIsAtomic`: `Spec => AtomicSpec`, every step of `Log` is a step of `AtomicLog` or
  changes nothing in it.

`LogInv` says, for each place in `commit()` and in recovery, what the disk holds. One
process commits and nobody else is in an operation (`CommitInv`); `tail` counts the blocks
copied so far (`TailInv`); the log's blocks up to `tail` are copies of the cache
(`Copied`), those below `tail` are installed (`Installed`), no block is in the log twice
(`Distinct`); the header on disk is empty, or names blocks of which each is in the log area
or already at home (`DataInv` with `UpInv` and `BootInv`); a pin stands for a logged block that is
not yet installed (`PinInv`); what a `sync` waits for is pending in the commit it saw
(`SyncInv`). The refinement maps `mem` to what a `bread` would return and `disk` to what
recovery would make of the disk (`Durable`); only `WriteHead` with a complete log changes the second,
and it changes it to the first.

`LogProofs` then proves, from `LogInv`:

- `LogNeverFull`: `Spec => []LogHasRoom`.

`begin_op()` compares the blocks in the log with what every active operation may still
write, but counts the blocks that they have already written twice. `RoomInv` gives these back:
`Charges` are the pairs of an active operation and a block it wrote, and blocks in the log
plus `outstanding * MAXOPBLOCKS` exceed the log's size by at most their number. A block that
is new to the log is new to its operation, so `log_write` adds to both sides; an `end_op` that
leaves other operations active takes away at most `MAXOPBLOCKS` charges. An injection into
`Ops \X 1 .. OPBLOCKS` bounds the charges by `outstanding * OPBLOCKS` (`ChargesBound`), which is
less than what is reserved. The assumption is `OPBLOCKS < MAXOPBLOCKS <= LOGBLOCKS`.

and, for the waiters, which share one channel:

- `BeginWaitersAreWoken`: `Spec => []BeginWaitersWoken`;
- `SyncWaitersAreWoken`: `Spec => []SyncWaitersWoken`.

`WaitInv` extends them to those in `sync()` who have been woken and not yet looked: they wait for
the next commit at most, and if it is still to come then a commit runs or operations are counted.
`IdleInv` says that the log is empty between transactions, so that nobody can be refused by a log
that no one is going to empty. What is counted is somebody at work (`OpCounted`, `SomebodyActive`).
Here the assumption is `MAXOPBLOCKS <= LOGBLOCKS`: an empty log admits an operation.

`BcacheProofs` proves for any processes, buffers and blocks:

- `CacheInvariant`: `Spec => []CacheInv`;
- `BlocksHaveOneBuffer`: `Spec => []OneBufferPerBlock`;
- `ReferencesAreExact`: `Spec => []RefcntExact`.

`OneBufferPerBlock` depends on `RefcntExact`: recycling is safe because a buffer with count 0
has no user and no pin. `CacheInv` adds that every buffer is in the list, that a process has a
buffer exactly between `bget` and `brelse`, which caches the block it asked for, and that every
pinned block is cached. The counts are compared by adding one process to, or taking one from,
the finite set of users. The assumptions are that processes and buffers are finitely many and that
`None` is none of them.

It goes on to prove, from `CacheInv`, for any number of descriptors `NUM >= 3` as well:

- `DiskInvariant`: `Spec => []DiskInv`;
- `HoldersSeeLatest`: `Spec => []HolderSeesLatest`;
- `WritesReachDisk`: `Spec => []WriteReachesDisk`;
- `NoWakeupIsLost`: `Spec => []NoLostWakeup`.

None of the three is inductive: each depends on where a request is. `QueueInv` follows it from the
caller into the available ring, the used ring and out again: chains are disjoint, the head of a
chain describes the request of one process, it is in at most one of the rings and there once, and
`b->disk` is 1 exactly as long. `DataInv` says which copy is the latest: every valid buffer's; the
disk's, unless the block is pinned or being written; and what the device has moved by the time the
request left the available ring (`Moved`). `ChanInv` says on which channel a sleeper sleeps
and that what it waits for has not happened; for the interrupt it needs that a non-empty used
ring has the handler running or an interrupt to come. `HoldInv` makes the holder of a buffer unique,
so that a transfer never meets another use of its buffer.

`SchedProofs` proves for any `NPROC`:

- `TurnInvariant`: `Spec => [](SlotsInv /\ TurnInv)`;
- `RoundRobinOvertakesOnce`: `Spec => BoundedOvertaking`.

`TurnInv` says where the loop of `scheduler()` is: the slots that ran while `p` was waiting
lie on the way from `p + 1` to `last`. The next slot of the loop is not on that way, unless
the loop comes to `p` itself (`FollowingIsAhead`).

`FsInv`, `FsStepProofs`, `FsCountProofs` and `FsProofs` are one argument, for any processes, inodes,
names, paths and calls, any number of open files, and any file systems to begin with whose entries are
inodes. `FsProofs` proves:

- `InodeInvariant`: `Spec => []InodeInv`;
- `ReferencesCounted`: `Spec => []RefExact`;
- `IputDoesNotBlock`: `Spec => []IputNeverBlocks`.

`RefExact` is not inductive: what a step does to `ref` depends on what the rest of the call will
put. `InodeInv` (in `FsInv`) adds which lists of steps a call can have (`ListOk`): at most four steps,
`end_op()` last, and the freeing half of an `iput()` first, followed by the drop of the same inode; the
arguments of every step are inodes (`Steps`). `LocksHaveSteps` says that whoever holds the lock of an
inode has a step ahead that needs it, and `DownInv` that nobody runs before recovery is over.

- `FsStepProofs` looks at each step of Fs. `Claim(o, i)` is what one step holds of inode `i`, and
  `Claims` adds up a list. A step keeps the rest of `InodeInv` (`Shape`) and is `Balanced`: `ref`
  changes by what the list of its process and the tables come to claim and cease to (`ShapeStep`). Most
  steps only have to say which steps they put in place of the head of the list (`SameStep`: the same
  claims; `GotStep`: one more reference); `open`, `close` and `chdir` move a reference between a list
  and a table.
- `FsCountProofs` counts: `RefExact` speaks of the sizes of four sets of pointers, and a balanced step
  keeps it (`CountStep`), since the sets change at one process, one current directory or one descriptor
  (`HeldStep`, `CwdStep`, `FileStep`).
- `IputNeverBlocks` follows by counting twice: a lock that another process holds is a claim besides
  the one that `iput()` is about to drop, so `ref` would be at least 2 (`LockCounts`).

`FsCountProofs` also proves, for the same constants:

- `CopiesAreCurrent`: `Spec => []CopiesCurrent`, the last conjunct of `LockedInodeLive`.

Every step changes the dinodes of some set and refreshes the copies of that set (`Writes`), or
changes none (`Reads`), or frees one and invalidates its copy.

Only model-checked, and why:

- all liveness (`KernelPathsEnd`, `ScansEnd`, `NoStarvation`): fairness and ENABLED are out of the
  prover's reach;
- `TreeSound`, `BlocksOwned` and the rest of `LockedInodeLive`: that a freed inode is neither
  written nor locked rests on the link counts of the whole tree, and those of a removed
  directory's `..` are not kept, so the argument holds only for calls without `..` in their paths;
  `NoLockCycle` is stated for two processes (with three, a chain of two waits is possible);
- `Vm` and `Intr`: `Vm` folds over pages and program segments, `Intr` flattens sequences into the
  code of a handler, and what a fold returns needs induction over data;
- `Console` with `File`, `ShParse` and `Shell`: `consoleread()`, the parser and the programs are
  RECURSIVE operators. `RestsAtPrompt`, which speaks of the states where no process can go on, is
  an invariant of that run.

## 5. Not modelled

`components` in `PROJECT.json` has the list. `printk.c` and `string.c` have no shared
state; `usertests`, `grind` and the other user programs are clients, present as
nondeterministic calls; `umalloc` is list handling inside one process. Inside the modelled
parts: `procdump` (^P), `fstat`, `getidade`, the line limit of `gets`, the failing `copyout`
of `sys_pipe` (the array is on the stack of the caller), the kernel's own page table, general registers, and block contents beyond what the properties
tell apart.
