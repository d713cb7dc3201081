-------------------------------- MODULE Proc --------------------------------
(***************************************************************************)
(* The process table of the kernel (kernel/proc.c): the per-CPU FCFS       *)
(* scheduler, fork, exit, wait, kill and getppid, interleaved at the grain *)
(* of spin-lock acquisitions.                                              *)
(*                                                                         *)
(* Every thread of control is explicit.  A CPU c either runs scheduler()   *)
(* (cproc[c] = 0; si and first are the locals of its scan) or runs the     *)
(* kernel or user code of the process cproc[c], whose position is          *)
(* pc[cproc[c]].  A spin lock is owned by a CPU, as lk->cpu records in     *)
(* spinlock.c.  A critical section that touches only what its one lock     *)
(* protects is a single step; a lock that stays held from one step to the  *)
(* next appears in plock or waitlock.                                      *)
(***************************************************************************)
EXTENDS Naturals

CONSTANTS
  NPROC,     \* slots of proc[]; the kernel has 64
  CPU,       \* the harts that run scheduler()
  NoCpu,     \* "no owner", lk->cpu == 0
  MaxPid,    \* bound: user programs stop forking once nextpid passes it
  Calls,     \* the system calls user programs issue
  KillPids   \* the arguments user programs pass to kill()

ASSUME NPROCAssumption == NPROC \in Nat \ {0}
ASSUME CPUAssumption == NoCpu \notin CPU
ASSUME KillPidsAssumption == KillPids \subseteq Nat

VARIABLES
  state, pid, parent, chan, killed,  \* fields of struct proc, by slot
  nextpid,
  plock, waitlock,                   \* owners of p->lock and of wait_lock
  cproc, si, first,                  \* per CPU: c->proc, scan index, first_proc
  up,                                \* the CPUs that have entered scheduler()
  pc, idx, widx, tmp, kids           \* per process: place in the kernel, locals

table == <<state, pid, parent, chan, killed, nextpid>>
locks == <<plock, waitlock>>
cpus  == <<cproc, si, first, up>>
local == <<idx, widx, tmp, kids>>
vars  == <<table, locks, cpus, pc, local>>

Slot     == 1 .. NPROC
initproc == 1          \* userinit() runs first, so allocproc() gives it slot 1
NoProc   == 0          \* a null struct proc *
ProcRef  == 0 .. NPROC
ScanIdx  == 1 .. NPROC + 1

ProcState == {"UNUSED", "USED", "SLEEPING", "RUNNABLE", "RUNNING", "ZOMBIE"}

\* Where a process is.  "forkret" and "resume" are saved contexts that swtch()
\* returns to with p->lock held; "dead" is the context of an exited process.
Label == {"forkret", "user", "alloc", "forkParent", "forkReady",
          "exitLock", "reparent", "wakeInit", "wakeParent", "exitZombie",
          "zombieSched", "dead", "waitLock", "waitScan", "waitDecide",
          "waitSleep", "sleepSched", "resume", "kill", "getppid"}

On(c, p) == cproc[c] = p

(***************************************************************************)
(* userinit() has made init RUNNABLE and the CPU that set the kernel up has *)
(* entered scheduler().                                                    *)
(***************************************************************************)
Init ==
  /\ state    = [p \in Slot |-> IF p = initproc THEN "RUNNABLE" ELSE "UNUSED"]
  /\ pid      = [p \in Slot |-> IF p = initproc THEN 1 ELSE 0]
  /\ parent   = [p \in Slot |-> NoProc]
  /\ chan     = [p \in Slot |-> NoProc]
  /\ killed   = [p \in Slot |-> FALSE]
  /\ nextpid  = 2
  /\ plock    = [p \in Slot |-> NoCpu]
  /\ waitlock = NoCpu
  /\ cproc    = [c \in CPU |-> NoProc]
  /\ si       = [c \in CPU |-> 1]
  /\ first    = [c \in CPU |-> NoProc]
  /\ \E c \in CPU : up = {c}
  /\ pc       = [p \in Slot |-> "forkret"]
  /\ idx      = [p \in Slot |-> 1]
  /\ widx     = [p \in Slot |-> 1]
  /\ tmp      = [p \in Slot |-> 0]
  /\ kids     = [p \in Slot |-> FALSE]

-----------------------------------------------------------------------------
(* scheduler(): one round per CPU, holding first_proc->lock while it goes on. *)

\* main(): another hart sees started = 1 and enters scheduler().
Start(c) ==
  /\ c \notin up
  /\ up' = up \cup {c}
  /\ UNCHANGED <<table, locks, cproc, si, first, pc, local>>

\* Mutant of Better: the comparison is the wrong way round.
BetterYoungest(c, s) ==
  /\ state[s] = "RUNNABLE"
  /\ first[c] = NoProc \/ pid[s] > pid[first[c]]

\* Is slot s a better candidate than the one CPU c holds?
Better(c, s) ==
  /\ state[s] = "RUNNABLE"
  /\ first[c] = NoProc \/ pid[s] < pid[first[c]]

\* Examine slot si[c]; keep its lock if it becomes the candidate, and release
\* the lock of the candidate it replaces.
Scan(c) ==
  /\ c \in up
  /\ cproc[c] = NoProc
  /\ si[c] \in Slot
  /\ plock[si[c]] = NoCpu
  /\ IF Better(c, si[c])
       THEN /\ plock' = [p \in Slot |-> IF p = si[c] THEN c
                                        ELSE IF p = first[c] THEN NoCpu ELSE plock[p]]
            /\ first' = [first EXCEPT ![c] = si[c]]
       ELSE UNCHANGED <<plock, first>>
  /\ si' = [si EXCEPT ![c] = @ + 1]
  /\ UNCHANGED <<table, waitlock, cproc, up, pc, local>>

\* The scan found first_proc: mark it RUNNING and swtch() to its context.
Dispatch(c) ==
  /\ cproc[c] = NoProc
  /\ si[c] = NPROC + 1
  /\ first[c] # NoProc
  /\ state' = [state EXCEPT ![first[c]] = "RUNNING"]
  /\ cproc' = [cproc EXCEPT ![c] = first[c]]
  /\ first' = [first EXCEPT ![c] = NoProc]
  /\ si' = [si EXCEPT ![c] = 1]
  /\ UNCHANGED <<pid, parent, chan, killed, nextpid, locks, up, pc, local>>

\* Nothing to run: wfi, then the next round.
Idle(c) ==
  /\ cproc[c] = NoProc
  /\ si[c] = NPROC + 1
  /\ first[c] = NoProc
  /\ si' = [si EXCEPT ![c] = 1]
  /\ UNCHANGED <<table, locks, cproc, first, up, pc, local>>

\* sched(): the process saves its context and swtch()es to the scheduler of its
\* CPU, which clears c->proc and releases the lock the process acquired.
Swtch(c, p) ==
  /\ On(c, p)
  /\ pc[p] \in {"sleepSched", "zombieSched"}
  /\ pc' = [pc EXCEPT ![p] = IF @ = "sleepSched" THEN "resume" ELSE "dead"]
  /\ cproc' = [cproc EXCEPT ![c] = NoProc]
  /\ plock' = [plock EXCEPT ![p] = NoCpu]
  /\ UNCHANGED <<table, waitlock, si, first, up, local>>

-----------------------------------------------------------------------------
(* Control-flow helpers.                                                     *)

Goto(p, l) == pc' = [pc EXCEPT ![p] = l]

\* Leave the kernel: the locals of the call are dead.
Return(p) ==
  /\ Goto(p, "user")
  /\ idx'  = [idx EXCEPT ![p] = 1]
  /\ widx' = [widx EXCEPT ![p] = 1]
  /\ tmp'  = [tmp EXCEPT ![p] = 0]
  /\ kids' = [kids EXCEPT ![p] = FALSE]

\* A loop over proc[] goes on to the next slot, or ends and the call returns.
NextSlotOrReturn(p) ==
  \/ /\ idx[p] < NPROC
     /\ idx' = [idx EXCEPT ![p] = @ + 1]
     /\ UNCHANGED <<pc, widx, tmp, kids>>
  \/ /\ idx[p] = NPROC
     /\ Return(p)

\* Mutant of FreeProc: p->killed survives.
FreeProcKeepsKilled(s) ==
  /\ pid'    = [pid EXCEPT ![s] = 0]
  /\ parent' = [parent EXCEPT ![s] = NoProc]
  /\ chan'   = [chan EXCEPT ![s] = NoProc]
  /\ state'  = [state EXCEPT ![s] = "UNUSED"]
  /\ UNCHANGED killed

\* freeproc(s): the slot returns to its initial contents.
FreeProc(s) ==
  /\ pid'    = [pid EXCEPT ![s] = 0]
  /\ parent' = [parent EXCEPT ![s] = NoProc]
  /\ chan'   = [chan EXCEPT ![s] = NoProc]
  /\ killed' = [killed EXCEPT ![s] = FALSE]
  /\ state'  = [state EXCEPT ![s] = "UNUSED"]

\* Mutant of Forkret: the lock the scheduler acquired is never released.
ForkretKeepsLock(c, p) ==
  /\ On(c, p)
  /\ pc[p] = "forkret"
  /\ Goto(p, "user")
  /\ UNCHANGED <<table, locks, cpus, local>>

\* A forked child's first steps: forkret() releases the lock the scheduler held.
Forkret(c, p) ==
  /\ On(c, p)
  /\ pc[p] = "forkret"
  /\ plock' = [plock EXCEPT ![p] = NoCpu]
  /\ Goto(p, "user")
  /\ UNCHANGED <<table, waitlock, cpus, local>>

\* usertrap() enters a system call: killed() takes p->lock for a moment.
Enters(c, p, call) ==
  /\ On(c, p)
  /\ pc[p] = "user"
  /\ call \in Calls
  /\ plock[p] = NoCpu
  /\ ~killed[p]

-----------------------------------------------------------------------------
(* fork                                                                      *)

CallFork(c, p) ==
  /\ Enters(c, p, "fork")
  /\ nextpid <= MaxPid
  /\ Goto(p, "alloc")
  /\ UNCHANGED <<table, locks, cpus, local>>

\* allocproc() looks at slot idx[p] under its lock and passes over it.
AllocNext(c, p) ==
  /\ On(c, p)
  /\ pc[p] = "alloc"
  /\ plock[idx[p]] = NoCpu
  /\ state[idx[p]] # "UNUSED"
  /\ NextSlotOrReturn(p)
  /\ UNCHANGED <<table, locks, cpus>>

\* The slot is UNUSED: the rest of allocproc() and kfork()'s copying of p run
\* under its lock.
AllocTake(c, p) ==
  LET s == idx[p] IN
  /\ On(c, p)
  /\ pc[p] = "alloc"
  /\ plock[s] = NoCpu
  /\ state[s] = "UNUSED"
  /\ state' = [state EXCEPT ![s] = "USED"]
  /\ pid' = [pid EXCEPT ![s] = nextpid]
  /\ nextpid' = nextpid + 1
  /\ pc' = [pc EXCEPT ![p] = "forkParent", ![s] = "forkret"]
  /\ tmp' = [tmp EXCEPT ![p] = s]
  /\ idx' = [idx EXCEPT ![p] = 1]
  /\ UNCHANGED <<parent, chan, killed, locks, cpus, widx, kids>>

\* As AllocTake, but a page allocation fails on the way and freeproc() empties
\* the slot again; the pid is spent.
AllocFail(c, p) ==
  LET s == idx[p] IN
  /\ On(c, p)
  /\ pc[p] = "alloc"
  /\ plock[s] = NoCpu
  /\ state[s] = "UNUSED"
  /\ nextpid' = nextpid + 1
  /\ FreeProc(s)
  /\ Return(p)
  /\ UNCHANGED <<locks, cpus>>

\* np->parent = p, under wait_lock.
ForkParent(c, p) ==
  /\ On(c, p)
  /\ pc[p] = "forkParent"
  /\ waitlock = NoCpu
  /\ parent' = [parent EXCEPT ![tmp[p]] = p]
  /\ Goto(p, "forkReady")
  /\ UNCHANGED <<state, pid, chan, killed, nextpid, locks, cpus, local>>

\* np->state = RUNNABLE, under np->lock.
ForkReady(c, p) ==
  /\ On(c, p)
  /\ pc[p] = "forkReady"
  /\ plock[tmp[p]] = NoCpu
  /\ state' = [state EXCEPT ![tmp[p]] = "RUNNABLE"]
  /\ Return(p)
  /\ UNCHANGED <<pid, parent, chan, killed, nextpid, locks, cpus>>

-----------------------------------------------------------------------------
(* wakeup(ch) run by p: slot by slot, skipping p itself.                     *)

WakeSlot(p, ch) ==
  LET w == widx[p] IN
  \/ /\ w = p
     /\ UNCHANGED state
  \/ /\ w # p
     /\ plock[w] = NoCpu
     /\ state' = IF state[w] = "SLEEPING" /\ chan[w] = ch
                   THEN [state EXCEPT ![w] = "RUNNABLE"]
                   ELSE state

-----------------------------------------------------------------------------
(* exit                                                                      *)

\* exit() called by the program.  Closing files and dropping the working
\* directory come first and touch no state of this module.
CallExit(c, p) ==
  /\ Enters(c, p, "exit")
  /\ p # initproc
  /\ Goto(p, "exitLock")
  /\ UNCHANGED <<table, locks, cpus, local>>

\* A trap (system call, timer tick, fault) finds p->killed set: kexit(-1).
TrapKilled(c, p) ==
  /\ On(c, p)
  /\ pc[p] = "user"
  /\ plock[p] = NoCpu
  /\ killed[p]
  /\ p # initproc
  /\ Goto(p, "exitLock")
  /\ UNCHANGED <<table, locks, cpus, local>>

ExitLock(c, p) ==
  /\ On(c, p)
  /\ pc[p] = "exitLock"
  /\ waitlock = NoCpu
  /\ waitlock' = c
  /\ Goto(p, "reparent")
  /\ UNCHANGED <<table, plock, cpus, local>>

\* Mutant of NextChild: the last slot is never examined.
NextChildStopsShort(p) ==
  \/ /\ idx[p] < NPROC - 1
     /\ idx' = [idx EXCEPT ![p] = @ + 1]
     /\ Goto(p, "reparent")
  \/ /\ idx[p] >= NPROC - 1
     /\ idx' = [idx EXCEPT ![p] = 1]
     /\ Goto(p, "wakeParent")

\* Advance reparent()'s loop past slot idx[p].
NextChild(p) ==
  \/ /\ idx[p] < NPROC
     /\ idx' = [idx EXCEPT ![p] = @ + 1]
     /\ Goto(p, "reparent")
  \/ /\ idx[p] = NPROC
     /\ idx' = [idx EXCEPT ![p] = 1]
     /\ Goto(p, "wakeParent")

\* reparent() looks at slot idx[p]; wait_lock is held.
Reparent(c, p) ==
  /\ On(c, p)
  /\ pc[p] = "reparent"
  /\ \/ /\ parent[idx[p]] = p
        /\ parent' = [parent EXCEPT ![idx[p]] = initproc]
        /\ Goto(p, "wakeInit")
        /\ UNCHANGED idx
     \/ /\ parent[idx[p]] # p
        /\ NextChild(p)
        /\ UNCHANGED parent
  /\ UNCHANGED <<state, pid, chan, killed, nextpid, locks, cpus, widx, tmp, kids>>

\* wakeup(initproc), inside reparent()'s loop.
WakeInit(c, p) ==
  /\ On(c, p)
  /\ pc[p] = "wakeInit"
  /\ WakeSlot(p, initproc)
  /\ \/ /\ widx[p] < NPROC
        /\ widx' = [widx EXCEPT ![p] = @ + 1]
        /\ UNCHANGED <<pc, idx>>
     \/ /\ widx[p] = NPROC
        /\ widx' = [widx EXCEPT ![p] = 1]
        /\ NextChild(p)
  /\ UNCHANGED <<pid, parent, chan, killed, nextpid, locks, cpus, tmp, kids>>

\* wakeup(p->parent).
WakeParent(c, p) ==
  /\ On(c, p)
  /\ pc[p] = "wakeParent"
  /\ WakeSlot(p, parent[p])
  /\ \/ /\ widx[p] < NPROC
        /\ widx' = [widx EXCEPT ![p] = @ + 1]
        /\ UNCHANGED pc
     \/ /\ widx[p] = NPROC
        /\ widx' = [widx EXCEPT ![p] = 1]
        /\ Goto(p, "exitZombie")
  /\ UNCHANGED <<pid, parent, chan, killed, nextpid, locks, cpus, idx, tmp, kids>>

\* acquire(&p->lock), p->state = ZOMBIE, release(&wait_lock); sched() follows.
ExitZombie(c, p) ==
  /\ On(c, p)
  /\ pc[p] = "exitZombie"
  /\ plock[p] = NoCpu
  /\ plock' = [plock EXCEPT ![p] = c]
  /\ state' = [state EXCEPT ![p] = "ZOMBIE"]
  /\ waitlock' = NoCpu
  /\ Goto(p, "zombieSched")
  /\ UNCHANGED <<pid, parent, chan, killed, nextpid, cpus, local>>

-----------------------------------------------------------------------------
(* wait                                                                      *)

CallWait(c, p) ==
  /\ Enters(c, p, "wait")
  /\ Goto(p, "waitLock")
  /\ UNCHANGED <<table, locks, cpus, local>>

\* acquire(&wait_lock), on entry and when sleep() returns.
WaitLock(c, p) ==
  /\ On(c, p)
  /\ pc[p] = "waitLock"
  /\ waitlock = NoCpu
  /\ waitlock' = c
  /\ Goto(p, "waitScan")
  /\ UNCHANGED <<table, plock, cpus, local>>

\* Is slot s a child of p?  A child is examined under its own lock.
IsChild(p, s) == parent[s] = p /\ plock[s] = NoCpu

\* The scan meets a ZOMBIE child: free it and return its pid.
WaitReap(c, p) ==
  /\ On(c, p)
  /\ pc[p] = "waitScan"
  /\ IsChild(p, idx[p])
  /\ state[idx[p]] = "ZOMBIE"
  /\ FreeProc(idx[p])
  /\ waitlock' = NoCpu
  /\ Return(p)
  /\ UNCHANGED <<nextpid, plock, cpus>>

\* As WaitReap, but the status cannot be copied out: return -1, keep the child.
WaitNoCopy(c, p) ==
  /\ On(c, p)
  /\ pc[p] = "waitScan"
  /\ IsChild(p, idx[p])
  /\ state[idx[p]] = "ZOMBIE"
  /\ waitlock' = NoCpu
  /\ Return(p)
  /\ UNCHANGED <<table, plock, cpus>>

\* The scan passes over slot idx[p].
WaitScan(c, p) ==
  /\ On(c, p)
  /\ pc[p] = "waitScan"
  /\ \/ /\ parent[idx[p]] # p
        /\ UNCHANGED kids
     \/ /\ IsChild(p, idx[p])
        /\ state[idx[p]] # "ZOMBIE"
        /\ kids' = [kids EXCEPT ![p] = TRUE]
  /\ \/ /\ idx[p] < NPROC
        /\ idx' = [idx EXCEPT ![p] = @ + 1]
        /\ UNCHANGED pc
     \/ /\ idx[p] = NPROC
        /\ idx' = [idx EXCEPT ![p] = 1]
        /\ Goto(p, "waitDecide")
  /\ UNCHANGED <<table, locks, cpus, widx, tmp>>

\* Mutant of WaitGiveUp: returns with wait_lock held.
WaitGiveUpKeepsLock(c, p) ==
  /\ On(c, p)
  /\ pc[p] = "waitDecide"
  /\ ~kids[p] \/ (plock[p] = NoCpu /\ killed[p])
  /\ Return(p)
  /\ UNCHANGED <<table, locks, cpus>>

\* After the scan: no children, or killed, so give up.
WaitGiveUp(c, p) ==
  /\ On(c, p)
  /\ pc[p] = "waitDecide"
  /\ ~kids[p] \/ (plock[p] = NoCpu /\ killed[p])
  /\ waitlock' = NoCpu
  /\ Return(p)
  /\ UNCHANGED <<table, plock, cpus>>

\* Mutant of WaitGoOn: wait_lock is released before p->lock is acquired.
WaitGoOnUnlocked(c, p) ==
  /\ On(c, p)
  /\ pc[p] = "waitDecide"
  /\ kids[p] /\ plock[p] = NoCpu /\ ~killed[p]
  /\ Goto(p, "waitSleep")
  /\ waitlock' = NoCpu
  /\ UNCHANGED <<table, plock, cpus, local>>

\* Otherwise go on to sleep(): killed() has released p->lock before sleep()
\* acquires it.
WaitGoOn(c, p) ==
  /\ On(c, p)
  /\ pc[p] = "waitDecide"
  /\ kids[p] /\ plock[p] = NoCpu /\ ~killed[p]
  /\ Goto(p, "waitSleep")
  /\ UNCHANGED <<table, locks, cpus, local>>

\* Mutants of WaitSleep: p->lock is not held into sched(), or wait_lock is.
WaitSleepUnlocked(c, p) ==
  /\ On(c, p)
  /\ pc[p] = "waitSleep"
  /\ plock[p] = NoCpu
  /\ waitlock' = NoCpu
  /\ chan' = [chan EXCEPT ![p] = p]
  /\ state' = [state EXCEPT ![p] = "SLEEPING"]
  /\ kids' = [kids EXCEPT ![p] = FALSE]
  /\ Goto(p, "sleepSched")
  /\ UNCHANGED <<pid, parent, killed, nextpid, plock, cpus, idx, widx, tmp>>
WaitSleepKeepsLock(c, p) ==
  /\ On(c, p)
  /\ pc[p] = "waitSleep"
  /\ plock[p] = NoCpu
  /\ plock' = [plock EXCEPT ![p] = c]
  /\ chan' = [chan EXCEPT ![p] = p]
  /\ state' = [state EXCEPT ![p] = "SLEEPING"]
  /\ kids' = [kids EXCEPT ![p] = FALSE]
  /\ Goto(p, "sleepSched")
  /\ UNCHANGED <<pid, parent, killed, nextpid, waitlock, cpus, idx, widx, tmp>>

\* sleep(p, &wait_lock) up to sched().
WaitSleep(c, p) ==
  /\ On(c, p)
  /\ pc[p] = "waitSleep"
  /\ plock[p] = NoCpu
  /\ plock' = [plock EXCEPT ![p] = c]
  /\ waitlock' = NoCpu
  /\ chan' = [chan EXCEPT ![p] = p]
  /\ state' = [state EXCEPT ![p] = "SLEEPING"]
  /\ kids' = [kids EXCEPT ![p] = FALSE]
  /\ Goto(p, "sleepSched")
  /\ UNCHANGED <<pid, parent, killed, nextpid, cpus, idx, widx, tmp>>

\* sleep() after sched(): p->chan = 0, release(&p->lock); wait_lock is next.
Resume(c, p) ==
  /\ On(c, p)
  /\ pc[p] = "resume"
  /\ chan' = [chan EXCEPT ![p] = NoProc]
  /\ plock' = [plock EXCEPT ![p] = NoCpu]
  /\ Goto(p, "waitLock")
  /\ UNCHANGED <<state, pid, parent, killed, nextpid, waitlock, cpus, local>>

-----------------------------------------------------------------------------
(* kill and getppid                                                          *)

CallKill(c, p) ==
  /\ Enters(c, p, "kill")
  /\ \E k \in KillPids : tmp' = [tmp EXCEPT ![p] = k]
  /\ Goto(p, "kill")
  /\ UNCHANGED <<table, locks, cpus, idx, widx, kids>>

\* Mutant of KillHit: the victim is not woken.
KillHitNoWake(c, p) ==
  /\ On(c, p)
  /\ pc[p] = "kill"
  /\ plock[idx[p]] = NoCpu
  /\ pid[idx[p]] = tmp[p]
  /\ killed' = [killed EXCEPT ![idx[p]] = TRUE]
  /\ Return(p)
  /\ UNCHANGED <<state, pid, parent, chan, nextpid, locks, cpus>>

\* kkill() finds the pid in slot idx[p], under its lock.
KillHit(c, p) ==
  LET s == idx[p] IN
  /\ On(c, p)
  /\ pc[p] = "kill"
  /\ plock[s] = NoCpu
  /\ pid[s] = tmp[p]
  /\ killed' = [killed EXCEPT ![s] = TRUE]
  /\ state' = IF state[s] = "SLEEPING"
                THEN [state EXCEPT ![s] = "RUNNABLE"] ELSE state
  /\ Return(p)
  /\ UNCHANGED <<pid, parent, chan, nextpid, locks, cpus>>

\* ... or goes on past it.
KillMiss(c, p) ==
  /\ On(c, p)
  /\ pc[p] = "kill"
  /\ plock[idx[p]] = NoCpu
  /\ pid[idx[p]] # tmp[p]
  /\ NextSlotOrReturn(p)
  /\ UNCHANGED <<table, locks, cpus>>

\* sys_getppid() loads p->parent; no lock is held.  A null parent returns 1.
CallGetppid(c, p) ==
  /\ Enters(c, p, "getppid")
  /\ parent[p] # NoProc
  /\ tmp' = [tmp EXCEPT ![p] = parent[p]]
  /\ Goto(p, "getppid")
  /\ UNCHANGED <<table, locks, cpus, idx, widx, kids>>

\* ... and loads ->pid through that pointer, which is the result.
GetppidLoad(c, p) ==
  /\ On(c, p)
  /\ pc[p] = "getppid"
  /\ Return(p)
  /\ UNCHANGED <<table, locks, cpus>>

-----------------------------------------------------------------------------
Scheduler(c) == Scan(c) \/ Dispatch(c) \/ Idle(c)

Process(c, p) ==
  \/ Swtch(c, p) \/ Forkret(c, p)
  \/ CallFork(c, p) \/ AllocNext(c, p) \/ AllocTake(c, p) \/ AllocFail(c, p)
  \/ ForkParent(c, p) \/ ForkReady(c, p)
  \/ CallExit(c, p) \/ TrapKilled(c, p) \/ ExitLock(c, p) \/ Reparent(c, p)
  \/ WakeInit(c, p) \/ WakeParent(c, p) \/ ExitZombie(c, p)
  \/ CallWait(c, p) \/ WaitLock(c, p) \/ WaitReap(c, p) \/ WaitNoCopy(c, p)
  \/ WaitScan(c, p)
  \/ WaitGiveUp(c, p) \/ WaitGoOn(c, p) \/ WaitSleep(c, p) \/ Resume(c, p)
  \/ CallKill(c, p) \/ KillHit(c, p) \/ KillMiss(c, p)
  \/ CallGetppid(c, p) \/ GetppidLoad(c, p)

Next ==
  \E c \in CPU : Start(c) \/ Scheduler(c) \/ \E p \in Slot : Process(c, p)

Spec == Init /\ [][Next]_vars

-----------------------------------------------------------------------------
UpOK == up \subseteq CPU
\* The type invariant; in particular no loop over proc[] runs past its end.
TypeOK ==
  /\ state \in [Slot -> ProcState]
  /\ pid \in [Slot -> Nat]
  /\ parent \in [Slot -> ProcRef]
  /\ chan \in [Slot -> ProcRef]
  /\ killed \in [Slot -> BOOLEAN]
  /\ nextpid \in Nat
  /\ plock \in [Slot -> CPU \cup {NoCpu}]
  /\ waitlock \in CPU \cup {NoCpu}
  /\ cproc \in [CPU -> ProcRef]
  /\ si \in [CPU -> ScanIdx]
  /\ first \in [CPU -> ProcRef]
  /\ UpOK
  /\ pc \in [Slot -> Label]
  /\ idx \in [Slot -> Slot]
  /\ widx \in [Slot -> Slot]
  /\ tmp \in [Slot -> Nat]
  /\ kids \in [Slot -> BOOLEAN]

-----------------------------------------------------------------------------
(* Safety.                                                                   *)

\* No process is on two CPUs at once: from the moment swtch() enters a context
\* until sched() has saved it again, only the CPU that entered it executes on
\* that kernel stack, although p->state changes before the switch and p->lock
\* passes from process to scheduler.
OnOneCpu ==
  \A c, d \in CPU : c # d /\ cproc[c] # NoProc => cproc[c] # cproc[d]

\* Labels at which a process holds wait_lock.
HoldsWaitLock == {"reparent", "wakeInit", "wakeParent", "exitZombie",
                  "waitScan", "waitDecide", "waitSleep"}

\* The slots whose p->lock CPU c acquires in its next step.
Acquires(c) ==
  LET p == cproc[c] IN
  IF p = NoProc THEN {si[c]} \cap Slot
  ELSE {s \in Slot :
         \/ pc[p] \in {"user", "exitZombie", "waitSleep"} /\ s = p
         \/ pc[p] \in {"alloc", "kill"} /\ s = idx[p]
         \/ pc[p] = "forkReady" /\ s = tmp[p]
         \/ pc[p] \in {"wakeInit", "wakeParent"} /\ s = widx[p] /\ s # p
         \/ pc[p] = "waitScan" /\ s = idx[p] /\ parent[s] = p
         \/ pc[p] = "waitDecide" /\ s = p /\ kids[p]}

\* None of the panics of acquire(), release() and sched() can happen: no CPU
\* acquires a spin lock it already owns, every lock a step releases is owned by
\* its CPU, and sched() is entered with p->lock as the only lock and p->state
\* no longer RUNNING.
NoLockPanic ==
  \A c \in CPU :
    LET p == cproc[c] IN
    /\ \A s \in Acquires(c) : plock[s] # c
    /\ first[c] # NoProc => plock[first[c]] = c
    /\ p # NoProc =>
         /\ pc[p] \in {"exitLock", "waitLock", "forkParent"} => waitlock # c
         /\ pc[p] \in HoldsWaitLock => waitlock = c
         /\ pc[p] \in {"forkret", "resume"} => plock[p] = c
         /\ pc[p] \in {"sleepSched", "zombieSched"} =>
              /\ {s \in Slot : plock[s] = c} = {p}
              /\ waitlock # c
              /\ state[p] # "RUNNING"

\* The process tree stays sound: a parent pointer never leads to a free or an
\* exited slot, and a process that can run, or waits to be reaped, has a parent
\* (init excepted), so every zombie has someone who can reap it.
ParentsLive ==
  \A p \in Slot :
    /\ parent[p] # NoProc => state[parent[p]] \in {"SLEEPING", "RUNNABLE", "RUNNING"}
    /\ p # initproc /\ state[p] \notin {"UNUSED", "USED"} => parent[p] # NoProc

\* No exit is missed: while nobody holds wait_lock, a process asleep in wait()
\* has no exited child, whatever the order of exits, reparentings and waits.
NoMissedExit ==
  \A p, q \in Slot :
    ~ /\ waitlock = NoCpu
      /\ state[p] = "SLEEPING"
      /\ parent[q] = p
      /\ state[q] = "ZOMBIE"

\* Only a process can be killed: a free slot carries no kill mark for the next
\* process that allocproc(), which does not clear p->killed, puts there.
KilledIsLive ==
  \A p \in Slot : killed[p] => state[p] # "UNUSED"

\* What getppid() is about to return through the parent pointer it loaded is
\* the pid of a process, never the 0 of a slot freed in between.
GetppidReturnsPid ==
  \A p \in Slot : pc[p] = "getppid" => pid[tmp[p]] # 0

-----------------------------------------------------------------------------
(* What holds as long as one hart runs, which is how the repository's README *)
(* says to run it, and not with two.                                         *)
OneHart == \A c, d \in up : c = d

\* kill() interrupts a sleep: no process stays asleep in wait() with p->killed
\* set ("Wake process from sleep()", kkill).
KillInterruptsWait ==
  OneHart => \A p \in Slot : state[p] = "SLEEPING" => ~killed[p]

\* The process a CPU is about to dispatch has the lowest pid of all RUNNABLE
\* ones ("Encontrar o processo RUNNABLE com o menor PID", scheduler).
LowestPidChosen ==
  OneHart =>
    \A c \in CPU : si[c] = NPROC + 1 /\ first[c] # NoProc =>
      \A q \in Slot : state[q] = "RUNNABLE" => pid[first[c]] <= pid[q]

-----------------------------------------------------------------------------
(* Progress.                                                                 *)

\* A CPU keeps executing kernel code, and one that spins on a lock which is
\* free again and again gets it in the end.  Nothing is assumed of user code.
KernelStep(c) == \E p \in Slot : pc[p] # "user" /\ Process(c, p)

FairSpec ==
  /\ Spec
  /\ \A c \in CPU : SF_vars(Scheduler(c)) /\ SF_vars(KernelStep(c))

\* Every kernel path ends: a process inside fork, exit, wait or kill goes back to
\* user code, or gives up its CPU in sleep() or exit(); no CPU spins for ever on
\* a lock that another one, spinning too, holds.
KernelPathsEnd ==
  \A c \in CPU, p \in Slot :
    On(c, p) ~> (~On(c, p) \/ pc[p] = "user")

\* Every scan of scheduler() ends, although it keeps the lock of its candidate
\* while it acquires the locks of the later slots.
ScansEnd ==
  \A c \in CPU : c \in up ~> (si[c] = NPROC + 1 \/ cproc[c] # NoProc)
=============================================================================
