--------------------------- MODULE ProcTreeProofs ---------------------------
(***************************************************************************)
(* The process tree stays sound and no exit is missed, for any number of   *)
(* slots and CPUs.  Both rest on who holds wait_lock (LockInv) and on how  *)
(* far the loops of reparent(), wakeup() and kwait() have come.  Then kill *)
(* marks, and what holds while one hart runs: kill() interrupts a sleep    *)
(* and the scheduler picks the lowest pid.                                 *)
(***************************************************************************)
EXTENDS ProcProofs

Live == {"SLEEPING", "RUNNABLE", "RUNNING"}
Exiting == {"exitLock", "reparent", "wakeInit", "wakeParent", "exitZombie", "zombieSched"}
Looping == {"alloc", "kill", "reparent", "wakeInit", "waitScan"}
Waking == {"wakeInit", "wakeParent"}

\* The types the proofs below use.
TableTypes ==
  /\ state \in [Slot -> ProcState]
  /\ parent \in [Slot -> ProcRef]
  /\ chan \in [Slot -> ProcRef]
  /\ pc \in [Slot -> Label]
  /\ idx \in [Slot -> Slot]
  /\ widx \in [Slot -> Slot]
  /\ tmp \in [Slot -> Nat]

\* The part of the type invariant that the proofs below use.
LEMMA Types == LockInv => TableTypes
  BY Zenon DEF LockInv, TypeOK, TableTypes

\* At most one process holds wait_lock, and then the lock is taken.
LEMMA OneWaiter ==
  ASSUME LockInv, NEW p \in Slot, pc[p] \in HoldsWaitLock
  PROVE  /\ waitlock # NoCpu
         /\ \A q \in Slot : pc[q] \in HoldsWaitLock => q = p
<1>1. ASSUME NEW q \in Slot, pc[q] \in HoldsWaitLock
      PROVE  \E c \in CPU : cproc[c] = q /\ waitlock = c
  <2>1. PICK c \in CPU : cproc[c] = q
    BY <1>1, Zenon DEF LockInv, OffInv, HoldsWaitLock, Saved
  <2> QED
    BY <1>1, <2>1, Zenon DEF LockInv, OwnerInv
<1> QED
  BY <1>1, CPUAssumption, Zenon

\* A process that executes between entering and leaving the kernel is RUNNING.
LEMMA OnIsRunning ==
  ASSUME LockInv, NEW c \in CPU, NEW p \in Slot, On(c, p), pc[p] \notin Leaving
  PROVE  state[p] = "RUNNING"
  BY Zenon DEF LockInv, RunInv, On

-----------------------------------------------------------------------------
(* The loop variables rest at 1, and a sleeper sleeps on its own slot.       *)

LoopInv ==
  \A r \in Slot :
    /\ pc[r] \notin Waking => widx[r] = 1
    /\ pc[r] \notin Looping => idx[r] = 1
SleepInv == \A r \in Slot : state[r] = "SLEEPING" => chan[r] = r

\* Every step of a process leaves the loop variables so.
LEMMA LoopStep ==
  ASSUME LockInv, LoopInv, NEW c \in CPU, NEW p \in Slot, Process(c, p)
  PROVE  LoopInv'
<1>0. TableTypes
  BY Types, Zenon
<1> USE <1>0 DEF TableTypes, LoopInv, Waking, Looping, Goto, local
<1>1. CASE Swtch(c, p) \/ Forkret(c, p) \/ CallFork(c, p)
  BY <1>1, Zenon DEF Swtch, Forkret, CallFork, Enters
<1>2. CASE AllocNext(c, p) \/ KillMiss(c, p)
  BY <1>2, Zenon DEF AllocNext, KillMiss, NextSlotOrReturn, Return
<1>3. CASE AllocTake(c, p)
  <2>1. idx[p] \in Slot /\ state[idx[p]] = "UNUSED"
    BY <1>3, Zenon DEF AllocTake
  <2>2. pc[idx[p]] \in {"forkret", "resume", "dead"}
    BY <2>1, SMTT(30) DEF LockInv, OffInv, RunInv, Saved
  <2> QED
    BY <1>3, <2>1, <2>2, Zenon DEF AllocTake
<1>4. CASE AllocFail(c, p) \/ ForkReady(c, p) \/ WaitReap(c, p) \/ WaitNoCopy(c, p)
           \/ WaitGiveUp(c, p) \/ KillHit(c, p) \/ GetppidLoad(c, p)
  BY <1>4, Zenon
  DEF AllocFail, ForkReady, WaitReap, WaitNoCopy, WaitGiveUp, KillHit, GetppidLoad, Return
<1>5. CASE ForkParent(c, p) \/ CallExit(c, p) \/ TrapKilled(c, p) \/ ExitLock(c, p)
  BY <1>5, Zenon DEF ForkParent, CallExit, TrapKilled, ExitLock, Enters
<1>6. CASE Reparent(c, p)
  BY <1>6, Zenon DEF Reparent, NextChild
<1>7. CASE WakeInit(c, p)
  BY <1>7, Zenon DEF WakeInit, NextChild
<1>8. CASE WakeParent(c, p)
  BY <1>8, Zenon DEF WakeParent
<1>9. CASE ExitZombie(c, p) \/ CallWait(c, p) \/ WaitLock(c, p)
  BY <1>9, Zenon DEF ExitZombie, CallWait, WaitLock, Enters
<1>10. CASE WaitScan(c, p)
  BY <1>10, Zenon DEF WaitScan
<1>11. CASE WaitGoOn(c, p) \/ WaitSleep(c, p) \/ Resume(c, p)
  BY <1>11, Zenon DEF WaitGoOn, WaitSleep, Resume
<1>12. CASE CallKill(c, p)
  BY <1>12, Zenon DEF CallKill, Enters
<1>13. CASE CallGetppid(c, p)
  BY <1>13, Zenon DEF CallGetppid, Enters
<1> QED
  BY <1>1, <1>2, <1>3, <1>4, <1>5, <1>6, <1>7, <1>8, <1>9, <1>10, <1>11, <1>12, <1>13,
     Zenon
  DEF Process

\* A step that only wakes, dispatches or frees slots keeps SleepInv.
LEMMA SameSleep ==
  ASSUME SleepInv, chan' = chan,
         \A r \in Slot : state'[r] = "SLEEPING" => state[r] = "SLEEPING"
  PROVE  SleepInv'
  BY Zenon DEF SleepInv

\* wakeup() puts nobody to sleep.
LEMMA WakeSlotWakes ==
  ASSUME TableTypes, NEW p \in Slot, NEW ch, WakeSlot(p, ch)
  PROVE  /\ \A r \in Slot : state'[r] # state[r] => state[r] = "SLEEPING" /\ state'[r] = "RUNNABLE"
         /\ widx[p] # p /\ state[widx[p]] = "SLEEPING" /\ chan[widx[p]] = ch
              => state'[widx[p]] = "RUNNABLE"
  BY Zenon DEF TableTypes, WakeSlot

\* Every step of a process keeps the sleepers on their own channels: only
\* kwait() sleeps here, on the caller's own struct proc.
LEMMA SleepStep ==
  ASSUME LockInv, SleepInv, NEW c \in CPU, NEW p \in Slot, Process(c, p)
  PROVE  SleepInv'
<1>0. TableTypes
  BY Types, Zenon
<1> USE <1>0 DEF TableTypes
<1>1. CASE UNCHANGED <<state, chan>>
  BY <1>1, SameSleep, Zenon
<1>2. CASE AllocTake(c, p)
  BY <1>2, SameSleep, Zenon DEF AllocTake
<1>3. CASE AllocFail(c, p) \/ WaitReap(c, p)
  BY <1>3, Zenon DEF AllocFail, WaitReap, FreeProc, SleepInv
<1>4. CASE ForkReady(c, p)
  <2>1. tmp[p] \in Slot
    BY <1>4, Zenon DEF ForkReady, LockInv, ForkInv
  <2> QED
    BY <1>4, <2>1, SameSleep, Zenon DEF ForkReady
<1>5. CASE WakeInit(c, p) \/ WakeParent(c, p)
  <2>1. chan' = chan /\ \E ch : WakeSlot(p, ch)
    BY <1>5, Zenon DEF WakeInit, WakeParent
  <2> QED
    BY <2>1, WakeSlotWakes, SameSleep, Zenon
<1>6. CASE ExitZombie(c, p)
  BY <1>6, SameSleep, Zenon DEF ExitZombie
<1>7. CASE WaitSleep(c, p)
  BY <1>7, Zenon DEF WaitSleep, SleepInv
<1>8. CASE Resume(c, p)
  <2>1. state[p] = "RUNNING"
    BY <1>8, OnIsRunning, Zenon DEF Resume, Leaving
  <2> QED
    BY <1>8, <2>1, Zenon DEF Resume, SleepInv
<1>9. CASE KillHit(c, p)
  BY <1>9, SameSleep, Zenon DEF KillHit
<1>10. CASE Swtch(c, p) \/ Forkret(c, p) \/ CallFork(c, p) \/ AllocNext(c, p) \/ ForkParent(c, p)
            \/ CallExit(c, p) \/ TrapKilled(c, p) \/ ExitLock(c, p) \/ Reparent(c, p)
  BY <1>1, <1>10, Zenon
  DEF Swtch, Forkret, CallFork, AllocNext, ForkParent, CallExit, TrapKilled, ExitLock,
                     Reparent, table
<1>11. CASE CallWait(c, p) \/ WaitLock(c, p) \/ WaitNoCopy(c, p) \/ WaitScan(c, p) \/ WaitGiveUp(c, p)
            \/ WaitGoOn(c, p) \/ CallKill(c, p) \/ KillMiss(c, p) \/ CallGetppid(c, p) \/ GetppidLoad(c, p)
  BY <1>1, <1>11, Zenon
  DEF CallWait, WaitLock, WaitNoCopy, WaitScan, WaitGiveUp, WaitGoOn, CallKill,
                     KillMiss, CallGetppid, GetppidLoad, table
<1> QED
  BY <1>2, <1>3, <1>4, <1>5, <1>6, <1>7, <1>8, <1>9, <1>10, <1>11, Zenon DEF Process

-----------------------------------------------------------------------------
(* The process tree.                                                         *)

\* How far reparent() has come: the children p has already given away.
Gone(p) ==
  /\ pc[p] \in {"wakeParent", "exitZombie"} => \A q \in Slot : parent[q] # p
  /\ pc[p] = "reparent" => \A q \in Slot : q < idx[p] => parent[q] # p
  /\ pc[p] = "wakeInit" => \A q \in Slot : q <= idx[p] => parent[q] # p

\* init never exits, an exiting process is rid of its children before it becomes
\* a zombie, and the child a fork makes RUNNABLE has its parent.
TreeInv ==
  /\ ParentsLive
  /\ state[initproc] \in Live
  /\ \A p \in Slot :
       /\ pc[p] \in Exiting => p # initproc
       /\ Gone(p)
       /\ pc[p] = "forkReady" => parent[tmp[p]] # NoProc

\* What TreeInv reads of the other processes a step of p leaves alone.
Others(p) ==
  \A q \in Slot : q # p => pc'[q] = pc[q] /\ idx'[q] = idx[q] /\ tmp'[q] = tmp[q]

\* Most steps neither touch a parent pointer nor make or end a process.
Quiet(p) ==
  /\ parent' = parent
  /\ \A q \in Slot : state'[q] # state[q] => state[q] \in Live /\ state'[q] \in Live
  /\ Others(p)
  /\ Gone(p)'
  /\ pc'[p] \in Exiting => p # initproc
  /\ pc'[p] # "forkReady"

\* Such a step keeps the tree sound.
LEMMA QuietTree ==
  ASSUME TableTypes, TreeInv, NEW p \in Slot, Quiet(p)
  PROVE  TreeInv'
<1>1. ParentsLive'
  <2>1. ASSUME NEW q \in Slot, parent'[q] # NoProc PROVE state'[parent'[q]] \in Live
    <3>1. parent'[q] = parent[q] /\ parent[q] \in Slot /\ state[parent[q]] \in Live
      BY <2>1, RefFacts, Zenon DEF Quiet, TableTypes, TreeInv, ParentsLive, Live
    <3> QED
      BY <3>1, Zenon DEF Quiet
  <2>2. ASSUME NEW q \in Slot, q # initproc, state'[q] \notin {"UNUSED", "USED"}
        PROVE  parent'[q] # NoProc
    BY <2>2, Zenon DEF Quiet, TreeInv, ParentsLive, Live
  <2> QED
    BY <2>1, <2>2, Zenon DEF ParentsLive, Live
<1>2. state'[initproc] \in Live
  BY SlotFacts, Zenon DEF Quiet, TreeInv
<1>3. ASSUME NEW q \in Slot
      PROVE  /\ pc'[q] \in Exiting => q # initproc
             /\ Gone(q)'
             /\ pc'[q] = "forkReady" => parent'[tmp'[q]] # NoProc
  <2>1. CASE q = p
    BY <2>1, Zenon DEF Quiet
  <2>2. CASE q # p
    BY <2>2, Zenon DEF Quiet, Others, TreeInv, Gone
  <2> QED
    BY <2>1, <2>2, Zenon
<1> QED
  BY <1>1, <1>2, <1>3, SlotFacts, Zenon DEF TreeInv, initproc

\* The steps that are quiet.
Calm(c, p) ==
  \/ Swtch(c, p) \/ Forkret(c, p) \/ CallFork(c, p) \/ AllocNext(c, p)
  \/ CallExit(c, p) \/ TrapKilled(c, p) \/ ExitLock(c, p)
  \/ WakeInit(c, p) \/ WakeParent(c, p)
  \/ CallWait(c, p) \/ WaitLock(c, p) \/ WaitNoCopy(c, p) \/ WaitScan(c, p)
  \/ WaitGiveUp(c, p) \/ WaitGoOn(c, p) \/ WaitSleep(c, p) \/ Resume(c, p)
  \/ CallKill(c, p) \/ KillHit(c, p) \/ KillMiss(c, p)
  \/ CallGetppid(c, p) \/ GetppidLoad(c, p)

\* These steps change no parent and bring no slot to life or to its end.
LEMMA CalmQuiet ==
  ASSUME LockInv, LoopInv, TreeInv, NEW c \in CPU, NEW p \in Slot, Calm(c, p)
  PROVE  Quiet(p)
<1>0. TableTypes
  BY Types, Zenon
<1>a. Gone(p) /\ (pc[p] \in Exiting => p # initproc)
  BY Zenon DEF TreeInv
<1> USE <1>0, <1>a DEF TableTypes, Quiet, Others, Gone, Exiting, Live, Goto, table, local
<1>1. CASE Swtch(c, p)
  BY <1>1, Zenon DEF Swtch
<1>2. CASE Forkret(c, p) \/ CallFork(c, p) \/ CallExit(c, p) \/ TrapKilled(c, p)
  BY <1>2, Zenon DEF Forkret, CallFork, CallExit, TrapKilled
<1>3. CASE AllocNext(c, p) \/ KillMiss(c, p)
  BY <1>3, Zenon DEF AllocNext, KillMiss, NextSlotOrReturn, Return
<1>4. CASE ExitLock(c, p)
  <2>1. idx[p] = 1 /\ pc[p] = "exitLock"
    BY <1>4, Zenon DEF ExitLock, LoopInv, Looping
  <2>2. \A q \in Slot : ~(q < 1)
    BY SMTT(30) DEF Slot
  <2> QED
    BY <1>4, <2>1, <2>2, Zenon DEF ExitLock
<1>5. CASE WakeInit(c, p)
  <2>1. \A r \in Slot : state'[r] # state[r] => state[r] = "SLEEPING" /\ state'[r] = "RUNNABLE"
    BY <1>5, WakeSlotWakes, Zenon DEF WakeInit
  <2>2. parent' = parent /\ tmp' = tmp /\ pc[p] = "wakeInit"
    BY <1>5, Zenon DEF WakeInit
  <2>3. CASE UNCHANGED <<pc, idx>>
    BY <2>1, <2>2, <2>3, Zenon
  <2>4. CASE NextChild(p)
    <3>1. idx[p] \in Slot /\ \A q \in Slot : q < idx[p] + 1 => q <= idx[p]
      BY SMTT(30) DEF Slot
    <3>2. idx[p] = NPROC => \A q \in Slot : q <= idx[p]
      BY SMTT(30) DEF Slot
    <3> QED
      BY <2>1, <2>2, <2>4, <3>1, <3>2, Zenon DEF NextChild
  <2> QED
    BY <1>5, <2>3, <2>4, Zenon DEF WakeInit
<1>6. CASE WakeParent(c, p)
  <2>1. \A r \in Slot : state'[r] # state[r] => state[r] = "SLEEPING" /\ state'[r] = "RUNNABLE"
    BY <1>6, WakeSlotWakes, Zenon DEF WakeParent
  <2> QED
    BY <1>6, <2>1, Zenon DEF WakeParent
<1>7. CASE CallWait(c, p) \/ WaitLock(c, p) \/ WaitGoOn(c, p) \/ CallKill(c, p) \/ CallGetppid(c, p)
  BY <1>7, Zenon DEF CallWait, WaitLock, WaitGoOn, CallKill, CallGetppid
<1>8. CASE WaitNoCopy(c, p) \/ WaitGiveUp(c, p) \/ GetppidLoad(c, p)
  BY <1>8, Zenon DEF WaitNoCopy, WaitGiveUp, GetppidLoad, Return
<1>9. CASE WaitScan(c, p)
  BY <1>9, Zenon DEF WaitScan
<1>10. CASE WaitSleep(c, p)
  <2>1. state[p] = "RUNNING"
    BY <1>10, OnIsRunning, Zenon DEF WaitSleep, Leaving
  <2> QED
    BY <1>10, <2>1, Zenon DEF WaitSleep
<1>11. CASE Resume(c, p)
  BY <1>11, Zenon DEF Resume
<1>12. CASE KillHit(c, p)
  BY <1>12, Zenon DEF KillHit, Return
<1> QED
  BY <1>1, <1>2, <1>3, <1>4, <1>5, <1>6, <1>7, <1>8, <1>9, <1>10, <1>11, <1>12, Zenon
  DEF Calm

\* allocproc() takes a free slot, which is nobody's parent.
LEMMA AllocTakeTree ==
  ASSUME LockInv, TreeInv, NEW c \in CPU, NEW p \in Slot, AllocTake(c, p)
  PROVE  TreeInv'
<1> DEFINE s == idx[p]
<1>0. TableTypes /\ s \in Slot
  BY Types, Zenon DEF TableTypes
<1>1. state[p] = "RUNNING" /\ state[s] = "UNUSED" /\ p # s
  BY OnIsRunning, Zenon DEF AllocTake, Leaving
<1>2. /\ parent' = parent
      /\ state'[s] = "USED" /\ \A q \in Slot : q # s => state'[q] = state[q]
      /\ pc'[p] = "forkParent" /\ pc'[s] = "forkret"
      /\ \A q \in Slot : q # s /\ q # p => pc'[q] = pc[q] /\ idx'[q] = idx[q] /\ tmp'[q] = tmp[q]
  BY <1>0, <1>1, Zenon DEF AllocTake, TableTypes
<1>3. ParentsLive'
  <2>1. ASSUME NEW q \in Slot, parent'[q] # NoProc PROVE state'[parent'[q]] \in Live
    <3>1. parent'[q] = parent[q] /\ parent[q] \in Slot /\ state[parent[q]] \in Live
      BY <1>0, <1>2, <2>1, RefFacts, Zenon DEF TableTypes, TreeInv, ParentsLive, Live
    <3> QED
      BY <1>1, <1>2, <3>1, Zenon DEF Live
  <2>2. ASSUME NEW q \in Slot, q # initproc, state'[q] \notin {"UNUSED", "USED"}
        PROVE  parent'[q] # NoProc
    BY <1>2, <2>2, Zenon DEF TreeInv, ParentsLive
  <2> QED
    BY <2>1, <2>2, Zenon DEF ParentsLive, Live
<1>4. state'[initproc] \in Live
  BY <1>1, <1>2, SlotFacts, Zenon DEF TreeInv, Live
<1>5. ASSUME NEW q \in Slot
      PROVE  /\ pc'[q] \in Exiting => q # initproc
             /\ Gone(q)'
             /\ pc'[q] = "forkReady" => parent'[tmp'[q]] # NoProc
  <2>1. CASE q = p \/ q = s
    BY <1>2, <2>1, Zenon DEF Exiting, Gone
  <2>2. CASE q # p /\ q # s
    BY <1>2, <2>2, Zenon DEF TreeInv, Gone
  <2> QED
    BY <2>1, <2>2, Zenon
<1> QED
  BY <1>3, <1>4, <1>5, Zenon DEF TreeInv, initproc

\* freeproc() frees a slot that is nobody's parent and no fork is filling.
LEMMA FreeTree ==
  ASSUME LockInv, TreeInv, NEW p \in Slot, NEW s \in Slot,
         state[s] \in {"UNUSED", "ZOMBIE"}, FreeProc(s), Return(p)
  PROVE  TreeInv'
<1>0. TableTypes
  BY Types, Zenon
<1>1. /\ parent'[s] = NoProc /\ \A q \in Slot : q # s => parent'[q] = parent[q]
      /\ state'[s] = "UNUSED" /\ \A q \in Slot : q # s => state'[q] = state[q]
      /\ pc'[p] = "user" /\ Others(p)
  BY <1>0, Zenon DEF TableTypes, FreeProc, Return, Goto, Others
<1>2. ParentsLive'
  <2>1. ASSUME NEW q \in Slot, parent'[q] # NoProc PROVE state'[parent'[q]] \in Live
    <3>1. parent'[q] = parent[q] /\ parent[q] \in Slot /\ state[parent[q]] \in Live
      BY <1>0, <1>1, <2>1, RefFacts, Zenon DEF TableTypes, TreeInv, ParentsLive, Live
    <3> QED
      BY <1>1, <3>1, Zenon DEF Live
  <2>2. ASSUME NEW q \in Slot, q # initproc, state'[q] \notin {"UNUSED", "USED"}
        PROVE  parent'[q] # NoProc
    BY <1>1, <2>2, Zenon DEF TreeInv, ParentsLive
  <2> QED
    BY <2>1, <2>2, Zenon DEF ParentsLive, Live
<1>3. state'[initproc] \in Live
  BY <1>1, SlotFacts, Zenon DEF TreeInv, Live
<1>4. ASSUME NEW q \in Slot
      PROVE  /\ pc'[q] \in Exiting => q # initproc
             /\ Gone(q)'
             /\ pc'[q] = "forkReady" => parent'[tmp'[q]] # NoProc
  <2>1. CASE q = p
    BY <1>1, <2>1, Zenon DEF Exiting, Gone
  <2>2. CASE q # p
    <3>1. pc'[q] = pc[q] /\ idx'[q] = idx[q] /\ tmp'[q] = tmp[q]
      BY <1>1, <2>2, Zenon DEF Others
    <3>2. \A r \in Slot : parent[r] # q => parent'[r] # q
      BY <1>1, RefFacts, Zenon
    <3>3. pc[q] = "forkReady" => tmp[q] \in Slot /\ tmp[q] # s
      BY Zenon DEF LockInv, ForkInv
    <3> QED
      BY <1>1, <3>1, <3>2, <3>3, SMTT(30) DEF TreeInv, Gone
  <2> QED
    BY <2>1, <2>2, Zenon
<1> QED
  BY <1>2, <1>3, <1>4, Zenon DEF TreeInv, initproc

\* The forking process, which is RUNNING, becomes the parent of the new one.
LEMMA ForkParentTree ==
  ASSUME LockInv, TreeInv, NEW c \in CPU, NEW p \in Slot, ForkParent(c, p)
  PROVE  TreeInv'
<1> DEFINE s == tmp[p]
<1>0. TableTypes /\ s \in Slot
  BY Types, Zenon DEF ForkParent, LockInv, ForkInv
<1>1. state[p] = "RUNNING"
  BY OnIsRunning, Zenon DEF ForkParent, Leaving
<1>2. /\ parent'[s] = p /\ \A q \in Slot : q # s => parent'[q] = parent[q]
      /\ state' = state
      /\ pc'[p] = "forkReady" /\ tmp'[p] = s /\ Others(p)
  BY <1>0, Zenon DEF TableTypes, ForkParent, Goto, Others, local
<1>3. ParentsLive'
  BY <1>1, <1>2, RefFacts, Zenon DEF TreeInv, ParentsLive
<1>4. ASSUME NEW q \in Slot
      PROVE  /\ pc'[q] \in Exiting => q # initproc
             /\ Gone(q)'
             /\ pc'[q] = "forkReady" => parent'[tmp'[q]] # NoProc
  <2>1. CASE q = p
    BY <1>2, <2>1, RefFacts, Zenon DEF Exiting, Gone
  <2>2. CASE q # p
    <3>1. pc'[q] = pc[q] /\ idx'[q] = idx[q] /\ tmp'[q] = tmp[q]
      BY <1>2, <2>2, Zenon DEF Others
    <3>2. \A r \in Slot : parent[r] # q => parent'[r] # q
      BY <1>2, <2>2, Zenon
    <3>3. pc[q] = "forkReady" => tmp[q] \in Slot
      BY Zenon DEF LockInv, ForkInv
    <3> QED
      BY <1>2, <3>1, <3>2, <3>3, RefFacts, SMTT(30) DEF TreeInv, Gone
  <2> QED
    BY <2>1, <2>2, Zenon
<1> QED
  BY <1>2, <1>3, <1>4, Zenon DEF TreeInv, initproc

\* The child that becomes RUNNABLE has its parent.
LEMMA ForkReadyTree ==
  ASSUME LockInv, TreeInv, NEW c \in CPU, NEW p \in Slot, ForkReady(c, p)
  PROVE  TreeInv'
<1> DEFINE s == tmp[p]
<1>0. TableTypes /\ s \in Slot /\ state[s] = "USED" /\ parent[s] # NoProc
  BY Types, Zenon DEF ForkReady, LockInv, ForkInv, TreeInv
<1>1. /\ parent' = parent
      /\ state'[s] = "RUNNABLE" /\ \A q \in Slot : q # s => state'[q] = state[q]
      /\ pc'[p] = "user" /\ Others(p)
  BY <1>0, Zenon DEF TableTypes, ForkReady, Return, Goto, Others
<1>2. ParentsLive'
  <2>1. ASSUME NEW q \in Slot, parent'[q] # NoProc PROVE state'[parent'[q]] \in Live
    <3>1. parent'[q] = parent[q] /\ parent[q] \in Slot /\ state[parent[q]] \in Live
      BY <1>0, <1>1, <2>1, RefFacts, Zenon DEF TableTypes, TreeInv, ParentsLive, Live
    <3> QED
      BY <1>1, <3>1, Zenon DEF Live
  <2>2. ASSUME NEW q \in Slot, q # initproc, state'[q] \notin {"UNUSED", "USED"}
        PROVE  parent'[q] # NoProc
    BY <1>0, <1>1, <2>2, Zenon DEF TreeInv, ParentsLive
  <2> QED
    BY <2>1, <2>2, Zenon DEF ParentsLive, Live
<1>3. state'[initproc] \in Live
  BY <1>1, SlotFacts, Zenon DEF TreeInv, Live
<1>4. ASSUME NEW q \in Slot
      PROVE  /\ pc'[q] \in Exiting => q # initproc
             /\ Gone(q)'
             /\ pc'[q] = "forkReady" => parent'[tmp'[q]] # NoProc
  <2>1. CASE q = p
    BY <1>1, <2>1, Zenon DEF Exiting, Gone
  <2>2. CASE q # p
    BY <1>1, <2>2, Zenon DEF Others, TreeInv, Gone
  <2> QED
    BY <2>1, <2>2, Zenon
<1> QED
  BY <1>2, <1>3, <1>4, Zenon DEF TreeInv, initproc

\* reparent() hands a child over to init, which lives and is not p itself; or
\* passes over a slot.
LEMMA ReparentTree ==
  ASSUME LockInv, TreeInv, NEW c \in CPU, NEW p \in Slot, Reparent(c, p)
  PROVE  TreeInv'
<1> DEFINE s == idx[p]
<1>0. TableTypes /\ s \in Slot
  BY Types, Zenon DEF TableTypes
<1>1. /\ pc[p] = "reparent" /\ p # initproc /\ state' = state /\ tmp' = tmp
      /\ \A q \in Slot : q < s => parent[q] # p
  BY Zenon DEF Reparent, TreeInv, Exiting, Gone
<1>2. CASE parent[s] = p /\ parent' = [parent EXCEPT ![s] = initproc]
           /\ Goto(p, "wakeInit") /\ UNCHANGED idx
  <2>1. /\ parent'[s] = initproc /\ \A q \in Slot : q # s => parent'[q] = parent[q]
        /\ pc'[p] = "wakeInit" /\ Others(p)
    BY <1>0, <1>1, <1>2, Zenon DEF TableTypes, Goto, Others
  <2>2. ParentsLive'
    BY <1>1, <2>1, SlotFacts, Zenon DEF TreeInv, ParentsLive, Live
  <2>3. ASSUME NEW q \in Slot
        PROVE  /\ pc'[q] \in Exiting => q # initproc
               /\ Gone(q)'
               /\ pc'[q] = "forkReady" => parent'[tmp'[q]] # NoProc
    <3>1. CASE q = p
      <4>1. \A r \in Slot : r <= s => r < s \/ r = s
        BY <1>0, SMTT(30) DEF Slot
      <4> QED
        BY <1>1, <1>2, <2>1, <3>1, <4>1, Zenon DEF Gone
    <3>2. CASE q # p
      <4>1. pc'[q] = pc[q] /\ idx'[q] = idx[q] /\ tmp'[q] = tmp[q]
        BY <2>1, <3>2, Zenon DEF Others
      <4>2. pc[q] \notin {"reparent", "wakeInit", "wakeParent", "exitZombie"}
        BY <1>1, <3>2, OneWaiter, Zenon DEF HoldsWaitLock
      <4>3. pc[q] = "forkReady" => tmp[q] \in Slot
        BY Zenon DEF LockInv, ForkInv
      <4> QED
        BY <2>1, <4>1, <4>2, <4>3, RefFacts, SMTT(30) DEF TreeInv, Gone, initproc, NoProc
    <3> QED
      BY <3>1, <3>2, Zenon
  <2> QED
    BY <1>1, <2>2, <2>3, Zenon DEF TreeInv, initproc
<1>3. CASE parent[s] # p /\ NextChild(p) /\ UNCHANGED parent
  <2>1. /\ \A q \in Slot : q < s + 1 => q < s \/ q = s
        /\ s = NPROC => \A q \in Slot : q < s \/ q = s
    BY <1>0, SMTT(30) DEF Slot
  <2>2. Quiet(p)
    BY <1>0, <1>1, <1>3, <2>1, SMTT(30)
    DEF TableTypes, Quiet, Others, Gone, Exiting, NextChild, Goto
  <2> QED
    BY <1>0, <2>2, QuietTree, Zenon
<1> QED
  BY <1>2, <1>3, Zenon DEF Reparent

\* A process that becomes a zombie is nobody's parent any more.
LEMMA ExitZombieTree ==
  ASSUME LockInv, TreeInv, NEW c \in CPU, NEW p \in Slot, ExitZombie(c, p)
  PROVE  TreeInv'
<1>0. TableTypes
  BY Types, Zenon
<1>1. /\ state[p] = "RUNNING" /\ p # initproc
      /\ \A q \in Slot : parent[q] # p
  BY OnIsRunning, Zenon DEF ExitZombie, Leaving, TreeInv, Exiting, Gone
<1>2. /\ parent' = parent
      /\ state'[p] = "ZOMBIE" /\ \A q \in Slot : q # p => state'[q] = state[q]
      /\ pc'[p] = "zombieSched" /\ Others(p)
  BY <1>0, Zenon DEF TableTypes, ExitZombie, Goto, Others, local
<1>3. ParentsLive'
  <2>1. ASSUME NEW q \in Slot, parent'[q] # NoProc PROVE state'[parent'[q]] \in Live
    <3>1. parent'[q] = parent[q] /\ parent[q] \in Slot /\ state[parent[q]] \in Live
      BY <1>0, <1>2, <2>1, RefFacts, Zenon DEF TableTypes, TreeInv, ParentsLive, Live
    <3> QED
      BY <1>1, <1>2, <3>1, Zenon
  <2>2. ASSUME NEW q \in Slot, q # initproc, state'[q] \notin {"UNUSED", "USED"}
        PROVE  parent'[q] # NoProc
    BY <1>1, <1>2, <2>2, Zenon DEF TreeInv, ParentsLive
  <2> QED
    BY <2>1, <2>2, Zenon DEF ParentsLive, Live
<1>4. state'[initproc] \in Live
  BY <1>1, <1>2, SlotFacts, Zenon DEF TreeInv
<1>5. ASSUME NEW q \in Slot
      PROVE  /\ pc'[q] \in Exiting => q # initproc
             /\ Gone(q)'
             /\ pc'[q] = "forkReady" => parent'[tmp'[q]] # NoProc
  <2>1. CASE q = p
    BY <1>1, <1>2, <2>1, Zenon DEF Exiting, Gone
  <2>2. CASE q # p
    BY <1>2, <2>2, Zenon DEF Others, TreeInv, Gone
  <2> QED
    BY <2>1, <2>2, Zenon
<1> QED
  BY <1>3, <1>4, <1>5, Zenon DEF TreeInv, initproc

\* Every step of a process keeps the tree sound.
LEMMA TreeStep ==
  ASSUME LockInv, LoopInv, TreeInv, NEW c \in CPU, NEW p \in Slot, Process(c, p)
  PROVE  TreeInv'
<1>0. TableTypes
  BY Types, Zenon
<1>1. CASE Calm(c, p)
  <2>1. Quiet(p)
    BY <1>1, CalmQuiet, Zenon
  <2> QED
    BY <1>0, <2>1, QuietTree, Zenon
<1>2. CASE AllocFail(c, p)
  <2>1. idx[p] \in Slot /\ state[idx[p]] \in {"UNUSED", "ZOMBIE"} /\ FreeProc(idx[p]) /\ Return(p)
    BY <1>0, <1>2, Zenon DEF AllocFail, TableTypes
  <2> QED
    BY <2>1, FreeTree, Zenon
<1>3. CASE WaitReap(c, p)
  <2>1. idx[p] \in Slot /\ state[idx[p]] \in {"UNUSED", "ZOMBIE"} /\ FreeProc(idx[p]) /\ Return(p)
    BY <1>0, <1>3, Zenon DEF WaitReap, TableTypes
  <2> QED
    BY <2>1, FreeTree, Zenon
<1> QED
  BY <1>1, <1>2, <1>3, AllocTakeTree, ForkParentTree, ForkReadyTree, ReparentTree,
     ExitZombieTree, Zenon
  DEF Process, Calm

\* Dispatching a process, RUNNABLE before and RUNNING after, changes nothing here.
LEMMA SchedulerKeeps ==
  ASSUME LockInv, NEW c \in CPU, Start(c) \/ Scheduler(c)
  PROVE  /\ UNCHANGED <<parent, chan, pc, idx, widx, tmp, waitlock>>
         /\ \A q \in Slot : state'[q] # state[q] => state[q] = "RUNNABLE" /\ state'[q] = "RUNNING"
<1>0. TableTypes
  BY Types, Zenon
<1>1. CASE Start(c) \/ Scan(c) \/ Idle(c)
  BY <1>1, Zenon DEF Start, Scan, Idle, table, locks, local
<1>2. CASE Dispatch(c)
  BY <1>0, <1>2, Zenon DEF Dispatch, LockInv, FirstInv, TableTypes, locks, local
<1> QED
  BY <1>1, <1>2, Zenon DEF Scheduler

-----------------------------------------------------------------------------
(* No exit is missed.                                                        *)

\* wakeup(p->parent) in kexit() has passed the parent, which is awake since.
ParentAwake(r) ==
  (pc[r] = "wakeParent" /\ widx[r] > parent[r]) \/ pc[r] = "exitZombie"
    => state[parent[r]] # "SLEEPING"

\* The slots the scan of kwait() has passed hold no zombie of p.
Seen(p) ==
  /\ pc[p] = "waitScan" =>
       \A q \in Slot : q < idx[p] /\ parent[q] = p => state[q] # "ZOMBIE"
  /\ pc[p] \in {"waitDecide", "waitSleep"} =>
       \A q \in Slot : parent[q] = p => state[q] # "ZOMBIE"

\* A sleeper has an exited child only if it is init and reparent(), which has
\* just given it that child, is about to wake it.
MissInv ==
  /\ \A p, q \in Slot : state[p] = "SLEEPING" /\ parent[q] = p /\ state[q] = "ZOMBIE" =>
       p = initproc /\ \E r \in Slot : pc[r] = "wakeInit" /\ widx[r] <= initproc
  /\ \A p \in Slot : ParentAwake(p) /\ Seen(p)

\* Most steps put nobody to sleep, end no process and give no zombie away.
Steady ==
  /\ \A q \in Slot : parent'[q] # parent[q] =>
       state[q] \in {"UNUSED", "USED", "ZOMBIE"} /\ state'[q] \in {"UNUSED", "USED"}
  /\ \A q \in Slot : state'[q] # state[q] => state'[q] \notin {"SLEEPING", "ZOMBIE"}
  /\ \A q \in Slot : pc[q] = "wakeInit" => pc'[q] = "wakeInit" /\ widx'[q] = widx[q]
  /\ \A q \in Slot :
       \/ pc'[q] = pc[q] /\ idx'[q] = idx[q] /\ widx'[q] = widx[q]
       \/ ParentAwake(q)' /\ Seen(q)'

\* An exiting process has a parent, another process, until it becomes a zombie.
LEMMA HasParent ==
  ASSUME LockInv, TreeInv, NEW r \in Slot, pc[r] \in {"reparent", "wakeInit", "wakeParent", "exitZombie"}
  PROVE  /\ state[r] = "RUNNING" /\ r # initproc /\ parent[r] \in Slot
         /\ pc[r] \in {"wakeParent", "exitZombie"} => parent[r] # r
<1>1. state[r] = "RUNNING"
  <2>1. PICK c \in CPU : cproc[c] = r
    BY Zenon DEF LockInv, OffInv, Saved
  <2> QED
    BY <2>1, Zenon DEF LockInv, RunInv, Leaving
<1>2. r # initproc
  BY Zenon DEF TreeInv, Exiting
<1>3. parent[r] \in Slot
  BY <1>1, <1>2, Types, RefFacts, Zenon DEF TreeInv, ParentsLive, TableTypes
<1> QED
  BY <1>1, <1>2, <1>3, Zenon DEF TreeInv, Gone

\* A steady step misses no exit.
LEMMA SteadyMiss ==
  ASSUME LockInv, TreeInv, MissInv, Steady
  PROVE  MissInv'
<1>1. ASSUME NEW p \in Slot, NEW q \in Slot,
             state'[p] = "SLEEPING", parent'[q] = p, state'[q] = "ZOMBIE"
      PROVE  p = initproc /\ \E r \in Slot : pc'[r] = "wakeInit" /\ widx'[r] <= initproc
  <2>1. state[p] = "SLEEPING" /\ parent[q] = p /\ state[q] = "ZOMBIE"
    BY <1>1, Zenon DEF Steady
  <2>2. PICK r \in Slot : pc[r] = "wakeInit" /\ widx[r] <= initproc
    BY <2>1, Zenon DEF MissInv
  <2> QED
    BY <2>1, <2>2, Zenon DEF MissInv, Steady
<1>2. ASSUME NEW q \in Slot PROVE ParentAwake(q)' /\ Seen(q)'
  <2>1. CASE pc'[q] = pc[q] /\ idx'[q] = idx[q] /\ widx'[q] = widx[q]
    <3>1. ParentAwake(q)'
      <4>1. CASE pc[q] \in {"wakeParent", "exitZombie"}
        <5>1. parent[q] \in Slot /\ parent'[q] = parent[q]
          BY <4>1, HasParent, Zenon DEF Steady
        <5> QED
          BY <2>1, <5>1, SMTT(30) DEF Steady, MissInv, ParentAwake
      <4>2. CASE pc[q] \notin {"wakeParent", "exitZombie"}
        BY <2>1, <4>2, Zenon DEF ParentAwake
      <4> QED
        BY <4>1, <4>2, Zenon
    <3>2. \A r \in Slot : parent'[r] = q /\ state'[r] = "ZOMBIE" => parent[r] = q /\ state[r] = "ZOMBIE"
      BY Zenon DEF Steady
    <3>3. Seen(q)'
      BY <2>1, <3>2, Zenon DEF MissInv, Seen
    <3> QED
      BY <3>1, <3>3, Zenon
  <2> QED
    BY <2>1, Zenon DEF Steady
<1> QED
  BY <1>1, <1>2, Zenon DEF MissInv, initproc

\* The process that holds wait_lock is the only one MissInv speaks about.
LEMMA HolderMiss ==
  ASSUME LockInv, MissInv, NEW p \in Slot, pc[p] \in HoldsWaitLock,
         \A q \in Slot : q # p => pc'[q] = pc[q]
  PROVE  /\ \A q \in Slot : q # p => ParentAwake(q)' /\ Seen(q)'
         /\ \A q, r \in Slot : state[q] = "SLEEPING" /\ parent[r] = q /\ state[r] = "ZOMBIE" =>
              q = initproc /\ pc[p] = "wakeInit" /\ widx[p] <= initproc
<1>1. \A q \in Slot : q # p => pc[q] \notin HoldsWaitLock
  BY OneWaiter, Zenon
<1>2. \A q \in Slot : q # p => ParentAwake(q)' /\ Seen(q)'
  BY <1>1, Zenon DEF ParentAwake, Seen, HoldsWaitLock
<1>3. ASSUME NEW q \in Slot, NEW r \in Slot,
             state[q] = "SLEEPING", parent[r] = q, state[r] = "ZOMBIE"
      PROVE  q = initproc /\ pc[p] = "wakeInit" /\ widx[p] <= initproc
  <2>1. PICK t \in Slot : pc[t] = "wakeInit" /\ widx[t] <= initproc
    BY <1>3, Zenon DEF MissInv
  <2>2. t = p
    BY <1>1, <2>1, Zenon DEF HoldsWaitLock
  <2> QED
    BY <1>3, <2>1, <2>2, Zenon DEF MissInv
<1> QED
  BY <1>2, <1>3, Zenon

\* wakeup(initproc) reaches init, the sleeper that may have an exited child.
LEMMA WakeInitMiss ==
  ASSUME LockInv, SleepInv, TreeInv, MissInv, NEW c \in CPU, NEW p \in Slot, WakeInit(c, p)
  PROVE  MissInv'
<1>0. TableTypes
  BY Types, Zenon
<1>1. /\ pc[p] = "wakeInit" /\ parent' = parent /\ parent[p] \in Slot /\ p # initproc
      /\ \A q \in Slot : q # p => pc'[q] = pc[q]
      /\ pc'[p] = "wakeParent" => widx'[p] = 1
      /\ pc'[p] \in {"wakeInit", "reparent", "wakeParent"}
  BY <1>0, HasParent, SMTT(30) DEF WakeInit, NextChild, Goto, TableTypes
<1>2. /\ \A r \in Slot : state'[r] # state[r] => state[r] = "SLEEPING" /\ state'[r] = "RUNNABLE"
      /\ widx[p] = initproc /\ state[initproc] = "SLEEPING" => state'[initproc] = "RUNNABLE"
  BY <1>0, <1>1, WakeSlotWakes, SlotFacts, SMTT(30) DEF WakeInit, SleepInv
<1>3. /\ \A q \in Slot : q # p => ParentAwake(q)' /\ Seen(q)'
      /\ \A q, r \in Slot : state[q] = "SLEEPING" /\ parent[r] = q /\ state[r] = "ZOMBIE" =>
           q = initproc /\ widx[p] <= initproc
  BY <1>1, HolderMiss, Zenon DEF HoldsWaitLock
<1>4. ParentAwake(p)' /\ Seen(p)'
  <2>1. ~(1 > parent[p])
    BY <1>1, SMTT(30) DEF Slot
  <2> QED
    BY <1>1, <2>1, Zenon DEF ParentAwake, Seen
<1>5. ASSUME NEW q \in Slot, NEW r \in Slot,
             state'[q] = "SLEEPING", parent'[r] = q, state'[r] = "ZOMBIE"
      PROVE  FALSE
  <2>1. q = initproc /\ widx[p] <= initproc /\ state[q] = "SLEEPING"
    BY <1>1, <1>2, <1>3, <1>5, Zenon
  <2>2. widx[p] = initproc
    BY <1>0, <2>1, NPROCAssumption, SMTT(30) DEF TableTypes, Slot, initproc
  <2> QED
    BY <1>2, <1>5, <2>1, <2>2, Zenon
<1> QED
  BY <1>3, <1>4, <1>5, Zenon DEF MissInv

\* wakeup(p->parent) wakes the parent when it comes to its slot.
LEMMA WakeParentMiss ==
  ASSUME LockInv, SleepInv, TreeInv, MissInv, NEW c \in CPU, NEW p \in Slot, WakeParent(c, p)
  PROVE  MissInv'
<1>0. TableTypes
  BY Types, Zenon
<1>1. /\ pc[p] = "wakeParent" /\ parent' = parent /\ parent[p] \in Slot /\ parent[p] # p
      /\ idx' = idx
      /\ \A q \in Slot : q # p => pc'[q] = pc[q] /\ widx'[q] = widx[q]
      /\ \/ pc'[p] = "wakeParent" /\ widx'[p] = widx[p] + 1
         \/ pc'[p] = "exitZombie" /\ widx[p] = NPROC
  BY <1>0, HasParent, SMTT(30) DEF WakeParent, Goto, TableTypes
<1>2. /\ \A r \in Slot : state'[r] # state[r] => state[r] = "SLEEPING" /\ state'[r] = "RUNNABLE"
      /\ widx[p] = parent[p] /\ state[parent[p]] = "SLEEPING" => state'[parent[p]] = "RUNNABLE"
  BY <1>0, <1>1, WakeSlotWakes, SMTT(30) DEF WakeParent, SleepInv
<1>3. widx[p] >= parent[p] => state'[parent[p]] # "SLEEPING"
  <2>1. CASE widx[p] = parent[p]
    BY <1>1, <1>2, <2>1, Zenon
  <2>2. CASE widx[p] > parent[p]
    BY <1>1, <1>2, <2>2, Zenon DEF MissInv, ParentAwake
  <2>3. widx[p] >= parent[p] => widx[p] = parent[p] \/ widx[p] > parent[p]
    BY <1>0, <1>1, NPROCAssumption, SMTT(30) DEF TableTypes, Slot
  <2> QED
    BY <2>1, <2>2, <2>3, Zenon
<1>4. ParentAwake(p)' /\ Seen(p)'
  <2>1. /\ widx[p] + 1 > parent[p] => widx[p] >= parent[p]
        /\ widx[p] = NPROC => widx[p] >= parent[p]
    <3>1. widx[p] \in Slot /\ parent[p] \in Slot
      BY <1>0, <1>1, Zenon DEF TableTypes
    <3> QED
      BY <3>1, NPROCAssumption, SMTT(30) DEF Slot
  <2>2. ParentAwake(p)'
    BY <1>1, <1>3, <2>1, Zenon DEF ParentAwake
  <2> QED
    BY <1>1, <2>2, Zenon DEF Seen
<1>5. Steady
  BY <1>1, <1>2, <1>4, Zenon DEF Steady
<1> QED
  BY <1>5, SteadyMiss, Zenon

\* A process falls asleep in kwait() only after a scan that found no zombie.
LEMMA WaitSleepMiss ==
  ASSUME LockInv, MissInv, NEW c \in CPU, NEW p \in Slot, WaitSleep(c, p)
  PROVE  MissInv'
<1>0. TableTypes
  BY Types, Zenon
<1>1. /\ pc[p] = "waitSleep" /\ parent' = parent /\ pc'[p] = "sleepSched"
      /\ \A q \in Slot : q # p => pc'[q] = pc[q] /\ state'[q] = state[q]
      /\ state'[p] = "SLEEPING"
  BY <1>0, Zenon DEF WaitSleep, Goto, TableTypes
<1>2. /\ \A q \in Slot : q # p => ParentAwake(q)' /\ Seen(q)'
      /\ \A q, r \in Slot : ~(state[q] = "SLEEPING" /\ parent[r] = q /\ state[r] = "ZOMBIE")
  BY <1>1, HolderMiss, Zenon DEF HoldsWaitLock
<1>3. ParentAwake(p)' /\ Seen(p)'
  BY <1>1, Zenon DEF ParentAwake, Seen
<1>4. ASSUME NEW q \in Slot, NEW r \in Slot,
             state'[q] = "SLEEPING", parent'[r] = q, state'[r] = "ZOMBIE"
      PROVE  FALSE
  <2>1. r # p /\ state[r] = "ZOMBIE" /\ parent[r] = q
    BY <1>1, <1>4, Zenon
  <2> QED
    BY <1>1, <1>2, <1>4, <2>1, Zenon DEF MissInv, Seen
<1> QED
  BY <1>2, <1>3, <1>4, Zenon DEF MissInv

\* A process becomes a zombie only once its parent has been woken.
LEMMA ExitZombieMiss ==
  ASSUME LockInv, TreeInv, MissInv, NEW c \in CPU, NEW p \in Slot, ExitZombie(c, p)
  PROVE  MissInv'
<1>0. TableTypes
  BY Types, Zenon
<1>1. /\ pc[p] = "exitZombie" /\ parent' = parent /\ pc'[p] = "zombieSched"
      /\ \A q \in Slot : q # p => pc'[q] = pc[q] /\ state'[q] = state[q]
      /\ state'[p] = "ZOMBIE"
  BY <1>0, Zenon DEF ExitZombie, Goto, TableTypes
<1>2. /\ \A q \in Slot : q # p => ParentAwake(q)' /\ Seen(q)'
      /\ \A q, r \in Slot : ~(state[q] = "SLEEPING" /\ parent[r] = q /\ state[r] = "ZOMBIE")
  BY <1>1, HolderMiss, Zenon DEF HoldsWaitLock
<1>3. ParentAwake(p)' /\ Seen(p)'
  BY <1>1, Zenon DEF ParentAwake, Seen
<1>4. ASSUME NEW q \in Slot, NEW r \in Slot,
             state'[q] = "SLEEPING", parent'[r] = q, state'[r] = "ZOMBIE"
      PROVE  FALSE
  <2>1. q # p /\ state[q] = "SLEEPING" /\ parent[r] = q
    BY <1>1, <1>4, Zenon
  <2>2. r = p
    BY <1>1, <1>2, <1>4, <2>1, Zenon
  <2> QED
    BY <1>1, <2>1, <2>2, Zenon DEF MissInv, ParentAwake
<1> QED
  BY <1>2, <1>3, <1>4, Zenon DEF MissInv

\* reparent() gives a zombie to init and goes on to wake it at once.
LEMMA ReparentMiss ==
  ASSUME LockInv, LoopInv, TreeInv, MissInv, NEW c \in CPU, NEW p \in Slot, Reparent(c, p)
  PROVE  MissInv'
<1> DEFINE s == idx[p]
<1>0. TableTypes /\ s \in Slot
  BY Types, Zenon DEF TableTypes
<1>1. /\ pc[p] = "reparent" /\ state' = state /\ widx' = widx /\ widx[p] = 1
      /\ parent[p] \in Slot /\ p # initproc
  BY HasParent, Zenon DEF Reparent, LoopInv, Waking
<1>2. CASE parent[s] = p /\ parent' = [parent EXCEPT ![s] = initproc]
           /\ Goto(p, "wakeInit") /\ UNCHANGED idx
  <2>1. /\ pc'[p] = "wakeInit" /\ widx'[p] <= initproc
        /\ \A q \in Slot : q # p => pc'[q] = pc[q]
        /\ parent'[s] = initproc
        /\ \A q \in Slot : q # s => parent'[q] = parent[q]
    BY <1>0, <1>1, <1>2, SMTT(30) DEF TableTypes, Goto, initproc
  <2>2. /\ \A q \in Slot : q # p => ParentAwake(q)' /\ Seen(q)'
        /\ \A q, r \in Slot : ~(state[q] = "SLEEPING" /\ parent[r] = q /\ state[r] = "ZOMBIE")
    BY <1>1, <2>1, HolderMiss, Zenon DEF HoldsWaitLock
  <2>3. ParentAwake(p)' /\ Seen(p)'
    BY <2>1, Zenon DEF ParentAwake, Seen
  <2>4. ASSUME NEW q \in Slot, NEW r \in Slot,
               state'[q] = "SLEEPING", parent'[r] = q, state'[r] = "ZOMBIE"
        PROVE  q = initproc
    BY <1>1, <2>1, <2>2, <2>4, Zenon
  <2> QED
    BY <2>1, <2>2, <2>3, <2>4, Zenon DEF MissInv, initproc
<1>3. CASE parent[s] # p /\ NextChild(p) /\ UNCHANGED parent
  <2>1. /\ pc'[p] \in {"reparent", "wakeParent"}
        /\ \A q \in Slot : q # p => pc'[q] = pc[q] /\ idx'[q] = idx[q]
    BY <1>0, <1>3, SMTT(30) DEF TableTypes, NextChild, Goto
  <2>2. ~(1 > parent[p])
    BY <1>1, SMTT(30) DEF Slot
  <2>3. ParentAwake(p)' /\ Seen(p)'
    BY <1>1, <1>3, <2>1, <2>2, Zenon DEF ParentAwake, Seen
  <2>4. Steady
    BY <1>1, <1>3, <2>1, <2>3, Zenon DEF Steady
  <2> QED
    BY <2>4, SteadyMiss, Zenon
<1> QED
  BY <1>2, <1>3, Zenon DEF Reparent

\* Every other step of a process is steady.
LEMMA SteadyStep ==
  ASSUME LockInv, LoopInv, TreeInv, MissInv, NEW c \in CPU, NEW p \in Slot, Process(c, p),
         pc[p] \notin {"reparent", "wakeInit", "wakeParent", "exitZombie", "waitSleep"}
  PROVE  Steady
<1>0. TableTypes
  BY Types, Zenon
<1> DEFINE Watched == {"wakeInit", "wakeParent", "exitZombie", "waitScan", "waitDecide", "waitSleep"}
           Stays(q) == pc'[q] = pc[q] /\ idx'[q] = idx[q] /\ widx'[q] = widx[q]
<1>a. ASSUME NEW q \in Slot, pc'[q] \notin Watched PROVE ParentAwake(q)' /\ Seen(q)'
  BY <1>a, Zenon DEF ParentAwake, Seen
<1>b. ASSUME parent' = parent, \A q \in Slot : state'[q] # state[q] => state'[q] = "RUNNABLE",
             \A q \in Slot : q # p => Stays(q), Stays(p) \/ (ParentAwake(p)' /\ Seen(p)')
      PROVE  Steady
  BY <1>b, Zenon DEF Steady
<1> HIDE DEF Watched
<1> USE <1>0 DEF TableTypes, Goto, table, local
<1>1. CASE \/ Swtch(c, p) \/ Forkret(c, p) \/ CallFork(c, p) \/ CallExit(c, p) \/ TrapKilled(c, p)
           \/ ExitLock(c, p) \/ CallWait(c, p) \/ Resume(c, p) \/ CallKill(c, p) \/ CallGetppid(c, p)
  <2>1. /\ parent' = parent /\ state' = state
        /\ \A q \in Slot : q # p => Stays(q)
        /\ pc'[p] \notin Watched
    BY <1>1, Zenon
    DEF Swtch, Forkret, CallFork, CallExit, TrapKilled, ExitLock, CallWait, Resume,
        CallKill,
                CallGetppid, Watched
  <2> QED
    BY <1>a, <1>b, <2>1, Zenon
<1>2. CASE AllocNext(c, p) \/ KillMiss(c, p)
  <2>1. /\ parent' = parent /\ state' = state
        /\ \A q \in Slot : q # p => Stays(q)
        /\ pc'[p] \notin Watched
    BY <1>2, Zenon DEF AllocNext, KillMiss, NextSlotOrReturn, Return, Watched
  <2> QED
    BY <1>a, <1>b, <2>1, Zenon
<1>3. CASE WaitNoCopy(c, p) \/ WaitGiveUp(c, p) \/ GetppidLoad(c, p) \/ KillHit(c, p)
  <2>1. /\ parent' = parent
        /\ \A q \in Slot : state'[q] # state[q] => state'[q] = "RUNNABLE"
        /\ \A q \in Slot : q # p => Stays(q)
        /\ pc'[p] \notin Watched
    BY <1>3, SMTT(30) DEF WaitNoCopy, WaitGiveUp, GetppidLoad, KillHit, Return, Watched
  <2> QED
    BY <1>a, <1>b, <2>1, Zenon
<1>4. CASE ForkReady(c, p)
  <2>1. /\ parent' = parent
        /\ \A q \in Slot : state'[q] # state[q] => state'[q] = "RUNNABLE"
        /\ \A q \in Slot : q # p => Stays(q)
        /\ pc'[p] \notin Watched
    BY <1>4, Zenon DEF ForkReady, Return, Watched
  <2> QED
    BY <1>a, <1>b, <2>1, Zenon
<1>5. CASE AllocTake(c, p)
  <2>0. PICK s \in Slot : s = idx[p]
    BY Zenon
  <2>1. state[s] = "UNUSED" /\ pc[p] = "alloc"
    BY <1>5, <2>0, Zenon DEF AllocTake
  <2>2. pc[s] # "wakeInit"
    BY <2>1, HasParent, Zenon
  <2>3. /\ parent' = parent
        /\ \A q \in Slot : state'[q] # state[q] => state'[q] = "USED"
        /\ \A q \in Slot : q # p /\ q # s => Stays(q)
        /\ pc'[p] \in {"forkParent", "forkret"} /\ pc'[s] = "forkret"
    BY <1>5, <2>0, Zenon DEF AllocTake
  <2>4. /\ ParentAwake(p)' /\ Seen(p)' /\ ParentAwake(s)' /\ Seen(s)'
    BY <1>a, <2>1, <2>3, Zenon DEF Watched
  <2> QED
    BY <2>1, <2>2, <2>3, <2>4, Zenon DEF Steady
<1>6. CASE AllocFail(c, p) \/ WaitReap(c, p)
  <2> DEFINE s == idx[p]
  <2>1. /\ state[s] \in {"UNUSED", "ZOMBIE"} /\ s \in Slot
        /\ state'[s] = "UNUSED"
        /\ \A q \in Slot : q # s => state'[q] = state[q] /\ parent'[q] = parent[q]
        /\ \A q \in Slot : q # p => Stays(q)
        /\ pc'[p] = "user" /\ pc[p] # "wakeInit"
    BY <1>6, Zenon DEF AllocFail, WaitReap, FreeProc, Return
  <2>2. ParentAwake(p)' /\ Seen(p)'
    BY <1>a, <2>1, Zenon DEF Watched
  <2> QED
    BY <2>1, <2>2, Zenon DEF Steady
<1>7. CASE ForkParent(c, p)
  <2> DEFINE s == tmp[p]
  <2>1. s \in Slot /\ state[s] = "USED" /\ pc[p] = "forkParent"
    BY <1>7, Zenon DEF ForkParent, LockInv, ForkInv
  <2>2. /\ state' = state
        /\ \A q \in Slot : q # s => parent'[q] = parent[q]
        /\ \A q \in Slot : q # p => Stays(q)
        /\ pc'[p] = "forkReady"
    BY <1>7, <2>1, Zenon DEF ForkParent
  <2>3. ParentAwake(p)' /\ Seen(p)'
    BY <1>a, <2>2, Zenon DEF Watched
  <2> QED
    BY <2>1, <2>2, <2>3, Zenon DEF Steady
<1>8. CASE WaitLock(c, p)
  <2>1. /\ parent' = parent /\ state' = state
        /\ \A q \in Slot : q # p => Stays(q)
        /\ pc'[p] = "waitScan" /\ idx'[p] = 1
    BY <1>8, Zenon DEF WaitLock, LoopInv, Looping
  <2>2. \A q \in Slot : ~(q < 1)
    BY SMTT(30) DEF Slot
  <2>3. ParentAwake(p)' /\ Seen(p)'
    BY <2>1, <2>2, Zenon DEF ParentAwake, Seen
  <2> QED
    BY <1>b, <2>1, <2>3, Zenon
<1>9. CASE WaitScan(c, p)
  <2>1. /\ parent' = parent /\ state' = state /\ pc[p] = "waitScan"
        /\ \A q \in Slot : q # p => Stays(q)
        /\ parent[idx[p]] # p \/ state[idx[p]] # "ZOMBIE"
        /\ \/ pc'[p] = "waitScan" /\ idx'[p] = idx[p] + 1
           \/ pc'[p] = "waitDecide" /\ idx[p] = NPROC
    BY <1>9, Zenon DEF WaitScan, IsChild
  <2>2. /\ \A q \in Slot : q < idx[p] + 1 => q < idx[p] \/ q = idx[p]
        /\ idx[p] = NPROC => \A q \in Slot : q < idx[p] \/ q = idx[p]
    BY SMTT(30) DEF Slot
  <2>3. \A q \in Slot : q < idx[p] /\ parent[q] = p => state[q] # "ZOMBIE"
    BY <2>1, Zenon DEF MissInv, Seen
  <2>4. ParentAwake(p)' /\ Seen(p)'
    BY <2>1, <2>2, <2>3, Zenon DEF ParentAwake, Seen
  <2> QED
    BY <1>b, <2>1, <2>4, Zenon
<1>10. CASE WaitGoOn(c, p)
  <2>1. /\ parent' = parent /\ state' = state /\ pc[p] = "waitDecide" /\ pc'[p] = "waitSleep"
        /\ \A q \in Slot : q # p => Stays(q)
    BY <1>10, Zenon DEF WaitGoOn
  <2>2. ParentAwake(p)' /\ Seen(p)'
    BY <2>1, Zenon DEF MissInv, ParentAwake, Seen
  <2> QED
    BY <1>b, <2>1, <2>2, Zenon
<1>11. ~(Reparent(c, p) \/ WakeInit(c, p) \/ WakeParent(c, p) \/ ExitZombie(c, p) \/ WaitSleep(c, p))
  BY Zenon DEF Reparent, WakeInit, WakeParent, ExitZombie, WaitSleep
<1> QED
  BY <1>1, <1>2, <1>3, <1>4, <1>5, <1>6, <1>7, <1>8, <1>9, <1>10, <1>11, Zenon DEF Process

\* No step of a process makes another one miss its exit.
LEMMA MissStep ==
  ASSUME LockInv, LoopInv, SleepInv, TreeInv, MissInv,
         NEW c \in CPU, NEW p \in Slot, Process(c, p)
  PROVE  MissInv'
<1>1. CASE pc[p] \notin {"reparent", "wakeInit", "wakeParent", "exitZombie", "waitSleep"}
  <2>1. Steady
    BY <1>1, SteadyStep, Zenon
  <2> QED
    BY <2>1, SteadyMiss, Zenon
<1>2. CASE pc[p] \in {"reparent", "wakeInit", "wakeParent", "exitZombie", "waitSleep"}
  <2>1. Reparent(c, p) \/ WakeInit(c, p) \/ WakeParent(c, p) \/ ExitZombie(c, p) \/ WaitSleep(c, p)
    BY <1>2, Zenon
    DEF Process, Swtch, Forkret, CallFork, AllocNext, AllocTake, AllocFail, ForkParent,
       ForkReady, CallExit, TrapKilled, ExitLock, CallWait, WaitLock, WaitReap, WaitNoCopy, WaitScan,
       WaitGiveUp, WaitGoOn, Resume, CallKill, KillHit, KillMiss, CallGetppid, GetppidLoad, Enters
  <2> QED
    BY <2>1, ReparentMiss, WakeInitMiss, WakeParentMiss, ExitZombieMiss, WaitSleepMiss,
       Zenon
<1> QED
  BY <1>1, <1>2, Zenon

-----------------------------------------------------------------------------
\* The invariant behind the two results, with the lock invariant it rests on.
FamilyInv == LoopInv /\ SleepInv /\ TreeInv /\ MissInv

\* What userinit() leaves: init alone, RUNNABLE, without a parent.
LEMMA InitFamily == Init => FamilyInv
<1> SUFFICES ASSUME Init PROVE FamilyInv
  BY Zenon
<1>1. /\ \A p \in Slot : /\ state[p] = IF p = initproc THEN "RUNNABLE" ELSE "UNUSED"
                         /\ parent[p] = NoProc /\ pc[p] = "forkret"
                         /\ idx[p] = 1 /\ widx[p] = 1
      /\ initproc \in Slot
  BY SlotFacts, Zenon DEF Init
<1>2. LoopInv /\ SleepInv
  BY <1>1, Zenon DEF LoopInv, SleepInv
<1>3. TreeInv
  BY <1>1, Zenon DEF TreeInv, ParentsLive, Live, Exiting, Gone
<1>4. MissInv
  BY <1>1, Zenon DEF MissInv, ParentAwake, Seen
<1> QED
  BY <1>2, <1>3, <1>4, Zenon DEF FamilyInv

\* The scheduler only turns RUNNABLE processes into RUNNING ones.
LEMMA SchedulerFamily ==
  ASSUME LockInv, FamilyInv, NEW c \in CPU, Start(c) \/ Scheduler(c)
  PROVE  FamilyInv'
<1>0. TableTypes
  BY Types, Zenon
<1>1. /\ UNCHANGED <<parent, chan, pc, idx, widx, tmp>>
      /\ \A q \in Slot : state'[q] # state[q] => state[q] = "RUNNABLE" /\ state'[q] = "RUNNING"
  BY SchedulerKeeps, Zenon
<1>2. LoopInv'
  BY <1>1, Zenon DEF FamilyInv, LoopInv
<1>3. SleepInv'
  BY <1>1, SameSleep, Zenon DEF FamilyInv
<1>4. TreeInv'
  <2>1. ParentsLive'
    <3>1. ASSUME NEW q \in Slot, parent'[q] # NoProc PROVE state'[parent'[q]] \in Live
      <4>1. parent'[q] = parent[q] /\ parent[q] \in Slot /\ state[parent[q]] \in Live
        BY <1>0, <1>1, <3>1, RefFacts, Zenon
        DEF FamilyInv, TableTypes, TreeInv, ParentsLive, Live
      <4> QED
        BY <1>1, <4>1, Zenon DEF Live
    <3>2. ASSUME NEW q \in Slot, q # initproc, state'[q] \notin {"UNUSED", "USED"}
          PROVE  parent'[q] # NoProc
      BY <1>1, <3>2, Zenon DEF FamilyInv, TreeInv, ParentsLive
    <3> QED
      BY <3>1, <3>2, Zenon DEF ParentsLive, Live
  <2>2. state'[initproc] \in Live
    BY <1>1, SlotFacts, Zenon DEF FamilyInv, TreeInv, Live
  <2> QED
    BY <1>1, <2>1, <2>2, Zenon DEF FamilyInv, TreeInv, Gone, initproc
<1>5. MissInv'
  <2>1. Steady
    BY <1>1, Zenon DEF Steady
  <2> QED
    BY <2>1, SteadyMiss, Zenon DEF FamilyInv
<1> QED
  BY <1>2, <1>3, <1>4, <1>5, Zenon DEF FamilyInv

\* Loops, sleepers, tree and exits together are an invariant.
THEOREM FamilyInvariant == Spec => []FamilyInv
<1>1. ASSUME LockInv, FamilyInv, [Next]_vars PROVE FamilyInv'
  <2>1. CASE UNCHANGED vars
    <3>1. UNCHANGED <<state, parent, chan, pc, idx, widx, tmp>>
      BY <2>1, Zenon DEF vars, table, local
    <3>2. LoopInv' /\ SleepInv'
      BY <1>1, <3>1, Zenon DEF FamilyInv, LoopInv, SleepInv
    <3>3. TreeInv'
      BY <1>1, <3>1, Zenon DEF FamilyInv, TreeInv, ParentsLive, Gone, initproc
    <3>4. MissInv'
      BY <1>1, <3>1, Zenon DEF FamilyInv, MissInv, ParentAwake, Seen, initproc
    <3> QED
      BY <3>2, <3>3, <3>4, Zenon DEF FamilyInv
  <2>2. ASSUME NEW c \in CPU, Start(c) \/ Scheduler(c) PROVE FamilyInv'
    BY <1>1, <2>2, SchedulerFamily, Zenon
  <2>3. ASSUME NEW c \in CPU, NEW p \in Slot, Process(c, p) PROVE FamilyInv'
    BY <1>1, <2>3, LoopStep, SleepStep, TreeStep, MissStep, Zenon DEF FamilyInv
  <2> QED
    BY <1>1, <2>1, <2>2, <2>3, Zenon DEF Next
<1> QED
  BY LockInvariant, InitFamily, <1>1, PTL DEF Spec

\* A parent pointer never leads to a free or exited slot, and every process but
\* init has a parent: exit() has handed over all children before it makes the
\* zombie, although it looks at one slot at a time.
THEOREM TreeIsSound == Spec => []ParentsLive
<1>1. FamilyInv => ParentsLive
  BY Zenon DEF FamilyInv, TreeInv
<1> QED
  BY FamilyInvariant, <1>1, PTL

\* No process sleeps in wait() on a child that has exited, whatever the order of
\* exits, reparentings and waits on any number of CPUs.
THEOREM ExitsAreNotMissed == Spec => []NoMissedExit
<1>1. LockInv /\ FamilyInv => NoMissedExit
  <2> SUFFICES ASSUME LockInv, FamilyInv, NEW p \in Slot, NEW q \in Slot,
                      waitlock = NoCpu, state[p] = "SLEEPING", parent[q] = p, state[q] = "ZOMBIE"
               PROVE  FALSE
    BY Zenon DEF NoMissedExit
  <2>1. PICK r \in Slot : pc[r] = "wakeInit"
    BY Zenon DEF FamilyInv, MissInv
  <2> QED
    BY <2>1, OneWaiter, Zenon DEF HoldsWaitLock
<1> QED
  BY LockInvariant, FamilyInvariant, <1>1, PTL

-----------------------------------------------------------------------------
(* Kill marks.                                                               *)

\* A free slot has pid 0 and no kill mark, and kkill() looks for a pid that some
\* program passed to it.
MarkInv ==
  \A p \in Slot :
    /\ state[p] = "UNUSED" => pid[p] = 0 /\ ~killed[p]
    /\ pc[p] = "kill" => tmp[p] \in KillPids

\* A step that frees no slot, touches no free slot and enters no kill() keeps
\* MarkInv.
LEMMA SameMarks ==
  ASSUME MarkInv,
         \A q \in Slot : state'[q] = "UNUSED" =>
           state[q] = "UNUSED" /\ pid'[q] = pid[q] /\ killed'[q] = killed[q],
         \A q \in Slot : pc'[q] = "kill" => pc[q] = "kill" /\ tmp'[q] = tmp[q]
  PROVE  MarkInv'
  BY Zenon DEF MarkInv

\* Every step of a process keeps MarkInv, as long as no program calls kill(0).
LEMMA MarkStep ==
  ASSUME LockInv, MarkInv, 0 \notin KillPids,
         NEW c \in CPU, NEW p \in Slot, Process(c, p)
  PROVE  MarkInv'
<1>0. /\ state \in [Slot -> ProcState] /\ pid \in [Slot -> Nat] /\ killed \in [Slot -> BOOLEAN]
      /\ pc \in [Slot -> Label] /\ idx \in [Slot -> Slot] /\ tmp \in [Slot -> Nat]
  BY Zenon DEF LockInv, TypeOK
<1>1. CASE \/ Swtch(c, p) \/ Forkret(c, p) \/ CallFork(c, p) \/ CallExit(c, p) \/ TrapKilled(c, p)
           \/ ExitLock(c, p) \/ CallWait(c, p) \/ Resume(c, p) \/ CallGetppid(c, p)
           \/ WaitLock(c, p) \/ WaitGoOn(c, p) \/ WaitScan(c, p) \/ Reparent(c, p) \/ ForkParent(c, p)
  <2>1. UNCHANGED <<state, pid, killed>>
    BY <1>1, Zenon
    DEF Swtch, Forkret, CallFork, CallExit, TrapKilled, ExitLock, CallWait, Resume,
        CallGetppid,
                WaitLock, WaitGoOn, WaitScan, Reparent, ForkParent, table
  <2>2. \A q \in Slot : pc'[q] = "kill" => pc[q] = "kill" /\ tmp'[q] = tmp[q]
    <3>1. CASE CallGetppid(c, p) \/ Swtch(c, p) \/ WaitScan(c, p) \/ Reparent(c, p)
      BY <1>0, <3>1, Zenon
      DEF CallGetppid, Swtch, WaitScan, Reparent, NextChild, Goto, local
    <3>2. CASE ~(CallGetppid(c, p) \/ Swtch(c, p) \/ WaitScan(c, p) \/ Reparent(c, p))
      BY <1>0, <1>1, <3>2, Zenon
      DEF Forkret, CallFork, CallExit, TrapKilled, ExitLock, CallWait, Resume,
                              WaitLock, WaitGoOn, ForkParent, Goto, local
    <3> QED
      BY <3>1, <3>2, Zenon
  <2> QED
    BY <2>1, <2>2, SameMarks, Zenon
<1>2. CASE AllocNext(c, p) \/ KillMiss(c, p) \/ WaitNoCopy(c, p) \/ WaitGiveUp(c, p) \/ GetppidLoad(c, p)
  <2>1. UNCHANGED <<state, pid, killed>>
    BY <1>2, Zenon DEF AllocNext, KillMiss, WaitNoCopy, WaitGiveUp, GetppidLoad, table
  <2>2. \A q \in Slot : pc'[q] = "kill" => pc[q] = "kill" /\ tmp'[q] = tmp[q]
    BY <1>0, <1>2, Zenon
    DEF AllocNext, KillMiss, WaitNoCopy, WaitGiveUp, GetppidLoad, NextSlotOrReturn,
                      Return, Goto
  <2> QED
    BY <2>1, <2>2, SameMarks, Zenon
<1>3. CASE WakeInit(c, p) \/ WakeParent(c, p)
  <2>1. UNCHANGED <<pid, killed, tmp>> /\ \E ch : WakeSlot(p, ch)
    BY <1>3, Zenon DEF WakeInit, WakeParent
  <2>2. \A q \in Slot : state'[q] = "UNUSED" => state[q] = "UNUSED"
    BY <1>0, <2>1, Zenon DEF WakeSlot
  <2>3. \A q \in Slot : pc'[q] = "kill" => pc[q] = "kill"
    BY <1>0, <1>3, Zenon DEF WakeInit, WakeParent, NextChild, Goto
  <2> QED
    BY <2>1, <2>2, <2>3, SameMarks, Zenon
<1>4. CASE ExitZombie(c, p) \/ WaitSleep(c, p)
  BY <1>0, <1>4, SameMarks, Zenon DEF ExitZombie, WaitSleep, Goto, local
<1>5. CASE ForkReady(c, p)
  BY <1>0, <1>5, SameMarks, Zenon DEF ForkReady, Return, Goto
<1>6. CASE AllocTake(c, p)
  BY <1>0, <1>6, SameMarks, Zenon DEF AllocTake
<1>7. CASE AllocFail(c, p) \/ WaitReap(c, p)
  <2> DEFINE s == idx[p]
  <2>1. /\ pid'[s] = 0 /\ killed'[s] = FALSE
        /\ \A q \in Slot : q # s => state'[q] = state[q] /\ pid'[q] = pid[q] /\ killed'[q] = killed[q]
        /\ \A q \in Slot : pc'[q] = "kill" => pc[q] = "kill" /\ tmp'[q] = tmp[q]
    BY <1>0, <1>7, Zenon DEF AllocFail, WaitReap, FreeProc, Return, Goto
  <2> QED
    BY <2>1, SMTT(30) DEF MarkInv
<1>8. CASE CallKill(c, p)
  <2>1. PICK k \in KillPids : tmp' = [tmp EXCEPT ![p] = k]
    BY <1>8, Zenon DEF CallKill
  <2>2. UNCHANGED <<state, pid, killed>> /\ pc' = [pc EXCEPT ![p] = "kill"]
    BY <1>8, Zenon DEF CallKill, Goto, table
  <2> QED
    BY <1>0, <2>1, <2>2, Zenon DEF MarkInv
<1>9. CASE KillHit(c, p)
  <2> DEFINE s == idx[p]
  <2>1. s \in Slot /\ pid[s] = tmp[p] /\ tmp[p] \in KillPids
    BY <1>0, <1>9, Zenon DEF KillHit, MarkInv
  <2>2. state[s] # "UNUSED"
    BY <2>1, Zenon DEF MarkInv
  <2>3. /\ pid' = pid
        /\ \A q \in Slot : state'[q] = "UNUSED" => state[q] = "UNUSED"
        /\ \A q \in Slot : q # s => killed'[q] = killed[q]
        /\ \A q \in Slot : pc'[q] = "kill" => pc[q] = "kill" /\ tmp'[q] = tmp[q]
    BY <1>0, <1>9, Zenon DEF KillHit, Return, Goto
  <2> QED
    BY <2>2, <2>3, SameMarks, Zenon
<1> QED
  BY <1>1, <1>2, <1>3, <1>4, <1>5, <1>6, <1>7, <1>8, <1>9, Zenon DEF Process

\* Only a process carries a kill mark: a slot is free of it when allocproc(),
\* which does not clear p->killed, hands it out.  The pid 0 of a free slot has to
\* be out of reach of kill(), which compares pids and does not look at the state.
THEOREM KillMarksProcesses == 0 \notin KillPids => (Spec => []KilledIsLive)
<1> SUFFICES ASSUME 0 \notin KillPids PROVE Spec => []KilledIsLive
  BY Zenon
<1>1. Init => MarkInv
  BY SMTT(30) DEF Init, MarkInv
<1>2. ASSUME LockInv, MarkInv, [Next]_vars PROVE MarkInv'
  <2>1. CASE UNCHANGED vars
    BY <1>2, <2>1, SameMarks, Zenon DEF vars, table, local
  <2>2. ASSUME NEW c \in CPU, Start(c) \/ Scheduler(c) PROVE MarkInv'
    <3>1. UNCHANGED <<pid, killed, pc, tmp>>
      BY <2>2, Zenon DEF Start, Scheduler, Scan, Dispatch, Idle, table, local
    <3>2. \A q \in Slot : state'[q] = "UNUSED" => state[q] = "UNUSED"
      BY <1>2, <2>2, Zenon
      DEF Start, Scheduler, Scan, Dispatch, Idle, table, LockInv, TypeOK
    <3> QED
      BY <1>2, <3>1, <3>2, SameMarks, Zenon
  <2>3. ASSUME NEW c \in CPU, NEW p \in Slot, Process(c, p) PROVE MarkInv'
    BY <1>2, <2>3, MarkStep, Zenon
  <2> QED
    BY <1>2, <2>1, <2>2, <2>3, Zenon DEF Next
<1>3. MarkInv => KilledIsLive
  BY Zenon DEF MarkInv, KilledIsLive
<1> QED
  BY LockInvariant, <1>1, <1>2, <1>3, PTL DEF Spec

-----------------------------------------------------------------------------
(* One hart.                                                                 *)

\* A hart that has not entered scheduler() runs nothing, and scheduler() starts
\* its scan afresh when a process gives the CPU back.
HartInv ==
  \A c \in CPU :
    /\ c \notin up => cproc[c] = NoProc /\ si[c] = 1 /\ first[c] = NoProc
    /\ cproc[c] # NoProc => si[c] = 1

\* A process that executes is on a hart that is up.
LEMMA OnIsUp ==
  ASSUME HartInv, NEW c \in CPU, NEW p \in Slot, On(c, p)
  PROVE  c \in up
  BY RefFacts, Zenon DEF HartInv, On

\* Every step of a process but the last leaves the CPUs alone.
LEMMA CpusKept ==
  ASSUME NEW c \in CPU, NEW p \in Slot, Process(c, p)
  PROVE  /\ On(c, p)
         /\ UNCHANGED <<si, first, up>>
         /\ cproc' = cproc \/ cproc' = [cproc EXCEPT ![c] = NoProc]
<1> USE DEF cpus
<1>1. CASE Swtch(c, p)
  BY <1>1, Zenon DEF Swtch
<1>2. CASE \/ Forkret(c, p) \/ CallFork(c, p) \/ AllocNext(c, p) \/ AllocTake(c, p) \/ AllocFail(c, p)
           \/ ForkParent(c, p) \/ ForkReady(c, p)
  BY <1>2, Zenon
  DEF Forkret, CallFork, AllocNext, AllocTake, AllocFail, ForkParent, ForkReady, Enters
<1>3. CASE \/ CallExit(c, p) \/ TrapKilled(c, p) \/ ExitLock(c, p) \/ Reparent(c, p)
           \/ WakeInit(c, p) \/ WakeParent(c, p) \/ ExitZombie(c, p)
  BY <1>3, Zenon
  DEF CallExit, TrapKilled, ExitLock, Reparent, WakeInit, WakeParent, ExitZombie, Enters
<1>4. CASE \/ CallWait(c, p) \/ WaitLock(c, p) \/ WaitReap(c, p) \/ WaitNoCopy(c, p) \/ WaitScan(c, p)
           \/ WaitGiveUp(c, p) \/ WaitGoOn(c, p) \/ WaitSleep(c, p) \/ Resume(c, p)
  BY <1>4, Zenon
  DEF CallWait, WaitLock, WaitReap, WaitNoCopy, WaitScan, WaitGiveUp, WaitGoOn, WaitSleep,
              Resume, Enters
<1>5. CASE \/ CallKill(c, p) \/ KillHit(c, p) \/ KillMiss(c, p) \/ CallGetppid(c, p)
           \/ GetppidLoad(c, p)
  BY <1>5, Zenon DEF CallKill, KillHit, KillMiss, CallGetppid, GetppidLoad, Enters
<1> QED
  BY <1>1, <1>2, <1>3, <1>4, <1>5, Zenon DEF Process

\* With one hart, a process that was not killed before it fell asleep is not
\* marked afterwards without being woken.
KillInv ==
  OneHart => \A p \in Slot : state[p] = "SLEEPING" \/ pc[p] = "waitSleep" => ~killed[p]

\* With one hart, a scan holds the lowest pid of the slots it has passed.
LowInv ==
  OneHart =>
    \A c \in CPU : cproc[c] = NoProc =>
      \A q \in Slot : q < si[c] /\ state[q] = "RUNNABLE" =>
        first[c] # NoProc /\ pid[first[c]] <= pid[q]

\* Harts are never stopped.
LEMMA OneHartBefore ==
  ASSUME HartInv, NEW c \in CPU,
         Start(c) \/ Scheduler(c) \/ \E p \in Slot : Process(c, p), OneHart'
  PROVE  OneHart
<1>1. up' = up \/ up' = up \cup {c}
  <2>1. CASE \E p \in Slot : Process(c, p)
    BY <2>1, CpusKept, Zenon
  <2>2. CASE Start(c) \/ Scheduler(c)
    BY <2>2, Zenon DEF Start, Scheduler, Scan, Dispatch, Idle
  <2> QED
    BY <2>1, <2>2, Zenon
<1> QED
  BY <1>1, Zenon DEF OneHart

\* Harts that are down have nothing to keep.
LEMMA HartStep ==
  ASSUME LockInv, HartInv, NEW c \in CPU,
         Start(c) \/ Scheduler(c) \/ \E p \in Slot : Process(c, p)
  PROVE  HartInv'
<1>0. /\ cproc \in [CPU -> ProcRef] /\ si \in [CPU -> ScanIdx] /\ first \in [CPU -> ProcRef]
  BY Zenon DEF LockInv, TypeOK
<1>1. CASE \E p \in Slot : Process(c, p)
  <2>1. PICK p \in Slot : Process(c, p)
    BY <1>1, Zenon
  <2>2. /\ UNCHANGED <<si, first, up>>
        /\ cproc' = cproc \/ cproc' = [cproc EXCEPT ![c] = NoProc]
    BY <2>1, CpusKept, Zenon
  <2> QED
    BY <1>0, <2>2, Zenon DEF HartInv
<1>2. CASE Start(c)
  BY <1>2, Zenon DEF Start, HartInv
<1>3. CASE Scan(c)
  BY <1>0, <1>3, Zenon DEF Scan, HartInv
<1>4. CASE Dispatch(c)
  <2>1. c \in up
    BY <1>4, Zenon DEF Dispatch, HartInv
  <2> QED
    BY <1>0, <1>4, <2>1, Zenon DEF Dispatch, HartInv
<1>5. CASE Idle(c)
  BY <1>0, <1>5, Zenon DEF Idle, HartInv
<1> QED
  BY <1>1, <1>2, <1>3, <1>4, <1>5, Zenon DEF Scheduler

\* A step that marks nobody, puts nobody to sleep and leads nobody to sleep().
LEMMA SameKill ==
  ASSUME KillInv, OneHart' => OneHart,
         \A q \in Slot : killed'[q] => killed[q],
         \A q \in Slot : state'[q] = "SLEEPING" => state[q] = "SLEEPING",
         \A q \in Slot : pc'[q] = "waitSleep" => pc[q] = "waitSleep"
  PROVE  KillInv'
  BY Zenon DEF KillInv

\* kill() finds the only hart executing kill() itself, so its victim is not on
\* the way into sleep().
LEMMA KillStep ==
  ASSUME LockInv, HartInv, KillInv, NEW c \in CPU, NEW p \in Slot, Process(c, p)
  PROVE  KillInv'
<1>0. /\ state \in [Slot -> ProcState] /\ pc \in [Slot -> Label] /\ idx \in [Slot -> Slot]
      /\ killed \in [Slot -> BOOLEAN]
  BY Zenon DEF LockInv, TypeOK
<1>00. OneHart' => OneHart
  BY OneHartBefore, Zenon
<1>1. CASE \/ Swtch(c, p) \/ Forkret(c, p) \/ CallFork(c, p) \/ CallExit(c, p) \/ TrapKilled(c, p)
           \/ ExitLock(c, p) \/ CallWait(c, p) \/ Resume(c, p) \/ CallGetppid(c, p)
           \/ WaitLock(c, p) \/ WaitScan(c, p) \/ Reparent(c, p) \/ ForkParent(c, p) \/ CallKill(c, p)
  <2>1. UNCHANGED <<state, killed>>
    BY <1>1, Zenon
    DEF Swtch, Forkret, CallFork, CallExit, TrapKilled, ExitLock, CallWait, Resume,
        CallGetppid,
                WaitLock, WaitScan, Reparent, ForkParent, CallKill, table
  <2>2. \A q \in Slot : pc'[q] = "waitSleep" => pc[q] = "waitSleep"
    BY <1>0, <1>1, Zenon
    DEF Swtch, Forkret, CallFork, CallExit, TrapKilled, ExitLock, CallWait, Resume,
                CallGetppid, WaitLock, WaitScan, Reparent, ForkParent, CallKill, NextChild, Goto
  <2> QED
    BY <1>00, <2>1, <2>2, SameKill, Zenon
<1>2. CASE AllocNext(c, p) \/ KillMiss(c, p) \/ WaitNoCopy(c, p) \/ WaitGiveUp(c, p) \/ GetppidLoad(c, p)
  <2>1. UNCHANGED <<state, killed>>
    BY <1>2, Zenon DEF AllocNext, KillMiss, WaitNoCopy, WaitGiveUp, GetppidLoad, table
  <2>2. \A q \in Slot : pc'[q] = "waitSleep" => pc[q] = "waitSleep"
    BY <1>0, <1>2, Zenon
    DEF AllocNext, KillMiss, WaitNoCopy, WaitGiveUp, GetppidLoad, NextSlotOrReturn,
                      Return, Goto
  <2> QED
    BY <1>00, <2>1, <2>2, SameKill, Zenon
<1>3. CASE WakeInit(c, p) \/ WakeParent(c, p)
  <2>1. killed' = killed /\ \E ch : WakeSlot(p, ch)
    BY <1>3, Zenon DEF WakeInit, WakeParent
  <2>2. \A q \in Slot : state'[q] = "SLEEPING" => state[q] = "SLEEPING"
    BY <1>0, <2>1, Zenon DEF WakeSlot
  <2>3. \A q \in Slot : pc'[q] = "waitSleep" => pc[q] = "waitSleep"
    BY <1>0, <1>3, Zenon DEF WakeInit, WakeParent, NextChild, Goto
  <2> QED
    BY <1>00, <2>1, <2>2, <2>3, SameKill, Zenon
<1>4. CASE ExitZombie(c, p) \/ ForkReady(c, p) \/ AllocTake(c, p)
  <2>1. killed' = killed
    BY <1>4, Zenon DEF ExitZombie, ForkReady, AllocTake
  <2>2. /\ \A q \in Slot : state'[q] = "SLEEPING" => state[q] = "SLEEPING"
        /\ \A q \in Slot : pc'[q] = "waitSleep" => pc[q] = "waitSleep"
    BY <1>0, <1>4, Zenon DEF ExitZombie, ForkReady, AllocTake, Return, Goto
  <2> QED
    BY <1>00, <2>1, <2>2, SameKill, Zenon
<1>5. CASE AllocFail(c, p) \/ WaitReap(c, p)
  <2>1. \A q \in Slot : killed'[q] => killed[q]
    BY <1>0, <1>5, Zenon DEF AllocFail, WaitReap, FreeProc
  <2>2. /\ \A q \in Slot : state'[q] = "SLEEPING" => state[q] = "SLEEPING"
        /\ \A q \in Slot : pc'[q] = "waitSleep" => pc[q] = "waitSleep"
    BY <1>0, <1>5, Zenon DEF AllocFail, WaitReap, FreeProc, Return, Goto
  <2> QED
    BY <1>00, <2>1, <2>2, SameKill, Zenon
<1>6. CASE WaitGoOn(c, p)
  <2>1. /\ UNCHANGED <<state, killed>> /\ ~killed[p]
        /\ \A q \in Slot : q # p => pc'[q] = pc[q]
    BY <1>0, <1>6, Zenon DEF WaitGoOn, Goto, table
  <2> QED
    BY <1>00, <2>1, Zenon DEF KillInv
<1>7. CASE WaitSleep(c, p)
  <2>1. /\ killed' = killed /\ pc[p] = "waitSleep"
        /\ \A q \in Slot : q # p => pc'[q] = pc[q] /\ state'[q] = state[q]
    BY <1>0, <1>7, Zenon DEF WaitSleep, Goto
  <2> QED
    BY <1>00, <2>1, Zenon DEF KillInv
<1>8. CASE KillHit(c, p)
  <2> DEFINE s == idx[p]
  <2>1. /\ s \in Slot /\ On(c, p) /\ pc'[p] = "user" /\ state'[s] # "SLEEPING"
        /\ \A q \in Slot : state'[q] = "SLEEPING" => state[q] = "SLEEPING"
        /\ \A q \in Slot : q # p => pc'[q] = pc[q]
    BY <1>0, <1>8, Zenon DEF KillHit, Return, Goto
  <2>2. \A q \in Slot : q # s => killed'[q] = killed[q]
    BY <1>0, <1>8, Zenon DEF KillHit
  <2>3. ASSUME OneHart, pc'[s] = "waitSleep" PROVE FALSE
    <3>1. s # p /\ pc[s] = "waitSleep"
      BY <2>1, <2>3, Zenon
    <3>2. PICK d \in CPU : cproc[d] = s
      BY <2>1, <3>1, Zenon DEF LockInv, OffInv, Saved
    <3>3. d \in up /\ c \in up
      BY <2>1, <3>2, OnIsUp, Zenon DEF On
    <3> QED
      BY <2>1, <2>3, <3>1, <3>2, <3>3, Zenon DEF OneHart, On
  <2>4. ASSUME OneHart', NEW q \in Slot, state'[q] = "SLEEPING" \/ pc'[q] = "waitSleep"
        PROVE  ~killed'[q]
    <3>1. OneHart
      BY <1>00, <2>4, Zenon
    <3>2. q # s
      BY <2>1, <2>3, <2>4, <3>1, Zenon
    <3>3. state[q] = "SLEEPING" \/ pc[q] = "waitSleep"
      BY <2>1, <2>4, Zenon
    <3> QED
      BY <2>2, <3>1, <3>2, <3>3, Zenon DEF KillInv
  <2> QED
    BY <2>4, Zenon DEF KillInv
<1> QED
  BY <1>1, <1>2, <1>3, <1>4, <1>5, <1>6, <1>7, <1>8, Zenon DEF Process

\* The other harts have passed no slot.
LEMMA OthersIdle ==
  ASSUME HartInv, OneHart, NEW c \in up, NEW d \in CPU, d # c
  PROVE  \A q \in Slot : ~(q < si[d])
<1>1. si[d] = 1
  BY Zenon DEF HartInv, OneHart
<1> QED
  BY <1>1, SMTT(30) DEF Slot

\* While a process runs on the only hart, no scan is under way.
LEMMA LowProcess ==
  ASSUME LockInv, HartInv, NEW c \in CPU, NEW p \in Slot, Process(c, p)
  PROVE  LowInv'
<1> SUFFICES ASSUME OneHart', NEW d \in CPU, NEW q \in Slot, q < si'[d]
             PROVE  FALSE
  BY Zenon DEF LowInv
<1>1. OneHart /\ On(c, p) /\ si' = si
  BY OneHartBefore, CpusKept, Zenon
<1>2. c \in up /\ si[c] = 1
  BY <1>1, OnIsUp, RefFacts, Zenon DEF HartInv, On
<1>3. d # c
  BY <1>1, <1>2, SMTT(30) DEF Slot
<1> QED
  BY <1>1, <1>2, <1>3, OthersIdle, Zenon

\* A scan that examines one more slot holds the lowest pid so far.
LEMMA LowScan ==
  ASSUME LockInv, HartInv, LowInv, NEW c \in CPU, Scan(c)
  PROVE  LowInv'
<1> DEFINE s == si[c]
<1>0. /\ state \in [Slot -> ProcState] /\ pid \in [Slot -> Nat] /\ si \in [CPU -> ScanIdx]
      /\ first \in [CPU -> ProcRef]
  BY Zenon DEF LockInv, TypeOK
<1>1. /\ c \in up /\ s \in Slot /\ cproc[c] = NoProc /\ si'[c] = s + 1
      /\ UNCHANGED <<cproc, up, state, pid>>
      /\ \A d \in CPU : d # c => si'[d] = si[d] /\ first'[d] = first[d]
      /\ Better(c, s) => first'[c] = s
      /\ ~Better(c, s) => first'[c] = first[c]
  BY <1>0, Zenon DEF Scan, table
<1> SUFFICES ASSUME OneHart', NEW d \in CPU, NEW q \in Slot, cproc'[d] = NoProc,
                    q < si'[d], state'[q] = "RUNNABLE"
             PROVE  first'[d] # NoProc /\ pid'[first'[d]] <= pid'[q]
  BY Zenon DEF LowInv
<1>2. OneHart
  BY <1>1, Zenon DEF OneHart
<1>3. d = c
  BY <1>1, <1>2, OthersIdle, Zenon
<1>4. q < s \/ q = s
  BY <1>1, <1>3, SMTT(30) DEF Slot
<1>5. q < s => first[c] # NoProc /\ first[c] \in Slot /\ pid[first[c]] <= pid[q]
  BY <1>0, <1>1, <1>2, RefFacts, Zenon DEF LowInv
<1>6. CASE Better(c, s)
  <2>1. first'[d] = s /\ s # NoProc
    BY <1>1, <1>3, <1>6, RefFacts, Zenon
  <2>2. CASE q = s
    BY <1>0, <1>1, <2>1, <2>2, SMTT(30)
  <2>3. CASE q < s
    <3>1. pid[s] < pid[first[c]] /\ pid[first[c]] <= pid[q]
      BY <1>5, <1>6, <2>3, Zenon DEF Better
    <3>2. pid[s] \in Nat /\ pid[first[c]] \in Nat /\ pid[q] \in Nat
      BY <1>0, <1>1, <1>5, <2>3, Zenon
    <3>3. pid[s] <= pid[q]
      BY <3>1, <3>2, SMTT(30)
    <3> QED
      BY <1>1, <2>1, <3>3, Zenon
  <2> QED
    BY <1>4, <2>2, <2>3, Zenon
<1>7. CASE ~Better(c, s)
  <2>1. first'[d] = first[c]
    BY <1>1, <1>3, <1>7, Zenon
  <2>2. CASE q = s
    <3>1. first[c] # NoProc /\ first[c] \in Slot /\ ~(pid[s] < pid[first[c]])
      BY <1>0, <1>1, <1>7, <2>2, RefFacts, Zenon DEF Better
    <3>2. pid[first[c]] <= pid[s]
      BY <1>0, <1>1, <3>1, SMTT(30)
    <3> QED
      BY <1>1, <2>1, <2>2, <3>1, <3>2, Zenon
  <2>3. CASE q < s
    BY <1>1, <1>5, <2>1, <2>3, Zenon
  <2> QED
    BY <1>4, <2>2, <2>3, Zenon
<1> QED
  BY <1>6, <1>7, Zenon

\* A round that ends, with a process or without, forgets what it has seen.
LEMMA LowEnd ==
  ASSUME LockInv, HartInv, NEW c \in CPU, Dispatch(c) \/ Idle(c)
  PROVE  LowInv'
<1>0. si \in [CPU -> ScanIdx]
  BY Zenon DEF LockInv, TypeOK
<1> SUFFICES ASSUME OneHart', NEW d \in CPU, NEW q \in Slot, q < si'[d]
             PROVE  FALSE
  BY Zenon DEF LowInv
<1>1. /\ up' = up /\ si'[c] = 1 /\ si[c] # 1
      /\ \A e \in CPU : e # c => si'[e] = si[e]
  BY <1>0, NPROCAssumption, SMTT(30) DEF Dispatch, Idle
<1>2. OneHart /\ c \in up
  BY <1>1, Zenon DEF OneHart, HartInv
<1>3. d # c
  BY <1>1, SMTT(30) DEF Slot
<1> QED
  BY <1>1, <1>2, <1>3, OthersIdle, Zenon

-----------------------------------------------------------------------------
\* The invariant behind the results for one hart.
OneHartInv == HartInv /\ KillInv /\ LowInv

\* OneHartInv is an invariant: it constrains the states with one hart running.
THEOREM OneHartInvariant == Spec => []OneHartInv
<1>1. Init => OneHartInv
  <2> SUFFICES ASSUME Init PROVE OneHartInv
    BY Zenon
  <2>1. \A c \in CPU : cproc[c] = NoProc /\ si[c] = 1 /\ first[c] = NoProc
    BY Zenon DEF Init
  <2>2. \A p \in Slot : ~killed[p]
    BY Zenon DEF Init
  <2>3. \A q \in Slot : ~(q < 1)
    BY SMTT(30) DEF Slot
  <2> QED
    BY <2>1, <2>2, <2>3, Zenon DEF OneHartInv, HartInv, KillInv, LowInv
<1>2. ASSUME LockInv, OneHartInv, [Next]_vars PROVE OneHartInv'
  <2>1. CASE UNCHANGED vars
    BY <1>2, <2>1, Zenon
    DEF vars, table, cpus, OneHartInv, HartInv, KillInv, LowInv, OneHart
  <2>2. ASSUME NEW c \in CPU, NEW p \in Slot, Process(c, p) PROVE OneHartInv'
    BY <1>2, <2>2, HartStep, KillStep, LowProcess, Zenon DEF OneHartInv
  <2>3. ASSUME NEW c \in CPU, Start(c) \/ Scheduler(c) PROVE OneHartInv'
    <3>1. HartInv'
      BY <1>2, <2>3, HartStep, Zenon DEF OneHartInv
    <3>2. KillInv'
      <4>1. OneHart' => OneHart
        BY <1>2, <2>3, OneHartBefore, Zenon DEF OneHartInv
      <4>2. UNCHANGED <<killed, pc>>
        BY <2>3, Zenon DEF Start, Scheduler, Scan, Dispatch, Idle, table
      <4>3. \A q \in Slot : state'[q] = "SLEEPING" => state[q] = "SLEEPING"
        BY <1>2, <2>3, Zenon
        DEF Start, Scheduler, Scan, Dispatch, Idle, table, LockInv, TypeOK
      <4> QED
        BY <1>2, <4>1, <4>2, <4>3, SameKill, Zenon DEF OneHartInv
    <3>3. LowInv'
      <4>1. CASE Start(c)
        <5>1. OneHart' => OneHart
          BY <1>2, <2>3, OneHartBefore, Zenon DEF OneHartInv
        <5> QED
          BY <1>2, <4>1, <5>1, Zenon DEF Start, table, OneHartInv, LowInv
      <4>2. CASE Scheduler(c)
        BY <1>2, <4>2, LowScan, LowEnd, Zenon DEF Scheduler, OneHartInv
      <4> QED
        BY <2>3, <4>1, <4>2, Zenon
    <3> QED
      BY <3>1, <3>2, <3>3, Zenon DEF OneHartInv
  <2> QED
    BY <1>2, <2>1, <2>2, <2>3, Zenon DEF Next
<1> QED
  BY LockInvariant, <1>1, <1>2, PTL DEF Spec

\* While one hart runs, no process stays asleep in wait() with p->killed set,
\* although kwait() tests killed() before sleep() takes p->lock.
THEOREM KillEndsWait == Spec => []KillInterruptsWait
<1>1. OneHartInv => KillInterruptsWait
  BY Zenon DEF OneHartInv, KillInv, KillInterruptsWait
<1> QED
  BY OneHartInvariant, <1>1, PTL

\* While one hart runs, scheduler() dispatches the RUNNABLE process with the
\* lowest pid, although it gives up every lock but that of its candidate.
THEOREM LowestPidFirst == Spec => []LowestPidChosen
<1>1. LockInv /\ OneHartInv => LowestPidChosen
  <2> SUFFICES ASSUME LockInv, OneHartInv, OneHart, NEW c \in CPU,
                      si[c] = NPROC + 1, first[c] # NoProc,
                      NEW q \in Slot, state[q] = "RUNNABLE"
               PROVE  pid[first[c]] <= pid[q]
    BY Zenon DEF LowestPidChosen
  <2>1. cproc[c] = NoProc
    BY Zenon DEF LockInv, FirstInv
  <2>2. q < si[c]
    BY NPROCAssumption, SMTT(30) DEF Slot
  <2> QED
    BY <2>1, <2>2, Zenon DEF OneHartInv, LowInv
<1> QED
  BY LockInvariant, OneHartInvariant, <1>1, PTL
=============================================================================
