----------------------------- MODULE ProcProofs -----------------------------
(***************************************************************************)
(* Proofs about Proc, for any number of slots and CPUs.                    *)
(***************************************************************************)
EXTENDS Proc, TLAPS

-----------------------------------------------------------------------------
(* Type correctness.                                                         *)

\* What the proofs use of slot numbers and slot references.
LEMMA SlotFacts ==
  /\ initproc \in Slot
  /\ \A s \in Slot : s \in ProcRef /\ s \in Nat /\ s # NoProc
  /\ \A s \in ProcRef : s \in Nat /\ (s # NoProc => s \in Slot)
  /\ NoProc \in ProcRef
  /\ \A s \in Slot : s < NPROC => s + 1 \in Slot
  /\ \A s \in Slot : s \in ScanIdx /\ s + 1 \in ScanIdx
  /\ 1 \in Slot /\ 1 \in ScanIdx
  BY NPROCAssumption, SMTT(30) DEF Slot, ProcRef, ScanIdx, NoProc, initproc

\* A null reference is the only one that is not a slot.
LEMMA RefFacts ==
  /\ \A s \in Slot : s \in ProcRef /\ s # NoProc
  /\ \A s \in ProcRef : s # NoProc => s \in Slot
  BY SlotFacts, Zenon

\* Every label and every process state used below is one.
LEMMA NameFacts ==
  /\ "forkret" \in Label /\ "user" \in Label /\ "alloc" \in Label
  /\ "forkParent" \in Label /\ "forkReady" \in Label /\ "exitLock" \in Label
  /\ "reparent" \in Label /\ "wakeInit" \in Label /\ "wakeParent" \in Label
  /\ "exitZombie" \in Label /\ "zombieSched" \in Label /\ "dead" \in Label
  /\ "waitLock" \in Label /\ "waitScan" \in Label /\ "waitDecide" \in Label
  /\ "waitSleep" \in Label /\ "sleepSched" \in Label /\ "resume" \in Label
  /\ "kill" \in Label /\ "getppid" \in Label
  /\ "UNUSED" \in ProcState /\ "USED" \in ProcState /\ "SLEEPING" \in ProcState
  /\ "RUNNABLE" \in ProcState /\ "RUNNING" \in ProcState /\ "ZOMBIE" \in ProcState
  BY Zenon DEF Label, ProcState

\* The state userinit() leaves is well typed.
LEMMA InitType == Init => TypeOK
<1> SUFFICES ASSUME Init PROVE TypeOK
  BY Zenon
<1>1. up \subseteq CPU
  BY Zenon DEF Init
<1> QED
  BY <1>1, SlotFacts, NameFacts, Zenon DEF Init, TypeOK, UpOK

\* A hart that enters scheduler() changes nothing but the set of those that have.
LEMMA StartType ==
  ASSUME TypeOK, NEW c \in CPU, Start(c)
  PROVE  TypeOK'
  BY Zenon DEF TypeOK, UpOK, Start, table, locks, local

\* The steps of scheduler() preserve the types.
LEMMA SchedulerType ==
  ASSUME TypeOK, NEW c \in CPU, Scheduler(c)
  PROVE  TypeOK'
<1> USE NameFacts DEF TypeOK, UpOK, table, locks, local
<1>0. /\ NoProc \in ProcRef /\ 1 \in ScanIdx
      /\ si[c] \in Slot => si[c] \in ProcRef /\ si[c] + 1 \in ScanIdx
  BY SlotFacts, Zenon
<1> USE <1>0
<1>1. CASE Scan(c)
  BY <1>1, Zenon DEF Scan
<1>2. CASE Dispatch(c)
  BY <1>2, Zenon DEF Dispatch
<1>3. CASE Idle(c)
  BY <1>3, Zenon DEF Idle
<1> QED
  BY <1>1, <1>2, <1>3, Zenon DEF Scheduler

\* The types of the locals of process p.
LocalType ==
  /\ pc \in [Slot -> Label]
  /\ idx \in [Slot -> Slot]
  /\ widx \in [Slot -> Slot]
  /\ tmp \in [Slot -> Nat]
  /\ kids \in [Slot -> BOOLEAN]

\* Leaving the kernel resets the locals to values of their types.
LEMMA ReturnType ==
  ASSUME LocalType, NEW p \in Slot, Return(p)
  PROVE  LocalType'
<1>1. "user" \in Label /\ 1 \in Slot /\ 0 \in Nat
  BY NameFacts, SlotFacts, Zenon
<1> QED
  BY <1>1, Zenon DEF LocalType, Return, Goto

\* The loops of allocproc() and kkill() stay inside proc[].
LEMMA NextSlotType ==
  ASSUME LocalType, NEW p \in Slot, NextSlotOrReturn(p)
  PROVE  LocalType'
<1>1. CASE idx[p] < NPROC /\ idx' = [idx EXCEPT ![p] = @ + 1]
           /\ UNCHANGED <<pc, widx, tmp, kids>>
  <2>1. idx[p] + 1 \in Slot
    BY <1>1, SlotFacts, Zenon DEF LocalType
  <2> QED
    BY <1>1, <2>1, Zenon DEF LocalType
<1>2. CASE Return(p)
  BY <1>2, ReturnType, Zenon
<1> QED
  BY <1>1, <1>2, Zenon DEF NextSlotOrReturn

\* So does the loop of reparent().
LEMMA NextChildType ==
  ASSUME LocalType, NEW p \in Slot, NextChild(p)
  PROVE  pc' \in [Slot -> Label] /\ idx' \in [Slot -> Slot]
<1>1. /\ "reparent" \in Label /\ "wakeParent" \in Label /\ 1 \in Slot
      /\ idx[p] < NPROC => idx[p] + 1 \in Slot
  BY NameFacts, SlotFacts, Zenon DEF LocalType
<1> QED
  BY <1>1, SMTT(30) DEF LocalType, NextChild, Goto

\* wakeup() leaves a well-typed state array.
LEMMA WakeSlotType ==
  ASSUME TypeOK, NEW p \in Slot, NEW ch, WakeSlot(p, ch)
  PROVE  state' \in [Slot -> ProcState]
<1>1. "RUNNABLE" \in ProcState
  BY NameFacts, Zenon
<1> QED
  BY <1>1, Zenon DEF TypeOK, WakeSlot

\* So does freeproc() for all the fields it resets.
LEMMA FreeProcType ==
  ASSUME TypeOK, NEW s, FreeProc(s)
  PROVE  /\ pid' \in [Slot -> Nat]
         /\ parent' \in [Slot -> ProcRef]
         /\ chan' \in [Slot -> ProcRef]
         /\ killed' \in [Slot -> BOOLEAN]
         /\ state' \in [Slot -> ProcState]
<1>1. NoProc \in ProcRef /\ 0 \in Nat /\ "UNUSED" \in ProcState
  BY NameFacts, SlotFacts, Zenon
<1> QED
  BY <1>1, Zenon DEF TypeOK, FreeProc

\* Every step of a process, in the kernel or out of it, preserves the types.
LEMMA ProcessType ==
  ASSUME TypeOK, NEW c \in CPU, NEW p \in Slot, Process(c, p)
  PROVE  TypeOK'
<1> USE NameFacts DEF TypeOK, UpOK, LocalType, table, locks, cpus, local, Goto
<1>0. /\ p \in ProcRef /\ NoProc \in ProcRef /\ initproc \in ProcRef
      /\ 1 \in Slot /\ 0 \in Nat /\ parent[p] \in Nat /\ idx[p] \in Nat
      /\ idx[p] < NPROC => idx[p] + 1 \in Slot
      /\ widx[p] < NPROC => widx[p] + 1 \in Slot
      /\ nextpid + 1 \in Nat
  BY SlotFacts, SMTT(30)
<1> USE <1>0
<1>1. CASE Swtch(c, p)
  BY <1>1, Zenon DEF Swtch
<1>2. CASE Forkret(c, p)
  BY <1>2, Zenon DEF Forkret
<1>3. CASE CallFork(c, p)
  BY <1>3, Zenon DEF CallFork
<1>4. CASE AllocNext(c, p)
  BY <1>4, NextSlotType, Zenon DEF AllocNext
<1>5. CASE AllocTake(c, p)
  BY <1>5, SMTT(30) DEF AllocTake
<1>6. CASE AllocFail(c, p)
  BY <1>6, ReturnType, FreeProcType, Zenon DEF AllocFail
<1>7. CASE ForkParent(c, p)
  BY <1>7, Zenon DEF ForkParent
<1>8. CASE ForkReady(c, p)
  BY <1>8, ReturnType, Zenon DEF ForkReady
<1>9. CASE CallExit(c, p)
  BY <1>9, Zenon DEF CallExit
<1>10. CASE TrapKilled(c, p)
  BY <1>10, Zenon DEF TrapKilled
<1>11. CASE ExitLock(c, p)
  BY <1>11, Zenon DEF ExitLock
<1>12. CASE Reparent(c, p)
  BY <1>12, NextChildType, SMTT(30) DEF Reparent
<1>13. CASE WakeInit(c, p)
  BY <1>13, NextChildType, WakeSlotType, SMTT(30) DEF WakeInit
<1>14. CASE WakeParent(c, p)
  BY <1>14, WakeSlotType, SMTT(30) DEF WakeParent
<1>15. CASE ExitZombie(c, p)
  BY <1>15, Zenon DEF ExitZombie
<1>16. CASE CallWait(c, p)
  BY <1>16, Zenon DEF CallWait
<1>17. CASE WaitLock(c, p)
  BY <1>17, Zenon DEF WaitLock
<1>18. CASE WaitReap(c, p)
  BY <1>18, ReturnType, FreeProcType, Zenon DEF WaitReap
<1>19. CASE WaitNoCopy(c, p)
  BY <1>19, ReturnType, Zenon DEF WaitNoCopy
<1>20. CASE WaitScan(c, p)
  <2>1. kids' \in [Slot -> BOOLEAN]
    BY <1>20, Zenon DEF WaitScan
  <2>2. pc' \in [Slot -> Label] /\ idx' \in [Slot -> Slot]
    BY <1>20, SMTT(30) DEF WaitScan
  <2> QED
    BY <1>20, <2>1, <2>2, Zenon DEF WaitScan
<1>21. CASE WaitGiveUp(c, p)
  BY <1>21, ReturnType, Zenon DEF WaitGiveUp
<1>22. CASE WaitGoOn(c, p)
  BY <1>22, Zenon DEF WaitGoOn
<1>23. CASE WaitSleep(c, p)
  BY <1>23, Zenon DEF WaitSleep
<1>24. CASE Resume(c, p)
  BY <1>24, Zenon DEF Resume
<1>25. CASE CallKill(c, p)
  BY <1>25, KillPidsAssumption, SMTT(30) DEF CallKill
<1>26. CASE KillHit(c, p)
  BY <1>26, ReturnType, Zenon DEF KillHit
<1>27. CASE KillMiss(c, p)
  BY <1>27, NextSlotType, Zenon DEF KillMiss
<1>28. CASE CallGetppid(c, p)
  BY <1>28, Zenon DEF CallGetppid
<1>29. CASE GetppidLoad(c, p)
  BY <1>29, ReturnType, Zenon DEF GetppidLoad
<1> QED
  BY <1>1, <1>2, <1>3, <1>4, <1>5, <1>6, <1>7, <1>8, <1>9, <1>10,
     <1>11, <1>12, <1>13, <1>14, <1>15, <1>16, <1>17, <1>18, <1>19, <1>20,
     <1>21, <1>22, <1>23, <1>24, <1>25, <1>26, <1>27, <1>28, <1>29, Zenon
  DEF Process

\* The table, the locks and the locals keep their types: in particular every
\* slot index the kernel follows stays inside the table.
THEOREM TypeCorrect == Spec => []TypeOK
<1>1. TypeOK /\ [Next]_vars => TypeOK'
  <2> SUFFICES ASSUME TypeOK, [Next]_vars PROVE TypeOK'
    BY Zenon
  <2>1. CASE UNCHANGED vars
    BY <2>1, Zenon DEF TypeOK, UpOK, vars, table, locks, cpus, local
  <2>2. CASE Next
    BY <2>2, StartType, SchedulerType, ProcessType, Zenon DEF Next
  <2> QED
    BY <2>1, <2>2, Zenon
<1> QED
  BY InitType, <1>1, PTL DEF Spec

-----------------------------------------------------------------------------
(* The inductive invariant of the locks and the CPUs.                        *)

\* Saved contexts, and the labels at which a running process holds p->lock.
Saved == {"forkret", "resume"}
Leaving == {"sleepSched", "zombieSched"}

\* A scan's candidate is RUNNABLE, behind the scan index, and locked by the scan.
FirstInv ==
  \A c \in CPU : first[c] # NoProc =>
    /\ cproc[c] = NoProc
    /\ first[c] < si[c]
    /\ plock[first[c]] = c
    /\ state[first[c]] = "RUNNABLE"

\* A process on a CPU is RUNNING until it is about to leave, and its CPU owns
\* p->lock whenever it has just been entered or is about to leave.
RunInv ==
  \A c \in CPU, p \in Slot : cproc[c] = p =>
    /\ pc[p] \in Saved \cup Leaving => plock[p] = c
    /\ pc[p] \in Leaving => state[p] \in {"SLEEPING", "ZOMBIE"}
    /\ pc[p] \notin Leaving => state[p] = "RUNNING"
    /\ pc[p] # "dead"

\* A process off every CPU is at a saved context, or is dead.
OffInv ==
  \A p \in Slot :
    /\ pc[p] \in Saved \cup {"dead"} \/ \E c \in CPU : cproc[c] = p
    /\ state[p] \in {"USED", "RUNNABLE"} => pc[p] \in Saved
    /\ state[p] = "SLEEPING" => pc[p] \in {"sleepSched", "resume"}

\* The slot a fork is filling is USED, and no other fork is filling it.
ForkInv ==
  \A p \in Slot : pc[p] \in {"forkParent", "forkReady"} =>
    /\ tmp[p] \in Slot
    /\ state[tmp[p]] = "USED"
    /\ \A q \in Slot : q # p /\ pc[q] \in {"forkParent", "forkReady"} => tmp[q] # tmp[p]

\* Who can own p->lock, and who owns wait_lock.
OwnerInv ==
  /\ \A c \in CPU, p \in Slot : plock[p] = c =>
       first[c] = p \/ (cproc[c] = p /\ pc[p] \in Saved \cup Leaving)
  /\ \A c \in CPU : waitlock = c =>
       cproc[c] # NoProc /\ pc[cproc[c]] \in HoldsWaitLock
  /\ \A c \in CPU, p \in Slot :
       cproc[c] = p /\ pc[p] \in HoldsWaitLock => waitlock = c

LockInv ==
  TypeOK /\ OnOneCpu /\ FirstInv /\ RunInv /\ OffInv /\ ForkInv /\ OwnerInv

\* Most steps of a process stay inside the kernel and keep its p->lock free:
\* they move it from label to label, take or drop wait_lock on the way, and
\* shift at most one unlocked slot from SLEEPING to RUNNABLE or from ZOMBIE to
\* UNUSED.
Inner == HoldsWaitLock \cup {"user", "alloc", "exitLock", "waitLock", "kill", "getppid"}

Shift(w) ==
  /\ plock[w] = NoCpu
  /\ \/ /\ state[w] = "SLEEPING"
        /\ state' = [state EXCEPT ![w] = "RUNNABLE"]
     \/ /\ state[w] = "ZOMBIE"
        /\ state' = [state EXCEPT ![w] = "UNUSED"]

Move(c, p) ==
  /\ cproc[c] = p
  /\ pc[p] \in Inner
  /\ pc'[p] \in Inner
  /\ \A q \in Slot : q # p => pc'[q] = pc[q] /\ tmp'[q] = tmp[q]
  /\ UNCHANGED <<plock, cproc, si, first>>
  /\ state' = state \/ \E w \in Slot : Shift(w)
  /\ \/ /\ pc[p] \in HoldsWaitLock <=> pc'[p] \in HoldsWaitLock
        /\ waitlock' = waitlock
     \/ /\ pc[p] \in HoldsWaitLock /\ pc'[p] \notin HoldsWaitLock
        /\ waitlock' = NoCpu
     \/ /\ pc[p] \notin HoldsWaitLock /\ pc'[p] \in HoldsWaitLock
        /\ waitlock = NoCpu /\ waitlock' = c

\* Such a step preserves the lock invariant.
LEMMA MoveInv ==
  ASSUME LockInv, TypeOK', NEW c \in CPU, NEW p \in Slot, Move(c, p)
  PROVE  LockInv'
<1> USE CPUAssumption DEF LockInv, TypeOK
<1>0. pc[p] \notin Leaving \cup Saved /\ pc'[p] \notin Leaving \cup Saved
  BY Zenon DEF Move, Inner, HoldsWaitLock, Leaving, Saved
<1>1. /\ state[p] = "RUNNING" /\ state'[p] = "RUNNING"
      /\ \A q \in Slot : q # p => pc'[q] = pc[q]
      /\ \A d \in CPU : cproc[d] = p => d = c
  <2>1. state[p] = "RUNNING"
    BY <1>0, Zenon DEF Move, RunInv
  <2>2. state'[p] = "RUNNING"
    BY <2>1, Zenon DEF Move, Shift
  <2>3. \A d \in CPU : cproc[d] = p => d = c
    BY RefFacts, Zenon DEF Move, OnOneCpu
  <2> QED
    BY <2>1, <2>2, <2>3, Zenon DEF Move
<1>2. ASSUME NEW q \in Slot, state'[q] # state[q]
      PROVE  /\ plock[q] = NoCpu
             /\ \/ state[q] = "SLEEPING" /\ state'[q] = "RUNNABLE"
                \/ state[q] = "ZOMBIE" /\ state'[q] = "UNUSED"
             /\ \A d \in CPU : cproc[d] # q
  <2>1. PICK w \in Slot : Shift(w)
    BY <1>2, Zenon DEF Move
  <2>2. q = w
    BY <1>2, <2>1, Zenon DEF Shift
  <2>3. ASSUME NEW d \in CPU, cproc[d] = q PROVE FALSE
    BY <2>1, <2>2, <2>3, SMTT(30) DEF Shift, RunInv
  <2> QED
    BY <2>1, <2>2, <2>3, Zenon DEF Shift
<1>3. OnOneCpu'
  BY Zenon DEF Move, OnOneCpu
<1>4. FirstInv'
  BY <1>2, RefFacts, SMTT(30) DEF Move, FirstInv
<1>5. RunInv'
  <2>1. pc'[p] # "dead"
    BY Zenon DEF Move, Inner, HoldsWaitLock
  <2>2. UNCHANGED <<cproc, plock>>
    BY Zenon DEF Move
  <2>3. ASSUME NEW d \in CPU, NEW q \in Slot, cproc[d] = q, q # p
        PROVE  state'[q] = state[q] /\ pc'[q] = pc[q]
    BY <1>1, <1>2, <2>3, Zenon
  <2> QED
    BY <1>0, <1>1, <2>1, <2>2, <2>3, SMTT(30) DEF RunInv
<1>6. OffInv'
  BY <1>1, <1>2, SMTT(30) DEF Move, OffInv, Saved
<1>7. ForkInv'
  <2>1. pc'[p] \notin {"forkParent", "forkReady"}
    BY Zenon DEF Move, Inner, HoldsWaitLock
  <2>2. \A q \in Slot : q # p => tmp'[q] = tmp[q]
    BY Zenon DEF Move
  <2>3. ASSUME NEW q \in Slot, pc'[q] \in {"forkParent", "forkReady"}
        PROVE  q # p /\ pc[q] = pc'[q] /\ tmp'[q] = tmp[q]
    BY <1>1, <2>1, <2>2, <2>3, Zenon
  <2>4. \A r \in Slot : state[r] = "USED" => state'[r] = "USED"
    BY <1>2, Zenon
  <2> QED
    BY <2>3, <2>4, SMTT(30) DEF ForkInv
<1>8. OwnerInv'
  <2>1. ASSUME NEW d \in CPU, NEW q \in Slot, plock'[q] = d
        PROVE  first'[d] = q \/ (cproc'[d] = q /\ pc'[q] \in Saved \cup Leaving)
    <3>1. plock[q] = d /\ first'[d] = first[d] /\ cproc'[d] = cproc[d]
      BY <2>1, Zenon DEF Move
    <3> QED
      BY <1>0, <1>1, <3>1, Zenon DEF OwnerInv
  <2>2. ASSUME NEW d \in CPU, waitlock' = d
        PROVE  cproc'[d] # NoProc /\ pc'[cproc'[d]] \in HoldsWaitLock
    BY <1>1, <2>2, RefFacts, Zenon DEF Move, OwnerInv
  <2>3. ASSUME NEW d \in CPU, NEW q \in Slot, cproc'[d] = q, pc'[q] \in HoldsWaitLock
        PROVE  waitlock' = d
    BY <1>1, <2>3, SMTT(30) DEF Move, OwnerInv
  <2> QED
    BY <2>1, <2>2, <2>3, Zenon DEF OwnerInv
<1> QED
  BY <1>3, <1>4, <1>5, <1>6, <1>7, <1>8, Zenon

\* The steps that are moves.
Moves(c, p) ==
  \/ CallFork(c, p) \/ AllocNext(c, p) \/ AllocFail(c, p)
  \/ CallExit(c, p) \/ TrapKilled(c, p) \/ ExitLock(c, p) \/ Reparent(c, p)
  \/ WakeInit(c, p) \/ WakeParent(c, p)
  \/ CallWait(c, p) \/ WaitLock(c, p) \/ WaitReap(c, p) \/ WaitNoCopy(c, p)
  \/ WaitScan(c, p) \/ WaitGiveUp(c, p) \/ WaitGoOn(c, p)
  \/ CallKill(c, p) \/ KillHit(c, p) \/ KillMiss(c, p)
  \/ CallGetppid(c, p) \/ GetppidLoad(c, p)

\* The steps of which that is true: all but the ones treated one by one below.
LEMMA MovesMove ==
  ASSUME TypeOK, NEW c \in CPU, NEW p \in Slot, Moves(c, p)
  PROVE  Move(c, p)
<1> USE DEF TypeOK, Move, Inner, HoldsWaitLock, On, Goto, table, locks, cpus, local
<1>1. CASE CallFork(c, p)
  BY <1>1, Zenon DEF CallFork, Enters
<1>2. CASE AllocNext(c, p)
  BY <1>2, SMTT(30) DEF AllocNext, NextSlotOrReturn, Return
<1>3. CASE AllocFail(c, p)
  BY <1>3, Zenon DEF AllocFail, FreeProc, Return
<1>4. CASE CallExit(c, p)
  BY <1>4, Zenon DEF CallExit, Enters
<1>5. CASE TrapKilled(c, p)
  BY <1>5, Zenon DEF TrapKilled
<1>6. CASE ExitLock(c, p)
  BY <1>6, Zenon DEF ExitLock
<1>7. CASE Reparent(c, p)
  BY <1>7, Zenon DEF Reparent, NextChild
<1>8. CASE WakeInit(c, p)
  <2>1. state' = state \/ Shift(widx[p])
    BY <1>8, Zenon DEF WakeInit, WakeSlot, Shift
  <2> QED
    BY <1>8, <2>1, Zenon DEF WakeInit, NextChild
<1>9. CASE WakeParent(c, p)
  <2>1. state' = state \/ Shift(widx[p])
    BY <1>9, Zenon DEF WakeParent, WakeSlot, Shift
  <2> QED
    BY <1>9, <2>1, Zenon DEF WakeParent
<1>10. CASE CallWait(c, p)
  BY <1>10, Zenon DEF CallWait, Enters
<1>11. CASE WaitLock(c, p)
  BY <1>11, Zenon DEF WaitLock
<1>12. CASE WaitReap(c, p)
  <2>1. Shift(idx[p])
    BY <1>12, Zenon DEF WaitReap, IsChild, FreeProc, Shift
  <2> QED
    BY <1>12, <2>1, Zenon DEF WaitReap, Return
<1>13. CASE WaitNoCopy(c, p)
  BY <1>13, Zenon DEF WaitNoCopy, Return
<1>14. CASE WaitScan(c, p)
  BY <1>14, Zenon DEF WaitScan
<1>15. CASE WaitGiveUp(c, p)
  BY <1>15, Zenon DEF WaitGiveUp, Return
<1>16. CASE WaitGoOn(c, p)
  BY <1>16, Zenon DEF WaitGoOn
<1>17. CASE CallKill(c, p)
  BY <1>17, Zenon DEF CallKill, Enters
<1>18. CASE KillHit(c, p)
  <2>1. state' = state \/ Shift(idx[p])
    BY <1>18, Zenon DEF KillHit, Shift
  <2> QED
    BY <1>18, <2>1, Zenon DEF KillHit, Return
<1>19. CASE KillMiss(c, p)
  BY <1>19, SMTT(30) DEF KillMiss, NextSlotOrReturn, Return
<1>20. CASE CallGetppid(c, p)
  BY <1>20, Zenon DEF CallGetppid, Enters
<1>21. CASE GetppidLoad(c, p)
  BY <1>21, Zenon DEF GetppidLoad, Return
<1> QED
  BY <1>1, <1>2, <1>3, <1>4, <1>5, <1>6, <1>7, <1>8, <1>9, <1>10,
     <1>11, <1>12, <1>13, <1>14, <1>15, <1>16, <1>17, <1>18, <1>19, <1>20,
     <1>21, Zenon
  DEF Moves

\* Facts about a process that is on CPU c: no other CPU has it.
LEMMA OnlyOn ==
  ASSUME LockInv, NEW c \in CPU, NEW p \in Slot, On(c, p)
  PROVE  /\ \A d \in CPU : cproc[d] = p => d = c
         /\ first[c] = NoProc
         /\ \A d \in CPU : first[d] # p
         /\ pc[p] \notin Leaving => state[p] = "RUNNING"
<1> USE RefFacts DEF LockInv, On
<1>1. \A d \in CPU : cproc[d] = p => d = c
  BY Zenon DEF OnOneCpu
<1>2. first[c] = NoProc
  BY Zenon DEF FirstInv
<1>3. ASSUME NEW d \in CPU, first[d] = p PROVE FALSE
  <2>1. plock[p] = d /\ state[p] = "RUNNABLE" /\ d # c
    BY <1>2, <1>3, Zenon DEF FirstInv
  <2> QED
    BY <2>1, Zenon DEF RunInv
<1>4. pc[p] \notin Leaving => state[p] = "RUNNING"
  BY Zenon DEF RunInv
<1> QED
  BY <1>1, <1>2, <1>3, <1>4, Zenon

\* forkret() and the end of sleep(): release the lock the scheduler acquired.
LEMMA EnterInv ==
  ASSUME LockInv, TypeOK', NEW c \in CPU, NEW p \in Slot,
         Forkret(c, p) \/ Resume(c, p)
  PROVE  LockInv'
<1> USE CPUAssumption DEF LockInv, TypeOK
<1>1. /\ cproc[c] = p
      /\ pc[p] \in Saved
      /\ pc'[p] \in {"user", "waitLock"}
      /\ \A q \in Slot : q # p => pc'[q] = pc[q] /\ plock'[q] = plock[q]
      /\ plock'[p] = NoCpu
      /\ UNCHANGED <<state, waitlock, cproc, si, first, tmp>>
  BY SMTT(30) DEF Forkret, Resume, On, Goto, table, cpus, local, Saved
<1>2. /\ \A d \in CPU : cproc[d] = p => d = c
      /\ \A d \in CPU : first[d] # p
      /\ state[p] = "RUNNING"
  <2>1. On(c, p) /\ pc[p] \notin Leaving
    BY <1>1, Zenon DEF On, Saved, Leaving
  <2> QED
    BY <2>1, OnlyOn, Zenon
<1>3. OnOneCpu'
  BY <1>1, Zenon DEF OnOneCpu
<1>4. FirstInv'
  BY <1>1, <1>2, RefFacts, SMTT(30) DEF FirstInv
<1>5. RunInv'
  <2>1. ASSUME NEW d \in CPU, NEW q \in Slot, cproc'[d] = q
        PROVE  /\ pc'[q] \in Saved \cup Leaving => plock'[q] = d
               /\ pc'[q] \in Leaving => state'[q] \in {"SLEEPING", "ZOMBIE"}
               /\ pc'[q] \notin Leaving => state'[q] = "RUNNING"
               /\ pc'[q] # "dead"
    <3>1. CASE q = p
      <4>1. pc'[q] \notin Saved \cup Leaving /\ pc'[q] # "dead" /\ state'[q] = "RUNNING"
        BY <1>1, <1>2, <3>1, Zenon DEF Saved, Leaving
      <4> QED
        BY <4>1, Zenon
    <3>2. CASE q # p
      <4>1. pc'[q] = pc[q] /\ state'[q] = state[q] /\ plock'[q] = plock[q] /\ cproc[d] = q
        BY <1>1, <2>1, <3>2, Zenon
      <4> QED
        BY <4>1, SMTT(30) DEF RunInv
    <3> QED
      BY <3>1, <3>2, Zenon
  <2> QED
    BY <2>1, Zenon DEF RunInv
<1>6. OffInv'
  BY <1>1, <1>2, Zenon DEF OffInv
<1>7. ForkInv'
  BY <1>1, <1>2, SMTT(30) DEF ForkInv
<1>8. OwnerInv'
  <2>1. ASSUME NEW d \in CPU, NEW q \in Slot, plock'[q] = d
        PROVE  first'[d] = q \/ (cproc'[d] = q /\ pc'[q] \in Saved \cup Leaving)
    BY <1>1, <2>1, SMTT(30) DEF OwnerInv
  <2>2. ASSUME NEW d \in CPU, waitlock' = d
        PROVE  cproc'[d] # NoProc /\ pc'[cproc'[d]] \in HoldsWaitLock
    BY <1>1, <2>2, RefFacts, SMTT(30) DEF OwnerInv, Saved, HoldsWaitLock
  <2>3. ASSUME NEW d \in CPU, NEW q \in Slot, cproc'[d] = q, pc'[q] \in HoldsWaitLock
        PROVE  waitlock' = d
    BY <1>1, <2>3, Zenon DEF OwnerInv, HoldsWaitLock
  <2> QED
    BY <2>1, <2>2, <2>3, Zenon DEF OwnerInv
<1> QED
  BY <1>3, <1>4, <1>5, <1>6, <1>7, <1>8, Zenon

\* sleep() and exit() up to sched(): acquire p->lock, drop wait_lock.
LEMMA LeaveInv ==
  ASSUME LockInv, TypeOK', NEW c \in CPU, NEW p \in Slot,
         ExitZombie(c, p) \/ WaitSleep(c, p)
  PROVE  LockInv'
<1> USE CPUAssumption DEF LockInv, TypeOK
<1>1. /\ cproc[c] = p
      /\ pc[p] \in {"exitZombie", "waitSleep"}
      /\ plock[p] = NoCpu /\ plock'[p] = c
      /\ \/ pc'[p] = "zombieSched" /\ state'[p] = "ZOMBIE"
         \/ pc'[p] = "sleepSched" /\ state'[p] = "SLEEPING"
      /\ \A q \in Slot : q # p => /\ pc'[q] = pc[q] /\ plock'[q] = plock[q]
                                  /\ state'[q] = state[q]
      /\ waitlock' = NoCpu
      /\ UNCHANGED <<cproc, si, first, tmp>>
  BY SMTT(30) DEF ExitZombie, WaitSleep, On, Goto, cpus, local
<1>2. /\ \A d \in CPU : cproc[d] = p => d = c
      /\ \A d \in CPU : first[d] # p
      /\ state[p] = "RUNNING"
      /\ waitlock = c
  BY <1>1, OnlyOn, SMTT(30) DEF On, Leaving, OwnerInv, HoldsWaitLock
<1>3. OnOneCpu'
  BY <1>1, SMTT(30) DEF OnOneCpu
<1>4. FirstInv'
  BY <1>1, <1>2, RefFacts, SMTT(30) DEF FirstInv
<1>5. RunInv'
  <2>1. ASSUME NEW d \in CPU, NEW q \in Slot, cproc'[d] = q
        PROVE  /\ pc'[q] \in Saved \cup Leaving => plock'[q] = d
               /\ pc'[q] \in Leaving => state'[q] \in {"SLEEPING", "ZOMBIE"}
               /\ pc'[q] \notin Leaving => state'[q] = "RUNNING"
               /\ pc'[q] # "dead"
    <3>1. CASE q = p
      BY <1>1, <1>2, <2>1, <3>1, SMTT(30) DEF Saved, Leaving
    <3>2. CASE q # p
      BY <1>1, <2>1, <3>2, SMTT(30) DEF RunInv
    <3> QED
      BY <3>1, <3>2, Zenon
  <2> QED
    BY <2>1, Zenon DEF RunInv
<1>6. OffInv'
  BY <1>1, <1>2, SMTT(30) DEF OffInv
<1>7. ForkInv'
  BY <1>1, <1>2, SMTT(30) DEF ForkInv
<1>8. OwnerInv'
  <2>1. ASSUME NEW d \in CPU, NEW q \in Slot, plock'[q] = d
        PROVE  first'[d] = q \/ (cproc'[d] = q /\ pc'[q] \in Saved \cup Leaving)
    BY <1>1, <2>1, SMTT(30) DEF OwnerInv, Leaving
  <2>2. ASSUME NEW d \in CPU, NEW q \in Slot, cproc'[d] = q, pc'[q] \in HoldsWaitLock
        PROVE  FALSE
    <3>1. q # p
      BY <1>1, <2>2, Zenon DEF HoldsWaitLock
    <3>2. waitlock = d
      BY <1>1, <2>2, <3>1, SMTT(30) DEF OwnerInv
    <3> QED
      BY <1>1, <1>2, <2>2, <3>1, <3>2, Zenon
  <2> QED
    BY <1>1, <2>1, <2>2, Zenon DEF OwnerInv
<1> QED
  BY <1>3, <1>4, <1>5, <1>6, <1>7, <1>8, Zenon

\* sched(): the process is off the CPU, then its lock is free.
LEMMA SwtchInv ==
  ASSUME LockInv, TypeOK', NEW c \in CPU, NEW p \in Slot, Swtch(c, p)
  PROVE  LockInv'
<1> USE CPUAssumption DEF LockInv, TypeOK
<1>1. /\ cproc[c] = p
      /\ pc[p] \in Leaving
      /\ pc'[p] = IF pc[p] = "sleepSched" THEN "resume" ELSE "dead"
      /\ \A q \in Slot : q # p => pc'[q] = pc[q] /\ plock'[q] = plock[q]
      /\ plock'[p] = NoCpu
      /\ cproc'[c] = NoProc
      /\ \A d \in CPU : d # c => cproc'[d] = cproc[d]
      /\ UNCHANGED <<state, waitlock, si, first, tmp>>
  BY SMTT(30) DEF Swtch, On, table, local, Leaving
<1>2. /\ \A d \in CPU : cproc[d] = p => d = c
      /\ \A d \in CPU : first[d] # p
      /\ state[p] \in {"SLEEPING", "ZOMBIE"}
  BY <1>1, OnlyOn, SMTT(30) DEF On, RunInv
<1>3. OnOneCpu'
  BY <1>1, SMTT(30) DEF OnOneCpu
<1>4. FirstInv'
  BY <1>1, <1>2, RefFacts, SMTT(30) DEF FirstInv
<1>5. RunInv'
  <2>1. ASSUME NEW d \in CPU, NEW q \in Slot, cproc'[d] = q
        PROVE  cproc[d] = q /\ q # p /\ d # c
    BY <1>1, <1>2, <2>1, RefFacts, SMTT(30)
  <2> QED
    BY <1>1, <2>1, SMTT(30) DEF RunInv
<1>6. OffInv'
  <2>1. ASSUME NEW q \in Slot, q # p, NEW d \in CPU, cproc[d] = q
        PROVE  cproc'[d] = q
    BY <1>1, <2>1, Zenon
  <2>2. pc'[p] \in {"resume", "dead"} /\ (state[p] = "SLEEPING" => pc'[p] = "resume")
    BY <1>1, <1>2, Zenon DEF OffInv, Leaving
  <2>3. ASSUME NEW q \in Slot, q # p
        PROVE  pc'[q] \in Saved \cup {"dead"} \/ \E d \in CPU : cproc'[d] = q
    BY <1>1, <2>1, <2>3, SMTT(30) DEF OffInv
  <2> QED
    BY <1>1, <1>2, <2>2, <2>3, Zenon DEF OffInv, Saved
<1>7. ForkInv'
  BY <1>1, SMTT(30) DEF ForkInv, Leaving
<1>8. OwnerInv'
  <2>1. ASSUME NEW d \in CPU, NEW q \in Slot, plock'[q] = d
        PROVE  first'[d] = q \/ (cproc'[d] = q /\ pc'[q] \in Saved \cup Leaving)
    BY <1>1, <2>1, SMTT(30) DEF OwnerInv
  <2>2. ASSUME NEW d \in CPU, waitlock' = d
        PROVE  cproc'[d] # NoProc /\ pc'[cproc'[d]] \in HoldsWaitLock
    BY <1>1, <1>2, <2>2, RefFacts, SMTT(30) DEF OwnerInv, Leaving, HoldsWaitLock
  <2>3. ASSUME NEW d \in CPU, NEW q \in Slot, cproc'[d] = q, pc'[q] \in HoldsWaitLock
        PROVE  waitlock' = d
    <3>1. d # c /\ cproc[d] = q /\ q # p
      BY <1>1, <1>2, <2>3, RefFacts, SMTT(30)
    <3> QED
      BY <1>1, <2>3, <3>1, Zenon DEF OwnerInv
  <2> QED
    BY <2>1, <2>2, <2>3, Zenon DEF OwnerInv
<1> QED
  BY <1>3, <1>4, <1>5, <1>6, <1>7, <1>8, Zenon

\* fork: allocproc() fills a slot that is on no CPU.
LEMMA AllocTakeInv ==
  ASSUME LockInv, TypeOK', NEW c \in CPU, NEW p \in Slot, AllocTake(c, p)
  PROVE  LockInv'
<1> USE CPUAssumption DEF LockInv, TypeOK
<1> DEFINE s == idx[p]
<1>1. /\ cproc[c] = p /\ s \in Slot
      /\ pc[p] = "alloc" /\ plock[s] = NoCpu /\ state[s] = "UNUSED"
      /\ UNCHANGED <<plock, waitlock, cproc, si, first>>
  BY Zenon DEF AllocTake, On, locks, cpus
<1>2. /\ \A d \in CPU : cproc[d] = p => d = c
      /\ state[p] = "RUNNING" /\ s # p
      /\ \A d \in CPU : cproc[d] # s
      /\ \A d \in CPU : first[d] # s
  <2>1. (\A d \in CPU : cproc[d] = p => d = c) /\ state[p] = "RUNNING"
    <3>1. On(c, p) /\ pc[p] \notin Leaving
      BY <1>1, Zenon DEF On, Leaving
    <3> QED
      BY <3>1, OnlyOn, Zenon
  <2>2. \A d \in CPU : cproc[d] # s
    BY <1>1, Zenon DEF RunInv
  <2>3. \A d \in CPU : first[d] # s
    BY <1>1, RefFacts, SMTT(30) DEF FirstInv
  <2> QED
    BY <1>1, <2>1, <2>2, <2>3, Zenon
<1>3. /\ state'[s] = "USED" /\ pc'[s] = "forkret"
      /\ pc'[p] = "forkParent" /\ state'[p] = "RUNNING" /\ tmp'[p] = s
      /\ \A q \in Slot : q # s => state'[q] = state[q]
      /\ \A q \in Slot : q # p => tmp'[q] = tmp[q]
      /\ \A q \in Slot : q # s /\ q # p => pc'[q] = pc[q]
  BY <1>1, <1>2, SMTT(30) DEF AllocTake
<1>4. OnOneCpu'
  BY <1>1, Zenon DEF OnOneCpu
<1>5. FirstInv'
  BY <1>1, <1>2, <1>3, RefFacts, SMTT(30) DEF FirstInv
<1>6. RunInv'
  <2>1. ASSUME NEW d \in CPU, NEW q \in Slot, cproc'[d] = q
        PROVE  /\ pc'[q] \in Saved \cup Leaving => plock'[q] = d
               /\ pc'[q] \in Leaving => state'[q] \in {"SLEEPING", "ZOMBIE"}
               /\ pc'[q] \notin Leaving => state'[q] = "RUNNING"
               /\ pc'[q] # "dead"
    <3>1. CASE q = p
      BY <1>3, <3>1, Zenon DEF Saved, Leaving
    <3>2. CASE q # p
      <4>1. q # s /\ cproc[d] = q /\ plock' = plock
        BY <1>1, <1>2, <2>1, Zenon
      <4>2. pc'[q] = pc[q] /\ state'[q] = state[q]
        BY <1>3, <3>2, <4>1, Zenon
      <4> QED
        BY <4>1, <4>2, Zenon DEF RunInv
    <3> QED
      BY <3>1, <3>2, Zenon
  <2> QED
    BY <2>1, Zenon DEF RunInv
<1>7. OffInv'
  <2>1. ASSUME NEW q \in Slot, q # p, q # s
        PROVE  state'[q] = state[q] /\ pc'[q] = pc[q]
    BY <1>3, <2>1, Zenon
  <2>2. ASSUME NEW q \in Slot
        PROVE  pc'[q] \in Saved \cup {"dead"} \/ \E d \in CPU : cproc'[d] = q
    <3>1. CASE q = p
      BY <1>1, <3>1, Zenon
    <3>2. CASE q = s
      BY <1>3, <3>2, Zenon DEF Saved
    <3>3. CASE q # p /\ q # s
      BY <1>1, <2>1, <3>3, Zenon DEF OffInv
    <3> QED
      BY <3>1, <3>2, <3>3, Zenon
  <2>3. ASSUME NEW q \in Slot
        PROVE  /\ state'[q] \in {"USED", "RUNNABLE"} => pc'[q] \in Saved
               /\ state'[q] = "SLEEPING" => pc'[q] \in {"sleepSched", "resume"}
    <3>1. CASE q = p
      BY <1>3, <3>1, Zenon
    <3>2. CASE q = s
      BY <1>3, <3>2, Zenon DEF Saved
    <3>3. CASE q # p /\ q # s
      BY <2>1, <3>3, Zenon DEF OffInv
    <3> QED
      BY <3>1, <3>2, <3>3, Zenon
  <2> QED
    BY <2>2, <2>3, Zenon DEF OffInv
<1>8. ForkInv'
  <2>1. ASSUME NEW q \in Slot, q # p, pc'[q] \in {"forkParent", "forkReady"}
        PROVE  /\ pc[q] = pc'[q] /\ tmp'[q] = tmp[q] /\ tmp[q] # s
               /\ tmp[q] \in Slot /\ state'[tmp[q]] = "USED"
    <3>1. q # s /\ pc[q] = pc'[q]
      BY <1>3, <2>1, Zenon
    <3> QED
      BY <1>1, <1>3, <2>1, <3>1, SMTT(30) DEF ForkInv
  <2>2. ASSUME NEW q \in Slot, NEW r \in Slot, q # r, q # p, r # p,
               pc'[q] \in {"forkParent", "forkReady"},
               pc'[r] \in {"forkParent", "forkReady"}
        PROVE  tmp'[q] # tmp'[r]
    BY <2>1, <2>2, SMTT(30) DEF ForkInv
  <2>3. tmp'[p] = s /\ s \in Slot /\ state'[s] = "USED"
    BY <1>1, <1>3, Zenon
  <2>4. ASSUME NEW q \in Slot, pc'[q] \in {"forkParent", "forkReady"}
        PROVE  /\ tmp'[q] \in Slot /\ state'[tmp'[q]] = "USED"
               /\ \A r \in Slot : r # q /\ pc'[r] \in {"forkParent", "forkReady"}
                    => tmp'[r] # tmp'[q]
    <3>1. CASE q = p
      BY <2>1, <2>3, <3>1, Zenon
    <3>2. CASE q # p
      BY <2>1, <2>2, <2>3, <2>4, <3>2, SMTT(30)
    <3> QED
      BY <3>1, <3>2, Zenon
  <2> QED
    BY <2>4, Zenon DEF ForkInv
<1>9. OwnerInv'
  <2>1. ASSUME NEW d \in CPU, NEW q \in Slot, plock'[q] = d
        PROVE  first'[d] = q \/ (cproc'[d] = q /\ pc'[q] \in Saved \cup Leaving)
    <3>1. plock[q] = d /\ q # s
      BY <1>1, <2>1, Zenon
    <3>2. q = p => pc[q] \notin Saved \cup Leaving
      BY <1>1, Zenon DEF Saved, Leaving
    <3> QED
      BY <1>1, <1>3, <3>1, <3>2, SMTT(30) DEF OwnerInv
  <2>2. ASSUME NEW d \in CPU, waitlock' = d
        PROVE  cproc'[d] # NoProc /\ pc'[cproc'[d]] \in HoldsWaitLock
    BY <1>1, <1>2, <1>3, <2>2, RefFacts, SMTT(30) DEF OwnerInv, HoldsWaitLock
  <2>3. ASSUME NEW d \in CPU, NEW q \in Slot, cproc'[d] = q, pc'[q] \in HoldsWaitLock
        PROVE  waitlock' = d
    BY <1>1, <1>2, <1>3, <2>3, SMTT(30) DEF OwnerInv, HoldsWaitLock
  <2> QED
    BY <2>1, <2>2, <2>3, Zenon DEF OwnerInv
<1> QED
  BY <1>4, <1>5, <1>6, <1>7, <1>8, <1>9, Zenon

\* fork: np->parent, then np->state = RUNNABLE.
LEMMA ForkParentInv ==
  ASSUME LockInv, TypeOK', NEW c \in CPU, NEW p \in Slot, ForkParent(c, p)
  PROVE  LockInv'
<1> USE CPUAssumption DEF LockInv, TypeOK
<1>1. /\ cproc[c] = p /\ pc[p] = "forkParent" /\ pc'[p] = "forkReady"
      /\ \A q \in Slot : q # p => pc'[q] = pc[q]
      /\ UNCHANGED <<state, plock, waitlock, cproc, si, first, tmp>>
  BY Zenon DEF ForkParent, On, Goto, locks, cpus, local
<1>2. OnOneCpu' /\ FirstInv'
  BY <1>1, Zenon DEF OnOneCpu, FirstInv
<1>3. RunInv'
  BY <1>1, SMTT(30) DEF RunInv, Saved, Leaving
<1>4. OffInv'
  BY <1>1, Zenon DEF OffInv, Saved
<1>5. ForkInv'
  BY <1>1, SMTT(30) DEF ForkInv
<1>6. OwnerInv'
  <2>1. ASSUME NEW d \in CPU, NEW q \in Slot, plock'[q] = d
        PROVE  first'[d] = q \/ (cproc'[d] = q /\ pc'[q] \in Saved \cup Leaving)
    <3>1. plock[q] = d /\ first'[d] = first[d] /\ cproc'[d] = cproc[d]
      BY <1>1, <2>1, Zenon
    <3>2. q = p => pc[q] \notin Saved \cup Leaving
      BY <1>1, Zenon DEF Saved, Leaving
    <3> QED
      BY <1>1, <3>1, <3>2, SMTT(30) DEF OwnerInv
  <2>2. ASSUME NEW d \in CPU, waitlock' = d
        PROVE  cproc'[d] # NoProc /\ pc'[cproc'[d]] \in HoldsWaitLock
    BY <1>1, <2>2, RefFacts, SMTT(30) DEF OwnerInv, HoldsWaitLock
  <2>3. ASSUME NEW d \in CPU, NEW q \in Slot, cproc'[d] = q, pc'[q] \in HoldsWaitLock
        PROVE  waitlock' = d
    BY <1>1, <2>3, SMTT(30) DEF OwnerInv, HoldsWaitLock
  <2> QED
    BY <2>1, <2>2, <2>3, Zenon DEF OwnerInv
<1> QED
  BY <1>2, <1>3, <1>4, <1>5, <1>6, Zenon

\* kfork() makes the child RUNNABLE: its saved context is forkret.
LEMMA ForkReadyInv ==
  ASSUME LockInv, TypeOK', NEW c \in CPU, NEW p \in Slot, ForkReady(c, p)
  PROVE  LockInv'
<1> USE CPUAssumption DEF LockInv, TypeOK
<1> DEFINE s == tmp[p]
<1>1. /\ cproc[c] = p /\ pc[p] = "forkReady" /\ pc'[p] = "user"
      /\ s \in Slot /\ state[s] = "USED" /\ state'[s] = "RUNNABLE" /\ plock[s] = NoCpu
      /\ \A q \in Slot : q # s => state'[q] = state[q]
      /\ \A q \in Slot : q # p => pc'[q] = pc[q] /\ tmp'[q] = tmp[q]
      /\ UNCHANGED <<plock, waitlock, cproc, si, first>>
  BY SMTT(30) DEF ForkReady, Return, On, Goto, locks, cpus, ForkInv
<1>2. /\ \A d \in CPU : cproc[d] = p => d = c
      /\ state[p] = "RUNNING" /\ s # p
  <2>1. On(c, p) /\ pc[p] \notin Leaving
    BY <1>1, Zenon DEF On, Leaving
  <2>2. (\A d \in CPU : cproc[d] = p => d = c) /\ state[p] = "RUNNING"
    BY <2>1, OnlyOn, Zenon
  <2> QED
    BY <1>1, <2>2, Zenon
<1>3. \A d \in CPU : cproc[d] # s
  BY <1>1, Zenon DEF RunInv
<1>4. \A d \in CPU : first[d] # s
  BY <1>1, RefFacts, SMTT(30) DEF FirstInv
<1>5. OnOneCpu' /\ FirstInv'
  BY <1>1, <1>4, RefFacts, SMTT(30) DEF OnOneCpu, FirstInv
<1>6. RunInv'
  <2>1. ASSUME NEW d \in CPU, NEW q \in Slot, cproc'[d] = q
        PROVE  /\ pc'[q] \in Saved \cup Leaving => plock'[q] = d
               /\ pc'[q] \in Leaving => state'[q] \in {"SLEEPING", "ZOMBIE"}
               /\ pc'[q] \notin Leaving => state'[q] = "RUNNING"
               /\ pc'[q] # "dead"
    <3>1. CASE q = p
      <4>1. pc'[q] \notin Saved \cup Leaving /\ pc'[q] # "dead" /\ state'[q] = "RUNNING"
        BY <1>1, <1>2, <3>1, Zenon DEF Saved, Leaving
      <4> QED
        BY <4>1, Zenon
    <3>2. CASE q # p
      <4>1. q # s
        BY <1>1, <1>3, <2>1, Zenon
      <4>2. pc'[q] = pc[q] /\ state'[q] = state[q] /\ plock'[q] = plock[q] /\ cproc[d] = q
        BY <1>1, <2>1, <3>2, <4>1, Zenon
      <4> QED
        BY <4>2, SMTT(30) DEF RunInv
    <3> QED
      BY <3>1, <3>2, Zenon
  <2> QED
    BY <2>1, Zenon DEF RunInv
<1>7. OffInv'
  <2>1. pc[s] \in Saved
    BY <1>1, Zenon DEF OffInv
  <2>2. ASSUME NEW q \in Slot
        PROVE  /\ pc'[q] \in Saved \cup {"dead"} \/ \E d \in CPU : cproc'[d] = q
               /\ state'[q] \in {"USED", "RUNNABLE"} => pc'[q] \in Saved
               /\ state'[q] = "SLEEPING" => pc'[q] \in {"sleepSched", "resume"}
    <3>1. CASE q = p
      BY <1>1, <1>2, <3>1, Zenon
    <3>2. CASE q = s
      BY <1>1, <1>2, <2>1, <3>2, Zenon
    <3>3. CASE q # p /\ q # s
      BY <1>1, <3>3, SMTT(30) DEF OffInv
    <3> QED
      BY <3>1, <3>2, <3>3, Zenon
  <2> QED
    BY <2>2, Zenon DEF OffInv
<1>8. ForkInv'
  <2>1. ASSUME NEW q \in Slot, pc'[q] \in {"forkParent", "forkReady"}
        PROVE  /\ q # p /\ pc[q] = pc'[q] /\ tmp'[q] = tmp[q] /\ tmp[q] # s
               /\ tmp[q] \in Slot /\ state'[tmp[q]] = "USED"
    <3>1. q # p /\ pc[q] = pc'[q]
      BY <1>1, <2>1, Zenon
    <3> QED
      BY <1>1, <2>1, <3>1, SMTT(30) DEF ForkInv
  <2> QED
    BY <2>1, SMTT(30) DEF ForkInv
<1>9. OwnerInv'
  <2>1. ASSUME NEW d \in CPU, NEW q \in Slot, plock'[q] = d
        PROVE  first'[d] = q \/ (cproc'[d] = q /\ pc'[q] \in Saved \cup Leaving)
    <3>1. plock[q] = d /\ first'[d] = first[d] /\ cproc'[d] = cproc[d]
      BY <1>1, <2>1, Zenon
    <3>2. q = p => pc[q] \notin Saved \cup Leaving
      BY <1>1, Zenon DEF Saved, Leaving
    <3> QED
      BY <1>1, <3>1, <3>2, SMTT(30) DEF OwnerInv
  <2>2. ASSUME NEW d \in CPU, waitlock' = d
        PROVE  cproc'[d] # NoProc /\ pc'[cproc'[d]] \in HoldsWaitLock
    BY <1>1, <2>2, RefFacts, SMTT(30) DEF OwnerInv, HoldsWaitLock
  <2>3. ASSUME NEW d \in CPU, NEW q \in Slot, cproc'[d] = q, pc'[q] \in HoldsWaitLock
        PROVE  waitlock' = d
    BY <1>1, <2>3, SMTT(30) DEF OwnerInv, HoldsWaitLock
  <2> QED
    BY <2>1, <2>2, <2>3, Zenon DEF OwnerInv
<1> QED
  BY <1>5, <1>6, <1>7, <1>8, <1>9, Zenon

\* scheduler(): a slot whose lock is free is on no CPU unless it is RUNNING.
LEMMA ScanInv ==
  ASSUME LockInv, TypeOK', NEW c \in CPU, Scan(c)
  PROVE  LockInv'
<1> USE CPUAssumption DEF LockInv, TypeOK
<1> DEFINE s == si[c]
<1>1. /\ cproc[c] = NoProc /\ s \in Slot /\ plock[s] = NoCpu
      /\ si'[c] = s + 1
      /\ \A d \in CPU : d # c => si'[d] = si[d]
      /\ UNCHANGED <<state, waitlock, cproc, pc, tmp>>
  BY Zenon DEF Scan, table, local
<1>2. CASE ~Better(c, s)
  <2>1. UNCHANGED <<plock, first>>
    BY <1>2, Zenon DEF Scan
  <2>2. FirstInv'
    <3>1. first[c] < s => first[c] < s + 1
      BY <1>1, SlotFacts, SMTT(30)
    <3>2. UNCHANGED <<first, cproc, plock, state>>
      BY <1>1, <2>1, Zenon
    <3> QED
      BY <1>1, <3>1, <3>2, Zenon DEF FirstInv
  <2>3. UNCHANGED <<state, plock, waitlock, cproc, first, pc, tmp>>
    BY <1>1, <2>1, Zenon
  <2> QED
    BY <2>2, <2>3, SMTT(30) DEF OnOneCpu, RunInv, OffInv, ForkInv, OwnerInv
<1>3. CASE Better(c, s)
  <2>1. /\ state[s] = "RUNNABLE"
        /\ plock'[s] = c /\ first'[c] = s
        /\ \A d \in CPU : d # c => first'[d] = first[d]
        /\ \A q \in Slot : q # s /\ q # first[c] => plock'[q] = plock[q]
        /\ \A q \in Slot : q # s /\ q = first[c] => plock'[q] = NoCpu
    <3>1. /\ plock' = [p \in Slot |-> IF p = si[c] THEN c
                                     ELSE IF p = first[c] THEN NoCpu ELSE plock[p]]
          /\ first' = [first EXCEPT ![c] = si[c]]
      BY <1>3, Zenon DEF Scan
    <3>2. plock'[s] = c
      BY <1>1, <3>1, Zenon
    <3>3. ASSUME NEW q \in Slot, q # s
          PROVE  plock'[q] = IF q = first[c] THEN NoCpu ELSE plock[q]
      BY <3>1, <3>3, Zenon
    <3> QED
      BY <1>1, <1>3, <3>1, <3>2, <3>3, Zenon DEF Better
  <2>2. ASSUME NEW d \in CPU, NEW q \in Slot, plock[q] = d, d # c
        PROVE  plock'[q] = d
    <3>1. q # s
      BY <1>1, <2>2, Zenon
    <3>2. q # first[c]
      BY <2>2, RefFacts, Zenon DEF FirstInv
    <3> QED
      BY <2>1, <2>2, <3>1, <3>2, Zenon
  <2>3. OnOneCpu'
    BY <1>1, Zenon DEF OnOneCpu
  <2>4. FirstInv'
    <3>1. s < s + 1
      BY <1>1, SlotFacts, SMTT(30)
    <3>2. ASSUME NEW d \in CPU, d # c, first[d] # NoProc
          PROVE  plock'[first[d]] = d
      BY <2>2, <3>2, RefFacts, Zenon DEF FirstInv
    <3> QED
      BY <1>1, <2>1, <3>1, <3>2, SMTT(30) DEF FirstInv
  <2>5. RunInv'
    <3>1. ASSUME NEW d \in CPU, NEW q \in Slot, cproc[d] = q
          PROVE  d # c
      BY <1>1, <3>1, RefFacts, Zenon
    <3> QED
      BY <1>1, <2>2, <3>1, SMTT(30) DEF RunInv
  <2>6. OffInv' /\ ForkInv'
    BY <1>1, SMTT(30) DEF OffInv, ForkInv
  <2>7. OwnerInv'
    <3>1. ASSUME NEW d \in CPU, NEW q \in Slot, plock'[q] = d
          PROVE  first'[d] = q \/ (cproc'[d] = q /\ pc'[q] \in Saved \cup Leaving)
      <4>1. CASE q = s
        BY <2>1, <3>1, <4>1, Zenon
      <4>2. CASE q # s
        <5>1. q # first[c] /\ plock[q] = d
          BY <2>1, <3>1, <4>2, Zenon
        <5>2. first[d] = q \/ (cproc[d] = q /\ pc[q] \in Saved \cup Leaving)
          BY <5>1, Zenon DEF OwnerInv
        <5>3. d # c
          BY <1>1, <5>1, <5>2, RefFacts, Zenon
        <5> QED
          BY <1>1, <2>1, <5>2, <5>3, Zenon
      <4> QED
        BY <4>1, <4>2, Zenon
    <3> QED
      BY <1>1, <3>1, Zenon DEF OwnerInv
  <2> QED
    BY <2>3, <2>4, <2>5, <2>6, <2>7, Zenon
<1> QED
  BY <1>2, <1>3, Zenon

\* Switching to the candidate of the scan.
LEMMA DispatchInv ==
  ASSUME LockInv, TypeOK', NEW c \in CPU, Dispatch(c)
  PROVE  LockInv'
<1> USE CPUAssumption DEF LockInv, TypeOK
<1> DEFINE s == first[c]
<1>1. /\ cproc[c] = NoProc /\ s \in Slot
      /\ plock[s] = c /\ state[s] = "RUNNABLE"
      /\ UNCHANGED <<plock, waitlock, pc, tmp>>
  BY RefFacts, Zenon DEF Dispatch, FirstInv, locks, local
<1>2. /\ state'[s] = "RUNNING"
      /\ \A q \in Slot : q # s => state'[q] = state[q]
      /\ cproc'[c] = s /\ first'[c] = NoProc
      /\ \A d \in CPU : d # c => /\ cproc'[d] = cproc[d] /\ first'[d] = first[d]
                                 /\ si'[d] = si[d]
  BY <1>1, SMTT(30) DEF Dispatch
<1>3. \A d \in CPU : cproc[d] # s
  BY <1>1, RefFacts, Zenon DEF RunInv
<1>4. \A d \in CPU : d # c => first[d] # s
  BY <1>1, RefFacts, Zenon DEF FirstInv
<1>5. pc[s] \in Saved
  BY <1>1, Zenon DEF OffInv
<1>6. OnOneCpu'
  <2>1. ASSUME NEW d \in CPU, NEW e \in CPU, d # e, cproc'[d] # NoProc
        PROVE  cproc'[d] # cproc'[e]
    <3>1. CASE d = c
      BY <1>2, <1>3, <2>1, <3>1, Zenon
    <3>2. CASE e = c
      BY <1>2, <1>3, <2>1, <3>2, Zenon
    <3>3. CASE d # c /\ e # c
      BY <1>2, <2>1, <3>3, SMTT(30) DEF OnOneCpu
    <3> QED
      BY <3>1, <3>2, <3>3, Zenon
  <2> QED
    BY <2>1, Zenon DEF OnOneCpu
<1>7. FirstInv'
  <2>1. ASSUME NEW d \in CPU, first'[d] # NoProc
        PROVE  d # c /\ first[d] \in Slot /\ first[d] # s
    BY <1>2, <1>4, <2>1, RefFacts, Zenon
  <2> QED
    BY <1>1, <1>2, <2>1, SMTT(30) DEF FirstInv
<1>8. RunInv'
  <2>1. ASSUME NEW d \in CPU, NEW q \in Slot, cproc'[d] = q
        PROVE  /\ pc'[q] \in Saved \cup Leaving => plock'[q] = d
               /\ pc'[q] \in Leaving => state'[q] \in {"SLEEPING", "ZOMBIE"}
               /\ pc'[q] \notin Leaving => state'[q] = "RUNNING"
               /\ pc'[q] # "dead"
    <3>1. CASE d = c
      BY <1>1, <1>2, <1>5, <2>1, <3>1, Zenon DEF Saved, Leaving
    <3>2. CASE d # c
      <4>1. cproc[d] = q /\ q # s
        BY <1>2, <1>3, <2>1, <3>2, Zenon
      <4> QED
        BY <1>1, <1>2, <4>1, SMTT(30) DEF RunInv
    <3> QED
      BY <3>1, <3>2, Zenon
  <2> QED
    BY <2>1, Zenon DEF RunInv
<1>9. OffInv'
  <2>1. ASSUME NEW q \in Slot, NEW d \in CPU, cproc[d] = q
        PROVE  cproc'[d] = q
    BY <1>1, <1>2, <2>1, RefFacts, Zenon
  <2>2. ASSUME NEW q \in Slot
        PROVE  pc'[q] \in Saved \cup {"dead"} \/ \E d \in CPU : cproc'[d] = q
    BY <1>1, <2>1, Zenon DEF OffInv
  <2> QED
    BY <1>1, <1>2, <2>2, Zenon DEF OffInv
<1>10. ForkInv'
  BY <1>1, <1>2, SMTT(30) DEF ForkInv
<1>11. OwnerInv'
  <2>1. ASSUME NEW d \in CPU, NEW q \in Slot, plock'[q] = d
        PROVE  first'[d] = q \/ (cproc'[d] = q /\ pc'[q] \in Saved \cup Leaving)
    <3>1. plock[q] = d
      BY <1>1, <2>1, Zenon
    <3>2. CASE d = c
      BY <1>1, <1>2, <1>5, <3>1, <3>2, RefFacts, SMTT(30) DEF OwnerInv
    <3>3. CASE d # c
      BY <1>1, <1>2, <3>1, <3>3, SMTT(30) DEF OwnerInv
    <3> QED
      BY <3>2, <3>3, Zenon
  <2>2. ASSUME NEW d \in CPU, waitlock' = d
        PROVE  cproc'[d] # NoProc /\ pc'[cproc'[d]] \in HoldsWaitLock
    BY <1>1, <1>2, <2>2, RefFacts, Zenon DEF OwnerInv
  <2>3. ASSUME NEW d \in CPU, NEW q \in Slot, cproc'[d] = q, pc'[q] \in HoldsWaitLock
        PROVE  waitlock' = d
    <3>1. pc[s] \notin HoldsWaitLock
      BY <1>5, Zenon DEF Saved, HoldsWaitLock
    <3>2. d # c
      BY <1>1, <1>2, <2>3, <3>1, Zenon
    <3> QED
      BY <1>1, <1>2, <2>3, <3>2, Zenon DEF OwnerInv
  <2> QED
    BY <2>1, <2>2, <2>3, Zenon DEF OwnerInv
<1> QED
  BY <1>6, <1>7, <1>8, <1>9, <1>10, <1>11, Zenon

\* An idle round holds no lock.
LEMMA IdleInv ==
  ASSUME LockInv, TypeOK', NEW c \in CPU, Idle(c)
  PROVE  LockInv'
<1>1. /\ first[c] = NoProc
      /\ UNCHANGED <<state, plock, waitlock, cproc, first, pc, tmp>>
      /\ \A d \in CPU : d # c => si'[d] = si[d]
  BY Zenon DEF Idle, table, locks, local, LockInv, TypeOK
<1>2. FirstInv'
  BY <1>1, Zenon DEF LockInv, FirstInv
<1> QED
  BY <1>1, <1>2, SMTT(30) DEF LockInv, OnOneCpu, RunInv, OffInv, ForkInv, OwnerInv

\* The state userinit() leaves satisfies the lock invariant.
LEMMA InitLock == Init => LockInv
<1> SUFFICES ASSUME Init PROVE LockInv
  BY Zenon
<1>1. TypeOK
  BY InitType, Zenon
<1>2. /\ \A c \in CPU : cproc[c] = NoProc /\ first[c] = NoProc
      /\ \A p \in Slot : pc[p] = "forkret" /\ plock[p] = NoCpu /\ state[p] # "SLEEPING"
      /\ waitlock = NoCpu
  BY Zenon DEF Init
<1>3. OnOneCpu /\ FirstInv /\ RunInv
  BY <1>2, RefFacts, Zenon DEF OnOneCpu, FirstInv, RunInv
<1>4. OffInv /\ ForkInv
  BY <1>2, Zenon DEF OffInv, ForkInv, Saved
<1>5. OwnerInv
  BY <1>2, RefFacts, CPUAssumption, Zenon DEF OwnerInv
<1> QED
  BY <1>1, <1>3, <1>4, <1>5, Zenon DEF LockInv

\* LockInv reads nothing but these variables.
LEMMA SameLockInv ==
  ASSUME LockInv, TypeOK',
         UNCHANGED <<state, plock, waitlock, cproc, si, first, pc, tmp>>
  PROVE  LockInv'
<1>1. OnOneCpu' /\ FirstInv'
  BY SMTT(30) DEF LockInv, OnOneCpu, FirstInv
<1>2. RunInv' /\ OffInv'
  BY SMTT(30) DEF LockInv, RunInv, OffInv
<1>3. ForkInv' /\ OwnerInv'
  BY SMTT(30) DEF LockInv, ForkInv, OwnerInv
<1> QED
  BY <1>1, <1>2, <1>3, Zenon DEF LockInv

\* LockInv is an invariant of the process table, the locks and the CPUs.
THEOREM LockInvariant == Spec => []LockInv
<1>1. LockInv /\ [Next]_vars => LockInv'
  <2> SUFFICES ASSUME LockInv, [Next]_vars PROVE LockInv'
    BY Zenon
  <2>1. CASE UNCHANGED vars
    <3>1. TypeOK'
      BY <2>1, Zenon DEF LockInv, TypeOK, UpOK, vars, table, locks, cpus, local
    <3>2. UNCHANGED <<state, plock, waitlock, cproc, si, first, pc, tmp>>
      BY <2>1, Zenon DEF vars, table, locks, cpus, local
    <3> QED
      BY <3>1, <3>2, SameLockInv, Zenon
  <2>4. ASSUME NEW c \in CPU, Start(c) PROVE LockInv'
    <3>1. TypeOK'
      BY <2>4, StartType, Zenon DEF LockInv
    <3>2. UNCHANGED <<state, plock, waitlock, cproc, si, first, pc, tmp>>
      BY <2>4, Zenon DEF Start, table, locks, local
    <3> QED
      BY <3>1, <3>2, SameLockInv, Zenon
  <2>2. ASSUME NEW c \in CPU, Scheduler(c) PROVE LockInv'
    <3>1. TypeOK'
      BY <2>2, SchedulerType, Zenon DEF LockInv
    <3> QED
      BY <2>2, <3>1, ScanInv, DispatchInv, IdleInv, Zenon DEF Scheduler
  <2>3. ASSUME NEW c \in CPU, NEW p \in Slot, Process(c, p) PROVE LockInv'
    <3>1. TypeOK'
      BY <2>3, ProcessType, Zenon DEF LockInv
    <3>2. CASE Moves(c, p)
      <4>1. Move(c, p)
        BY <3>2, MovesMove, Zenon DEF LockInv
      <4> QED
        BY <3>1, <4>1, MoveInv, Zenon
    <3>3. CASE ~Moves(c, p)
      BY <2>3, <3>1, <3>3, EnterInv, LeaveInv, SwtchInv, AllocTakeInv,
         ForkParentInv, ForkReadyInv, Zenon DEF Process, Moves
    <3> QED
      BY <3>2, <3>3, Zenon
  <2> QED
    BY <2>1, <2>2, <2>3, <2>4, Zenon DEF Next
<1> QED
  BY InitLock, <1>1, PTL DEF Spec

\* No process is ever on two CPUs.
THEOREM OneCpuPerProcess == Spec => []OnOneCpu
<1>1. LockInv => OnOneCpu
  BY Zenon DEF LockInv
<1> QED
  BY LockInvariant, <1>1, PTL

\* The panics of acquire(), release() and sched() are unreachable.
THEOREM LocksNeverPanic == Spec => []NoLockPanic
<1>1. LockInv => NoLockPanic
  <2> SUFFICES ASSUME LockInv, NEW c \in CPU, NEW p, p = cproc[c]
               PROVE  /\ \A s \in Acquires(c) : plock[s] # c
                      /\ first[c] # NoProc => plock[first[c]] = c
                      /\ p # NoProc =>
                           /\ pc[p] \in {"exitLock", "waitLock", "forkParent"} => waitlock # c
                           /\ pc[p] \in HoldsWaitLock => waitlock = c
                           /\ pc[p] \in {"forkret", "resume"} => plock[p] = c
                           /\ pc[p] \in {"sleepSched", "zombieSched"} =>
                                /\ {s \in Slot : plock[s] = c} = {p}
                                /\ waitlock # c
                                /\ state[p] # "RUNNING"
    BY Zenon DEF NoLockPanic
  <2> USE DEF LockInv
  <2>1. first[c] # NoProc => plock[first[c]] = c /\ p = NoProc
    BY Zenon DEF FirstInv
  <2>2. p # NoProc => p \in Slot
    BY RefFacts, Zenon DEF TypeOK
  <2>3. ASSUME NEW s \in Slot, plock[s] = c
        PROVE  s = first[c] \/ (s = p /\ pc[p] \in Saved \cup Leaving)
    BY <2>3, Zenon DEF OwnerInv
  <2>4. ASSUME NEW s \in Acquires(c) PROVE plock[s] # c
    <3>1. CASE p = NoProc
      <4>1. s = si[c] /\ s \in Slot /\ s # NoProc
        BY <3>1, RefFacts, Zenon DEF Acquires
      <4>2. ~(s < s)
        BY <4>1, SlotFacts, SMTT(30)
      <4> QED
        BY <2>3, <3>1, <4>1, <4>2, Zenon DEF FirstInv
    <3>2. CASE p # NoProc
      <4>1. s \in Slot /\ pc[p] \notin Saved \cup Leaving
        BY <3>2, Zenon DEF Acquires, Saved, Leaving
      <4> QED
        BY <2>1, <2>3, <3>2, <4>1, RefFacts, Zenon
    <3> QED
      BY <3>1, <3>2, Zenon
  <2>5. ASSUME p # NoProc, waitlock = c PROVE pc[p] \in HoldsWaitLock
    BY <2>5, Zenon DEF OwnerInv
  <2>6. ASSUME p # NoProc, pc[p] \in HoldsWaitLock PROVE waitlock = c
    BY <2>2, <2>6, Zenon DEF OwnerInv
  <2>7. ASSUME p # NoProc, pc[p] \in Saved \cup Leaving PROVE plock[p] = c
    BY <2>2, <2>7, Zenon DEF RunInv
  <2>8. ASSUME p # NoProc, pc[p] \in Leaving
        PROVE  {s \in Slot : plock[s] = c} = {p} /\ state[p] # "RUNNING"
    <3>1. state[p] # "RUNNING"
      BY <2>2, <2>8, Zenon DEF RunInv
    <3>2. first[c] = NoProc
      BY <2>1, <2>8, Zenon
    <3> QED
      BY <2>2, <2>3, <2>7, <2>8, <3>1, <3>2, RefFacts, Zenon
  <2> QED
    BY <2>1, <2>4, <2>5, <2>6, <2>7, <2>8, Zenon DEF HoldsWaitLock, Saved, Leaving
<1> QED
  BY LockInvariant, <1>1, PTL
=============================================================================
