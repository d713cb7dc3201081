-------------------------------- MODULE Intr --------------------------------
(* Interrupts, traps and spin locks: spinlock.c, trap.c, plic.c, the trap     *)
(* code in assembly, and sched(), sleep(), wakeup() as far as they depend on  *)
(* the state of a hart.                                                       *)
(*                                                                            *)
(* A thread of the kernel is the list of what it has still to do (code); a    *)
(* process whose list is empty is in user mode.  An interrupt handler that    *)
(* stops kernel code has a list of its own (hnd) and its hart does nothing    *)
(* else until it is empty.  What the kernel does is reduced to two calls, the *)
(* clock's and a device's, which take a lock that a handler takes as well.    *)
(* mycpu() is the hart in register tp, so noff and intena are indexed by it.  *)
EXTENDS Integers, SequencesExt

CONSTANTS
  Hart, BootHart,      \* harts; BootHart counts the ticks
  Task,                \* processes
  TicksLock, DevLock,  \* tickslock, and the lock of a driver
  Nobody,
  TW,                  \* ticks is computed modulo TW (2^32)
  Pauses,              \* arguments of pause()
  Program              \* Program[p]: which calls p makes

VARIABLES
  sie, stvec, reg, tp,    \* sstatus.SIE, stvec, sepc and sstatus.SPP, tp
  noff, intena,           \* struct cpu
  cur,                    \* the process a hart runs, Nobody in scheduler()
  code, hnd,
  pstate, pchan,          \* p->state, p->chan
  savedIntena,            \* the local variable of sched()
  frame,                  \* p->trapframe: epc, kernel_hartid
  upc,                    \* user program counter: p in p's program, "kernel" if lost
  owner,                  \* owner[l]: the hart that holds l, or Nobody
  ticks, ticks0, waited,  \* waited: history, ticks in pause(), or -1
  line, claimed,          \* the device's interrupt request, and its claim in the PLIC
  input,                  \* the driver has something for a reader
  panicked

hartVars == <<sie, stvec, reg, tp, noff, intena, hnd>>
procVars == <<cur, code, pstate, pchan, savedIntena, frame, upc>>
devVars == <<ticks, ticks0, waited, line, claimed, input>>
intrVars == <<hartVars, procVars, devVars, owner, panicked>>

Regs(pc, user) == [pc |-> pc, user |-> user]
Op(name, arg) == [op |-> name, arg |-> arg]
Do(name) == Op(name, Nobody)
DeadRegs == Regs("kernel", FALSE)  \* what nobody will read
Timer == Do("timer")
External == Do("external")

-----------------------------------------------------------------------------
(* Threads as lists of steps *)

Thread(c) == IF cur[c] = Nobody THEN c ELSE cur[c]
InUser(c) == cur[c] # Nobody /\ code[cur[c]] = <<>>
Todo(c) == IF hnd[c] # <<>> THEN hnd[c] ELSE code[Thread(c)]
At(c, name) == Todo(c) # <<>> /\ Head(Todo(c)).op = name
Arg(c) == Head(Todo(c)).arg
\* The step is done; ops come in its place.
Go(c, ops) ==
  IF hnd[c] # <<>>
  THEN hnd' = [hnd EXCEPT ![c] = ops \o Tail(@)] /\ code' = code
  ELSE code' = [code EXCEPT ![Thread(c)] = ops \o Tail(@)] /\ hnd' = hnd

Acquire(l) == Op("acquire", l)
Release(l) == Op("release", l)
KilledOps(p) == <<Acquire(p), Release(p)>>
SleepOps(p, lk) == <<Acquire(p), Release(lk), Op("sleep", lk), Release(p), Acquire(lk)>>
\* wakeup() on the channel that goes with lock lk, of all but the current process.
WakeupOps(me, lk) ==
  FlattenSeq([i \in 1 .. Cardinality(Task \ {me}) |->
    LET q == SetToSeq(Task \ {me})[i]
    IN <<Acquire(q), Op("wake", <<q, lk>>), Release(q)>>])
\* call: history, the return of a system call.
ReturnOps(call) == <<Op("intr_off", call), Do("prepare_return"), Do("userret")>>
ScanOps(rest, first) ==
  IF rest = <<>> THEN <<Op("run", first)>>
  ELSE <<Acquire(Head(rest)), Op("scan", [rest |-> rest, first |-> first])>>
SchedulerOps == <<Do("intr_on"), Do("intr_off")>> \o ScanOps(SetToSeq(Task), Nobody)
DevintrOps(c, me, what) ==
  IF what = External THEN <<Do("plic_claim")>>
  ELSE IF tp[c] # BootHart THEN <<>>
  ELSE <<Acquire(TicksLock), Do("tick")>> \o WakeupOps(me, TicksLock) \o <<Release(TicksLock)>>
\* A read from the device, sys_uptime() and sys_pause(n).
CallOps(what) ==
  <<Acquire(IF what.op = "read" THEN DevLock ELSE TicksLock),
    IF what.op = "uptime" THEN Release(TicksLock) ELSE what>>

IntrInit ==
  /\ sie = [c \in Hart |-> FALSE] /\ stvec = [c \in Hart |-> "kernelvec"]
  /\ reg = [c \in Hart |-> DeadRegs] /\ tp = [c \in Hart |-> c]
  /\ noff = [c \in Hart |-> 0] /\ intena = [c \in Hart |-> FALSE]
  /\ hnd = [c \in Hart |-> <<>>] /\ cur = [c \in Hart |-> Nobody]
  /\ code = [x \in Hart \cup Task |->
               IF x \in Hart THEN SchedulerOps ELSE <<Release(x)>> \o ReturnOps(FALSE)]
  /\ pstate = [p \in Task |-> "RUNNABLE"] /\ pchan = [p \in Task |-> Nobody]
  /\ savedIntena = [p \in Task |-> FALSE]
  /\ frame = [p \in Task |-> [epc |-> p, hartid |-> Nobody]]
  /\ upc = [p \in Task |-> p]
  /\ owner = [l \in Task \cup {TicksLock, DevLock} |-> Nobody]
  /\ ticks = 0 /\ ticks0 = [p \in Task |-> 0] /\ waited = [p \in Task |-> -1]
  /\ line = FALSE /\ claimed = FALSE /\ input = FALSE
  /\ panicked = FALSE

-----------------------------------------------------------------------------
(* Spin locks *)

\* holding()
Holding(c, l) == owner[l] = tp[c]
\* push_off()
PushOff(c) ==
  /\ sie' = [sie EXCEPT ![c] = FALSE]
  /\ intena' = IF noff[tp[c]] = 0 THEN [intena EXCEPT ![tp[c]] = sie[c]] ELSE intena
  /\ noff' = [noff EXCEPT ![tp[c]] = @ + 1]
\* Bug: the inner of two releases turns interrupts on.
PopOff_mut(c) ==
  /\ intena' = intena
  /\ noff' = [noff EXCEPT ![tp[c]] = @ - 1]
  /\ sie' = [sie EXCEPT ![c] = @ \/ intena[tp[c]]]
\* pop_off(); intena means nothing while noff is 0.
PopOff(c) ==
  /\ intena' = [intena EXCEPT ![tp[c]] = @ /\ noff[tp[c]] > 1]
  /\ noff' = [noff EXCEPT ![tp[c]] = @ - 1]
  /\ sie' = [sie EXCEPT ![c] = @ \/ (noff[tp[c]] = 1 /\ intena[tp[c]])]

\* acquire(): at once if the lock is free, else spin with interrupts off.
AcquireLock(c) ==
  /\ At(c, "acquire") /\ PushOff(c)
  /\ LET l == Arg(c) IN
     /\ panicked' = Holding(c, l)
     /\ IF owner[l] = Nobody
        THEN owner' = [owner EXCEPT ![l] = tp[c]] /\ Go(c, <<>>)
        ELSE owner' = owner /\ Go(c, <<Op("spin", l)>>)
  /\ UNCHANGED <<stvec, reg, tp, cur, pstate, pchan, savedIntena, frame, upc, devVars>>
Spin(c) ==
  /\ At(c, "spin") /\ owner[Arg(c)] = Nobody
  /\ owner' = [owner EXCEPT ![Arg(c)] = tp[c]]
  /\ Go(c, <<>>)
  /\ UNCHANGED <<sie, stvec, reg, tp, noff, intena, cur, pstate, pchan, savedIntena, frame, upc,
                 devVars, panicked>>
ReleaseLock(c) ==
  /\ At(c, "release")
  /\ panicked' = (~Holding(c, Arg(c)) \/ sie[c] \/ noff[tp[c]] < 1)
  /\ owner' = [owner EXCEPT ![Arg(c)] = Nobody]
  /\ PopOff(c) /\ Go(c, <<>>)
  /\ UNCHANGED <<stvec, reg, tp, cur, pstate, pchan, savedIntena, frame, upc, devVars>>

-----------------------------------------------------------------------------
(* scheduler(), sched(), sleep() and wakeup() *)

IntrOn(c) ==
  /\ At(c, "intr_on") /\ sie' = [sie EXCEPT ![c] = TRUE] /\ Go(c, <<>>)
  /\ UNCHANGED <<stvec, reg, tp, noff, intena, cur, pstate, pchan, savedIntena, frame, upc,
                 devVars, owner, panicked>>
IntrOff(c) ==
  /\ At(c, "intr_off") /\ sie' = [sie EXCEPT ![c] = FALSE] /\ Go(c, <<>>)
  /\ UNCHANGED <<stvec, reg, tp, noff, intena, cur, pstate, pchan, savedIntena, frame, upc,
                 devVars, owner, panicked>>

\* One slot of the scan, its lock held; which of two pids is older is open.
Scan(c) ==
  /\ At(c, "scan")
  /\ \E older \in BOOLEAN :
       LET p == Head(Arg(c).rest)
           first == Arg(c).first
           better == pstate[p] = "RUNNABLE" /\ (first = Nobody \/ older)
           best == IF better THEN p ELSE first
           loser == IF better THEN first ELSE p
       IN Go(c, (IF loser = Nobody THEN <<>> ELSE <<Release(loser)>>) \o ScanOps(Tail(Arg(c).rest), best))
  /\ UNCHANGED <<sie, stvec, reg, tp, noff, intena, cur, pstate, pchan, savedIntena, frame, upc,
                 devVars, owner, panicked>>
\* swtch(): the hart goes on in another kernel thread.
SwtchTo(c, t) == cur' = [cur EXCEPT ![c] = t]
\* The switch to the process found; its lock is released after the switch back.
Run(c) ==
  /\ At(c, "run")
  /\ LET p == Arg(c) IN
     IF p = Nobody THEN Go(c, SchedulerOps) /\ UNCHANGED <<cur, pstate>>
     ELSE /\ Go(c, <<Release(p)>> \o SchedulerOps)
          /\ pstate' = [pstate EXCEPT ![p] = "RUNNING"]
          /\ SwtchTo(c, p)
  /\ UNCHANGED <<sie, stvec, reg, tp, noff, intena, pchan, savedIntena, frame, upc, devVars, owner,
                 panicked>>

\* sched(): what it checks, saves and restores.
SchedPanics(c) ==
  ~Holding(c, cur[c]) \/ noff[tp[c]] # 1 \/ sie[c]
SaveIntena(c) == savedIntena' = [savedIntena EXCEPT ![cur[c]] = intena[tp[c]]]
\* Bug: intena is taken for a property of the hart.
RestoreIntena_mut(c) == UNCHANGED <<intena, savedIntena>>
RestoreIntena(c) ==
  /\ intena' = [intena EXCEPT ![tp[c]] = savedIntena[cur[c]]]
  /\ savedIntena' = [savedIntena EXCEPT ![cur[c]] = FALSE]

Sleep(c) ==
  /\ At(c, "sleep") /\ SaveIntena(c)
  /\ panicked' = SchedPanics(c)
  /\ pchan' = [pchan EXCEPT ![cur[c]] = Arg(c)]
  /\ pstate' = [pstate EXCEPT ![cur[c]] = "SLEEPING"]
  /\ Go(c, <<Do("resume")>>)
  /\ SwtchTo(c, Nobody)
  /\ UNCHANGED <<sie, stvec, reg, tp, noff, intena, frame, upc, devVars, owner>>
Resume(c) ==
  /\ At(c, "resume") /\ RestoreIntena(c)
  /\ pchan' = [pchan EXCEPT ![cur[c]] = Nobody]
  /\ Go(c, <<>>)
  /\ UNCHANGED <<sie, stvec, reg, tp, noff, cur, pstate, frame, upc, devVars, owner,
                 panicked>>
Wake(c) ==
  /\ At(c, "wake")
  /\ LET q == Arg(c)[1] IN
     pstate' = IF pstate[q] = "SLEEPING" /\ pchan[q] = Arg(c)[2]
               THEN [pstate EXCEPT ![q] = "RUNNABLE"] ELSE pstate
  /\ Go(c, <<>>)
  /\ UNCHANGED <<sie, stvec, reg, tp, noff, intena, cur, pchan, savedIntena, frame, upc, devVars,
                 owner, panicked>>

-----------------------------------------------------------------------------
(* Traps *)

\* The clock may interrupt at any time, the device when the PLIC lets it.
Pending == {Timer} \cup (IF line /\ ~claimed THEN {External} ELSE {})
Calls == {Op("pause0", n) : n \in Pauses} \cup {Do("read"), Do("uptime")}
CallsOf(p) == {w \in Calls : w.op \in Program[p]}

\* The hardware's part of a trap, in user mode and in the kernel.
TakeTrap(c, vec, pc) ==
  /\ panicked' = (stvec[c] # vec)
  /\ sie' = [sie EXCEPT ![c] = FALSE]
  /\ reg' = [reg EXCEPT ![c] = Regs(pc, vec = "uservec")]
TrapFromUser(c, what) ==
  /\ TakeTrap(c, "uservec", upc[cur[c]])
  /\ code' = [code EXCEPT ![cur[c]] = <<Op("uservec", what)>>]
  /\ UNCHANGED <<stvec, tp, noff, intena, hnd, cur, pstate, pchan, savedIntena, frame, upc, devVars,
                 owner>>
TrapFromKernel(c, what) ==
  /\ ~InUser(c) /\ sie[c] /\ TakeTrap(c, "kernelvec", "kernel")
  /\ hnd' = [hnd EXCEPT ![c] = <<Op("kerneltrap", what)>> \o @]
  /\ UNCHANGED <<stvec, tp, noff, intena, cur, code, pstate, pchan, savedIntena, frame, upc,
                 devVars, owner>>

\* trampoline.S: the kernel's tp comes from the trap frame.
Uservec(c) ==
  /\ At(c, "uservec") /\ Go(c, <<Op("usertrap", Arg(c))>>)
  /\ tp' = [tp EXCEPT ![c] = frame[cur[c]].hartid]
  /\ UNCHANGED <<sie, stvec, reg, noff, intena, cur, pstate, pchan, savedIntena, frame, upc, devVars,
                 owner, panicked>>

\* usertrap() up to the point where the reason of the trap is known.
Usertrap(c) ==
  /\ At(c, "usertrap") /\ panicked' = ~reg[c].user
  /\ stvec' = [stvec EXCEPT ![c] = "kernelvec"]
  /\ frame' = [frame EXCEPT ![cur[c]].epc = reg[c].pc]
  /\ reg' = [reg EXCEPT ![c] = DeadRegs]
  /\ LET p == cur[c] IN
     Go(c, (IF Arg(c) \in Calls
            THEN KilledOps(p) \o <<Op("syscall", Arg(c))>> \o CallOps(Arg(c))
            ELSE DevintrOps(c, p, Arg(c))) \o KilledOps(p) \o ReturnOps(Arg(c) \in Calls))
  /\ UNCHANGED <<sie, tp, noff, intena, cur, pstate, pchan, savedIntena, upc, devVars, owner>>
\* intr_on(), the last that usertrap() does before syscall().
Syscall(c) ==
  /\ At(c, "syscall") /\ Go(c, <<>>)
  /\ sie' = [sie EXCEPT ![c] = TRUE]
  /\ UNCHANGED <<stvec, reg, tp, noff, intena, cur, pstate, pchan, savedIntena, frame, upc, devVars,
                 owner, panicked>>
\* prepare_return(), its intr_off() done.
PrepareReturn(c) ==
  /\ At(c, "prepare_return") /\ Go(c, <<>>)
  /\ stvec' = [stvec EXCEPT ![c] = "uservec"]
  /\ frame' = [frame EXCEPT ![cur[c]].hartid = tp[c]]
  /\ reg' = [reg EXCEPT ![c] = Regs(frame[cur[c]].epc, TRUE)]
  /\ UNCHANGED <<sie, tp, noff, intena, cur, pstate, pchan, savedIntena, upc, devVars, owner,
                 panicked>>
\* userret and its sret: tp is the user's again.
Userret(c) ==
  /\ At(c, "userret") /\ Go(c, <<>>)
  /\ panicked' = ~reg[c].user
  /\ upc' = [upc EXCEPT ![cur[c]] = reg[c].pc]
  /\ reg' = [reg EXCEPT ![c] = DeadRegs]
  /\ tp' = [tp EXCEPT ![c] = Nobody]
  /\ sie' = [sie EXCEPT ![c] = TRUE]
  /\ UNCHANGED <<stvec, noff, intena, cur, pstate, pchan, savedIntena, frame, devVars, owner>>

\* kernelvec and kerneltrap(): sepc and sstatus are kept in local variables.
Kerneltrap(c) ==
  /\ At(c, "kerneltrap") /\ panicked' = (reg[c].user \/ sie[c])
  /\ Go(c, DevintrOps(c, cur[c], Arg(c)) \o <<Op("kernelret", reg[c])>>)
  /\ UNCHANGED <<sie, stvec, reg, tp, noff, intena, cur, pstate, pchan, savedIntena, frame, upc,
                 devVars, owner>>
Kernelret(c) ==
  /\ At(c, "kernelret") /\ Go(c, <<>>)
  /\ reg' = [reg EXCEPT ![c] = Arg(c)]
  /\ sie' = [sie EXCEPT ![c] = TRUE]
  /\ UNCHANGED <<stvec, tp, noff, intena, cur, pstate, pchan, savedIntena, frame, upc, devVars, owner,
                 panicked>>

-----------------------------------------------------------------------------
(* The clock, the interrupt controller and the two calls *)

Untouched == <<sie, stvec, reg, tp, noff, intena, cur, pstate, pchan, savedIntena, frame, upc, owner,
               panicked>>

\* ticks++ in clockintr()
Tick(c) ==
  /\ At(c, "tick") /\ Go(c, <<>>)
  /\ ticks' = (ticks + 1) % TW
  /\ waited' = [p \in Task |-> IF waited[p] < 0 THEN waited[p] ELSE Min({waited[p] + 1, Max(Pauses)})]
  /\ UNCHANGED <<Untouched, ticks0, line, claimed, input>>
\* plic_claim(): 0 if another hart was faster; else the driver's handler runs.
PlicClaim(c) ==
  /\ At(c, "plic_claim")
  /\ IF line /\ ~claimed
     THEN /\ claimed' = TRUE
          /\ Go(c, <<Acquire(DevLock), Do("receive")>> \o WakeupOps(cur[c], DevLock)
                     \o <<Release(DevLock), Do("plic_complete")>>)
     ELSE claimed' = claimed /\ Go(c, <<>>)
  /\ UNCHANGED <<Untouched, ticks, ticks0, waited, line, input>>
PlicComplete(c) ==
  /\ At(c, "plic_complete") /\ Go(c, <<>>)
  /\ claimed' = FALSE
  /\ UNCHANGED <<Untouched, ticks, ticks0, waited, line, input>>
Receive(c) ==
  /\ At(c, "receive") /\ Go(c, <<>>)
  /\ line' = FALSE /\ input' = TRUE
  /\ UNCHANGED <<Untouched, ticks, ticks0, waited, claimed>>

\* A read of the driver's input, under its lock.
Read(c) ==
  /\ At(c, "read")
  /\ IF input THEN input' = FALSE /\ Go(c, <<Release(DevLock)>>)
     ELSE input' = input /\ Go(c, SleepOps(cur[c], DevLock) \o <<Do("read")>>)
  /\ UNCHANGED <<Untouched, ticks, ticks0, waited, line, claimed>>
\* sys_pause(): ticks0 = ticks, and the loop's test.
Pause0(c) ==
  /\ At(c, "pause0") /\ Go(c, <<Op("pause", Arg(c))>>)
  /\ ticks0' = [ticks0 EXCEPT ![cur[c]] = ticks]
  /\ waited' = [waited EXCEPT ![cur[c]] = 0]
  /\ UNCHANGED <<Untouched, ticks, line, claimed, input>>
\* Bug: the end of the pause is computed once, and wraps.
MustWait_mut(p, n) == ticks < (ticks0[p] + n) % TW
MustWait(p, n) == (ticks - ticks0[p]) % TW < n
PauseTest(c) ==
  /\ At(c, "pause")
  /\ LET p == cur[c] IN
     IF MustWait(p, Arg(c))
     THEN /\ Go(c, KilledOps(p) \o SleepOps(p, TicksLock) \o <<Op("pause", Arg(c))>>)
          /\ UNCHANGED <<ticks0, waited>>
     ELSE /\ Go(c, <<Release(TicksLock)>>)
          /\ ticks0' = [ticks0 EXCEPT ![p] = 0]
          /\ waited' = [waited EXCEPT ![p] = -1]
  /\ UNCHANGED <<Untouched, ticks, line, claimed, input>>

\* The device raises its interrupt.
DeviceFires ==
  /\ ~line /\ ~input /\ line' = TRUE
  /\ UNCHANGED <<Untouched, code, hnd, ticks, ticks0, waited, claimed, input>>

HartStep(c) ==
  \/ AcquireLock(c) \/ Spin(c) \/ ReleaseLock(c) \/ IntrOn(c) \/ IntrOff(c)
  \/ Scan(c) \/ Run(c) \/ Sleep(c) \/ Resume(c) \/ Wake(c)
  \/ Uservec(c) \/ Usertrap(c) \/ Syscall(c) \/ PrepareReturn(c) \/ Userret(c)
  \/ Kerneltrap(c) \/ Kernelret(c) \/ Tick(c)
  \/ PlicClaim(c) \/ PlicComplete(c) \/ Receive(c) \/ Read(c) \/ Pause0(c) \/ PauseTest(c)
\* A step with interrupts off that takes nothing harts compete for can be done
\* before any step of another hart, with the same states to follow: it goes first.
Shared == {"acquire", "spin", "plic_claim", "plic_complete"}
Private(c) == ~InUser(c) /\ ~sie[c] /\ Head(Todo(c)).op \notin Shared
IntrNext ==
  \/ \E c \in Hart : Private(c) /\ HartStep(c)
  \/ /\ \A c \in Hart : ~Private(c)
     /\ \/ \E c \in Hart :
             \/ HartStep(c)
             \/ InUser(c) /\ \E w \in CallsOf(cur[c]) \cup Pending : TrapFromUser(c, w)
             \/ \E w \in Pending : TrapFromKernel(c, w)
        \/ DeviceFires

IntrSpec == IntrInit /\ [][IntrNext]_intrVars

-----------------------------------------------------------------------------
(* Properties *)

Held(c) == {l \in DOMAIN owner : owner[l] = c}
Spinning(c) == At(c, "spin")

\* A hart that holds a spin lock, or spins for one, has interrupts off, so no
\* handler waits for a lock of the code it stopped; noff counts exactly these
\* locks; and no check of acquire(), release(), pop_off(), sched(), usertrap()
\* and kerneltrap() panics, nor does kernel code trap to uservec.
LocksMaskInterrupts ==
  /\ ~panicked
  /\ \A c \in Hart :
       /\ Held(c) # {} \/ Spinning(c) => ~sie[c]
       /\ noff[c] = Cardinality(Held(c)) + (IF Spinning(c) THEN 1 ELSE 0)

\* What belongs to a process survives traps, sleeps and moves between harts:
\* in user mode it is in its own program; in the kernel cpuid() names the hart
\* that runs it; and in a system call it has interrupts on whenever it holds no
\* lock, whatever the interrupt state of the hart that resumed it was.
InCall(p) ==
  /\ \E i \in DOMAIN code[p] : code[p][i].op = "intr_off" /\ code[p][i].arg
  /\ \A i \in DOMAIN code[p] : code[p][i].op # "syscall"
ThreadContextKept ==
  \A c \in Hart :
    /\ InUser(c) => upc[cur[c]] = cur[c]
    /\ ~InUser(c) /\ ~At(c, "uservec") => tp[c] = c
    /\ cur[c] # Nobody /\ InCall(cur[c]) /\ hnd[c] = <<>> /\ Held(c) = {} /\ ~Spinning(c) => sie[c]

\* pause(n) does not return before the clock ticked n times, the wrap of the
\* counter included.
PauseNotEarly ==
  \A c \in Hart : At(c, "pause") /\ waited[cur[c]] < Arg(c) => MustWait(cur[c], Arg(c))
=============================================================================
