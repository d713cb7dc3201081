------------------------------- MODULE Sched -------------------------------
(***************************************************************************)
(* The two scheduling policies of the repository on one CPU: the FCFS      *)
(* scheduler of kernel/proc.c with its empty yield(), and the round robin  *)
(* of kernel/proc_RR_backup.c, driven by timer interrupts and by processes *)
(* that compute, fork, pause and exit.                                     *)
(*                                                                         *)
(* Proc models the locks and the process tree; here a scheduling decision  *)
(* is one step of FCFS, whose scan runs with interrupts off, and one step  *)
(* per slot of round robin, whose scan runs with interrupts on.  init      *)
(* stays in wait(), so it is the reaper and not a slot.                    *)
(***************************************************************************)
EXTENDS Naturals

CONSTANTS
  NPROC,      \* slots of proc[]
  Policies,   \* the kernels under study, a subset of {"FCFS", "RR"}
  MaxPid,     \* bound: programs stop forking once nextpid passes it
  MaxPause    \* bound on the argument of pause()

ASSUME SchedAssumption ==
  NPROC \in Nat \ {0} /\ Policies \subseteq {"FCFS", "RR"} /\ MaxPause \in Nat

VARIABLES
  policy,              \* which proc.c the kernel was built with
  st, pid, nextpid,    \* p->state, p->pid
  cur,                 \* c->proc; 0 in the scheduler
  last,                \* the p of the round-robin loop
  left,                \* n - (ticks - ticks0) of a process in pause(), else 0
  pausing,             \* inside sys_pause()
  over                 \* history: the slots dispatched since p became RUNNABLE

vars == <<policy, st, pid, nextpid, cur, last, left, pausing, over>>

Slot == 1 .. NPROC
State == {"UNUSED", "RUNNABLE", "RUNNING", "SLEEPING", "ZOMBIE"}

\* The shell, pid 2, is ready to run.
Init ==
  /\ policy \in Policies
  /\ st = [p \in Slot |-> IF p = 1 THEN "RUNNABLE" ELSE "UNUSED"]
  /\ pid = [p \in Slot |-> IF p = 1 THEN 2 ELSE 0]
  /\ nextpid = 3
  /\ cur = 0
  /\ last = NPROC
  /\ left = [p \in Slot |-> 0]
  /\ pausing = [p \in Slot |-> FALSE]
  /\ over = [p \in Slot |-> {}]

-----------------------------------------------------------------------------
(* The schedulers                                                            *)

\* The choice of the FCFS scan: the RUNNABLE process of lowest pid.
Chosen(p) ==
  /\ st[p] = "RUNNABLE"
  /\ \A q \in Slot : st[q] = "RUNNABLE" => pid[p] <= pid[q]

\* Slot p gets the CPU.
Run(p) ==
  /\ st' = [st EXCEPT ![p] = "RUNNING"]
  /\ cur' = p
  /\ over' = [q \in Slot |-> IF q = p THEN {}
                             ELSE IF st[q] = "RUNNABLE" THEN over[q] \cup {p} ELSE over[q]]
  /\ UNCHANGED <<policy, pid, nextpid, left, pausing>>

FcfsDispatch ==
  /\ policy = "FCFS"
  /\ cur = 0
  /\ \E p \in Slot : Chosen(p) /\ Run(p)
  /\ UNCHANGED last

\* Mutant of Following: every round starts at the first slot.
FollowingRestarts(p) == IF p = NPROC \/ st[p] = "RUNNABLE" THEN 1 ELSE p + 1

\* The slot after p in the loop over proc[].
Following(p) == IF p = NPROC THEN 1 ELSE p + 1

RrDispatch ==
  /\ policy = "RR"
  /\ cur = 0
  /\ st[Following(last)] = "RUNNABLE"
  /\ Run(Following(last))
  /\ last' = Following(last)

RrPass ==
  /\ policy = "RR"
  /\ cur = 0
  /\ st[Following(last)] # "RUNNABLE"
  /\ last' = Following(last)
  /\ UNCHANGED <<policy, st, pid, nextpid, cur, left, pausing, over>>

-----------------------------------------------------------------------------
(* The timer interrupt                                                       *)

\* Mutant of Yields: yield() is empty under round robin too.
YieldsNever == FALSE

\* Does the timer interrupt take the CPU from the running process?
Yields == policy = "RR" /\ cur # 0

\* clockintr(), with its wakeup(&ticks), and then yield(), which FCFS emptied.
Tick ==
  LET made == {q \in Slot : st[q] = "SLEEPING" \/ (Yields /\ q = cur)}
  IN /\ left' = [q \in Slot |-> IF left[q] > 0 THEN left[q] - 1 ELSE 0]
     /\ st' = [q \in Slot |-> IF q \in made THEN "RUNNABLE" ELSE st[q]]
     /\ over' = [q \in Slot |-> IF q \in made THEN {} ELSE over[q]]
     /\ cur' = IF Yields THEN 0 ELSE cur
     /\ UNCHANGED <<policy, pid, nextpid, last, pausing>>

-----------------------------------------------------------------------------
(* The running process.  One that computes takes no step of its own.         *)

\* sys_pause(n): sleep(&ticks, &tickslock).
Pause(p, n) ==
  /\ cur = p
  /\ ~pausing[p]
  /\ st' = [st EXCEPT ![p] = "SLEEPING"]
  /\ cur' = 0
  /\ left' = [left EXCEPT ![p] = n]
  /\ pausing' = [pausing EXCEPT ![p] = TRUE]
  /\ UNCHANGED <<policy, pid, nextpid, last, over>>

\* Back from sleep(): the loop of sys_pause() sleeps again or returns.
PauseCheck(p) ==
  /\ cur = p
  /\ pausing[p]
  /\ \/ /\ left[p] > 0
        /\ st' = [st EXCEPT ![p] = "SLEEPING"]
        /\ cur' = 0
        /\ UNCHANGED pausing
     \/ /\ left[p] = 0
        /\ pausing' = [pausing EXCEPT ![p] = FALSE]
        /\ UNCHANGED <<st, cur>>
  /\ UNCHANGED <<policy, pid, nextpid, last, left, over>>

\* kfork(): the first UNUSED slot gets the next pid.
Fork(p) ==
  /\ cur = p
  /\ ~pausing[p]
  /\ nextpid <= MaxPid
  /\ \E s \in Slot :
       /\ st[s] = "UNUSED"
       /\ \A q \in 1 .. s - 1 : st[q] # "UNUSED"
       /\ st' = [st EXCEPT ![s] = "RUNNABLE"]
       /\ pid' = [pid EXCEPT ![s] = nextpid]
       /\ over' = [over EXCEPT ![s] = {}]
  /\ nextpid' = nextpid + 1
  /\ UNCHANGED <<policy, cur, last, left, pausing>>

\* kexit().
Exit(p) ==
  /\ cur = p
  /\ ~pausing[p]
  /\ st' = [st EXCEPT ![p] = "ZOMBIE"]
  /\ cur' = 0
  /\ UNCHANGED <<policy, pid, nextpid, last, left, pausing, over>>

\* init's kwait(): freeproc() makes the slot available again.  init needs the
\* CPU for it, which it leaves again at once; nothing says when it gets it.
Reap(p) ==
  /\ cur = 0
  /\ st[p] = "ZOMBIE"
  /\ st' = [st EXCEPT ![p] = "UNUSED"]
  /\ pid' = [pid EXCEPT ![p] = 0]
  /\ over' = [over EXCEPT ![p] = {}]
  /\ UNCHANGED <<policy, nextpid, cur, last, left, pausing>>

-----------------------------------------------------------------------------
Scheduler == FcfsDispatch \/ RrDispatch \/ RrPass

Next ==
  \/ Scheduler
  \/ Tick
  \/ \E p \in Slot :
       \/ \E n \in 1 .. MaxPause : Pause(p, n)
       \/ PauseCheck(p) \/ Fork(p) \/ Exit(p) \/ Reap(p)

Spec == Init /\ [][Next]_vars

\* The timer keeps ticking, the scheduler and the kernel side of pause() keep
\* running.  Nothing is assumed of user code, init included: it may loop.
FairSpec ==
  /\ Spec
  /\ WF_vars(Tick) /\ WF_vars(Scheduler)
  /\ \A p \in Slot : WF_vars(PauseCheck(p))

-----------------------------------------------------------------------------
\* Bounded overtaking (round robin): while a process stays RUNNABLE, no other
\* slot is dispatched twice, although wakeups, forks and slot reuse change the
\* table under the scan.
BoundedOvertaking ==
  [][policy = "RR" /\ cur = 0 /\ cur' # 0 =>
       \A p \in Slot \ {cur'} : st[p] = "RUNNABLE" => cur' \notin over[p]]_vars

\* Every RUNNABLE process runs in the end: always under round robin, and under
\* FCFS when every process that gets the CPU exits sooner or later.
JobsEnd == \A q \in Slot : st[q] = "RUNNING" ~> st[q] = "ZOMBIE"
NoStarvation ==
  (policy = "FCFS" => JobsEnd) => \A p \in Slot : st[p] = "RUNNABLE" ~> st[p] = "RUNNING"

\* A timer interrupt gives the other processes a turn: every RUNNABLE process
\* runs in the end even if the others compute for ever (the preempt test).
Preempted == \A p \in Slot : st[p] = "RUNNABLE" ~> st[p] = "RUNNING"
=============================================================================
