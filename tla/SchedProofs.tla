---------------------------- MODULE SchedProofs ----------------------------
(***************************************************************************)
(* Round robin overtakes a waiting process at most once per slot, for any  *)
(* number of slots.  While slot p waits, the loop of scheduler() has gone  *)
(* from p + 1 to last and has not come back to p, so the slots dispatched  *)
(* since then lie on that stretch of the circle and the next one does not. *)
(***************************************************************************)
EXTENDS Sched, TLAPS

\* The loop has met q since it was at p: q is on the way from p + 1 to l.
Passed(p, q, l) == IF p <= l THEN p < q /\ q <= l ELSE p < q \/ q <= l

\* The variables the argument is about have their types.
SlotsInv ==
  /\ last \in Slot
  /\ st \in [Slot -> State]
  /\ over \in [Slot -> SUBSET Slot]

\* The slots that ran while p was waiting are behind the loop.
TurnInv ==
  policy = "RR" =>
    \A p \in Slot : st[p] = "RUNNABLE" => \A q \in over[p] : Passed(p, q, last)

\* The loop of scheduler() stays inside proc[].
LEMMA FollowingType == ASSUME NEW l \in Slot PROVE Following(l) \in Slot
BY SchedAssumption DEF Following, Slot

\* The slot the loop comes to next is not among those it has met since p, and
\* those stay met, unless the next slot is p itself.
LEMMA FollowingIsAhead ==
  ASSUME NEW p \in Slot, NEW l \in Slot, Following(l) # p
  PROVE  /\ ~Passed(p, Following(l), l)
         /\ Passed(p, Following(l), Following(l))
         /\ \A q \in Slot : Passed(p, q, l) => Passed(p, q, Following(l))
BY SchedAssumption DEF Following, Passed, Slot

\* Every step keeps the types.
LEMMA SlotsStep == ASSUME SlotsInv, [Next]_vars PROVE SlotsInv'
<1>1. CASE FcfsDispatch
  BY <1>1 DEF FcfsDispatch, Run, SlotsInv, State
<1>2. CASE RrDispatch
  BY <1>2, FollowingType DEF RrDispatch, Run, SlotsInv, State
<1>3. CASE RrPass
  BY <1>3, FollowingType DEF RrPass, SlotsInv
<1>4. CASE Tick
  BY <1>4 DEF Tick, SlotsInv, State
<1>5. ASSUME NEW p \in Slot, NEW n \in 1 .. MaxPause, Pause(p, n) PROVE SlotsInv'
  BY <1>5 DEF Pause, SlotsInv, State
<1>6. ASSUME NEW p \in Slot, PauseCheck(p) PROVE SlotsInv'
  BY <1>6 DEF PauseCheck, SlotsInv, State
<1>7. ASSUME NEW p \in Slot, Fork(p) PROVE SlotsInv'
  BY <1>7 DEF Fork, SlotsInv, State
<1>8. ASSUME NEW p \in Slot, Exit(p) PROVE SlotsInv'
  BY <1>8 DEF Exit, SlotsInv, State
<1>9. ASSUME NEW p \in Slot, Reap(p) PROVE SlotsInv'
  BY <1>9 DEF Reap, SlotsInv, State
<1>10. CASE UNCHANGED vars
  BY <1>10 DEF vars, SlotsInv
<1> QED
  BY <1>1, <1>2, <1>3, <1>4, <1>5, <1>6, <1>7, <1>8, <1>9, <1>10 DEF Next, Scheduler

\* A step that leaves the loop where it is, and empties over[p] whenever it
\* makes p RUNNABLE, keeps TurnInv.
LEMMA SameTurn ==
  ASSUME TurnInv, policy' = policy, last' = last,
         \A p \in Slot : st'[p] = "RUNNABLE" =>
            over'[p] = {} \/ (st[p] = "RUNNABLE" /\ over'[p] = over[p])
  PROVE  TurnInv'
BY DEF TurnInv

\* Every step keeps TurnInv.
LEMMA TurnStep == ASSUME SlotsInv, TurnInv, [Next]_vars PROVE TurnInv'
<1>1. CASE FcfsDispatch
  BY <1>1 DEF FcfsDispatch, Run, TurnInv
<1>2. CASE RrDispatch
  <2> SUFFICES ASSUME NEW p \in Slot, st'[p] = "RUNNABLE", NEW q \in over'[p]
               PROVE  Passed(p, q, last')
    BY DEF TurnInv
  <2> DEFINE f == Following(last)
  <2>1. /\ f \in Slot
        /\ last' = f /\ st' = [st EXCEPT ![f] = "RUNNING"] /\ policy = "RR"
        /\ over' = [r \in Slot |-> IF r = f THEN {}
                                   ELSE IF st[r] = "RUNNABLE" THEN over[r] \cup {f} ELSE over[r]]
    BY <1>2, FollowingType DEF RrDispatch, Run, SlotsInv
  <2> HIDE DEF f
  <2>2. p # f /\ st[p] = "RUNNABLE"
    BY <2>1 DEF SlotsInv
  <2>3. q = f \/ (q \in Slot /\ q \in over[p])
    BY <2>1, <2>2 DEF SlotsInv
  <2>4. q \in over[p] => Passed(p, q, last)
    BY <2>1, <2>2 DEF TurnInv
  <2> QED BY <2>1, <2>2, <2>3, <2>4, FollowingIsAhead DEF f, SlotsInv
<1>3. CASE RrPass
  <2> SUFFICES ASSUME NEW p \in Slot, st'[p] = "RUNNABLE", NEW q \in over'[p]
               PROVE  Passed(p, q, last')
    BY DEF TurnInv
  <2>1. Following(last) # p /\ q \in Slot /\ Passed(p, q, last)
    BY <1>3 DEF RrPass, TurnInv, SlotsInv
  <2> QED BY <1>3, <2>1, FollowingIsAhead DEF RrPass, SlotsInv
<1>4. CASE Tick
  <2>1. \A p \in Slot : st'[p] = "RUNNABLE" =>
           over'[p] = {} \/ (st[p] = "RUNNABLE" /\ over'[p] = over[p])
    BY <1>4 DEF Tick, SlotsInv
  <2> QED BY <1>4, <2>1, SameTurn DEF Tick
<1>5. ASSUME NEW p \in Slot, NEW n \in 1 .. MaxPause, Pause(p, n) PROVE TurnInv'
  BY <1>5, SameTurn DEF Pause, SlotsInv
<1>6. ASSUME NEW p \in Slot, PauseCheck(p) PROVE TurnInv'
  BY <1>6, SameTurn DEF PauseCheck, SlotsInv
<1>7. ASSUME NEW p \in Slot, Fork(p) PROVE TurnInv'
  BY <1>7, SameTurn DEF Fork, SlotsInv
<1>8. ASSUME NEW p \in Slot, Exit(p) PROVE TurnInv'
  BY <1>8, SameTurn DEF Exit, SlotsInv
<1>9. ASSUME NEW p \in Slot, Reap(p) PROVE TurnInv'
  BY <1>9, SameTurn DEF Reap, SlotsInv
<1>10. CASE UNCHANGED vars
  BY <1>10, SameTurn DEF vars
<1> QED
  BY <1>1, <1>2, <1>3, <1>4, <1>5, <1>6, <1>7, <1>8, <1>9, <1>10 DEF Next, Scheduler

\* A round-robin dispatch takes the slot after last, which no waiting process
\* has seen run.
LEMMA DispatchIsNew ==
  ASSUME SlotsInv, TurnInv, [Next]_vars, policy = "RR", cur = 0, cur' # 0,
         NEW p \in Slot \ {cur'}, st[p] = "RUNNABLE"
  PROVE  cur' \notin over[p]
<1>1. RrDispatch
  BY DEF Next, Scheduler, vars, FcfsDispatch, RrPass, Tick, Yields, Pause, PauseCheck,
         Fork, Exit, Reap, Slot
<1>2. cur' = Following(last) /\ cur' \in Slot
  BY <1>1, FollowingType DEF RrDispatch, Run, SlotsInv
<1> QED BY <1>2, FollowingIsAhead DEF TurnInv, SlotsInv

\* The types and the place of the loop hold in every state of both policies.
THEOREM TurnInvariant == Spec => [](SlotsInv /\ TurnInv)
<1>1. Init => SlotsInv /\ TurnInv
  BY SchedAssumption DEF Init, SlotsInv, TurnInv, Slot, State
<1>2. SlotsInv /\ TurnInv /\ [Next]_vars => (SlotsInv /\ TurnInv)'
  BY SlotsStep, TurnStep
<1> QED BY <1>1, <1>2, PTL DEF Spec

\* Bounded overtaking for any NPROC: under round robin (proc_RR_backup.c) no
\* slot is dispatched twice while another process stays RUNNABLE.
THEOREM RoundRobinOvertakesOnce == Spec => BoundedOvertaking
<1>1. SlotsInv /\ TurnInv /\ [Next]_vars =>
        [policy = "RR" /\ cur = 0 /\ cur' # 0 =>
           \A p \in Slot \ {cur'} : st[p] = "RUNNABLE" => cur' \notin over[p]]_vars
  BY DispatchIsNew
<1> QED BY <1>1, TurnInvariant, PTL DEF Spec, BoundedOvertaking
=============================================================================
