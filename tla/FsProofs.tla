------------------------------ MODULE FsProofs ------------------------------
(***************************************************************************)
(* The inode table: ip->ref counts the pointers to an inode exactly, on    *)
(* every path through the calls, and the acquiresleep() of iput() never    *)
(* blocks, for any processes, inodes, blocks, names and calls.  What the   *)
(* steps do is in FsStepProofs, what that means for the counts in          *)
(* FsCountProofs.                                                          *)
(***************************************************************************)
EXTENDS FsStepProofs, FsCountProofs

\* The invariant holds at first.
LEMMA InitInv ==
  Init => InodeInv
<1> SUFFICES ASSUME Init PROVE InodeInv
  OBVIOUS
<1>1. Shape /\ FreshRefs
  BY InitShape, ProcNumber, Zenon DEF FreshRefs
<1>2. RefExact
  BY <1>1, FreshExact, Zenon
<1> QED
  BY <1>1, <1>2, Zenon DEF InodeInv

\* Every step keeps it.
LEMMA NextInv ==
  InodeInv /\ [Next]_vars => InodeInv'
<1> SUFFICES ASSUME InodeInv, [Next]_vars PROVE InodeInv'
  OBVIOUS
<1>1. Shape /\ FsTypes /\ RefExact
  BY Zenon DEF InodeInv, Shape
<1>2. Shape' /\ (Balanced \/ Boot \/ ~up' \/ UNCHANGED vars)
  BY <1>1, ShapeStep, ProcNumber, FirstIsFound, Zenon
<1>3. CASE Balanced
  BY <1>1, <1>2, <1>3, CountStep, Zenon DEF InodeInv
<1>4. CASE Boot
  <2>1. Fresh' /\ \A i \in Inum : ref'[i] = IF i = ROOT THEN Cardinality(Proc) ELSE 0
    BY <1>1, <1>4, StepBoot, ProcNumber, Zenon
  <2>2. FreshRefs'
    BY <2>1, Zenon DEF FreshRefs
  <2>3. RefExact'
    BY <2>2, FreshExact, PTL
  <2> QED
    BY <1>2, <2>3, Zenon DEF InodeInv
<1>5. CASE ~up' \/ UNCHANGED vars
  BY <1>1, <1>2, <1>5, CountKept, Zenon DEF InodeInv
<1> QED
  BY <1>2, <1>3, <1>4, <1>5, Zenon

\* The inductive invariant of the inode table: lists of steps that only an iput() makes
\* longer, every lock with a step that needs it, and ref as the number of references.
THEOREM InodeInvariant == Spec => []InodeInv
  BY InitInv, NextInv, PTL DEF Spec

\* ip->ref is exactly the number of pointers to the inode, on every path through the
\* calls of sysfile.c, the failing ones included, and through crashes and recovery.
THEOREM ReferencesCounted == Spec => []RefExact
<1>1. InodeInv => RefExact
  BY Zenon DEF InodeInv
<1> QED
  BY InodeInvariant, <1>1, PTL

\* "ip->ref == 1 means no other process can have ip locked, so this acquiresleep() won't
\* block (or deadlock)" (fs.c, iput): the lock is free whenever iput() takes it.
THEOREM IputDoesNotBlock == Spec => []IputNeverBlocks
<1>1. InodeInv => IputNeverBlocks
  <2> SUFFICES ASSUME InodeInv, NEW p \in Proc, At(p, "put"), LastUnlinked(Head(todo[p]).ip)
               PROVE  Free(Head(todo[p]).ip)
    BY Zenon DEF IputNeverBlocks
  <2>1. PICK i : i = Head(todo[p]).ip
    BY Zenon
  <2>2. /\ up /\ todo[p][1] = Head(todo[p]) /\ todo[p][1].op = "put"
        /\ 1 \in 1 .. Len(todo[p]) /\ i \in Inum /\ ListOk(todo[p], call[p])
    <3>1. "put" \in OneInode /\ Shape
      BY Zenon DEF OneInode, InodeInv
    <3>2. AtHead(p, "put", Head(todo[p]))
      BY <3>1, AtFacts, Zenon
    <3> QED
      BY <2>1, <3>1, <3>2, Zenon DEF AtHead
  <2>3. 1 <= Len(todo[p])
    <3>1. Len(todo[p]) \in Nat
      BY <2>2, ListElems, Zenon DEF ListOk
    <3> QED
      BY <2>2, <3>1, SMT
  <2>4. ref[i] = 1 /\ ~(1 >= 2)
    BY <2>1, SMT DEF LastUnlinked
  <2>5. lock[i] = NoProc
    BY <2>1, <2>2, <2>3, <2>4, LockCounts, Zenon
  <2> QED
    BY <2>1, <2>5, Zenon DEF Free
<1> QED
  BY InodeInvariant, <1>1, PTL
=============================================================================
