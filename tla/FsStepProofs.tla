---------------------------- MODULE FsStepProofs ----------------------------
(***************************************************************************)
(* What each step of a call does to the references it holds: it passes on  *)
(* those of the step it replaces, with what it gets and gives away.  So    *)
(* it keeps the shape of the lists of steps and changes ref by what comes  *)
(* to refer to an inode; that ref is then the number of references is a    *)
(* matter of counting, in FsCountProofs.                                   *)
(***************************************************************************)
EXTENDS FsInv, TLAPS

-----------------------------------------------------------------------------
(* Steps.                                                                    *)

\* Lists of steps: their length and elements.
LEMMA ListElems ==
  ASSUME NEW S, NEW s \in Seq(S)
  PROVE  /\ Len(s) \in Nat /\ DOMAIN s = 1 .. Len(s) /\ s \in [1 .. Len(s) -> S]
         /\ s # <<>> => Len(s) \in Nat \ {0}
         /\ \A k \in 1 .. Len(s) : s[k] \in S
         /\ <<>> \in Seq(S) /\ Len(<<>>) = 0
  OBVIOUS

\* Their head and tail.
LEMMA ListTail ==
  ASSUME NEW S, NEW s \in Seq(S), s # <<>>
  PROVE  /\ Head(s) \in S /\ Tail(s) \in Seq(S) /\ Len(Tail(s)) = Len(s) - 1
         /\ \A k \in 1 .. Len(Tail(s)) : Tail(s)[k] = s[k + 1]
  OBVIOUS

\* The fields of a step.
LEMMA OpFields ==
  ASSUME NEW o, NEW i, NEW n, NEW a
  PROVE  /\ Op(o, i, n, a).op = o /\ Op(o, i, n, a).ip = i
         /\ Op(o, i, n, a).name = n /\ Op(o, i, n, a).arg = a
  BY SMT DEF Op

\* The fields of a walk.
LEMMA WalkFields ==
  ASSUME NEW i, NEW path, NEW par, NEW next, NEW a, NEW bad
  PROVE  /\ Walk(i, path, par, next, a, bad).op = "walk"
         /\ Walk(i, path, par, next, a, bad).ip = i
         /\ Walk(i, path, par, next, a, bad).path = path
         /\ Walk(i, path, par, next, a, bad).par = par
         /\ Walk(i, path, par, next, a, bad).next = next
         /\ Walk(i, path, par, next, a, bad).arg = a
         /\ Walk(i, path, par, next, a, bad).bad = bad
  BY SMT DEF Walk

\* What it is to be a step.
StepOne(o) == \E x \in OneInode, i \in Inum, n \in Label : o = Op(x, i, n, 0)
StepTwo(o) == \E x \in TwoInodes, i \in Inum, n \in Label, a \in Inum : o = Op(x, i, n, a)
StepWalk(o) ==
  \E i \in Inum, path \in Seq(Name), par \in BOOLEAN, next \in PathCalls :
    o = Walk(i, path, par, next, 0, <<>>)
StepLink(o) ==
  \E i \in Inum, path \in Seq(Name), a \in Inum :
    o = Walk(i, path, TRUE, "linkin", a, <<LinkBad(a)>>)

\* A step is one of these.
LEMMA StepsAre ==
  ASSUME NEW o
  PROVE  /\ o \in Steps => o \in {End, Commit} \/ StepOne(o) \/ StepTwo(o) \/ StepWalk(o) \/ StepLink(o)
         /\ o \in {End, Commit} => o \in Steps
         /\ StepOne(o) => o \in Steps
         /\ StepTwo(o) => o \in Steps
         /\ StepWalk(o) => o \in Steps
         /\ StepLink(o) => o \in Steps
<1>1. o \in OneSteps <=> StepOne(o)
  BY SMT DEF StepOne, OneSteps
<1>2. o \in TwoSteps <=> StepTwo(o)
  BY SMT DEF StepTwo, TwoSteps
<1>3. o \in WalkSteps <=> StepWalk(o)
  BY SMT DEF StepWalk, WalkSteps
<1>4. o \in LinkSteps <=> StepLink(o)
  BY SMT DEF StepLink, LinkSteps
<1> QED
  BY <1>1, <1>2, <1>3, <1>4, Zenon DEF Steps

\* The kinds of steps and what each refers to.
LEMMA StepFacts ==
  ASSUME NEW o \in Steps
  PROVE  \/ o.op \in {"end", "commit"} /\ o.ip = 0 /\ o.arg = 0
         \/ o.op \in OneInode /\ o.ip \in Inum /\ o.arg = 0 /\ o.name \in Label
         \/ o.op \in TwoInodes /\ o.ip \in Inum /\ o.arg \in Inum /\ o.name \in Label
         \/ /\ o.op = "walk" /\ o.ip \in Inum /\ o.path \in Seq(Name) /\ o.par \in BOOLEAN
            /\ \/ o.arg = 0 /\ o.bad = <<>> /\ o.next \in PathCalls
               \/ o.arg \in Inum /\ o.bad = <<LinkBad(o.arg)>> /\ o.next = "linkin" /\ o.par
<1>1. CASE o \in {End, Commit}
  <2>1. PICK x \in {"end", "commit"} : o = Op(x, 0, NoName, 0)
    BY <1>1, Zenon DEF End, Commit
  <2>2. o.op = x /\ o.ip = 0 /\ o.arg = 0
    <3>1. /\ Op(x, 0, NoName, 0).op = x /\ Op(x, 0, NoName, 0).ip = 0
          /\ Op(x, 0, NoName, 0).arg = 0
      BY OpFields
    <3> QED
      BY <2>1, <3>1, Zenon
  <2> QED
    BY <2>2, Zenon
<1>2. CASE StepOne(o)
  <2>1. PICK x \in OneInode, i \in Inum, n \in Label : o = Op(x, i, n, 0)
    BY <1>2, Zenon DEF StepOne
  <2>2. o.op = x /\ o.ip = i /\ o.name = n /\ o.arg = 0
    BY <2>1, SMT DEF Op
  <2> QED
    BY <2>2, Zenon
<1>3. CASE StepTwo(o)
  <2>1. PICK x \in TwoInodes, i \in Inum, n \in Label, a \in Inum : o = Op(x, i, n, a)
    BY <1>3, Zenon DEF StepTwo
  <2>2. o.op = x /\ o.ip = i /\ o.name = n /\ o.arg = a
    BY <2>1, SMT DEF Op
  <2> QED
    BY <2>2, Zenon
<1>4. CASE StepWalk(o)
  <2>1. PICK i \in Inum, path \in Seq(Name), par \in BOOLEAN, next \in PathCalls :
          o = Walk(i, path, par, next, 0, <<>>)
    BY <1>4, Zenon DEF StepWalk
  <2>2. /\ o.op = "walk" /\ o.ip = i /\ o.path = path /\ o.par = par
        /\ o.arg = 0 /\ o.bad = <<>> /\ o.next = next
    BY <2>1, SMT DEF Walk
  <2> QED
    BY <2>2, Zenon
<1>5. CASE StepLink(o)
  <2>1. PICK i \in Inum, path \in Seq(Name), a \in Inum :
          o = Walk(i, path, TRUE, "linkin", a, <<LinkBad(a)>>)
    BY <1>5, Zenon DEF StepLink
  <2>2. /\ o.op = "walk" /\ o.ip = i /\ o.path = path /\ o.par = TRUE
        /\ o.arg = a /\ o.bad = <<LinkBad(a)>> /\ o.next = "linkin"
    BY <2>1, SMT DEF Walk
  <2> QED
    BY <2>2, Zenon
<1> QED
  BY <1>1, <1>2, <1>3, <1>4, <1>5, StepsAre, Zenon

\* The steps the calls are made of.
LEMMA StepsMade ==
  ASSUME NEW i \in Inum, NEW a \in Inum, NEW n \in Label
  PROVE  /\ End \in Steps /\ Commit \in Steps /\ NoName \in Label
         /\ Put(i) \in Steps /\ UnlockPut(i) \in Steps /\ LinkBad(i) \in Steps
         /\ \A o \in OneInode : Op(o, i, n, 0) \in Steps /\ Op(o, i, NoName, 0) \in Steps
         /\ \A o \in TwoInodes : Op(o, i, n, a) \in Steps
<1>1. NoName \in Label
  BY Zenon DEF Label
<1>2. "put" \in OneInode /\ "unlockput" \in OneInode /\ "linkbad" \in OneInode
  BY Zenon DEF OneInode
<1>3. \A o \in OneInode, m \in Label : Op(o, i, m, 0) \in Steps
  BY StepsAre, Zenon DEF StepOne
<1>4. \A o \in TwoInodes : Op(o, i, n, a) \in Steps
  BY StepsAre, Zenon DEF StepTwo
<1>5. End \in Steps /\ Commit \in Steps
  BY StepsAre, Zenon
<1>6. Put(i) \in Steps /\ UnlockPut(i) \in Steps /\ LinkBad(i) \in Steps
  BY <1>1, <1>2, <1>3, Zenon DEF Put, UnlockPut, LinkBad
<1> QED
  BY <1>1, <1>3, <1>4, <1>5, <1>6, Zenon

\* What a step counts for.
LEMMA ClaimFacts ==
  ASSUME NEW o \in Steps, NEW i \in Inum
  PROVE  /\ Same(o.ip, i) \in Nat /\ Same(o.arg, i) \in Nat
         /\ o.op \in {"end", "commit", "free", "write"} => Claim(o, i) = 0
         /\ o.op \in OneInode \ {"free", "write"} => Claim(o, i) = Same(o.ip, i)
         /\ o.op \in TwoInodes \cup {"walk"} => Claim(o, i) = Same(o.ip, i) + Same(o.arg, i)
<1>1. i # 0
  BY SMT DEF Inum
<1>2. Same(o.ip, i) \in Nat /\ Same(o.arg, i) \in Nat
  BY Zenon DEF Same
<1>3. ASSUME o.op \in {"end", "commit", "free", "write"} PROVE Claim(o, i) = 0
  <2>1. o.op \notin TwoInodes /\ o.op # "walk"
    BY <1>3, Zenon DEF TwoInodes
  <2>2. o.arg = 0 /\ (o.op \in {"free", "write"} \/ o.ip = 0)
    BY <1>3, <2>1, StepFacts, Zenon DEF OneInode
  <2>3. ~ByIp(o, i) /\ ~ByArg(o, i)
    BY <1>1, <2>2, Zenon DEF ByIp, ByArg
  <2> QED
    BY <2>3, SMT DEF Claim
<1>4. ASSUME o.op \in OneInode \ {"free", "write"} PROVE Claim(o, i) = Same(o.ip, i)
  <2>0. o.op \notin TwoInodes /\ o.op # "walk"
    BY <1>4, Zenon DEF OneInode, TwoInodes
  <2>2. o.arg = 0
    BY <2>0, StepFacts, Zenon
  <2>1. (ByIp(o, i) <=> o.ip = i) /\ ~ByArg(o, i)
    BY <1>1, <1>4, <2>2, Zenon DEF ByIp, ByArg
  <2> QED
    BY <2>1, SMT DEF Claim, Same
<1>5. ASSUME o.op \in TwoInodes \cup {"walk"} PROVE Claim(o, i) = Same(o.ip, i) + Same(o.arg, i)
  <2>1. (ByIp(o, i) <=> o.ip = i) /\ (ByArg(o, i) <=> o.arg = i)
    BY <1>5, Zenon DEF ByIp, ByArg, TwoInodes
  <2> QED
    BY <2>1, SMT DEF Claim, Same
<1> QED
  BY <1>2, <1>3, <1>4, <1>5, Zenon

\* What a step counts for is a number, and nothing counts for no inode.
LEMMA ClaimNat ==
  ASSUME NEW i \in Inum
  PROVE  (\A o : Claim(o, i) \in Nat) /\ (\A j : Same(j, i) \in Nat) /\ Same(0, i) = 0
<1>1. i # 0
  BY SMT DEF Inum
<1>2. \A o : Claim(o, i) \in Nat
  BY SMT DEF Claim
<1>3. (\A j : Same(j, i) \in Nat) /\ Same(0, i) = 0
  BY <1>1, Zenon DEF Same
<1> QED
  BY <1>2, <1>3, Zenon

\* The end of a call refers to nothing.
LEMMA EndClaim ==
  ASSUME NEW i \in Inum
  PROVE  Claim(End, i) = 0 /\ ~LockStep(End, i)
<1>1. End \in Steps /\ End.op = "end"
  BY OpFields, StepsAre DEF End
<1> QED
  BY <1>1, ClaimFacts, Zenon DEF LockStep

\* A process with a call in progress runs on a system that is up.
LEMMA AtUp ==
  ASSUME Shape, NEW p \in Proc, todo[p] # <<>>
  PROVE  /\ up /\ ListOk(todo[p], call[p])
         /\ Head(todo[p]) = todo[p][1] /\ Head(todo[p]) \in Steps /\ 1 \in 1 .. Len(todo[p])
<1>1. up
  BY Zenon DEF Shape, DownInv
<1>2. ListOk(todo[p], call[p])
  BY Zenon DEF Shape, FsTypes
<1>3. todo[p] \in Seq(Steps) /\ Len(todo[p]) \in Nat \ {0}
  BY <1>2, ListElems, Zenon DEF ListOk
<1>4. Head(todo[p]) = todo[p][1] /\ 1 \in 1 .. Len(todo[p])
  BY <1>3, SMT
<1> QED
  BY <1>1, <1>2, <1>3, <1>4, ListElems, SMT

-----------------------------------------------------------------------------
(* What a step may do.                                                       *)

\* The locks a step takes and keeps, where h is the step and a and b come in its place.
LocksKept(p, h, a, b) ==
  \A i \in Inum : \/ lock'[i] = NoProc
                  \/ lock'[i] = lock[i] /\ (LockStep(h, i) => LockStep(a, i) \/ LockStep(b, i))
                  \/ lock'[i] = p /\ (LockStep(a, i) \/ LockStep(b, i))

\* The steps a and b, one of them or neither, come in place of h.
Becomes(h, ops, a, b) ==
  \/ ops = <<>> /\ a = End /\ b = End
  \/ ops = <<a>> /\ b = End /\ h.op \notin Simple /\ a.op \notin {"free", "end", "commit"}
  \/ ops = <<a, b>> /\ h.op \notin Simple /\ a.op = "put" /\ b.op \notin {"free", "end", "commit"}
  \/ ops = <<a, b>> /\ h.op = "put" /\ a.op = "free" /\ b.op = "drop" /\ b.ip = a.ip

\* than what ref says they do.
MoveHyp(p, a, b, ops, gone, come) ==
  /\ todo[p] # <<>> /\ Becomes(Head(todo[p]), ops, a, b) /\ Do(p, ops)
  /\ UNCHANGED <<call, up>> /\ EntsOk(disk') /\ EntsOk(durable') /\ ref' \in [Inum -> Int]
  /\ lock' \in [Inum -> Proc \cup {NoProc}] /\ LocksKept(p, Head(todo[p]), a, b)
  /\ Tables(p, gone, come)
  /\ \A i \in Inum : ref'[i] + (Claim(Head(todo[p]), i) + Same(gone, i))
                         = ref[i] + (Same(come, i) + (Claim(a, i) + Claim(b, i)))
Moved(p) ==
  \E a \in Steps, b \in Steps : \E ops, gone, come : MoveHyp(p, a, b, ops, gone, come)

\* The first step of a call, which end_op() follows.
StartHyp(p, w, gone, come) ==
  /\ up /\ up' = up /\ todo[p] = <<>> /\ todo' = [todo EXCEPT ![p] = <<w, End>>]
  /\ w.op \notin {"free", "end", "commit"} /\ (w.op \in Simple \/ call'[p] \in Call)
  /\ DOMAIN call' = Proc /\ \A q \in Proc : q # p => call'[q] = call[q]
  /\ UNCHANGED <<disk, durable, lock>> /\ ref' \in [Inum -> Int] /\ Tables(p, gone, come)
  /\ \A i \in Inum : ref'[i] + Same(gone, i) = ref[i] + (Same(come, i) + Claim(w, i))
Started(p) == \E w \in Steps : \E gone, come : StartHyp(p, w, gone, come)

\* A step that leaves the current directories and the open files alone.
PlainHyp(p, a, b, ops) ==
  /\ a \in Steps /\ b \in Steps
  /\ todo[p] # <<>> /\ Becomes(Head(todo[p]), ops, a, b) /\ Do(p, ops)
  /\ UNCHANGED rest /\ EntsOk(disk') /\ ref' \in [Inum -> Int]
  /\ lock' \in [Inum -> Proc \cup {NoProc}] /\ LocksKept(p, Head(todo[p]), a, b)
  /\ \A i \in Inum : ref'[i] + Claim(Head(todo[p]), i) = ref[i] + (Claim(a, i) + Claim(b, i))

\* It is such a step.
LEMMA PlainStep ==
  ASSUME Shape, NEW p \in Proc, NEW a, NEW b, NEW ops, PlainHyp(p, a, b, ops)
  PROVE  Moved(p)
<1>1. FsTypes
  BY Zenon DEF Shape
<1>2. /\ a \in Steps /\ b \in Steps
      /\ todo[p] # <<>> /\ Becomes(Head(todo[p]), ops, a, b) /\ Do(p, ops)
      /\ UNCHANGED <<call, up, cwd, ofile>> /\ durable' = durable /\ EntsOk(disk')
      /\ lock' \in [Inum -> Proc \cup {NoProc}] /\ LocksKept(p, Head(todo[p]), a, b)
  BY Zenon DEF PlainHyp, rest
<1>3. /\ ref' \in [Inum -> Int]
      /\ \A i \in Inum : ref'[i] + Claim(Head(todo[p]), i) = ref[i] + (Claim(a, i) + Claim(b, i))
  BY Zenon DEF PlainHyp
<1>4. Tables(p, 0, 0) /\ EntsOk(durable')
  BY <1>1, <1>2, Zenon DEF Tables, FsTypes
<1>5. ASSUME NEW i \in Inum
      PROVE  ref'[i] + (Claim(Head(todo[p]), i) + Same(0, i))
               = ref[i] + (Same(0, i) + (Claim(a, i) + Claim(b, i)))
  <2>1. /\ Claim(Head(todo[p]), i) \in Nat /\ Claim(a, i) \in Nat /\ Claim(b, i) \in Nat
        /\ Same(0, i) = 0
    BY ClaimNat, Zenon
  <2>2. /\ Claim(Head(todo[p]), i) + Same(0, i) = Claim(Head(todo[p]), i)
        /\ Same(0, i) + (Claim(a, i) + Claim(b, i)) = Claim(a, i) + Claim(b, i)
    BY <2>1, SMT
  <2> QED
    BY <1>3, <2>2, Zenon
<1>6. MoveHyp(p, a, b, ops, 0, 0)
  BY <1>2, <1>3, <1>4, <1>5, Zenon DEF MoveHyp
<1> QED
  BY <1>2, <1>6, Zenon DEF Moved

\* A step that passes its references on, and one that gets another.
SameHyp(p, a, b, ops) ==
  /\ a \in Steps /\ b \in Steps
  /\ todo[p] # <<>> /\ Becomes(Head(todo[p]), ops, a, b) /\ Do(p, ops)
  /\ UNCHANGED <<ref, rest>> /\ EntsOk(disk')
  /\ lock' \in [Inum -> Proc \cup {NoProc}] /\ LocksKept(p, Head(todo[p]), a, b)
  /\ \A i \in Inum : Claim(Head(todo[p]), i) = Claim(a, i) + Claim(b, i)
GotHyp(p, a, b, ops, j) ==
  /\ a \in Steps /\ b \in Steps /\ j \in Inum
  /\ todo[p] # <<>> /\ Becomes(Head(todo[p]), ops, a, b) /\ Do(p, ops)
  /\ UNCHANGED rest /\ EntsOk(disk') /\ ref' = Got(ref, j)
  /\ lock' \in [Inum -> Proc \cup {NoProc}] /\ LocksKept(p, Head(todo[p]), a, b)
  /\ \A i \in Inum : Claim(Head(todo[p]), i) + Same(j, i) = Claim(a, i) + Claim(b, i)

\* A step that passes its references on.
LEMMA SameStep ==
  ASSUME Shape, NEW p \in Proc, NEW a, NEW b, NEW ops, SameHyp(p, a, b, ops)
  PROVE  Moved(p)
<1>1. ref' = ref /\ ref' \in [Inum -> Int] /\ UNCHANGED rest
  BY Zenon DEF Shape, FsTypes, SameHyp
<1>2. \A i \in Inum : ref'[i] + Claim(Head(todo[p]), i) = ref[i] + (Claim(a, i) + Claim(b, i))
  BY <1>1, Zenon DEF SameHyp
<1>3. PlainHyp(p, a, b, ops)
  BY <1>1, <1>2, Zenon DEF PlainHyp, SameHyp
<1> QED
  BY <1>3, PlainStep, Zenon

-----------------------------------------------------------------------------
(* What the operators of the steps return.                                   *)

\* iget(), idup(), and a reference that goes.
LEMMA GotFacts ==
  ASSUME FsTypes, NEW j \in Inum
  PROVE  /\ Got(ref, j) \in [Inum -> Int]
         /\ \A i \in Inum : Same(j, i) \in Nat /\ Got(ref, j)[i] = ref[i] + Same(j, i)
         /\ [ref EXCEPT ![j] = @ - 1] \in [Inum -> Int]
         /\ \A i \in Inum : [ref EXCEPT ![j] = @ - 1][i] + Same(j, i) = ref[i]
         /\ \A i \in Inum : ref[i] \in Int
<1>1. ref \in [Inum -> Int]
  BY Zenon DEF FsTypes
<1> QED
  BY <1>1, SMT DEF Got, Same

\* A step that gets one more reference.
LEMMA GotStep ==
  ASSUME Shape, NEW p \in Proc, NEW a, NEW b, NEW ops, NEW j, GotHyp(p, a, b, ops, j)
  PROVE  Moved(p)
<1>1. FsTypes
  BY Zenon DEF Shape
<1>2. /\ ref' \in [Inum -> Int]
      /\ \A i \in Inum : ref[i] \in Int /\ Same(j, i) \in Nat /\ ref'[i] = ref[i] + Same(j, i)
  BY <1>1, GotFacts, Zenon DEF GotHyp
<1>3. ASSUME NEW i \in Inum
      PROVE  ref'[i] + Claim(Head(todo[p]), i) = ref[i] + (Claim(a, i) + Claim(b, i))
  <2>1. /\ ref[i] \in Int /\ Same(j, i) \in Nat /\ ref'[i] = ref[i] + Same(j, i)
        /\ Claim(Head(todo[p]), i) + Same(j, i) = Claim(a, i) + Claim(b, i)
        /\ Claim(Head(todo[p]), i) \in Nat /\ Claim(a, i) \in Nat /\ Claim(b, i) \in Nat
    BY <1>2, ClaimNat, Zenon DEF GotHyp
  <2> QED
    BY <2>1, SMT
<1>4. PlainHyp(p, a, b, ops)
  BY <1>2, <1>3, Zenon DEF PlainHyp, GotHyp
<1> QED
  BY <1>4, PlainStep, Zenon

\* acquiresleep() and releasesleep().
LockTo(lk, j, q) ==
  /\ lk \in [Inum -> Proc \cup {NoProc}]
  /\ \A i \in Inum : lk[i] = IF i = j THEN q ELSE lock[i]

\* The lock of one inode changes.
LEMMA LockFacts ==
  ASSUME FsTypes, NEW j, NEW q \in Proc \cup {NoProc}
  PROVE  LockTo([lock EXCEPT ![j] = q], j, q)
<1>1. lock \in [Inum -> Proc \cup {NoProc}]
  BY Zenon DEF FsTypes
<1> QED
  BY <1>1, Zenon DEF LockTo

\* What dirlookup() finds is an inode.
LEMMA EntryInode ==
  ASSUME NEW d, EntsOk(d), NEW j \in Inum, NEW n \in Names(d, j)
  PROVE  d.ents[j][n] \in Inum
  BY Zenon DEF EntsOk, Names

\* The operations on the disk leave entries that are inodes.
LEMMA EntsSame ==
  ASSUME NEW d, EntsOk(d), NEW j, NEW x
  PROVE  /\ EntsOk(Updated(d, j, x)) /\ EntsOk(Grown(d, j)) /\ EntsOk(NlinkAdd(d, j, x))
         /\ EntsOk(Bfree(d, x))
<1>1. \A y : "ents" \in DOMAIN [d EXCEPT !.ino = y] /\ [d EXCEPT !.ino = y].ents = d.ents
  BY Zenon DEF EntsOk
<1>2. \A y : "ents" \in DOMAIN [d EXCEPT !.used = y] /\ [d EXCEPT !.used = y].ents = d.ents
  BY Zenon DEF EntsOk
<1>3. EntsOk(Updated(d, j, x))
  BY Zenon DEF EntsOk, Updated
<1>4. EntsOk(NlinkAdd(d, j, x))
  BY Zenon DEF EntsOk, NlinkAdd
<1>5. EntsOk(Bfree(d, x))
  BY Zenon DEF EntsOk, Bfree
<1>6. EntsOk(Grown(d, j))
  BY Zenon DEF EntsOk, Grown
<1> QED
  BY <1>3, <1>4, <1>5, <1>6, Zenon

\* One entry is written, and a directory is emptied.
LEMMA EntsSet ==
  ASSUME NEW d, EntsOk(d), NEW j \in Inum, NEW n, NEW x \in Inum \cup {0}
  PROVE  /\ EntsOk([d EXCEPT !.ents[j][n] = x])
         /\ EntsOk([d EXCEPT !.ino[j].blocks = {}, !.ents[j] = NoEntries])
<1>1. "ents" \in DOMAIN d /\ d.ents \in [Inum -> [Name -> Inum \cup {0}]]
  BY Zenon DEF EntsOk
<1>2. /\ "ents" \in DOMAIN [d EXCEPT !.ents[j][n] = x]
      /\ [d EXCEPT !.ents[j][n] = x].ents = [d.ents EXCEPT ![j] = [d.ents[j] EXCEPT ![n] = x]]
  BY <1>1, Zenon
<1>3. [d.ents[j] EXCEPT ![n] = x] \in [Name -> Inum \cup {0}]
  BY <1>1, Zenon
<1>4. EntsOk([d EXCEPT !.ents[j][n] = x])
  BY <1>1, <1>2, <1>3, Zenon DEF EntsOk
<1>5. NoEntries \in [Name -> Inum \cup {0}]
  BY Zenon DEF NoEntries
<1>6. /\ "ents" \in DOMAIN [d EXCEPT !.ino[j].blocks = {}, !.ents[j] = NoEntries]
      /\ [d EXCEPT !.ino[j].blocks = {}, !.ents[j] = NoEntries].ents
           = [d.ents EXCEPT ![j] = NoEntries]
  BY <1>1, Zenon
<1>7. EntsOk([d EXCEPT !.ino[j].blocks = {}, !.ents[j] = NoEntries])
  BY <1>1, <1>5, <1>6, Zenon DEF EntsOk
<1> QED
  BY <1>4, <1>7, Zenon

\* itrunc(), dirlink() and the write of a zeroed entry.
LEMMA EntsFacts ==
  ASSUME NEW d, EntsOk(d), NEW j \in Inum
  PROVE  /\ EntsOk(Truncated(d, j)) /\ EntsOk(Updated(Truncated(d, j), j, FreeInode))
         /\ \A n, x : x \in Inum \cup {0} => EntsOk(Linked(d, j, n, x)) /\ EntsOk(Unlinked(d, j, n))
<1>1. EntsOk(Bfree(d, d.ino[j].blocks))
  BY EntsSame, Zenon
<1>2. EntsOk(Truncated(d, j))
  BY <1>1, EntsSet, Zenon DEF Truncated
<1>3. EntsOk(Grown(d, j))
  BY EntsSame, Zenon
<1>4. ASSUME NEW n, NEW x \in Inum \cup {0} PROVE EntsOk(Linked(d, j, n, x))
  <2> DEFINE g == IF HasRoom(d, j) THEN d ELSE Grown(d, j)
  <2>1. EntsOk(g)
    BY <1>3, Zenon
  <2>2. Linked(d, j, n, x) = [g EXCEPT !.ents[j][n] = x]
    BY Zenon DEF Linked
  <2> HIDE DEF g
  <2> QED
    <3>1. EntsOk([g EXCEPT !.ents[j][n] = x])
      BY <2>1, EntsSet, Zenon
    <3> QED
      BY <2>2, <3>1, Zenon
<1>5. \A n : EntsOk(Unlinked(d, j, n))
  BY EntsSet, Zenon DEF Unlinked
<1> QED
  BY <1>2, <1>4, <1>5, EntsSame, Zenon

\* A step on one inode.
IsOne(a, o, j) ==
  /\ a \in Steps /\ a.op = o /\ a.op \notin {"free", "end", "commit"}
  /\ \A i \in Inum : Claim(a, i) = Same(j, i) /\ Same(j, i) \in Nat
  /\ \A i \in Inum : LockStep(a, i) <=> o \in {"opened", "unlockput", "unlink3"} /\ i = j

\* What a step on one inode claims and locks.
LEMMA OneFacts ==
  ASSUME NEW o \in OneInode \ {"free", "write"}, NEW j \in Inum, NEW n \in Label
  PROVE  IsOne(Op(o, j, n, 0), o, j)
<1>0. PICK a : a = Op(o, j, n, 0)
  BY Zenon
<1>1. a \in Steps
  BY <1>0, StepsMade, Zenon
<1>2. a.op = o /\ a.ip = j
  BY <1>0, OpFields
<1>3. \A i \in Inum : Claim(a, i) = Same(j, i) /\ Same(j, i) \in Nat
  BY <1>1, <1>2, ClaimFacts, Zenon
<1>4. o \notin {"free", "end", "commit", "unlink2"}
  BY Zenon DEF OneInode
<1>5. \A i \in Inum : LockStep(a, i) <=> o \in {"opened", "unlockput", "unlink3"} /\ i = j
  BY <1>2, <1>4, Zenon DEF LockStep
<1>6. IsOne(a, o, j)
  BY <1>1, <1>2, <1>3, <1>4, <1>5, Zenon DEF IsOne
<1> QED
  BY <1>0, <1>6, Zenon

\* A step on two.
IsTwo(a, o, j, k) ==
  /\ a \in Steps /\ a.op = o /\ a.op \notin {"free", "end", "commit"}
  /\ \A i \in Inum : /\ Claim(a, i) = Same(j, i) + Same(k, i)
                     /\ Same(j, i) \in Nat /\ Same(k, i) \in Nat
  /\ \A i \in Inum : LockStep(a, i) <=> o = "unlink2" /\ i = k

\* What a step on two inodes claims and locks.
LEMMA TwoFacts ==
  ASSUME NEW o \in TwoInodes, NEW j \in Inum, NEW n \in Label, NEW k \in Inum
  PROVE  IsTwo(Op(o, j, n, k), o, j, k)
<1>0. PICK a : a = Op(o, j, n, k)
  BY Zenon
<1>1. a \in Steps
  BY <1>0, StepsMade, Zenon
<1>2. a.op = o /\ a.ip = j /\ a.arg = k
  BY <1>0, OpFields
<1>3. \A i \in Inum : /\ Claim(a, i) = Same(j, i) + Same(k, i)
                      /\ Same(j, i) \in Nat /\ Same(k, i) \in Nat
  BY <1>1, <1>2, ClaimFacts, Zenon
<1>4. o \notin {"free", "end", "commit", "opened", "unlockput", "unlink3"}
  BY Zenon DEF TwoInodes
<1>5. \A i \in Inum : LockStep(a, i) <=> o = "unlink2" /\ i = k
  BY <1>2, <1>4, Zenon DEF LockStep
<1>6. IsTwo(a, o, j, k)
  BY <1>1, <1>2, <1>3, <1>4, <1>5, Zenon DEF IsTwo
<1> QED
  BY <1>0, <1>6, Zenon

\* iput(), and iunlockput(), of an inode.
LEMMA PutFacts ==
  ASSUME NEW j \in Inum
  PROVE  /\ Put(j) \in Steps /\ Put(j).op = "put" /\ UnlockPut(j) \in Steps
         /\ UnlockPut(j).op = "unlockput" /\ End \in Steps
         /\ \A i \in Inum : /\ Claim(Put(j), i) = Same(j, i) /\ ~LockStep(Put(j), i)
                            /\ Claim(UnlockPut(j), i) = Same(j, i)
                            /\ LockStep(UnlockPut(j), i) <=> i = j
                            /\ Claim(End, i) = 0 /\ ~LockStep(End, i) /\ Same(j, i) \in Nat
<1>1. "put" \in OneInode \ {"free", "write"} /\ "unlockput" \in OneInode \ {"free", "write"}
  BY Zenon DEF OneInode
<1>2. NoName \in Label
  BY Zenon DEF Label
<1>3. /\ Put(j) \in Steps /\ Put(j).op = "put"
      /\ \A i \in Inum : Claim(Put(j), i) = Same(j, i) /\ ~LockStep(Put(j), i) /\ Same(j, i) \in Nat
  <2>1. IsOne(Put(j), "put", j)
    BY <1>1, <1>2, OneFacts, Zenon DEF Put
  <2> QED
    BY <2>1, Zenon DEF IsOne
<1>4. /\ UnlockPut(j) \in Steps /\ UnlockPut(j).op = "unlockput"
      /\ \A i \in Inum : Claim(UnlockPut(j), i) = Same(j, i) /\ (LockStep(UnlockPut(j), i) <=> i = j)
  <2>1. IsOne(UnlockPut(j), "unlockput", j)
    BY <1>1, <1>2, OneFacts, Zenon DEF UnlockPut
  <2> QED
    BY <2>1, Zenon DEF IsOne
<1> QED
  BY <1>3, <1>4, EndClaim, StepsMade, <1>2, Zenon

\* The step a process is at.
AtHead(p, o, h) ==
  /\ todo[p] # <<>> /\ FsTypes /\ up /\ h \in Steps /\ h.op = o
  /\ ListOk(todo[p], call[p]) /\ h = todo[p][1] /\ 1 \in 1 .. Len(todo[p])
  /\ o \in OneInode => h.ip \in Inum /\ h.name \in Label
  /\ o \in TwoInodes => h.ip \in Inum /\ h.name \in Label /\ h.arg \in Inum
  /\ o \notin Simple => call[p] \in Call
  /\ \A i \in Inum :
       /\ o \in {"end", "commit", "free", "write"} => Claim(h, i) = 0
       /\ o \in OneInode \ {"free", "write"} => Claim(h, i) = Same(h.ip, i)
       /\ o \in TwoInodes \cup {"walk"} => Claim(h, i) = Same(h.ip, i) + Same(h.arg, i)

\* What is known of the step a process is at.
LEMMA AtFacts ==
  ASSUME Shape, NEW p \in Proc, NEW o, At(p, o)
  PROVE  AtHead(p, o, Head(todo[p]))
<1>0. PICK h : h = Head(todo[p])
  BY Zenon
<1>1. todo[p] # <<>> /\ h.op = o
  BY <1>0, Zenon DEF At
<1>2. up /\ ListOk(todo[p], call[p]) /\ h = todo[p][1] /\ h \in Steps /\ 1 \in 1 .. Len(todo[p])
  BY <1>0, <1>1, AtUp, Zenon
<1>3. o \in OneInode => h.ip \in Inum /\ h.name \in Label
  BY <1>1, <1>2, StepFacts, Zenon DEF OneInode, TwoInodes
<1>4. o \in TwoInodes => h.ip \in Inum /\ h.name \in Label /\ h.arg \in Inum
  BY <1>1, <1>2, StepFacts, Zenon DEF OneInode, TwoInodes
<1>5. o \notin Simple => call[p] \in Call
  BY <1>1, <1>2, Zenon DEF ListOk, ListArgs
<1>6. \A i \in Inum :
        /\ o \in {"end", "commit", "free", "write"} => Claim(h, i) = 0
        /\ o \in OneInode \ {"free", "write"} => Claim(h, i) = Same(h.ip, i)
        /\ o \in TwoInodes \cup {"walk"} => Claim(h, i) = Same(h.ip, i) + Same(h.arg, i)
  BY <1>1, <1>2, ClaimFacts, Zenon
<1>7. FsTypes
  BY Zenon DEF Shape
<1>8. AtHead(p, o, h)
  BY <1>1, <1>2, <1>3, <1>4, <1>5, <1>6, <1>7, Zenon DEF AtHead
<1> QED
  BY <1>0, <1>8, Zenon

-----------------------------------------------------------------------------
(* iput()                                                                    *)

\* A reference goes.
LEMMA DropStep ==
  ASSUME Shape, NEW p \in Proc, NEW o \in {"put", "drop"}, At(p, o),
         ref' = [ref EXCEPT ![Head(todo[p]).ip] = @ - 1], Do(p, <<>>), UNCHANGED <<disk, lock, rest>>
  PROVE  Moved(p)
<1>1. PICK h : h = Head(todo[p])
  BY Zenon
<1>2. o \in OneInode \ {"free", "write"} /\ o \notin {"opened", "unlockput", "unlink3", "free", "unlink2"}
  BY Zenon DEF OneInode
<1>3. /\ todo[p] # <<>> /\ FsTypes /\ h.op = o /\ h.ip \in Inum
      /\ \A i \in Inum : Claim(h, i) = Same(h.ip, i)
  <2>1. AtHead(p, o, h)
    BY <1>1, <1>2, AtFacts, Zenon
  <2> QED
    BY <1>2, <2>1, Zenon DEF AtHead
<1>4. End \in Steps /\ \A i \in Inum : Claim(End, i) = 0 /\ ~LockStep(End, i) /\ Same(h.ip, i) \in Nat
  BY <1>3, PutFacts, Zenon
<1>5. Becomes(h, <<>>, End, End)
  BY Zenon DEF Becomes
<1>6. /\ ref' \in [Inum -> Int]
      /\ \A i \in Inum : ref[i] \in Int /\ ref'[i] + Same(h.ip, i) = ref[i]
  BY <1>1, <1>3, GotFacts, Zenon
<1>7. ASSUME NEW i \in Inum PROVE ref'[i] + Claim(h, i) = ref[i] + (Claim(End, i) + Claim(End, i))
  <2>1. ref'[i] + Same(h.ip, i) = ref[i] /\ Claim(h, i) = Same(h.ip, i) /\ Claim(End, i) = 0 /\ ref[i] \in Int
    BY <1>3, <1>4, <1>6, Zenon
  <2> QED
    BY <2>1, SMT
<1>8. lock' = lock /\ lock' \in [Inum -> Proc \cup {NoProc}] /\ EntsOk(disk')
  BY <1>3, Zenon DEF FsTypes
<1>9. LocksKept(p, h, End, End)
  BY <1>2, <1>3, <1>8, Zenon DEF LocksKept, LockStep
<1> QED
  <2>1. PlainHyp(p, End, End, <<>>)
    BY <1>1, <1>3, <1>4, <1>5, <1>6, <1>7, <1>8, <1>9, Zenon DEF PlainHyp
  <2> QED
    BY <2>1, PlainStep, Zenon

\* iput() of an inode that lives on.
LEMMA StepPutDrop ==
  ASSUME Shape, NEW p \in Proc, PutDrop(p) \/ PutLast(p)
  PROVE  Moved(p)
<1>1. CASE PutDrop(p)
  BY <1>1, DropStep, Zenon DEF PutDrop
<1>2. CASE PutLast(p)
  BY <1>2, DropStep, Zenon DEF PutLast
<1> QED
  BY <1>1, <1>2, Zenon

\* iput() of the last reference to an unlinked inode takes the lock.
LEMMA StepPutLock ==
  ASSUME Shape, NEW p \in Proc, PutLock(p)
  PROVE  Moved(p)
<1>1. PICK h : h = Head(todo[p])
  BY Zenon
<1>2. At(p, "put") /\ "put" \in OneInode \ {"free", "write"}
  BY Zenon DEF PutLock, OneInode
<1>3. /\ todo[p] # <<>> /\ FsTypes /\ h.op = "put" /\ h.ip \in Inum
      /\ \A i \in Inum : Claim(h, i) = Same(h.ip, i)
  <2>1. AtHead(p, "put", h)
    BY <1>1, <1>2, AtFacts, Zenon
  <2> QED
    BY <1>2, <2>1, Zenon DEF AtHead
<1>4. PICK f, g : f = Op("free", h.ip, NoName, 0) /\ g = Op("drop", h.ip, NoName, 0)
  BY Zenon
<1>5. Do(p, <<f, g>>) /\ lock' = [lock EXCEPT ![h.ip] = p] /\ UNCHANGED <<ref, rest>> /\ EntsOk(disk')
  BY <1>1, <1>3, <1>4, Zenon DEF PutLock, FsTypes
<1>6. /\ f \in Steps /\ g \in Steps /\ f.op = "free" /\ f.ip = h.ip /\ g.op = "drop" /\ g.ip = h.ip
      /\ "drop" \in OneInode \ {"free", "write"}
  <2>1. "free" \in OneInode /\ "drop" \in OneInode
    BY Zenon DEF OneInode
  <2>2. NoName \in Label
    BY Zenon DEF Label
  <2> QED
    BY <1>3, <1>4, <2>1, <2>2, StepsMade, OpFields
<1>7. Becomes(h, <<f, g>>, f, g)
  BY <1>3, <1>6, Zenon DEF Becomes
<1>8. /\ lock' \in [Inum -> Proc \cup {NoProc}]
      /\ \A i \in Inum : lock'[i] = IF i = h.ip THEN p ELSE lock[i]
  <2>1. p \in Proc \cup {NoProc}
    BY Zenon
  <2>2. LockTo(lock', h.ip, p)
    BY <1>3, <1>5, <2>1, LockFacts, Zenon
  <2> QED
    BY <2>2, Zenon DEF LockTo
<1>9. ASSUME NEW i \in Inum PROVE Claim(h, i) = Claim(f, i) + Claim(g, i)
  <2>1. Claim(f, i) = 0 /\ Claim(g, i) = Same(h.ip, i) /\ Same(h.ip, i) \in Nat
    BY <1>6, ClaimFacts, Zenon
  <2> QED
    BY <1>3, <2>1, SMT
<1>10. LocksKept(p, h, f, g)
  BY <1>3, <1>6, <1>8, Zenon DEF LocksKept, LockStep
<1>11. SameHyp(p, f, g, <<f, g>>)
  BY <1>1, <1>3, <1>5, <1>6, <1>7, <1>8, <1>9, <1>10, Zenon DEF SameHyp
<1> QED
  BY <1>11, SameStep, Zenon

\* iput() frees the inode.
LEMMA StepPutFree ==
  ASSUME Shape, NEW p \in Proc, PutFree(p)
  PROVE  Moved(p)
<1>1. PICK h : h = Head(todo[p])
  BY Zenon
<1>2. At(p, "free") /\ "free" \in OneInode
  BY Zenon DEF PutFree, OneInode
<1>3. /\ todo[p] # <<>> /\ FsTypes /\ h.op = "free" /\ h.ip \in Inum
      /\ \A i \in Inum : Claim(h, i) = 0
  <2>1. AtHead(p, "free", h)
    BY <1>1, <1>2, AtFacts, Zenon
  <2> QED
    BY <1>2, <2>1, Zenon DEF AtHead
<1>4. End \in Steps /\ \A i \in Inum : Claim(End, i) = 0 /\ ~LockStep(End, i)
  BY <1>3, PutFacts, Zenon
<1>5. Becomes(h, <<>>, End, End) /\ Do(p, <<>>) /\ UNCHANGED <<ref, rest>>
  BY Zenon DEF Becomes, PutFree
<1>6. EntsOk(disk')
  <2>1. disk' = Updated(Truncated(disk, h.ip), h.ip, FreeInode)
    BY <1>1, Zenon DEF PutFree
  <2> QED
    BY <1>3, <2>1, EntsFacts, Zenon DEF FsTypes
<1>7. /\ lock' \in [Inum -> Proc \cup {NoProc}]
      /\ \A i \in Inum : lock'[i] = IF i = h.ip THEN NoProc ELSE lock[i]
  <2>1. lock' = [lock EXCEPT ![h.ip] = NoProc]
    BY <1>1, Zenon DEF PutFree
  <2>2. NoProc \in Proc \cup {NoProc}
    BY Zenon
  <2>3. LockTo(lock', h.ip, NoProc)
    BY <1>3, <2>1, <2>2, LockFacts, Zenon
  <2> QED
    BY <2>3, Zenon DEF LockTo
<1>8. LocksKept(p, h, End, End)
  BY <1>3, <1>7, Zenon DEF LocksKept, LockStep
<1>9. \A i \in Inum : Claim(h, i) = Claim(End, i) + Claim(End, i)
  BY <1>3, <1>4, SMT
<1> QED
  <2>1. SameHyp(p, End, End, <<>>)
    BY <1>1, <1>3, <1>4, <1>5, <1>6, <1>7, <1>8, <1>9, Zenon DEF SameHyp
  <2> QED
    BY <2>1, SameStep, Zenon

\* iunlockput() releases the lock.
LEMMA StepIunlockPut ==
  ASSUME Shape, NEW p \in Proc, IunlockPut(p)
  PROVE  Moved(p)
<1>1. PICK h : h = Head(todo[p])
  BY Zenon
<1>2. At(p, "unlockput") /\ "unlockput" \in OneInode \ {"free", "write"} /\ "unlockput" \notin Simple
  BY Zenon DEF IunlockPut, OneInode, Simple
<1>3. /\ todo[p] # <<>> /\ FsTypes /\ h.op = "unlockput" /\ h.ip \in Inum
      /\ \A i \in Inum : Claim(h, i) = Same(h.ip, i)
  <2>1. AtHead(p, "unlockput", h)
    BY <1>1, <1>2, AtFacts, Zenon
  <2> QED
    BY <1>2, <2>1, Zenon DEF AtHead
<1>4. PICK a : a = Put(h.ip)
  BY Zenon
<1>5. /\ a \in Steps /\ a.op = "put" /\ End \in Steps
      /\ \A i \in Inum : /\ Claim(a, i) = Same(h.ip, i) /\ Same(h.ip, i) \in Nat
                         /\ Claim(End, i) = 0
  BY <1>3, <1>4, PutFacts, Zenon
<1>6. Becomes(h, <<a>>, a, End)
  BY <1>2, <1>3, <1>5, Zenon DEF Becomes
<1>7. Do(p, <<a>>) /\ UNCHANGED <<ref, rest>> /\ EntsOk(disk') /\ lock' = [lock EXCEPT ![h.ip] = NoProc]
  BY <1>1, <1>3, <1>4, Zenon DEF IunlockPut, FsTypes
<1>8. /\ lock' \in [Inum -> Proc \cup {NoProc}]
      /\ \A i \in Inum : lock'[i] = IF i = h.ip THEN NoProc ELSE lock[i]
  <2>11. NoProc \in Proc \cup {NoProc}
    BY Zenon
  <2>12. LockTo(lock', h.ip, NoProc)
    BY <1>3, <1>7, <2>11, LockFacts, Zenon
  <2> QED
    BY <2>12, Zenon DEF LockTo
<1>9. LocksKept(p, h, a, End)
  BY <1>3, <1>8, Zenon DEF LocksKept, LockStep
<1>10. \A i \in Inum : Claim(h, i) = Claim(a, i) + Claim(End, i)
  BY <1>3, <1>5, SMT
<1> QED
  <2>1. SameHyp(p, a, End, <<a>>)
    BY <1>1, <1>3, <1>5, <1>6, <1>7, <1>8, <1>9, <1>10, Zenon DEF SameHyp
  <2> QED
    BY <2>1, SameStep, Zenon

-----------------------------------------------------------------------------
(* Steps that look at one inode and take no lock.                            *)

\* A step on an inode of which it puts the reference.
LEMMA PutStep ==
  ASSUME Shape, NEW p \in Proc, NEW o \in OneInode \ Simple, At(p, o),
         o \notin {"opened", "unlockput", "unlink3"},
         Do(p, <<Put(Head(todo[p]).ip)>>), UNCHANGED <<ref, lock, rest>>, EntsOk(disk')
  PROVE  Moved(p)
<1>1. PICK h : h = Head(todo[p])
  BY Zenon
<1>2. o \in OneInode \ {"free", "write"} /\ o \notin {"unlink2", "free"}
  BY Zenon DEF OneInode, Simple
<1>3. /\ todo[p] # <<>> /\ FsTypes /\ h.op = o /\ h.ip \in Inum
      /\ \A i \in Inum : Claim(h, i) = Same(h.ip, i)
  <2>1. AtHead(p, o, h)
    BY <1>1, <1>2, AtFacts, Zenon
  <2> QED
    BY <1>2, <2>1, Zenon DEF AtHead
<1>4. PICK a : a = Put(h.ip)
  BY Zenon
<1>5. /\ a \in Steps /\ a.op = "put" /\ End \in Steps
      /\ \A i \in Inum : /\ Claim(a, i) = Same(h.ip, i) /\ Same(h.ip, i) \in Nat
                         /\ Claim(End, i) = 0
  BY <1>3, <1>4, PutFacts, Zenon
<1>6. Becomes(h, <<a>>, a, End)
  BY <1>3, <1>5, Zenon DEF Becomes
<1>7. Do(p, <<a>>) /\ UNCHANGED <<ref, rest>> /\ lock' = lock /\ lock' \in [Inum -> Proc \cup {NoProc}]
  BY <1>1, <1>3, <1>4, Zenon DEF FsTypes
<1>8. LocksKept(p, h, a, End)
  BY <1>2, <1>3, <1>7, Zenon DEF LocksKept, LockStep
<1>9. \A i \in Inum : Claim(h, i) = Claim(a, i) + Claim(End, i)
  BY <1>3, <1>5, SMT
<1> QED
  <2>1. SameHyp(p, a, End, <<a>>)
    BY <1>1, <1>3, <1>5, <1>6, <1>7, <1>8, <1>9, Zenon DEF SameHyp
  <2> QED
    BY <2>1, SameStep, Zenon

\* A step on an inode that it locks for the next.
LEMMA LockedStep ==
  ASSUME Shape, NEW p \in Proc, NEW o \in OneInode \ Simple, At(p, o),
         o \notin {"opened", "unlockput", "unlink3"},
         Do(p, <<Op("opened", Head(todo[p]).ip, NoName, 0)>>),
         lock' = [lock EXCEPT ![Head(todo[p]).ip] = p], UNCHANGED <<ref, rest>>, EntsOk(disk')
  PROVE  Moved(p)
<1>1. PICK h : h = Head(todo[p])
  BY Zenon
<1>2. o \in OneInode \ {"free", "write"} /\ o \notin {"unlink2", "free"}
  BY Zenon DEF OneInode, Simple
<1>3. /\ todo[p] # <<>> /\ FsTypes /\ h.op = o /\ h.ip \in Inum
      /\ \A i \in Inum : Claim(h, i) = Same(h.ip, i)
  <2>1. AtHead(p, o, h)
    BY <1>1, <1>2, AtFacts, Zenon
  <2> QED
    BY <1>2, <2>1, Zenon DEF AtHead
<1>4. PICK a : a = Op("opened", h.ip, NoName, 0)
  BY Zenon
<1>5. /\ a \in Steps /\ a.op = "opened" /\ \A i \in Inum : Claim(a, i) = Same(h.ip, i)
      /\ \A i \in Inum : LockStep(a, i) <=> i = h.ip
  <2>1. "opened" \in OneInode \ {"free", "write"}
    BY Zenon DEF OneInode
  <2>2. NoName \in Label
    BY Zenon DEF Label
  <2>3. IsOne(a, "opened", h.ip)
    BY <1>3, <1>4, <2>1, <2>2, OneFacts, Zenon
  <2> QED
    BY <2>3, Zenon DEF IsOne
<1>6. End \in Steps /\ \A i \in Inum : Claim(End, i) = 0 /\ Same(h.ip, i) \in Nat
  BY <1>3, PutFacts, Zenon
<1>7. Becomes(h, <<a>>, a, End)
  BY <1>3, <1>5, Zenon DEF Becomes
<1>8. Do(p, <<a>>) /\ lock' = [lock EXCEPT ![h.ip] = p]
  BY <1>1, <1>4, Zenon
<1>9. /\ lock' \in [Inum -> Proc \cup {NoProc}]
      /\ \A i \in Inum : lock'[i] = IF i = h.ip THEN p ELSE lock[i]
  <2>11. p \in Proc \cup {NoProc}
    BY Zenon
  <2>12. LockTo([lock EXCEPT ![h.ip] = p], h.ip, p)
    BY <1>3, <2>11, LockFacts, Zenon
  <2>13. LockTo(lock', h.ip, p)
    BY <1>8, <2>12, Zenon
  <2> QED
    BY <2>13, Zenon DEF LockTo
<1>10. LocksKept(p, h, a, End)
  BY <1>2, <1>3, <1>5, <1>9, Zenon DEF LocksKept, LockStep
<1>11. \A i \in Inum : Claim(h, i) = Claim(a, i) + Claim(End, i)
  BY <1>3, <1>5, <1>6, SMT
<1> QED
  <2>1. SameHyp(p, a, End, <<a>>)
    BY <1>1, <1>3, <1>5, <1>6, <1>7, <1>8, <1>9, <1>10, <1>11, Zenon DEF SameHyp
  <2> QED
    BY <2>1, SameStep, Zenon

\* create() of a name that exists.
LEMMA StepCreateExists ==
  ASSUME Shape, NEW p \in Proc, CreateExists(p)
  PROVE  Moved(p)
<1>1. At(p, "exists") /\ "exists" \in OneInode \ Simple /\ "exists" \notin {"opened", "unlockput", "unlink3"}
  BY Zenon DEF CreateExists, OneInode, Simple
<1>2. UNCHANGED <<ref, rest>> /\ EntsOk(disk')
  BY Zenon DEF CreateExists, Shape, FsTypes
<1>3. \/ /\ lock' = [lock EXCEPT ![Head(todo[p]).ip] = p]
         /\ Do(p, <<Op("opened", Head(todo[p]).ip, NoName, 0)>>)
      \/ lock' = lock /\ Do(p, <<Put(Head(todo[p]).ip)>>)
  BY Zenon DEF CreateExists
<1> QED
  BY <1>1, <1>2, <1>3, PutStep, LockedStep, Zenon

\* open() locks the inode it found.
LEMMA StepOpenLock ==
  ASSUME Shape, NEW p \in Proc, OpenLock(p)
  PROVE  Moved(p)
<1>1. At(p, "open") /\ "open" \in OneInode \ Simple /\ "open" \notin {"opened", "unlockput", "unlink3"}
  BY Zenon DEF OpenLock, OneInode, Simple
<1>2. UNCHANGED <<ref, rest>> /\ EntsOk(disk')
  BY Zenon DEF OpenLock, Shape, FsTypes
<1>3. \/ /\ lock' = [lock EXCEPT ![Head(todo[p]).ip] = p]
         /\ Do(p, <<Op("opened", Head(todo[p]).ip, NoName, 0)>>)
      \/ lock' = lock /\ Do(p, <<Put(Head(todo[p]).ip)>>)
  BY Zenon DEF OpenLock
<1> QED
  BY <1>1, <1>2, <1>3, PutStep, LockedStep, Zenon

\* create() without a free inode, and link() that is undone.
LEMMA StepPutOnly ==
  ASSUME Shape, NEW p \in Proc, CreateNoInode(p) \/ LinkUndo(p)
  PROVE  Moved(p)
<1>1. CASE CreateNoInode(p)
  <2>1. At(p, "create") /\ "create" \in OneInode \ Simple /\ "create" \notin {"opened", "unlockput", "unlink3"}
    BY <1>1, Zenon DEF CreateNoInode, OneInode, Simple
  <2>2. UNCHANGED <<ref, lock, rest>> /\ EntsOk(disk') /\ Do(p, <<Put(Head(todo[p]).ip)>>)
    BY <1>1, Zenon DEF CreateNoInode, Shape, FsTypes
  <2> QED
    BY <2>1, <2>2, PutStep, Zenon
<1>2. CASE LinkUndo(p)
  <2>1. At(p, "linkbad") /\ "linkbad" \in OneInode \ Simple /\ "linkbad" \notin {"opened", "unlockput", "unlink3"}
    BY <1>2, Zenon DEF LinkUndo, OneInode, Simple
  <2>2. UNCHANGED <<ref, lock, rest>> /\ Do(p, <<Put(Head(todo[p]).ip)>>)
        /\ disk' = NlinkAdd(disk, Head(todo[p]).ip, -1)
    BY <1>2, Zenon DEF LinkUndo
  <2>3. EntsOk(disk')
    BY <2>2, EntsSame, Zenon DEF Shape, FsTypes
  <2> QED
    BY <2>1, <2>2, <2>3, PutStep, Zenon
<1> QED
  BY <1>1, <1>2, Zenon

\* writei() of an open file.
LEMMA StepWrite ==
  ASSUME Shape, NEW p \in Proc, Write(p)
  PROVE  Moved(p)
<1>1. PICK h : h = Head(todo[p])
  BY Zenon
<1>2. At(p, "write") /\ "write" \in OneInode
  BY Zenon DEF Write, OneInode
<1>3. /\ todo[p] # <<>> /\ FsTypes /\ h.op = "write" /\ h.ip \in Inum
      /\ \A i \in Inum : Claim(h, i) = 0
  <2>1. AtHead(p, "write", h)
    BY <1>1, <1>2, AtFacts, Zenon
  <2> QED
    BY <1>2, <2>1, Zenon DEF AtHead
<1>4. End \in Steps /\ \A i \in Inum : Claim(End, i) = 0 /\ ~LockStep(End, i)
  BY <1>3, PutFacts, Zenon
<1>5. Becomes(h, <<>>, End, End) /\ Do(p, <<>>) /\ UNCHANGED <<ref, rest>> /\ lock' = lock
  BY Zenon DEF Becomes, Write
<1>6. EntsOk(disk')
  <2>1. disk' = disk \/ disk' = Grown(disk, h.ip)
    BY <1>1, Zenon DEF Write
  <2> QED
    BY <1>3, <2>1, EntsSame, Zenon DEF FsTypes
<1>7. lock' \in [Inum -> Proc \cup {NoProc}]
  BY <1>3, <1>5, Zenon DEF FsTypes
<1>8. LocksKept(p, h, End, End)
  BY <1>3, <1>5, Zenon DEF LocksKept, LockStep
<1>9. \A i \in Inum : Claim(h, i) = Claim(End, i) + Claim(End, i)
  BY <1>3, <1>4, SMT
<1> QED
  <2>1. SameHyp(p, End, End, <<>>)
    BY <1>1, <1>3, <1>4, <1>5, <1>6, <1>7, <1>8, <1>9, Zenon DEF SameHyp
  <2> QED
    BY <2>1, SameStep, Zenon

-----------------------------------------------------------------------------
(* namex()                                                                   *)

\* The step a path walk is at.
LEMMA WalkFacts ==
  ASSUME Shape, NEW p \in Proc, At(p, "walk"), NEW h, h = Head(todo[p])
  PROVE  /\ todo[p] # <<>> /\ FsTypes /\ h.op = "walk" /\ h.op \notin Simple
         /\ h.ip \in Inum /\ h.path \in Seq(Name) /\ h.par \in BOOLEAN
         /\ \/ h.arg = 0 /\ h.bad = <<>> /\ h.next \in PathCalls
            \/ h.arg \in Inum /\ h.bad = <<LinkBad(h.arg)>> /\ h.next = "linkin" /\ h.par
         /\ \A i \in Inum : /\ Claim(h, i) = Same(h.ip, i) + Same(h.arg, i) /\ ~LockStep(h, i)
                            /\ Same(h.ip, i) \in Nat /\ Same(h.arg, i) \in Nat
                            /\ h.arg = 0 => Same(h.arg, i) = 0
<1>1. /\ todo[p] # <<>> /\ FsTypes /\ h.op = "walk" /\ h \in Steps
      /\ \A i \in Inum : Claim(h, i) = Same(h.ip, i) + Same(h.arg, i)
  <2>1. AtHead(p, "walk", h)
    BY AtFacts, Zenon
  <2>2. "walk" \in TwoInodes \cup {"walk"}
    BY Zenon
  <2> QED
    BY <2>1, <2>2, Zenon DEF AtHead
<1>2. h.op \notin Simple /\ \A i \in Inum : ~LockStep(h, i)
  BY <1>1, Zenon DEF Simple, LockStep
<1>3. /\ h.ip \in Inum /\ h.path \in Seq(Name) /\ h.par \in BOOLEAN
      /\ \/ h.arg = 0 /\ h.bad = <<>> /\ h.next \in PathCalls
         \/ h.arg \in Inum /\ h.bad = <<LinkBad(h.arg)>> /\ h.next = "linkin" /\ h.par
  BY <1>1, StepFacts, Zenon DEF OneInode, TwoInodes
<1>4. \A i \in Inum : Same(h.ip, i) \in Nat /\ Same(h.arg, i) \in Nat
  BY <1>1, ClaimFacts, Zenon
<1>5. \A i \in Inum : h.arg = 0 => Same(h.arg, i) = 0
  BY SMT DEF Inum, Same
<1> QED
  BY <1>1, <1>2, <1>3, <1>4, <1>5, Zenon

\* The walk fails: the directory is put, and the link counted before is undone.
LEMMA WalkFails ==
  ASSUME Shape, NEW p \in Proc, At(p, "walk"),
         Do(p, <<Put(Head(todo[p]).ip)>> \o Head(todo[p]).bad), UNCHANGED <<disk, ref, lock, rest>>
  PROVE  Moved(p)
<1>1. PICK h : h = Head(todo[p])
  BY Zenon
<1>2. /\ todo[p] # <<>> /\ FsTypes /\ h.op = "walk" /\ h.op \notin Simple
      /\ h.ip \in Inum
      /\ \/ h.arg = 0 /\ h.bad = <<>>
         \/ h.arg \in Inum /\ h.bad = <<LinkBad(h.arg)>>
      /\ \A i \in Inum : /\ Claim(h, i) = Same(h.ip, i) + Same(h.arg, i) /\ ~LockStep(h, i)
                         /\ Same(h.ip, i) \in Nat /\ Same(h.arg, i) \in Nat
                         /\ h.arg = 0 => Same(h.arg, i) = 0
  BY <1>1, WalkFacts, Zenon
<1>3. PICK a : a = Put(h.ip)
  BY Zenon
<1>4. /\ a \in Steps /\ a.op = "put" /\ End \in Steps /\ a.op \notin {"free", "end", "commit"}
      /\ \A i \in Inum : Claim(a, i) = Same(h.ip, i) /\ Claim(End, i) = 0
  BY <1>2, <1>3, PutFacts, Zenon
<1>5. /\ lock' = lock /\ lock' \in [Inum -> Proc \cup {NoProc}] /\ EntsOk(disk')
      /\ UNCHANGED <<ref, rest>> /\ Do(p, <<a>> \o h.bad)
  BY <1>1, <1>2, <1>3, Zenon DEF FsTypes
<1>6. CASE h.arg = 0 /\ h.bad = <<>>
  <2>1. <<a>> \o h.bad = <<a>>
    BY <1>4, <1>6, SMT
  <2>2. Becomes(h, <<a>>, a, End)
    BY <1>2, <1>4, Zenon DEF Becomes
  <2>3. LocksKept(p, h, a, End)
    BY <1>2, <1>5, Zenon DEF LocksKept
  <2>4. \A i \in Inum : Claim(h, i) = Claim(a, i) + Claim(End, i)
    BY <1>2, <1>4, <1>6, SMT
  <2>5. Do(p, <<a>>)
    BY <1>5, <2>1, Zenon
  <2> QED
    <3>1. SameHyp(p, a, End, <<a>>)
      BY <1>1, <1>2, <1>4, <1>5, <2>2, <2>3, <2>4, <2>5, Zenon DEF SameHyp
    <3> QED
      BY <3>1, SameStep, Zenon
<1>7. CASE h.arg \in Inum /\ h.bad = <<LinkBad(h.arg)>>
  <2>1. PICK b : b = LinkBad(h.arg)
    BY Zenon
  <2>2. "linkbad" \in OneInode \ {"free", "write"}
    BY Zenon DEF OneInode
  <2>3. NoName \in Label
    BY Zenon DEF Label
  <2>4. /\ b \in Steps /\ b.op = "linkbad" /\ b.op \notin {"free", "end", "commit"}
        /\ \A i \in Inum : Claim(b, i) = Same(h.arg, i)
    <3>1. IsOne(b, "linkbad", h.arg)
      BY <1>7, <2>1, <2>2, <2>3, OneFacts, Zenon DEF LinkBad
    <3> QED
      BY <3>1, Zenon DEF IsOne
  <2>5. <<a>> \o h.bad = <<a, b>>
    <3>1. PICK x, y : x = <<b>> /\ y = <<a, b>>
      BY Zenon
    <3>2. y = <<a>> \o x
      BY <1>4, <2>4, <3>1, SMT
    <3> QED
      BY <1>7, <2>1, <3>1, <3>2, Zenon
  <2>6. Becomes(h, <<a, b>>, a, b)
    BY <1>2, <1>4, <2>4, Zenon DEF Becomes
  <2>7. LocksKept(p, h, a, b)
    BY <1>2, <1>5, Zenon DEF LocksKept
  <2>8. \A i \in Inum : Claim(h, i) = Claim(a, i) + Claim(b, i)
    BY <1>2, <1>4, <2>4, Zenon
  <2>9. Do(p, <<a, b>>)
    BY <1>5, <2>5, Zenon
  <2> QED
    <3>1. SameHyp(p, a, b, <<a, b>>)
      BY <1>1, <1>2, <1>4, <1>5, <2>4, <2>6, <2>7, <2>8, <2>9, Zenon DEF SameHyp
    <3> QED
      BY <3>1, SameStep, Zenon
<1> QED
  BY <1>2, <1>6, <1>7, Zenon

\* The walk is over: the call goes on with the inode and its last name.
LEMMA WalkDone ==
  ASSUME Shape, NEW p \in Proc, At(p, "walk"), NEW n \in Label,
         Do(p, <<Op(Head(todo[p]).next, Head(todo[p]).ip, n, Head(todo[p]).arg)>>),
         UNCHANGED <<disk, ref, lock, rest>>
  PROVE  Moved(p)
<1>1. PICK h : h = Head(todo[p])
  BY Zenon
<1>2. /\ todo[p] # <<>> /\ FsTypes /\ h.op = "walk" /\ h.op \notin Simple
      /\ h.ip \in Inum
      /\ \/ h.arg = 0 /\ h.next \in PathCalls
         \/ h.arg \in Inum /\ h.next = "linkin"
      /\ \A i \in Inum : /\ Claim(h, i) = Same(h.ip, i) + Same(h.arg, i) /\ ~LockStep(h, i)
                         /\ Same(h.ip, i) \in Nat /\ Same(h.arg, i) \in Nat
                         /\ h.arg = 0 => Same(h.arg, i) = 0
  BY <1>1, WalkFacts, Zenon
<1>3. PICK a : a = Op(h.next, h.ip, n, h.arg)
  BY Zenon
<1>4. /\ a \in Steps /\ a.op \notin {"free", "end", "commit"}
      /\ \A i \in Inum : Claim(a, i) = Same(h.ip, i) + Same(h.arg, i)
  <2>1. CASE h.arg = 0 /\ h.next \in PathCalls
    <3>1. h.next \in OneInode \ {"free", "write"}
      BY <2>1, Zenon DEF PathCalls, OneInode
    <3>2. /\ a \in Steps /\ a.op = h.next /\ h.next \notin {"free", "end", "commit"}
          /\ \A i \in Inum : Claim(a, i) = Same(h.ip, i)
      <4>1. IsOne(a, h.next, h.ip)
        BY <1>2, <1>3, <2>1, <3>1, OneFacts, Zenon
      <4> QED
        BY <4>1, Zenon DEF IsOne
    <3>3. \A i \in Inum : Same(h.ip, i) = Same(h.ip, i) + Same(h.arg, i)
      BY <1>2, <2>1, SMT
    <3> QED
      BY <3>2, <3>3, Zenon
  <2>2. CASE h.arg \in Inum /\ h.next = "linkin"
    <3>1. h.next \in TwoInodes
      BY <2>2, Zenon DEF TwoInodes
    <3>2. IsTwo(a, h.next, h.ip, h.arg)
      BY <1>2, <1>3, <2>2, <3>1, TwoFacts, Zenon
    <3> QED
      BY <3>2, Zenon DEF IsTwo
  <2> QED
    BY <1>2, <2>1, <2>2, Zenon
<1>5. End \in Steps /\ \A i \in Inum : Claim(End, i) = 0
  BY <1>2, PutFacts, Zenon
<1>6. /\ lock' = lock /\ lock' \in [Inum -> Proc \cup {NoProc}] /\ EntsOk(disk')
      /\ UNCHANGED <<ref, rest>> /\ Do(p, <<a>>)
  BY <1>1, <1>2, <1>3, Zenon DEF FsTypes
<1>7. Becomes(h, <<a>>, a, End)
  BY <1>2, <1>4, Zenon DEF Becomes
<1>8. LocksKept(p, h, a, End)
  BY <1>2, <1>6, Zenon DEF LocksKept
<1>9. \A i \in Inum : Claim(h, i) = Claim(a, i) + Claim(End, i)
  BY <1>2, <1>4, <1>5, SMT
<1> QED
  <2>1. SameHyp(p, a, End, <<a>>)
    BY <1>1, <1>2, <1>4, <1>5, <1>6, <1>7, <1>8, <1>9, Zenon DEF SameHyp
  <2> QED
    BY <2>1, SameStep, Zenon

\* A walk, of a call that looks a path up and of link()'s second path.
IsWalk(w, i, a) == w \in Steps /\ w.op = "walk" /\ w.ip = i /\ w.arg = a

\* A walk of that kind is a step.
LEMMA WalkMade ==
  ASSUME NEW i \in Inum, NEW path \in Seq(Name), NEW par \in BOOLEAN, NEW next \in PathCalls
  PROVE  IsWalk(Walk(i, path, par, next, 0, <<>>), i, 0)
<1>1. PICK w : w = Walk(i, path, par, next, 0, <<>>)
  BY Zenon
<1>2. StepWalk(w)
  BY <1>1, Zenon DEF StepWalk
<1>3. w \in Steps
  BY <1>2, StepsAre, Zenon
<1>4. w.op = "walk" /\ w.ip = i /\ w.arg = 0
  BY <1>1, WalkFields
<1> QED
  BY <1>1, <1>3, <1>4, Zenon DEF IsWalk

\* The second path of link().
LEMMA LinkMade ==
  ASSUME NEW i \in Inum, NEW path \in Seq(Name), NEW a \in Inum
  PROVE  IsWalk(Walk(i, path, TRUE, "linkin", a, <<LinkBad(a)>>), i, a)
<1>1. PICK w, bad : bad = <<LinkBad(a)>> /\ w = Walk(i, path, TRUE, "linkin", a, bad)
  BY Zenon
<1>2. StepLink(w)
  BY <1>1, Zenon DEF StepLink
<1>3. w \in Steps
  BY <1>2, StepsAre, Zenon
<1>4. w.op = "walk" /\ w.ip = i /\ w.arg = a
  <2>1. PICK par, next : w = Walk(i, path, par, next, a, bad)
    BY <1>1, Zenon
  <2> QED
    BY <2>1, WalkFields
<1> QED
  BY <1>1, <1>3, <1>4, Zenon DEF IsWalk

\* Two fields of a record, one after the other.
LEMMA TwoFields ==
  ASSUME NEW r, NEW j
  PROVE  [r EXCEPT !.ip = j, !.path = Tail(@)] = [[r EXCEPT !.ip = j] EXCEPT !.path = Tail(@)]
  BY SMT

\* A walk in another directory, and one of another path.
LEMMA WalkField ==
  ASSUME NEW i, NEW path, NEW par, NEW next, NEW a, NEW bad, NEW j, NEW q
  PROVE  /\ [Walk(i, path, par, next, a, bad) EXCEPT !.ip = j] = Walk(j, path, par, next, a, bad)
         /\ [Walk(i, path, par, next, a, bad) EXCEPT !.path = q] = Walk(i, q, par, next, a, bad)
<1>1. [Walk(i, path, par, next, a, bad) EXCEPT !.ip = j] = Walk(j, path, par, next, a, bad)
  BY SMT DEF Walk
<1>2. [Walk(i, path, par, next, a, bad) EXCEPT !.path = q] = Walk(i, q, par, next, a, bad)
  BY SMT DEF Walk
<1> QED
  BY <1>1, <1>2, Zenon

\* A walk with another directory and the rest of its path.
Onward(o, w, j) ==
  o.op = "walk" /\ o.path # <<>> /\ w = [o EXCEPT !.ip = j, !.path = Tail(@)]
WalkIs(w, i, path, par, next, a, bad) == w = Walk(i, path, par, next, a, bad)

\* The walk after namex() took one name.
LEMMA WalkMoved ==
  ASSUME NEW i, NEW path, NEW par, NEW next, NEW a, NEW bad, NEW j, NEW o, NEW w,
         WalkIs(o, i, path, par, next, a, bad), Onward(o, w, j)
  PROVE  WalkIs(w, j, Tail(path), par, next, a, bad)
<1>1. PICK q, v : q = Tail(path) /\ v = [o EXCEPT !.ip = j]
  BY Zenon
<1>2. w = [v EXCEPT !.path = Tail(@)]
  <2>1. [o EXCEPT !.ip = j, !.path = Tail(@)] = [[o EXCEPT !.ip = j] EXCEPT !.path = Tail(@)]
    BY TwoFields
  <2> QED
    BY <1>1, <2>1, Zenon DEF Onward
<1>3. v = Walk(j, path, par, next, a, bad)
  <2>1. [Walk(i, path, par, next, a, bad) EXCEPT !.ip = j] = Walk(j, path, par, next, a, bad)
    BY WalkField
  <2> QED
    BY <1>1, <2>1, Zenon DEF WalkIs
<1>4. v.path = path
  BY <1>3, WalkFields
<1>5. w = [v EXCEPT !.path = q]
  BY <1>1, <1>2, <1>4, Zenon
<1>6. [Walk(j, path, par, next, a, bad) EXCEPT !.path = q] = Walk(j, q, par, next, a, bad)
  BY WalkField
<1> QED
  BY <1>1, <1>3, <1>5, <1>6, Zenon DEF WalkIs

\* The walk goes on in the directory it found.
LEMMA WalkOn ==
  ASSUME NEW o \in Steps, NEW j \in Inum, NEW w, Onward(o, w, j)
  PROVE  IsWalk(w, j, o.arg)
<1>1. StepWalk(o) \/ StepLink(o)
  <2>0. o.op = "walk"
    BY Zenon DEF Onward
  <2>1. o \notin {End, Commit}
    BY <2>0, OpFields DEF End, Commit
  <2>2. ~StepOne(o)
    BY <2>0, OpFields DEF OneInode, StepOne
  <2>3. ~StepTwo(o)
    BY <2>0, OpFields DEF TwoInodes, StepTwo
  <2> QED
    BY <2>1, <2>2, <2>3, StepsAre, Zenon
<1>2. CASE StepWalk(o)
  <2>1. PICK i \in Inum, path \in Seq(Name), par \in BOOLEAN, next \in PathCalls :
          o = Walk(i, path, par, next, 0, <<>>)
    BY <1>2, Zenon DEF StepWalk
  <2>2. o.path = path /\ o.arg = 0
    BY <2>1, WalkFields
  <2>3. Tail(path) \in Seq(Name)
    BY <2>2, ListTail, Zenon DEF Onward
  <2>4. w = Walk(j, Tail(path), par, next, 0, <<>>)
    <3>1. WalkIs(o, i, path, par, next, 0, <<>>)
      BY <2>1, Zenon DEF WalkIs
    <3>2. WalkIs(w, j, Tail(path), par, next, 0, <<>>)
      BY <3>1, WalkMoved, Zenon
    <3> QED
      BY <3>2, Zenon DEF WalkIs
  <2> QED
    BY <2>2, <2>3, <2>4, WalkMade, Zenon
<1>3. CASE StepLink(o)
  <2>1. PICK i \in Inum, path \in Seq(Name), a \in Inum :
          o = Walk(i, path, TRUE, "linkin", a, <<LinkBad(a)>>)
    BY <1>3, Zenon DEF StepLink
  <2>2. o.path = path /\ o.arg = a
    <3>1. PICK par, next, bad : o = Walk(i, path, par, next, a, bad)
      BY <2>1, Zenon
    <3> QED
      BY <3>1, WalkFields
  <2>3. Tail(path) \in Seq(Name)
    BY <2>2, ListTail, Zenon DEF Onward
  <2>4. w = Walk(j, Tail(path), TRUE, "linkin", a, <<LinkBad(a)>>)
    <3>1. WalkIs(o, i, path, TRUE, "linkin", a, <<LinkBad(a)>>)
      BY <2>1, Zenon DEF WalkIs
    <3>2. WalkIs(w, j, Tail(path), TRUE, "linkin", a, <<LinkBad(a)>>)
      BY <3>1, WalkMoved, Zenon
    <3> QED
      BY <3>2, Zenon DEF WalkIs
  <2> QED
    BY <2>2, <2>3, <2>4, LinkMade, Zenon
<1> QED
  BY <1>1, <1>2, <1>3, Zenon

\* namex() looks one name up.
LEMMA StepWalkStep ==
  ASSUME Shape, NEW p \in Proc, WalkStep(p)
  PROVE  Moved(p)
<1>1. PICK h : h = Head(todo[p])
  BY Zenon
<1>2. /\ At(p, "walk") /\ h.path # <<>> /\ UNCHANGED <<disk, lock, rest>>
  BY <1>1, Zenon DEF WalkStep
<1>3. /\ todo[p] # <<>> /\ FsTypes /\ h.op = "walk" /\ h.op \notin Simple
      /\ h.ip \in Inum /\ h.path \in Seq(Name)
      /\ \A i \in Inum : /\ Claim(h, i) = Same(h.ip, i) + Same(h.arg, i) /\ ~LockStep(h, i)
                         /\ Same(h.ip, i) \in Nat /\ Same(h.arg, i) \in Nat
  BY <1>1, <1>2, WalkFacts, Zenon
<1>4. PICK name : name = Head(h.path)
  BY Zenon
<1>5. PICK next : next = disk.ents[h.ip][name]
  BY Zenon
<1>6. \/ /\ name \in Names(disk, h.ip) /\ ref' = Got(ref, next)
         /\ Do(p, <<Put(h.ip), [h EXCEPT !.ip = next, !.path = Tail(@)]>>)
      \/ ref' = ref /\ Do(p, <<Op(h.next, h.ip, name, h.arg)>>)
      \/ ref' = ref /\ Do(p, <<Put(h.ip)>> \o h.bad)
  BY <1>1, <1>4, <1>5, Zenon DEF WalkStep
<1>7. CASE /\ name \in Names(disk, h.ip) /\ ref' = Got(ref, next)
           /\ Do(p, <<Put(h.ip), [h EXCEPT !.ip = next, !.path = Tail(@)]>>)
  <2>1. next \in Inum
    BY <1>3, <1>5, <1>7, EntryInode, Zenon DEF FsTypes
  <2>2. PICK a, b : a = Put(h.ip) /\ b = [h EXCEPT !.ip = next, !.path = Tail(@)]
    BY Zenon
  <2>3. h \in Steps
    BY <1>1, <1>3, AtUp, Zenon
  <2>4. b \in Steps /\ b.op = "walk" /\ b.ip = next /\ b.arg = h.arg
    <3>1. Onward(h, b, next)
      BY <1>2, <1>3, <2>2, Zenon DEF Onward
    <3>2. IsWalk(b, next, h.arg)
      BY <2>1, <2>3, <3>1, WalkOn, Zenon
    <3> QED
      BY <3>2, Zenon DEF IsWalk
  <2>5. /\ b.op \notin {"free", "end", "commit"}
        /\ \A i \in Inum : Claim(b, i) = Same(next, i) + Same(h.arg, i) /\ Same(next, i) \in Nat
    BY <2>4, ClaimFacts, Zenon
  <2>6. a \in Steps /\ a.op = "put" /\ \A i \in Inum : Claim(a, i) = Same(h.ip, i)
    BY <1>3, <2>2, PutFacts, Zenon
  <2>7. Becomes(h, <<a, b>>, a, b)
    BY <1>3, <2>5, <2>6, Zenon DEF Becomes
  <2>8. /\ Do(p, <<a, b>>) /\ UNCHANGED rest /\ EntsOk(disk') /\ lock' = lock
        /\ lock' \in [Inum -> Proc \cup {NoProc}]
    BY <1>2, <1>3, <1>7, <2>2, Zenon DEF FsTypes
  <2>9. LocksKept(p, h, a, b)
    BY <1>3, <2>8, Zenon DEF LocksKept
  <2>10. ASSUME NEW i \in Inum PROVE Claim(h, i) + Same(next, i) = Claim(a, i) + Claim(b, i)
    <3>1. /\ Claim(h, i) = Same(h.ip, i) + Same(h.arg, i) /\ Same(h.ip, i) \in Nat
          /\ Same(h.arg, i) \in Nat /\ Same(next, i) \in Nat
          /\ Claim(a, i) = Same(h.ip, i) /\ Claim(b, i) = Same(next, i) + Same(h.arg, i)
      BY <1>3, <2>5, <2>6, Zenon
    <3> QED
      BY <3>1, SMT
  <2> QED
    <3>1. GotHyp(p, a, b, <<a, b>>, next)
      BY <1>1, <1>3, <1>7, <2>1, <2>4, <2>6, <2>7, <2>8, <2>9, <2>10, Zenon DEF GotHyp
    <3> QED
      BY <3>1, GotStep, Zenon
<1>8. CASE ref' = ref /\ Do(p, <<Op(h.next, h.ip, name, h.arg)>>)
  <2>1. name \in Label
    BY <1>2, <1>3, <1>4, ListTail, Zenon DEF Label
  <2> QED
    BY <1>1, <1>2, <1>8, <2>1, WalkDone, Zenon
<1>9. CASE ref' = ref /\ Do(p, <<Put(h.ip)>> \o h.bad)
  BY <1>1, <1>2, <1>9, WalkFails, Zenon
<1> QED
  BY <1>6, <1>7, <1>8, <1>9, Zenon

\* namex() at the end of its path.
LEMMA StepWalkEnd ==
  ASSUME Shape, NEW p \in Proc, WalkEnd(p)
  PROVE  Moved(p)
<1>1. At(p, "walk") /\ UNCHANGED <<disk, ref, lock, rest>>
  BY Zenon DEF WalkEnd
<1>2. \/ Do(p, <<Put(Head(todo[p]).ip)>> \o Head(todo[p]).bad)
      \/ Do(p, <<Op(Head(todo[p]).next, Head(todo[p]).ip, NoName, Head(todo[p]).arg)>>)
  BY Zenon DEF WalkEnd
<1>3. NoName \in Label
  BY Zenon DEF Label
<1> QED
  BY <1>1, <1>2, <1>3, WalkFails, WalkDone, Zenon

-----------------------------------------------------------------------------
(* create()                                                                  *)

\* create() finds the name.
LEMMA StepCreateFound ==
  ASSUME Shape, NEW p \in Proc, CreateFound(p)
  PROVE  Moved(p)
<1>1. PICK h : h = Head(todo[p])
  BY Zenon
<1>2. /\ At(p, "create") /\ "create" \in OneInode \ {"free", "write"} /\ "create" \notin Simple
      /\ "exists" \in OneInode \ {"free", "write"}
  BY Zenon DEF CreateFound, OneInode, Simple
<1>3. /\ todo[p] # <<>> /\ FsTypes /\ h.op = "create" /\ h.ip \in Inum
      /\ \A i \in Inum : Claim(h, i) = Same(h.ip, i)
  <2>1. AtHead(p, "create", h)
    BY <1>1, <1>2, AtFacts, Zenon
  <2> QED
    BY <1>2, <2>1, Zenon DEF AtHead
<1>4. PICK j : j = disk.ents[h.ip][h.name]
  BY Zenon
<1>5. PICK a, b : a = Put(h.ip) /\ b = Op("exists", j, NoName, 0)
  BY Zenon
<1>6. /\ h.name \in Names(disk, h.ip) /\ ref' = Got(ref, j) /\ Do(p, <<a, b>>)
      /\ UNCHANGED <<disk, lock, rest>>
  BY <1>1, <1>4, <1>5, Zenon DEF CreateFound
<1>7. j \in Inum
  BY <1>3, <1>4, <1>6, EntryInode, Zenon DEF FsTypes
<1>8. a \in Steps /\ a.op = "put" /\ \A i \in Inum : Claim(a, i) = Same(h.ip, i)
  BY <1>3, <1>5, PutFacts, Zenon
<1>9. /\ b \in Steps /\ b.op \notin {"free", "end", "commit"}
      /\ \A i \in Inum : Claim(b, i) = Same(j, i)
  <2>1. NoName \in Label
    BY Zenon DEF Label
  <2>2. IsOne(b, "exists", j)
    BY <1>2, <1>5, <1>7, <2>1, OneFacts, Zenon
  <2> QED
    BY <2>2, Zenon DEF IsOne
<1>10. Becomes(h, <<a, b>>, a, b)
  BY <1>2, <1>3, <1>8, <1>9, Zenon DEF Becomes
<1>11. EntsOk(disk') /\ lock' = lock /\ lock' \in [Inum -> Proc \cup {NoProc}] /\ UNCHANGED rest
  BY <1>3, <1>6, Zenon DEF FsTypes
<1>12. LocksKept(p, h, a, b)
  BY <1>3, <1>11, Zenon DEF LocksKept, LockStep
<1>13. \A i \in Inum : Claim(h, i) + Same(j, i) = Claim(a, i) + Claim(b, i)
  BY <1>3, <1>8, <1>9, Zenon
<1> QED
  <2>1. GotHyp(p, a, b, <<a, b>>, j)
    BY <1>1, <1>3, <1>6, <1>7, <1>8, <1>9, <1>10, <1>11, <1>12, <1>13, Zenon DEF GotHyp
  <2> QED
    BY <2>1, GotStep, Zenon

\* The directory entries that create() leaves, whichever way it ends.
LEMMA CreateEnts ==
  ASSUME FsTypes, NEW o, o.ip \in Inum, NEW n \in Inum, NEW type, NEW d0, d0 = Allocated(n, type),
         NEW d1, d1 \in {d0, Linked(Linked(d0, n, ".", n), n, "..", o.ip)},
         NEW d2, d2 = Linked(d1, o.ip, o.name, n),
         NEW d, d \in {NlinkAdd(d1, n, -1), NlinkAdd(d2, o.ip, 1), d2}
  PROVE  EntsOk(d)
<1>1. EntsOk(d0)
  BY EntsSame, Zenon DEF Allocated, FsTypes
<1>2. n \in Inum \cup {0} /\ o.ip \in Inum \cup {0}
  BY Zenon
<1>3. EntsOk(Linked(d0, n, ".", n))
  BY <1>1, <1>2, EntsFacts, Zenon
<1>4. EntsOk(Linked(Linked(d0, n, ".", n), n, "..", o.ip))
  BY <1>2, <1>3, EntsFacts, Zenon
<1>5. EntsOk(d1)
  BY <1>1, <1>4, Zenon
<1>6. EntsOk(d2)
  BY <1>2, <1>5, EntsFacts, Zenon
<1> QED
  BY <1>5, <1>6, EntsSame, Zenon

\* create() allocates an inode and links it.
LEMMA StepCreateNew ==
  ASSUME Shape, FirstFound, NEW p \in Proc, CreateNew(p)
  PROVE  Moved(p)
<1>1. PICK h : h = Head(todo[p])
  BY Zenon
<1>2. /\ At(p, "create") /\ "create" \in OneInode \ {"free", "write"} /\ "create" \notin Simple
      /\ "opened" \in OneInode \ {"free", "write"}
  BY Zenon DEF CreateNew, OneInode, Simple
<1>3. /\ todo[p] # <<>> /\ FsTypes /\ h.op = "create" /\ h.ip \in Inum
      /\ \A i \in Inum : Claim(h, i) = Same(h.ip, i)
  <2>1. AtHead(p, "create", h)
    BY <1>1, <1>2, AtFacts, Zenon
  <2> QED
    BY <1>2, <2>1, Zenon DEF AtHead
<1>4. PICK n : n = Lowest(Unallocated(disk))
  BY Zenon
<1>5. n \in Inum
  <2>1. Unallocated(disk) # {}
    BY Zenon DEF CreateNew
  <2>2. Unallocated(disk) \in SUBSET Inum /\ Inum \in SUBSET Nat
    BY SMT DEF Unallocated, Inum
  <2>3. Unallocated(disk) \in SUBSET Nat
    BY <2>2, Zenon
  <2> QED
    BY <1>4, <2>1, <2>2, <2>3, Zenon DEF FirstFound
<1>6. PICK type, d0, d1, d2 :
        /\ type = call[p].type /\ d0 = Allocated(n, type)
        /\ d1 = IF type = "dir" /\ (type = "dir" => CanLink(d0, n, "."))
                THEN Linked(Linked(d0, n, ".", n), n, "..", h.ip) ELSE d0
        /\ d2 = Linked(d1, h.ip, h.name, n)
  BY Zenon
<1>7. EntsOk(disk')
  <2>1. disk' \in {NlinkAdd(d1, n, -1), NlinkAdd(d2, h.ip, 1), d2}
    BY <1>1, <1>4, <1>6, Zenon DEF CreateNew
  <2>2. d1 \in {d0, Linked(Linked(d0, n, ".", n), n, "..", h.ip)}
    BY <1>6, Zenon
  <2> QED
    BY <1>3, <1>5, <1>6, <2>1, <2>2, CreateEnts, Zenon
<1>8. \/ /\ lock' = [lock EXCEPT ![h.ip] = p] /\ Do(p, <<Put(n), UnlockPut(h.ip)>>)
      \/ /\ lock' = [lock EXCEPT ![n] = p]
         /\ \/ Do(p, <<Put(h.ip), Op("opened", n, NoName, 0)>>)
            \/ Do(p, <<Put(h.ip), UnlockPut(n)>>)
  BY <1>1, <1>4, Zenon DEF CreateNew
<1>9. ref' = Got(ref, n) /\ UNCHANGED rest
  BY <1>4, Zenon DEF CreateNew
<1>10. \A i \in Inum : ~LockStep(h, i)
  BY <1>3, Zenon DEF LockStep
<1>11. ASSUME NEW j \in Inum, NEW k \in Inum, (j = h.ip /\ k = n) \/ (j = n /\ k = h.ip),
              NEW b \in Steps, b.op \in {"opened", "unlockput"},
              \A i \in Inum : Claim(b, i) = Same(k, i) /\ (LockStep(b, i) <=> i = k),
              lock' = [lock EXCEPT ![k] = p], Do(p, <<Put(j), b>>)
       PROVE  Moved(p)
  <2>1. PICK a : a = Put(j)
    BY Zenon
  <2>2. /\ a \in Steps /\ a.op = "put"
        /\ \A i \in Inum : Claim(a, i) = Same(j, i) /\ Same(j, i) \in Nat
    BY <2>1, PutFacts, Zenon
  <2>3. \A i \in Inum : Same(k, i) \in Nat
    BY PutFacts, Zenon
  <2>4. Becomes(h, <<a, b>>, a, b)
    BY <1>2, <1>3, <1>11, <2>2, Zenon DEF Becomes
  <2>5. /\ lock' \in [Inum -> Proc \cup {NoProc}]
        /\ \A i \in Inum : lock'[i] = IF i = k THEN p ELSE lock[i]
    <3>11. p \in Proc \cup {NoProc}
      BY Zenon
    <3>12. LockTo(lock', k, p)
      BY <1>3, <1>11, <3>11, LockFacts, Zenon
    <3> QED
      BY <3>12, Zenon DEF LockTo
  <2>6. LocksKept(p, h, a, b)
    BY <1>10, <1>11, <2>5, Zenon DEF LocksKept
  <2>7. ASSUME NEW i \in Inum PROVE Claim(h, i) + Same(n, i) = Claim(a, i) + Claim(b, i)
    <3>1. /\ Claim(h, i) = Same(h.ip, i) /\ Claim(a, i) = Same(j, i) /\ Claim(b, i) = Same(k, i)
          /\ Same(j, i) \in Nat /\ Same(k, i) \in Nat
      BY <1>3, <1>11, <2>2, <2>3, Zenon
    <3>2. CASE j = h.ip /\ k = n
      BY <3>1, <3>2, Zenon
    <3>3. CASE j = n /\ k = h.ip
      BY <3>1, <3>3, SMT
    <3> QED
      BY <1>11, <3>2, <3>3, Zenon
  <2>8. Do(p, <<a, b>>)
    BY <1>11, <2>1, Zenon
  <2> QED
    <3>1. GotHyp(p, a, b, <<a, b>>, n)
      BY <1>1, <1>3, <1>5, <1>7, <1>9, <2>2, <2>4, <2>5, <2>6, <2>7, <2>8, Zenon DEF GotHyp
    <3> QED
      BY <3>1, GotStep, Zenon
<1>12. ASSUME NEW k \in Inum
       PROVE  /\ UnlockPut(k) \in Steps /\ UnlockPut(k).op \in {"opened", "unlockput"}
              /\ \A i \in Inum : /\ Claim(UnlockPut(k), i) = Same(k, i)
                                 /\ LockStep(UnlockPut(k), i) <=> i = k
  BY PutFacts, Zenon
<1>13. /\ Op("opened", n, NoName, 0) \in Steps /\ Op("opened", n, NoName, 0).op \in {"opened", "unlockput"}
       /\ \A i \in Inum : /\ Claim(Op("opened", n, NoName, 0), i) = Same(n, i)
                          /\ LockStep(Op("opened", n, NoName, 0), i) <=> i = n
  <2>1. NoName \in Label
    BY Zenon DEF Label
  <2>2. IsOne(Op("opened", n, NoName, 0), "opened", n)
    BY <1>2, <1>5, <2>1, OneFacts, Zenon
  <2> QED
    BY <2>2, Zenon DEF IsOne
<1>14. CASE lock' = [lock EXCEPT ![h.ip] = p] /\ Do(p, <<Put(n), UnlockPut(h.ip)>>)
  BY <1>3, <1>5, <1>11, <1>12, <1>14, Zenon
<1>15. CASE lock' = [lock EXCEPT ![n] = p] /\ Do(p, <<Put(h.ip), Op("opened", n, NoName, 0)>>)
  BY <1>3, <1>5, <1>11, <1>13, <1>15, Zenon
<1>16. CASE lock' = [lock EXCEPT ![n] = p] /\ Do(p, <<Put(h.ip), UnlockPut(n)>>)
  <2>1. /\ UnlockPut(n) \in Steps /\ UnlockPut(n).op \in {"opened", "unlockput"}
        /\ \A i \in Inum : /\ Claim(UnlockPut(n), i) = Same(n, i)
                           /\ LockStep(UnlockPut(n), i) <=> i = n
    BY <1>5, <1>12, Zenon
  <2> QED
    BY <1>3, <1>5, <1>11, <1>16, <2>1, Zenon
<1> QED
  BY <1>8, <1>14, <1>15, <1>16, Zenon

-----------------------------------------------------------------------------
(* link and unlink                                                           *)

\* link() counts the new link.
LEMMA StepLinkCount ==
  ASSUME Shape, NEW p \in Proc, LinkCount(p)
  PROVE  Moved(p)
<1>1. PICK h : h = Head(todo[p])
  BY Zenon
<1>2. /\ At(p, "link") /\ "link" \in OneInode \ Simple /\ "link" \in OneInode \ {"free", "write"}
      /\ "link" \notin {"opened", "unlockput", "unlink3"} /\ "link" \notin Simple
  BY Zenon DEF LinkCount, OneInode, Simple
<1>3. /\ todo[p] # <<>> /\ FsTypes /\ h.op = "link" /\ h.ip \in Inum /\ call[p] \in Call
      /\ \A i \in Inum : Claim(h, i) = Same(h.ip, i)
  <2>1. AtHead(p, "link", h)
    BY <1>1, <1>2, AtFacts, Zenon
  <2> QED
    BY <1>2, <2>1, Zenon DEF AtHead
<1>4. EntsOk(disk')
  <2>1. disk' = disk \/ disk' = NlinkAdd(disk, h.ip, 1)
    BY <1>1, Zenon DEF LinkCount
  <2> QED
    BY <1>3, <2>1, EntsSame, Zenon DEF FsTypes
<1>5. PICK w : w = Walk(ROOT, call[p].new, TRUE, "linkin", h.ip, <<LinkBad(h.ip)>>)
  BY Zenon
<1>6. /\ UNCHANGED <<lock, rest>>
      /\ \/ ref' = ref /\ Do(p, <<Put(h.ip)>>)
         \/ ref' = Got(ref, ROOT) /\ Do(p, <<w>>)
  BY <1>1, <1>5, Zenon DEF LinkCount, LinkBad
<1>7. CASE ref' = ref /\ Do(p, <<Put(h.ip)>>)
  BY <1>1, <1>2, <1>4, <1>6, <1>7, PutStep, Zenon
<1>8. CASE ref' = Got(ref, ROOT) /\ Do(p, <<w>>)
  <2>1. ROOT \in Inum
    BY SizeAssumption, SMT DEF Inum, ROOT
  <2>2. call[p].new \in Seq(Name)
    BY <1>3, CallAssumption, Zenon
  <2>3. w \in Steps /\ w.op = "walk" /\ w.ip = ROOT /\ w.arg = h.ip
    <3>1. IsWalk(w, ROOT, h.ip)
      BY <1>3, <1>5, <2>1, <2>2, LinkMade, Zenon
    <3> QED
      BY <3>1, Zenon DEF IsWalk
  <2>4. /\ w.op \notin {"free", "end", "commit"}
        /\ \A i \in Inum : /\ Claim(w, i) = Same(ROOT, i) + Same(h.ip, i)
                           /\ Same(ROOT, i) \in Nat /\ Same(h.ip, i) \in Nat
    BY <2>3, ClaimFacts, Zenon
  <2>5. End \in Steps /\ \A i \in Inum : Claim(End, i) = 0
    BY <1>3, PutFacts, Zenon
  <2>6. Becomes(h, <<w>>, w, End)
    BY <1>2, <1>3, <2>4, Zenon DEF Becomes
  <2>7. lock' = lock /\ lock' \in [Inum -> Proc \cup {NoProc}] /\ UNCHANGED rest
    BY <1>3, <1>6, Zenon DEF FsTypes
  <2>8. LocksKept(p, h, w, End)
    BY <1>3, <2>7, Zenon DEF LocksKept, LockStep
  <2>9. ASSUME NEW i \in Inum PROVE Claim(h, i) + Same(ROOT, i) = Claim(w, i) + Claim(End, i)
    <3>1. /\ Claim(h, i) = Same(h.ip, i) /\ Claim(w, i) = Same(ROOT, i) + Same(h.ip, i)
          /\ Claim(End, i) = 0 /\ Same(ROOT, i) \in Nat /\ Same(h.ip, i) \in Nat
      BY <1>3, <2>4, <2>5, Zenon
    <3> QED
      BY <3>1, SMT
  <2> QED
    <3>1. GotHyp(p, w, End, <<w>>, ROOT)
      BY <1>1, <1>3, <1>4, <1>8, <2>1, <2>3, <2>5, <2>6, <2>7, <2>8, <2>9, Zenon DEF GotHyp
    <3> QED
      BY <3>1, GotStep, Zenon
<1> QED
  BY <1>6, <1>7, <1>8, Zenon

\* link() writes the entry.
LEMMA StepLinkEntry ==
  ASSUME Shape, NEW p \in Proc, LinkEntry(p)
  PROVE  Moved(p)
<1>1. PICK h : h = Head(todo[p])
  BY Zenon
<1>2. /\ At(p, "linkin") /\ "linkin" \in TwoInodes /\ "linkin" \notin Simple
      /\ "linkbad" \in OneInode \ {"free", "write"}
  BY Zenon DEF LinkEntry, OneInode, TwoInodes, Simple
<1>3. /\ todo[p] # <<>> /\ FsTypes /\ h.op = "linkin" /\ h.ip \in Inum /\ h.arg \in Inum
      /\ \A i \in Inum : Claim(h, i) = Same(h.ip, i) + Same(h.arg, i)
  <2>1. AtHead(p, "linkin", h)
    BY <1>1, <1>2, AtFacts, Zenon
  <2> QED
    BY <1>2, <2>1, Zenon DEF AtHead
<1>4. EntsOk(disk')
  <2>1. disk' = disk \/ disk' = Linked(disk, h.ip, h.name, h.arg)
    BY <1>1, Zenon DEF LinkEntry
  <2>2. h.arg \in Inum \cup {0}
    BY <1>3, Zenon
  <2> QED
    BY <1>3, <2>1, <2>2, EntsFacts, Zenon DEF FsTypes
<1>5. PICK a : a = Put(h.ip)
  BY Zenon
<1>6. PICK b : b \in {Put(h.arg), Op("linkbad", h.arg, NoName, 0)} /\ Do(p, <<a, b>>)
  BY <1>1, <1>5, Zenon DEF LinkEntry
<1>7. a \in Steps /\ a.op = "put" /\ \A i \in Inum : Claim(a, i) = Same(h.ip, i)
  BY <1>3, <1>5, PutFacts, Zenon
<1>8. /\ b \in Steps /\ b.op \notin {"free", "end", "commit"}
      /\ \A i \in Inum : Claim(b, i) = Same(h.arg, i)
  <2>1. NoName \in Label
    BY Zenon DEF Label
  <2>2. CASE b = Put(h.arg)
    BY <1>3, <2>2, PutFacts, Zenon
  <2>3. CASE b = Op("linkbad", h.arg, NoName, 0)
    <3>1. IsOne(b, "linkbad", h.arg)
      BY <1>2, <1>3, <2>1, <2>3, OneFacts, Zenon
    <3> QED
      BY <3>1, Zenon DEF IsOne
  <2> QED
    BY <1>6, <2>2, <2>3, Zenon
<1>9. Becomes(h, <<a, b>>, a, b)
  BY <1>2, <1>3, <1>7, <1>8, Zenon DEF Becomes
<1>10. UNCHANGED <<ref, rest>> /\ lock' = lock /\ lock' \in [Inum -> Proc \cup {NoProc}]
  BY <1>3, Zenon DEF LinkEntry, FsTypes
<1>11. LocksKept(p, h, a, b)
  BY <1>3, <1>10, Zenon DEF LocksKept, LockStep
<1>12. \A i \in Inum : Claim(h, i) = Claim(a, i) + Claim(b, i)
  BY <1>3, <1>7, <1>8, Zenon
<1> QED
  <2>1. SameHyp(p, a, b, <<a, b>>)
    BY <1>1, <1>3, <1>4, <1>6, <1>7, <1>8, <1>9, <1>10, <1>11, <1>12, Zenon DEF SameHyp
  <2> QED
    BY <2>1, SameStep, Zenon

\* unlink() finds the entry.
LEMMA StepUnlinkFind ==
  ASSUME Shape, NEW p \in Proc, UnlinkFind(p)
  PROVE  Moved(p)
<1>1. PICK h : h = Head(todo[p])
  BY Zenon
<1>2. /\ At(p, "unlink") /\ "unlink" \in OneInode \ Simple /\ "unlink" \in OneInode \ {"free", "write"}
      /\ "unlink" \notin {"opened", "unlockput", "unlink3"} /\ "unlink" \notin Simple
      /\ "unlink2" \in TwoInodes
  BY Zenon DEF UnlinkFind, OneInode, TwoInodes, Simple
<1>3. /\ todo[p] # <<>> /\ FsTypes /\ h.op = "unlink" /\ h.ip \in Inum /\ h.name \in Label
      /\ \A i \in Inum : Claim(h, i) = Same(h.ip, i)
  <2>1. AtHead(p, "unlink", h)
    BY <1>1, <1>2, AtFacts, Zenon
  <2> QED
    BY <1>2, <2>1, Zenon DEF AtHead
<1>4. UNCHANGED <<disk, rest>> /\ EntsOk(disk')
  BY <1>3, Zenon DEF UnlinkFind, FsTypes
<1>5. PICK j : j = disk.ents[h.ip][h.name]
  BY Zenon
<1>6. PICK a : a = Op("unlink2", j, h.name, h.ip)
  BY Zenon
<1>7. \/ lock' = lock /\ ref' = ref /\ Do(p, <<Put(h.ip)>>)
      \/ /\ h.name \in Names(disk, h.ip) /\ lock' = [lock EXCEPT ![h.ip] = p]
         /\ ref' = Got(ref, j) /\ Do(p, <<a>>)
  BY <1>1, <1>5, <1>6, Zenon DEF UnlinkFind
<1>8. CASE lock' = lock /\ ref' = ref /\ Do(p, <<Put(h.ip)>>)
  BY <1>1, <1>2, <1>4, <1>8, PutStep, Zenon
<1>9. CASE /\ h.name \in Names(disk, h.ip) /\ lock' = [lock EXCEPT ![h.ip] = p]
           /\ ref' = Got(ref, j) /\ Do(p, <<a>>)
  <2>1. j \in Inum
    BY <1>3, <1>5, <1>9, EntryInode, Zenon DEF FsTypes
  <2>2. /\ a \in Steps /\ a.op = "unlink2" /\ a.op \notin {"free", "end", "commit"}
        /\ \A i \in Inum : /\ Claim(a, i) = Same(j, i) + Same(h.ip, i)
                           /\ Same(j, i) \in Nat /\ Same(h.ip, i) \in Nat
        /\ \A i \in Inum : LockStep(a, i) <=> i = h.ip
    <3>1. IsTwo(a, "unlink2", j, h.ip)
      BY <1>2, <1>3, <1>6, <2>1, TwoFacts, Zenon
    <3> QED
      BY <3>1, Zenon DEF IsTwo
  <2>3. End \in Steps /\ \A i \in Inum : Claim(End, i) = 0
    BY <1>3, PutFacts, Zenon
  <2>4. Becomes(h, <<a>>, a, End)
    BY <1>2, <1>3, <2>2, Zenon DEF Becomes
  <2>5. /\ lock' \in [Inum -> Proc \cup {NoProc}]
        /\ \A i \in Inum : lock'[i] = IF i = h.ip THEN p ELSE lock[i]
    <3>11. p \in Proc \cup {NoProc}
      BY Zenon
    <3>12. LockTo(lock', h.ip, p)
      BY <1>3, <1>9, <3>11, LockFacts, Zenon
    <3> QED
      BY <3>12, Zenon DEF LockTo
  <2>6. LocksKept(p, h, a, End)
    BY <1>3, <2>2, <2>5, Zenon DEF LocksKept, LockStep
  <2>7. ASSUME NEW i \in Inum PROVE Claim(h, i) + Same(j, i) = Claim(a, i) + Claim(End, i)
    <3>1. /\ Claim(h, i) = Same(h.ip, i) /\ Claim(a, i) = Same(j, i) + Same(h.ip, i)
          /\ Claim(End, i) = 0 /\ Same(j, i) \in Nat /\ Same(h.ip, i) \in Nat
      BY <1>3, <2>2, <2>3, Zenon
    <3> QED
      BY <3>1, SMT
  <2> QED
    <3>1. GotHyp(p, a, End, <<a>>, j)
      BY <1>1, <1>3, <1>4, <1>9, <2>1, <2>2, <2>3, <2>4, <2>5, <2>6, <2>7, Zenon DEF GotHyp
    <3> QED
      BY <3>1, GotStep, Zenon
<1> QED
  BY <1>7, <1>8, <1>9, Zenon

\* unlink() clears the entry.
LEMMA StepUnlinkEntry ==
  ASSUME Shape, NEW p \in Proc, UnlinkEntry(p)
  PROVE  Moved(p)
<1>1. PICK h : h = Head(todo[p])
  BY Zenon
<1>2. /\ At(p, "unlink2") /\ "unlink2" \in TwoInodes /\ "unlink2" \notin Simple
      /\ "unlink3" \in OneInode \ {"free", "write"}
  BY Zenon DEF UnlinkEntry, OneInode, TwoInodes, Simple
<1>3. /\ todo[p] # <<>> /\ FsTypes /\ h.op = "unlink2" /\ h.ip \in Inum /\ h.arg \in Inum
      /\ \A i \in Inum : Claim(h, i) = Same(h.ip, i) + Same(h.arg, i)
  <2>1. AtHead(p, "unlink2", h)
    BY <1>1, <1>2, AtFacts, Zenon
  <2> QED
    BY <1>2, <2>1, Zenon DEF AtHead
<1>4. EntsOk(disk')
  <2>1. \/ disk' = disk \/ disk' = Unlinked(disk, h.arg, h.name)
        \/ disk' = NlinkAdd(Unlinked(disk, h.arg, h.name), h.arg, -1)
    BY <1>1, Zenon DEF UnlinkEntry
  <2>2. EntsOk(Unlinked(disk, h.arg, h.name))
    BY <1>3, EntsFacts, Zenon DEF FsTypes
  <2> QED
    BY <1>3, <2>1, <2>2, EntsSame, Zenon DEF FsTypes
<1>5. UNCHANGED <<ref, rest>>
  BY Zenon DEF UnlinkEntry
<1>6. \/ lock' = lock /\ Do(p, <<Put(h.ip), UnlockPut(h.arg)>>)
      \/ /\ lock' = [lock EXCEPT ![h.arg] = NoProc, ![h.ip] = p]
         /\ Do(p, <<Put(h.arg), Op("unlink3", h.ip, NoName, 0)>>)
  BY <1>1, Zenon DEF UnlinkEntry
<1>7. \A i \in Inum : LockStep(h, i) <=> i = h.arg
  BY <1>3, Zenon DEF LockStep
<1>8. \A i \in Inum : Same(h.ip, i) \in Nat /\ Same(h.arg, i) \in Nat
  BY <1>3, PutFacts, Zenon
<1>9. CASE lock' = lock /\ Do(p, <<Put(h.ip), UnlockPut(h.arg)>>)
  <2>1. PICK a, b : a = Put(h.ip) /\ b = UnlockPut(h.arg)
    BY Zenon
  <2>2. /\ a \in Steps /\ a.op = "put" /\ \A i \in Inum : Claim(a, i) = Same(h.ip, i)
        /\ b \in Steps /\ b.op \notin {"free", "end", "commit"}
        /\ \A i \in Inum : Claim(b, i) = Same(h.arg, i) /\ (LockStep(b, i) <=> i = h.arg)
    BY <1>3, <2>1, PutFacts, Zenon
  <2>3. Becomes(h, <<a, b>>, a, b) /\ Do(p, <<a, b>>)
    BY <1>2, <1>3, <1>9, <2>1, <2>2, Zenon DEF Becomes
  <2>4. lock' \in [Inum -> Proc \cup {NoProc}]
    BY <1>3, <1>9, Zenon DEF FsTypes
  <2>5. LocksKept(p, h, a, b)
    BY <1>7, <1>9, <2>2, Zenon DEF LocksKept
  <2>6. \A i \in Inum : Claim(h, i) = Claim(a, i) + Claim(b, i)
    BY <1>3, <2>2, Zenon
  <2> QED
    <3>1. SameHyp(p, a, b, <<a, b>>)
      BY <1>1, <1>3, <1>4, <1>5, <2>2, <2>3, <2>4, <2>5, <2>6, Zenon DEF SameHyp
    <3> QED
      BY <3>1, SameStep, Zenon
<1>10. CASE /\ lock' = [lock EXCEPT ![h.arg] = NoProc, ![h.ip] = p]
            /\ Do(p, <<Put(h.arg), Op("unlink3", h.ip, NoName, 0)>>)
  <2>1. PICK a, b : a = Put(h.arg) /\ b = Op("unlink3", h.ip, NoName, 0)
    BY Zenon
  <2>2. NoName \in Label
    BY Zenon DEF Label
  <2>3. a \in Steps /\ a.op = "put" /\ \A i \in Inum : Claim(a, i) = Same(h.arg, i)
    BY <1>3, <2>1, PutFacts, Zenon
  <2>4. /\ b \in Steps /\ b.op \notin {"free", "end", "commit"}
        /\ \A i \in Inum : Claim(b, i) = Same(h.ip, i) /\ (LockStep(b, i) <=> i = h.ip)
    <3>1. IsOne(b, "unlink3", h.ip)
      BY <1>2, <1>3, <2>1, <2>2, OneFacts, Zenon
    <3> QED
      BY <3>1, Zenon DEF IsOne
  <2>5. Becomes(h, <<a, b>>, a, b) /\ Do(p, <<a, b>>)
    BY <1>2, <1>3, <1>10, <2>1, <2>3, <2>4, Zenon DEF Becomes
  <2>6. lock \in [Inum -> Proc \cup {NoProc}]
    BY <1>3, Zenon DEF FsTypes
  <2>7. lock' \in [Inum -> Proc \cup {NoProc}]
    BY <1>10, <2>6, Zenon
  <2>8. \A i \in Inum : \/ i = h.ip /\ lock'[i] = p
                        \/ i # h.ip /\ i = h.arg /\ lock'[i] = NoProc
                        \/ i # h.ip /\ i # h.arg /\ lock'[i] = lock[i]
    BY <1>10, <2>6, Zenon
  <2>9. LocksKept(p, h, a, b)
    BY <1>7, <2>4, <2>8, Zenon DEF LocksKept
  <2>10. ASSUME NEW i \in Inum PROVE Claim(h, i) = Claim(a, i) + Claim(b, i)
    BY <1>3, <1>8, <2>3, <2>4, SMT
  <2> QED
    <3>1. SameHyp(p, a, b, <<a, b>>)
      BY <1>1, <1>3, <1>4, <1>5, <2>3, <2>4, <2>5, <2>7, <2>9, <2>10, Zenon DEF SameHyp
    <3> QED
      BY <3>1, SameStep, Zenon
<1> QED
  BY <1>6, <1>9, <1>10, Zenon

\* unlink() counts the link down.
LEMMA StepUnlinkCount ==
  ASSUME Shape, NEW p \in Proc, UnlinkCount(p)
  PROVE  Moved(p)
<1>1. PICK h : h = Head(todo[p])
  BY Zenon
<1>2. At(p, "unlink3") /\ "unlink3" \in OneInode \ {"free", "write"} /\ "unlink3" \notin Simple
  BY Zenon DEF UnlinkCount, OneInode, Simple
<1>3. /\ todo[p] # <<>> /\ FsTypes /\ h.op = "unlink3" /\ h.ip \in Inum
      /\ \A i \in Inum : Claim(h, i) = Same(h.ip, i)
  <2>1. AtHead(p, "unlink3", h)
    BY <1>1, <1>2, AtFacts, Zenon
  <2> QED
    BY <1>2, <2>1, Zenon DEF AtHead
<1>4. PICK a : a = Put(h.ip)
  BY Zenon
<1>5. /\ a \in Steps /\ a.op = "put" /\ End \in Steps
      /\ \A i \in Inum : /\ Claim(a, i) = Same(h.ip, i) /\ Same(h.ip, i) \in Nat
                         /\ Claim(End, i) = 0
  BY <1>3, <1>4, PutFacts, Zenon
<1>6. Becomes(h, <<a>>, a, End)
  BY <1>2, <1>3, <1>5, Zenon DEF Becomes
<1>7. /\ Do(p, <<a>>) /\ UNCHANGED <<ref, rest>> /\ lock' = [lock EXCEPT ![h.ip] = NoProc]
      /\ disk' = NlinkAdd(disk, h.ip, -1)
  BY <1>1, <1>4, Zenon DEF UnlinkCount
<1>8. EntsOk(disk')
  BY <1>3, <1>7, EntsSame, Zenon DEF FsTypes
<1>9. /\ lock' \in [Inum -> Proc \cup {NoProc}]
      /\ \A i \in Inum : lock'[i] = IF i = h.ip THEN NoProc ELSE lock[i]
  <2>11. NoProc \in Proc \cup {NoProc}
    BY Zenon
  <2>12. LockTo(lock', h.ip, NoProc)
    BY <1>3, <1>7, <2>11, LockFacts, Zenon
  <2> QED
    BY <2>12, Zenon DEF LockTo
<1>10. LocksKept(p, h, a, End)
  BY <1>3, <1>9, Zenon DEF LocksKept, LockStep
<1>11. \A i \in Inum : Claim(h, i) = Claim(a, i) + Claim(End, i)
  BY <1>3, <1>5, SMT
<1> QED
  <2>1. SameHyp(p, a, End, <<a>>)
    BY <1>1, <1>3, <1>5, <1>6, <1>7, <1>8, <1>9, <1>10, <1>11, Zenon DEF SameHyp
  <2> QED
    BY <2>1, SameStep, Zenon

-----------------------------------------------------------------------------
(* Open files and current directories.                                       *)

\* open() ends with a file descriptor, or without one.
LEMMA StepOpenDone ==
  ASSUME Shape, FirstFound, NEW p \in Proc, OpenDone(p)
  PROVE  Moved(p)
<1>1. PICK h : h = Head(todo[p])
  BY Zenon
<1>2. At(p, "opened") /\ "opened" \in OneInode \ {"free", "write"} /\ "opened" \notin Simple
  BY Zenon DEF OpenDone, OneInode, Simple
<1>3. /\ todo[p] # <<>> /\ FsTypes /\ h.op = "opened" /\ h.ip \in Inum /\ call[p] \in Call
      /\ ListOk(todo[p], call[p])
      /\ \A i \in Inum : Claim(h, i) = Same(h.ip, i)
  <2>1. AtHead(p, "opened", h)
    BY <1>1, <1>2, AtFacts, Zenon
  <2> QED
    BY <1>2, <2>1, Zenon DEF AtHead
<1>4. lock' = [lock EXCEPT ![h.ip] = NoProc] /\ UNCHANGED <<ref, durable, cwd, call, calls, crashes, up>>
  BY <1>1, Zenon DEF OpenDone
<1>5. /\ lock' \in [Inum -> Proc \cup {NoProc}]
      /\ \A i \in Inum : lock'[i] = IF i = h.ip THEN NoProc ELSE lock[i]
  <2>11. NoProc \in Proc \cup {NoProc}
    BY Zenon
  <2>12. LockTo(lock', h.ip, NoProc)
    BY <1>3, <1>4, <2>11, LockFacts, Zenon
  <2> QED
    BY <2>12, Zenon DEF LockTo
<1>6. \A i \in Inum : lock'[i] = NoProc \/ (lock'[i] = lock[i] /\ ~LockStep(h, i))
  BY <1>3, <1>5, Zenon DEF LockStep
<1> DEFINE fds == {f \in 1 .. NOFILE : ofile[p][f].ip = 0}
<1>7. PICK a : a = Put(h.ip)
  BY Zenon
<1>8. /\ a \in Steps /\ a.op = "put" /\ End \in Steps
      /\ \A i \in Inum : /\ Claim(a, i) = Same(h.ip, i) /\ Same(h.ip, i) \in Nat
                         /\ Claim(End, i) = 0
  BY <1>3, <1>7, PutFacts, Zenon
<1>9. CASE fds = {}
  <2>1. Do(p, <<a>>) /\ UNCHANGED <<disk, ofile>>
    BY <1>1, <1>7, <1>9, Zenon DEF OpenDone
  <2>2. UNCHANGED <<ref, rest>> /\ EntsOk(disk')
    BY <1>3, <1>4, <2>1, Zenon DEF rest, FsTypes
  <2>3. Becomes(h, <<a>>, a, End)
    BY <1>2, <1>3, <1>8, Zenon DEF Becomes
  <2>4. LocksKept(p, h, a, End)
    BY <1>6, Zenon DEF LocksKept
  <2>5. \A i \in Inum : Claim(h, i) = Claim(a, i) + Claim(End, i)
    BY <1>3, <1>8, SMT
  <2> QED
    <3>1. SameHyp(p, a, End, <<a>>)
      BY <1>1, <1>3, <1>5, <1>8, <2>1, <2>2, <2>3, <2>4, <2>5, Zenon DEF SameHyp
    <3> QED
      BY <3>1, SameStep, Zenon
<1>10. CASE fds # {}
  <2>1. PICK f : f = Lowest(fds)
    BY Zenon
  <2>2. f \in 1 .. NOFILE /\ ofile[p][f].ip = 0
    <3>1. fds \in SUBSET Nat
      BY SMT
    <3> QED
      BY <1>10, <2>1, <3>1, Zenon DEF FirstFound
  <2>3. /\ Do(p, <<>>) /\ ofile' = [ofile EXCEPT ![p][f] = File(h.ip, call[p].write)]
        /\ disk' \in {disk, Truncated(disk, h.ip)}
    BY <1>1, <1>10, <2>1, Zenon DEF OpenDone
  <2>4. EntsOk(disk')
    BY <1>3, <2>3, EntsFacts, Zenon DEF FsTypes
  <2>5. call[p].write \in BOOLEAN
    BY <1>3, CallAssumption, Zenon
  <2>6. h.ip # 0 /\ h.ip \in Inum \cup {0}
    BY <1>3, SMT DEF Inum
  <2>7. Tables(p, 0, h.ip)
    <3>1. FilePut(ofile', p, f, h.ip, call[p].write)
      BY <2>3, <2>6, Zenon DEF FilePut
    <3> QED
      BY <1>4, <2>2, <2>5, <2>6, <3>1, Zenon DEF Tables
  <2>8. Becomes(h, <<>>, End, End) /\ EntsOk(durable') /\ ref' \in [Inum -> Int] /\ LocksKept(p, h, End, End)
    BY <1>3, <1>4, <1>6, Zenon DEF Becomes, FsTypes, LocksKept
  <2>9. ASSUME NEW i \in Inum
        PROVE  ref'[i] + (Claim(h, i) + Same(0, i)) = ref[i] + (Same(h.ip, i) + (Claim(End, i) + Claim(End, i)))
    <3>1. Claim(h, i) + Same(0, i) = Same(h.ip, i) + (Claim(End, i) + Claim(End, i))
      <4>1. Same(0, i) = 0
        BY ClaimNat, Zenon
      <4> QED
        BY <1>3, <1>8, <4>1, SMT
    <3> QED
      BY <1>4, <3>1, Zenon
  <2>10. MoveHyp(p, End, End, <<>>, 0, h.ip)
    BY <1>1, <1>3, <1>4, <1>5, <2>3, <2>4, <2>7, <2>8, <2>9, Zenon DEF MoveHyp
  <2> QED
    BY <1>8, <2>10, Zenon DEF Moved
<1> QED
  BY <1>9, <1>10, Zenon

\* chdir() swaps the current directory.
LEMMA StepChdir ==
  ASSUME Shape, NEW p \in Proc, Chdir(p)
  PROVE  Moved(p)
<1>1. PICK h : h = Head(todo[p])
  BY Zenon
<1>2. /\ At(p, "chdir") /\ "chdir" \in OneInode \ Simple /\ "chdir" \in OneInode \ {"free", "write"}
      /\ "chdir" \notin {"opened", "unlockput", "unlink3"} /\ "chdir" \notin Simple
  BY Zenon DEF Chdir, OneInode, Simple
<1>3. /\ todo[p] # <<>> /\ FsTypes /\ h.op = "chdir" /\ h.ip \in Inum /\ ListOk(todo[p], call[p])
      /\ \A i \in Inum : Claim(h, i) = Same(h.ip, i)
  <2>1. AtHead(p, "chdir", h)
    BY <1>1, <1>2, AtFacts, Zenon
  <2> QED
    BY <1>2, <2>1, Zenon DEF AtHead
<1>4. UNCHANGED <<disk, ref, lock, durable, ofile, call, calls, crashes, up>>
  BY Zenon DEF Chdir
<1>5. \/ cwd' = cwd /\ Do(p, <<Put(h.ip)>>)
      \/ cwd' = [cwd EXCEPT ![p] = h.ip] /\ Do(p, <<Put(cwd[p])>>)
  BY <1>1, Zenon DEF Chdir
<1>6. CASE cwd' = cwd /\ Do(p, <<Put(h.ip)>>)
  <2>1. UNCHANGED <<ref, lock, rest>> /\ EntsOk(disk')
    BY <1>3, <1>4, <1>6, Zenon DEF rest, FsTypes
  <2> QED
    BY <1>1, <1>2, <1>6, <2>1, PutStep, Zenon
<1>7. CASE cwd' = [cwd EXCEPT ![p] = h.ip] /\ Do(p, <<Put(cwd[p])>>)
  <2>1. cwd[p] \in Inum
    BY <1>3, Zenon DEF FsTypes
  <2>2. PICK a : a = Put(cwd[p])
    BY Zenon
  <2>3. /\ a \in Steps /\ a.op = "put" /\ End \in Steps /\ a.op \notin {"free", "end", "commit"}
        /\ \A i \in Inum : /\ Claim(a, i) = Same(cwd[p], i) /\ Same(cwd[p], i) \in Nat
                           /\ Claim(End, i) = 0 /\ ~LockStep(a, i)
    BY <2>1, <2>2, PutFacts, Zenon
  <2>4. Becomes(h, <<a>>, a, End) /\ Do(p, <<a>>) /\ Tables(p, cwd[p], h.ip)
    BY <1>2, <1>3, <1>4, <1>7, <2>2, <2>3, Zenon DEF Becomes, Tables
  <2>5. ASSUME NEW i \in Inum
        PROVE  ref'[i] + (Claim(h, i) + Same(cwd[p], i)) = ref[i] + (Same(h.ip, i) + (Claim(a, i) + Claim(End, i)))
    <3>1. Claim(a, i) + Claim(End, i) = Same(cwd[p], i)
      BY <2>3, SMT
    <3> QED
      BY <1>3, <1>4, <3>1, Zenon
  <2>6. /\ EntsOk(disk') /\ EntsOk(durable') /\ ref' \in [Inum -> Int]
        /\ lock' \in [Inum -> Proc \cup {NoProc}] /\ LocksKept(p, h, a, End)
    BY <1>3, <1>4, Zenon DEF FsTypes, LocksKept, LockStep
  <2>7. MoveHyp(p, a, End, <<a>>, cwd[p], h.ip)
    BY <1>1, <1>3, <1>4, <2>4, <2>5, <2>6, Zenon DEF MoveHyp
  <2> QED
    BY <2>3, <2>7, Zenon DEF Moved
<1> QED
  BY <1>5, <1>6, <1>7, Zenon

-----------------------------------------------------------------------------
(* The beginning and the end of a call.                                      *)

\* A list with nothing to do.
LEMMA EmptyList ==
  ASSUME NEW c
  PROVE  ListOk(<<>>, c) /\ Len(<<>>) = 0 /\ 1 .. 0 = {}
<1>1. <<>> \in Seq(Steps) /\ Len(<<>>) = 0 /\ 1 .. 0 = {} /\ 0 <= 4 /\ 0 # 4 /\ 0 # 3
  BY SMT
<1>2. ListLen(<<>>) /\ ListArgs(<<>>, c) /\ ListEnd(<<>>) /\ ListFree(<<>>)
  BY <1>1, Zenon DEF ListLen, ListArgs, ListEnd, ListFree
<1> QED
  BY <1>1, <1>2, Zenon DEF ListOk

\* A membership is true or false.
LEMMA TruthValue ==
  ASSUME NEW x, NEW S
  PROVE  (x \in S) \in BOOLEAN
  BY SMT

\* A call that looks a path up starts.
LEMMA StepStartPath ==
  ASSUME Shape, NEW p \in Proc, NEW c \in Call, StartPath(p, c)
  PROVE  Started(p)
<1>1. FsTypes
  BY Zenon DEF Shape
<1>2. PICK start : start = IF c.relative THEN cwd[p] ELSE ROOT
  BY Zenon
<1>3. PICK par \in BOOLEAN : par = (c.call \in {"create", "unlink"})
  BY TruthValue, Zenon
<1>4. PICK w : w = Walk(start, c.path, par, c.call, 0, <<>>)
  BY Zenon
<1>5. /\ up /\ up' = up /\ todo[p] = <<>> /\ ref' = Got(ref, start)
      /\ todo' = [todo EXCEPT ![p] = <<w, End>>] /\ call' = [call EXCEPT ![p] = c]
      /\ UNCHANGED <<disk, durable, lock, cwd, ofile>>
  BY <1>2, <1>3, <1>4, Zenon DEF StartPath, CanBegin
<1>6. start \in Inum
  <2>1. ROOT \in Inum
    BY SizeAssumption, SMT DEF Inum, ROOT
  <2> QED
    BY <1>1, <1>2, <2>1, Zenon DEF FsTypes
<1>7. c.path \in Seq(Name) /\ c.call \in PathCalls
  BY CallAssumption, Zenon
<1>8. w \in Steps /\ w.op = "walk" /\ w.ip = start /\ w.arg = 0
  <2>1. IsWalk(w, start, 0)
    BY <1>3, <1>4, <1>6, <1>7, WalkMade, Zenon
  <2> QED
    BY <2>1, Zenon DEF IsWalk
<1>9. w.op \notin {"free", "end", "commit"}
  BY <1>8, Zenon
<1>10. /\ DOMAIN call' = Proc /\ call'[p] = c /\ \A q \in Proc : q # p => call'[q] = call[q]
  BY <1>1, <1>5, Zenon DEF FsTypes
<1>11. /\ ref' \in [Inum -> Int]
       /\ \A i \in Inum : ref[i] \in Int /\ Same(start, i) \in Nat /\ ref'[i] = ref[i] + Same(start, i)
  BY <1>1, <1>5, <1>6, GotFacts, Zenon
<1>12. ASSUME NEW i \in Inum
       PROVE  ref'[i] + Same(0, i) = ref[i] + (Same(0, i) + Claim(w, i))
  <2>1. Claim(w, i) = Same(start, i) + Same(0, i) /\ Same(0, i) = 0
    BY <1>8, ClaimFacts, ClaimNat, Zenon
  <2> QED
    BY <1>11, <2>1, SMT
<1>13. StartHyp(p, w, 0, 0)
  BY <1>5, <1>8, <1>9, <1>10, <1>11, <1>12, Zenon DEF StartHyp, Tables
<1> QED
  BY <1>8, <1>13, Zenon DEF Started

\* close() puts the reference of the file.
LEMMA StepClose ==
  ASSUME Shape, NEW p \in Proc, NEW f \in 1 .. NOFILE, Close(p, f)
  PROVE  Started(p)
<1>1. FsTypes
  BY Zenon DEF Shape
<1>2. PICK j : j = ofile[p][f].ip
  BY Zenon
<1>3. PICK w : w = Put(j)
  BY Zenon
<1>4. /\ up /\ up' = up /\ todo[p] = <<>> /\ j # 0
      /\ ofile' = [ofile EXCEPT ![p][f] = File(0, FALSE)]
      /\ todo' = [todo EXCEPT ![p] = <<w, End>>]
      /\ UNCHANGED <<disk, durable, ref, lock, cwd, call>>
  BY <1>2, <1>3, Zenon DEF Close, CanBegin
<1>5. j \in Inum
  <2>1. ofile[p][f] \in [ip : Inum \cup {0}, writable : BOOLEAN]
    BY <1>1, Zenon DEF FsTypes, FilesOk
  <2>2. ofile[p][f].ip \in Inum \cup {0}
    BY <2>1, Zenon
  <2> QED
    BY <1>2, <1>4, <2>2, Zenon
<1>6. /\ w \in Steps /\ w.op = "put" /\ w.op \notin {"free", "end", "commit"} /\ w.op \in Simple
      /\ \A i \in Inum : Claim(w, i) = Same(j, i)
  BY <1>3, <1>5, PutFacts, Zenon DEF Simple
<1>7. 0 \in Inum \cup {0} /\ FALSE \in BOOLEAN
  BY Zenon
<1>8. Tables(p, j, 0)
  <2>1. FilePut(ofile', p, f, 0, FALSE)
    BY <1>4, Zenon DEF FilePut
  <2> QED
    BY <1>2, <1>4, <1>7, <2>1, Zenon DEF Tables
<1>9. ASSUME NEW i \in Inum
      PROVE  ref'[i] + Same(j, i) = ref[i] + (Same(0, i) + Claim(w, i))
  <2>1. Same(0, i) + Claim(w, i) = Same(j, i)
    <3>1. Same(0, i) = 0 /\ Same(j, i) \in Nat
      BY ClaimNat, Zenon
    <3> QED
      BY <1>6, <3>1, SMT
  <2> QED
    BY <1>4, <2>1, Zenon
<1>10. /\ DOMAIN call' = Proc /\ \A q \in Proc : q # p => call'[q] = call[q]
       /\ ref' \in [Inum -> Int]
  BY <1>1, <1>4, Zenon DEF FsTypes
<1>11. StartHyp(p, w, j, 0)
  BY <1>4, <1>6, <1>8, <1>9, <1>10, Zenon DEF StartHyp
<1> QED
  BY <1>6, <1>11, Zenon DEF Started

\* write() to an open file starts.
LEMMA StepStartWrite ==
  ASSUME Shape, NEW p \in Proc, NEW f \in 1 .. NOFILE, StartWrite(p, f)
  PROVE  Started(p)
<1>1. FsTypes
  BY Zenon DEF Shape
<1>2. PICK j : j = ofile[p][f].ip
  BY Zenon
<1>3. PICK w : w = Op("write", j, NoName, 0)
  BY Zenon
<1>4. /\ up /\ up' = up /\ todo[p] = <<>> /\ ofile[p][f].writable
      /\ todo' = [todo EXCEPT ![p] = <<w, End>>]
      /\ UNCHANGED <<disk, durable, ref, lock, cwd, ofile, call>>
  BY <1>2, <1>3, Zenon DEF StartWrite, CanBegin
<1>5. j \in Inum
  BY <1>1, <1>2, <1>4, Zenon DEF FsTypes, FilesOk
<1>6. w \in Steps /\ w.op = "write" /\ w.op \notin {"free", "end", "commit"} /\ w.op \in Simple
  <2>1. "write" \in OneInode /\ "write" \in Simple
    BY Zenon DEF OneInode, Simple
  <2>2. NoName \in Label
    BY Zenon DEF Label
  <2> QED
    BY <1>3, <1>5, <2>1, <2>2, StepsMade, OpFields
<1>7. ASSUME NEW i \in Inum
      PROVE  ref'[i] + Same(0, i) = ref[i] + (Same(0, i) + Claim(w, i))
  <2>1. Claim(w, i) = 0 /\ Same(0, i) = 0
    BY <1>6, ClaimFacts, ClaimNat, Zenon
  <2>2. Same(0, i) + Claim(w, i) = Same(0, i)
    BY <2>1, SMT
  <2> QED
    BY <1>4, <2>2, Zenon
<1>8. /\ DOMAIN call' = Proc /\ \A q \in Proc : q # p => call'[q] = call[q]
      /\ ref' \in [Inum -> Int] /\ Tables(p, 0, 0)
  BY <1>1, <1>4, Zenon DEF FsTypes, Tables
<1>9. StartHyp(p, w, 0, 0)
  BY <1>4, <1>6, <1>7, <1>8, Zenon DEF StartHyp
<1> QED
  BY <1>6, <1>9, Zenon DEF Started

\* The commit makes the disk durable.
LEMMA StepCommitOp ==
  ASSUME Shape, NEW p \in Proc, CommitOp(p)
  PROVE  Moved(p)
<1>1. PICK h : h = Head(todo[p])
  BY Zenon
<1>2. At(p, "commit")
  BY Zenon DEF CommitOp
<1>3. /\ todo[p] # <<>> /\ FsTypes /\ h.op = "commit"
      /\ \A i \in Inum : Claim(h, i) = 0
  <2>1. AtHead(p, "commit", h)
    BY <1>1, <1>2, AtFacts, Zenon
  <2> QED
    BY <1>2, <2>1, Zenon DEF AtHead
<1>4. durable' = disk /\ Do(p, <<>>) /\ UNCHANGED <<disk, ref, lock, cwd, ofile, call, up>>
  BY Zenon DEF CommitOp
<1>5. Becomes(h, <<>>, End, End) /\ Tables(p, 0, 0) /\ End \in Steps
  BY <1>4, StepsAre, Zenon DEF Becomes, Tables
<1>6. /\ EntsOk(disk') /\ EntsOk(durable') /\ ref' \in [Inum -> Int]
      /\ lock' \in [Inum -> Proc \cup {NoProc}] /\ LocksKept(p, h, End, End)
  BY <1>3, <1>4, Zenon DEF FsTypes, LocksKept, LockStep
<1>7. ASSUME NEW i \in Inum
      PROVE  ref'[i] + (Claim(h, i) + Same(0, i)) = ref[i] + (Same(0, i) + (Claim(End, i) + Claim(End, i)))
  <2>1. Claim(h, i) = 0 /\ Claim(End, i) = 0 /\ Same(0, i) = 0
    BY <1>3, EndClaim, ClaimNat, Zenon
  <2>2. Claim(h, i) + Same(0, i) = Same(0, i) + (Claim(End, i) + Claim(End, i))
    BY <2>1, SMT
  <2> QED
    BY <1>4, <2>2, Zenon
<1>8. MoveHyp(p, End, End, <<>>, 0, 0)
  BY <1>1, <1>3, <1>4, <1>5, <1>6, <1>7, Zenon DEF MoveHyp
<1> QED
  BY <1>5, <1>8, Zenon DEF Moved

-----------------------------------------------------------------------------
(* Lists of steps.                                                           *)

\* Equal lists.
LEMMA ListSame ==
  ASSUME NEW S, NEW s \in Seq(S), NEW t \in Seq(S), Len(s) = Len(t), \A k \in 1 .. Len(s) : s[k] = t[k]
  PROVE  s = t
  OBVIOUS

\* One list after another.
LEMMA ListJoin ==
  ASSUME NEW S, NEW s \in Seq(S), NEW t \in Seq(S)
  PROVE  /\ s \o t \in Seq(S) /\ Len(s \o t) = Len(s) + Len(t)
         /\ \A k \in 1 .. Len(s) + Len(t) :
              (s \o t)[k] = IF k <= Len(s) THEN s[k] ELSE t[k - Len(s)]
  OBVIOUS

\* Nothing, before or after a list.
LEMMA ListJoinEmpty ==
  ASSUME NEW S, NEW s \in Seq(S)
  PROVE  s \o <<>> = s /\ <<>> \o s = s
<1>1. s \o <<>> = s
  OBVIOUS
<1>2. <<>> \o s = s
  <2>1. Len(<<>> \o s) = Len(s) /\ <<>> \o s \in Seq(S) /\ \A k \in 1 .. Len(s) : (<<>> \o s)[k] = s[k]
    OBVIOUS
  <2> QED
    BY <2>1, ListSame
<1> QED
  BY <1>1, <1>2

\* Three lists in a row.
LEMMA ListJoinTwice ==
  ASSUME NEW S, NEW s \in Seq(S), NEW t \in Seq(S), NEW u \in Seq(S)
  PROVE  (s \o t) \o u = s \o (t \o u)
<1>1. PICK a, b : a = (s \o t) \o u /\ b = s \o (t \o u)
  OBVIOUS
<1>2. a \in Seq(S) /\ b \in Seq(S) /\ Len(a) = Len(s) + Len(t) + Len(u) /\ Len(b) = Len(a)
  BY <1>1
<1>3. \A k \in 1 .. Len(a) : a[k] = b[k]
  BY <1>1, <1>2
<1> QED
  BY <1>1, <1>2, <1>3, ListSame

\* The places of a list and of what follows its first step.
LEMMA PlaceShift ==
  ASSUME NEW m \in 1 .. 5, NEW n, n = m - 1, NEW k \in 1 .. 5
  PROVE  (k <= n <=> k + 1 <= m) /\ (k <= n => k \in 1 .. n)
  BY SMT

\* What the elements of a list count for is a number, and so is their sum.
LEMMA ClaimsNat ==
  ASSUME NEW i
  PROVE  /\ \A o : Claim(o, i) \in Nat
         /\ \A s, k : ClaimAt(s, k, i) \in Nat
         /\ \A s : Claims(s, i) \in Nat
<1>1. \A o : Claim(o, i) \in Nat
  BY SMT DEF Claim
<1>2. \A s, k : ClaimAt(s, k, i) \in Nat
  BY <1>1, SMT DEF ClaimAt
<1>3. ASSUME NEW s PROVE Claims(s, i) \in Nat
  BY <1>2, SMT DEF Claims
<1> QED
  BY <1>1, <1>2, <1>3, Zenon

\* What a list counts for is what its first step and the others count for.
LEMMA ClaimsTail ==
  ASSUME NEW s, NEW t, Len(s) \in 1 .. 5, Len(t) = Len(s) - 1,
         \A k \in 1 .. Len(t) : t[k] = s[k + 1], NEW i
  PROVE  Claims(s, i) = Claims(t, i) + Claim(s[1], i)
<1>1. \A k \in 1 .. 5 : k <= Len(t) <=> k + 1 <= Len(s)
  BY PlaceShift, Zenon
<1>2. \A k \in 1 .. 5 : k <= Len(t) => t[k] = s[k + 1]
  BY PlaceShift, Zenon
<1>3. \A k \in 1 .. 5 : ClaimAt(t, k, i) = ClaimAt(s, k + 1, i)
  BY <1>1, <1>2, Zenon DEF ClaimAt
<1>4. 1 \in 1 .. 5 /\ 2 \in 1 .. 5 /\ 3 \in 1 .. 5 /\ 4 \in 1 .. 5 /\ 1 <= Len(s) /\ ~(5 <= Len(t))
      /\ 1 + 1 = 2 /\ 2 + 1 = 3 /\ 3 + 1 = 4 /\ 4 + 1 = 5
  BY SMT
<1>5. /\ ClaimAt(t, 1, i) = ClaimAt(s, 2, i) /\ ClaimAt(t, 2, i) = ClaimAt(s, 3, i)
      /\ ClaimAt(t, 3, i) = ClaimAt(s, 4, i) /\ ClaimAt(t, 4, i) = ClaimAt(s, 5, i)
      /\ ClaimAt(t, 5, i) = 0 /\ ClaimAt(s, 1, i) = Claim(s[1], i)
  <2>1. \A k \in {1, 2, 3, 4} : k \in 1 .. 5 /\ ClaimAt(t, k, i) = ClaimAt(s, k + 1, i)
    BY <1>3, <1>4, Zenon
  <2>2. ClaimAt(t, 5, i) = 0 /\ ClaimAt(s, 1, i) = Claim(s[1], i)
    BY <1>4, Zenon DEF ClaimAt
  <2> QED
    BY <1>4, <2>1, <2>2, Zenon
<1>6. /\ ClaimAt(s, 1, i) \in Nat /\ ClaimAt(s, 2, i) \in Nat /\ ClaimAt(s, 3, i) \in Nat
      /\ ClaimAt(s, 4, i) \in Nat /\ ClaimAt(s, 5, i) \in Nat
  BY ClaimsNat, Zenon
<1>7. /\ Claims(s, i) = ClaimAt(s, 1, i) + (ClaimAt(s, 2, i) + (ClaimAt(s, 3, i)
                          + (ClaimAt(s, 4, i) + ClaimAt(s, 5, i))))
      /\ Claims(t, i) = ClaimAt(s, 2, i) + (ClaimAt(s, 3, i)
                          + (ClaimAt(s, 4, i) + (ClaimAt(s, 5, i) + 0)))
  BY <1>5, Zenon DEF Claims
<1>8. PICK a, b, c, d, e : /\ a = ClaimAt(s, 1, i) /\ b = ClaimAt(s, 2, i) /\ c = ClaimAt(s, 3, i)
                           /\ d = ClaimAt(s, 4, i) /\ e = ClaimAt(s, 5, i)
  BY Zenon
<1>9. /\ a \in Nat /\ b \in Nat /\ c \in Nat /\ d \in Nat /\ e \in Nat
      /\ Claims(s, i) = a + (b + (c + (d + e))) /\ Claims(t, i) = b + (c + (d + (e + 0)))
      /\ Claim(s[1], i) = a
  BY <1>5, <1>6, <1>7, <1>8, Zenon
<1>10. a + (b + (c + (d + e))) = (b + (c + (d + (e + 0)))) + a
  BY <1>9, SMT
<1> QED
  BY <1>9, <1>10, Zenon

\* A list with nothing to do refers to nothing.
LEMMA EmptyClaims ==
  ASSUME NEW i
  PROVE  Claims(<<>>, i) = 0
<1>1. \A k \in {1, 2, 3, 4, 5} : ~(k <= 0)
  BY SMT
<1>2. \A k \in {1, 2, 3, 4, 5} : ClaimAt(<<>>, k, i) = 0
  BY <1>1, EmptyList, Zenon DEF ClaimAt
<1>3. Claims(<<>>, i) = 0 + (0 + (0 + (0 + 0)))
  BY <1>2, Zenon DEF Claims
<1> QED
  BY <1>3, SMT

\* The list t is s without its first step.
IsTail(t, s) ==
  t \in Seq(Steps) /\ Len(s) = Len(t) + 1 /\ \A k \in 1 .. Len(t) : t[k] = s[k + 1]

\* Its elements, counted from either end, and what they count for.
TailLen(t, s) == Len(t) \in Nat /\ Len(s) = Len(t) + 1
TailElems(t, s) ==
  \A k \in 1 .. Len(t) : k + 1 \in 1 .. Len(s) /\ k + 1 # 1 /\ t[k] = s[k + 1]
TailBack(t, s) ==
  \A k \in 1 .. Len(s) : k = 1 \/ \E j \in 1 .. Len(t) : k = j + 1 /\ t[j] = s[k]
TailClaims(t, s) == Len(t) <= 4 => \A i : Claims(s, i) = Claims(t, i) + Claim(s[1], i)

\* What the tail of a list has in common with the list.
LEMMA TailFacts ==
  ASSUME NEW s, NEW t, IsTail(t, s)
  PROVE  TailLen(t, s) /\ TailElems(t, s) /\ TailBack(t, s) /\ TailClaims(t, s)
<1>1. Len(s) = Len(t) + 1 /\ \A k \in 1 .. Len(t) : t[k] = s[k + 1]
  BY Zenon DEF IsTail
<1>2. Len(t) \in Nat
  BY ListElems, Zenon DEF IsTail
<1>3. \A k \in 1 .. Len(t) : k + 1 \in 1 .. Len(s) /\ k + 1 # 1
  BY <1>1, <1>2, SMT
<1>4. ASSUME NEW k \in 1 .. Len(s), k # 1
      PROVE  \E j \in 1 .. Len(t) : k = j + 1 /\ t[j] = s[k]
  <2>1. PICK j \in 1 .. Len(t) : k = j + 1
    <3>1. k - 1 \in 1 .. Len(t) /\ k = (k - 1) + 1
      BY <1>1, <1>2, <1>4, SMT
    <3> QED
      BY <3>1, Zenon
  <2> QED
    BY <1>1, <2>1, Zenon
<1>5. ASSUME Len(t) <= 4, NEW i PROVE Claims(s, i) = Claims(t, i) + Claim(s[1], i)
  <2>1. Len(s) \in 1 .. 5 /\ Len(t) = Len(s) - 1
    BY <1>1, <1>2, <1>5, SMT
  <2> QED
    BY <1>1, <2>1, ClaimsTail, Zenon
<1>6. TailLen(t, s) /\ TailElems(t, s)
  BY <1>1, <1>2, <1>3, Zenon DEF TailLen, TailElems
<1>7. TailBack(t, s)
  BY <1>4, Zenon DEF TailBack
<1>8. TailClaims(t, s)
  BY <1>5, Zenon DEF TailClaims
<1> QED
  BY <1>6, <1>7, <1>8, Zenon

\* A list may lose its first step.
LEMMA TailOk ==
  ASSUME NEW c, NEW s, ListOk(s, c), NEW t, IsTail(t, s)
  PROVE  ListOk(t, c) /\ NoFree(t) /\ Len(t) <= 3 /\ Len(s) <= 4
<1>0. TailLen(t, s) /\ TailElems(t, s)
  BY TailFacts, Zenon
<1>10. Len(t) \in Nat /\ Len(s) = Len(t) + 1
  BY <1>0, Zenon DEF TailLen
<1>1. /\ Len(t) \in Nat /\ Len(s) = Len(t) + 1
      /\ \A k \in 1 .. Len(t) : k + 1 \in 1 .. Len(s) /\ k + 1 # 1 /\ t[k] = s[k + 1]
  BY <1>0, <1>10, Zenon DEF TailElems
<1>2. Len(s) <= 4 /\ (Len(s) = 4 => s[1].op = "free")
  BY Zenon DEF ListOk, ListLen
<1>3. /\ Len(t) <= 3 /\ Len(t) <= 4 /\ Len(t) # 4
      /\ Len(t) = 3 => Len(s) = 4
      /\ 1 + 1 = 2 /\ 1 \in 1 .. Len(s) /\ (Len(t) = 3 => 1 \in 1 .. Len(t))
  <2>1. PICK m, n : m = Len(t) /\ n = Len(s)
    BY <1>10, Zenon
  <2>2. m \in Nat /\ n = m + 1 /\ n <= 4
    BY <1>2, <1>10, <2>1, Zenon
  <2>3. /\ m <= 3 /\ m <= 4 /\ m # 4 /\ (m = 3 => n = 4)
        /\ 1 + 1 = 2 /\ 1 \in 1 .. n /\ (m = 3 => 1 \in 1 .. m)
    BY <2>2, SMT
  <2> QED
    BY <2>1, <2>3, Zenon
<1>4. NoFree(t)
  <2> SUFFICES ASSUME NEW k \in 1 .. Len(t) PROVE t[k].op # "free"
    BY Zenon DEF NoFree
  <2>1. k + 1 \in 1 .. Len(s) /\ k + 1 # 1 /\ t[k] = s[k + 1]
    BY <1>1, Zenon
  <2> QED
    BY <2>1, Zenon DEF ListOk, ListFree
<1>5. ListFree(t)
  BY <1>4, Zenon DEF NoFree, ListFree
<1>6. ListLen(t)
  <2>1. ASSUME Len(t) = 3 PROVE t[1].op = "drop"
    <3>1. t[1] = s[2] /\ s[1].op = "free"
      BY <1>1, <1>2, <1>3, <2>1, Zenon
    <3> QED
      BY <1>3, <3>1, Zenon DEF ListOk, ListFree
  <2> QED
    BY <1>3, <2>1, Zenon DEF ListLen
<1>7. ListArgs(t, c)
  <2> SUFFICES ASSUME NEW k \in 1 .. Len(t) PROVE t[k].op \in Simple \/ c \in Call
    BY Zenon DEF ListArgs
  <2>1. k + 1 \in 1 .. Len(s) /\ t[k] = s[k + 1]
    BY <1>1, Zenon
  <2> QED
    BY <2>1, Zenon DEF ListOk, ListArgs
<1>8. ListEnd(t)
  <2> SUFFICES ASSUME NEW k \in 1 .. Len(t), t[k].op \in {"end", "commit"} PROVE k = Len(t)
    BY Zenon DEF ListEnd
  <2>1. k + 1 \in 1 .. Len(s) /\ t[k] = s[k + 1]
    BY <1>1, Zenon
  <2>2. k + 1 = Len(s)
    BY <2>1, Zenon DEF ListOk, ListEnd
  <2> QED
    BY <1>10, <2>2, SMT
<1>9. t \in Seq(Steps)
  BY Zenon DEF IsTail
<1> QED
  BY <1>2, <1>3, <1>4, <1>5, <1>6, <1>7, <1>8, <1>9, Zenon DEF ListOk

\* The rest of a list.
LEMMA TailIs ==
  ASSUME NEW s \in Seq(Steps), s # <<>>
  PROVE  /\ IsTail(Tail(s), s) /\ Head(s) = s[1] /\ s[1] \in Steps /\ 1 \in 1 .. Len(s)
         /\ Tail(s) \in Seq(Steps) /\ <<>> \o Tail(s) = Tail(s)
<1>1. Len(s) \in Nat \ {0}
  BY ListElems, Zenon
<1>2. /\ Tail(s) \in Seq(Steps) /\ Len(Tail(s)) = Len(s) - 1
      /\ \A k \in 1 .. Len(Tail(s)) : Tail(s)[k] = s[k + 1]
  BY ListTail, Zenon
<1>3. Len(s) = Len(Tail(s)) + 1
  BY <1>1, <1>2, SMT
<1>4. Head(s) = s[1] /\ 1 \in 1 .. Len(s)
  BY <1>1, SMT
<1>5. s[1] \in Steps
  BY <1>4, ListElems, Zenon
<1>6. <<>> \o Tail(s) = Tail(s)
  BY <1>2, ListJoinEmpty, Zenon
<1> QED
  BY <1>2, <1>3, <1>4, <1>5, <1>6, Zenon DEF IsTail

\* A step is put in front of a list.
LEMMA ConsTail ==
  ASSUME NEW u \in Seq(Steps), NEW a \in Steps
  PROVE  /\ <<a>> \o u \in Seq(Steps) /\ (<<a>> \o u)[1] = a
         /\ IsTail(u, <<a>> \o u)
<1>1. <<a>> \in Seq(Steps) /\ Len(<<a>>) = 1 /\ <<a>>[1] = a
  BY SMT
<1>2. Len(u) \in Nat
  BY ListElems, Zenon
<1>3. PICK t : t = <<a>> \o u
  BY Zenon
<1>4. /\ t \in Seq(Steps) /\ Len(t) = Len(<<a>>) + Len(u)
      /\ \A k \in 1 .. Len(<<a>>) + Len(u) :
           t[k] = IF k <= Len(<<a>>) THEN <<a>>[k] ELSE u[k - Len(<<a>>)]
  BY <1>1, <1>3, ListJoin, Zenon
<1>5. Len(t) = Len(u) + 1 /\ \A k \in 1 .. Len(u) + 1 : t[k] = IF k <= 1 THEN <<a>>[k] ELSE u[k - 1]
  BY <1>1, <1>2, <1>4, SMT
<1>6. t[1] = a
  BY <1>1, <1>2, <1>5, SMT
<1>7. \A k \in 1 .. Len(u) : u[k] = t[k + 1]
  <2> TAKE k \in 1 .. Len(u)
  <2>1. k + 1 \in 1 .. Len(u) + 1 /\ ~(k + 1 <= 1) /\ (k + 1) - 1 = k
    BY <1>2, SMT
  <2> QED
    BY <1>5, <2>1, Zenon
<1>8. IsTail(u, t)
  BY <1>5, <1>7, Zenon DEF IsTail
<1> QED
  BY <1>3, <1>4, <1>6, <1>8, Zenon


\* A step that may be put in front of a list, and one that an iput() begins with.
MayPush(a, u, c) ==
  /\ ListOk(u, c) /\ NoFree(u) /\ Len(u) <= 2 /\ (Len(u) = 2 => a.op \in {"put", "drop"})
  /\ a \in Steps /\ a.op \notin {"free", "end", "commit"} /\ (a.op \in Simple \/ c \in Call)
MayFree(a, u, c) ==
  /\ ListOk(u, c) /\ NoFree(u) /\ Len(u) <= 3 /\ Len(u) >= 1
  /\ a \in Steps /\ a.op = "free" /\ u[1].op = "drop" /\ u[1].ip = a.ip

\* The list with the step in front of it.
LEMMA ConsOk ==
  ASSUME NEW c, NEW u, NEW a, MayPush(a, u, c) \/ MayFree(a, u, c), NEW t,
         IsTail(u, t), t \in Seq(Steps), t[1] = a
  PROVE  ListOk(t, c) /\ (MayPush(a, u, c) => NoFree(t))
<1>0. TailLen(u, t) /\ TailElems(u, t) /\ TailBack(u, t)
  BY TailFacts, Zenon
<1>10. Len(u) \in Nat /\ Len(t) = Len(u) + 1
  BY <1>0, Zenon DEF TailLen
<1>1. /\ Len(u) \in Nat /\ Len(t) = Len(u) + 1
      /\ \A k \in 1 .. Len(u) : k + 1 \in 1 .. Len(t) /\ k + 1 # 1 /\ u[k] = t[k + 1]
      /\ \A k \in 1 .. Len(t) : k = 1 \/ \E j \in 1 .. Len(u) : k = j + 1 /\ u[j] = t[k]
  BY <1>0, <1>10, Zenon DEF TailElems, TailBack
<1>2. /\ ListOk(u, c) /\ NoFree(u) /\ a.op \notin {"end", "commit"} /\ (a.op \in Simple \/ c \in Call)
  BY Zenon DEF MayPush, MayFree, Simple
<1>3. \A k \in 1 .. Len(t) : t[k].op = "free" => k = 1 /\ a.op = "free"
  <2> TAKE k \in 1 .. Len(t)
  <2>1. CASE k = 1
    BY <2>1, Zenon
  <2>2. CASE \E j \in 1 .. Len(u) : k = j + 1 /\ u[j] = t[k]
    BY <1>2, <2>2, Zenon DEF NoFree
  <2> QED
    BY <1>1, <2>1, <2>2, Zenon
<1>4. ListArgs(t, c)
  <2> SUFFICES ASSUME NEW k \in 1 .. Len(t) PROVE t[k].op \in Simple \/ c \in Call
    BY Zenon DEF ListArgs
  <2>1. CASE k = 1
    BY <1>2, <2>1, Zenon
  <2>2. CASE \E j \in 1 .. Len(u) : k = j + 1 /\ u[j] = t[k]
    BY <1>2, <2>2, Zenon DEF ListOk, ListArgs
  <2> QED
    BY <1>1, <2>1, <2>2, Zenon
<1>5. ListEnd(t)
  <2> SUFFICES ASSUME NEW k \in 1 .. Len(t), t[k].op \in {"end", "commit"} PROVE k = Len(t)
    BY Zenon DEF ListEnd
  <2>1. k # 1
    BY <1>2, Zenon
  <2>2. PICK j \in 1 .. Len(u) : k = j + 1 /\ u[j] = t[k]
    BY <1>1, <2>1, Zenon
  <2>3. j = Len(u)
    BY <1>2, <2>2, Zenon DEF ListOk, ListEnd
  <2> QED
    BY <1>1, <2>2, <2>3, Zenon
<1>6. CASE MayPush(a, u, c)
  <2>1. Len(u) <= 2 /\ (Len(u) = 2 => a.op \in {"put", "drop"}) /\ a.op # "free"
    BY <1>6, Zenon DEF MayPush
  <2>2. Len(t) <= 4 /\ Len(t) # 4 /\ (Len(t) = 3 => Len(u) = 2)
    <3>1. PICK m, n : m = Len(u) /\ n = Len(t)
      BY <1>10, Zenon
    <3>2. m \in Nat /\ n = m + 1 /\ m <= 2
      BY <1>10, <2>1, <3>1, Zenon
    <3>3. n <= 4 /\ n # 4 /\ (n = 3 => m = 2)
      BY <3>2, SMT
    <3> QED
      BY <3>1, <3>3, Zenon
  <2>3. ListLen(t)
    BY <2>1, <2>2, Zenon DEF ListLen
  <2>4. NoFree(t) /\ ListFree(t)
    BY <1>3, <2>1, Zenon DEF NoFree, ListFree
  <2> QED
    BY <1>4, <1>5, <2>3, <2>4, Zenon DEF ListOk
<1>7. CASE MayFree(a, u, c) /\ ~MayPush(a, u, c)
  <2>1. Len(u) <= 3 /\ Len(u) >= 1 /\ a.op = "free" /\ u[1].op = "drop" /\ u[1].ip = a.ip
    BY <1>7, Zenon DEF MayFree
  <2>2. Len(t) <= 4 /\ 2 <= Len(t) /\ 1 \in 1 .. Len(u) /\ 1 + 1 = 2
    <3>1. Len(u) <= 3 /\ Len(u) >= 1
      BY <2>1, Zenon
    <3> QED
      BY <1>10, <3>1, SMT
  <2>3. ListLen(t)
    BY <2>1, <2>2, Zenon DEF ListLen
  <2>4. t[2] = u[1]
    BY <1>1, <2>2, Zenon
  <2>5. ListFree(t)
    BY <1>3, <2>1, <2>2, <2>4, Zenon DEF ListFree
  <2> QED
    BY <1>4, <1>5, <1>7, <2>3, <2>5, Zenon DEF ListOk
<1> QED
  BY <1>6, <1>7, Zenon

\* The list t comes from s: the first step of s is done, the others are still there, so
\* are a and b, and t counts as much more as they do.  End stands for no step.
Pushed(s, t, a, b, c) ==
  /\ ListOk(t, c) /\ Head(s) = s[1] /\ s[1] \in Steps
  /\ \A k \in 1 .. Len(s) : k = 1 \/ \E j \in 1 .. Len(t) : t[j] = s[k]
  /\ a = End \/ \E j \in 1 .. Len(t) : t[j] = a
  /\ b = End \/ \E j \in 1 .. Len(t) : t[j] = b
  /\ \A i \in Inum : Claims(t, i) + Claim(s[1], i) = Claims(s, i) + (Claim(a, i) + Claim(b, i))

\* The first step of a list is done and nothing comes in its place.
LEMMA PushedNone ==
  ASSUME NEW c, NEW s, ListOk(s, c), s # <<>>
  PROVE  Pushed(s, <<>> \o Tail(s), End, End, c)
<1>1. s \in Seq(Steps)
  BY Zenon DEF ListOk
<1>2. PICK t : t = Tail(s)
  BY Zenon
<1>3. IsTail(t, s) /\ Head(s) = s[1] /\ s[1] \in Steps /\ <<>> \o Tail(s) = t
  BY <1>1, <1>2, TailIs, Zenon
<1>4. ListOk(t, c) /\ Len(t) <= 3
  BY <1>3, TailOk, Zenon
<1>5. /\ \A k \in 1 .. Len(s) : k = 1 \/ \E j \in 1 .. Len(t) : k = j + 1 /\ t[j] = s[k]
      /\ Len(t) <= 4 => \A i : Claims(s, i) = Claims(t, i) + Claim(s[1], i)
      /\ Len(t) \in Nat
  <2>1. TailLen(t, s) /\ TailBack(t, s) /\ TailClaims(t, s)
    BY <1>3, TailFacts, Zenon
  <2> QED
    BY <2>1, Zenon DEF TailLen, TailBack, TailClaims
<1>6. Len(t) <= 4
  <2>1. Len(t) \in Nat /\ Len(t) <= 3
    BY <1>4, <1>5, Zenon
  <2> QED
    BY <2>1, SMT
<1>7. ASSUME NEW i \in Inum
      PROVE  Claims(t, i) + Claim(s[1], i) = Claims(s, i) + (Claim(End, i) + Claim(End, i))
  <2>1. Claims(s, i) \in Nat /\ Claim(End, i) = 0 /\ Claims(s, i) = Claims(t, i) + Claim(s[1], i)
    BY <1>5, <1>6, ClaimsNat, EndClaim, Zenon
  <2> QED
    BY <2>1, SMT
<1>8. Pushed(s, t, End, End, c)
  BY <1>3, <1>4, <1>5, <1>7, Zenon DEF Pushed
<1> QED
  BY <1>3, <1>8, Zenon

\* Another step is put in front of what a step left.
LEMMA PushedCons ==
  ASSUME NEW c, NEW s, NEW u, NEW b, Pushed(s, u, b, End, c), NEW a, a \in Steps,
         MayPush(a, u, c) \/ MayFree(a, u, c)
  PROVE  Pushed(s, <<a>> \o u, a, b, c) /\ (MayPush(a, u, c) => NoFree(<<a>> \o u))
<1>1. ListOk(u, c) /\ u \in Seq(Steps)
  BY Zenon DEF Pushed, ListOk
<1>2. PICK t : t = <<a>> \o u
  BY Zenon
<1>3. t \in Seq(Steps) /\ t[1] = a /\ IsTail(u, t)
  BY <1>1, <1>2, ConsTail, Zenon
<1>4. ListOk(t, c) /\ (MayPush(a, u, c) => NoFree(t))
  BY <1>3, ConsOk, Zenon
<1>5. /\ Len(u) \in Nat /\ Len(t) = Len(u) + 1
      /\ \A k \in 1 .. Len(u) : k + 1 \in 1 .. Len(t) /\ u[k] = t[k + 1]
      /\ Len(u) <= 4 => \A i : Claims(t, i) = Claims(u, i) + Claim(t[1], i)
  <2>1. TailLen(u, t) /\ TailElems(u, t) /\ TailClaims(u, t)
    BY <1>3, TailFacts, Zenon
  <2> QED
    BY <2>1, Zenon DEF TailLen, TailElems, TailClaims
<1>6. Len(u) <= 4 /\ 1 \in 1 .. Len(t)
  <2>1. Len(t) <= 4
    BY <1>4, Zenon DEF ListOk, ListLen
  <2>2. Len(u) \in Nat /\ Len(t) = Len(u) + 1
    BY <1>5, Zenon
  <2> QED
    BY <2>1, <2>2, SMT
<1>7. \A x : (\E j \in 1 .. Len(u) : u[j] = x) => \E j \in 1 .. Len(t) : t[j] = x
  BY <1>5, Zenon
<1>8. \A k \in 1 .. Len(s) : k = 1 \/ \E j \in 1 .. Len(t) : t[j] = s[k]
  BY <1>7, Zenon DEF Pushed
<1>9. (\E j \in 1 .. Len(t) : t[j] = a) /\ (b = End \/ \E j \in 1 .. Len(t) : t[j] = b)
  BY <1>3, <1>6, <1>7, Zenon DEF Pushed
<1>10. ASSUME NEW i \in Inum
       PROVE  Claims(t, i) + Claim(s[1], i) = Claims(s, i) + (Claim(a, i) + Claim(b, i))
  <2>1. /\ Claims(u, i) + Claim(s[1], i) = Claims(s, i) + (Claim(b, i) + Claim(End, i))
        /\ Claims(t, i) = Claims(u, i) + Claim(a, i)
        /\ Claim(End, i) = 0
    BY <1>3, <1>5, <1>6, EndClaim, Zenon DEF Pushed
  <2>2. /\ Claims(u, i) \in Nat /\ Claims(t, i) \in Nat /\ Claims(s, i) \in Nat
        /\ Claim(s[1], i) \in Nat /\ Claim(a, i) \in Nat /\ Claim(b, i) \in Nat
    BY ClaimsNat, Zenon
  <2> QED
    BY <2>1, <2>2, SMT
<1>11. Head(s) = s[1] /\ s[1] \in Steps
  BY Zenon DEF Pushed
<1>12. Pushed(s, t, a, b, c)
  BY <1>4, <1>8, <1>9, <1>10, <1>11, Zenon DEF Pushed
<1> QED
  BY <1>2, <1>4, <1>12, Zenon

\* What is left when the first step of a list is done.
LEMMA RestFacts ==
  ASSUME NEW c, NEW s, ListOk(s, c), s # <<>>, NEW u, u = Tail(s)
  PROVE  /\ Pushed(s, u, End, End, c) /\ ListOk(u, c) /\ NoFree(u) /\ u \in Seq(Steps)
         /\ Len(u) \in Nat /\ Len(s) = Len(u) + 1 /\ Len(u) <= 3
         /\ Head(s) = s[1] /\ 1 \in 1 .. Len(s)
         /\ Head(s).op \notin Simple => Len(u) <= 1 /\ c \in Call
         /\ Head(s).op # "free" => Len(u) <= 2
<1>1. s \in Seq(Steps)
  BY Zenon DEF ListOk
<1>2. /\ IsTail(u, s) /\ Head(s) = s[1] /\ u \in Seq(Steps) /\ 1 \in 1 .. Len(s)
      /\ <<>> \o Tail(s) = u
  BY <1>1, TailIs, Zenon
<1>3. Pushed(s, u, End, End, c)
  <2>1. Pushed(s, <<>> \o Tail(s), End, End, c)
    BY PushedNone, Zenon
  <2> QED
    BY <1>2, <2>1, Zenon
<1>4. ListOk(u, c) /\ NoFree(u) /\ Len(u) <= 3
  BY <1>2, TailOk, Zenon
<1>5. Len(u) \in Nat /\ Len(s) = Len(u) + 1
  BY <1>2, TailFacts, Zenon DEF TailLen
<1>6. Head(s).op # "free" => Len(s) # 4
  BY <1>2, Zenon DEF ListOk, ListLen
<1>7. Head(s).op \notin Simple => Len(s) # 3 /\ c \in Call /\ Head(s).op # "free"
  BY <1>2, Zenon DEF ListOk, ListLen, ListArgs, Simple
<1>8. (Len(s) # 4 => Len(u) <= 2) /\ (Len(s) # 4 /\ Len(s) # 3 => Len(u) <= 1)
  <2>1. Len(u) <= 3
    BY <1>4, Zenon
  <2> QED
    BY <1>5, <2>1, SMT
<1> QED
  BY <1>2, <1>3, <1>4, <1>5, <1>6, <1>7, <1>8, Zenon

\* One step comes in place of a step that may look at the arguments of its call.
LEMMA PushOne ==
  ASSUME NEW c, NEW s, ListOk(s, c), s # <<>>, Head(s).op \notin Simple,
         NEW a \in Steps, a.op \notin {"free", "end", "commit"}
  PROVE  Pushed(s, <<a>> \o Tail(s), a, End, c)
<1>1. PICK u : u = Tail(s)
  BY Zenon
<1>2. /\ Pushed(s, u, End, End, c) /\ ListOk(u, c) /\ NoFree(u) /\ Len(u) \in Nat
      /\ Len(u) <= 1 /\ c \in Call
  BY <1>1, RestFacts, Zenon
<1>3. Len(u) <= 2 /\ Len(u) # 2
  <2>1. Len(u) \in Nat /\ Len(u) <= 1
    BY <1>2, Zenon
  <2> QED
    BY <2>1, SMT
<1>4. MayPush(a, u, c)
  BY <1>2, <1>3, Zenon DEF MayPush
<1> QED
  BY <1>1, <1>2, <1>4, PushedCons, Zenon

\* A list of two, in one go and from two lists of one.
LEMMA PairConcat ==
  ASSUME NEW S, NEW a \in S, NEW b \in S
  PROVE  <<a, b>> = <<a>> \o <<b>>
<1>1. PICK x, y, z : x = <<a>> /\ y = <<b>> /\ z = <<a, b>>
  BY Zenon
<1>2. x \in Seq(S) /\ y \in Seq(S) /\ Len(x) = 1 /\ Len(y) = 1 /\ x[1] = a /\ y[1] = b
  BY <1>1, SMT
<1>3. x \o y \in Seq(S) /\ Len(x \o y) = Len(x) + Len(y)
  BY <1>2, ListJoin
<1>4. Len(x \o y) = 2
  BY <1>2, <1>3, SMT
<1>5. (x \o y)[1] = a /\ (x \o y)[2] = b
  <2>1. \A i \in 1 .. Len(x) + Len(y) :
          (x \o y)[i] = IF i <= Len(x) THEN x[i] ELSE y[i - Len(x)]
    BY <1>2, ListJoin
  <2>2. 1 \in 1 .. (1 + 1) /\ 2 \in 1 .. (1 + 1) /\ 1 <= 1 /\ ~(2 <= 1) /\ 2 - 1 = 1
    BY SMT
  <2> QED
    BY <1>2, <2>1, <2>2, Zenon
<1>6. z \in Seq(S) /\ Len(z) = 2 /\ z[1] = a /\ z[2] = b
  BY <1>1, SMT
<1>7. \A k \in 1 .. 2 : k = 1 \/ k = 2
  BY SMT
<1>8. x \o y = z
  BY <1>3, <1>4, <1>5, <1>6, <1>7, ListSame, Zenon
<1> QED
  BY <1>1, <1>8, Zenon

\* A list of two.
LEMMA PairList ==
  ASSUME NEW a \in Steps, NEW b \in Steps
  PROVE  <<a>> \in Seq(Steps) /\ <<b>> \in Seq(Steps) /\ <<a, b>> = <<a>> \o <<b>>
<1>1. <<a>> \in Seq(Steps) /\ <<b>> \in Seq(Steps)
  BY SMT
<1>2. PICK S : S = Steps
  BY Zenon
<1>3. a \in S /\ b \in S
  BY <1>2, Zenon
<1>4. <<a, b>> = <<a>> \o <<b>>
  BY <1>3, PairConcat, Zenon
<1> QED
  BY <1>1, <1>4, Zenon

\* Two steps in front of a list, one after the other.
LEMMA TwoPushed ==
  ASSUME NEW a \in Steps, NEW b \in Steps, NEW u \in Seq(Steps)
  PROVE  <<a, b>> \o u = <<a>> \o (<<b>> \o u)
<1>1. <<a>> \in Seq(Steps) /\ <<b>> \in Seq(Steps) /\ <<a, b>> = <<a>> \o <<b>>
  BY PairList, Zenon
<1>2. PICK x, y : x = <<a>> /\ y = <<b>>
  BY Zenon
<1>3. x \in Seq(Steps) /\ y \in Seq(Steps)
  BY <1>1, <1>2, Zenon
<1>4. (x \o y) \o u = x \o (y \o u)
  BY <1>3, ListJoinTwice
<1> QED
  BY <1>1, <1>2, <1>4, Zenon

\* Two steps, the first of them an iput(), come in place of a step that is not one.
LEMMA PushTwo ==
  ASSUME NEW c, NEW s, ListOk(s, c), s # <<>>, Head(s).op \notin Simple,
         NEW a \in Steps, a.op = "put", NEW b \in Steps, b.op \notin {"free", "end", "commit"}
  PROVE  Pushed(s, <<a, b>> \o Tail(s), a, b, c)
<1>1. PICK u : u = Tail(s)
  BY Zenon
<1>2. /\ Pushed(s, u, End, End, c) /\ ListOk(u, c) /\ NoFree(u) /\ Len(u) \in Nat
      /\ Len(u) <= 1 /\ c \in Call /\ u \in Seq(Steps)
  BY <1>1, RestFacts, Zenon
<1>3. Len(u) <= 2 /\ Len(u) # 2
  <2>1. Len(u) \in Nat /\ Len(u) <= 1
    BY <1>2, Zenon
  <2> QED
    BY <2>1, SMT
<1>4. MayPush(b, u, c)
  BY <1>2, <1>3, Zenon DEF MayPush
<1>5. PICK v : v = <<b>> \o u
  BY Zenon
<1>6. Pushed(s, v, b, End, c) /\ NoFree(v)
  BY <1>2, <1>4, <1>5, PushedCons, Zenon
<1>7. Len(v) <= 2
  <2>1. IsTail(u, v)
    BY <1>2, <1>5, ConsTail, Zenon
  <2>2. Len(v) = Len(u) + 1 /\ Len(u) \in Nat /\ Len(u) <= 1
    BY <1>2, <2>1, TailFacts, Zenon DEF TailLen
  <2> QED
    BY <2>2, SMT
<1>8. MayPush(a, v, c)
  BY <1>2, <1>6, <1>7, Zenon DEF MayPush, Pushed
<1>9. Pushed(s, <<a>> \o v, a, b, c)
  BY <1>6, <1>8, PushedCons, Zenon
<1> QED
  BY <1>1, <1>2, <1>5, <1>9, TwoPushed, Zenon

\* An iput() that finds the last reference puts the two steps of freeing the inode first.
LEMMA PushFree ==
  ASSUME NEW c, NEW s, ListOk(s, c), s # <<>>, Head(s).op = "put",
         NEW f \in Steps, f.op = "free", NEW g \in Steps, g.op = "drop", g.ip = f.ip
  PROVE  Pushed(s, <<f, g>> \o Tail(s), f, g, c)
<1>1. PICK u : u = Tail(s)
  BY Zenon
<1>2. /\ Pushed(s, u, End, End, c) /\ ListOk(u, c) /\ NoFree(u) /\ Len(u) \in Nat
      /\ Len(u) <= 2 /\ u \in Seq(Steps)
  BY <1>1, RestFacts, Zenon
<1>3. MayPush(g, u, c)
  BY <1>2, Zenon DEF MayPush, Simple
<1>4. PICK v : v = <<g>> \o u
  BY Zenon
<1>5. Pushed(s, v, g, End, c) /\ NoFree(v)
  BY <1>2, <1>3, <1>4, PushedCons, Zenon
<1>6. Len(v) <= 3 /\ Len(v) >= 1 /\ v[1] = g
  <2>1. IsTail(u, v) /\ v[1] = g
    BY <1>2, <1>4, ConsTail, Zenon
  <2>2. Len(v) = Len(u) + 1 /\ Len(u) \in Nat /\ Len(u) <= 2
    BY <1>2, <2>1, TailFacts, Zenon DEF TailLen
  <2>3. Len(v) <= 3 /\ Len(v) >= 1
    BY <2>2, SMT
  <2> QED
    BY <2>1, <2>3, Zenon
<1>7. MayFree(f, v, c)
  BY <1>5, <1>6, Zenon DEF MayFree, Pushed
<1>8. Pushed(s, <<f>> \o v, f, g, c)
  BY <1>5, <1>7, PushedCons, Zenon
<1> QED
  BY <1>1, <1>2, <1>4, <1>8, TwoPushed, Zenon

\* The list that results.
LEMMA BecomesPushed ==
  ASSUME NEW c, NEW s, ListOk(s, c), s # <<>>, NEW a \in Steps, NEW b \in Steps, NEW ops,
         Becomes(Head(s), ops, a, b)
  PROVE  Pushed(s, ops \o Tail(s), a, b, c)
  BY PushedNone, PushOne, PushTwo, PushFree, Zenon DEF Becomes

\* A list of one step.
LEMMA OneList ==
  ASSUME NEW a \in Steps, NEW c, a.op \in Simple, a.op # "free", NEW t, t = <<a>>
  PROVE  ListOk(t, c) /\ NoFree(t) /\ Len(t) = 1 /\ \A i : Claims(t, i) = Claim(a, i)
<1>1. t \in Seq(Steps) /\ Len(t) = 1 /\ t[1] = a
  BY SMT
<1>2. 1 <= 4 /\ 1 # 4 /\ 1 # 3 /\ \A k \in 1 .. 1 : k = 1
  BY SMT
<1>3. \A k \in 1 .. Len(t) : k = Len(t) /\ t[k] = a
  BY <1>1, <1>2, Zenon
<1>4. ListLen(t)
  BY <1>1, <1>2, Zenon DEF ListLen
<1>5. ListArgs(t, c) /\ ListEnd(t) /\ ListFree(t) /\ NoFree(t)
  BY <1>3, Zenon DEF ListArgs, ListEnd, ListFree, NoFree
<1>6. PICK e : e = <<>>
  BY Zenon
<1>7. e \in Seq(Steps) /\ Len(e) = 0 /\ (\A i : Claims(e, i) = 0) /\ 1 .. 0 = {}
  BY <1>6, EmptyList, EmptyClaims, Zenon DEF ListOk
<1>8. IsTail(e, t)
  <2>1. 1 = 0 + 1
    BY SMT
  <2> QED
    BY <1>1, <1>7, <2>1, Zenon DEF IsTail
<1>9. ASSUME NEW i PROVE Claims(t, i) = Claim(a, i)
  <2>1. Len(e) <= 4
    BY <1>7, SMT
  <2>2. Claims(t, i) = Claims(e, i) + Claim(a, i)
    BY <1>1, <1>8, <2>1, TailFacts, Zenon DEF TailClaims
  <2>3. Claims(e, i) = 0 /\ Claim(a, i) \in Nat
    BY <1>7, ClaimsNat, Zenon
  <2> QED
    BY <2>2, <2>3, SMT
<1> QED
  BY <1>1, <1>4, <1>5, <1>9, Zenon DEF ListOk

\* The list a call begins with.
LEMMA StartList ==
  ASSUME NEW w \in Steps, w.op \notin {"free", "end", "commit"}, NEW c, w.op \in Simple \/ c \in Call,
         NEW t, t = <<w, End>>
  PROVE  ListOk(t, c) /\ \A i \in Inum : Claims(t, i) = Claim(w, i)
<1>1. End \in Steps /\ End.op = "end" /\ End.op \in Simple /\ End.op # "free"
  BY OpFields, StepsAre DEF End, Simple
<1>2. PICK u : u = <<End>>
  BY Zenon
<1>3. ListOk(u, c) /\ NoFree(u) /\ Len(u) = 1 /\ \A i : Claims(u, i) = Claim(End, i)
  BY <1>1, <1>2, OneList, Zenon
<1>4. Len(u) <= 2 /\ Len(u) # 2 /\ Len(u) <= 4
  BY <1>3, SMT
<1>5. t = <<w>> \o u
  BY <1>1, <1>2, SMT
<1>6. MayPush(w, u, c) /\ u \in Seq(Steps)
  BY <1>3, <1>4, Zenon DEF MayPush, ListOk
<1>7. t \in Seq(Steps) /\ t[1] = w /\ IsTail(u, t)
  BY <1>5, <1>6, ConsTail, Zenon
<1>8. ListOk(t, c)
  BY <1>6, <1>7, ConsOk, Zenon
<1>9. ASSUME NEW i \in Inum PROVE Claims(t, i) = Claim(w, i)
  <2>1. Claims(u, i) = 0 /\ Claim(w, i) \in Nat
    BY <1>3, EndClaim, ClaimsNat, Zenon
  <2>2. Claims(t, i) = Claims(u, i) + Claim(w, i)
    BY <1>4, <1>7, TailFacts, Zenon DEF TailClaims
  <2> QED
    BY <2>1, <2>2, SMT
<1> QED
  BY <1>8, <1>9, Zenon


-----------------------------------------------------------------------------
(* The tables.                                                               *)

\* The tables keep their types.
LEMMA TablesTypes ==
  ASSUME FsTypes, NEW p \in Proc, NEW gone, NEW come, Tables(p, gone, come)
  PROVE  cwd' \in [Proc -> Inum] /\ FilesOk(ofile')
<1>1. cwd \in [Proc -> Inum] /\ FilesOk(ofile)
  BY Zenon DEF FsTypes
<1>2. CASE gone = 0 /\ come = 0 /\ UNCHANGED <<cwd, ofile>>
  BY <1>1, <1>2, Zenon
<1>3. CASE gone = cwd[p] /\ come \in Inum /\ cwd' = [cwd EXCEPT ![p] = come] /\ ofile' = ofile
  BY <1>1, <1>3, Zenon
<1>4. ASSUME cwd' = cwd, come \in Inum \cup {0}, NEW f \in 1 .. NOFILE, NEW w \in BOOLEAN,
             FilePut(ofile', p, f, come, w)
      PROVE  cwd' \in [Proc -> Inum] /\ FilesOk(ofile')
  <2>1. /\ ofile \in [Proc -> [1 .. NOFILE -> [ip : Inum \cup {0}, writable : BOOLEAN]]]
        /\ \A q \in Proc, g \in 1 .. NOFILE : ofile[q][g].writable => ofile[q][g].ip # 0
    BY <1>1, Zenon DEF FilesOk
  <2>2. ofile' = [ofile EXCEPT ![p][f] = File(come, w)] /\ (w => come # 0)
    BY <1>4, Zenon DEF FilePut
  <2>3. /\ File(come, w) \in [ip : Inum \cup {0}, writable : BOOLEAN]
        /\ File(come, w).ip = come /\ File(come, w).writable = w
    BY <1>4, Zenon DEF File
  <2>4. ofile' \in [Proc -> [1 .. NOFILE -> [ip : Inum \cup {0}, writable : BOOLEAN]]]
    <3>1. [ofile[p] EXCEPT ![f] = File(come, w)] \in [1 .. NOFILE -> [ip : Inum \cup {0}, writable : BOOLEAN]]
      BY <2>1, <2>3, Zenon
    <3>2. ofile' = [ofile EXCEPT ![p] = [ofile[p] EXCEPT ![f] = File(come, w)]]
      BY <2>1, <2>2, Zenon
    <3> QED
      BY <2>1, <3>1, <3>2, Zenon
  <2>5. \A q \in Proc, g \in 1 .. NOFILE :
          ofile'[q][g] = IF q = p /\ g = f THEN File(come, w) ELSE ofile[q][g]
    BY <2>1, <2>2, Zenon
  <2>6. \A q \in Proc, g \in 1 .. NOFILE : ofile'[q][g].writable => ofile'[q][g].ip # 0
    BY <2>1, <2>2, <2>3, <2>5, Zenon
  <2> QED
    BY <1>1, <1>4, <2>4, <2>6, Zenon DEF FilesOk
<1> QED
  BY <1>2, <1>3, <1>4, Zenon DEF Tables

-----------------------------------------------------------------------------
(* What keeps the shape of the lists and balances the references.            *)

\* The list of p becomes t, and a lock that p takes or keeps has a step in t.
ListHyp(p, t, gone, come) ==
  /\ up /\ Balance(p, t, gone, come) /\ ListOk(t, call'[p])
  /\ DOMAIN call' = Proc /\ \A q \in Proc : q # p => call'[q] = call[q]
  /\ EntsOk(disk') /\ EntsOk(durable') /\ lock' \in [Inum -> Proc \cup {NoProc}]
  /\ \A i \in Inum : \/ lock'[i] = NoProc
                     \/ lock'[i] = lock[i] /\ lock[i] # p
                     \/ lock'[i] = p /\ \E k \in 1 .. Len(t) : LockStep(t[k], i)

\* A step that gives one process another list.
LEMMA ListStep ==
  ASSUME Shape, NEW p \in Proc, NEW t, NEW gone, NEW come, ListHyp(p, t, gone, come)
  PROVE  Shape' /\ Balanced
<1>1. FsTypes /\ LocksHaveSteps
  BY Zenon DEF Shape
<1>2. Balance(p, t, gone, come)
  BY Zenon DEF ListHyp
<1>3. /\ up /\ up' = up /\ todo' = [todo EXCEPT ![p] = t] /\ ref' \in [Inum -> Int]
      /\ Tables(p, gone, come) /\ ListOk(t, call'[p])
      /\ DOMAIN call' = Proc /\ \A q \in Proc : q # p => call'[q] = call[q]
      /\ EntsOk(disk') /\ EntsOk(durable') /\ lock' \in [Inum -> Proc \cup {NoProc}]
  BY <1>2, Zenon DEF ListHyp, Balance
<1>4. cwd' \in [Proc -> Inum] /\ FilesOk(ofile')
  BY <1>1, <1>3, TablesTypes, Zenon
<1>5. DOMAIN todo' = Proc /\ todo'[p] = t /\ \A q \in Proc : q # p => todo'[q] = todo[q]
  BY <1>1, <1>3, Zenon DEF FsTypes
<1>6. \A q \in Proc : ListOk(todo'[q], call'[q])
  BY <1>1, <1>3, <1>5, Zenon DEF FsTypes
<1>7. FsTypes'
  BY <1>3, <1>4, <1>5, <1>6, Zenon DEF FsTypes, EntsOk, FilesOk, ListOk
<1>8. LocksHaveSteps'
  <2> SUFFICES ASSUME NEW i \in Inum, lock'[i] # NoProc
               PROVE  \E k \in 1 .. Len(todo'[lock'[i]]) : LockStep(todo'[lock'[i]][k], i)
    BY Zenon DEF LocksHaveSteps, LockStep
  <2>1. CASE lock'[i] = lock[i] /\ lock[i] # p
    <3>1. lock[i] \in Proc
      BY <1>1, <2>1, Zenon DEF FsTypes
    <3>2. todo'[lock'[i]] = todo[lock[i]]
      BY <1>5, <2>1, <3>1, Zenon
    <3> QED
      BY <1>1, <2>1, <3>2, Zenon DEF LocksHaveSteps
  <2>2. CASE lock'[i] = p /\ \E k \in 1 .. Len(t) : LockStep(t[k], i)
    BY <1>5, <2>2, Zenon
  <2> QED
    BY <2>1, <2>2, Zenon DEF ListHyp
<1>9. DownInv'
  BY <1>3, Zenon DEF DownInv
<1> QED
  BY <1>2, <1>7, <1>8, <1>9, Zenon DEF Shape, Balanced

\* A step of a call.
LEMMA MoveStep ==
  ASSUME Shape, NEW p \in Proc, Moved(p)
  PROVE  Shape' /\ Balanced
<1>1. PICK a \in Steps, b \in Steps : \E ops, gone, come : MoveHyp(p, a, b, ops, gone, come)
  BY Zenon DEF Moved
<1>2. PICK ops, gone, come : MoveHyp(p, a, b, ops, gone, come)
  BY <1>1, Zenon
<1>3. PICK h, t : h = Head(todo[p]) /\ t = ops \o Tail(todo[p])
  BY Zenon
<1>4. /\ todo[p] # <<>> /\ Becomes(h, ops, a, b) /\ UNCHANGED <<call, up>>
      /\ EntsOk(disk') /\ EntsOk(durable') /\ ref' \in [Inum -> Int]
      /\ lock' \in [Inum -> Proc \cup {NoProc}] /\ LocksKept(p, h, a, b) /\ Tables(p, gone, come)
  BY <1>2, <1>3, Zenon DEF MoveHyp
<1>5. FsTypes /\ up /\ h = todo[p][1] /\ ListOk(todo[p], call[p])
  BY <1>3, <1>4, AtUp, Zenon DEF Shape
<1>6. /\ todo' = [todo EXCEPT ![p] = t]
      /\ DOMAIN call' = Proc /\ \A q \in Proc : q # p => call'[q] = call[q]
  BY <1>2, <1>3, <1>4, <1>5, Zenon DEF MoveHyp, Do, FsTypes
<1>7. Pushed(todo[p], t, a, b, call'[p])
  BY <1>3, <1>4, <1>5, BecomesPushed, Zenon
<1>8. ASSUME NEW i \in Inum
      PROVE  ref'[i] + (Claims(todo[p], i) + Same(gone, i)) = ref[i] + (Same(come, i) + Claims(t, i))
  <2>1. Claims(t, i) + Claim(h, i) = Claims(todo[p], i) + (Claim(a, i) + Claim(b, i))
    BY <1>5, <1>7, Zenon DEF Pushed
  <2>2. ref'[i] + (Claim(h, i) + Same(gone, i)) = ref[i] + (Same(come, i) + (Claim(a, i) + Claim(b, i)))
    BY <1>2, <1>3, Zenon DEF MoveHyp
  <2>3. /\ Claims(t, i) \in Nat /\ Claims(todo[p], i) \in Nat /\ Claim(h, i) \in Nat
        /\ Claim(a, i) \in Nat /\ Claim(b, i) \in Nat /\ Same(gone, i) \in Nat /\ Same(come, i) \in Nat
    BY ClaimNat, ClaimsNat, Zenon
  <2>4. ref[i] \in Int /\ ref'[i] \in Int
    BY <1>4, <1>5, Zenon DEF FsTypes
  <2>5. PICK r, r2, l, l2, x, y, z, g, c :
          /\ r = ref[i] /\ r2 = ref'[i] /\ l = Claims(todo[p], i) /\ l2 = Claims(t, i)
          /\ x = Claim(h, i) /\ y = Claim(a, i) /\ z = Claim(b, i)
          /\ g = Same(gone, i) /\ c = Same(come, i)
    BY Zenon
  <2>6. l2 + x = l + (y + z) /\ r2 + (x + g) = r + (c + (y + z))
    BY <2>1, <2>2, <2>5, Zenon
  <2>7. /\ r \in Int /\ r2 \in Int /\ l \in Nat /\ l2 \in Nat /\ x \in Nat
        /\ y \in Nat /\ z \in Nat /\ g \in Nat /\ c \in Nat
    BY <2>3, <2>4, <2>5, Zenon
  <2>8. r2 + (l + g) = r + (c + l2)
    BY <2>6, <2>7, SMT
  <2> QED
    BY <2>5, <2>8, Zenon
<1>9. Balance(p, t, gone, come)
  BY <1>4, <1>6, <1>8, Zenon DEF Balance
<1>10. ASSUME NEW i \in Inum, lock[i] = p
       PROVE  LockStep(h, i) \/ \E k \in 1 .. Len(t) : LockStep(t[k], i)
  <2>1. PICK k \in 1 .. Len(todo[p]) : LockStep(todo[p][k], i)
    BY <1>10, ProcAssumption, Zenon DEF Shape, LocksHaveSteps
  <2> QED
    BY <1>5, <1>7, <2>1, Zenon DEF Pushed
<1>11. \A i \in Inum : LockStep(a, i) \/ LockStep(b, i) => \E k \in 1 .. Len(t) : LockStep(t[k], i)
  BY <1>7, EndClaim, Zenon DEF Pushed
<1>12. \A i \in Inum : \/ lock'[i] = NoProc
                       \/ lock'[i] = lock[i] /\ lock[i] # p
                       \/ lock'[i] = p /\ \E k \in 1 .. Len(t) : LockStep(t[k], i)
  BY <1>4, <1>10, <1>11, Zenon DEF LocksKept
<1>13. ListOk(t, call'[p])
  BY <1>7, Zenon DEF Pushed
<1>14. ListHyp(p, t, gone, come)
  BY <1>4, <1>5, <1>6, <1>9, <1>12, <1>13, Zenon DEF ListHyp
<1> QED
  BY <1>14, ListStep, Zenon

\* The beginning of a call: a process that is in no call holds no lock.
LEMMA StartStep ==
  ASSUME Shape, NEW p \in Proc, Started(p)
  PROVE  Shape' /\ Balanced
<1>1. PICK w \in Steps : \E gone, come : StartHyp(p, w, gone, come)
  BY Zenon DEF Started
<1>2. PICK gone, come : StartHyp(p, w, gone, come)
  BY <1>1, Zenon
<1>3. PICK t : t = <<w, End>>
  BY Zenon
<1>4. FsTypes
  BY Zenon DEF Shape
<1>5. /\ up /\ up' = up /\ todo[p] = <<>> /\ todo' = [todo EXCEPT ![p] = t]
      /\ DOMAIN call' = Proc /\ \A q \in Proc : q # p => call'[q] = call[q]
      /\ UNCHANGED <<disk, durable, lock>> /\ ref' \in [Inum -> Int] /\ Tables(p, gone, come)
  BY <1>2, <1>3, Zenon DEF StartHyp
<1>6. ListOk(t, call'[p]) /\ \A i \in Inum : Claims(t, i) = Claim(w, i)
  BY <1>2, <1>3, StartList, Zenon DEF StartHyp
<1>7. ASSUME NEW i \in Inum
      PROVE  ref'[i] + (Claims(todo[p], i) + Same(gone, i)) = ref[i] + (Same(come, i) + Claims(t, i))
  <2>1. Claims(todo[p], i) = 0 /\ Same(gone, i) \in Nat
    BY <1>5, EmptyClaims, ClaimNat, Zenon
  <2>2. Claims(todo[p], i) + Same(gone, i) = Same(gone, i)
    BY <2>1, SMT
  <2> QED
    BY <1>2, <1>6, <2>2, Zenon DEF StartHyp
<1>8. Balance(p, t, gone, come)
  BY <1>5, <1>7, Zenon DEF Balance
<1>9. EntsOk(disk') /\ EntsOk(durable') /\ lock' \in [Inum -> Proc \cup {NoProc}]
  BY <1>4, <1>5, Zenon DEF FsTypes
<1>10. ASSUME NEW i \in Inum PROVE lock'[i] = lock[i] /\ lock[i] # p
  <2>1. 1 .. Len(todo[p]) = {}
    BY <1>5, EmptyList, Zenon
  <2> QED
    BY <1>5, <2>1, ProcAssumption, Zenon DEF Shape, LocksHaveSteps
<1>11. ListHyp(p, t, gone, come)
  BY <1>5, <1>6, <1>8, <1>9, <1>10, Zenon DEF ListHyp
<1> QED
  BY <1>11, ListStep, Zenon

\* Nothing comes after the only element of a list.
LEMMA TailOne ==
  ASSUME NEW S, NEW s \in Seq(S), Len(s) = 1
  PROVE  Tail(s) = <<>>
<1>1. Tail(s) \in Seq(S) /\ Len(Tail(s)) = 0
  BY SMT
<1> QED
  BY <1>1, ListElems, Zenon

\* end_op() is the last step of a call, but for the commit.
LEMMA StepEndOp ==
  ASSUME Shape, NEW p \in Proc, EndOp(p)
  PROVE  Shape' /\ Balanced
<1>1. PICK h : h = Head(todo[p])
  BY Zenon
<1>2. At(p, "end")
  BY Zenon DEF EndOp
<1>3. /\ todo[p] # <<>> /\ FsTypes /\ up /\ h \in Steps /\ h.op = "end"
      /\ ListOk(todo[p], call[p]) /\ h = todo[p][1] /\ 1 \in 1 .. Len(todo[p])
      /\ \A i \in Inum : Claim(h, i) = 0
  <2>1. AtHead(p, "end", h)
    BY <1>1, <1>2, AtFacts, Zenon
  <2> QED
    BY <1>2, <2>1, Zenon DEF AtHead
<1>4. Len(todo[p]) = 1 /\ todo[p] \in Seq(Steps)
  BY <1>3, Zenon DEF ListOk, ListEnd
<1>5. Tail(todo[p]) = <<>>
  BY <1>4, TailOne, Zenon
<1>6. PICK t : t \in {<<>>, <<Commit>>} /\ todo' = [todo EXCEPT ![p] = t]
  <2>1. <<>> \o <<>> = <<>> /\ <<Commit>> \o <<>> = <<Commit>>
    BY SMT
  <2>2. \E ops \in {<<>>, <<Commit>>} : Do(p, ops)
    BY Zenon DEF EndOp
  <2>3. PICK ops \in {<<>>, <<Commit>>} : Do(p, ops)
    BY <2>2, Zenon
  <2>4. todo' = [todo EXCEPT ![p] = ops \o Tail(todo[p])]
    BY <1>3, <2>3, Zenon DEF Do, FsTypes
  <2> QED
    BY <1>5, <2>1, <2>3, <2>4, Zenon
<1>7. Commit \in Steps /\ Commit.op = "commit" /\ Commit.op \in Simple
  BY OpFields, StepsAre DEF Commit, Simple
<1>8. ListOk(t, call'[p])
  BY <1>6, <1>7, EmptyList, OneList, Zenon
<1>9. ASSUME NEW i \in Inum PROVE Claims(t, i) = 0 /\ Claims(todo[p], i) = 0
  <2>1. Claim(Commit, i) = 0
    BY <1>7, ClaimFacts, Zenon
  <2>2. Claims(t, i) = 0
    BY <1>6, <1>7, <2>1, EmptyClaims, OneList, Zenon
  <2>3. Pushed(todo[p], <<>>, End, End, call[p])
    <3>1. <<>> \o Tail(todo[p]) = <<>>
      BY <1>5, SMT
    <3> QED
      BY <1>3, <3>1, PushedNone, Zenon
  <2>4. Claims(<<>>, i) + Claim(h, i) = Claims(todo[p], i) + (Claim(End, i) + Claim(End, i))
    BY <1>3, <2>3, Zenon DEF Pushed
  <2>5. Claims(<<>>, i) = 0 /\ Claim(h, i) = 0 /\ Claim(End, i) = 0 /\ Claims(todo[p], i) \in Nat
    BY <1>3, EmptyClaims, EndClaim, ClaimsNat, Zenon
  <2> QED
    BY <2>2, <2>4, <2>5, SMT
<1>10. UNCHANGED <<disk, durable, ref, lock, cwd, ofile, up>> /\ call' = [call EXCEPT ![p] = NoCall]
  BY Zenon DEF EndOp
<1>11. ASSUME NEW i \in Inum PROVE lock'[i] = lock[i] /\ lock[i] # p
  <2>1. \A k \in 1 .. Len(todo[p]) : k = 1
    BY <1>4, SMT
  <2>2. ~LockStep(h, i)
    BY <1>3, Zenon DEF LockStep
  <2> QED
    BY <1>3, <1>10, <2>1, <2>2, ProcAssumption, Zenon DEF Shape, LocksHaveSteps
<1>12. /\ DOMAIN call' = Proc /\ \A q \in Proc : q # p => call'[q] = call[q]
       /\ EntsOk(disk') /\ EntsOk(durable') /\ ref' \in [Inum -> Int] /\ up' = up
       /\ lock' \in [Inum -> Proc \cup {NoProc}]
  BY <1>3, <1>10, Zenon DEF FsTypes
<1>13. Tables(p, 0, 0)
  BY <1>10, Zenon DEF Tables
<1>14. ASSUME NEW i \in Inum
       PROVE  ref'[i] + (Claims(todo[p], i) + Same(0, i)) = ref[i] + (Same(0, i) + Claims(t, i))
  <2>1. Same(0, i) \in Nat
    BY ClaimNat, Zenon
  <2>2. 0 + Same(0, i) = Same(0, i) + 0
    BY <2>1, SMT
  <2> QED
    BY <1>9, <1>10, <2>2, Zenon
<1>15. Balance(p, t, 0, 0)
  BY <1>6, <1>12, <1>13, <1>14, Zenon DEF Balance
<1>16. ListHyp(p, t, 0, 0)
  BY <1>3, <1>8, <1>11, <1>12, <1>15, Zenon DEF ListHyp
<1> QED
  BY <1>16, ListStep, Zenon

-----------------------------------------------------------------------------
(* Crash and recovery.                                                       *)

FreshKinds ==
  /\ lock \in [Inum -> Proc \cup {NoProc}] /\ cwd \in [Proc -> Inum] /\ FilesOk(ofile)
  /\ DOMAIN todo = Proc /\ (\A p \in Proc : \A c : ListOk(todo[p], c)) /\ LocksHaveSteps

\* A fresh machine has the right types and holds no lock.
LEMMA FreshTypes ==
  ASSUME Fresh
  PROVE  FreshKinds
<1>1. ROOT \in Inum
  BY SizeAssumption, SMT DEF Inum, ROOT
<1>2. lock \in [Inum -> Proc \cup {NoProc}] /\ cwd \in [Proc -> Inum] /\ DOMAIN todo = Proc
  BY <1>1, Zenon DEF Fresh
<1>3. /\ File(0, FALSE) \in [ip : Inum \cup {0}, writable : BOOLEAN]
      /\ File(0, FALSE).ip = 0 /\ File(0, FALSE).writable = FALSE
  BY Zenon DEF File
<1>4. NoFiles \in [1 .. NOFILE -> [ip : Inum \cup {0}, writable : BOOLEAN]]
  BY <1>3, Zenon DEF NoFiles
<1>5. ofile \in [Proc -> [1 .. NOFILE -> [ip : Inum \cup {0}, writable : BOOLEAN]]]
  BY <1>4, Zenon DEF Fresh
<1>6. \A p \in Proc, f \in 1 .. NOFILE : ofile[p][f] = File(0, FALSE)
  BY Zenon DEF Fresh, NoFiles
<1>7. FilesOk(ofile)
  BY <1>3, <1>5, <1>6, Zenon DEF FilesOk
<1>8. \A p \in Proc : \A c : ListOk(todo[p], c)
  BY EmptyList, Zenon DEF Fresh
<1>9. LocksHaveSteps
  BY Zenon DEF Fresh, LocksHaveSteps
<1> QED
  BY <1>2, <1>7, <1>8, <1>9, Zenon DEF FreshKinds

\* A crash.
LEMMA StepCrash ==
  ASSUME Shape, Crash
  PROVE  Shape'
<1>1. Fresh' /\ ~up' /\ ref' = [i \in Inum |-> 0]
  BY Zenon DEF Crash, Fresh
<1>2. /\ lock' \in [Inum -> Proc \cup {NoProc}] /\ cwd' \in [Proc -> Inum] /\ FilesOk(ofile')
      /\ DOMAIN todo' = Proc /\ (\A p \in Proc : \A c : ListOk(todo'[p], c)) /\ LocksHaveSteps'
  <2>1. Fresh' => FreshKinds'
    BY FreshTypes, PTL
  <2> QED
    BY <1>1, <2>1, Zenon DEF FreshKinds
<1>3. EntsOk(disk') /\ EntsOk(durable') /\ DOMAIN call' = Proc
  BY Zenon DEF Crash, Shape, FsTypes
<1>4. ref' \in [Inum -> Int]
  BY <1>1, SMT
<1>5. FsTypes'
  BY <1>2, <1>3, <1>4, Zenon DEF FsTypes, EntsOk, FilesOk, ListOk
<1>6. DownInv'
  BY <1>1, Zenon DEF DownInv, Fresh
<1> QED
  BY <1>2, <1>5, <1>6, Zenon DEF Shape

\* ireclaim() frees the orphans at boot.
LEMMA StepReclaim ==
  ASSUME Shape, FirstFound, Reclaim
  PROVE  Shape'
<1>1. FsTypes
  BY Zenon DEF Shape
<1>2. PICK i : i = Lowest(Orphans(disk))
  BY Zenon
<1>3. i \in Inum
  <2>1. Orphans(disk) # {}
    BY Zenon DEF Reclaim
  <2>2. Orphans(disk) \in SUBSET Inum /\ Inum \in SUBSET Nat
    BY SMT DEF Orphans, Inum
  <2>3. Orphans(disk) \in SUBSET Nat
    BY <2>2, Zenon
  <2> QED
    BY <1>2, <2>1, <2>2, <2>3, Zenon DEF FirstFound
<1>4. /\ disk' = Updated(Truncated(disk, i), i, FreeInode) /\ durable' = disk' /\ ~up
      /\ UNCHANGED <<ref, lock, cwd, ofile, todo, call, up>>
  BY <1>2, Zenon DEF Reclaim
<1>5. EntsOk(disk') /\ EntsOk(durable')
  BY <1>1, <1>3, <1>4, EntsFacts, Zenon DEF FsTypes
<1>6. FsTypes'
  BY <1>1, <1>4, <1>5, Zenon DEF FsTypes, EntsOk, FilesOk, ListOk
<1>7. LocksHaveSteps'
  BY <1>4, Zenon DEF Shape, LocksHaveSteps, LockStep
<1>8. DownInv'
  BY <1>4, Zenon DEF Shape, DownInv
<1> QED
  BY <1>6, <1>7, <1>8, Zenon DEF Shape

\* So does a step that changes nothing.
LEMMA StutterInv ==
  ASSUME Shape, UNCHANGED vars
  PROVE  Shape'
<1>1. UNCHANGED <<disk, durable, ref, lock, cwd, ofile, todo, call, up>>
  BY Zenon DEF vars
<1>2. FsTypes'
  BY <1>1, Zenon DEF Shape, FsTypes, EntsOk, FilesOk, ListOk
<1>3. LocksHaveSteps'
  BY <1>1, Zenon DEF Shape, LocksHaveSteps, LockStep
<1>4. DownInv'
  BY <1>1, Zenon DEF Shape, DownInv
<1> QED
  BY <1>2, <1>3, <1>4, Zenon DEF Shape

-----------------------------------------------------------------------------
(* Boot, and every step.                                                     *)

\* The lists and the locks at first.
LEMMA InitShape ==
  ASSUME Init, Cardinality(Proc) \in Nat
  PROVE  Shape /\ Fresh /\ up /\ \A i \in Inum : ref[i] = IF i = ROOT THEN Cardinality(Proc) ELSE 0
<1>1. Fresh /\ up = TRUE
  BY Zenon DEF Init, Fresh
<1>2. /\ lock \in [Inum -> Proc \cup {NoProc}] /\ cwd \in [Proc -> Inum] /\ FilesOk(ofile)
      /\ DOMAIN todo = Proc /\ (\A p \in Proc : \A c : ListOk(todo[p], c)) /\ LocksHaveSteps
  BY <1>1, FreshTypes, Zenon DEF FreshKinds
<1>3. EntsOk(disk) /\ EntsOk(durable)
  <2>1. disk \in FileSystem /\ durable = disk
    BY ImagesAssumption, Zenon DEF Init
  <2>2. EntsOk(disk)
    BY <2>1, Zenon DEF FileSystem, EntsOk
  <2> QED
    BY <2>1, <2>2, Zenon
<1>4. ref \in [Inum -> Int] /\ \A i \in Inum : ref[i] = IF i = ROOT THEN Cardinality(Proc) ELSE 0
  <2>1. \A i \in Inum : (IF i = ROOT THEN Cardinality(Proc) ELSE 0) \in Int
    BY SMT
  <2> QED
    BY <2>1, Zenon DEF Init
<1>5. DOMAIN call = Proc
  BY Zenon DEF Init
<1>6. FsTypes
  BY <1>2, <1>3, <1>4, <1>5, Zenon DEF FsTypes
<1>7. DownInv
  BY <1>1, Zenon DEF DownInv
<1> QED
  BY <1>1, <1>2, <1>4, <1>6, <1>7, Zenon DEF Shape

\* The first process starts over.
LEMMA StepBoot ==
  ASSUME Shape, Boot, Cardinality(Proc) \in Nat
  PROVE  Shape' /\ Fresh' /\ \A i \in Inum : ref'[i] = IF i = ROOT THEN Cardinality(Proc) ELSE 0
<1>1. FsTypes
  BY Zenon DEF Shape
<1>2. /\ ~up /\ up' = TRUE /\ ref' = [ref EXCEPT ![ROOT] = Cardinality(Proc)]
      /\ UNCHANGED <<disk, durable, lock, cwd, ofile, todo, call>>
  BY Zenon DEF Boot
<1>3. Fresh /\ ref = [i \in Inum |-> 0]
  BY <1>2, Zenon DEF Shape, DownInv, Fresh
<1>4. \A i \in Inum : ref'[i] = IF i = ROOT THEN Cardinality(Proc) ELSE 0
  BY <1>2, <1>3, Zenon
<1>5. ref' \in [Inum -> Int]
  <2>1. Cardinality(Proc) \in Int /\ ref \in [Inum -> Int]
    BY <1>1, SMT DEF FsTypes
  <2> QED
    BY <1>2, <2>1, Zenon
<1>6. FsTypes'
  BY <1>1, <1>2, <1>5, Zenon DEF FsTypes, EntsOk, FilesOk, ListOk
<1>7. LocksHaveSteps'
  BY <1>2, Zenon DEF Shape, LocksHaveSteps, LockStep
<1>8. DownInv'
  BY <1>2, Zenon DEF DownInv
<1>9. Fresh'
  BY <1>2, <1>3, Zenon DEF Fresh
<1> QED
  BY <1>4, <1>6, <1>7, <1>8, <1>9, Zenon DEF Shape

\* Every step of a call.
LEMMA StepInv ==
  ASSUME Shape, FirstFound, NEW p \in Proc, Step(p)
  PROVE  Shape' /\ Balanced
<1>1. Moved(p) \/ EndOp(p)
  BY StepPutDrop, StepPutLock, StepPutFree, StepIunlockPut, StepWalkStep, StepWalkEnd,
     StepCreateFound, StepCreateExists, StepPutOnly, StepCreateNew, StepOpenDone, StepOpenLock,
     StepLinkCount, StepLinkEntry, StepUnlinkFind, StepUnlinkEntry, StepUnlinkCount,
     StepChdir, StepWrite, StepCommitOp, Zenon DEF Step
<1> QED
  BY <1>1, MoveStep, StepEndOp, Zenon

\* Every step keeps the lists and the locks, and while the machine is up it changes ref by
\* exactly what comes to refer to an inode and what ceases to.
LEMMA ShapeStep ==
  ASSUME Shape, FirstFound, Cardinality(Proc) \in Nat, [Next]_vars
  PROVE  Shape' /\ (Balanced \/ Boot \/ ~up' \/ UNCHANGED vars)
<1>1. CASE \E p \in Proc : Step(p) \/ Start(p)
  BY <1>1, StepInv, StartStep, StepStartPath, StepClose, StepStartWrite, Zenon DEF Start
<1>2. CASE Crash
  BY <1>2, StepCrash, Zenon DEF Crash
<1>3. CASE Reclaim
  BY <1>3, StepReclaim, Zenon DEF Reclaim
<1>4. CASE Boot
  BY <1>4, StepBoot, Zenon
<1>5. CASE Idle \/ UNCHANGED vars
  BY <1>5, StutterInv, Zenon DEF Idle
<1> QED
  BY <1>1, <1>2, <1>3, <1>4, <1>5, Zenon DEF Next
=============================================================================
