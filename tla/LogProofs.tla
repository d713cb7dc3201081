----------------------------- MODULE LogProofs -----------------------------
(***************************************************************************)
(* Proofs about Log, for any processes, blocks, contents and sizes: the    *)
(* log implements AtomicLog, pins are balanced, sync() is honest and the   *)
(* log never overflows.                                                    *)
(***************************************************************************)
EXTENDS Log, FiniteSetTheorems, TLAPS

\* Everything a block can hold, and where a process is that commits.
Data == Val \cup {None, Torn}
Commits == {"writeLog", "writeHead", "install", "clearHead", "commitDone"}
Ops == {t \in Thr : pc[t] = "op"}

TypeInv ==
  /\ home \in [Block -> Data] /\ cache \in [Block -> Data]
  /\ dlog \in [1 .. LOGBLOCKS -> Data]
  /\ pins \in [Block -> Int]
  /\ lh \in Seq(Block) /\ dhdr \in Seq(Block)
  /\ Len(lh) <= LOGBLOCKS /\ Len(dhdr) <= LOGBLOCKS
  /\ outstanding \in Nat /\ ncommit \in Nat /\ tail \in Nat
  /\ boot \in {"readHead", "install", "clear", "up"}
  /\ pc \in [Thr -> Label]
  /\ target \in [Thr -> Nat] /\ DOMAIN owed = Thr

\* A commit runs alone: it has one process, and no operation is active.
CommitInv ==
  /\ \A t, u \in Thr : pc[t] \in Commits /\ pc[u] \in Commits => t = u
  /\ \A t \in Thr : pc[t] \in Commits => committing
  /\ committing => \E t \in Thr : pc[t] \in Commits
  /\ IsFiniteSet(Ops) /\ outstanding = Cardinality(Ops)
  /\ committing => Ops = {}
  /\ boot # "up" => \A t \in Thr : pc[t] = "idle"

\* commit() and recovery are at an entry of the transaction.
TailInv ==
  /\ \A t \in Thr : pc[t] \in {"writeLog", "writeHead", "install"} => tail \in 1 .. Len(lh)
  /\ \A t \in Thr : pc[t] = "writeHead" => tail = 1
  /\ boot = "install" => tail \in 1 .. Len(lh)

\* The first n blocks of the transaction are in the log; are at home.
Copied(n) == \A i \in 1 .. n : dlog[i] = Bread(lh[i])
Installed(n) == \A i \in 1 .. n : home[lh[i]] = dlog[i]
Distinct(s) == \A i, j \in 1 .. Len(s) : s[i] = s[j] => i = j

\* What is where on disk and in the cache, at each point of a commit.
UpInv ==
  /\ \A b \in Block : b \notin Logged => Bread(b) = home[b]
  /\ (\A t \in Thr : pc[t] \notin {"install", "clearHead"}) => dhdr = <<>>
  /\ \A t \in Thr :
       /\ pc[t] = "writeLog" => Copied(tail - 1)
       /\ pc[t] = "writeHead" => Copied(Len(lh))
       /\ pc[t] \in {"install", "clearHead"} => dhdr = lh /\ Copied(Len(lh))
       /\ pc[t] = "install" => Installed(tail - 1)
       /\ pc[t] = "clearHead" => Installed(Len(lh))
       /\ pc[t] = "commitDone" => lh = <<>>

\* ... and at each point of recovery.
BootInv ==
  /\ \A b \in Block : Bread(b) = home[b] /\ pins[b] = 0
  /\ boot = "readHead" => lh = <<>>
  /\ boot = "install" => lh = dhdr /\ Installed(tail - 1)
  /\ boot = "clear" => lh = dhdr /\ Installed(Len(lh))

\* The pins that are still to be dropped.
PinInv ==
  /\ (\A t \in Thr : pc[t] \notin {"install", "clearHead"}) =>
       \A b \in Block : pins[b] = IF \E i \in 1 .. Len(lh) : lh[i] = b THEN 1 ELSE 0
  /\ \A t \in Thr : pc[t] = "install" =>
       \A b \in Block : pins[b] = IF \E i \in tail .. Len(lh) : lh[i] = b THEN 1 ELSE 0
  /\ \A t \in Thr : pc[t] = "clearHead" => \A b \in Block : pins[b] = 0

DataInv ==
  /\ Distinct(lh) /\ Distinct(dhdr)
  /\ boot = "up" => UpInv /\ PinInv
  /\ boot # "up" => BootInv

\* What a sync() waits for is not durable yet, and becomes so before the commit
\* it waits for ends.
SyncInv ==
  /\ \A t \in Thr : owed[t] => ncommit < target[t]
  /\ (\E t \in Thr : pc[t] \in {"install", "clearHead", "commitDone"}) =>
       ~pending /\ \A t \in Thr : ~owed[t]
  /\ ~committing /\ outstanding = 0 => ~pending

-----------------------------------------------------------------------------
(* Types.                                                                    *)

\* A process that is woken is at a label, commits only if it did, and is in an
\* operation only if it was.
LEMMA WokenFacts ==
  ASSUME NEW l \in Label
  PROVE  /\ Woken(l) \in Label
         /\ Woken(l) \in Commits => Woken(l) = l
         /\ l \in Commits => Woken(l) = l
         /\ Woken(l) = "op" <=> l = "op"
  BY Zenon DEF Woken, Label, Commits

\* At boot the types hold.
LEMMA InitTypeInv == Init => TypeInv
  BY LogAssumption, ValAssumption, SMTT(30) DEF Init, TypeInv, Data, Label

\* The contents bread() returns are contents.
LEMMA BreadData ==
  ASSUME TypeInv, NEW b \in Block
  PROVE  Bread(b) \in Data
  BY Zenon DEF TypeInv, Bread

\* Appending a block to the transaction.
LEMMA AppendFacts ==
  ASSUME NEW s \in Seq(Block), NEW b \in Block
  PROVE  /\ Append(s, b) \in Seq(Block)
         /\ Len(Append(s, b)) = Len(s) + 1
         /\ \A i \in 1 .. Len(s) : Append(s, b)[i] = s[i]
         /\ Append(s, b)[Len(s) + 1] = b
  BY SMTT(30)

\* The loops of commit() stay within the types.
LEMMA NextTailFacts ==
  ASSUME pc \in [Thr -> Label], tail \in Nat, NEW t \in Thr, NEW l \in Label, NextTail(t, l)
  PROVE  pc' \in [Thr -> Label] /\ tail' \in Nat
<1>1. CASE tail < Len(lh) /\ tail' = tail + 1 /\ UNCHANGED pc
  BY <1>1, SMTT(30)
<1>2. CASE tail = Len(lh) /\ tail' = 1 /\ pc' = [pc EXCEPT ![t] = l]
  BY <1>2, Zenon
<1> QED
  BY <1>1, <1>2, Zenon DEF NextTail

\* Every step of a process preserves the types.
LEMMA StepTypeInv ==
  ASSUME TypeInv, TailInv, NEW t \in Thr, Step(t)
  PROVE  TypeInv'
<1> USE LogAssumption, ValAssumption DEF TypeInv, disk, bufs, logv, local, hist
<1>1. CASE BeginOp(t)
  BY <1>1, SMTT(30) DEF BeginOp, Label
<1>2. CASE BeginSleep(t)
  BY <1>2, Zenon DEF BeginSleep, Label
<1>3. CASE EndOp(t)
  <2>1. [u \in Thr |-> IF u = t THEN "idle" ELSE Woken(pc[u])] \in [Thr -> Label]
    BY WokenFacts, Zenon DEF Label
  <2> QED
    BY <1>3, <2>1, SMTT(30) DEF EndOp
<1>4. CASE EndOpLast(t)
  BY <1>4, Zenon DEF EndOpLast, Durable, Label
<1>5. CASE WriteLog(t)
  <2>1. pc' \in [Thr -> Label] /\ tail' \in Nat
    <3> "writeHead" \in Label
      BY Zenon DEF Label
    <3> NextTail(t, "writeHead")
      BY <1>5, Zenon DEF WriteLog
    <3> QED
      BY NextTailFacts, Zenon
  <2>2. lh[tail] \in Block
    BY <1>5, SMTT(30) DEF WriteLog, TailInv
  <2>3. Bread(lh[tail]) \in Data
    BY <2>2, BreadData, Zenon
  <2> QED
    BY <1>5, <2>1, <2>3, Zenon DEF WriteLog
<1>6. CASE WriteHead(t)
  BY <1>6, Zenon DEF WriteHead, Durable, Label
<1>7. CASE Install(t)
  <2>1. pc' \in [Thr -> Label] /\ tail' \in Nat
    <3> "clearHead" \in Label
      BY Zenon DEF Label
    <3> NextTail(t, "clearHead")
      BY <1>7, Zenon DEF Install
    <3> QED
      BY NextTailFacts, Zenon
  <2>2. tail \in 1 .. LOGBLOCKS /\ lh[tail] \in Block
    BY <1>7, SMTT(30) DEF Install, TailInv
  <2>3. dlog[tail] \in Data
    BY <2>2, Zenon
  <2>4. home' \in [Block -> Data] /\ cache' \in [Block -> Data] /\ pins' \in [Block -> Int]
    BY <1>7, <2>2, <2>3, SMTT(30) DEF Install
  <2> QED
    BY <1>7, <2>1, <2>4, Zenon DEF Install
<1>8. CASE ClearHead(t)
  BY <1>8, SMTT(30) DEF ClearHead, Label
<1>9. CASE CommitDone(t)
  <2>1. [u \in Thr |-> IF u = t THEN "idle" ELSE Woken(pc[u])] \in [Thr -> Label]
    BY WokenFacts, Zenon DEF Label
  <2> QED
    BY <1>9, <2>1, SMTT(30) DEF CommitDone
<1>10. CASE SyncCall(t)
  BY <1>10, SMTT(30) DEF SyncCall, Label
<1>11. CASE SyncAgain(t)
  BY <1>11, Zenon DEF SyncAgain, Label
<1>12. CASE SyncReturn(t)
  BY <1>12, Zenon DEF SyncReturn, Label
<1>13. ASSUME NEW b \in Block, NEW v \in Val, LogWrite(t, b, v)
       PROVE  TypeInv'
  <2>1. cache' \in [Block -> Data]
    BY <1>13, Zenon DEF LogWrite, Data
  <2>2. lh' \in Seq(Block) /\ Len(lh') <= LOGBLOCKS /\ pins' \in [Block -> Int]
    <3>1. CASE b \in Logged
      BY <1>13, <3>1, Zenon DEF LogWrite
    <3>2. CASE b \notin Logged
      <4>1. lh' = Append(lh, b) /\ pins' = [pins EXCEPT ![b] = @ + 1] /\ Len(lh) < LOGBLOCKS
        BY <1>13, <3>2, Zenon DEF LogWrite
      <4>2. pins[b] + 1 \in Int
        BY SMTT(30)
      <4>3. pins' \in [Block -> Int]
        BY <4>1, <4>2, Zenon
      <4>4. lh' \in Seq(Block) /\ Len(lh') = Len(lh) + 1
        BY <4>1, AppendFacts, Zenon
      <4> QED
        BY <4>1, <4>3, <4>4, SMTT(30)
    <3> QED
      BY <3>1, <3>2, Zenon
  <2> QED
    BY <1>13, <2>1, <2>2, Zenon DEF LogWrite
<1> QED
  BY <1>1, <1>2, <1>3, <1>4, <1>5, <1>6, <1>7, <1>8, <1>9, <1>10, <1>11, <1>12, <1>13,
     Zenon
  DEF Step

\* Every step preserves the types.
LEMMA NextTypeInv ==
  ASSUME TypeInv, TailInv, [Next]_vars
  PROVE  TypeInv'
<1> USE LogAssumption DEF TypeInv, disk, bufs, logv, local, hist
<1>1. ASSUME NEW b \in Block, Load(b) \/ Evict(b) PROVE TypeInv'
  BY <1>1, Zenon DEF Load, Evict, Data
<1>2. CASE Crash
  <2>1. home' \in [Block -> Data] /\ dlog' \in [1 .. LOGBLOCKS -> Data]
    BY <1>2, Zenon DEF Crash, Data
  <2> QED
    BY <1>2, <2>1, SMTT(30) DEF Crash, Data, Label
<1>3. CASE ReadHead
  BY <1>3, Zenon DEF ReadHead
<1>4. CASE RecoverInstall
  <2>1. tail \in 1 .. LOGBLOCKS
    BY <1>4, SMTT(30) DEF RecoverInstall, TailInv
  <2>2. dlog[tail] \in Data
    BY <2>1, Zenon
  <2>3. home' \in [Block -> Data] /\ cache' \in [Block -> Data]
    BY <1>4, <2>2, Zenon DEF RecoverInstall
  <2>4. tail' \in Nat /\ boot' \in {"readHead", "install", "clear", "up"}
    BY <1>4, SMTT(30) DEF RecoverInstall
  <2> QED
    BY <1>4, <2>3, <2>4, Zenon DEF RecoverInstall
<1>5. CASE RecoverClear
  BY <1>5, SMTT(30) DEF RecoverClear
<1>6. CASE UNCHANGED vars
  BY <1>6, Zenon DEF vars
<1> QED
  BY <1>1, <1>2, <1>3, <1>4, <1>5, <1>6, StepTypeInv, Zenon DEF Next, Recovery

-----------------------------------------------------------------------------
(* One commit at a time.                                                     *)

\* At boot nobody commits.
LEMMA InitCommitInv == Init => CommitInv
<1> SUFFICES ASSUME Init PROVE CommitInv
  BY Zenon
<1>1. Ops = {} /\ \A t \in Thr : pc[t] = "idle"
  BY Zenon DEF Init, Ops
<1>2. IsFiniteSet(Ops) /\ Cardinality(Ops) = 0
  BY <1>1, FS_EmptySet, Zenon
<1> QED
  BY <1>1, <1>2, Zenon DEF Init, CommitInv, Commits

\* A step that moves nobody into or out of an operation or a commit.
LEMMA SameCommit ==
  ASSUME CommitInv,
         \A u \in Thr : pc'[u] \in Commits <=> pc[u] \in Commits,
         \A u \in Thr : pc'[u] = "op" <=> pc[u] = "op",
         outstanding' = outstanding, committing' = committing,
         boot' # "up" => boot # "up" /\ pc' = pc
  PROVE  CommitInv'
<1>1. Ops' = Ops
  BY Zenon DEF Ops
<1>2. (committing => Ops = {})'
  BY <1>1, Zenon DEF CommitInv
<1>3. (IsFiniteSet(Ops) /\ outstanding = Cardinality(Ops))'
  BY <1>1, Zenon DEF CommitInv
<1>4. (boot # "up" => \A t \in Thr : pc[t] = "idle")'
  BY Zenon DEF CommitInv
<1> QED
  BY <1>2, <1>3, <1>4, Zenon DEF CommitInv

\* The loops of commit() go on in the commit.
LEMMA NextTailCommit ==
  ASSUME TypeInv, NEW t \in Thr, NEW l \in Commits, pc[t] \in Commits, NextTail(t, l)
  PROVE  /\ \A u \in Thr : pc'[u] \in Commits <=> pc[u] \in Commits
         /\ \A u \in Thr : pc'[u] = "op" <=> pc[u] = "op"
<1>1. "op" \notin Commits
  BY Zenon DEF Commits
<1>2. CASE UNCHANGED pc
  BY <1>2, Zenon
<1>3. CASE pc' = [pc EXCEPT ![t] = l]
  BY <1>1, <1>3, Zenon DEF TypeInv
<1> QED
  BY <1>2, <1>3, Zenon DEF NextTail

\* Every step of a process preserves CommitInv.
LEMMA StepCommitInv ==
  ASSUME TypeInv, CommitInv, NEW t \in Thr, Step(t)
  PROVE  CommitInv'
<1> USE DEF disk, bufs, logv, local, hist
<1>a. pc[t] # "idle" => boot = "up"
  BY Zenon DEF CommitInv
<1>b. \A u \in Thr : pc[u] \in Label
  BY Zenon DEF TypeInv
<1>1. CASE BeginOp(t)
  <2>1. Ops' = Ops \cup {t} /\ t \notin Ops
    BY <1>1, Zenon DEF BeginOp, AtBegin, Ops, TypeInv
  <2>2. IsFiniteSet(Ops') /\ Cardinality(Ops') = Cardinality(Ops) + 1
    BY <2>1, FS_AddElement, Zenon DEF CommitInv
  <2>3. \A u \in Thr : pc'[u] \in Commits <=> u # t /\ pc[u] \in Commits
    BY <1>1, Zenon DEF BeginOp, TypeInv, Commits
  <2>4. ~committing /\ ~committing' /\ boot' = "up"
    BY <1>1, Zenon DEF BeginOp, AtBegin
  <2>5. outstanding' = Cardinality(Ops')
    BY <1>1, <2>2, Zenon DEF BeginOp, CommitInv
  <2>6. \A u \in Thr : pc[u] \notin Commits
    BY <2>4, Zenon DEF CommitInv
  <2> QED
    BY <2>2, <2>3, <2>4, <2>5, <2>6, Zenon DEF CommitInv
<1>2. CASE BeginSleep(t)
  <2>1. \A u \in Thr : (pc'[u] \in Commits <=> pc[u] \in Commits) /\ (pc'[u] = "op" <=> pc[u] = "op")
    BY <1>2, Zenon DEF BeginSleep, AtBegin, TypeInv, Commits
  <2> QED
    BY <1>2, <2>1, SameCommit, Zenon DEF BeginSleep, AtBegin
<1>3. CASE EndOp(t)
  <2>1. \A u \in Thr : pc'[u] = IF u = t THEN "idle" ELSE Woken(pc[u])
    BY <1>3, Zenon DEF EndOp
  <2>2. Ops' = Ops \ {t} /\ t \in Ops
    BY <1>3, <1>b, <2>1, WokenFacts, Zenon DEF EndOp, Ops
  <2>3. IsFiniteSet(Ops') /\ Cardinality(Ops') = Cardinality(Ops) - 1
    BY <2>2, FS_RemoveElement, Zenon DEF CommitInv
  <2>4. \A u \in Thr : pc'[u] \in Commits <=> pc[u] \in Commits
    BY <1>3, <1>b, <2>1, WokenFacts, Zenon DEF EndOp, Commits
  <2>5. ~committing /\ ~committing' /\ boot' = "up"
    BY <1>3, <1>a, <2>2, Zenon DEF EndOp, CommitInv
  <2>6. outstanding' = Cardinality(Ops')
    BY <1>3, <2>3, Zenon DEF EndOp, CommitInv
  <2>7. \A u \in Thr : pc[u] \notin Commits
    BY <2>5, Zenon DEF CommitInv
  <2> QED
    BY <2>3, <2>4, <2>5, <2>6, <2>7, Zenon DEF CommitInv
<1>4. CASE EndOpLast(t)
  <2>1. t \in Ops /\ Cardinality(Ops) = 1 /\ IsFiniteSet(Ops)
    BY <1>4, Zenon DEF EndOpLast, Ops, CommitInv
  <2>2. Ops = {t}
    BY <2>1, FS_Singleton, SMTT(30)
  <2>3. PICK l \in {"writeLog", "commitDone"} : pc' = [pc EXCEPT ![t] = l]
    BY <1>4, Zenon DEF EndOpLast
  <2>4. Ops' = {}
    BY <2>2, <2>3, Zenon DEF Ops, TypeInv
  <2>5. IsFiniteSet(Ops') /\ Cardinality(Ops') = 0
    BY <2>4, FS_EmptySet, Zenon
  <2>6. \A u \in Thr : pc[u] \notin Commits
    BY <2>1, Zenon DEF CommitInv
  <2>7. \A u \in Thr : pc'[u] \in Commits <=> u = t
    BY <2>3, <2>6, Zenon DEF TypeInv, Commits
  <2>8. committing' /\ outstanding' = 0 /\ boot' = "up"
    BY <1>4, <1>a, Zenon DEF EndOpLast
  <2> QED
    BY <2>4, <2>5, <2>7, <2>8, Zenon DEF CommitInv
<1>5. CASE WriteLog(t)
  <2>1. "writeHead" \in Commits /\ pc[t] \in Commits
    BY <1>5, Zenon DEF WriteLog, Commits
  <2> QED
    BY <1>5, <1>a, <2>1, NextTailCommit, SameCommit, Zenon DEF WriteLog
<1>6. CASE WriteHead(t)
  <2>1. \A u \in Thr : (pc'[u] \in Commits <=> pc[u] \in Commits) /\ (pc'[u] = "op" <=> pc[u] = "op")
    BY <1>6, Zenon DEF WriteHead, TypeInv, Commits
  <2> QED
    BY <1>6, <1>a, <2>1, SameCommit, Zenon DEF WriteHead
<1>7. CASE Install(t)
  <2>1. "clearHead" \in Commits /\ pc[t] \in Commits
    BY <1>7, Zenon DEF Install, Commits
  <2> QED
    BY <1>7, <1>a, <2>1, NextTailCommit, SameCommit, Zenon DEF Install
<1>8. CASE ClearHead(t)
  <2>1. \A u \in Thr : (pc'[u] \in Commits <=> pc[u] \in Commits) /\ (pc'[u] = "op" <=> pc[u] = "op")
    BY <1>8, Zenon DEF ClearHead, TypeInv, Commits
  <2> QED
    BY <1>8, <1>a, <2>1, SameCommit, Zenon DEF ClearHead
<1>9. CASE CommitDone(t)
  <2>1. \A u \in Thr : pc'[u] = IF u = t THEN "idle" ELSE Woken(pc[u])
    BY <1>9, Zenon DEF CommitDone
  <2>2. t \notin Ops /\ pc[t] \in Commits
    BY <1>9, Zenon DEF CommitDone, Ops, Commits
  <2>3. Ops' = Ops
    BY <1>9, <1>b, <2>1, <2>2, WokenFacts, SMTT(30) DEF Ops
  <2>4. \A u \in Thr : pc'[u] \notin Commits
    <3>1. \A u \in Thr : u # t => pc[u] \notin Commits
      BY <2>2, Zenon DEF CommitInv
    <3>2. "idle" \notin Commits
      BY Zenon DEF Commits
    <3> QED
      BY <1>b, <2>1, <3>1, <3>2, WokenFacts, Zenon
  <2>5. ~committing' /\ boot' = "up" /\ outstanding' = outstanding
    BY <1>9, <1>a, Zenon DEF CommitDone
  <2>6. IsFiniteSet(Ops') /\ outstanding' = Cardinality(Ops')
    BY <2>3, <2>5, Zenon DEF CommitInv
  <2> QED
    BY <2>4, <2>5, <2>6, Zenon DEF CommitInv
<1>10. CASE SyncCall(t)
  <2>1. \A u \in Thr : (pc'[u] \in Commits <=> pc[u] \in Commits) /\ (pc'[u] = "op" <=> pc[u] = "op")
    BY <1>10, Zenon DEF SyncCall, TypeInv, Commits
  <2> QED
    BY <1>10, <2>1, SameCommit, Zenon DEF SyncCall
<1>11. CASE SyncAgain(t)
  <2>1. \A u \in Thr : (pc'[u] \in Commits <=> pc[u] \in Commits) /\ (pc'[u] = "op" <=> pc[u] = "op")
    BY <1>11, Zenon DEF SyncAgain, TypeInv, Commits
  <2> QED
    BY <1>11, <1>a, <2>1, SameCommit, Zenon DEF SyncAgain
<1>12. CASE SyncReturn(t)
  <2>1. \A u \in Thr : (pc'[u] \in Commits <=> pc[u] \in Commits) /\ (pc'[u] = "op" <=> pc[u] = "op")
    BY <1>12, Zenon DEF SyncReturn, TypeInv, Commits
  <2> QED
    BY <1>12, <1>a, <2>1, SameCommit, Zenon DEF SyncReturn
<1>13. ASSUME NEW b \in Block, NEW v \in Val, LogWrite(t, b, v)
       PROVE  CommitInv'
  BY <1>13, <1>a, SameCommit, Zenon DEF LogWrite
<1> QED
  BY <1>1, <1>2, <1>3, <1>4, <1>5, <1>6, <1>7, <1>8, <1>9, <1>10, <1>11, <1>12, <1>13,
     Zenon
  DEF Step

\* Every step preserves CommitInv.
LEMMA NextCommitInv ==
  ASSUME TypeInv, CommitInv, [Next]_vars
  PROVE  CommitInv'
<1> USE DEF disk, bufs, logv, local, hist
<1>1. ASSUME NEW b \in Block, Load(b) \/ Evict(b) PROVE CommitInv'
  BY <1>1, SameCommit, Zenon DEF Load, Evict
<1>2. CASE Crash
  <2>1. (\A t \in Thr : pc[t] = "idle")' /\ ~committing' /\ outstanding' = 0
    BY <1>2, Zenon DEF Crash
  <2>2. Ops' = {}
    BY <2>1, Zenon DEF Ops
  <2>3. IsFiniteSet(Ops') /\ Cardinality(Ops') = 0
    BY <2>2, FS_EmptySet, Zenon
  <2> QED
    BY <2>1, <2>3, Zenon DEF CommitInv, Commits
<1>3. CASE Recovery
  BY <1>3, SameCommit, Zenon DEF Recovery, ReadHead, RecoverInstall, RecoverClear
<1>4. CASE UNCHANGED vars
  BY <1>4, SameCommit, Zenon DEF vars
<1> QED
  BY <1>1, <1>2, <1>3, <1>4, StepCommitInv, Zenon DEF Next

-----------------------------------------------------------------------------
(* Where commit() and recovery are in the transaction.                       *)

\* The steps of a process that leave the disk, the cache and the transaction
\* alone: nobody gets into a commit or leaves its middle.
Quiet(t) ==
  \/ BeginOp(t) \/ BeginSleep(t) \/ EndOp(t) \/ CommitDone(t)
  \/ SyncCall(t) \/ SyncAgain(t) \/ SyncReturn(t)

\* What the steps of Quiet leave alone.
LEMMA QuietFacts ==
  ASSUME TypeInv, NEW t \in Thr, Quiet(t)
  PROVE  /\ home' = home /\ dlog' = dlog /\ dhdr' = dhdr
         /\ cache' = cache /\ pins' = pins /\ lh' = lh /\ tail' = tail /\ boot' = boot
         /\ \A u \in Thr : pc'[u] \in Commits => pc'[u] = pc[u]
         /\ \A u \in Thr : pc[u] \in Commits \ {"commitDone"} => pc'[u] = pc[u]
<1> USE DEF disk, bufs, logv, local, hist, TypeInv
<1>b. \A u \in Thr : pc[u] \in Label
  BY Zenon
<1>1. CASE BeginOp(t)
  BY <1>1, Zenon DEF BeginOp, AtBegin, Commits
<1>2. CASE BeginSleep(t)
  BY <1>2, Zenon DEF BeginSleep, AtBegin, Commits
<1>3. CASE EndOp(t)
  <2>1. \A u \in Thr : pc'[u] = IF u = t THEN "idle" ELSE Woken(pc[u])
    BY <1>3, Zenon DEF EndOp
  <2>2. "idle" \notin Commits /\ pc[t] \notin Commits
    BY <1>3, Zenon DEF EndOp, Commits
  <2>3. \A u \in Thr : pc'[u] \in Commits => pc'[u] = pc[u]
    BY <1>b, <2>1, <2>2, WokenFacts, Zenon
  <2>4. \A u \in Thr : pc[u] \in Commits \ {"commitDone"} => pc'[u] = pc[u]
    BY <1>b, <2>1, <2>2, WokenFacts, Zenon
  <2> QED
    BY <1>3, <2>3, <2>4, Zenon DEF EndOp
<1>4. CASE CommitDone(t)
  <2>1. \A u \in Thr : pc'[u] = IF u = t THEN "idle" ELSE Woken(pc[u])
    BY <1>4, Zenon DEF CommitDone
  <2>2. "idle" \notin Commits /\ pc[t] = "commitDone"
    BY <1>4, Zenon DEF CommitDone, Commits
  <2>3. \A u \in Thr : pc'[u] \in Commits => pc'[u] = pc[u]
    BY <1>b, <2>1, <2>2, WokenFacts, Zenon
  <2>4. \A u \in Thr : pc[u] \in Commits \ {"commitDone"} => pc'[u] = pc[u]
    BY <1>b, <2>1, <2>2, WokenFacts, Zenon
  <2> QED
    BY <1>4, <2>3, <2>4, Zenon DEF CommitDone
<1>5. CASE SyncCall(t)
  BY <1>5, Zenon DEF SyncCall, Commits
<1>6. CASE SyncAgain(t)
  BY <1>6, Zenon DEF SyncAgain, Commits
<1>7. CASE SyncReturn(t)
  BY <1>7, Zenon DEF SyncReturn, Commits
<1> QED
  BY <1>1, <1>2, <1>3, <1>4, <1>5, <1>6, <1>7, Zenon DEF Quiet

\* While process t is in commit(), nobody else is, and the machine is up.
LEMMA AloneInCommit ==
  ASSUME TypeInv, CommitInv, NEW t \in Thr, pc[t] \in Commits
  PROVE  /\ boot = "up" /\ Ops = {}
         /\ \A u \in Thr : u # t => pc[u] \notin Commits
<1>1. pc[t] # "idle"
  BY Zenon DEF Commits
<1> QED
  BY <1>1, Zenon DEF CommitInv

\* While an operation is active, nobody is in commit(), and the machine is up.
LEMMA NoCommitInOp ==
  ASSUME TypeInv, CommitInv, NEW t \in Thr, pc[t] = "op"
  PROVE  boot = "up" /\ \A u \in Thr : pc[u] \notin Commits
<1>1. t \in Ops
  BY Zenon DEF Ops
<1> QED
  BY <1>1, Zenon DEF CommitInv

\* Every step preserves TailInv.
LEMMA NextTailInv ==
  ASSUME TypeInv, CommitInv, TailInv, [Next]_vars
  PROVE  TailInv'
<1> USE DEF disk, bufs, logv, local, hist
<1>q. ASSUME NEW t \in Thr, Quiet(t) PROVE TailInv'
  BY <1>q, QuietFacts, Zenon DEF TailInv, Commits
<1>1. ASSUME NEW t \in Thr, EndOpLast(t) PROVE TailInv'
  <2>1. boot' = "up" /\ lh' = lh /\ tail' = 1 /\ \A u \in Thr : pc[u] \notin Commits
    BY <1>1, NoCommitInOp, Zenon DEF EndOpLast
  <2>2. CASE lh # <<>> /\ pc' = [pc EXCEPT ![t] = "writeLog"]
    <3>1. Len(lh) >= 1
      BY <2>2, SMTT(30) DEF TypeInv
    <3>2. tail' \in 1 .. Len(lh')
      BY <2>1, <3>1, SMTT(30) DEF TypeInv
    <3> QED
      BY <2>1, <2>2, <3>2, Zenon DEF TailInv
  <2>3. CASE pc' = [pc EXCEPT ![t] = "commitDone"]
    BY <2>1, <2>3, Zenon DEF TailInv, TypeInv, Commits
  <2> QED
    BY <1>1, <2>2, <2>3, Zenon DEF EndOpLast
<1>2. ASSUME NEW t \in Thr, WriteLog(t) PROVE TailInv'
  <2>1. pc[t] \in Commits /\ pc[t] = "writeLog" /\ lh' = lh /\ boot' = boot
    BY <1>2, Zenon DEF WriteLog, Commits
  <2>2. boot = "up" /\ \A u \in Thr : u # t => pc[u] \notin Commits
    BY <2>1, AloneInCommit, Zenon
  <2>3. tail \in 1 .. Len(lh) /\ Len(lh) \in Nat
    BY <2>1, SMTT(30) DEF TailInv, TypeInv
  <2>4. CASE tail < Len(lh) /\ tail' = tail + 1 /\ pc' = pc
    BY <2>1, <2>2, <2>3, <2>4, SMTT(30) DEF TailInv, Commits
  <2>5. CASE tail = Len(lh) /\ tail' = 1 /\ pc' = [pc EXCEPT ![t] = "writeHead"]
    BY <2>1, <2>2, <2>3, <2>5, SMTT(30) DEF TailInv, Commits, TypeInv
  <2> QED
    BY <1>2, <2>4, <2>5, Zenon DEF WriteLog, NextTail
<1>3. ASSUME NEW t \in Thr, WriteHead(t) PROVE TailInv'
  <2>1. pc[t] \in Commits /\ pc[t] = "writeHead"
    BY <1>3, Zenon DEF WriteHead, Commits
  <2>2. boot = "up" /\ \A u \in Thr : u # t => pc[u] \notin Commits
    BY <2>1, AloneInCommit, Zenon
  <2> QED
    BY <1>3, <2>1, <2>2, Zenon DEF TailInv, TypeInv, Commits, WriteHead
<1>4. ASSUME NEW t \in Thr, Install(t) PROVE TailInv'
  <2>1. pc[t] \in Commits /\ pc[t] = "install" /\ lh' = lh /\ boot' = boot
    BY <1>4, Zenon DEF Install, Commits
  <2>2. boot = "up" /\ \A u \in Thr : u # t => pc[u] \notin Commits
    BY <2>1, AloneInCommit, Zenon
  <2>3. tail \in 1 .. Len(lh) /\ Len(lh) \in Nat
    BY <2>1, SMTT(30) DEF TailInv, TypeInv
  <2>4. CASE tail < Len(lh) /\ tail' = tail + 1 /\ pc' = pc
    BY <2>1, <2>2, <2>3, <2>4, SMTT(30) DEF TailInv, Commits
  <2>5. CASE tail = Len(lh) /\ tail' = 1 /\ pc' = [pc EXCEPT ![t] = "clearHead"]
    BY <2>1, <2>2, <2>3, <2>5, Zenon DEF TailInv, Commits, TypeInv
  <2> QED
    BY <1>4, <2>4, <2>5, Zenon DEF Install, NextTail
<1>5. ASSUME NEW t \in Thr, ClearHead(t) PROVE TailInv'
  <2>1. pc[t] \in Commits
    BY <1>5, Zenon DEF ClearHead, Commits
  <2>2. boot = "up" /\ \A u \in Thr : u # t => pc[u] \notin Commits
    BY <2>1, AloneInCommit, Zenon
  <2> QED
    BY <1>5, <2>2, Zenon DEF TailInv, TypeInv, Commits, ClearHead
<1>6. ASSUME NEW t \in Thr, NEW b \in Block, NEW v \in Val, LogWrite(t, b, v) PROVE TailInv'
  <2>1. boot = "up" /\ \A u \in Thr : pc[u] \notin Commits
    BY <1>6, NoCommitInOp, Zenon DEF LogWrite
  <2> QED
    BY <1>6, <2>1, Zenon DEF TailInv, Commits, LogWrite
<1>7. ASSUME NEW b \in Block, Load(b) \/ Evict(b) PROVE TailInv'
  BY <1>7, Zenon DEF Load, Evict, TailInv
<1>8. CASE Crash
  BY <1>8, Zenon DEF Crash, TailInv
<1>9. CASE Recovery
  <2>1. boot # "up" /\ \A t \in Thr : pc[t] = "idle" /\ pc' = pc
    BY <1>9, Zenon DEF Recovery, ReadHead, RecoverInstall, RecoverClear, CommitInv
  <2>2. CASE ReadHead
    <3>1. dhdr # <<>> => Len(dhdr) >= 1
      BY SMTT(30) DEF TypeInv
    <3> QED
      BY <2>1, <2>2, <3>1, SMTT(30) DEF ReadHead, TailInv, TypeInv
  <2>3. CASE RecoverInstall
    BY <2>1, <2>3, SMTT(30) DEF RecoverInstall, TailInv, TypeInv
  <2>4. CASE RecoverClear
    BY <2>1, <2>4, Zenon DEF RecoverClear, TailInv
  <2> QED
    BY <1>9, <2>2, <2>3, <2>4, Zenon DEF Recovery
<1>10. CASE UNCHANGED vars
  BY <1>10, Zenon DEF vars, TailInv
<1> QED
  BY <1>q, <1>1, <1>2, <1>3, <1>4, <1>5, <1>6, <1>7, <1>8, <1>9, <1>10, Zenon
  DEF Next, Step, Quiet

-----------------------------------------------------------------------------
(* What is where.                                                            *)

\* At boot the disk is empty.
LEMMA InitDataInv == Init => TailInv /\ DataInv
<1> SUFFICES ASSUME Init PROVE TailInv /\ DataInv
  BY Zenon
<1>1. \A b \in Block : Bread(b) = home[b] /\ pins[b] = 0
  BY Zenon DEF Init, Bread
<1> QED
  BY <1>1, SMTT(30) DEF Init, TailInv, DataInv, Distinct, BootInv

\* A step that changes neither the disk, the transaction and the pins, nor what
\* bread() returns, nor the middle of a commit.
LEMMA SameData ==
  ASSUME TypeInv, TailInv, DataInv,
         home' = home, dlog' = dlog, dhdr' = dhdr, pins' = pins,
         lh' = lh, tail' = tail, boot' = boot,
         \A b \in Block : Bread(b)' = Bread(b),
         \A u \in Thr : pc'[u] \in Commits => pc'[u] = pc[u],
         \A u \in Thr : pc[u] \in Commits \ {"commitDone"} => pc'[u] = pc[u]
  PROVE  DataInv'
<1>1. \A i \in 1 .. Len(lh) : lh[i] \in Block
  BY SMTT(30) DEF TypeInv
<1>2. \A n \in Int : n <= Len(lh) /\ Copied(n) => Copied(n)'
  BY <1>1, SMTT(30) DEF Copied, TypeInv
<1>3. \A n \in Int : Installed(n) => Installed(n)'
  BY Zenon DEF Installed
<1>4. Distinct(lh)' /\ Distinct(dhdr)'
  BY Zenon DEF DataInv, Distinct
<1>5. (\A u \in Thr : pc[u] \notin {"install", "clearHead"})' =>
        \A u \in Thr : pc[u] \notin {"install", "clearHead"}
  BY Zenon DEF Commits
<1>6. ASSUME boot # "up" PROVE BootInv'
  BY <1>3, <1>6, Zenon DEF DataInv, BootInv, Installed
<1>7. ASSUME boot = "up" PROVE PinInv'
  BY <1>5, <1>7, Zenon DEF DataInv, PinInv, Commits
<1>8. ASSUME boot = "up" PROVE UpInv'
  <2>1. (\A b \in Block : b \notin Logged => Bread(b) = home[b])'
    BY <1>8, Zenon DEF DataInv, UpInv, Logged
  <2>2. ((\A t \in Thr : pc[t] \notin {"install", "clearHead"}) => dhdr = <<>>)'
    BY <1>5, <1>8, Zenon DEF DataInv, UpInv
  <2>3. ASSUME NEW t \in Thr PROVE
       /\ pc'[t] = "writeLog" => Copied(tail - 1)'
       /\ pc'[t] = "writeHead" => Copied(Len(lh))'
       /\ pc'[t] \in {"install", "clearHead"} => dhdr' = lh' /\ Copied(Len(lh))'
       /\ pc'[t] = "install" => Installed(tail - 1)'
       /\ pc'[t] = "clearHead" => Installed(Len(lh))'
       /\ pc'[t] = "commitDone" => lh' = <<>>
    <3>1. pc'[t] \in Commits => pc'[t] = pc[t]
      BY Zenon
    <3>2. Len(lh) \in Int /\ tail - 1 \in Int
      BY SMTT(30) DEF TypeInv
    <3>3. CASE pc'[t] = "writeLog"
      <4>1. Copied(tail - 1) /\ tail - 1 <= Len(lh)
        BY <1>8, <3>1, <3>3, SMTT(30) DEF Commits, DataInv, UpInv, TailInv, TypeInv
      <4> QED
        BY <1>2, <3>2, <3>3, <4>1, Zenon DEF Copied
    <3>4. CASE pc'[t] = "writeHead"
      <4>1. Copied(Len(lh))
        BY <1>8, <3>1, <3>4, Zenon DEF Commits, DataInv, UpInv
      <4> QED
        BY <1>2, <3>2, <3>4, <4>1, SMTT(30) DEF Copied
    <3>5. CASE pc'[t] \in {"install", "clearHead"}
      <4>1. Copied(Len(lh)) /\ dhdr = lh
        BY <1>8, <3>1, <3>5, Zenon DEF Commits, DataInv, UpInv
      <4>2. Copied(Len(lh))'
        BY <1>2, <3>2, <4>1, SMTT(30) DEF Copied
      <4>3. (pc'[t] = "install" => Installed(tail - 1)) /\ (pc'[t] = "clearHead" => Installed(Len(lh)))
        BY <1>8, <3>1, <3>5, Zenon DEF Commits, DataInv, UpInv
      <4> QED
        BY <3>5, <4>1, <4>2, <4>3, Zenon DEF Installed
    <3>6. CASE pc'[t] = "commitDone"
      BY <1>8, <3>1, <3>6, Zenon DEF Commits, DataInv, UpInv
    <3> QED
      BY <3>3, <3>4, <3>5, <3>6, Zenon
  <2> QED
    BY <2>1, <2>2, <2>3, Zenon DEF UpInv
<1> QED
  BY <1>4, <1>6, <1>7, <1>8, Zenon DEF DataInv

\* end_op() of the last operation starts or skips the commit.
LEMMA EndOpLastData ==
  ASSUME TypeInv, CommitInv, TailInv, DataInv, NEW t \in Thr, EndOpLast(t)
  PROVE  DataInv'
<1> USE DEF disk, bufs, logv, local, hist
<1>1. boot = "up" /\ \A u \in Thr : pc[u] \notin Commits
  BY NoCommitInOp, Zenon DEF EndOpLast
<1>2. /\ home' = home /\ dlog' = dlog /\ dhdr' = dhdr /\ pins' = pins /\ cache' = cache
      /\ lh' = lh /\ boot' = boot /\ tail' = 1
  BY Zenon DEF EndOpLast
<1>3. \A u \in Thr : pc'[u] \in Commits => pc'[u] = "writeLog" \/ (pc'[u] = "commitDone" /\ lh = <<>>)
  BY <1>1, Zenon DEF EndOpLast, TypeInv
<1>4. \A b \in Block : Bread(b)' = Bread(b)
  BY <1>2, Zenon DEF Bread
<1>5. dhdr = <<>>
  BY <1>1, Zenon DEF DataInv, UpInv, Commits
<1>6. Copied(0)'
  BY SMTT(30) DEF Copied
<1>7. UpInv'
  BY <1>1, <1>2, <1>3, <1>4, <1>5, <1>6, SMTT(30)
  DEF DataInv, UpInv, Logged, Commits, Copied
<1>8. PinInv'
  BY <1>1, <1>2, <1>3, SMTT(30) DEF DataInv, PinInv, Commits
<1> QED
  BY <1>1, <1>2, <1>7, <1>8, Zenon DEF DataInv, Distinct

\* log_write() adds a block to the transaction at most once.
LEMMA LogWriteData ==
  ASSUME TypeInv, CommitInv, TailInv, DataInv,
         NEW t \in Thr, NEW b \in Block, NEW v \in Val, LogWrite(t, b, v)
  PROVE  DataInv'
<1> USE DEF disk, bufs, logv, local, hist
<1>1. boot = "up" /\ \A u \in Thr : pc[u] \notin Commits
  BY NoCommitInOp, Zenon DEF LogWrite
<1>2. home' = home /\ dlog' = dlog /\ dhdr' = dhdr /\ boot' = boot /\ tail' = tail /\ pc' = pc
  BY Zenon DEF LogWrite
<1>3. \A c \in Block : c # b => Bread(c)' = Bread(c)
  BY <1>2, Zenon DEF LogWrite, Bread, TypeInv
<1>4. dhdr = <<>>
  BY <1>1, Zenon DEF DataInv, UpInv, Commits
<1>5. CASE b \in Logged /\ lh' = lh /\ pins' = pins
  <2>1. UpInv'
    BY <1>1, <1>2, <1>3, <1>4, <1>5, Zenon DEF DataInv, UpInv, Logged, Commits
  <2>2. PinInv'
    BY <1>1, <1>2, <1>5, Zenon DEF DataInv, PinInv, Commits
  <2> QED
    BY <1>1, <1>2, <1>5, <2>1, <2>2, Zenon DEF DataInv, Distinct
<1>6. CASE b \notin Logged /\ lh' = Append(lh, b) /\ pins' = [pins EXCEPT ![b] = @ + 1]
  <2>1. /\ Len(lh) \in Nat /\ Len(lh') = Len(lh) + 1
        /\ \A i \in 1 .. Len(lh) : lh'[i] = lh[i]
        /\ lh'[Len(lh) + 1] = b
    BY <1>6, AppendFacts, SMTT(30) DEF TypeInv
  <2>2. \A c \in Block : (\E i \in 1 .. Len(lh') : lh'[i] = c) <=> (c = b \/ \E i \in 1 .. Len(lh) : lh[i] = c)
    BY <2>1, SMTT(30)
  <2>3. \A c \in Block : c \in Logged' <=> (c = b \/ c \in Logged)
    BY <2>2, Zenon DEF Logged
  <2>4. UpInv'
    <3>1. (\A c \in Block : c \notin Logged => Bread(c) = home[c])'
      BY <1>1, <1>2, <1>3, <2>3, Zenon DEF DataInv, UpInv
    <3> QED
      BY <1>1, <1>2, <1>4, <3>1, Zenon DEF UpInv, Commits
  <2>5. PinInv'
    <3>1. \A c \in Block : pins[c] = IF \E i \in 1 .. Len(lh) : lh[i] = c THEN 1 ELSE 0
      BY <1>1, Zenon DEF DataInv, PinInv, Commits
    <3>2. ~ \E i \in 1 .. Len(lh) : lh[i] = b
      BY <1>6, Zenon DEF Logged
    <3>3. \A c \in Block : pins'[c] = IF \E i \in 1 .. Len(lh') : lh'[i] = c THEN 1 ELSE 0
      <4> TAKE c \in Block
      <4>1. CASE c = b
        <5>1. pins'[b] = pins[b] + 1 /\ pins[b] = 0
          BY <1>6, <3>1, <3>2, Zenon DEF TypeInv
        <5>2. \E i \in 1 .. Len(lh') : lh'[i] = b
          BY <2>2, Zenon
        <5> QED
          BY <4>1, <5>1, <5>2, SMTT(30)
      <4>2. CASE c # b
        <5>1. pins'[c] = pins[c]
          BY <1>6, <4>2, Zenon DEF TypeInv
        <5> QED
          BY <2>2, <3>1, <4>2, <5>1, Zenon
      <4> QED
        BY <4>1, <4>2, Zenon
    <3> QED
      BY <1>1, <1>2, <3>3, Zenon DEF PinInv, Commits
  <2>6. Distinct(lh)'
    <3>1. ~ \E i \in 1 .. Len(lh) : lh[i] = b
      BY <1>6, Zenon DEF Logged
    <3> QED
      BY <2>1, <3>1, SMTT(30) DEF DataInv, Distinct
  <2> QED
    BY <1>1, <1>2, <2>4, <2>5, <2>6, Zenon DEF DataInv, Distinct
<1> QED
  BY <1>5, <1>6, Zenon DEF LogWrite

\* While process t is in commit() before write_head(), the header on disk is empty.
LEMMA HeaderEmpty ==
  ASSUME TypeInv, CommitInv, DataInv, NEW t \in Thr, pc[t] \in {"writeLog", "writeHead"}
  PROVE  dhdr = <<>>
<1>1. pc[t] \in Commits /\ pc[t] \notin {"install", "clearHead"}
  BY Zenon DEF Commits
<1>2. boot = "up" /\ \A u \in Thr : u # t => pc[u] \notin Commits
  BY <1>1, AloneInCommit, Zenon
<1> QED
  BY <1>1, <1>2, Zenon DEF DataInv, UpInv, Commits

\* write_log() copies one more block.
LEMMA WriteLogData ==
  ASSUME TypeInv, CommitInv, TailInv, DataInv, NEW t \in Thr, WriteLog(t)
  PROVE  DataInv'
<1> USE DEF disk, bufs, logv, local, hist
<1>1. pc[t] = "writeLog" /\ pc[t] \in Commits
  BY Zenon DEF WriteLog, Commits
<1>2. boot = "up" /\ \A u \in Thr : u # t => pc[u] \notin Commits
  BY <1>1, AloneInCommit, Zenon
<1>3. /\ home' = home /\ dhdr' = dhdr /\ cache' = cache /\ pins' = pins /\ lh' = lh /\ boot' = boot
      /\ dlog' = [dlog EXCEPT ![tail] = Bread(lh[tail])] /\ NextTail(t, "writeHead")
  BY Zenon DEF WriteLog
<1>4. dhdr = <<>>
  BY <1>1, HeaderEmpty, Zenon
<1>5. \A b \in Block : Bread(b)' = Bread(b)
  BY <1>3, Zenon DEF Bread
<1>6. tail \in 1 .. Len(lh) /\ Len(lh) <= LOGBLOCKS /\ LOGBLOCKS \in Nat /\ Len(lh) \in Nat
  BY <1>1, LogAssumption, SMTT(30) DEF TailInv, TypeInv
<1>7. \A i \in 1 .. tail : dlog'[i] = Bread(lh[i])'
  <2>1. \A i \in 1 .. tail - 1 : dlog[i] = Bread(lh[i])
    BY <1>1, <1>2, Zenon DEF DataInv, UpInv, Copied
  <2>2. \A i \in 1 .. tail : lh[i] \in Block /\ lh'[i] = lh[i]
    BY <1>3, <1>6, SMTT(30) DEF TypeInv
  <2>3. \A i \in 1 .. tail : Bread(lh[i])' = Bread(lh[i])
    BY <1>3, Zenon DEF Bread
  <2>4. dlog'[tail] = Bread(lh[tail]) /\ \A i \in 1 .. tail - 1 : dlog'[i] = dlog[i]
    BY <1>3, <1>6, SMTT(30) DEF TypeInv
  <2> QED
    BY <1>6, <2>1, <2>3, <2>4, SMTT(30)
<1>8. (\A u \in Thr : u # t => pc[u] \notin Commits)' /\ (pc[t] \in {"writeLog", "writeHead"})'
  BY <1>1, <1>2, <1>3, Zenon DEF NextTail, TypeInv
<1>9. (pc'[t] = "writeLog" => tail' - 1 = tail) /\ (pc'[t] = "writeHead" => tail = Len(lh))
  BY <1>1, <1>3, <1>6, SMTT(30) DEF NextTail, TypeInv
<1>10. /\ pc'[t] = "writeLog" => Copied(tail - 1)'
       /\ pc'[t] = "writeHead" => Copied(Len(lh))'
  BY <1>3, <1>7, <1>9, Zenon DEF Copied
<1>11. UpInv'
  <2>1. (\A b \in Block : b \notin Logged => Bread(b) = home[b])'
    BY <1>2, <1>3, <1>5, Zenon DEF DataInv, UpInv, Logged
  <2> QED
    BY <1>3, <1>4, <1>8, <1>10, <2>1, Zenon DEF UpInv, Commits
<1>12. PinInv'
  <2>1. \A b \in Block : pins[b] = IF \E i \in 1 .. Len(lh) : lh[i] = b THEN 1 ELSE 0
    BY <1>1, <1>2, Zenon DEF DataInv, PinInv, Commits
  <2> QED
    BY <1>3, <1>8, <2>1, Zenon DEF PinInv, Commits
<1> QED
  BY <1>2, <1>3, <1>11, <1>12, Zenon DEF DataInv, Distinct

\* write_head() commits what write_log() copied.
LEMMA WriteHeadData ==
  ASSUME TypeInv, CommitInv, TailInv, DataInv, NEW t \in Thr, WriteHead(t)
  PROVE  DataInv'
<1> USE DEF disk, bufs, logv, local, hist
<1>1. pc[t] = "writeHead" /\ pc[t] \in Commits
  BY Zenon DEF WriteHead, Commits
<1>2. boot = "up" /\ \A u \in Thr : u # t => pc[u] \notin Commits
  BY <1>1, AloneInCommit, Zenon
<1>3. /\ home' = home /\ dlog' = dlog /\ cache' = cache /\ pins' = pins /\ lh' = lh /\ boot' = boot
      /\ tail' = tail /\ dhdr' = lh
  BY Zenon DEF WriteHead
<1>4. tail = 1
  BY <1>1, Zenon DEF TailInv
<1>5. \A b \in Block : Bread(b)' = Bread(b)
  BY <1>3, Zenon DEF Bread
<1>6. Copied(Len(lh))' /\ Installed(tail - 1)'
  <2>1. Copied(Len(lh))
    BY <1>1, <1>2, Zenon DEF DataInv, UpInv
  <2>2. \A i \in 1 .. Len(lh) : Bread(lh[i])' = Bread(lh[i])
    BY <1>3, Zenon DEF Bread
  <2> QED
    BY <1>3, <1>4, <2>1, <2>2, SMTT(30) DEF Copied, Installed
<1>7. (\A u \in Thr : u # t => pc[u] \notin Commits)' /\ (pc[t] = "install")'
  BY <1>2, Zenon DEF WriteHead, TypeInv
<1>8. UpInv'
  <2>1. (\A b \in Block : b \notin Logged => Bread(b) = home[b])'
    BY <1>2, <1>3, <1>5, Zenon DEF DataInv, UpInv, Logged
  <2> QED
    BY <1>3, <1>6, <1>7, <2>1, Zenon DEF UpInv, Commits
<1>9. PinInv'
  <2>1. \A b \in Block : pins[b] = IF \E i \in 1 .. Len(lh) : lh[i] = b THEN 1 ELSE 0
    BY <1>1, <1>2, Zenon DEF DataInv, PinInv, Commits
  <2> QED
    BY <1>3, <1>4, <1>7, <2>1, Zenon DEF PinInv, Commits
<1> QED
  BY <1>2, <1>3, <1>8, <1>9, Zenon DEF DataInv, Distinct

\* What is known while process t is in install_trans().
LEMMA InstallFacts ==
  ASSUME TypeInv, CommitInv, TailInv, DataInv, NEW t \in Thr, pc[t] = "install"
  PROVE  /\ boot = "up" /\ \A u \in Thr : u # t => pc[u] \notin Commits
         /\ dhdr = lh /\ Distinct(lh) /\ Len(lh) \in Nat
         /\ \A i \in 1 .. Len(lh) : lh[i] \in Block /\ dlog[i] = Bread(lh[i])
         /\ tail \in 1 .. Len(lh) /\ Len(lh) <= LOGBLOCKS
         /\ \A i \in 1 .. tail - 1 : home[lh[i]] = dlog[i]
<1>1. pc[t] \in Commits
  BY Zenon DEF Commits
<1>2. boot = "up" /\ \A u \in Thr : u # t => pc[u] \notin Commits
  BY <1>1, AloneInCommit, Zenon
<1> QED
  BY <1>2, SMTT(30) DEF DataInv, UpInv, Copied, Installed, TailInv, TypeInv

\* install_trans() brings one more block home; bread() returns what it did.
LEMMA InstallData ==
  ASSUME TypeInv, CommitInv, TailInv, DataInv, NEW t \in Thr, Install(t)
  PROVE  DataInv' /\ \A c \in Block : Bread(c)' = Bread(c)
<1> USE DEF disk, bufs, logv, local, hist
<1>1. pc[t] = "install"
  BY Zenon DEF Install
<1>2. /\ boot = "up" /\ \A u \in Thr : u # t => pc[u] \notin Commits
      /\ dhdr = lh /\ Distinct(lh) /\ Len(lh) \in Nat
      /\ \A i \in 1 .. Len(lh) : lh[i] \in Block /\ dlog[i] = Bread(lh[i])
      /\ tail \in 1 .. Len(lh)
      /\ \A i \in 1 .. tail - 1 : home[lh[i]] = dlog[i]
  BY <1>1, InstallFacts, Zenon
<1>3. /\ dlog' = dlog /\ dhdr' = dhdr /\ lh' = lh /\ boot' = boot
      /\ home' = [home EXCEPT ![lh[tail]] = dlog[tail]]
      /\ cache' = [cache EXCEPT ![lh[tail]] = dlog[tail]]
      /\ pins' = [pins EXCEPT ![lh[tail]] = @ - 1]
      /\ NextTail(t, "clearHead")
  BY Zenon DEF Install
<1>4. \A c \in Block : Bread(c)' = Bread(c)
  <2> TAKE c \in Block
  <2>1. CASE c = lh[tail]
    <3>1. home'[c] = dlog[tail] /\ cache'[c] = dlog[tail] /\ dlog[tail] = Bread(c)
      BY <1>2, <1>3, <2>1, Zenon DEF TypeInv
    <3>2. Bread(c)' = dlog[tail]
      BY <3>1, Zenon DEF Bread
    <3> QED
      BY <3>1, <3>2, Zenon
  <2>2. CASE c # lh[tail]
    BY <1>3, <2>2, Zenon DEF Bread, TypeInv
  <2> QED
    BY <2>1, <2>2, Zenon
<1>5. \A i \in 1 .. tail : home'[lh[i]] = dlog[i]
  <2>1. \A i \in 1 .. tail - 1 : lh[i] # lh[tail] /\ lh[i] \in Block
    BY <1>2, SMTT(30) DEF Distinct
  <2>2. \A i \in 1 .. tail - 1 : home'[lh[i]] = home[lh[i]]
    BY <1>3, <2>1, Zenon DEF TypeInv
  <2>3. home'[lh[tail]] = dlog[tail]
    BY <1>2, <1>3, Zenon DEF TypeInv
  <2> QED
    BY <1>2, <2>2, <2>3, SMTT(30)
<1>6. \A c \in Block : pins'[c] = IF \E i \in tail + 1 .. Len(lh) : lh[i] = c THEN 1 ELSE 0
  <2> TAKE c \in Block
  <2>1. pins[c] = IF \E i \in tail .. Len(lh) : lh[i] = c THEN 1 ELSE 0
    BY <1>1, <1>2, Zenon DEF DataInv, PinInv
  <2>2. CASE c = lh[tail]
    <3>1. pins'[c] = pins[c] - 1
      BY <1>3, <2>2, Zenon DEF TypeInv
    <3>2. pins[c] = 1
      BY <1>2, <2>1, <2>2, SMTT(30)
    <3>3. ~ \E i \in tail + 1 .. Len(lh) : lh[i] = c
      BY <1>2, <2>2, SMTT(30) DEF Distinct
    <3> QED
      BY <3>1, <3>2, <3>3, SMTT(30)
  <2>3. CASE c # lh[tail]
    <3>1. pins'[c] = pins[c]
      BY <1>3, <2>3, Zenon DEF TypeInv
    <3>2. (\E i \in tail .. Len(lh) : lh[i] = c) <=> \E i \in tail + 1 .. Len(lh) : lh[i] = c
      BY <1>2, <2>3, SMTT(30)
    <3> QED
      BY <2>1, <3>1, <3>2, Zenon
  <2> QED
    BY <2>2, <2>3, Zenon
<1>7. (\A u \in Thr : u # t => pc[u] \notin Commits)' /\ (pc[t] \in {"install", "clearHead"})'
  BY <1>1, <1>2, <1>3, Zenon DEF NextTail, TypeInv
<1>8. (pc'[t] = "install" => tail' = tail + 1) /\ (pc'[t] = "clearHead" => tail = Len(lh))
  BY <1>1, <1>2, <1>3, Zenon DEF NextTail, TypeInv
<1>9. Copied(Len(lh))'
  <2>1. \A i \in 1 .. Len(lh) : Bread(lh[i])' = Bread(lh[i])
    <3> TAKE i \in 1 .. Len(lh)
    <3>1. lh[i] \in Block /\ lh'[i] = lh[i]
      BY <1>2, <1>3, Zenon
    <3>2. \A c \in Block : (IF cache'[c] = None THEN home'[c] ELSE cache'[c]) = Bread(c)
      BY <1>4, Zenon DEF Bread
    <3> QED
      BY <3>1, <3>2, Zenon DEF Bread
  <2> QED
    BY <1>2, <1>3, <2>1, Zenon DEF Copied
<1>10. (pc'[t] = "install" => Installed(tail - 1)') /\ (pc'[t] = "clearHead" => Installed(Len(lh))')
  BY <1>2, <1>3, <1>5, <1>8, SMTT(30) DEF Installed
<1>11. UpInv'
  <2>1. (\A b \in Block : b \notin Logged => Bread(b) = home[b])'
    <3>1. \A b \in Block : b \notin Logged => b # lh[tail] /\ Bread(b) = home[b]
      BY <1>2, Zenon DEF DataInv, UpInv, Logged
    <3>2. Logged' = Logged
      BY <1>3, Zenon DEF Logged
    <3> QED
      BY <1>3, <1>4, <3>1, <3>2, Zenon DEF TypeInv
  <2> QED
    BY <1>2, <1>3, <1>7, <1>9, <1>10, <2>1, Zenon DEF UpInv, Commits
<1>12. PinInv'
  <2>1. CASE pc'[t] = "install"
    BY <1>3, <1>6, <1>7, <1>8, <2>1, Zenon DEF PinInv, Commits
  <2>2. CASE pc'[t] = "clearHead"
    <3>1. \A c \in Block : pins'[c] = 0
      BY <1>2, <1>6, <1>8, <2>2, SMTT(30)
    <3> QED
      BY <1>7, <2>2, <3>1, Zenon DEF PinInv, Commits
  <2> QED
    BY <1>7, <2>1, <2>2, Zenon
<1> QED
  BY <1>2, <1>3, <1>4, <1>11, <1>12, SMTT(30) DEF DataInv, Distinct

\* When the whole transaction is installed, every block is at home.
LEMMA AllAtHome ==
  ASSUME TypeInv, CommitInv, DataInv, NEW t \in Thr, pc[t] = "clearHead"
  PROVE  /\ boot = "up" /\ dhdr = lh /\ \A u \in Thr : u # t => pc[u] \notin Commits
         /\ \A b \in Block : Bread(b) = home[b] /\ pins[b] = 0
         /\ \A i \in 1 .. Len(lh) : home[lh[i]] = dlog[i]
<1>1. pc[t] \in Commits
  BY Zenon DEF Commits
<1>2. boot = "up" /\ \A u \in Thr : u # t => pc[u] \notin Commits
  BY <1>1, AloneInCommit, Zenon
<1>3. dhdr = lh /\ Copied(Len(lh)) /\ Installed(Len(lh))
  BY <1>2, Zenon DEF DataInv, UpInv
<1>4. \A b \in Block : Bread(b) = home[b]
  BY <1>2, <1>3, SMTT(30) DEF DataInv, UpInv, Logged, Copied, Installed
<1> QED
  BY <1>2, <1>3, <1>4, Zenon DEF DataInv, PinInv, Installed

\* The header is erased when nothing depends on it.
LEMMA ClearHeadData ==
  ASSUME TypeInv, CommitInv, TailInv, DataInv, NEW t \in Thr, ClearHead(t)
  PROVE  DataInv'
<1> USE DEF disk, bufs, logv, local, hist
<1>1. pc[t] = "clearHead"
  BY Zenon DEF ClearHead
<1>2. /\ boot = "up" /\ \A u \in Thr : u # t => pc[u] \notin Commits
      /\ \A b \in Block : Bread(b) = home[b] /\ pins[b] = 0
  BY <1>1, AllAtHome, Zenon
<1>3. /\ home' = home /\ cache' = cache /\ pins' = pins /\ lh' = <<>> /\ dhdr' = <<>> /\ boot' = boot
  BY Zenon DEF ClearHead
<1>4. (\A u \in Thr : u # t => pc[u] \notin Commits)' /\ (pc[t] = "commitDone")'
  BY <1>2, Zenon DEF ClearHead, TypeInv
<1>5. \A b \in Block : Bread(b)' = home'[b]
  BY <1>2, <1>3, Zenon DEF Bread
<1>6. UpInv'
  BY <1>3, <1>4, <1>5, Zenon DEF UpInv, Commits
<1>7. PinInv'
  BY <1>2, <1>3, <1>4, SMTT(30) DEF PinInv, Commits
<1> QED
  BY <1>2, <1>3, <1>6, <1>7, SMTT(30) DEF DataInv, Distinct

\* A buffer that nobody pins holds what the disk holds.
LEMMA UnpinnedClean ==
  ASSUME TypeInv, CommitInv, TailInv, DataInv, boot = "up", NEW b \in Block, pins[b] = 0
  PROVE  Bread(b) = home[b]
<1>1. CASE b \notin Logged
  BY <1>1, Zenon DEF DataInv, UpInv
<1>2. CASE b \in Logged
  <2>1. PICK i \in 1 .. Len(lh) : lh[i] = b
    BY <1>2, Zenon DEF Logged
  <2>2. ~ \A t \in Thr : pc[t] \notin {"install", "clearHead"}
    BY <2>1, SMTT(30) DEF DataInv, PinInv
  <2>3. PICK t \in Thr : pc[t] \in {"install", "clearHead"}
    BY <2>2, Zenon
  <2>4. CASE pc[t] = "install"
    <3>1. /\ tail \in 1 .. Len(lh) /\ Len(lh) \in Nat
          /\ dlog[i] = Bread(lh[i])
          /\ \A j \in 1 .. tail - 1 : home[lh[j]] = dlog[j]
      BY <2>4, InstallFacts, Zenon
    <3>2. ~ \E j \in tail .. Len(lh) : lh[j] = b
      BY <2>4, SMTT(30) DEF DataInv, PinInv
    <3> QED
      BY <2>1, <3>1, <3>2, SMTT(30)
  <2>5. CASE pc[t] = "clearHead"
    BY <2>5, AllAtHome, Zenon
  <2> QED
    BY <2>3, <2>4, <2>5, Zenon
<1> QED
  BY <1>1, <1>2, Zenon

\* Loading and recycling a buffer does not change what bread() returns.
LEMMA LoadEvictBread ==
  ASSUME TypeInv, CommitInv, TailInv, DataInv, NEW b \in Block, Load(b) \/ Evict(b)
  PROVE  \A c \in Block : Bread(c)' = Bread(c)
<1> USE DEF disk, bufs, logv, local, hist
<1>1. boot = "up" /\ home' = home
  BY Zenon DEF Load, Evict
<1> TAKE c \in Block
<1>2. CASE c # b
  BY <1>1, <1>2, Zenon DEF Load, Evict, Bread, TypeInv
<1>3. CASE c = b /\ Load(b)
  BY <1>1, <1>3, Zenon DEF Load, Bread, TypeInv
<1>4. CASE c = b /\ Evict(b)
  <2>1. Bread(b) = home[b]
    BY <1>1, <1>4, UnpinnedClean, Zenon DEF Evict
  <2>2. Bread(b)' = home[b]
    BY <1>1, <1>4, Zenon DEF Evict, Bread, TypeInv
  <2> QED
    BY <1>4, <2>1, <2>2, Zenon
<1> QED
  BY <1>2, <1>3, <1>4, Zenon

\* Recovery brings the committed transaction home, entry by entry.
LEMMA RecoveryData ==
  ASSUME TypeInv, CommitInv, TailInv, DataInv, Recovery
  PROVE  DataInv'
<1> USE DEF disk, bufs, logv, local, hist
<1>1. boot # "up" /\ pc' = pc /\ \A t \in Thr : pc[t] = "idle"
  BY Zenon DEF Recovery, ReadHead, RecoverInstall, RecoverClear, CommitInv
<1>2. BootInv /\ Distinct(lh) /\ Distinct(dhdr)
  BY <1>1, Zenon DEF DataInv
<1>3. CASE ReadHead
  <2>1. /\ home' = home /\ dlog' = dlog /\ dhdr' = dhdr /\ cache' = cache /\ pins' = pins
        /\ lh' = dhdr /\ tail' = 1 /\ boot' # "up" /\ boot' # "readHead"
        /\ boot' = "clear" => dhdr = <<>>
    BY <1>3, Zenon DEF ReadHead
  <2>2. \A b \in Block : Bread(b)' = home'[b] /\ pins'[b] = 0
    BY <1>2, <2>1, Zenon DEF BootInv, Bread
  <2>3. BootInv'
    BY <2>1, <2>2, SMTT(30) DEF BootInv, Installed
  <2> QED
    BY <1>2, <2>1, <2>3, SMTT(30) DEF DataInv, Distinct
<1>4. CASE RecoverInstall
  <2>1. /\ dlog' = dlog /\ dhdr' = dhdr /\ pins' = pins /\ lh' = lh
        /\ home' = [home EXCEPT ![lh[tail]] = dlog[tail]]
        /\ cache' = [cache EXCEPT ![lh[tail]] = dlog[tail]]
    BY <1>4, Zenon DEF RecoverInstall
  <2>2. boot = "install" /\ tail \in 1 .. Len(lh) /\ Len(lh) \in Nat /\ lh = dhdr
    BY <1>2, <1>4, SMTT(30) DEF RecoverInstall, TailInv, TypeInv, BootInv
  <2>3. \A i \in 1 .. Len(lh) : lh[i] \in Block
    BY SMTT(30) DEF TypeInv
  <2>4. \A b \in Block : Bread(b)' = home'[b] /\ pins'[b] = 0
    <3> TAKE b \in Block
    <3>1. CASE b = lh[tail]
      <4>1. home'[b] = dlog[tail] /\ cache'[b] = dlog[tail]
        BY <2>1, <3>1, Zenon DEF TypeInv
      <4> QED
        BY <1>2, <2>1, <4>1, Zenon DEF BootInv, Bread
    <3>2. CASE b # lh[tail]
      BY <1>2, <2>1, <3>2, Zenon DEF BootInv, Bread, TypeInv
    <3> QED
      BY <3>1, <3>2, Zenon
  <2>5. \A i \in 1 .. tail : home'[lh[i]] = dlog[i]
    <3>1. \A i \in 1 .. tail - 1 : lh[i] # lh[tail] /\ lh[i] \in Block
      BY <1>2, <2>2, <2>3, SMTT(30) DEF Distinct
    <3>2. \A i \in 1 .. tail - 1 : home'[lh[i]] = home[lh[i]]
      BY <2>1, <3>1, Zenon DEF TypeInv
    <3>3. \A i \in 1 .. tail - 1 : home[lh[i]] = dlog[i]
      BY <1>2, <2>2, Zenon DEF BootInv, Installed
    <3>4. home'[lh[tail]] = dlog[tail]
      BY <2>1, <2>2, <2>3, Zenon DEF TypeInv
    <3> QED
      BY <2>2, <3>2, <3>3, <3>4, SMTT(30)
  <2>6. \/ boot' = "install" /\ tail' = tail + 1
        \/ boot' = "clear" /\ tail = Len(lh)
    BY <1>4, <2>2, SMTT(30) DEF RecoverInstall
  <2>7. BootInv'
    BY <2>1, <2>2, <2>4, <2>5, <2>6, SMTT(30) DEF BootInv, Installed
  <2> QED
    BY <1>2, <2>1, <2>6, <2>7, Zenon DEF DataInv, Distinct
<1>5. CASE RecoverClear
  <2>1. home' = home /\ cache' = cache /\ pins' = pins /\ lh' = <<>> /\ dhdr' = <<>> /\ boot' = "up"
    BY <1>5, Zenon DEF RecoverClear
  <2>2. \A b \in Block : Bread(b)' = home'[b] /\ pins'[b] = 0
    BY <1>2, <2>1, Zenon DEF BootInv, Bread
  <2>3. UpInv' /\ PinInv'
    BY <1>1, <2>1, <2>2, SMTT(30) DEF UpInv, PinInv
  <2> QED
    BY <2>1, <2>3, SMTT(30) DEF DataInv, Distinct
<1> QED
  BY <1>3, <1>4, <1>5, Zenon DEF Recovery

\* Every step preserves DataInv.
LEMMA NextDataInv ==
  ASSUME TypeInv, CommitInv, TailInv, DataInv, [Next]_vars
  PROVE  DataInv'
<1> USE DEF disk, bufs, logv, local, hist
<1>1. ASSUME NEW t \in Thr, Quiet(t) PROVE DataInv'
  <2>1. /\ home' = home /\ dlog' = dlog /\ dhdr' = dhdr
        /\ cache' = cache /\ pins' = pins /\ lh' = lh /\ tail' = tail /\ boot' = boot
        /\ \A u \in Thr : pc'[u] \in Commits => pc'[u] = pc[u]
        /\ \A u \in Thr : pc[u] \in Commits \ {"commitDone"} => pc'[u] = pc[u]
    BY <1>1, QuietFacts, Zenon
  <2>2. \A b \in Block : Bread(b)' = Bread(b)
    BY <2>1, Zenon DEF Bread
  <2> QED
    BY <2>1, <2>2, SameData, Zenon
<1>2. ASSUME NEW b \in Block, Load(b) \/ Evict(b) PROVE DataInv'
  <2>1. \A c \in Block : Bread(c)' = Bread(c)
    BY <1>2, LoadEvictBread, Zenon
  <2> QED
    BY <1>2, <2>1, SameData, Zenon DEF Load, Evict
<1>3. CASE Crash
  <2>1. /\ dhdr' = dhdr /\ lh' = <<>> /\ boot' = "readHead"
        /\ cache' = [b \in Block |-> None] /\ pins' = [b \in Block |-> 0]
    BY <1>3, Zenon DEF Crash
  <2>2. \A b \in Block : Bread(b)' = home'[b] /\ pins'[b] = 0
    BY <2>1, Zenon DEF Bread
  <2> QED
    BY <2>1, <2>2, SMTT(30) DEF DataInv, BootInv, Distinct
<1>4. CASE UNCHANGED vars
  <2>1. \A b \in Block : Bread(b)' = Bread(b)
    BY <1>4, Zenon DEF vars, Bread
  <2> QED
    BY <1>4, <2>1, SameData, Zenon DEF vars
<1> QED
  BY <1>1, <1>2, <1>3, <1>4, EndOpLastData, LogWriteData, WriteLogData, WriteHeadData,
     InstallData, ClearHeadData, RecoveryData, Zenon DEF Next, Step, Quiet

\* The inductive invariant.
LogInv == TypeInv /\ CommitInv /\ TailInv /\ DataInv

\* The inductive invariant of the log holds in every reachable state: one commit
\* at a time, and at each point of it the log, the header, the home locations and
\* the cache are what log.c relies on, whatever crashed before.
THEOREM LogInvariant == Spec => []LogInv
<1>1. Init => LogInv
  BY InitTypeInv, InitCommitInv, InitDataInv, Zenon DEF LogInv
<1>2. LogInv /\ [Next]_vars => LogInv'
  BY NextTypeInv, NextCommitInv, NextTailInv, NextDataInv, Zenon DEF LogInv
<1> QED
  BY <1>1, <1>2, PTL DEF Spec

\* No operation is active while a commit runs, and log.outstanding counts the
\* active ones: end_op() never panics and commit() never sees half an operation.
THEOREM CommitAlone == Spec => []NoOpDuringCommit
<1>1. LogInv => NoOpDuringCommit
  <2> SUFFICES ASSUME LogInv PROVE NoOpDuringCommit
    BY Zenon
  <2>1. outstanding = Cardinality(Ops) /\ (committing => Ops = {})
    BY Zenon DEF LogInv, CommitInv
  <2>2. Ops = {} => Cardinality(Ops) = 0
    BY FS_EmptySet, Zenon
  <2> QED
    BY <2>1, <2>2, Zenon DEF NoOpDuringCommit, Ops
<1> QED
  BY <1>1, LogInvariant, PTL

\* Exactly the blocks of the transaction that are not yet installed are pinned,
\* each once: log_write() and install_trans() balance bpin() and bunpin().
THEOREM PinsAreBalanced == Spec => []PinsBalanced
<1>1. LogInv => PinsBalanced
  <2> SUFFICES ASSUME LogInv, boot = "up", NEW b \in Block
               PROVE  pins[b] = IF b \in Logged \ {lh[i] : i \in 1 .. (IF \E t \in Thr : pc[t] = "install" THEN tail - 1
                                        ELSE IF \E t \in Thr : pc[t] = "clearHead" THEN Len(lh)
                                        ELSE 0)} THEN 1 ELSE 0
    BY Zenon DEF PinsBalanced
  <2> USE DEF LogInv
  <2>1. CASE \E t \in Thr : pc[t] = "install"
    <3>1. PICK t \in Thr : pc[t] = "install"
      BY <2>1, Zenon
    <3>2. tail \in 1 .. Len(lh) /\ Len(lh) \in Nat /\ Distinct(lh)
      BY <3>1, InstallFacts, Zenon
    <3>3. pins[b] = IF \E i \in tail .. Len(lh) : lh[i] = b THEN 1 ELSE 0
      BY <3>1, Zenon DEF DataInv, PinInv
    <3>4. (\E i \in tail .. Len(lh) : lh[i] = b) <=> b \in Logged \ {lh[i] : i \in 1 .. tail - 1}
      BY <3>2, SMTT(30) DEF Distinct, Logged
    <3> QED
      BY <2>1, <3>3, <3>4, Zenon
  <2>2. CASE (~ \E t \in Thr : pc[t] = "install") /\ \E t \in Thr : pc[t] = "clearHead"
    BY <2>2, Zenon DEF DataInv, PinInv, Logged
  <2>3. CASE ~ \E t \in Thr : pc[t] \in {"install", "clearHead"}
    BY <2>3, SMTT(30) DEF DataInv, PinInv, Logged
  <2> QED
    BY <2>1, <2>2, <2>3, Zenon
<1> QED
  BY <1>1, LogInvariant, PTL

-----------------------------------------------------------------------------
(* sync().                                                                   *)

\* A step that leaves what sync() waits for alone, and moves nobody past the
\* commit point.
LEMMA SameSync ==
  ASSUME SyncInv, owed' = owed, pending' = pending, ncommit' = ncommit, target' = target,
         outstanding' = outstanding, committing' = committing,
         \A u \in Thr : pc'[u] \in {"install", "clearHead", "commitDone"} =>
                          pc[u] \in {"install", "clearHead", "commitDone"}
  PROVE  SyncInv'
  BY Zenon DEF SyncInv

\* Every step of a process preserves SyncInv.
LEMMA StepSyncInv ==
  ASSUME TypeInv, CommitInv, SyncInv, NEW t \in Thr, Step(t)
  PROVE  SyncInv'
<1> USE DEF disk, bufs, logv, local, hist
<1> DEFINE Past == {"install", "clearHead", "commitDone"}
<1>a. \A u \in Thr : pc[u] \in Label
  BY Zenon DEF TypeInv
<1>b. \A u \in Thr : pc[u] \in Past => pc[u] \in Commits
  BY Zenon DEF Commits
<1>1. CASE BeginOp(t)
  <2>1. \A u \in Thr : pc'[u] \in Past => pc[u] \in Past
    BY <1>1, Zenon DEF BeginOp, TypeInv
  <2>2. outstanding' # 0
    BY <1>1, SMTT(30) DEF BeginOp, TypeInv
  <2> QED
    BY <1>1, <2>1, <2>2, Zenon DEF BeginOp, SyncInv
<1>2. CASE BeginSleep(t)
  <2>1. \A u \in Thr : pc'[u] \in Past => pc[u] \in Past
    BY <1>2, Zenon DEF BeginSleep, TypeInv
  <2> QED
    BY <1>2, <2>1, SameSync, Zenon DEF BeginSleep
<1>3. CASE EndOp(t)
  <2>1. \A u \in Thr : pc[u] \notin Commits
    BY <1>3, NoCommitInOp, Zenon DEF EndOp
  <2>2. \A u \in Thr : pc'[u] = IF u = t THEN "idle" ELSE Woken(pc[u])
    BY <1>3, Zenon DEF EndOp
  <2>3. \A u \in Thr : pc'[u] \notin Past
    <3>1. "idle" \notin Past /\ \A l \in Past : l \in Commits
      BY Zenon DEF Commits
    <3> QED
      BY <1>a, <2>1, <2>2, <3>1, WokenFacts, SMTT(30)
  <2>4. outstanding' # 0
    BY <1>3, SMTT(30) DEF EndOp, TypeInv
  <2> QED
    BY <1>3, <2>3, <2>4, Zenon DEF EndOp, SyncInv
<1>4. CASE EndOpLast(t)
  <2>1. \A u \in Thr : pc[u] \notin Commits
    BY <1>4, NoCommitInOp, Zenon DEF EndOpLast
  <2>2. ncommit' = ncommit /\ target' = target /\ committing'
    BY <1>4, Zenon DEF EndOpLast
  <2>3. CASE pc' = [pc EXCEPT ![t] = "writeLog"] /\ owed' = owed
    <3>1. \A u \in Thr : pc'[u] \notin Past
      BY <1>b, <2>1, <2>3, Zenon DEF TypeInv
    <3> QED
      BY <2>2, <2>3, <3>1, Zenon DEF SyncInv
  <2>4. CASE Durable
    BY <2>2, <2>4, Zenon DEF SyncInv, Durable
  <2> QED
    BY <1>4, <2>3, <2>4, Zenon DEF EndOpLast
<1>5. CASE WriteLog(t)
  <2>1. \A u \in Thr : pc'[u] \in Past => pc[u] \in Past
    BY <1>5, Zenon DEF WriteLog, NextTail, TypeInv
  <2> QED
    BY <1>5, <2>1, SameSync, Zenon DEF WriteLog
<1>6. CASE WriteHead(t)
  BY <1>6, Zenon DEF WriteHead, Durable, SyncInv
<1>7. CASE Install(t)
  <2>1. \A u \in Thr : pc'[u] \in Past => pc[u] \in Past
    BY <1>7, Zenon DEF Install, NextTail, TypeInv
  <2> QED
    BY <1>7, <2>1, SameSync, Zenon DEF Install
<1>8. CASE ClearHead(t)
  <2>1. \A u \in Thr : pc'[u] \in Past => pc[u] \in Past
    BY <1>8, Zenon DEF ClearHead, TypeInv
  <2> QED
    BY <1>8, <2>1, SameSync, Zenon DEF ClearHead
<1>9. CASE CommitDone(t)
  <2>1. ~pending /\ \A u \in Thr : ~owed[u]
    BY <1>9, Zenon DEF CommitDone, SyncInv
  <2> QED
    BY <1>9, <2>1, Zenon DEF CommitDone, SyncInv
<1>10. CASE SyncCall(t)
  <2>1. \A u \in Thr : pc'[u] \in Past => pc[u] \in Past
    BY <1>10, Zenon DEF SyncCall, TypeInv
  <2>2. \A u \in Thr : u # t => target'[u] = target[u] /\ owed'[u] = owed[u]
    BY <1>10, Zenon DEF SyncCall, TypeInv
  <2>3. target'[t] = ncommit + 1 /\ owed'[t] = pending
    BY <1>10, Zenon DEF SyncCall, TypeInv
  <2>4. ncommit' = ncommit /\ pending' = pending /\ committing' = committing /\ outstanding' = outstanding
    BY <1>10, Zenon DEF SyncCall
  <2>5. ncommit < ncommit + 1
    BY SMTT(30) DEF TypeInv
  <2>6. \A u \in Thr : owed'[u] => ncommit' < target'[u]
    BY <2>2, <2>3, <2>4, <2>5, Zenon DEF SyncInv
  <2>7. (\E u \in Thr : pc'[u] \in Past) => ~pending' /\ \A u \in Thr : ~owed'[u]
    BY <2>1, <2>2, <2>3, <2>4, Zenon DEF SyncInv
  <2> QED
    BY <2>4, <2>6, <2>7, Zenon DEF SyncInv
<1>11. CASE SyncAgain(t)
  <2>1. \A u \in Thr : pc'[u] \in Past => pc[u] \in Past
    BY <1>11, Zenon DEF SyncAgain, TypeInv
  <2> QED
    BY <1>11, <2>1, SameSync, Zenon DEF SyncAgain
<1>12. CASE SyncReturn(t)
  <2>1. \A u \in Thr : pc'[u] \in Past => pc[u] \in Past
    BY <1>12, Zenon DEF SyncReturn, TypeInv
  <2>2. \A u \in Thr : u # t => target'[u] = target[u] /\ owed'[u] = owed[u]
    BY <1>12, Zenon DEF SyncReturn, TypeInv
  <2>3. ~owed'[t]
    BY <1>12, Zenon DEF SyncReturn, TypeInv
  <2>4. ncommit' = ncommit /\ pending' = pending /\ committing' = committing /\ outstanding' = outstanding
    BY <1>12, Zenon DEF SyncReturn
  <2>5. \A u \in Thr : owed'[u] => ncommit' < target'[u]
    BY <2>2, <2>3, <2>4, Zenon DEF SyncInv
  <2>6. (\E u \in Thr : pc'[u] \in Past) => ~pending' /\ \A u \in Thr : ~owed'[u]
    BY <2>1, <2>2, <2>3, <2>4, Zenon DEF SyncInv
  <2> QED
    BY <2>4, <2>5, <2>6, Zenon DEF SyncInv
<1>13. ASSUME NEW b \in Block, NEW v \in Val, LogWrite(t, b, v)
       PROVE  SyncInv'
  BY <1>13, SameSync, Zenon DEF LogWrite
<1> QED
  BY <1>1, <1>2, <1>3, <1>4, <1>5, <1>6, <1>7, <1>8, <1>9, <1>10, <1>11, <1>12, <1>13,
     Zenon
  DEF Step

\* When sync() returns, everything that had ended before it was called is on
\* disk, and when it finds nothing active, nothing was left to commit.
THEOREM SyncIsDurable == Spec => []SyncDurable
<1> USE DEF disk, bufs, logv, local, hist
<1>1. Init => SyncInv
  BY Zenon DEF Init, SyncInv
<1>2. LogInv /\ SyncInv /\ [Next]_vars => SyncInv'
  <2> SUFFICES ASSUME LogInv, SyncInv, [Next]_vars PROVE SyncInv'
    BY Zenon
  <2>1. ASSUME NEW b \in Block, Load(b) \/ Evict(b) PROVE SyncInv'
    BY <2>1, SameSync, Zenon DEF Load, Evict
  <2>2. CASE Crash
    BY <2>2, Zenon DEF Crash, SyncInv
  <2>3. CASE Recovery
    BY <2>3, SameSync, Zenon DEF Recovery, ReadHead, RecoverInstall, RecoverClear
  <2>4. CASE UNCHANGED vars
    BY <2>4, SameSync, Zenon DEF vars
  <2> QED
    BY <2>1, <2>2, <2>3, <2>4, StepSyncInv, Zenon DEF Next, LogInv
<1>3. LogInv /\ SyncInv => SyncDurable
  BY SMTT(30) DEF SyncInv, SyncDurable, LogInv, TypeInv
<1> QED
  BY <1>1, <1>2, <1>3, LogInvariant, PTL DEF Spec

-----------------------------------------------------------------------------
(* The log implements AtomicLog.                                             *)

\* What recovery makes of a block: the log's copy if the header names it.
LEMMA RecoveredAt ==
  ASSUME Distinct(dhdr), NEW b \in Block
  PROVE  /\ \A i \in 1 .. Len(dhdr) : dhdr[i] = b => Recovered[b] = dlog[i]
         /\ (\A i \in 1 .. Len(dhdr) : dhdr[i] # b) => Recovered[b] = home[b]
<1>1. ASSUME NEW i \in 1 .. Len(dhdr), dhdr[i] = b PROVE Recovered[b] = dlog[i]
  <2>1. (CHOOSE j \in 1 .. Len(dhdr) : dhdr[j] = b) = i
    BY <1>1, Zenon DEF Distinct
  <2> QED
    BY <1>1, <2>1, Zenon DEF Recovered
<1>2. ASSUME \A i \in 1 .. Len(dhdr) : dhdr[i] # b PROVE Recovered[b] = home[b]
  BY <1>2, Zenon DEF Recovered
<1> QED
  BY <1>1, <1>2, Zenon

\* The same in the next state.
LEMMA RecoveredAtNext ==
  ASSUME Distinct(dhdr)', NEW b \in Block
  PROVE  /\ \A i \in 1 .. Len(dhdr') : dhdr'[i] = b => Recovered'[b] = dlog'[i]
         /\ (\A i \in 1 .. Len(dhdr') : dhdr'[i] # b) => Recovered'[b] = home'[b]
<1>1. ASSUME NEW i \in 1 .. Len(dhdr'), dhdr'[i] = b PROVE Recovered'[b] = dlog'[i]
  <2>1. (CHOOSE j \in 1 .. Len(dhdr') : dhdr'[j] = b) = i
    BY <1>1, Zenon DEF Distinct
  <2> QED
    BY <1>1, <2>1, Zenon DEF Recovered
<1>2. ASSUME \A i \in 1 .. Len(dhdr') : dhdr'[i] # b PROVE Recovered'[b] = home'[b]
  BY <1>2, Zenon DEF Recovered
<1> QED
  BY <1>1, <1>2, Zenon

\* The images are equal when their blocks are.
LEMMA ImagesByBlock ==
  /\ (\A b \in Block : Recovered'[b] = Recovered[b]) => Recovered' = Recovered
  /\ (\A b \in Block : Image'[b] = Image[b]) => Image' = Image
  /\ (\A b \in Block : Recovered'[b] = Image[b]) => Recovered' = Image
  /\ (\A b \in Block : Image'[b] = Recovered[b]) => Image' = Recovered
  /\ \A b \in Block : Image[b] = IF boot = "up" THEN Bread(b) ELSE Recovered[b]
  /\ \A b \in Block : Image'[b] = IF boot' = "up" THEN Bread(b)' ELSE Recovered'[b]
  BY Zenon DEF Recovered, Image

\* A step that leaves the disk, what bread() returns and the operations alone.
LEMMA SameImages ==
  ASSUME home' = home, dlog' = dlog, dhdr' = dhdr, boot' = boot,
         \A b \in Block : Bread(b)' = Bread(b)
  PROVE  Recovered' = Recovered /\ Image' = Image
<1>1. Recovered' = Recovered
  BY Zenon DEF Recovered
<1> QED
  BY <1>1, ImagesByBlock, Zenon

\* write_log() changes no image: the header on disk is empty.
LEMMA WriteLogImages ==
  ASSUME LogInv, LogInv', NEW t \in Thr, WriteLog(t)
  PROVE  Recovered' = Recovered /\ Image' = Image
<1> USE DEF disk, bufs, logv, local, hist
<1>1. dhdr = <<>> /\ dhdr' = <<>> /\ home' = home /\ cache' = cache /\ boot' = boot
  BY HeaderEmpty, Zenon DEF WriteLog, LogInv
<1>2. \A b \in Block : Recovered'[b] = Recovered[b]
  BY <1>1, RecoveredAt, RecoveredAtNext, SMTT(30) DEF LogInv, DataInv
<1>3. \A b \in Block : Bread(b)' = Bread(b)
  BY <1>1, Zenon DEF Bread
<1> QED
  BY <1>1, <1>2, <1>3, ImagesByBlock, Zenon

\* write_head() makes the image that operations see the durable one.
LEMMA WriteHeadCommits ==
  ASSUME LogInv, LogInv', NEW t \in Thr, WriteHead(t)
  PROVE  Recovered' = Image /\ Image' = Image /\ Ops = {} /\ Ops' = {}
<1> USE DEF disk, bufs, logv, local, hist
<1>1. dhdr' = lh /\ home' = home /\ dlog' = dlog /\ cache' = cache /\ boot' = boot
  BY Zenon DEF WriteHead
<1>2. pc[t] = "writeHead" /\ pc[t] \in Commits
  BY Zenon DEF WriteHead, Commits
<1>3. boot = "up" /\ Ops = {}
  BY <1>2, AloneInCommit, Zenon DEF LogInv
<1>4. Copied(Len(lh)) /\ \A b \in Block : b \notin Logged => Bread(b) = home[b]
  BY <1>2, <1>3, Zenon DEF LogInv, DataInv, UpInv
<1>5. \A b \in Block : Recovered'[b] = Bread(b)
  <2> TAKE b \in Block
  <2>1. CASE b \in Logged
    <3>1. PICK i \in 1 .. Len(lh) : lh[i] = b
      BY <2>1, Zenon DEF Logged
    <3>2. Recovered'[b] = dlog'[i]
      BY <1>1, <3>1, RecoveredAtNext, Zenon DEF LogInv, DataInv
    <3> QED
      BY <1>1, <1>4, <3>1, <3>2, Zenon DEF Copied
  <2>2. CASE b \notin Logged
    <3>1. \A i \in 1 .. Len(lh) : lh[i] # b
      BY <2>2, Zenon DEF Logged
    <3>2. Recovered'[b] = home'[b]
      BY <1>1, <3>1, RecoveredAtNext, Zenon DEF LogInv, DataInv
    <3> QED
      BY <1>1, <1>4, <2>2, <3>2, Zenon
  <2> QED
    BY <2>1, <2>2, Zenon
<1>6. \A b \in Block : Bread(b)' = Bread(b)
  BY <1>1, Zenon DEF Bread
<1>7. Ops' = {}
  BY <1>3, Zenon DEF WriteHead, Ops, LogInv, TypeInv
<1> QED
  BY <1>1, <1>3, <1>5, <1>6, <1>7, ImagesByBlock, Zenon

\* install_trans() changes no image: the header covers what it overwrites.
LEMMA InstallImages ==
  ASSUME LogInv, LogInv', NEW t \in Thr, Install(t)
  PROVE  Recovered' = Recovered /\ Image' = Image
<1> USE DEF disk, bufs, logv, local, hist, LogInv
<1>1. /\ dhdr' = dhdr /\ dlog' = dlog /\ boot' = boot
      /\ home' = [home EXCEPT ![lh[tail]] = dlog[tail]]
  BY Zenon DEF Install
<1>2. dhdr = lh /\ tail \in 1 .. Len(lh)
  BY InstallFacts, Zenon DEF Install
<1>3. \A b \in Block : Recovered'[b] = Recovered[b]
  <2> TAKE b \in Block
  <2>1. CASE \E i \in 1 .. Len(dhdr) : dhdr[i] = b
    BY <1>1, <2>1, RecoveredAt, RecoveredAtNext, SMTT(30) DEF DataInv
  <2>2. CASE \A i \in 1 .. Len(dhdr) : dhdr[i] # b
    <3>1. home'[b] = home[b]
      BY <1>1, <1>2, <2>2, Zenon DEF TypeInv
    <3> QED
      BY <1>1, <2>2, <3>1, RecoveredAt, RecoveredAtNext, Zenon DEF DataInv
  <2> QED
    BY <2>1, <2>2, Zenon
<1>4. \A b \in Block : Bread(b)' = Bread(b)
  BY InstallData, Zenon
<1> QED
  BY <1>1, <1>3, <1>4, ImagesByBlock, Zenon

\* Erasing the header changes no image: every block of the transaction is home.
LEMMA ClearHeadImages ==
  ASSUME LogInv, LogInv', NEW t \in Thr, ClearHead(t)
  PROVE  Recovered' = Recovered /\ Image' = Image
<1> USE DEF disk, bufs, logv, local, hist, LogInv
<1>1. dhdr' = <<>> /\ home' = home /\ cache' = cache /\ boot' = boot
  BY Zenon DEF ClearHead
<1>2. dhdr = lh /\ \A i \in 1 .. Len(lh) : home[lh[i]] = dlog[i]
  BY AllAtHome, Zenon DEF ClearHead
<1>3. \A b \in Block : Recovered[b] = home[b]
  BY <1>2, RecoveredAt, Zenon DEF DataInv
<1>4. \A b \in Block : Recovered'[b] = home'[b]
  BY <1>1, RecoveredAtNext, SMTT(30) DEF DataInv
<1>5. \A b \in Block : Bread(b)' = Bread(b)
  BY <1>1, Zenon DEF Bread
<1> QED
  BY <1>1, <1>3, <1>4, <1>5, ImagesByBlock, Zenon

\* A crash, wherever it falls, leaves what recovery makes of the disk as it is:
\* a torn home block is covered by the header, a torn log block is not in it.
LEMMA CrashImages ==
  ASSUME LogInv, LogInv', Crash
  PROVE  Recovered' = Recovered /\ Image' = Recovered /\ Ops' = {}
<1> USE DEF disk, bufs, logv, local, hist, LogInv
<1>1. dhdr' = dhdr /\ boot' = "readHead"
  BY Zenon DEF Crash
<1>2. Ops' = {}
  BY Zenon DEF Crash, Ops
<1>3. \A b \in Block : (\A i \in 1 .. Len(dhdr) : dhdr[i] # b) => home'[b] = home[b]
  <2>1. CASE home' = home
    BY <2>1, Zenon
  <2>2. CASE /\ boot = "install" \/ \E t \in Thr : pc[t] = "install"
             /\ home' = [home EXCEPT ![lh[tail]] = Torn]
    <3>1. dhdr = lh /\ tail \in 1 .. Len(lh)
      <4>1. CASE boot = "install"
        BY <4>1, Zenon DEF DataInv, BootInv, TailInv
      <4>2. CASE \E t \in Thr : pc[t] = "install"
        BY <4>2, InstallFacts, Zenon
      <4> QED
        BY <2>2, <4>1, <4>2, Zenon
    <3> QED
      BY <2>2, <3>1, Zenon DEF TypeInv
  <2> QED
    BY <2>1, <2>2, Zenon DEF Crash
<1>4. dlog' = dlog \/ dhdr = <<>>
  <2>1. CASE \E t \in Thr : pc[t] = "writeLog"
    BY <2>1, HeaderEmpty, Zenon
  <2> QED
    BY <2>1, Zenon DEF Crash
<1>5. \A b \in Block : Recovered'[b] = Recovered[b]
  <2> TAKE b \in Block
  <2>1. CASE \E i \in 1 .. Len(dhdr) : dhdr[i] = b
    <3>1. dlog' = dlog
      BY <1>4, <2>1, SMTT(30)
    <3> QED
      BY <1>1, <2>1, <3>1, RecoveredAt, RecoveredAtNext, SMTT(30) DEF DataInv
  <2>2. CASE \A i \in 1 .. Len(dhdr) : dhdr[i] # b
    BY <1>1, <1>3, <2>2, RecoveredAt, RecoveredAtNext, Zenon DEF DataInv
  <2> QED
    BY <2>1, <2>2, Zenon
<1>6. Recovered' = Recovered
  BY <1>5, ImagesByBlock, Zenon
<1>7. \A b \in Block : Image'[b] = Recovered[b]
  BY <1>1, <1>6, ImagesByBlock, Zenon
<1> QED
  BY <1>2, <1>6, <1>7, ImagesByBlock, Zenon

\* Recovery changes no image, however often a crash interrupts it.
LEMMA RecoveryImages ==
  ASSUME LogInv, LogInv', Recovery
  PROVE  Recovered' = Recovered /\ Image' = Image /\ Ops' = Ops
<1> USE DEF disk, bufs, logv, local, hist, LogInv
<1>1. boot # "up" /\ pc' = pc
  BY Zenon DEF Recovery, ReadHead, RecoverInstall, RecoverClear
<1>2. Ops' = Ops
  BY <1>1, Zenon DEF Ops
<1>3. BootInv
  BY <1>1, Zenon DEF DataInv
<1>4. CASE ReadHead
  <2>1. boot' # "up" /\ home' = home /\ dlog' = dlog /\ dhdr' = dhdr
    BY <1>4, Zenon DEF ReadHead
  <2>2. Recovered' = Recovered
    BY <2>1, Zenon DEF Recovered
  <2> QED
    BY <1>1, <1>2, <2>1, <2>2, ImagesByBlock, Zenon
<1>5. CASE RecoverInstall
  <2>1. /\ dhdr' = dhdr /\ dlog' = dlog /\ boot' # "up"
        /\ home' = [home EXCEPT ![lh[tail]] = dlog[tail]]
    BY <1>5, Zenon DEF RecoverInstall
  <2>2. dhdr = lh /\ tail \in 1 .. Len(lh)
    BY <1>3, <1>5, Zenon DEF RecoverInstall, BootInv, TailInv
  <2>3. \A b \in Block : Recovered'[b] = Recovered[b]
    <3> TAKE b \in Block
    <3>1. CASE \E i \in 1 .. Len(dhdr) : dhdr[i] = b
      BY <2>1, <3>1, RecoveredAt, RecoveredAtNext, SMTT(30) DEF DataInv
    <3>2. CASE \A i \in 1 .. Len(dhdr) : dhdr[i] # b
      <4>1. home'[b] = home[b]
        BY <2>1, <2>2, <3>2, Zenon DEF TypeInv
      <4> QED
        BY <2>1, <3>2, <4>1, RecoveredAt, RecoveredAtNext, Zenon DEF DataInv
    <3> QED
      BY <3>1, <3>2, Zenon
  <2> QED
    BY <1>1, <1>2, <2>1, <2>3, ImagesByBlock, Zenon
<1>6. CASE RecoverClear
  <2>1. dhdr' = <<>> /\ home' = home /\ cache' = cache /\ boot' = "up"
    BY <1>6, Zenon DEF RecoverClear
  <2>2. dhdr = lh /\ \A i \in 1 .. Len(lh) : home[lh[i]] = dlog[i]
    BY <1>3, <1>6, Zenon DEF RecoverClear, BootInv, Installed
  <2>3. \A b \in Block : Recovered[b] = home[b]
    BY <2>2, RecoveredAt, Zenon DEF DataInv
  <2>4. \A b \in Block : Recovered'[b] = home'[b]
    BY <2>1, RecoveredAtNext, SMTT(30) DEF DataInv
  <2>5. \A b \in Block : Bread(b)' = home[b]
    BY <1>3, <2>1, Zenon DEF BootInv, Bread
  <2> QED
    BY <1>1, <1>2, <2>1, <2>3, <2>4, <2>5, ImagesByBlock, Zenon
<1> QED
  BY <1>4, <1>5, <1>6, Zenon DEF Recovery

\* log_write() changes one block of the image operations see.
LEMMA LogWriteImages ==
  ASSUME LogInv, NEW t \in Thr, NEW b \in Block, NEW v \in Val, LogWrite(t, b, v)
  PROVE  Recovered' = Recovered /\ Image' = [Image EXCEPT ![b] = v]
<1> USE DEF disk, bufs, logv, local, hist, LogInv
<1>1. boot = "up" /\ boot' = "up"
  BY NoCommitInOp, Zenon DEF LogWrite
<1>2. home' = home /\ dlog' = dlog /\ dhdr' = dhdr /\ cache' = [cache EXCEPT ![b] = v]
  BY Zenon DEF LogWrite
<1>3. Recovered' = Recovered
  BY <1>2, Zenon DEF Recovered
<1>4. \A c \in Block : Bread(c)' = IF c = b THEN v ELSE Bread(c)
  BY <1>2, ValAssumption, Zenon DEF Bread, TypeInv
<1>5. \A c \in Block : Image'[c] = IF c = b THEN v ELSE Image[c]
  BY <1>1, <1>4, ImagesByBlock, Zenon
<1>6. Image' = [c \in Block |-> Image'[c]] /\ Image = [c \in Block |-> Image[c]]
  BY Zenon DEF Image
<1> QED
  BY <1>3, <1>5, <1>6, Zenon

\* How the operations that are active change, step by step.
LEMMA OpsSteps ==
  ASSUME LogInv, NEW t \in Thr, Step(t)
  PROVE  \/ BeginOp(t) /\ t \notin Ops /\ Ops' = Ops \cup {t}
         \/ (EndOp(t) \/ EndOpLast(t)) /\ t \in Ops /\ Ops' = Ops \ {t}
         \/ (\E b \in Block, v \in Val : LogWrite(t, b, v)) /\ t \in Ops /\ Ops' = Ops
         \/ (Quiet(t) \/ WriteLog(t) \/ WriteHead(t) \/ Install(t) \/ ClearHead(t)) /\ Ops' = Ops
<1> USE DEF disk, bufs, logv, local, hist, LogInv
<1>a. \A u \in Thr : pc[u] \in Label
  BY Zenon DEF TypeInv
<1>1. CASE BeginOp(t)
  BY <1>1, Zenon DEF BeginOp, AtBegin, Ops, TypeInv
<1>2. CASE EndOp(t)
  <2>1. \A u \in Thr : pc'[u] = IF u = t THEN "idle" ELSE Woken(pc[u])
    BY <1>2, Zenon DEF EndOp
  <2>2. Ops' = Ops \ {t} /\ t \in Ops
    BY <1>2, <1>a, <2>1, WokenFacts, Zenon DEF EndOp, Ops
  <2> QED
    BY <1>2, <2>2, Zenon
<1>3. CASE EndOpLast(t)
  <2>1. Ops' = Ops \ {t} /\ t \in Ops
    BY <1>3, Zenon DEF EndOpLast, Ops, TypeInv
  <2> QED
    BY <1>3, <2>1, Zenon
<1>4. CASE CommitDone(t)
  <2>1. \A u \in Thr : pc'[u] = IF u = t THEN "idle" ELSE Woken(pc[u])
    BY <1>4, Zenon DEF CommitDone
  <2>2. Ops' = Ops
    BY <1>4, <1>a, <2>1, WokenFacts, Zenon DEF CommitDone, Ops
  <2> QED
    BY <1>4, <2>2, Zenon DEF Quiet
<1>5. CASE BeginSleep(t) \/ SyncCall(t) \/ SyncAgain(t) \/ SyncReturn(t)
  <2>1. Ops' = Ops
    BY <1>5, Zenon DEF BeginSleep, AtBegin, SyncCall, SyncAgain, SyncReturn, Ops, TypeInv
  <2> QED
    BY <1>5, <2>1, Zenon DEF Quiet
<1>6. CASE WriteLog(t) \/ Install(t)
  <2>1. Ops' = Ops
    BY <1>6, Zenon DEF WriteLog, Install, NextTail, Ops, TypeInv
  <2> QED
    BY <1>6, <2>1, Zenon
<1>7. CASE WriteHead(t) \/ ClearHead(t)
  <2>1. Ops' = Ops
    BY <1>7, Zenon DEF WriteHead, ClearHead, Ops, TypeInv
  <2> QED
    BY <1>7, <2>1, Zenon
<1>8. ASSUME NEW b \in Block, NEW v \in Val, LogWrite(t, b, v)
      PROVE  t \in Ops /\ Ops' = Ops
  BY <1>8, Zenon DEF LogWrite, Ops
<1> QED
  BY <1>1, <1>2, <1>3, <1>4, <1>5, <1>6, <1>7, <1>8, Zenon DEF Step

\* The log implements AtomicLog, for any number of processes, blocks and crashes:
\* write_head() is the commit, a crash falls back to the last one, and all other
\* disk writes are invisible.
THEOREM LogIsAtomic == Spec => AtomicSpec
<1> DEFINE open == {t \in Thr : pc[t] = "op"}
<1> USE DEF disk, bufs, logv, local, hist
<1>1. Init => Abstract!Init
  <2> SUFFICES ASSUME Init PROVE Abstract!Init
    BY Zenon
  <2>1. \A b \in Block : Recovered[b] = Zero
    BY SMTT(30) DEF Init, Recovered
  <2>2. \A b \in Block : Image[b] = Zero
    BY <2>1, Zenon DEF Init, Image
  <2>3. Image = [b \in Block |-> Zero] /\ Recovered = [b \in Block |-> Zero]
    BY <2>1, <2>2, SMTT(30) DEF Image, Recovered
  <2>4. open = {}
    BY Zenon DEF Init
  <2> QED
    BY <2>3, <2>4, Zenon DEF Abstract!Init
<1>2. LogInv /\ LogInv' /\ [Next]_vars => [Abstract!Next]_(Abstract!vars)
  <2> SUFFICES ASSUME LogInv, LogInv', [Next]_vars
               PROVE  Abstract!Next \/ UNCHANGED Abstract!vars
    BY Zenon
  <2>o. open = Ops /\ open' = Ops'
    BY Zenon DEF Ops
  <2> HIDE DEF open
  <2>1. ASSUME NEW t \in Thr, Step(t) PROVE Abstract!Next \/ UNCHANGED Abstract!vars
    <3>1. CASE Quiet(t) \/ EndOpLast(t)
      <4>1. /\ home' = home /\ dlog' = dlog /\ dhdr' = dhdr /\ cache' = cache /\ boot' = boot
        BY <3>1, QuietFacts, Zenon DEF EndOpLast, LogInv
      <4>2. Recovered' = Recovered /\ Image' = Image
        BY <4>1, SameImages, Zenon DEF Bread
      <4>3. CASE BeginOp(t) /\ t \notin Ops /\ Ops' = Ops \cup {t}
        <5>1. Abstract!Begin(t)
          BY <2>o, <4>2, <4>3, Zenon DEF Abstract!Begin, open
        <5> QED
          BY <5>1, Zenon DEF Abstract!Next
      <4>4. CASE t \in Ops /\ Ops' = Ops \ {t}
        <5>1. Abstract!End(t)
          BY <2>o, <4>2, <4>4, Zenon DEF Abstract!End, open
        <5> QED
          BY <5>1, Zenon DEF Abstract!Next
      <4>5. CASE Ops' = Ops
        BY <2>o, <4>2, <4>5, Zenon DEF Abstract!vars, open
      <4> QED
        BY <2>1, <4>3, <4>4, <4>5, OpsSteps, Zenon
    <3>2. CASE WriteLog(t) \/ Install(t) \/ ClearHead(t)
      <4>1. Recovered' = Recovered /\ Image' = Image
        BY <3>2, WriteLogImages, InstallImages, ClearHeadImages, Zenon
      <4>2. Ops' = Ops
        BY <3>2, Zenon DEF WriteLog, Install, ClearHead, NextTail, Ops, LogInv, TypeInv
      <4> QED
        BY <2>o, <4>1, <4>2, Zenon DEF Abstract!vars, open
    <3>3. CASE WriteHead(t)
      <4>1. Recovered' = Image /\ Image' = Image /\ Ops = {} /\ Ops' = {}
        BY <3>3, WriteHeadCommits, Zenon
      <4>2. Abstract!Commit
        BY <2>o, <4>1, Zenon DEF Abstract!Commit, open
      <4> QED
        BY <4>2, Zenon DEF Abstract!Next
    <3>4. ASSUME NEW b \in Block, NEW v \in Val, LogWrite(t, b, v)
          PROVE  Abstract!Next
      <4>1. Recovered' = Recovered /\ Image' = [Image EXCEPT ![b] = v]
        BY <3>4, LogWriteImages, Zenon
      <4>2. t \in Ops /\ Ops' = Ops
        BY <3>4, Zenon DEF LogWrite, Ops
      <4>3. Abstract!Write(t, b, v)
        BY <2>o, <4>1, <4>2, Zenon DEF Abstract!Write, open
      <4> QED
        BY <4>3, Zenon DEF Abstract!Next
    <3> QED
      BY <2>1, <3>1, <3>2, <3>3, <3>4, Zenon DEF Step, Quiet
  <2>2. ASSUME NEW b \in Block, Load(b) \/ Evict(b) PROVE UNCHANGED Abstract!vars
    <3>1. \A c \in Block : Bread(c)' = Bread(c)
      BY <2>2, LoadEvictBread, Zenon DEF LogInv
    <3>2. home' = home /\ dlog' = dlog /\ dhdr' = dhdr /\ boot' = boot /\ pc' = pc
      BY <2>2, Zenon DEF Load, Evict
    <3>3. Recovered' = Recovered /\ Image' = Image /\ Ops' = Ops
      BY <3>1, <3>2, SameImages, Zenon DEF Ops
    <3> QED
      BY <2>o, <3>3, Zenon DEF Abstract!vars, open
  <2>3. CASE Crash
    <3>1. Abstract!Crash
      BY <2>o, <2>3, CrashImages, Zenon DEF Abstract!Crash, open
    <3> QED
      BY <3>1, Zenon DEF Abstract!Next
  <2>4. CASE Recovery
    BY <2>o, <2>4, RecoveryImages, Zenon DEF Abstract!vars, open
  <2>5. CASE UNCHANGED vars
    <3>1. Recovered' = Recovered /\ Image' = Image /\ Ops' = Ops
      BY <2>5, Zenon DEF vars, Recovered, Image, Bread, Ops
    <3> QED
      BY <2>o, <3>1, Zenon DEF Abstract!vars, open
  <2> QED
    BY <2>1, <2>2, <2>3, <2>4, <2>5, Zenon DEF Next
<1> QED
  BY <1>1, <1>2, LogInvariant, PTL DEF Spec, AtomicSpec, Abstract!Spec

-----------------------------------------------------------------------------
(* The log never overflows: begin_op() reserves more than its operation can  *)
(* write, and a block costs the log no more than it costs the operation that *)
(* wrote it first.                                                           *)

\* The log writes of the active operations.
Charges == {x \in Thr \X Block : x[2] \in wrote[x[1]]}

\* An operation writes few blocks, all of them in the transaction, and what
\* begin_op() has reserved and log_write() has not yet used up fits in the log.
RoomInv ==
  /\ wrote \in [Thr -> SUBSET Block]
  /\ \A t \in Thr : IsFiniteSet(wrote[t]) /\ Cardinality(wrote[t]) <= OPBLOCKS
  /\ \A t \in Thr : \A b \in wrote[t] : b \in Logged
  /\ \A t \in Thr : pc[t] # "op" => wrote[t] = {}
  /\ IsFiniteSet(Charges)
  /\ Ops # {} => Len(lh) + outstanding * MAXOPBLOCKS <= LOGBLOCKS + Cardinality(Charges)

\* A step that neither writes nor admits nor ends an operation, and leaves the
\* transaction alone unless no operation is active.
LEMMA SameRoom ==
  ASSUME RoomInv, wrote' = wrote, outstanding' = outstanding,
         \A u \in Thr : pc'[u] = "op" <=> pc[u] = "op",
         lh' = lh \/ Ops = {}
  PROVE  RoomInv'
<1>1. Ops' = Ops
  BY Zenon DEF Ops
<1>2. Charges' = Charges
  BY Zenon DEF Charges
<1>3. CASE lh' = lh
  <2>1. Logged' = Logged
    BY <1>3, Zenon DEF Logged
  <2> QED
    BY <1>1, <1>2, <1>3, <2>1, Zenon DEF RoomInv
<1>4. CASE Ops = {}
  <2>1. \A u \in Thr : wrote[u] = {}
    BY <1>4, Zenon DEF RoomInv, Ops
  <2> QED
    BY <1>1, <1>2, <1>4, <2>1, Zenon DEF RoomInv
<1> QED
  BY <1>3, <1>4, Zenon

\* The operation that ends takes its charges along: at most what it reserved.
LEMMA EndOpRoom ==
  ASSUME TypeInv, CommitInv, RoomInv, NEW t \in Thr, EndOp(t)
  PROVE  RoomInv'
<1> DEFINE T == {t} \X wrote[t]
<1>1. /\ wrote' = [wrote EXCEPT ![t] = {}] /\ lh' = lh
      /\ outstanding' = outstanding - 1 /\ outstanding \in Nat /\ outstanding > 1
      /\ \A u \in Thr : pc'[u] = IF u = t THEN "idle" ELSE Woken(pc[u])
      /\ pc[t] = "op"
  BY Zenon DEF EndOp, TypeInv
<1>2. \A u \in Thr : u # t => (pc'[u] = "op" <=> pc[u] = "op")
  BY <1>1, Zenon DEF Woken
<1>3. Charges' = Charges \ T /\ Charges \cap T = T
  BY <1>1, Zenon DEF Charges, RoomInv
<1>4. IsFiniteSet(T) /\ Cardinality(T) = Cardinality(wrote[t])
  <2>1. IsFiniteSet({t}) /\ Cardinality({t}) = 1
    BY FS_Singleton, Zenon
  <2>2. IsFiniteSet(wrote[t]) /\ Cardinality(wrote[t]) \in Nat
    BY FS_CardinalityType, Zenon DEF RoomInv
  <2>3. IsFiniteSet(T) /\ Cardinality(T) = 1 * Cardinality(wrote[t])
    BY <2>1, <2>2, FS_Product, Zenon
  <2> QED
    BY <2>2, <2>3, SMTT(30)
<1>5. IsFiniteSet(Charges') /\ Cardinality(Charges') = Cardinality(Charges) - Cardinality(wrote[t])
  <2>1. IsFiniteSet(Charges)
    BY Zenon DEF RoomInv
  <2> HIDE DEF T
  <2>2. /\ IsFiniteSet(Charges \ T)
        /\ Cardinality(Charges \ T) = Cardinality(Charges) - Cardinality(Charges \cap T)
    BY <2>1, <1>4, FS_Difference, Zenon
  <2> QED
    BY <1>3, <1>4, <2>2, Zenon
<1>6. Len(lh') + outstanding' * MAXOPBLOCKS <= LOGBLOCKS + Cardinality(Charges')
  <2>1. t \in Ops
    BY <1>1, Zenon DEF Ops
  <2>2. Len(lh) + outstanding * MAXOPBLOCKS <= LOGBLOCKS + Cardinality(Charges)
    BY <2>1, Zenon DEF RoomInv
  <2>3. /\ Cardinality(Charges) \in Nat /\ Cardinality(wrote[t]) \in Nat
        /\ Cardinality(wrote[t]) <= MAXOPBLOCKS
    BY FS_CardinalityType, LogAssumption, SMTT(30) DEF RoomInv
  <2>4. (outstanding - 1) * MAXOPBLOCKS = outstanding * MAXOPBLOCKS - MAXOPBLOCKS
    BY <1>1, LogAssumption, SMTT(30)
  <2>5. outstanding * MAXOPBLOCKS \in Nat /\ Len(lh) \in Nat /\ MAXOPBLOCKS \in Nat /\ LOGBLOCKS \in Nat
    BY <1>1, LogAssumption, SMTT(30) DEF TypeInv
  <2>6. /\ Len(lh') = Len(lh) /\ outstanding' = outstanding - 1
        /\ Cardinality(Charges') = Cardinality(Charges) - Cardinality(wrote[t])
    BY <1>1, <1>5, Zenon
  <2>7. ASSUME NEW l \in Nat, NEW m \in Nat, NEW x \in Nat, NEW k \in Nat,
               NEW n \in Nat, NEW w \in Nat, l + x <= n + k, w <= m
        PROVE  l + (x - m) <= n + (k - w)
    BY <2>7, SMTT(30)
  <2>8. Len(lh) + (outstanding * MAXOPBLOCKS - MAXOPBLOCKS)
          <= LOGBLOCKS + (Cardinality(Charges) - Cardinality(wrote[t]))
    BY <2>2, <2>3, <2>5, <2>7, Zenon
  <2> QED
    BY <2>4, <2>6, <2>8, Zenon
<1>7. Logged' = Logged
  BY <1>1, Zenon DEF Logged
<1>8. \A u \in Thr : wrote'[u] = IF u = t THEN {} ELSE wrote[u]
  BY <1>1, Zenon DEF RoomInv
<1>9. IsFiniteSet({}) /\ Cardinality({}) <= OPBLOCKS
  BY FS_EmptySet, LogAssumption, SMTT(30)
<1>10. wrote' \in [Thr -> SUBSET Block]
  BY <1>1, Zenon DEF RoomInv
<1> QED
  BY <1>1, <1>2, <1>5, <1>6, <1>7, <1>8, <1>9, <1>10, Zenon DEF RoomInv

\* A block that is new to the transaction is new to the operation: the log grows
\* by what the operation is charged.
LEMMA LogWriteRoom ==
  ASSUME TypeInv, RoomInv, NEW t \in Thr, NEW b \in Block, NEW v \in Val, LogWrite(t, b, v)
  PROVE  RoomInv'
<1>1. /\ wrote' = [wrote EXCEPT ![t] = @ \cup {b}]
      /\ outstanding' = outstanding /\ pc' = pc /\ pc[t] = "op"
      /\ b \in wrote[t] \/ Cardinality(wrote[t]) < OPBLOCKS
      /\ \/ b \in Logged /\ lh' = lh
         \/ b \notin Logged /\ lh' = Append(lh, b)
  BY Zenon DEF LogWrite
<1>2. \A u \in Thr : wrote'[u] = IF u = t THEN wrote[u] \cup {b} ELSE wrote[u]
  BY <1>1, Zenon DEF RoomInv
<1>3. wrote' \in [Thr -> SUBSET Block]
  BY <1>1, Zenon DEF RoomInv
<1>4. IsFiniteSet(wrote'[t]) /\ Cardinality(wrote'[t]) <= OPBLOCKS
  <2>1. /\ IsFiniteSet(wrote[t] \cup {b})
        /\ Cardinality(wrote[t] \cup {b}) =
             IF b \in wrote[t] THEN Cardinality(wrote[t]) ELSE Cardinality(wrote[t]) + 1
    BY FS_AddElement, Zenon DEF RoomInv
  <2>2. Cardinality(wrote[t]) \in Nat /\ Cardinality(wrote[t]) <= OPBLOCKS
    BY FS_CardinalityType, Zenon DEF RoomInv
  <2>3. wrote'[t] = wrote[t] \cup {b}
    BY <1>2, Zenon
  <2>4. CASE b \in wrote[t]
    BY <2>1, <2>2, <2>3, <2>4, Zenon
  <2>5. CASE b \notin wrote[t]
    <3>1. Cardinality(wrote[t]) < OPBLOCKS
      BY <1>1, <2>5, Zenon
    <3>2. Cardinality(wrote[t]) + 1 <= OPBLOCKS
      BY <2>2, <3>1, LogAssumption, SMTT(30)
    <3> QED
      BY <2>1, <2>3, <2>5, <3>2, Zenon
  <2> QED
    BY <2>4, <2>5, Zenon
<1>5. Logged' = Logged \cup {b} /\ Len(lh') \in Nat
      /\ Len(lh') = IF b \in Logged THEN Len(lh) ELSE Len(lh) + 1
  <2>1. CASE b \in Logged /\ lh' = lh
    <3>1. Logged' = Logged
      BY <2>1, Zenon DEF Logged
    <3>2. Len(lh) \in Nat
      BY SMT DEF TypeInv
    <3> QED
      BY <2>1, <3>1, <3>2, Zenon
  <2>2. CASE b \notin Logged /\ lh' = Append(lh, b)
    <3>1. lh \in Seq(Block)
      BY Zenon DEF TypeInv
    <3>2. /\ Len(lh) \in Nat /\ Len(lh') = Len(lh) + 1
          /\ \A c \in Block : (\E i \in 1 .. Len(lh') : lh'[i] = c)
                               <=> (c = b \/ \E i \in 1 .. Len(lh) : lh[i] = c)
      BY <2>2, <3>1, AppendFacts, SMTT(30)
    <3>3. /\ \A i \in 1 .. Len(lh) : lh[i] \in Block
          /\ \A i \in 1 .. Len(lh') : lh'[i] \in Block
      BY <2>2, <3>1, AppendFacts, SMTT(30)
    <3>4. Logged' = Logged \cup {b}
      <4>1. ASSUME NEW x, x \in Logged' PROVE x \in Logged \cup {b}
        BY <3>2, <3>3, <4>1, Zenon DEF Logged
      <4>2. ASSUME NEW x, x \in Logged \cup {b} PROVE x \in Logged'
        BY <3>2, <3>3, <4>2, Zenon DEF Logged
      <4> QED
        BY <4>1, <4>2, Zenon
    <3>5. Len(lh') \in Nat
      BY <3>2, SMT
    <3> QED
      BY <2>2, <3>2, <3>4, <3>5, Zenon
  <2> QED
    BY <1>1, <2>1, <2>2, Zenon
<1>6. Charges' = Charges \cup {<<t, b>>}
  <2>1. ASSUME NEW u \in Thr, NEW a \in Block
        PROVE  a \in wrote'[u] <=> a \in wrote[u] \/ (u = t /\ a = b)
    BY <1>2, Zenon
  <2>2. ASSUME NEW x \in Thr \X Block
        PROVE  x[2] \in wrote'[x[1]] <=> x[2] \in wrote[x[1]] \/ x = <<t, b>>
    <3>1. PICK u \in Thr, a \in Block : x = <<u, a>>
      BY SMTT(30)
    <3>2. x[1] = u /\ x[2] = a /\ (x = <<t, b>> <=> u = t /\ a = b)
      BY <3>1, Zenon
    <3> QED
      BY <2>1, <3>2, Zenon
  <2>3. <<t, b>> \in Thr \X Block
    BY Zenon
  <2> QED
    BY <2>2, <2>3, Zenon DEF Charges
<1>7. /\ IsFiniteSet(Charges')
      /\ Cardinality(Charges') = IF b \in wrote[t] THEN Cardinality(Charges) ELSE Cardinality(Charges) + 1
  <2>1. <<t, b>> \in Charges <=> b \in wrote[t]
    BY Zenon DEF Charges
  <2>2. IsFiniteSet(Charges)
    BY Zenon DEF RoomInv
  <2> QED
    BY <1>6, <2>1, <2>2, FS_AddElement, Zenon
<1>8. Len(lh') + outstanding * MAXOPBLOCKS <= LOGBLOCKS + Cardinality(Charges')
  <2>1. t \in Ops
    BY <1>1, Zenon DEF Ops
  <2>2. Len(lh) + outstanding * MAXOPBLOCKS <= LOGBLOCKS + Cardinality(Charges)
    BY <2>1, Zenon DEF RoomInv
  <2>3. b \notin Logged => b \notin wrote[t]
    BY Zenon DEF RoomInv
  <2>4. /\ outstanding * MAXOPBLOCKS \in Nat /\ Len(lh) \in Nat /\ LOGBLOCKS \in Nat
        /\ Cardinality(Charges) \in Nat
    BY LogAssumption, FS_CardinalityType, SMTT(30) DEF TypeInv, RoomInv
  <2> QED
    BY <1>5, <1>7, <2>2, <2>3, <2>4, SMTT(30)
<1>9. \A u \in Thr : \A x \in wrote'[u] : x \in Logged'
  BY <1>2, <1>5, Zenon DEF RoomInv
<1>10. Ops' = Ops
  BY <1>1, Zenon DEF Ops
<1> QED
  BY <1>1, <1>2, <1>3, <1>4, <1>7, <1>8, <1>9, Zenon DEF RoomInv

\* What all active operations may write: no more than OPBLOCKS blocks each.
LEMMA ChargesBound ==
  ASSUME CommitInv, RoomInv
  PROVE  Cardinality(Charges) <= outstanding * OPBLOCKS
<1> DEFINE Num(S) == CHOOSE f : f \in Injection(S, 1 .. OPBLOCKS)
           T == Ops \X (1 .. OPBLOCKS)
           g == [x \in Charges |-> <<x[1], Num(wrote[x[1]])[x[2]]>>]
<1>1. ASSUME NEW t \in Thr PROVE Num(wrote[t]) \in Injection(wrote[t], 1 .. OPBLOCKS)
  <2> DEFINE n == Cardinality(wrote[t])
  <2>1. n \in Nat /\ n <= OPBLOCKS /\ ExistsBijection(1 .. n, wrote[t])
    BY <1>1, FS_CardinalityType, Zenon DEF RoomInv
  <2>2. PICK h \in Bijection(wrote[t], 1 .. n) : TRUE
    <3>1. ExistsBijection(wrote[t], 1 .. n)
      <4>1. IsFiniteSet(wrote[t])
        BY <1>1, Zenon DEF RoomInv
      <4>2. IsFiniteSet(1 .. n) /\ Cardinality(1 .. n) = n
        <5>1. PICK a \in Int, b \in Int : a = 1 /\ b = n
          BY <2>1, SMT
        <5>2. IsFiniteSet(a .. b) /\ Cardinality(a .. b) = IF a > b THEN 0 ELSE b - a + 1
          BY FS_Interval, Zenon
        <5> HIDE DEF n
        <5>3. (IF a > b THEN 0 ELSE b - a + 1) = n
          BY <2>1, <5>1, SMT
        <5> QED
          BY <5>1, <5>2, <5>3, Zenon
      <4> QED
        BY <4>1, <4>2, FS_SameCardinalityBij, Zenon
    <3> QED
      BY <3>1, Zenon DEF ExistsBijection
  <2>3. h \in Injection(wrote[t], 1 .. OPBLOCKS)
    <3>1. h \in [wrote[t] -> 1 .. n] /\ \A x, y \in wrote[t] : h[x] = h[y] => x = y
      BY <2>2, Zenon DEF Bijection, Injection, IsInjective
    <3>2. h \in [wrote[t] -> 1 .. OPBLOCKS]
      BY <2>1, <3>1, LogAssumption, SMTT(30)
    <3> QED
      BY <3>1, <3>2, Zenon DEF Injection, IsInjective
  <2> QED
    BY <2>3, Zenon
<1>2. \A x \in Charges : x[1] \in Ops /\ x[2] \in wrote[x[1]] /\ x = <<x[1], x[2]>>
  BY SMTT(30) DEF Charges, RoomInv, Ops
<1>3. \A x \in Charges : Num(wrote[x[1]])[x[2]] \in 1 .. OPBLOCKS
  BY <1>1, <1>2, Zenon DEF Injection, Ops
<1>4. g \in [Charges -> T]
  BY <1>2, <1>3, Zenon
<1>5. ASSUME NEW x \in Charges, NEW y \in Charges, g[x] = g[y] PROVE x = y
  <2>1. x[1] = y[1] /\ Num(wrote[x[1]])[x[2]] = Num(wrote[x[1]])[y[2]]
    <3> HIDE DEF Num
    <3>1. /\ g[x] = <<x[1], Num(wrote[x[1]])[x[2]]>>
          /\ g[y] = <<y[1], Num(wrote[y[1]])[y[2]]>>
      BY Zenon
    <3>2. ASSUME NEW a, NEW aa, NEW e, NEW ee, <<a, e>> = <<aa, ee>> PROVE a = aa /\ e = ee
      BY <3>2, Zenon
    <3> HIDE DEF g
    <3>3. <<x[1], Num(wrote[x[1]])[x[2]]>> = <<y[1], Num(wrote[y[1]])[y[2]]>>
      BY <1>5, <3>1, Zenon
    <3>4. x[1] = y[1] /\ Num(wrote[x[1]])[x[2]] = Num(wrote[y[1]])[y[2]]
      BY <3>2, <3>3, Zenon
    <3> QED
      BY <3>4, Zenon
  <2>2. x[1] \in Thr /\ x[2] \in wrote[x[1]] /\ y[2] \in wrote[x[1]]
    BY <1>2, <2>1, Zenon DEF Ops
  <2>3. x[2] = y[2]
    <3>1. \A a, e \in wrote[x[1]] :
            Num(wrote[x[1]])[a] = Num(wrote[x[1]])[e] => a = e
      <4> HIDE DEF Num
      <4> QED
        BY <1>1, <2>2, Zenon DEF Injection, IsInjective
    <3> HIDE DEF Num
    <3> QED
      BY <2>1, <2>2, <3>1, Zenon
  <2>4. x = <<x[1], x[2]>> /\ y = <<y[1], y[2]>>
    BY <1>2, Zenon
  <2> HIDE DEF g, Num
  <2> QED
    BY <2>1, <2>3, <2>4, Zenon
<1>6. g \in Injection(Charges, T)
  BY <1>4, <1>5, Zenon DEF Injection, IsInjective
<1>7. IsFiniteSet(1 .. OPBLOCKS) /\ Cardinality(1 .. OPBLOCKS) = OPBLOCKS
  BY FS_Interval, LogAssumption, SMTT(30)
<1>8. IsFiniteSet(T) /\ Cardinality(T) = outstanding * OPBLOCKS
  <2>1. IsFiniteSet(Ops) /\ Cardinality(Ops) = outstanding
    BY Zenon DEF CommitInv
  <2> QED
    BY <1>7, <2>1, FS_Product, Zenon
<1> HIDE DEF g, T
<1> QED
  BY <1>6, <1>8, FS_Injection, SMTT(30)

\* begin_op() admits an operation only if there is room for all it may write.
LEMMA BeginOpRoom ==
  ASSUME TypeInv, RoomInv, NEW t \in Thr, BeginOp(t)
  PROVE  RoomInv'
<1>1. /\ UNCHANGED <<wrote, lh>> /\ outstanding' = outstanding + 1
      /\ Len(lh) + (outstanding + 1) * MAXOPBLOCKS <= LOGBLOCKS
      /\ \A u \in Thr : pc'[u] # "op" => pc[u] # "op"
  BY Zenon DEF BeginOp, HasRoom, TypeInv, local
<1>2. Charges' = Charges /\ Logged' = Logged
  BY <1>1, Zenon DEF Charges, Logged
<1>3. Len(lh') + outstanding' * MAXOPBLOCKS <= LOGBLOCKS + Cardinality(Charges')
  <2>1. /\ (outstanding + 1) * MAXOPBLOCKS \in Nat /\ Len(lh) \in Nat /\ LOGBLOCKS \in Nat
        /\ Cardinality(Charges) \in Nat
    BY LogAssumption, FS_CardinalityType, SMTT(30) DEF TypeInv, RoomInv
  <2> QED
    BY <1>1, <1>2, <2>1, SMTT(30)
<1> QED
  BY <1>1, <1>2, <1>3, Zenon DEF RoomInv

\* Where nothing has been written and no operation is active, nothing is charged.
LEMMA NoCharges ==
  ASSUME wrote' = [u \in Thr |-> {}], Ops' = {}
  PROVE  RoomInv'
<1>1. \A u \in Thr : wrote'[u] = {}
  BY Zenon
<1>2. Charges' = {}
  BY <1>1, Zenon DEF Charges
<1>3. IsFiniteSet({}) /\ Cardinality({}) <= OPBLOCKS
  BY FS_EmptySet, LogAssumption, SMTT(30)
<1> QED
  BY <1>1, <1>2, <1>3, Zenon DEF RoomInv

\* Every step of a process preserves RoomInv.
LEMMA StepRoomInv ==
  ASSUME TypeInv, CommitInv, CommitInv', RoomInv, NEW t \in Thr, Step(t)
  PROVE  RoomInv'
<1> USE DEF disk, bufs, logv, local, hist
<1>a. \A u \in Thr : pc[u] \in Label
  BY Zenon DEF TypeInv
<1>1. CASE \/ BeginSleep(t) \/ SyncCall(t) \/ SyncAgain(t) \/ SyncReturn(t)
  <2>1. \A u \in Thr : pc'[u] = "op" <=> pc[u] = "op"
    BY <1>1, Zenon DEF BeginSleep, AtBegin, SyncCall, SyncAgain, SyncReturn, TypeInv
  <2> QED
    BY <1>1, <2>1, SameRoom, Zenon DEF BeginSleep, SyncCall, SyncAgain, SyncReturn
<1>2. CASE CommitDone(t)
  <2>1. \A u \in Thr : pc'[u] = "op" <=> pc[u] = "op"
    BY <1>2, <1>a, WokenFacts, Zenon DEF CommitDone
  <2> QED
    BY <1>2, <2>1, SameRoom, Zenon DEF CommitDone
<1>3. CASE WriteLog(t) \/ WriteHead(t) \/ Install(t) \/ ClearHead(t)
  <2>1. Ops = {}
    BY <1>3, AloneInCommit, Zenon DEF WriteLog, WriteHead, Install, ClearHead, Commits
  <2>2. \A u \in Thr : pc'[u] = "op" <=> pc[u] = "op"
    BY <1>3, Zenon DEF WriteLog, WriteHead, Install, ClearHead, NextTail, TypeInv
  <2>3. wrote' = wrote /\ outstanding' = outstanding
    BY <1>3, Zenon DEF WriteLog, WriteHead, Install, ClearHead
  <2> QED
    BY <2>1, <2>2, <2>3, SameRoom, Zenon
<1>4. CASE EndOpLast(t)
  <2>1. Ops' = {} /\ wrote' = [wrote EXCEPT ![t] = {}]
    BY <1>4, Zenon DEF EndOpLast, CommitInv
  <2>2. \A u \in Thr : u # t => pc[u] # "op"
    BY <1>4, <2>1, Zenon DEF EndOpLast, Ops, TypeInv
  <2>3. wrote' = [u \in Thr |-> {}]
    BY <2>1, <2>2, Zenon DEF RoomInv
  <2> QED
    BY <2>1, <2>3, NoCharges, Zenon
<1>5. ASSUME NEW b \in Block, NEW v \in Val, LogWrite(t, b, v) PROVE RoomInv'
  BY <1>5, LogWriteRoom, Zenon
<1> QED
  BY <1>1, <1>2, <1>3, <1>4, <1>5, BeginOpRoom, EndOpRoom, Zenon DEF Step

\* log_write() never panics with "too big a transaction": whatever the active
\* operations write, and in whatever order, each within its OPBLOCKS blocks, the
\* log has a free block for the next one.
THEOREM LogNeverFull == Spec => []LogHasRoom
<1> USE DEF disk, bufs, logv, local, hist
<1>1. Init => RoomInv
  <2> SUFFICES ASSUME Init PROVE RoomInv
    BY Zenon
  <2>1. \A u \in Thr : wrote[u] = {} /\ pc[u] = "idle"
    BY Zenon DEF Init
  <2>2. Charges = {} /\ Ops = {}
    BY <2>1, Zenon DEF Charges, Ops
  <2>3. IsFiniteSet({}) /\ Cardinality({}) <= OPBLOCKS
    BY FS_EmptySet, LogAssumption, SMTT(30)
  <2>4. wrote \in [Thr -> SUBSET Block]
    BY Zenon DEF Init
  <2> QED
    BY <2>1, <2>2, <2>3, <2>4, Zenon DEF RoomInv
<1>2. LogInv /\ LogInv' /\ RoomInv /\ [Next]_vars => RoomInv'
  <2> SUFFICES ASSUME LogInv, LogInv', RoomInv, [Next]_vars PROVE RoomInv'
    BY Zenon
  <2>1. ASSUME NEW b \in Block, Load(b) \/ Evict(b) PROVE RoomInv'
    BY <2>1, SameRoom, Zenon DEF Load, Evict
  <2>2. CASE Crash
    <3>1. Ops' = {}
      BY <2>2, Zenon DEF Crash, Ops
    <3> QED
      BY <2>2, <3>1, NoCharges, Zenon DEF Crash
  <2>3. CASE Recovery
    <3>1. boot # "up"
      BY <2>3, Zenon DEF Recovery, ReadHead, RecoverInstall, RecoverClear
    <3>2. Ops = {}
      BY <3>1, Zenon DEF LogInv, CommitInv, Ops
    <3> QED
      BY <2>3, <3>2, SameRoom, Zenon DEF Recovery, ReadHead, RecoverInstall, RecoverClear
  <2>4. CASE UNCHANGED vars
    BY <2>4, SameRoom, Zenon DEF vars
  <2> QED
    BY <2>1, <2>2, <2>3, <2>4, StepRoomInv, Zenon DEF Next, LogInv
<1>3. LogInv /\ RoomInv => LogHasRoom
  <2> SUFFICES ASSUME LogInv, RoomInv, NEW t \in Thr, pc[t] = "op"
               PROVE  Len(lh) < LOGBLOCKS
    BY Zenon DEF LogHasRoom
  <2>1. t \in Ops
    BY Zenon DEF Ops
  <2>2. Len(lh) + outstanding * MAXOPBLOCKS <= LOGBLOCKS + Cardinality(Charges)
    BY <2>1, Zenon DEF RoomInv
  <2>3. Cardinality(Charges) \in Nat /\ Cardinality(Charges) <= outstanding * OPBLOCKS
    BY ChargesBound, FS_CardinalityType, Zenon DEF LogInv, RoomInv
  <2>4. outstanding \in Nat /\ outstanding # 0
    BY <2>1, FS_EmptySet, Zenon DEF LogInv, CommitInv, TypeInv
  <2>5. outstanding * OPBLOCKS < outstanding * MAXOPBLOCKS
    BY <2>4, LogAssumption, SMTT(30)
  <2>6. /\ outstanding * OPBLOCKS \in Nat /\ outstanding * MAXOPBLOCKS \in Nat
        /\ Len(lh) \in Nat /\ LOGBLOCKS \in Nat
    BY <2>4, LogAssumption, SMTT(30) DEF LogInv, TypeInv
  <2> QED
    BY <2>2, <2>3, <2>5, <2>6, SMTT(30)
<1> QED
  BY <1>1, <1>2, <1>3, LogInvariant, PTL DEF Spec
-----------------------------------------------------------------------------
(* Sleepers.                                                                 *)

Waits == {"beginSleep", "sync", "syncSleep"}

\* Nobody sleeps in begin_op() who could go on; a sync() waits for the next
\* commit at most, and as long as it does somebody is under way to it.
WaitInv ==
  /\ \A t \in Thr : pc[t] = "beginSleep" => committing \/ ~HasRoom
  /\ \A t \in Thr : pc[t] \in {"sync", "syncSleep"} =>
       target[t] <= ncommit + 1 /\ (ncommit < target[t] => committing \/ outstanding # 0)
  /\ \A t \in Thr : pc[t] = "syncSleep" => ncommit < target[t]

\* Between operations the transaction is empty.
IdleInv == boot = "up" /\ ~committing /\ outstanding = 0 => lh = <<>>

\* A step that puts nobody to sleep and frees no room preserves WaitInv.
LEMMA SameWait ==
  ASSUME WaitInv, committing' = committing, committing \/ (HasRoom' => HasRoom),
         outstanding' = outstanding, ncommit' = ncommit, target' = target,
         \A u \in Thr : pc'[u] \in Waits => pc'[u] = pc[u]
  PROVE  WaitInv'
  BY Zenon DEF WaitInv, Waits

\* A process in an operation is counted.
LEMMA OpCounted ==
  ASSUME CommitInv, NEW t \in Thr, pc[t] = "op"
  PROVE  outstanding # 0 /\ ~committing
<1>1. t \in Ops
  BY Zenon DEF Ops
<1>2. Ops # {} => Cardinality(Ops) # 0
  BY FS_EmptySet, Zenon DEF CommitInv
<1> QED
  BY <1>1, <1>2, Zenon DEF CommitInv

\* Whoever is woken does not sleep, and is in sync() only if it was.
LEMMA WokenWaits ==
  ASSUME NEW l \in Label
  PROVE  /\ Woken(l) \notin {"beginSleep", "syncSleep"}
         /\ Woken(l) = "sync" => l \in {"sync", "syncSleep"}
  BY Zenon DEF Woken, Label

\* The end of an operation or of a commit wakes everybody.
LEMMA WakingWait ==
  ASSUME TypeInv, WaitInv, NEW t \in Thr, target' = target, ncommit' \in Nat,
         pc' = [u \in Thr |-> IF u = t THEN "idle" ELSE Woken(pc[u])],
         \/ ncommit' = ncommit /\ (committing' \/ outstanding' # 0)
         \/ ncommit' = ncommit + 1
  PROVE  WaitInv'
<1>1. \A u \in Thr : pc'[u] \notin {"beginSleep", "syncSleep"}
  BY WokenWaits, Zenon DEF TypeInv
<1>2. \A u \in Thr : pc'[u] = "sync" => pc[u] \in {"sync", "syncSleep"}
  BY WokenWaits, Zenon DEF TypeInv
<1>3. ASSUME NEW u \in Thr, pc'[u] = "sync"
      PROVE  target'[u] <= ncommit' + 1 /\ (ncommit' < target'[u] => committing' \/ outstanding' # 0)
  <2>1. target[u] <= ncommit + 1 /\ target'[u] = target[u]
    BY <1>2, <1>3, Zenon DEF WaitInv
  <2>2. ncommit \in Nat /\ target[u] \in Nat
    BY Zenon DEF TypeInv
  <2>3. CASE ncommit' = ncommit
    BY <2>1, <2>2, <2>3, SMTT(30)
  <2>4. CASE ncommit' = ncommit + 1
    BY <2>1, <2>2, <2>4, SMTT(30)
  <2> QED
    BY <2>3, <2>4, Zenon
<1> QED
  BY <1>1, <1>3, Zenon DEF WaitInv

\* Every step of a process preserves WaitInv.
LEMMA StepWaitInv ==
  ASSUME TypeInv, TypeInv', CommitInv, WaitInv, NEW t \in Thr, Step(t)
  PROVE  WaitInv'
<1> USE DEF disk, bufs, logv, local, hist
<1>1. CASE BeginOp(t)
  <2>1. \A u \in Thr : pc'[u] \in Waits => pc'[u] = pc[u] /\ pc[u] # "beginSleep"
    BY <1>1, Zenon DEF BeginOp, TypeInv, WaitInv, Waits
  <2>2. outstanding' # 0
    BY <1>1, SMTT(30) DEF BeginOp, TypeInv
  <2>3. ncommit' = ncommit /\ target' = target
    BY <1>1, Zenon DEF BeginOp
  <2> QED
    BY <2>1, <2>2, <2>3, Zenon DEF WaitInv, Waits
<1>2. CASE BeginSleep(t)
  <2>1. \A u \in Thr : u # t => pc'[u] = pc[u]
    BY <1>2, Zenon DEF BeginSleep, TypeInv
  <2>2. pc'[t] = "beginSleep" /\ (committing \/ ~HasRoom)
    BY <1>2, Zenon DEF BeginSleep, TypeInv
  <2>3. (HasRoom' <=> HasRoom) /\ committing' = committing /\ outstanding' = outstanding
        /\ ncommit' = ncommit /\ target' = target
    BY <1>2, Zenon DEF BeginSleep, HasRoom
  <2> QED
    BY <2>1, <2>2, <2>3, Zenon DEF WaitInv
<1>3. CASE EndOp(t)
  <2>1. outstanding' # 0
    BY <1>3, SMTT(30) DEF EndOp, TypeInv
  <2> QED
    BY <1>3, <2>1, WakingWait, Zenon DEF EndOp, TypeInv
<1>4. CASE EndOpLast(t)
  <2>1. \A u \in Thr : pc'[u] \in Waits => pc'[u] = pc[u]
    BY <1>4, Zenon DEF EndOpLast, TypeInv, Waits
  <2>2. ncommit' = ncommit /\ target' = target /\ committing'
    BY <1>4, Zenon DEF EndOpLast
  <2> QED
    BY <2>1, <2>2, Zenon DEF WaitInv, Waits
<1>5. CASE WriteLog(t) \/ WriteHead(t) \/ Install(t) \/ ClearHead(t)
  <2>1. \A u \in Thr : pc'[u] \in Waits => pc'[u] = pc[u]
    BY <1>5, Zenon DEF WriteLog, WriteHead, Install, ClearHead, NextTail, TypeInv, Waits
  <2>2. committing
    BY <1>5, Zenon DEF WriteLog, WriteHead, Install, ClearHead, CommitInv, Commits
  <2>3. committing' = committing /\ outstanding' = outstanding /\ ncommit' = ncommit /\ target' = target
    BY <1>5, Zenon DEF WriteLog, WriteHead, Install, ClearHead
  <2> QED
    BY <2>1, <2>2, <2>3, SameWait, Zenon
<1>6. CASE CommitDone(t)
  BY <1>6, WakingWait, Zenon DEF CommitDone, TypeInv
<1>7. CASE SyncCall(t)
  <2>1. \A u \in Thr : u # t => pc'[u] = pc[u] /\ target'[u] = target[u]
    BY <1>7, Zenon DEF SyncCall, TypeInv
  <2>2. pc'[t] = "syncSleep" /\ target'[t] = ncommit + 1 /\ (committing \/ outstanding > 0)
    BY <1>7, Zenon DEF SyncCall, TypeInv
  <2>3. (HasRoom' <=> HasRoom) /\ committing' = committing /\ outstanding' = outstanding
        /\ ncommit' = ncommit
    BY <1>7, Zenon DEF SyncCall, HasRoom
  <2>4. ncommit + 1 <= ncommit + 1 /\ ncommit < ncommit + 1 /\ (outstanding > 0 => outstanding # 0)
    BY SMTT(30) DEF TypeInv
  <2> QED
    BY <2>1, <2>2, <2>3, <2>4, Zenon DEF WaitInv
<1>8. CASE SyncAgain(t)
  <2>1. \A u \in Thr : u # t => pc'[u] = pc[u]
    BY <1>8, Zenon DEF SyncAgain, TypeInv
  <2>2. pc'[t] = "syncSleep" /\ pc[t] = "sync" /\ ncommit < target[t]
    BY <1>8, Zenon DEF SyncAgain, TypeInv
  <2>3. (HasRoom' <=> HasRoom) /\ committing' = committing /\ outstanding' = outstanding
        /\ ncommit' = ncommit /\ target' = target
    BY <1>8, Zenon DEF SyncAgain, HasRoom
  <2> QED
    BY <2>1, <2>2, <2>3, Zenon DEF WaitInv
<1>9. CASE SyncReturn(t)
  <2>1. \A u \in Thr : u # t => pc'[u] = pc[u] /\ target'[u] = target[u]
    BY <1>9, Zenon DEF SyncReturn, TypeInv
  <2>2. pc'[t] = "idle"
    BY <1>9, Zenon DEF SyncReturn, TypeInv
  <2>3. (HasRoom' <=> HasRoom) /\ committing' = committing /\ outstanding' = outstanding
        /\ ncommit' = ncommit
    BY <1>9, Zenon DEF SyncReturn, HasRoom
  <2> QED
    BY <2>1, <2>2, <2>3, Zenon DEF WaitInv
<1>10. ASSUME NEW b \in Block, NEW v \in Val, LogWrite(t, b, v) PROVE WaitInv'
  <2>1. lh' = lh \/ lh' = Append(lh, b)
    BY <1>10, Zenon DEF LogWrite
  <2>2. Len(lh') \in Nat /\ Len(lh) \in Nat /\ Len(lh) <= Len(lh')
    BY <2>1, AppendFacts, SMTT(30) DEF TypeInv
  <2>3. HasRoom' => HasRoom
    <3>1. PICK x \in Nat : x = (outstanding + 1) * MAXOPBLOCKS
      BY LogAssumption, SMTT(30) DEF TypeInv
    <3>2. outstanding' = outstanding
      BY <1>10, Zenon DEF LogWrite
    <3>3. /\ HasRoom <=> Len(lh) + x <= LOGBLOCKS
          /\ HasRoom' <=> Len(lh') + x <= LOGBLOCKS
      BY <3>1, <3>2, Zenon DEF HasRoom
    <3> QED
      BY <2>2, <3>3, LogAssumption, SMTT(30)
  <2> QED
    BY <1>10, <2>3, SameWait, Zenon DEF LogWrite
<1> QED
  BY <1>1, <1>2, <1>3, <1>4, <1>5, <1>6, <1>7, <1>8, <1>9, <1>10, Zenon DEF Step

\* ... and IdleInv.
LEMMA StepIdleInv ==
  ASSUME LogInv, IdleInv, NEW t \in Thr, Step(t)
  PROVE  IdleInv'
<1> USE DEF disk, bufs, logv, local, hist
<1>1. CASE BeginOp(t) \/ EndOp(t)
  <2>1. outstanding' # 0
    BY <1>1, SMTT(30) DEF BeginOp, EndOp, LogInv, TypeInv
  <2> QED
    BY <2>1, Zenon DEF IdleInv
<1>2. CASE BeginSleep(t) \/ SyncCall(t) \/ SyncAgain(t) \/ SyncReturn(t)
  BY <1>2, Zenon DEF BeginSleep, SyncCall, SyncAgain, SyncReturn, IdleInv
<1>3. CASE EndOpLast(t)
  BY <1>3, Zenon DEF EndOpLast, IdleInv
<1>4. CASE WriteLog(t) \/ WriteHead(t) \/ Install(t) \/ ClearHead(t)
  BY <1>4, Zenon DEF WriteLog, WriteHead, Install, ClearHead, LogInv, CommitInv, Commits, IdleInv
<1>5. CASE CommitDone(t)
  <2>1. boot = "up"
    BY <1>5, Zenon DEF CommitDone, LogInv, CommitInv
  <2> QED
    BY <1>5, <2>1, Zenon DEF CommitDone, LogInv, DataInv, UpInv, IdleInv
<1>6. ASSUME NEW b \in Block, NEW v \in Val, LogWrite(t, b, v) PROVE IdleInv'
  BY <1>6, OpCounted, Zenon DEF LogWrite, LogInv, IdleInv
<1> QED
  BY <1>1, <1>2, <1>3, <1>4, <1>5, <1>6, Zenon DEF Step

\* WaitInv and IdleInv hold in every reachable state.
LEMMA WaitersInvariant == Spec => [](LogInv /\ WaitInv /\ IdleInv)
<1> USE DEF disk, bufs, logv, local, hist
<1>1. Init => WaitInv /\ IdleInv
  BY Zenon DEF Init, WaitInv, IdleInv
<1>2. LogInv /\ LogInv' /\ WaitInv /\ IdleInv /\ [Next]_vars => WaitInv' /\ IdleInv'
  <2> SUFFICES ASSUME LogInv, LogInv', WaitInv, IdleInv, [Next]_vars PROVE WaitInv' /\ IdleInv'
    BY Zenon
  <2>1. ASSUME NEW b \in Block, Load(b) \/ Evict(b) PROVE WaitInv' /\ IdleInv'
    BY <2>1, SameWait, Zenon DEF Load, Evict, HasRoom, IdleInv
  <2>2. CASE Crash
    BY <2>2, Zenon DEF Crash, WaitInv, IdleInv
  <2>3. CASE Recovery
    <3>1. \A u \in Thr : pc[u] = "idle"
      BY <2>3, Zenon DEF Recovery, ReadHead, RecoverInstall, RecoverClear, LogInv, CommitInv
    <3>2. pc' = pc
      BY <2>3, Zenon DEF Recovery, ReadHead, RecoverInstall, RecoverClear
    <3>3. boot' # "up" \/ lh' = <<>>
      BY <2>3, Zenon DEF Recovery, ReadHead, RecoverInstall, RecoverClear
    <3> QED
      BY <3>1, <3>2, <3>3, Zenon DEF WaitInv, IdleInv
  <2>4. CASE UNCHANGED vars
    BY <2>4, SameWait, Zenon DEF vars, HasRoom, IdleInv
  <2> QED
    BY <2>1, <2>2, <2>3, <2>4, StepWaitInv, StepIdleInv, Zenon DEF Next, LogInv
<1> QED
  BY <1>1, <1>2, LogInvariant, PTL DEF Spec

\* While a commit runs or operations are counted, some process is at work.
LEMMA SomebodyActive ==
  ASSUME CommitInv, committing \/ outstanding # 0
  PROVE  \E u \in Thr : pc[u] \in Active
<1>1. CASE committing
  BY <1>1, Zenon DEF CommitInv, Commits, Active
<1>2. CASE outstanding # 0
  <2>1. Ops # {}
    BY <1>2, FS_EmptySet, Zenon DEF CommitInv
  <2> QED
    BY <2>1, Zenon DEF Ops, Active
<1> QED
  BY <1>1, <1>2, Zenon

\* Whoever sleeps in begin_op() could not be admitted now, and some process is
\* in an operation or in a commit, whose end wakes it: with any number of
\* processes, no wakeup is missed and the log is never full with nobody to
\* empty it.
THEOREM BeginWaitersAreWoken == Spec => []BeginWaitersWoken
<1>1. LogInv /\ WaitInv /\ IdleInv => BeginWaitersWoken
  <2> SUFFICES ASSUME LogInv, WaitInv, IdleInv, NEW t \in Thr, pc[t] = "beginSleep"
               PROVE  (committing \/ ~HasRoom) /\ \E u \in Thr : pc[u] \in Active
    BY Zenon DEF BeginWaitersWoken
  <2>1. committing \/ ~HasRoom
    BY Zenon DEF WaitInv
  <2>2. boot = "up"
    BY Zenon DEF LogInv, CommitInv
  <2>3. ASSUME ~committing, outstanding = 0 PROVE FALSE
    <3>1. Len(lh) = 0
      BY <2>2, <2>3, SMTT(30) DEF IdleInv
    <3>2. Len(lh) + (outstanding + 1) * MAXOPBLOCKS <= LOGBLOCKS
      BY <2>3, <3>1, LogAssumption, SMTT(30)
    <3> QED
      BY <2>1, <2>3, <3>2, Zenon DEF HasRoom
  <2> QED
    BY <2>1, <2>3, SomebodyActive, Zenon DEF LogInv
<1> QED
  BY <1>1, WaitersInvariant, PTL

\* Whoever sleeps in sync() waits for the commit that ends next, and somebody is
\* under way to it.
THEOREM SyncWaitersAreWoken == Spec => []SyncWaitersWoken
<1>1. LogInv /\ WaitInv /\ IdleInv => SyncWaitersWoken
  <2> SUFFICES ASSUME LogInv, WaitInv, NEW t \in Thr, pc[t] = "syncSleep"
               PROVE  target[t] = ncommit + 1 /\ \E u \in Thr : pc[u] \in Active
    BY Zenon DEF SyncWaitersWoken
  <2>1. target[t] <= ncommit + 1 /\ ncommit < target[t] /\ (committing \/ outstanding # 0)
    BY Zenon DEF WaitInv
  <2>2. target[t] = ncommit + 1
    BY <2>1, SMTT(30) DEF LogInv, TypeInv
  <2> QED
    BY <2>1, <2>2, SomebodyActive, Zenon DEF LogInv
<1> QED
  BY <1>1, WaitersInvariant, PTL
=============================================================================
