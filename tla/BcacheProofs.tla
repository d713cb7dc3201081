---------------------------- MODULE BcacheProofs ----------------------------
(***************************************************************************)
(* The buffer cache over the disk driver, for any number of buffers,       *)
(* blocks, processes and descriptors: one buffer per block and exact       *)
(* reference counts; then, with the requests under way, a holder sees the  *)
(* latest data, what was modified reaches the disk, no wakeup is lost.     *)
(***************************************************************************)
EXTENDS Bcache, FiniteSetTheorems, SequenceTheorems, TLAPS

Label == {"idle", "panic", "lock", "desc", "io", "hold", "release", "written", "drop"}
\* Where a process has no buffer.
Away == {"idle", "panic"}

\* The processes between bget() and brelse() of a buffer, and its pin.
Users(b) == {t \in Thr : buf[t] = b}
Pins(b) == IF blockno[b] \in pinned THEN 1 ELSE 0

CacheTypes ==
  /\ blockno \in [Buf -> Block \cup {None}]
  /\ refcnt \in [Buf -> Nat]
  /\ buf \in [Thr -> Buf \cup {None}]
  /\ blk \in [Thr -> Block \cup {None}]
  /\ pc \in [Thr -> Label]
  /\ pinned \in SUBSET Block
  /\ lru \in Seq(Buf)

\* Every buffer is in the list; a process has a buffer exactly between bget() and
\* brelse(), and it is the buffer of the block asked for; a pinned block is cached.
CacheInv ==
  /\ CacheTypes
  /\ \A b \in Buf : \E i \in 1 .. Len(lru) : lru[i] = b
  /\ \A t \in Thr : pc[t] \in Away <=> buf[t] = None
  /\ \A t \in Thr : buf[t] # None => blk[t] \in Block /\ blockno[buf[t]] = blk[t]
  /\ \A n \in pinned : \E b \in Buf : blockno[b] = n
  /\ OneBufferPerBlock
  /\ RefcntExact

-----------------------------------------------------------------------------
(* Least and greatest numbers, and the list of buffers.                      *)

\* A set of naturals has a least element.
LEMMA LeastNat ==
  ASSUME NEW S \in SUBSET Nat, S # {}
  PROVE  \E x \in S : \A y \in S : x <= y
<1> DEFINE R == OpToRel(<, Nat)
<1>1. PICK x \in S : \A y \in S : ~ (<<y, x>> \in R)
  BY NatLessThanWellFounded, WFMin, Zenon
<1>2. ASSUME NEW y \in S PROVE x <= y
  <2>1. ~ (y < x)
    BY <1>1 DEF OpToRel
  <2> QED
    BY <2>1
<1> QED
  BY <1>2, Zenon

\* alloc_desc() takes the least free descriptor.
LEMMA LowestFacts ==
  ASSUME NEW S \in SUBSET Nat, S # {}
  PROVE  Lowest(S) \in S /\ \A y \in S : Lowest(S) <= y
<1>1. \E x \in S : \A y \in S : x <= y
  BY LeastNat, Zenon
<1> QED
  BY <1>1, Zenon DEF Lowest, Min

\* A set of positions in a list has a last one.
LEMMA MaxFacts ==
  ASSUME NEW n \in Nat, NEW S \in SUBSET (1 .. n), S # {}
  PROVE  Max(S) \in S
<1> DEFINE T == {n - i : i \in S}
<1>1. T \in SUBSET Nat /\ T # {}
  <2>1. \A i \in S : n - i \in Nat
    <3> TAKE i \in S
    <3>1. i \in 1 .. n
      BY Zenon
    <3> QED
      BY <3>1, SMT
  <2> QED
    BY <2>1, Zenon
<1>2. PICK m \in T : \A y \in T : m <= y
  BY <1>1, LeastNat, Zenon
<1>3. PICK i \in S : m = n - i
  BY Zenon
<1>4. \A j \in S : i >= j
  <2> TAKE j \in S
  <2>1. n - j \in T
    OBVIOUS
  <2>2. n - i <= n - j
    BY <1>2, <1>3, <2>1, Zenon
  <2>3. i \in Nat /\ j \in Nat
    OBVIOUS
  <2> HIDE DEF T
  <2> QED
    BY <2>2, <2>3
<1> QED
  BY <1>4, Zenon DEF Max

\* The buffer bget() recycles is one that nobody refers to.
LEMMA VictimFacts ==
  ASSUME CacheInv, Unused # {}
  PROVE  Victim \in Buf /\ refcnt[Victim] = 0
<1>1. lru \in Seq(Buf)
  BY Zenon DEF CacheInv, CacheTypes
<1>2. Len(lru) \in Nat /\ DOMAIN lru = 1 .. Len(lru)
  BY <1>1, LenProperties, Zenon
<1>3. Unused \in SUBSET (1 .. Len(lru))
  BY <1>2, Zenon DEF Unused
<1>4. Max(Unused) \in Unused
  BY <1>2, <1>3, MaxFacts, Zenon
<1>5. Max(Unused) \in 1 .. Len(lru) /\ refcnt[lru[Max(Unused)]] = 0
  BY <1>2, <1>4, Zenon DEF Unused
<1> QED
  BY <1>1, <1>5, ElementOfSeq, Zenon DEF Victim

\* Moving a buffer to the front of the list loses none.
LEMMA MoveToFront ==
  ASSUME CacheInv, NEW b \in Buf
  PROVE  /\ ToFront(b) \in Seq(Buf)
         /\ \A a \in Buf : \E i \in 1 .. Len(ToFront(b)) : ToFront(b)[i] = a
<1> DEFINE p == CHOOSE i \in DOMAIN lru : lru[i] = b
           s1 == SubSeq(lru, 1, p - 1)
           s2 == SubSeq(lru, p + 1, Len(lru))
           r == s1 \o s2
           s == <<b>> \o r
<1>1. lru \in Seq(Buf) /\ Len(lru) \in Nat /\ DOMAIN lru = 1 .. Len(lru)
  BY LenProperties, Zenon DEF CacheInv, CacheTypes
<1>2. p \in 1 .. Len(lru) /\ lru[p] = b
  BY <1>1, Zenon DEF CacheInv
<1>3. \A i \in 1 .. Len(lru) : lru[i] \in Buf
  BY <1>1, ElementOfSeq, Zenon
<1> HIDE DEF p
<1>4. /\ s1 \in Seq(Buf) /\ Len(s1) = p - 1
      /\ \A i \in 1 .. p - 1 : s1[i] = lru[i]
  <2>1. 1 \in Int /\ p - 1 \in Int /\ \A i \in 1 .. p - 1 : lru[i] \in Buf
    BY <1>1, <1>2, <1>3, SMT
  <2>2. /\ s1 \in Seq(Buf) /\ Len(s1) = IF 1 <= p - 1 THEN p - 1 - 1 + 1 ELSE 0
        /\ \A i \in 1 .. p - 1 - 1 + 1 : s1[i] = lru[1 + i - 1]
    BY <2>1, SubSeqProperties, SMTT(30)
  <2> HIDE DEF s1
  <2>3. \A i \in 1 .. p - 1 : s1[i] = lru[i]
    <3> TAKE i \in 1 .. p - 1
    <3>1. i \in 1 .. p - 1 - 1 + 1 /\ 1 + i - 1 = i
      BY <1>2, SMT
    <3> QED
      BY <2>2, <3>1, Zenon
  <2>4. (IF 1 <= p - 1 THEN p - 1 - 1 + 1 ELSE 0) = p - 1
    BY <1>1, <1>2, SMT
  <2> QED
    BY <2>2, <2>3, <2>4, SMTT(30)
<1>5. /\ s2 \in Seq(Buf) /\ Len(s2) = Len(lru) - p
      /\ \A i \in 1 .. Len(lru) - p : s2[i] = lru[p + i]
  <2>1. p + 1 \in Int /\ Len(lru) \in Int /\ \A i \in p + 1 .. Len(lru) : lru[i] \in Buf
    BY <1>1, <1>2, <1>3, SMT
  <2>2. /\ s2 \in Seq(Buf)
        /\ Len(s2) = IF p + 1 <= Len(lru) THEN Len(lru) - (p + 1) + 1 ELSE 0
        /\ \A i \in 1 .. Len(lru) - (p + 1) + 1 : s2[i] = lru[(p + 1) + i - 1]
    BY <2>1, SubSeqProperties, SMTT(30)
  <2> HIDE DEF s2
  <2>3. \A i \in 1 .. Len(lru) - p : s2[i] = lru[p + i]
    <3> TAKE i \in 1 .. Len(lru) - p
    <3>1. i \in 1 .. Len(lru) - (p + 1) + 1 /\ (p + 1) + i - 1 = p + i
      BY <1>1, <1>2, SMT
    <3> QED
      BY <2>2, <3>1, Zenon
  <2>4. (IF p + 1 <= Len(lru) THEN Len(lru) - (p + 1) + 1 ELSE 0) = Len(lru) - p
    <3>1. ASSUME NEW m \in Nat, NEW q \in 1 .. m
          PROVE  (IF q + 1 <= m THEN m - (q + 1) + 1 ELSE 0) = m - q
      <4>1. CASE q + 1 <= m
        BY <4>1, SMT
      <4>2. CASE ~(q + 1 <= m)
        BY <4>2, SMT
      <4> QED
        BY <4>1, <4>2, Zenon
    <3> QED
      BY <1>1, <1>2, <3>1, Zenon
  <2> QED
    BY <2>2, <2>3, <2>4, SMTT(30)
<1> HIDE DEF s1, s2
<1>6. /\ r \in Seq(Buf) /\ Len(r) = Len(s1) + Len(s2)
      /\ \A i \in 1 .. Len(s1) + Len(s2) :
           r[i] = IF i <= Len(s1) THEN s1[i] ELSE s2[i - Len(s1)]
  BY <1>4, <1>5, ConcatProperties, Zenon
<1> HIDE DEF r
<1>7. <<b>> \in Seq(Buf) /\ Len(<<b>>) = 1 /\ <<b>>[1] = b
  BY SMT
<1>8. /\ s \in Seq(Buf) /\ Len(s) = 1 + Len(r)
      /\ \A i \in 1 .. 1 + Len(r) : s[i] = IF i <= 1 THEN <<b>>[i] ELSE r[i - 1]
  <2>1. /\ s \in Seq(Buf) /\ Len(s) = Len(<<b>>) + Len(r)
        /\ \A i \in 1 .. Len(<<b>>) + Len(r) :
             s[i] = IF i <= Len(<<b>>) THEN <<b>>[i] ELSE r[i - Len(<<b>>)]
    BY <1>6, <1>7, ConcatProperties, SMTT(30)
  <2> QED
    BY <1>7, <2>1, Zenon
<1> HIDE DEF s
<1>9. ASSUME NEW a \in Buf PROVE \E i \in 1 .. Len(s) : s[i] = a
  <2>1. PICK k \in 1 .. Len(lru) : lru[k] = a
    BY Zenon DEF CacheInv
  <2>2. CASE k = p
    <3>1. 1 \in 1 .. Len(s) /\ s[1] = b
      BY <1>1, <1>2, <1>4, <1>5, <1>6, <1>7, <1>8, SMT
    <3> QED
      BY <1>2, <2>1, <2>2, <3>1, Zenon
  <2>3. CASE k < p
    <3>1. k \in 1 .. p - 1 /\ k \in 1 .. Len(s1) + Len(s2) /\ k <= Len(s1)
      BY <1>1, <1>2, <1>4, <1>5, <2>3, SMT
    <3>2. r[k] = a
      BY <1>4, <1>6, <2>1, <3>1, Zenon
    <3>3. k + 1 \in 1 .. 1 + Len(r) /\ ~(k + 1 <= 1) /\ (k + 1) - 1 = k
      BY <1>6, <3>1, SMT
    <3>4. s[k + 1] = a
      BY <1>8, <3>2, <3>3, Zenon
    <3> QED
      BY <1>8, <3>3, <3>4, Zenon
  <2>4. CASE p < k
    <3> DEFINE j == k - 1
    <3>1. /\ j - (p - 1) \in 1 .. Len(lru) - p /\ p + (j - (p - 1)) = k
          /\ j \in 1 .. (p - 1) + (Len(lru) - p) /\ ~(j <= p - 1)
          /\ j + 1 = k
      BY <1>1, <1>2, <2>4, SMT
    <3>2. r[j] = a
      <4>1. r[j] = s2[j - Len(s1)]
        BY <1>4, <1>5, <1>6, <3>1, Zenon
      <4>2. s2[j - (p - 1)] = lru[k]
        BY <1>5, <3>1, Zenon
      <4> QED
        BY <1>4, <2>1, <4>1, <4>2, Zenon
    <3>3. k \in 1 .. 1 + Len(r) /\ ~(k <= 1) /\ k - 1 = j
      BY <1>1, <1>2, <1>4, <1>5, <1>6, <3>1, <2>4, SMT
    <3>4. s[k] = a
      BY <1>8, <3>2, <3>3, Zenon
    <3> QED
      BY <1>8, <3>3, <3>4, Zenon
  <2> QED
    BY <1>2, <2>2, <2>3, <2>4, SMT
<1> QED
  BY <1>8, <1>9, Zenon DEF ToFront, s, r, s1, s2, p

\* binit() links every buffer.
LEMMA InitList ==
  ASSUME lru = Linked
  PROVE  lru \in Seq(Buf) /\ \A b \in Buf : \E i \in 1 .. Len(lru) : lru[i] = b
<1>1. PICK n \in Nat : n = Cardinality(Buf) /\ ExistsBijection(1 .. n, Buf)
  BY BufAssumption, FS_CardinalityType, Zenon
<1>2. lru \in Bijection(1 .. n, Buf)
  BY <1>1, Zenon DEF Linked, ExistsBijection
<1>3. lru \in [1 .. n -> Buf] /\ \A b \in Buf : \E i \in 1 .. n : lru[i] = b
  BY <1>2, Zenon DEF Bijection, Surjection
<1>4. lru \in Seq(Buf) /\ Len(lru) = n
  BY <1>3, SMT
<1> QED
  BY <1>3, <1>4, Zenon

-----------------------------------------------------------------------------
(* Preservation.                                                             *)

\* Users are counted by natural numbers.
LEMMA UsersFacts ==
  ASSUME NEW b \in Buf
  PROVE  IsFiniteSet(Users(b)) /\ Cardinality(Users(b)) \in Nat
<1>1. Users(b) \in SUBSET Thr
  BY Zenon DEF Users
<1>2. IsFiniteSet(Users(b))
  BY <1>1, ThrAssumption, FS_Subset, Zenon
<1> QED
  BY <1>2, FS_CardinalityType, Zenon

\* The reference count, in terms of Users and Pins.
LEMMA RefcntSum ==
  RefcntExact <=> \A b \in Buf : refcnt[b] = Cardinality(Users(b)) + Pins(b)
  BY Zenon DEF RefcntExact, Users, Pins

\* The same after a step.
LEMMA RefcntSumNext ==
  RefcntExact' <=> \A b \in Buf : refcnt'[b] = Cardinality(Users(b)') + Pins(b)'
  BY Zenon DEF RefcntExact, Users, Pins

\* A process that gets a buffer, or gives it back, changes the users of that
\* buffer by one and of no other.
LEMMA OneMoreUser ==
  ASSUME CacheTypes, NEW t \in Thr, NEW b \in Buf, buf[t] = None,
         buf' = [buf EXCEPT ![t] = b]
  PROVE  /\ Cardinality(Users(b)') = Cardinality(Users(b)) + 1
         /\ \A a \in Buf : a # b => Users(a)' = Users(a)
<1>1. \A u \in Thr : buf'[u] = IF u = t THEN b ELSE buf[u]
  BY Zenon DEF CacheTypes
<1>2. Users(b)' = Users(b) \cup {t} /\ t \notin Users(b)
  BY <1>1, NoneAssumption, Zenon DEF Users
<1>3. \A a \in Buf : a # b => Users(a)' = Users(a)
  BY <1>1, NoneAssumption, Zenon DEF Users
<1>4. IsFiniteSet(Users(b))
  BY UsersFacts, Zenon
<1>5. Cardinality(Users(b) \cup {t}) = Cardinality(Users(b)) + 1
  BY <1>2, <1>4, FS_AddElement, Zenon
<1> QED
  BY <1>2, <1>3, <1>5, Zenon

\* The same for one that gives its buffer back.
LEMMA OneUserLess ==
  ASSUME CacheTypes, NEW t \in Thr, NEW b \in Buf, buf[t] = b,
         buf' = [buf EXCEPT ![t] = None]
  PROVE  /\ Cardinality(Users(b)') = Cardinality(Users(b)) - 1
         /\ Cardinality(Users(b)) >= 1
         /\ \A a \in Buf : a # b => Users(a)' = Users(a)
<1>1. \A u \in Thr : buf'[u] = IF u = t THEN None ELSE buf[u]
  BY Zenon DEF CacheTypes
<1>2. Users(b)' = Users(b) \ {t} /\ t \in Users(b)
  BY <1>1, NoneAssumption, Zenon DEF Users
<1>3. \A a \in Buf : a # b => Users(a)' = Users(a)
  BY <1>1, NoneAssumption, Zenon DEF Users
<1>4. IsFiniteSet(Users(b)) /\ Cardinality(Users(b)) \in Nat
  BY UsersFacts, Zenon
<1>5. Cardinality(Users(b) \ {t}) = Cardinality(Users(b)) - 1
  BY <1>2, <1>4, FS_RemoveElement, Zenon
<1>6. Cardinality(Users(b)) # 0
  BY <1>2, <1>4, FS_EmptySet, Zenon
<1>7. Cardinality(Users(b)) >= 1
  BY <1>4, <1>6, SMT
<1> QED
  BY <1>2, <1>3, <1>5, <1>7, Zenon

\* A buffer without references has no user and no pin.
LEMMA Unreferenced ==
  ASSUME CacheInv, NEW b \in Buf, refcnt[b] = 0
  PROVE  (\A t \in Thr : buf[t] # b) /\ blockno[b] \notin pinned
<1>1. refcnt[b] = Cardinality(Users(b)) + Pins(b)
  BY RefcntSum, Zenon DEF CacheInv
<1>2. IsFiniteSet(Users(b)) /\ Cardinality(Users(b)) \in Nat
  BY UsersFacts, Zenon
<1>3. Pins(b) \in {0, 1}
  BY Zenon DEF Pins
<1>4. Cardinality(Users(b)) = 0 /\ Pins(b) = 0
  BY <1>1, <1>2, <1>3, SMT
<1>5. Users(b) = {}
  BY <1>2, <1>4, FS_EmptySet, Zenon
<1>6. blockno[b] \notin pinned
  <2>1. 0 # 1
    BY SMT
  <2> QED
    BY <1>4, <2>1, Zenon DEF Pins
<1> QED
  BY <1>5, <1>6, Zenon DEF Users

\* Most steps change nothing of what CacheInv is about.
LEMMA SameCache ==
  ASSUME CacheInv, UNCHANGED <<blockno, refcnt, buf, blk, pinned, lru>>,
         pc' \in [Thr -> Label], \A t \in Thr : pc'[t] \in Away <=> pc[t] \in Away
  PROVE  CacheInv'
<1>1. CacheTypes'
  BY Zenon DEF CacheInv, CacheTypes
<1>2. OneBufferPerBlock' /\ RefcntExact'
  BY SMTT(30) DEF CacheInv, OneBufferPerBlock, RefcntExact
<1>3. \A t \in Thr : pc'[t] \in Away <=> buf'[t] = None
  BY Zenon DEF CacheInv
<1> QED
  BY <1>1, <1>2, <1>3, Zenon DEF CacheInv

\* bget(), the block is cached: one more reference.
LEMMA BgetHitInv ==
  ASSUME CacheInv, NEW t \in Thr, NEW n \in Block, BgetHit(t, n)
  PROVE  CacheInv'
<1>1. PICK b \in Cached(n) :
        /\ refcnt' = [refcnt EXCEPT ![b] = @ + 1]
        /\ buf' = [buf EXCEPT ![t] = b]
  BY Zenon DEF BgetHit
<1>2. /\ b \in Buf /\ blockno[b] = n /\ pc[t] = "idle"
      /\ blk' = [blk EXCEPT ![t] = n] /\ pc' = [pc EXCEPT ![t] = "lock"]
      /\ UNCHANGED <<blockno, lru, pinned>>
  BY Zenon DEF BgetHit, Cached
<1>3. CacheTypes /\ buf[t] = None
  BY <1>2, Zenon DEF CacheInv, Away
<1>4. /\ \A a \in Buf : refcnt'[a] = IF a = b THEN refcnt[b] + 1 ELSE refcnt[a]
      /\ \A u \in Thr : /\ buf'[u] = IF u = t THEN b ELSE buf[u]
                        /\ blk'[u] = IF u = t THEN n ELSE blk[u]
                        /\ pc'[u] = IF u = t THEN "lock" ELSE pc[u]
  BY <1>1, <1>2, <1>3, Zenon DEF CacheTypes
<1>5. CacheTypes'
  <2>1. refcnt' \in [Buf -> Nat]
    BY <1>1, <1>2, <1>3, SMT DEF CacheTypes
  <2>2. buf' \in [Thr -> Buf \cup {None}] /\ blk' \in [Thr -> Block \cup {None}]
    BY <1>1, <1>2, <1>3, Zenon DEF CacheTypes
  <2>3. pc' \in [Thr -> Label]
    BY <1>2, <1>3, Zenon DEF CacheTypes, Label
  <2> QED
    BY <1>2, <1>3, <2>1, <2>2, <2>3, Zenon DEF CacheTypes
<1>6. \A u \in Thr : pc'[u] \in Away <=> buf'[u] = None
  BY <1>2, <1>4, NoneAssumption, SMTT(30) DEF CacheInv, Away
<1>7. \A u \in Thr : buf'[u] # None => blk'[u] \in Block /\ blockno'[buf'[u]] = blk'[u]
  BY <1>2, <1>4, SMTT(30) DEF CacheInv
<1>8. RefcntExact'
  <2>1. \A a \in Buf : refcnt[a] = Cardinality(Users(a)) + Pins(a)
    BY RefcntSum, Zenon DEF CacheInv
  <2>2. /\ Cardinality(Users(b)') = Cardinality(Users(b)) + 1
        /\ \A a \in Buf : a # b => Users(a)' = Users(a)
    BY <1>1, <1>2, <1>3, OneMoreUser, Zenon
  <2>3. \A a \in Buf : Pins(a)' = Pins(a)
    BY <1>2, Zenon DEF Pins
  <2>4. Cardinality(Users(b)) \in Nat /\ Pins(b) \in Nat
    BY <1>2, UsersFacts, SMT DEF Pins
  <2>5. refcnt'[b] = Cardinality(Users(b)') + Pins(b)'
    <3>1. refcnt[b] + 1 = (Cardinality(Users(b)) + 1) + Pins(b)
      BY <1>2, <2>1, <2>4, SMT
    <3> QED
      BY <1>2, <1>4, <2>2, <2>3, <3>1, Zenon
  <2>6. \A a \in Buf : refcnt'[a] = Cardinality(Users(a)') + Pins(a)'
    BY <1>4, <2>1, <2>2, <2>3, <2>5, Zenon
  <2> QED
    BY <2>6, RefcntSumNext, Zenon
<1>9. OneBufferPerBlock'
  BY <1>2, Zenon DEF CacheInv, OneBufferPerBlock
<1> QED
  BY <1>2, <1>5, <1>6, <1>7, <1>8, <1>9, Zenon DEF CacheInv

\* bget(), the block is not cached: a buffer without references is recycled.
LEMMA BgetMissInv ==
  ASSUME CacheInv, NEW t \in Thr, NEW n \in Block, BgetMiss(t, n)
  PROVE  CacheInv'
<1>0. Victim \in Buf /\ refcnt[Victim] = 0
  BY VictimFacts, Zenon DEF BgetMiss
<1>1. PICK v \in Buf :
        /\ v = Victim
        /\ \A u \in Thr : buf[u] # v
        /\ blockno[v] \notin pinned
  BY <1>0, Unreferenced, Zenon
<1>2. /\ pc[t] = "idle" /\ \A b \in Buf : blockno[b] # n
      /\ blockno' = [blockno EXCEPT ![v] = n]
      /\ refcnt' = [refcnt EXCEPT ![v] = 1]
      /\ buf' = [buf EXCEPT ![t] = v]
      /\ blk' = [blk EXCEPT ![t] = n] /\ pc' = [pc EXCEPT ![t] = "lock"]
      /\ UNCHANGED <<lru, pinned>>
  BY <1>1, Zenon DEF BgetMiss, Cached
<1>3. CacheTypes /\ buf[t] = None
  BY <1>2, Zenon DEF CacheInv, Away
<1>4. /\ \A a \in Buf : /\ refcnt'[a] = IF a = v THEN 1 ELSE refcnt[a]
                        /\ blockno'[a] = IF a = v THEN n ELSE blockno[a]
      /\ \A u \in Thr : /\ buf'[u] = IF u = t THEN v ELSE buf[u]
                        /\ blk'[u] = IF u = t THEN n ELSE blk[u]
                        /\ pc'[u] = IF u = t THEN "lock" ELSE pc[u]
  BY <1>1, <1>2, <1>3, Zenon DEF CacheTypes
<1>5. CacheTypes'
  <2>1. refcnt' \in [Buf -> Nat]
    BY <1>1, <1>2, <1>3, SMT DEF CacheTypes
  <2>2. /\ buf' \in [Thr -> Buf \cup {None}] /\ blk' \in [Thr -> Block \cup {None}]
        /\ blockno' \in [Buf -> Block \cup {None}]
    BY <1>1, <1>2, <1>3, Zenon DEF CacheTypes
  <2>3. pc' \in [Thr -> Label]
    BY <1>2, <1>3, Zenon DEF CacheTypes, Label
  <2> QED
    BY <1>2, <1>3, <2>1, <2>2, <2>3, Zenon DEF CacheTypes
<1>6. \A u \in Thr : pc'[u] \in Away <=> buf'[u] = None
  BY <1>1, <1>2, <1>4, NoneAssumption, SMTT(30) DEF CacheInv, Away
<1>7. \A u \in Thr : buf'[u] # None => blk'[u] \in Block /\ blockno'[buf'[u]] = blk'[u]
  <2>1. ASSUME NEW u \in Thr, u # t, buf'[u] # None
        PROVE  blk'[u] \in Block /\ blockno'[buf'[u]] = blk'[u]
    <3>1. buf'[u] = buf[u] /\ buf[u] \in Buf /\ buf[u] # v /\ blk'[u] = blk[u]
      BY <1>1, <1>3, <1>4, <2>1, SMTT(30) DEF CacheTypes
    <3> QED
      BY <1>4, <2>1, <3>1, SMTT(30) DEF CacheInv
  <2>2. blk'[t] \in Block /\ blockno'[buf'[t]] = blk'[t]
    BY <1>1, <1>4, Zenon
  <2> QED
    BY <2>1, <2>2, Zenon
<1>8. n \notin pinned
  BY <1>2, Zenon DEF CacheInv
<1>9. \A m \in pinned' : \E b \in Buf : blockno'[b] = m
  BY <1>1, <1>2, <1>4, SMTT(30) DEF CacheInv
<1>10. OneBufferPerBlock'
  BY <1>2, <1>4, SMTT(30) DEF CacheInv, OneBufferPerBlock
<1>11. RefcntExact'
  <2>1. \A a \in Buf : refcnt[a] = Cardinality(Users(a)) + Pins(a)
    BY RefcntSum, Zenon DEF CacheInv
  <2>2. /\ Cardinality(Users(v)') = Cardinality(Users(v)) + 1
        /\ \A a \in Buf : a # v => Users(a)' = Users(a)
    BY <1>1, <1>2, <1>3, OneMoreUser, Zenon
  <2>3. Cardinality(Users(v)) = 0
    <3>1. Users(v) = {}
      BY <1>1, Zenon DEF Users
    <3> QED
      BY <3>1, FS_EmptySet, Zenon
  <2>4. Pins(v)' = 0 /\ \A a \in Buf : a # v => Pins(a)' = Pins(a)
    BY <1>1, <1>2, <1>4, <1>8, SMTT(30) DEF Pins
  <2>5. 1 = (0 + 1) + 0
    BY SMT
  <2>6. refcnt'[v] = Cardinality(Users(v)') + Pins(v)'
    BY <1>1, <1>4, <2>2, <2>3, <2>4, <2>5, Zenon
  <2>7. \A a \in Buf : refcnt'[a] = Cardinality(Users(a)') + Pins(a)'
    BY <1>4, <2>1, <2>2, <2>4, <2>6, Zenon
  <2> QED
    BY <2>7, RefcntSumNext, Zenon
<1> QED
  BY <1>2, <1>5, <1>6, <1>7, <1>9, <1>10, <1>11, Zenon DEF CacheInv

\* bpin() and bunpin(): the pin of a block and the count of its buffer change
\* together, and no other buffer has that block.
LEMMA PinStep ==
  ASSUME CacheInv, NEW t \in Thr, buf[t] \in Buf,
         UNCHANGED <<blockno, buf, blk, lru>>,
         pc' \in [Thr -> Label], \A u \in Thr : pc'[u] \in Away <=> pc[u] \in Away,
         \/ /\ blk[t] \notin pinned /\ pinned' = pinned \cup {blk[t]}
            /\ refcnt' = [refcnt EXCEPT ![buf[t]] = @ + 1]
         \/ /\ blk[t] \in pinned /\ pinned' = pinned \ {blk[t]}
            /\ refcnt' = [refcnt EXCEPT ![buf[t]] = @ - 1]
  PROVE  CacheInv'
<1>0. buf[t] # None
  BY NoneAssumption, Zenon
<1>1. PICK b \in Buf, n \in Block : b = buf[t] /\ n = blk[t] /\ blockno[b] = n
  BY <1>0, Zenon DEF CacheInv
<1>2. \A a \in Buf : a # b => blockno[a] # n
  BY <1>1, NoneAssumption, SMTT(30) DEF CacheInv, OneBufferPerBlock
<1>3. CacheTypes
  BY Zenon DEF CacheInv
<1>4. \A a \in Buf : refcnt[a] = Cardinality(Users(a)) + Pins(a)
  BY RefcntSum, Zenon DEF CacheInv
<1>5. \A a \in Buf : Users(a)' = Users(a)
  BY Zenon DEF Users
<1>6. Cardinality(Users(b)) \in Nat
  BY <1>1, UsersFacts, Zenon
<1>16. /\ \A m : m # n => (m \in pinned' <=> m \in pinned)
       /\ \A m \in pinned' : m = n \/ m \in pinned
  BY <1>1, Zenon
<1>7. /\ pinned' \in SUBSET Block
      /\ \A m \in pinned' : \E a \in Buf : blockno'[a] = m
  <2>1. pinned \in SUBSET Block /\ \A m \in pinned : \E a \in Buf : blockno[a] = m
    BY <1>3, Zenon DEF CacheInv, CacheTypes
  <2> QED
    BY <1>1, <1>16, <2>1, Zenon
<1>8. \A a \in Buf : a # b => Pins(a)' = Pins(a)
  <2> TAKE a \in Buf
  <2> HAVE a # b
  <2>1. blockno'[a] = blockno[a] /\ blockno[a] # n
    BY <1>2, Zenon
  <2> QED
    BY <1>16, <2>1, Zenon DEF Pins
<1>9. /\ refcnt' \in [Buf -> Nat]
      /\ refcnt'[b] = Cardinality(Users(b)) + Pins(b)'
      /\ \A a \in Buf : a # b => refcnt'[a] = refcnt[a]
  <2>1. CASE /\ n \notin pinned /\ pinned' = pinned \cup {n}
             /\ refcnt' = [refcnt EXCEPT ![b] = @ + 1]
    <3>1. Pins(b) = 0 /\ Pins(b)' = 1
      BY <1>1, <2>1, Zenon DEF Pins
    <3>2. refcnt[b] = Cardinality(Users(b)) + 0
      BY <1>1, <1>4, <3>1, Zenon
    <3>3. refcnt[b] + 1 = Cardinality(Users(b)) + 1 /\ refcnt[b] + 1 \in Nat
      BY <1>6, <3>2, SMT
    <3>4. refcnt' \in [Buf -> Nat]
      BY <1>1, <1>3, <2>1, <3>3, Zenon DEF CacheTypes
    <3> QED
      BY <1>1, <1>3, <2>1, <3>1, <3>3, <3>4, Zenon DEF CacheTypes
  <2>2. CASE /\ n \in pinned /\ pinned' = pinned \ {n}
             /\ refcnt' = [refcnt EXCEPT ![b] = @ - 1]
    <3>1. Pins(b) = 1 /\ Pins(b)' = 0
      BY <1>1, <2>2, Zenon DEF Pins
    <3>2. refcnt[b] = Cardinality(Users(b)) + 1
      BY <1>1, <1>4, <3>1, Zenon
    <3>3. refcnt[b] - 1 = Cardinality(Users(b)) + 0 /\ refcnt[b] - 1 \in Nat
      BY <1>6, <3>2, SMT
    <3>4. refcnt' \in [Buf -> Nat]
      BY <1>1, <1>3, <2>2, <3>3, Zenon DEF CacheTypes
    <3> QED
      BY <1>1, <1>3, <2>2, <3>1, <3>3, <3>4, Zenon DEF CacheTypes
  <2> QED
    BY <1>1, <2>1, <2>2, Zenon
<1>10. RefcntExact'
  <2>1. \A a \in Buf : refcnt'[a] = Cardinality(Users(a)') + Pins(a)'
    <3> TAKE a \in Buf
    <3>1. CASE a = b
      BY <1>1, <1>5, <1>9, <3>1, Zenon
    <3>2. CASE a # b
      BY <1>4, <1>5, <1>8, <1>9, <3>2, Zenon
    <3> QED
      BY <3>1, <3>2, Zenon
  <2> QED
    BY <2>1, RefcntSumNext, Zenon
<1>11. CacheTypes'
  BY <1>3, <1>7, <1>9, Zenon DEF CacheTypes
<1>12. OneBufferPerBlock'
  BY Zenon DEF CacheInv, OneBufferPerBlock
<1>13. \A u \in Thr : pc'[u] \in Away <=> buf'[u] = None
  BY Zenon DEF CacheInv
<1>14. \A u \in Thr : buf'[u] # None => blk'[u] \in Block /\ blockno'[buf'[u]] = blk'[u]
  BY Zenon DEF CacheInv
<1>15. \A a \in Buf : \E i \in 1 .. Len(lru') : lru'[i] = a
  BY Zenon DEF CacheInv
<1> QED
  BY <1>7, <1>10, <1>11, <1>12, <1>13, <1>14, <1>15, Zenon DEF CacheInv

\* A process that is not away has a buffer.
LEMMA HasBuffer ==
  ASSUME CacheInv, NEW t \in Thr, pc[t] \notin Away
  PROVE  buf[t] \in Buf /\ blk[t] \in Block /\ blockno[buf[t]] = blk[t]
  BY SMTT(30) DEF CacheInv, CacheTypes

\* A step of t from one place with a buffer to another.
LEMMA GotoFacts ==
  ASSUME CacheInv, NEW t \in Thr, NEW l \in Label \ Away, pc[t] \notin Away,
         pc' = [pc EXCEPT ![t] = l]
  PROVE  pc' \in [Thr -> Label] /\ \A u \in Thr : pc'[u] \in Away <=> pc[u] \in Away
<1>1. pc \in [Thr -> Label]
  BY Zenon DEF CacheInv, CacheTypes
<1> QED
  BY <1>1, Zenon

\* brelse(): the reference goes, and the buffer to the front if it was the last.
LEMMA BrelseInv ==
  ASSUME CacheInv, NEW t \in Thr, Brelse(t)
  PROVE  CacheInv'
<1>0. PICK b \in Buf : b = buf[t] /\ pc[t] = "drop"
  BY HasBuffer, Zenon DEF Brelse, Away
<1>1. /\ pc[t] = "drop"
      /\ refcnt' = [refcnt EXCEPT ![b] = @ - 1]
      /\ buf' = [buf EXCEPT ![t] = None] /\ blk' = [blk EXCEPT ![t] = None]
      /\ pc' = [pc EXCEPT ![t] = "idle"]
      /\ UNCHANGED <<blockno, pinned>>
  BY <1>0, Zenon DEF Brelse
<1>2. CacheTypes /\ b \in Buf
  BY Zenon DEF CacheInv
<1>3. lru' \in Seq(Buf) /\ \A a \in Buf : \E i \in 1 .. Len(lru') : lru'[i] = a
  <2>1. lru' = lru \/ lru' = ToFront(b)
    BY <1>0, Zenon DEF Brelse
  <2>2. CASE lru' = lru
    BY <1>2, <2>2, Zenon DEF CacheInv, CacheTypes
  <2>3. CASE lru' = ToFront(b)
    BY <1>2, <2>3, MoveToFront, Zenon
  <2> QED
    BY <2>1, <2>2, <2>3, Zenon
<1>4. /\ \A u \in Thr : /\ buf'[u] = IF u = t THEN None ELSE buf[u]
                        /\ blk'[u] = IF u = t THEN None ELSE blk[u]
                        /\ pc'[u] = IF u = t THEN "idle" ELSE pc[u]
      /\ \A a \in Buf : refcnt'[a] = IF a = b THEN refcnt[b] - 1 ELSE refcnt[a]
  BY <1>1, <1>2, Zenon DEF CacheTypes
<1>5. /\ Cardinality(Users(b)') = Cardinality(Users(b)) - 1
      /\ Cardinality(Users(b)) >= 1
      /\ \A a \in Buf : a # b => Users(a)' = Users(a)
  BY <1>0, <1>1, <1>2, OneUserLess, Zenon
<1>6. \A a \in Buf : refcnt[a] = Cardinality(Users(a)) + Pins(a)
  BY RefcntSum, Zenon DEF CacheInv
<1>7. \A a \in Buf : Pins(a)' = Pins(a)
  BY <1>1, Zenon DEF Pins
<1>8. /\ refcnt[b] - 1 = (Cardinality(Users(b)) - 1) + Pins(b)
      /\ refcnt[b] - 1 \in Nat
  <2>1. Cardinality(Users(b)) \in Nat /\ Pins(b) \in Nat
    BY <1>2, UsersFacts, SMT DEF Pins
  <2> QED
    BY <1>2, <1>5, <1>6, <2>1, SMT
<1>9. RefcntExact'
  <2>1. \A a \in Buf : refcnt'[a] = Cardinality(Users(a)') + Pins(a)'
    <3> TAKE a \in Buf
    <3>1. CASE a = b
      BY <1>4, <1>5, <1>7, <1>8, <3>1, Zenon
    <3>2. CASE a # b
      BY <1>4, <1>5, <1>6, <1>7, <3>2, Zenon
    <3> QED
      BY <3>1, <3>2, Zenon
  <2> QED
    BY <2>1, RefcntSumNext, Zenon
<1>10. CacheTypes'
  <2>1. refcnt' \in [Buf -> Nat]
    BY <1>1, <1>2, <1>8, Zenon DEF CacheTypes
  <2>2. buf' \in [Thr -> Buf \cup {None}] /\ blk' \in [Thr -> Block \cup {None}]
    BY <1>1, <1>2, Zenon DEF CacheTypes
  <2>3. pc' \in [Thr -> Label]
    BY <1>1, <1>2, Zenon DEF CacheTypes, Label
  <2> QED
    BY <1>1, <1>2, <1>3, <2>1, <2>2, <2>3, Zenon DEF CacheTypes
<1>11. OneBufferPerBlock'
  BY <1>1, Zenon DEF CacheInv, OneBufferPerBlock
<1>12. \A u \in Thr : pc'[u] \in Away <=> buf'[u] = None
  BY <1>4, Zenon DEF CacheInv, Away
<1>13. \A u \in Thr : buf'[u] # None => blk'[u] \in Block /\ blockno'[buf'[u]] = blk'[u]
  BY <1>1, <1>4, SMTT(30) DEF CacheInv
<1>14. \A n \in pinned' : \E a \in Buf : blockno'[a] = n
  BY <1>1, Zenon DEF CacheInv
<1> QED
  BY <1>3, <1>9, <1>10, <1>11, <1>12, <1>13, <1>14, Zenon DEF CacheInv

\* Every step of a process preserves CacheInv.
LEMMA ProcessCache ==
  ASSUME CacheInv, NEW t \in Thr, Process(t)
  PROVE  CacheInv'
<1> USE DEF cacheVars, driverVars
<1>0. pc \in [Thr -> Label]
  BY Zenon DEF CacheInv, CacheTypes
<1>1. CASE NoDesc(t) /\ UNCHANGED cacheVars
  BY <1>0, <1>1, SameCache, Zenon DEF NoDesc
<1>2. CASE Submit(t) /\ UNCHANGED cacheVars
  <2>1. pc[t] \notin Away /\ pc' = [pc EXCEPT ![t] = "io"] /\ "io" \in Label \ Away
    BY <1>2, Zenon DEF Submit, Awake, Away, Label
  <2> QED
    BY <1>2, <2>1, GotoFacts, SameCache, Zenon DEF Submit
<1>3. CASE Transferred(t)
  <2>1. PICK l \in {"written", "hold"} : pc' = [pc EXCEPT ![t] = l]
    BY <1>3, Zenon DEF Transferred, Finish
  <2>2. pc[t] \notin Away /\ l \in Label \ Away
    BY <1>3, Zenon DEF Transferred, Finish, Awake, Away, Label
  <2> QED
    BY <1>3, <2>1, <2>2, GotoFacts, SameCache, Zenon DEF Transferred, Finish
<1>4. CASE AcquireBusy(t)
  BY <1>0, <1>4, SameCache, Zenon DEF AcquireBusy
<1>5. CASE Acquire(t)
  <2>1. PICK l \in {"desc", "hold"} : pc' = [pc EXCEPT ![t] = l]
    BY <1>5, Zenon DEF Acquire
  <2>2. pc[t] \notin Away /\ l \in Label \ Away
    BY <1>5, Zenon DEF Acquire, Awake, Away, Label
  <2> QED
    BY <1>5, <2>1, <2>2, GotoFacts, SameCache, Zenon DEF Acquire
<1>6. CASE LogWrite(t)
  <2>1. pc[t] \notin Away /\ pc' = [pc EXCEPT ![t] = "release"] /\ "release" \in Label \ Away
    BY <1>6, Zenon DEF LogWrite, Away, Label
  <2>2. pc' \in [Thr -> Label] /\ \A u \in Thr : pc'[u] \in Away <=> pc[u] \in Away
    BY <2>1, GotoFacts, Zenon
  <2>3. UNCHANGED <<blockno, buf, blk, lru>> /\ buf[t] \in Buf
    BY <1>6, <2>1, HasBuffer, Zenon DEF LogWrite
  <2>4. CASE UNCHANGED <<refcnt, pinned>>
    BY <2>2, <2>3, <2>4, SameCache, Zenon
  <2>5. CASE /\ NeedsPin(t) /\ refcnt' = [refcnt EXCEPT ![buf[t]] = @ + 1]
             /\ pinned' = pinned \cup {blk[t]}
    BY <2>2, <2>3, <2>5, PinStep, Zenon DEF NeedsPin
  <2> QED
    BY <1>6, <2>4, <2>5, Zenon DEF LogWrite
<1>7. CASE WriteThrough(t) \/ Install(t)
  <2>1. pc[t] \notin Away /\ pc' = [pc EXCEPT ![t] = "desc"] /\ "desc" \in Label \ Away
    BY <1>7, Zenon DEF WriteThrough, Install, Away, Label
  <2> QED
    BY <1>7, <2>1, GotoFacts, SameCache, Zenon DEF WriteThrough, Install
<1>8. CASE Unpin(t)
  <2>1. pc[t] \notin Away /\ pc' = [pc EXCEPT ![t] = "release"] /\ "release" \in Label \ Away
    BY <1>8, Zenon DEF Unpin, Away, Label
  <2>2. pc' \in [Thr -> Label] /\ \A u \in Thr : pc'[u] \in Away <=> pc[u] \in Away
    BY <2>1, GotoFacts, Zenon
  <2>3. UNCHANGED <<blockno, buf, blk, lru>> /\ buf[t] \in Buf
    BY <1>8, <2>1, HasBuffer, Zenon DEF Unpin
  <2> QED
    BY <1>8, <2>2, <2>3, PinStep, Zenon DEF Unpin
<1>9. CASE ReleaseSleep(t)
  <2>1. pc[t] \notin Away /\ pc' = [pc EXCEPT ![t] = "drop"] /\ "drop" \in Label \ Away
    BY <1>9, Zenon DEF ReleaseSleep, Away, Label
  <2> QED
    BY <1>9, <2>1, GotoFacts, SameCache, Zenon DEF ReleaseSleep
<1> QED
  BY <1>1, <1>2, <1>3, <1>4, <1>5, <1>6, <1>7, <1>8, <1>9, BrelseInv, Zenon DEF Process

\* CacheInv is an invariant of the cache over the driver.
THEOREM CacheInvariant == Spec => []CacheInv
<1> USE DEF cacheVars, driverVars
<1>1. Init => CacheInv
  <2> SUFFICES ASSUME Init PROVE CacheInv
    BY Zenon
  <2>1. lru \in Seq(Buf) /\ \A b \in Buf : \E i \in 1 .. Len(lru) : lru[i] = b
    BY InitList, Zenon DEF Init
  <2>2. /\ blockno = [b \in Buf |-> None] /\ refcnt = [b \in Buf |-> 0]
        /\ pc = [t \in Thr |-> "idle"] /\ buf = [t \in Thr |-> None]
        /\ blk = [t \in Thr |-> None] /\ pinned = {}
    BY Zenon DEF Init
  <2>3. 0 \in Nat /\ 0 = 0 + 0
    BY SMT
  <2>4. CacheTypes
    BY <2>1, <2>2, <2>3, Zenon DEF CacheTypes, Label
  <2>5. RefcntExact
    <3>1. \A b \in Buf : refcnt[b] = 0 /\ Users(b) = {} /\ Pins(b) = 0
      BY <2>2, NoneAssumption, Zenon DEF Users, Pins
    <3>2. \A b \in Buf : refcnt[b] = Cardinality(Users(b)) + Pins(b)
      BY <2>3, <3>1, FS_EmptySet, Zenon
    <3> QED
      BY <3>2, RefcntSum, Zenon
  <2>6. OneBufferPerBlock
    BY <2>2, Zenon DEF OneBufferPerBlock
  <2> QED
    BY <2>1, <2>2, <2>4, <2>5, <2>6, Zenon DEF CacheInv, Away
<1>2. CacheInv /\ [Next]_vars => CacheInv'
  <2> SUFFICES ASSUME CacheInv, [Next]_vars PROVE CacheInv'
    BY Zenon
  <2>0. pc \in [Thr -> Label]
    BY Zenon DEF CacheInv, CacheTypes
  <2>1. ASSUME NEW t \in Thr, Bread(t) PROVE CacheInv'
    <3>1. PICK n \in Wants[t] : BgetHit(t, n) \/ BgetMiss(t, n) \/ BgetPanic(t, n)
      BY <2>1, Zenon DEF Bread
    <3>2. n \in Block
      BY WantsAssumption, Zenon
    <3>3. CASE BgetPanic(t, n)
      <4>1. pc[t] = "idle" /\ pc' = [pc EXCEPT ![t] = "panic"]
        BY <3>3, Zenon DEF BgetPanic
      <4>2. pc' \in [Thr -> Label] /\ \A u \in Thr : pc'[u] \in Away <=> pc[u] \in Away
        BY <2>0, <4>1, Zenon DEF Label, Away
      <4> QED
        BY <3>3, <4>2, SameCache, Zenon DEF BgetPanic
    <3> QED
      BY <3>1, <3>2, <3>3, BgetHitInv, BgetMissInv, Zenon
  <2>2. CASE (Device \/ Interrupt) /\ UNCHANGED cacheVars
    <3>1. UNCHANGED <<blockno, buf, pc>>
      BY <2>2, Zenon
      DEF Device, DeviceDone, Interrupt, IntrAck, IntrEntry, IntrReturn, IntrFrame
    <3> QED
      BY <2>0, <2>2, <3>1, SameCache, Zenon
  <2>3. CASE UNCHANGED vars
    BY <2>0, <2>3, SameCache, Zenon DEF vars
  <2> QED
    BY <2>1, <2>2, <2>3, ProcessCache, Zenon DEF Next
<1> QED
  BY <1>1, <1>2, PTL DEF Spec

\* bget() never gives one block two buffers.
THEOREM BlocksHaveOneBuffer == Spec => []OneBufferPerBlock
<1>1. CacheInv => OneBufferPerBlock
  BY Zenon DEF CacheInv
<1> QED
  BY <1>1, CacheInvariant, PTL

\* No reference is lost or invented: refcnt is the number of processes between
\* bget() and brelse() of a buffer, plus its pin.
THEOREM ReferencesAreExact == Spec => []RefcntExact
<1>1. CacheInv => RefcntExact
  BY Zenon DEF CacheInv
<1> QED
  BY <1>1, CacheInvariant, PTL

-----------------------------------------------------------------------------
(* The cache and the driver together.                                        *)

\* Between acquiresleep() and releasesleep(); with valid data; in virtio_disk_rw().
Holding == {"desc", "io", "hold", "release", "written"}
Using == {"hold", "release", "written"}
InDriver == {"desc", "io"}

Request == [buf : Buf, blk : Block, write : BOOLEAN]
HeadOf(t) == Lowest(idx[t])
InUsed(i) == \E k \in 1 .. Len(used) : used[k] = i
LockChan(b) == <<"lock", b>>
Channel == {FreeChan} \cup {DiskChan(b) : b \in Buf} \cup {LockChan(b) : b \in Buf}

DiskTypes ==
  /\ free \in SUBSET Desc /\ avail \in SUBSET Desc
  /\ idx \in [Thr -> SUBSET Desc]
  /\ ops \in [Desc -> Request \cup {None}]
  /\ info \in [Desc -> Buf \cup {None}]
  /\ used \in Seq(Desc)
  /\ write \in [Thr -> BOOLEAN]
  /\ lock \in [Buf -> Thr \cup {None}]
  /\ chan \in [Thr -> Channel \cup {None}]

\* Whoever is between acquiresleep() and releasesleep() has the lock.
HoldInv == \A t \in Thr : pc[t] \in Holding => lock[buf[t]] = t

\* The requests under way: a chain belongs to one process, its head describes the
\* process's request, and it is in the available ring, in the used ring (once), or
\* in neither; b->disk is 1 while it is in one of them, which hold nothing else.
QueueInv ==
  /\ \A t \in Thr : pc[t] = "io" => idx[t] # {}
  /\ \A t \in Thr : \A i \in idx[t] : i \notin free
  /\ \A t, u \in Thr : t # u => \A i \in idx[t] : i \notin idx[u]
  /\ \A t \in Thr : pc[t] = "io" =>
       /\ ops[HeadOf(t)] = [buf |-> buf[t], blk |-> blk[t], write |-> write[t]]
       /\ info[HeadOf(t)] = buf[t]
       /\ HeadOf(t) \in avail => ~InUsed(HeadOf(t))
       /\ buf[t] \in bdisk <=> HeadOf(t) \in avail \/ InUsed(HeadOf(t))
  /\ \A i \in Desc : i \in avail \/ InUsed(i) => \E t \in Thr : pc[t] = "io" /\ i = HeadOf(t)
  /\ \A j, k \in 1 .. Len(used) : used[j] = used[k] => j = k

\* The device has moved the data of t's request.
Moved(t) == IF write[t] THEN blk[t] \in dfresh ELSE buf[t] \in fresh

\* Where the latest data is.  A valid buffer has it; so does the disk, unless the
\* block is pinned or being written, and then a valid buffer caches the block.
DataInv ==
  /\ \A b \in valid : b \in fresh
  /\ \A t \in Thr : pc[t] \in Using => buf[t] \in valid
  /\ \A t \in Thr : pc[t] \in InDriver => (write[t] <=> buf[t] \in valid)
  /\ \A n \in pinned : \E b \in Buf : blockno[b] = n /\ b \in valid
  /\ \A n \in Block : n \in dfresh \/ n \in pinned
       \/ \E t \in Thr : blk[t] = n /\ pc[t] \in InDriver /\ write[t]
  /\ \A t \in Thr : pc[t] = "written" => blk[t] \in dfresh
  /\ \A t \in Thr : pc[t] = "io" /\ HeadOf(t) \notin avail => Moved(t)

\* A sleeper sleeps on the channel of what it waits for, and that has not happened;
\* a used entry has an interrupt to come.
ChanInv ==
  /\ \A t \in Thr : chan[t] # None =>
       \/ pc[t] = "io" /\ chan[t] = DiskChan(buf[t]) /\ buf[t] \in bdisk
       \/ pc[t] = "desc" /\ chan[t] = FreeChan /\ Cardinality(free) < 3
       \/ pc[t] = "lock" /\ chan[t] = LockChan(buf[t]) /\ lock[buf[t]] # None
  /\ used # <<>> => irq \/ handler = "loop"

DriverInv == DiskTypes /\ HoldInv /\ QueueInv /\ DataInv /\ ChanInv
DiskInv == CacheInv /\ DriverInv

-----------------------------------------------------------------------------
(* Chains and rings.                                                         *)

\* The facts DiskInv gives about a process that holds a lock: its buffer, and that
\* nobody else holds the same buffer or another one of the same block.
LEMMA HolderFacts ==
  ASSUME CacheInv, HoldInv, NEW t \in Thr, pc[t] \in Holding
  PROVE  /\ buf[t] \in Buf /\ blk[t] \in Block /\ blockno[buf[t]] = blk[t]
         /\ lock[buf[t]] = t
         /\ \A b \in Buf : blockno[b] = blk[t] => b = buf[t]
         /\ \A u \in Thr : pc[u] \in Holding /\ u # t => buf[u] # buf[t] /\ blk[u] # blk[t]
<1>1. ASSUME NEW u \in Thr, pc[u] \in Holding
      PROVE  buf[u] \in Buf /\ blk[u] \in Block /\ blockno[buf[u]] = blk[u] /\ lock[buf[u]] = u
  <2>1. pc[u] \notin Away
    BY <1>1, Zenon DEF Holding, Away
  <2> QED
    BY <1>1, <2>1, HasBuffer, Zenon DEF HoldInv
<1>2. \A b \in Buf : blockno[b] = blk[t] => b = buf[t]
  BY <1>1, NoneAssumption, SMTT(30) DEF CacheInv, OneBufferPerBlock
<1> QED
  BY <1>1, <1>2, SMTT(30)

\* alloc3_desc(): three free descriptors are a chain, headed by the lowest.
LEMMA ChainFacts ==
  ASSUME free \in SUBSET Desc, Cardinality(free) >= 3
  PROVE  /\ Lowest(free) \in free /\ Lowest(free) \in Desc
         /\ Chain \in SUBSET free /\ Chain # {}
         /\ Lowest(Chain) = Lowest(free)
<1> DEFINE a == Lowest(free)
           b == Lowest(free \ {a})
           c == Lowest(free \ {a, b})
<1>1. free \in SUBSET Nat /\ IsFiniteSet(free) /\ Cardinality(free) \in Nat
  <2>1. IsFiniteSet(Desc) /\ Desc \in SUBSET Nat
    <3>1. 0 \in Int /\ NUM - 1 \in Int /\ Desc \in SUBSET Nat
      BY NumAssumption, SMT DEF Desc
    <3> QED
      BY <3>1, FS_Interval, Zenon DEF Desc
  <2>2. IsFiniteSet(free)
    BY <2>1, FS_Subset, Zenon
  <2> QED
    BY <2>1, <2>2, FS_CardinalityType, Zenon
<1>2. free # {}
  <2>1. Cardinality(free) # 0
    BY <1>1, SMT
  <2> QED
    BY <2>1, FS_EmptySet, Zenon
<1>3. a \in free /\ \A y \in free : a <= y
  BY <1>1, <1>2, LowestFacts, Zenon
<1> HIDE DEF a
<1>4. IsFiniteSet(free \ {a}) /\ Cardinality(free \ {a}) = Cardinality(free) - 1
  BY <1>1, <1>3, FS_RemoveElement, Zenon
<1>5. free \ {a} # {}
  <2>1. Cardinality(free \ {a}) # 0
    BY <1>1, <1>4, SMT
  <2> QED
    BY <2>1, FS_EmptySet, Zenon
<1>6. b \in free \ {a}
  <2>1. free \ {a} \in SUBSET Nat
    BY <1>1, Zenon
  <2> QED
    BY <1>5, <2>1, LowestFacts, Zenon
<1> HIDE DEF b
<1>7. free \ {a, b} # {}
  <2>1. Cardinality((free \ {a}) \ {b}) = Cardinality(free \ {a}) - 1
    BY <1>4, <1>6, FS_RemoveElement, Zenon
  <2>2. Cardinality((free \ {a}) \ {b}) # 0
    BY <1>1, <1>4, <2>1, SMT
  <2>3. (free \ {a}) \ {b} # {}
    BY <2>2, FS_EmptySet, Zenon
  <2> QED
    BY <2>3, Zenon
<1>8. c \in free
  <2>1. free \ {a, b} \in SUBSET Nat
    BY <1>1, Zenon
  <2>2. c \in free \ {a, b}
    BY <1>7, <2>1, LowestFacts, Zenon
  <2> QED
    BY <2>2, Zenon
<1> HIDE DEF c
<1>9. Chain = {a, b, c}
  BY Zenon DEF Chain, a, b, c
<1>10. Chain \in SUBSET free /\ a \in Chain /\ Chain \in SUBSET Nat /\ Chain # {}
  BY <1>1, <1>3, <1>6, <1>8, <1>9, Zenon
<1>11. Lowest(Chain) \in Chain /\ Lowest(Chain) <= a
  BY <1>10, LowestFacts, Zenon
<1>12. Lowest(Chain) = a
  <2>1. a <= Lowest(Chain) /\ Lowest(Chain) \in Nat /\ a \in Nat
    BY <1>1, <1>3, <1>10, <1>11, Zenon
  <2> QED
    BY <1>11, <2>1, SMT
<1> QED
  BY <1>3, <1>10, <1>12, Zenon DEF a

\* The head of a chain is one of its descriptors, and no other chain's.
LEMMA HeadFacts ==
  ASSUME DiskTypes, QueueInv, NEW t \in Thr, pc[t] = "io"
  PROVE  /\ HeadOf(t) \in idx[t] /\ HeadOf(t) \in Desc /\ HeadOf(t) \notin free
         /\ \A u \in Thr : pc[u] = "io" /\ u # t => HeadOf(u) # HeadOf(t)
<1>1. ASSUME NEW u \in Thr, pc[u] = "io"
      PROVE  HeadOf(u) \in idx[u] /\ HeadOf(u) \in Desc /\ HeadOf(u) \notin free
  <2>1. idx[u] \in SUBSET Desc /\ idx[u] # {}
    BY <1>1, Zenon DEF DiskTypes, QueueInv
  <2>2. Desc \in SUBSET Nat
    BY NumAssumption, SMT DEF Desc
  <2>3. idx[u] \in SUBSET Nat
    BY <2>1, <2>2, Zenon
  <2>4. HeadOf(u) \in idx[u]
    BY <2>1, <2>3, LowestFacts, Zenon DEF HeadOf
  <2> QED
    BY <2>1, <2>4, Zenon DEF QueueInv
<1> QED
  BY <1>1, Zenon DEF QueueInv

\* The device adds an entry at the end of the used ring.
LEMMA AppendUsed ==
  ASSUME used \in Seq(Desc), NEW i \in Desc, ~InUsed(i), used' = Append(used, i),
         \A j, k \in 1 .. Len(used) : used[j] = used[k] => j = k
  PROVE  /\ used' \in Seq(Desc)
         /\ \A d \in Desc : InUsed(d)' <=> InUsed(d) \/ d = i
         /\ \A j, k \in 1 .. Len(used') : used'[j] = used'[k] => j = k
<1>1. /\ used' \in Seq(Desc) /\ Len(used') = Len(used) + 1
      /\ \A k \in 1 .. Len(used) : used'[k] = used[k]
      /\ used'[Len(used) + 1] = i
      /\ Len(used) \in Nat
  BY AppendProperties, LenProperties, SMTT(30)
<1>2. /\ \A k \in 1 .. Len(used') : k \in 1 .. Len(used) \/ k = Len(used) + 1
      /\ \A k \in 1 .. Len(used) : k \in 1 .. Len(used')
      /\ Len(used) + 1 \in 1 .. Len(used')
  <2>1. ASSUME NEW m \in Nat
        PROVE  /\ \A k \in 1 .. m + 1 : k \in 1 .. m \/ k = m + 1
               /\ \A k \in 1 .. m : k \in 1 .. m + 1
               /\ m + 1 \in 1 .. m + 1
    BY SMT
  <2> QED
    BY <1>1, <2>1, Zenon
<1>3. ASSUME NEW d \in Desc PROVE InUsed(d)' <=> InUsed(d) \/ d = i
  BY <1>1, <1>2, Zenon DEF InUsed
<1>4. \A j, k \in 1 .. Len(used') : used'[j] = used'[k] => j = k
  BY <1>1, <1>2, SMTT(30) DEF InUsed
<1> QED
  BY <1>1, <1>3, <1>4, Zenon

\* The handler takes the first entry of the used ring.
LEMMA TailUsed ==
  ASSUME used \in Seq(Desc), used # <<>>, used' = Tail(used),
         \A j, k \in 1 .. Len(used) : used[j] = used[k] => j = k
  PROVE  /\ Head(used) \in Desc /\ InUsed(Head(used))
         /\ used' \in Seq(Desc)
         /\ \A d \in Desc : InUsed(d)' <=> InUsed(d) /\ d # Head(used)
         /\ \A j, k \in 1 .. Len(used') : used'[j] = used'[k] => j = k
<1>1. /\ Head(used) \in Desc /\ used' \in Seq(Desc) /\ Len(used') = Len(used) - 1
      /\ \A k \in 1 .. Len(used') : used'[k] = used[k + 1]
  BY HeadTailProperties, Zenon
<1>2. Len(used) \in Nat \ {0}
  BY EmptySeq, Zenon
<1>3. Head(used) = used[1]
  BY SMT
<1>4. /\ 1 \in 1 .. Len(used)
      /\ \A k \in 1 .. Len(used') : k + 1 \in 1 .. Len(used) /\ k + 1 # 1 /\ k \in Nat
      /\ \A k \in 1 .. Len(used) : k # 1 => k - 1 \in 1 .. Len(used') /\ (k - 1) + 1 = k
  <2>1. ASSUME NEW m \in Nat \ {0}
        PROVE  /\ 1 \in 1 .. m
               /\ \A k \in 1 .. m - 1 : k + 1 \in 1 .. m /\ k + 1 # 1 /\ k \in Nat
               /\ \A k \in 1 .. m : k # 1 => k - 1 \in 1 .. m - 1 /\ (k - 1) + 1 = k
    BY SMT
  <2> QED
    BY <1>1, <1>2, <2>1, Zenon
<1>5. ASSUME NEW d \in Desc PROVE InUsed(d)' <=> InUsed(d) /\ d # Head(used)
  <2>1. ASSUME InUsed(d)' PROVE InUsed(d) /\ d # Head(used)
    BY <1>1, <1>3, <1>4, <2>1, SMTT(30) DEF InUsed
  <2>2. ASSUME InUsed(d), d # Head(used) PROVE InUsed(d)'
    <3>1. PICK k \in 1 .. Len(used) : used[k] = d
      BY <2>2, Zenon DEF InUsed
    <3>2. k - 1 \in 1 .. Len(used') /\ (k - 1) + 1 = k
      BY <1>3, <1>4, <2>2, <3>1, Zenon
    <3>3. used'[k - 1] = d
      BY <1>1, <3>1, <3>2, Zenon
    <3> QED
      BY <3>2, <3>3, Zenon DEF InUsed
  <2> QED
    BY <2>1, <2>2, Zenon
<1>6. ASSUME NEW j \in 1 .. Len(used'), NEW k \in 1 .. Len(used'), used'[j] = used'[k]
      PROVE  j = k
  <2>1. j + 1 = k + 1
    BY <1>1, <1>4, <1>6, SMTT(30)
  <2> QED
    BY <1>4, <2>1, SMT
<1>7. InUsed(Head(used))
  BY <1>3, <1>4, Zenon DEF InUsed
<1> QED
  BY <1>1, <1>5, <1>6, <1>7, Zenon

-----------------------------------------------------------------------------
(* What leaves each part of the invariant alone.                             *)

\* Nobody new holds a lock.
LEMMA SameHold ==
  ASSUME HoldInv, UNCHANGED lock,
         \A t \in Thr : pc'[t] \in Holding => pc[t] \in Holding /\ buf'[t] = buf[t]
  PROVE  HoldInv'
  BY Zenon DEF HoldInv

\* The rings, the descriptors and the requests under way stay as they are.
LEMMA SameQueue ==
  ASSUME QueueInv, UNCHANGED <<idx, free, ops, info, avail, used, bdisk>>,
         \A t \in Thr : pc'[t] = "io" <=> pc[t] = "io",
         \A t \in Thr : pc[t] = "io" =>
           buf'[t] = buf[t] /\ blk'[t] = blk[t] /\ write'[t] = write[t]
  PROVE  QueueInv'
<1>1. \A t \in Thr : HeadOf(t)' = HeadOf(t)
  BY Zenon DEF HeadOf
<1>2. \A i : InUsed(i)' <=> InUsed(i)
  BY Zenon DEF InUsed
<1>3. ASSUME NEW t \in Thr, pc'[t] = "io"
      PROVE  /\ ops'[HeadOf(t)'] = [buf |-> buf'[t], blk |-> blk'[t], write |-> write'[t]]
             /\ info'[HeadOf(t)'] = buf'[t]
             /\ HeadOf(t)' \in avail' => ~InUsed(HeadOf(t))'
             /\ buf'[t] \in bdisk' <=> HeadOf(t)' \in avail' \/ InUsed(HeadOf(t))'
  <2>1. /\ pc[t] = "io" /\ HeadOf(t)' = HeadOf(t)
        /\ buf'[t] = buf[t] /\ blk'[t] = blk[t] /\ write'[t] = write[t]
    BY <1>1, <1>3, Zenon
  <2>2. InUsed(HeadOf(t))' <=> InUsed(HeadOf(t))
    BY <2>1, Zenon DEF InUsed
  <2>3. /\ ops[HeadOf(t)] = [buf |-> buf[t], blk |-> blk[t], write |-> write[t]]
        /\ info[HeadOf(t)] = buf[t]
        /\ HeadOf(t) \in avail => ~InUsed(HeadOf(t))
        /\ buf[t] \in bdisk <=> HeadOf(t) \in avail \/ InUsed(HeadOf(t))
    BY <2>1, Zenon DEF QueueInv
  <2> QED
    BY <2>1, <2>2, <2>3, Zenon
<1>4. \A i \in Desc : i \in avail' \/ InUsed(i)' =>
                        \E t \in Thr : pc'[t] = "io" /\ i = HeadOf(t)'
  BY <1>1, <1>2, SMTT(30) DEF QueueInv
<1>5. /\ \A t \in Thr : pc'[t] = "io" => idx'[t] # {}
      /\ \A t \in Thr : \A i \in idx'[t] : i \notin free'
      /\ \A t, u \in Thr : t # u => \A i \in idx'[t] : i \notin idx'[u]
      /\ \A j, k \in 1 .. Len(used') : used'[j] = used'[k] => j = k
  BY Zenon DEF QueueInv
<1> QED
  BY <1>3, <1>4, <1>5, Zenon DEF QueueInv

\* The data stays where it is, and nobody gets to a place that promises more.
LEMMA SameData ==
  ASSUME DataInv, UNCHANGED <<valid, fresh, dfresh, pinned, blockno>>,
         \A t \in Thr : pc'[t] \in Using => pc[t] \in Using /\ buf'[t] = buf[t],
         \A t \in Thr : pc'[t] = "written" => pc[t] = "written" /\ blk'[t] = blk[t],
         \A t \in Thr : pc'[t] \in InDriver =>
           pc[t] \in InDriver /\ buf'[t] = buf[t] /\ blk'[t] = blk[t] /\ write'[t] = write[t],
         \A t \in Thr : pc[t] \in InDriver =>
           pc'[t] \in InDriver /\ blk'[t] = blk[t] /\ write'[t] = write[t],
         \A t \in Thr : pc'[t] = "io" /\ HeadOf(t)' \notin avail' =>
           pc[t] = "io" /\ HeadOf(t) \notin avail
  PROVE  DataInv'
<1>1. /\ \A b \in valid' : b \in fresh'
      /\ \A t \in Thr : pc'[t] \in Using => buf'[t] \in valid'
      /\ \A t \in Thr : pc'[t] \in InDriver => (write'[t] <=> buf'[t] \in valid')
      /\ \A n \in pinned' : \E b \in Buf : blockno'[b] = n /\ b \in valid'
      /\ \A t \in Thr : pc'[t] = "written" => blk'[t] \in dfresh'
  BY Zenon DEF DataInv
<1>2. \A n \in Block : n \in dfresh' \/ n \in pinned'
        \/ \E t \in Thr : blk'[t] = n /\ pc'[t] \in InDriver /\ write'[t]
  BY SMTT(30) DEF DataInv
<1>3. ASSUME NEW t \in Thr, pc'[t] = "io", HeadOf(t)' \notin avail' PROVE Moved(t)'
  <2>1. Moved(t)
    BY <1>3, Zenon DEF DataInv
  <2>2. buf'[t] = buf[t] /\ blk'[t] = blk[t] /\ write'[t] = write[t]
    BY <1>3, Zenon DEF InDriver
  <2> QED
    BY <2>1, <2>2, Zenon DEF Moved
<1> QED
  BY <1>1, <1>2, <1>3, Zenon DEF DataInv

\* Whoever still sleeps slept before, in the same place, and what it waits for has
\* not happened.
LEMMA SameChan ==
  ASSUME ChanInv,
         \A t \in Thr : chan'[t] # None =>
           /\ chan'[t] = chan[t] /\ pc'[t] = pc[t] /\ buf'[t] = buf[t]
           /\ pc[t] = "io" /\ chan[t] = DiskChan(buf[t]) /\ buf[t] \in bdisk => buf[t] \in bdisk'
           /\ pc[t] = "desc" /\ chan[t] = FreeChan => free' = free
           /\ pc[t] = "lock" /\ chan[t] = LockChan(buf[t]) /\ lock[buf[t]] # None
                => lock'[buf[t]] # None,
         used' # <<>> => irq' \/ handler' = "loop"
  PROVE  ChanInv'
<1>1. ASSUME NEW t \in Thr, chan'[t] # None
      PROVE  \/ pc'[t] = "io" /\ chan'[t] = DiskChan(buf'[t]) /\ buf'[t] \in bdisk'
             \/ pc'[t] = "desc" /\ chan'[t] = FreeChan' /\ Cardinality(free') < 3
             \/ pc'[t] = "lock" /\ chan'[t] = LockChan(buf'[t]) /\ lock'[buf'[t]] # None
  <2>1. chan'[t] = chan[t] /\ pc'[t] = pc[t] /\ buf'[t] = buf[t] /\ FreeChan' = FreeChan
    BY <1>1, Zenon DEF FreeChan
  <2>2. CASE pc[t] = "io" /\ chan[t] = DiskChan(buf[t]) /\ buf[t] \in bdisk
    BY <1>1, <2>1, <2>2, Zenon
  <2>3. CASE pc[t] = "desc" /\ chan[t] = FreeChan /\ Cardinality(free) < 3
    <3>1. free' = free
      BY <1>1, <2>3, Zenon
    <3> QED
      BY <2>1, <2>3, <3>1, Zenon
  <2>4. CASE pc[t] = "lock" /\ chan[t] = LockChan(buf[t]) /\ lock[buf[t]] # None
    BY <1>1, <2>1, <2>4, Zenon
  <2> QED
    BY <1>1, <2>1, <2>2, <2>3, <2>4, Zenon DEF ChanInv
<1> QED
  BY <1>1, Zenon DEF ChanInv

-----------------------------------------------------------------------------
(* One lemma per action that disturbs more than one part.                    *)

\* wakeup(): a process keeps its channel or is awake.
LEMMA WokenFacts ==
  ASSUME NEW c
  PROVE  \A t \in Thr : Woken(c)[t] = IF chan[t] = c THEN None ELSE chan[t]
  BY Zenon DEF Woken

\* The types follow action by action.
LEMMA WokenType ==
  ASSUME DiskTypes, NEW c, chan' = Woken(c)
  PROVE  chan' \in [Thr -> Channel \cup {None}]
  BY Zenon DEF DiskTypes, Woken

\* Only a process that waits can sleep.
LEMMA NotAsleep ==
  ASSUME ChanInv, NEW t \in Thr, pc[t] \notin {"io", "desc", "lock"}
  PROVE  chan[t] = None
  BY Zenon DEF ChanInv

\* A process without the buffer's lock starts or ends a bread().
LEMMA OutsideRest ==
  ASSUME DiskInv, NEW t \in Thr, pc[t] \in {"idle", "drop"},
         NEW l \in {"idle", "lock", "panic"}, pc' = [pc EXCEPT ![t] = l],
         \A u \in Thr : u # t => buf'[u] = buf[u] /\ blk'[u] = blk[u],
         UNCHANGED <<write, chan, lock, driverVars>>
  PROVE  DiskTypes' /\ HoldInv' /\ QueueInv' /\ ChanInv'
<1> USE DEF driverVars
<1>1. DiskTypes /\ HoldInv /\ QueueInv /\ ChanInv
  BY Zenon DEF DiskInv, DriverInv
<1>2. \A u \in Thr : pc'[u] = IF u = t THEN l ELSE pc[u]
  BY Zenon DEF DiskInv, CacheInv, CacheTypes
<1>3. DiskTypes'
  BY <1>1, Zenon DEF DiskTypes, Channel, FreeChan
<1>4. \A u \in Thr : pc'[u] \in Holding => pc[u] \in Holding /\ buf'[u] = buf[u]
  BY <1>2, Zenon DEF Holding
<1>5. HoldInv'
  BY <1>1, <1>4, SameHold, Zenon
<1>6. /\ \A u \in Thr : pc'[u] = "io" <=> pc[u] = "io"
      /\ \A u \in Thr : pc[u] = "io" =>
           buf'[u] = buf[u] /\ blk'[u] = blk[u] /\ write'[u] = write[u]
  BY <1>2, Zenon
<1>7. QueueInv'
  BY <1>1, <1>6, SameQueue, Zenon
<1>8. chan[t] = None
  BY <1>1, NotAsleep, Zenon
<1>9. \A u \in Thr : chan'[u] # None => u # t /\ pc'[u] = pc[u] /\ buf'[u] = buf[u]
  BY <1>2, <1>8, Zenon
<1>10. used' # <<>> => irq' \/ handler' = "loop"
  BY <1>1, Zenon DEF ChanInv
<1>11. ChanInv'
  BY <1>1, <1>9, <1>10, SameChan, Zenon
<1> QED
  BY <1>3, <1>5, <1>7, <1>11, Zenon

\* The same for the data, when no buffer is recycled.
LEMMA OutsideData ==
  ASSUME DiskInv, NEW t \in Thr, pc[t] \in {"idle", "drop"},
         NEW l \in {"idle", "lock", "panic"}, pc' = [pc EXCEPT ![t] = l],
         \A u \in Thr : u # t => buf'[u] = buf[u] /\ blk'[u] = blk[u],
         UNCHANGED <<write, driverVars, valid, fresh, pinned, blockno>>
  PROVE  DataInv'
<1> USE DEF driverVars
<1>1. DataInv
  BY Zenon DEF DiskInv, DriverInv
<1>2. \A u \in Thr : pc'[u] = IF u = t THEN l ELSE pc[u]
  BY Zenon DEF DiskInv, CacheInv, CacheTypes
<1>3. \A u \in Thr : pc'[u] \in Using => pc[u] \in Using /\ buf'[u] = buf[u]
  BY <1>2, Zenon DEF Using
<1>4. \A u \in Thr : pc'[u] = "written" => pc[u] = "written" /\ blk'[u] = blk[u]
  BY <1>2, Zenon
<1>5. /\ \A u \in Thr : pc'[u] \in InDriver =>
           pc[u] \in InDriver /\ buf'[u] = buf[u] /\ blk'[u] = blk[u] /\ write'[u] = write[u]
      /\ \A u \in Thr : pc[u] \in InDriver =>
           pc'[u] \in InDriver /\ blk'[u] = blk[u] /\ write'[u] = write[u]
  BY <1>2, Zenon DEF InDriver
<1>6. \A u \in Thr : pc'[u] = "io" /\ HeadOf(u)' \notin avail' =>
                       pc[u] = "io" /\ HeadOf(u) \notin avail
  BY <1>2, Zenon DEF HeadOf
<1> QED
  BY <1>1, <1>3, <1>4, <1>5, <1>6, SameData, Zenon

\* bget() recycles a buffer: its block is on the disk.
LEMMA BgetMissDisk ==
  ASSUME DiskInv, NEW t \in Thr, NEW n \in Block, BgetMiss(t, n)
  PROVE  DriverInv'
<1> USE DEF driverVars
<1>0. CacheInv /\ DataInv
  BY Zenon DEF DiskInv, DriverInv
<1>1. Victim \in Buf /\ refcnt[Victim] = 0
  BY <1>0, VictimFacts, Zenon DEF BgetMiss
<1>2. PICK v \in Buf :
        /\ v = Victim
        /\ \A u \in Thr : buf[u] # v
        /\ blockno[v] \notin pinned
  BY <1>0, <1>1, Unreferenced, Zenon
<1>3. /\ pc[t] = "idle" /\ pc' = [pc EXCEPT ![t] = "lock"]
      /\ blockno' = [blockno EXCEPT ![v] = n] /\ buf' = [buf EXCEPT ![t] = v]
      /\ blk' = [blk EXCEPT ![t] = n]
      /\ valid' = valid \ {v} /\ fresh' = fresh \ {v}
      /\ UNCHANGED <<write, chan, driverVars, lock, pinned>>
  BY <1>2, Zenon DEF BgetMiss, Invalidated
<1>4. /\ \A u \in Thr : /\ pc'[u] = IF u = t THEN "lock" ELSE pc[u]
                        /\ buf'[u] = IF u = t THEN v ELSE buf[u]
                        /\ blk'[u] = IF u = t THEN n ELSE blk[u]
      /\ \A b \in Buf : blockno'[b] = IF b = v THEN n ELSE blockno[b]
  BY <1>0, <1>3, Zenon DEF CacheInv, CacheTypes
<1>5. DiskTypes' /\ HoldInv' /\ QueueInv' /\ ChanInv'
  <2>1. \A u \in Thr : u # t => buf'[u] = buf[u] /\ blk'[u] = blk[u]
    BY <1>4, Zenon
  <2>2. "lock" \in {"idle", "lock", "panic"} /\ pc[t] \in {"idle", "drop"}
    BY <1>3, Zenon
  <2> QED
    BY <1>3, <2>1, <2>2, OutsideRest, Zenon
<1>6. /\ \A b \in valid' : b \in fresh'
      /\ \A u \in Thr : pc'[u] \in Using => buf'[u] \in valid'
      /\ \A u \in Thr : pc'[u] \in InDriver => (write'[u] <=> buf'[u] \in valid')
      /\ \A u \in Thr : pc'[u] = "written" => blk'[u] \in dfresh'
  BY <1>0, <1>2, <1>3, <1>4, SMTT(30) DEF DataInv, Using, InDriver
<1>7. \A m \in pinned' : \E b \in Buf : blockno'[b] = m /\ b \in valid'
  BY <1>0, <1>2, <1>3, <1>4, SMTT(30) DEF DataInv
<1>8. \A m \in Block : m \in dfresh' \/ m \in pinned'
        \/ \E u \in Thr : blk'[u] = m /\ pc'[u] \in InDriver /\ write'[u]
  BY <1>0, <1>3, <1>4, SMTT(30) DEF DataInv, InDriver
<1>9. ASSUME NEW u \in Thr, pc'[u] = "io", HeadOf(u)' \notin avail' PROVE Moved(u)'
  <2>1. /\ u # t /\ pc[u] = "io" /\ buf'[u] = buf[u] /\ blk'[u] = blk[u]
        /\ write'[u] = write[u] /\ buf[u] # v
    BY <1>2, <1>3, <1>4, <1>9, SMTT(30)
  <2>2. Moved(u)
    BY <1>0, <1>3, <1>9, <2>1, Zenon DEF DataInv, HeadOf
  <2> QED
    BY <1>3, <2>1, <2>2, SMTT(30) DEF Moved
<1>10. DataInv'
  BY <1>6, <1>7, <1>8, <1>9, Zenon DEF DataInv
<1> QED
  BY <1>5, <1>10, Zenon DEF DriverInv

\* alloc3_desc() fails, or the buffer is locked: t goes to sleep, others may wake.
LEMMA SleepDisk ==
  ASSUME DiskInv, NEW t \in Thr, (NoDesc(t) /\ UNCHANGED cacheVars) \/ AcquireBusy(t)
  PROVE  DriverInv'
<1> USE DEF driverVars, cacheVars
<1>0. CacheInv /\ DiskTypes /\ HoldInv /\ QueueInv /\ DataInv /\ ChanInv
  BY Zenon DEF DiskInv, DriverInv
<1>1. UNCHANGED <<blockno, fresh, pc, buf, write, driverVars, cacheVars>>
  BY Zenon DEF NoDesc, AcquireBusy
<1>2. HoldInv' /\ QueueInv' /\ DataInv'
  <2>1. \A u \in Thr : HeadOf(u)' = HeadOf(u)
    BY <1>1, Zenon DEF HeadOf
  <2>2. HoldInv'
    BY <1>0, <1>1, SameHold, Zenon
  <2>3. QueueInv'
    BY <1>0, <1>1, SameQueue, Zenon
  <2>4. DataInv'
    BY <1>0, <1>1, <2>1, SameData, Zenon
  <2> QED
    BY <2>2, <2>3, <2>4, Zenon
<1>3. PICK c \in Channel :
        /\ \A u \in Thr : u # t => chan'[u] = chan[u] \/ chan'[u] = None
        /\ chan'[t] = c /\ chan' \in [Thr -> Channel \cup {None}]
        /\ \/ pc[t] = "desc" /\ c = FreeChan /\ Cardinality(free) < 3
           \/ pc[t] = "lock" /\ c = LockChan(buf[t]) /\ lock[buf[t]] # None
  <2>1. CASE NoDesc(t)
    <3> DEFINE w == IF free = {} THEN chan ELSE Woken(FreeChan)
    <3>1. w \in [Thr -> Channel \cup {None}]
      BY <1>0, Zenon DEF DiskTypes, Woken
    <3>2. \A u \in Thr : w[u] = chan[u] \/ w[u] = None
      BY Zenon DEF Woken
    <3>3. chan' = [w EXCEPT ![t] = FreeChan]
      BY <2>1, Zenon DEF NoDesc
    <3> HIDE DEF w
    <3>4. FreeChan \in Channel
      BY Zenon DEF Channel
    <3>5. chan' \in [Thr -> Channel \cup {None}]
      BY <3>1, <3>3, <3>4, Zenon
    <3>6. \A u \in Thr : chan'[u] = IF u = t THEN FreeChan ELSE w[u]
      BY <3>1, <3>3, Zenon
    <3>7. pc[t] = "desc" /\ Cardinality(free) < 3
      BY <2>1, Zenon DEF NoDesc, Awake
    <3> QED
      BY <3>2, <3>4, <3>5, <3>6, <3>7, Zenon
  <2>2. CASE AcquireBusy(t)
    <3>1. /\ pc[t] = "lock" /\ lock[buf[t]] # None
          /\ chan' = [chan EXCEPT ![t] = LockChan(buf[t])]
      BY <2>2, Zenon DEF AcquireBusy, Awake, LockChan
    <3>2. buf[t] \in Buf
      BY <1>0, <3>1, HasBuffer, Zenon DEF Away
    <3>3. LockChan(buf[t]) \in Channel
      BY <3>2, Zenon DEF Channel
    <3>4. chan' \in [Thr -> Channel \cup {None}]
      BY <1>0, <3>1, <3>3, Zenon DEF DiskTypes
    <3>5. \A u \in Thr : chan'[u] = IF u = t THEN LockChan(buf[t]) ELSE chan[u]
      BY <1>0, <3>1, Zenon DEF DiskTypes
    <3> QED
      BY <3>1, <3>3, <3>4, <3>5, Zenon
  <2> QED
    BY <2>1, <2>2, Zenon
<1>4. DiskTypes'
  BY <1>0, <1>1, <1>3, Zenon DEF DiskTypes, Channel, FreeChan
<1>5. ASSUME NEW u \in Thr, chan'[u] # None
      PROVE  \/ pc[u] = "io" /\ chan'[u] = DiskChan(buf[u]) /\ buf[u] \in bdisk
             \/ pc[u] = "desc" /\ chan'[u] = FreeChan /\ Cardinality(free) < 3
             \/ pc[u] = "lock" /\ chan'[u] = LockChan(buf[u]) /\ lock[buf[u]] # None
  <2>1. CASE u = t
    BY <1>3, <2>1, Zenon
  <2>2. CASE u # t
    <3>1. chan'[u] = chan[u]
      BY <1>3, <1>5, <2>2, Zenon
    <3> QED
      BY <1>0, <1>5, <3>1, Zenon DEF ChanInv
  <2> QED
    BY <2>1, <2>2, Zenon
<1>6. ChanInv'
  <2>1. used' # <<>> => irq' \/ handler' = "loop"
    BY <1>0, <1>1, Zenon DEF ChanInv
  <2> QED
    BY <1>1, <1>5, <2>1, Zenon DEF ChanInv, FreeChan
<1> QED
  BY <1>2, <1>4, <1>6, Zenon DEF DriverInv

\* virtio_disk_rw() publishes a request.
LEMMA SubmitDisk ==
  ASSUME DiskInv, NEW t \in Thr, Submit(t) /\ UNCHANGED cacheVars
  PROVE  DriverInv'
<1> USE DEF cacheVars
<1>0. CacheInv /\ DiskTypes /\ HoldInv /\ QueueInv /\ DataInv /\ ChanInv
  BY Zenon DEF DiskInv, DriverInv
<1>1. /\ pc[t] = "desc" /\ Cardinality(free) >= 3
      /\ free' = free \ Chain /\ idx' = [idx EXCEPT ![t] = Chain]
      /\ avail' = avail \cup {Lowest(free)}
      /\ ops' = [ops EXCEPT ![Lowest(free)] =
           [buf |-> buf[t], blk |-> blockno[buf[t]], write |-> write[t]]]
      /\ info' = [info EXCEPT ![Lowest(free)] = buf[t]]
      /\ bdisk' = bdisk \cup {buf[t]} /\ pc' = [pc EXCEPT ![t] = "io"]
      /\ chan' = [chan EXCEPT ![t] = DiskChan(buf[t])]
      /\ UNCHANGED <<blockno, fresh, buf, write, used, irq, handler, dfresh>>
  BY Zenon DEF Submit, Awake
<1>2. /\ Lowest(free) \in free /\ Lowest(free) \in Desc
      /\ Chain \in SUBSET free /\ Chain # {} /\ Lowest(Chain) = Lowest(free)
  BY <1>0, <1>1, ChainFacts, Zenon DEF DiskTypes
<1>3. PICK h \in Desc, C \in SUBSET Desc :
        h = Lowest(free) /\ C = Chain /\ C \in SUBSET free /\ C # {} /\ Lowest(C) = h
  BY <1>0, <1>2, Zenon DEF DiskTypes
<1>4. /\ buf[t] \in Buf /\ blk[t] \in Block /\ blockno[buf[t]] = blk[t]
      /\ \A u \in Thr : pc[u] \in Holding /\ u # t => buf[u] # buf[t]
  BY <1>0, <1>1, HolderFacts, Zenon DEF Holding
<1>5. \A u \in Thr : /\ pc'[u] = IF u = t THEN "io" ELSE pc[u]
                     /\ idx'[u] = IF u = t THEN C ELSE idx[u]
                     /\ chan'[u] = IF u = t THEN DiskChan(buf[t]) ELSE chan[u]
  BY <1>0, <1>1, <1>3, Zenon DEF CacheInv, CacheTypes, DiskTypes
<1>6. /\ ops' = [ops EXCEPT ![h] = [buf |-> buf[t], blk |-> blk[t], write |-> write[t]]]
      /\ info' = [info EXCEPT ![h] = buf[t]] /\ avail' = avail \cup {h}
      /\ free' = free \ C /\ idx' = [idx EXCEPT ![t] = C]
  BY <1>1, <1>3, <1>4, Zenon
<1>7. /\ ops'[h] = [buf |-> buf[t], blk |-> blk[t], write |-> write[t]]
      /\ info'[h] = buf[t]
      /\ \A i \in Desc : i # h => ops'[i] = ops[i] /\ info'[i] = info[i]
  BY <1>0, <1>6, Zenon DEF DiskTypes
<1>8. HeadOf(t)' = h /\ \A u \in Thr : u # t => HeadOf(u)' = HeadOf(u)
  BY <1>3, <1>5, Zenon DEF HeadOf
<1>9. ASSUME NEW u \in Thr, pc[u] = "io"
      PROVE  u # t /\ HeadOf(u) \in Desc /\ HeadOf(u) # h
  BY <1>0, <1>1, <1>2, <1>3, <1>9, HeadFacts, Zenon
<1>10. h \notin avail /\ ~InUsed(h)
  BY <1>0, <1>9, Zenon DEF QueueInv
<1>11. \A i : InUsed(i)' <=> InUsed(i)
  BY <1>1, Zenon DEF InUsed
<1>12. DiskTypes'
  <2>1. [buf |-> buf[t], blk |-> blk[t], write |-> write[t]] \in Request
    <3>1. write[t] \in BOOLEAN
      BY <1>0, Zenon DEF DiskTypes
    <3> QED
      BY <1>4, <3>1, Zenon DEF Request
  <2>2. ops' \in [Desc -> Request \cup {None}] /\ info' \in [Desc -> Buf \cup {None}]
    BY <1>0, <1>4, <1>6, <2>1, Zenon DEF DiskTypes
  <2>3. free' \in SUBSET Desc /\ avail' \in SUBSET Desc /\ idx' \in [Thr -> SUBSET Desc]
    BY <1>0, <1>6, Zenon DEF DiskTypes
  <2>4. chan' \in [Thr -> Channel \cup {None}]
    <3>1. DiskChan(buf[t]) \in Channel
      BY <1>4, Zenon DEF Channel
    <3> QED
      BY <1>0, <1>1, <3>1, Zenon DEF DiskTypes
  <2>5. used' \in Seq(Desc) /\ write' \in [Thr -> BOOLEAN] /\ lock' \in [Buf -> Thr \cup {None}]
    BY <1>0, <1>1, Zenon DEF DiskTypes
  <2> QED
    BY <2>2, <2>3, <2>4, <2>5, Zenon DEF DiskTypes, Channel, FreeChan
<1>13. HoldInv'
  <2>1. \A u \in Thr : pc'[u] \in Holding => pc[u] \in Holding /\ buf'[u] = buf[u]
    BY <1>1, <1>5, Zenon DEF Holding
  <2> QED
    BY <1>0, <2>1, SameHold, Zenon
<1>14. QueueInv'
  <2>1. \A u \in Thr : pc'[u] = "io" => idx'[u] # {}
    BY <1>0, <1>3, <1>5, Zenon DEF QueueInv
  <2>2. \A u \in Thr : \A i \in idx'[u] : i \notin free'
    BY <1>0, <1>5, <1>6, SMTT(30) DEF QueueInv
  <2>3. \A u, w \in Thr : u # w => \A i \in idx'[u] : i \notin idx'[w]
    BY <1>0, <1>3, <1>5, Zenon DEF QueueInv
  <2>4. ASSUME NEW u \in Thr, pc'[u] = "io"
        PROVE  /\ ops'[HeadOf(u)'] = [buf |-> buf'[u], blk |-> blk'[u], write |-> write'[u]]
               /\ info'[HeadOf(u)'] = buf'[u]
               /\ HeadOf(u)' \in avail' => ~InUsed(HeadOf(u))'
               /\ buf'[u] \in bdisk' <=> HeadOf(u)' \in avail' \/ InUsed(HeadOf(u))'
    <3>1. InUsed(HeadOf(u))' <=> \E k \in 1 .. Len(used) : used[k] = HeadOf(u)'
      BY <1>1, Zenon DEF InUsed
    <3>2. CASE u = t
      BY <1>1, <1>6, <1>7, <1>8, <1>10, <3>1, <3>2, Zenon DEF InUsed
    <3>3. CASE u # t
      <4>1. pc[u] = "io" /\ HeadOf(u)' = HeadOf(u) /\ HeadOf(u) \in Desc /\ HeadOf(u) # h
        BY <1>5, <1>8, <1>9, <2>4, <3>3, Zenon
      <4>2. /\ ops[HeadOf(u)] = [buf |-> buf[u], blk |-> blk[u], write |-> write[u]]
            /\ info[HeadOf(u)] = buf[u]
            /\ HeadOf(u) \in avail => ~InUsed(HeadOf(u))
            /\ buf[u] \in bdisk <=> HeadOf(u) \in avail \/ InUsed(HeadOf(u))
        BY <1>0, <4>1, Zenon DEF QueueInv
      <4>3. InUsed(HeadOf(u))' <=> InUsed(HeadOf(u))
        BY <3>1, <4>1, Zenon DEF InUsed
      <4>4. buf[u] # buf[t]
        BY <1>4, <3>3, <4>1, Zenon DEF Holding
      <4>5. buf'[u] \in bdisk' <=> buf[u] \in bdisk
        BY <1>1, <4>4, Zenon
      <4>6. HeadOf(u)' \in avail' <=> HeadOf(u) \in avail
        BY <1>6, <4>1, Zenon
      <4>7. ops'[HeadOf(u)'] = ops[HeadOf(u)] /\ info'[HeadOf(u)'] = info[HeadOf(u)]
        BY <1>7, <4>1, Zenon
      <4> QED
        BY <1>1, <4>2, <4>3, <4>5, <4>6, <4>7, Zenon
    <3> QED
      BY <3>2, <3>3, Zenon
  <2>5. ASSUME NEW i \in Desc, i \in avail' \/ InUsed(i)'
        PROVE  \E u \in Thr : pc'[u] = "io" /\ i = HeadOf(u)'
    <3>1. CASE i = h
      BY <1>5, <1>8, <3>1, Zenon
    <3>2. CASE i # h
      <4>1. PICK u \in Thr : pc[u] = "io" /\ i = HeadOf(u)
        BY <1>0, <1>6, <1>11, <2>5, <3>2, Zenon DEF QueueInv
      <4> QED
        BY <1>5, <1>8, <1>9, <4>1, Zenon
    <3> QED
      BY <3>1, <3>2, Zenon
  <2>6. \A j, k \in 1 .. Len(used') : used'[j] = used'[k] => j = k
    BY <1>0, <1>1, Zenon DEF QueueInv
  <2> QED
    BY <2>1, <2>2, <2>3, <2>4, <2>5, <2>6, Zenon DEF QueueInv
<1>15. DataInv'
  <2>1. \A u \in Thr : pc'[u] \in Using => pc[u] \in Using /\ buf'[u] = buf[u]
    BY <1>1, <1>5, SMTT(30) DEF Using
  <2>2. \A u \in Thr : pc'[u] = "written" => pc[u] = "written" /\ blk'[u] = blk[u]
    BY <1>1, <1>5, SMTT(30)
  <2>3. \A u \in Thr : pc'[u] \in InDriver <=> pc[u] \in InDriver
    BY <1>1, <1>5, Zenon DEF InDriver
  <2>4. \A u \in Thr : pc'[u] = "io" /\ HeadOf(u)' \notin avail' =>
                         pc[u] = "io" /\ HeadOf(u) \notin avail
    BY <1>5, <1>6, <1>8, Zenon
  <2> QED
    BY <1>0, <1>1, <2>1, <2>2, <2>3, <2>4, SameData, Zenon
<1>16. ChanInv'
  <2>1. ~(Cardinality(free) < 3)
    <3>1. Cardinality(free) \in Nat
      <4>1. IsFiniteSet(Desc)
        <5>1. 0 \in Int /\ NUM - 1 \in Int
          BY NumAssumption, SMT
        <5> QED
          BY <5>1, FS_Interval, Zenon DEF Desc
      <4>2. IsFiniteSet(free)
        BY <1>0, <4>1, FS_Subset, Zenon DEF DiskTypes
      <4> QED
        BY <4>2, FS_CardinalityType, Zenon
    <3> QED
      BY <1>1, <3>1, SMT
  <2>2. ASSUME NEW u \in Thr, chan'[u] # None
        PROVE  \/ pc'[u] = "io" /\ chan'[u] = DiskChan(buf'[u]) /\ buf'[u] \in bdisk'
               \/ pc'[u] = "lock" /\ chan'[u] = LockChan(buf'[u]) /\ lock'[buf'[u]] # None
    <3>1. CASE u = t
      BY <1>1, <1>5, <3>1, Zenon
    <3>2. CASE u # t
      <4>1. chan'[u] = chan[u] /\ pc'[u] = pc[u] /\ buf'[u] = buf[u] /\ lock' = lock
        BY <1>1, <1>5, <3>2, Zenon
      <4>2. \/ pc[u] = "io" /\ chan[u] = DiskChan(buf[u]) /\ buf[u] \in bdisk
            \/ pc[u] = "lock" /\ chan[u] = LockChan(buf[u]) /\ lock[buf[u]] # None
        BY <1>0, <2>1, <2>2, <4>1, Zenon DEF ChanInv
      <4> QED
        BY <1>1, <4>1, <4>2, Zenon
    <3> QED
      BY <3>1, <3>2, Zenon
  <2>3. used' # <<>> => irq' \/ handler' = "loop"
    BY <1>0, <1>1, Zenon DEF ChanInv
  <2> QED
    BY <2>2, <2>3, Zenon DEF ChanInv
<1> QED
  BY <1>12, <1>13, <1>14, <1>15, <1>16, Zenon DEF DriverInv

\* virtio_disk_rw() returns: the request is neither with the device nor in the used
\* ring, so its data has been moved.
LEMMA TransferredDisk ==
  ASSUME DiskInv, NEW t \in Thr, Transferred(t)
  PROVE  DriverInv'
<1>0. CacheInv /\ DiskTypes /\ HoldInv /\ QueueInv /\ DataInv /\ ChanInv
  BY Zenon DEF DiskInv, DriverInv
<1>1. /\ pc[t] = "io" /\ chan[t] = None /\ buf[t] \notin bdisk
      /\ info' = [info EXCEPT ![HeadOf(t)] = None]
      /\ ops' = [ops EXCEPT ![HeadOf(t)] = None]
      /\ free' = free \cup idx[t] /\ idx' = [idx EXCEPT ![t] = {}]
      /\ chan' = Woken(FreeChan)
      /\ pc' = [pc EXCEPT ![t] = IF write[t] THEN "written" ELSE "hold"]
      /\ valid' = IF write[t] THEN valid ELSE valid \cup {buf[t]}
      /\ UNCHANGED <<blockno, fresh, buf, write, bdisk, avail, used, irq, handler, dfresh>>
      /\ UNCHANGED <<lock, blk, pinned>>
  BY Zenon DEF Transferred, Finish, Awake, FreeDesc, HeadOf
<1>2. PICK h \in Desc : h = HeadOf(t) /\ \A u \in Thr : pc[u] = "io" /\ u # t => HeadOf(u) # h
  BY <1>0, <1>1, HeadFacts, Zenon
<1>3. h \notin avail /\ ~InUsed(h)
  BY <1>0, <1>1, <1>2, Zenon DEF QueueInv
<1>4. PICK l \in {"written", "hold"} :
        pc' = [pc EXCEPT ![t] = l] /\ (l = "written" <=> write[t])
  BY <1>1, Zenon
<1>5. \A u \in Thr : /\ pc'[u] = IF u = t THEN l ELSE pc[u]
                     /\ idx'[u] = IF u = t THEN {} ELSE idx[u]
                     /\ chan'[u] = IF chan[u] = FreeChan THEN None ELSE chan[u]
  BY <1>0, <1>1, <1>4, Zenon DEF CacheInv, CacheTypes, DiskTypes, Woken
<1>6. \A i \in Desc : i # h => ops'[i] = ops[i] /\ info'[i] = info[i]
  BY <1>0, <1>1, <1>2, Zenon DEF DiskTypes
<1>7. \A u \in Thr : pc'[u] = "io" <=> pc[u] = "io" /\ u # t
  BY <1>5, Zenon
<1>8. \A u \in Thr : u # t => HeadOf(u)' = HeadOf(u)
  BY <1>5, Zenon DEF HeadOf
<1>9. /\ buf[t] \in Buf /\ blk[t] \in Block
      /\ \A u \in Thr : pc[u] \in Holding /\ u # t => buf[u] # buf[t]
  BY <1>0, <1>1, HolderFacts, Zenon DEF Holding
<1>10. DiskTypes'
  <2>1. free' \in SUBSET Desc /\ idx' \in [Thr -> SUBSET Desc]
    BY <1>0, <1>1, Zenon DEF DiskTypes
  <2>2. ops' \in [Desc -> Request \cup {None}] /\ info' \in [Desc -> Buf \cup {None}]
    BY <1>0, <1>1, Zenon DEF DiskTypes
  <2>3. chan' \in [Thr -> Channel \cup {None}]
    BY <1>0, <1>1, WokenType, Zenon
  <2> QED
    BY <1>0, <1>1, <2>1, <2>2, <2>3, Zenon DEF DiskTypes, Channel, FreeChan
<1>11. HoldInv'
  <2>1. \A u \in Thr : pc'[u] \in Holding => pc[u] \in Holding /\ buf'[u] = buf[u]
    BY <1>1, <1>5, Zenon DEF Holding
  <2> QED
    BY <1>0, <1>1, <2>1, SameHold, Zenon
<1>12. QueueInv'
  <2>1. \A u \in Thr : pc'[u] = "io" => idx'[u] # {}
    BY <1>0, <1>5, <1>7, Zenon DEF QueueInv
  <2>2. \A u \in Thr : \A i \in idx'[u] : i \notin free'
    BY <1>0, <1>1, <1>5, SMTT(30) DEF QueueInv
  <2>3. \A u, w \in Thr : u # w => \A i \in idx'[u] : i \notin idx'[w]
    BY <1>0, <1>5, Zenon DEF QueueInv
  <2>4. ASSUME NEW u \in Thr, pc'[u] = "io"
        PROVE  /\ ops'[HeadOf(u)'] = [buf |-> buf'[u], blk |-> blk'[u], write |-> write'[u]]
               /\ info'[HeadOf(u)'] = buf'[u]
               /\ HeadOf(u)' \in avail' => ~InUsed(HeadOf(u))'
               /\ buf'[u] \in bdisk' <=> HeadOf(u)' \in avail' \/ InUsed(HeadOf(u))'
    <3>1. pc[u] = "io" /\ u # t /\ HeadOf(u)' = HeadOf(u) /\ HeadOf(u) # h
      BY <1>2, <1>7, <1>8, <2>4, Zenon
    <3>2. HeadOf(u) \in Desc
      BY <1>0, <3>1, HeadFacts, Zenon
    <3>3. /\ ops[HeadOf(u)] = [buf |-> buf[u], blk |-> blk[u], write |-> write[u]]
          /\ info[HeadOf(u)] = buf[u]
          /\ HeadOf(u) \in avail => ~InUsed(HeadOf(u))
          /\ buf[u] \in bdisk <=> HeadOf(u) \in avail \/ InUsed(HeadOf(u))
      BY <1>0, <3>1, Zenon DEF QueueInv
    <3>4. InUsed(HeadOf(u))' <=> InUsed(HeadOf(u))
      BY <1>1, <3>1, Zenon DEF InUsed
    <3>5. ops'[HeadOf(u)'] = ops[HeadOf(u)] /\ info'[HeadOf(u)'] = info[HeadOf(u)]
      BY <1>6, <3>1, <3>2, Zenon
    <3> QED
      BY <1>1, <3>1, <3>3, <3>4, <3>5, Zenon
  <2>5. ASSUME NEW i \in Desc, i \in avail' \/ InUsed(i)'
        PROVE  \E u \in Thr : pc'[u] = "io" /\ i = HeadOf(u)'
    <3>1. i \in avail \/ InUsed(i)
      BY <1>1, <2>5, Zenon DEF InUsed
    <3>2. PICK u \in Thr : pc[u] = "io" /\ i = HeadOf(u)
      BY <1>0, <3>1, Zenon DEF QueueInv
    <3>3. u # t
      BY <1>2, <1>3, <3>1, <3>2, Zenon
    <3> QED
      BY <1>7, <1>8, <3>2, <3>3, Zenon
  <2>6. \A j, k \in 1 .. Len(used') : used'[j] = used'[k] => j = k
    BY <1>0, <1>1, Zenon DEF QueueInv
  <2> QED
    BY <2>1, <2>2, <2>3, <2>4, <2>5, <2>6, Zenon DEF QueueInv
<1>13. DataInv'
  <2>1. Moved(t)
    BY <1>0, <1>1, <1>2, <1>3, Zenon DEF DataInv
  <2>2. write[t] <=> buf[t] \in valid
    BY <1>0, <1>1, Zenon DEF DataInv, InDriver
  <2>3. \A b \in valid' : b \in fresh'
    BY <1>0, <1>1, <2>1, Zenon DEF DataInv, Moved
  <2>4. \A u \in Thr : pc'[u] \in Using => buf'[u] \in valid'
    BY <1>0, <1>1, <1>5, <2>2, Zenon DEF DataInv
  <2>5. ASSUME NEW u \in Thr, pc'[u] \in InDriver PROVE write'[u] <=> buf'[u] \in valid'
    <3>1. u # t /\ pc[u] \in InDriver
      BY <1>5, <2>5, Zenon DEF InDriver
    <3>2. buf[u] # buf[t]
      BY <1>9, <3>1, Zenon DEF Holding, InDriver
    <3>3. buf[u] \in valid' <=> buf[u] \in valid
      BY <1>1, <3>2, Zenon
    <3> QED
      BY <1>0, <1>1, <3>1, <3>3, Zenon DEF DataInv
  <2>6. \A n \in pinned' : \E b \in Buf : blockno'[b] = n /\ b \in valid'
    BY <1>0, <1>1, Zenon DEF DataInv
  <2>7. ASSUME NEW n \in Block, n \notin dfresh', n \notin pinned'
        PROVE  \E u \in Thr : blk'[u] = n /\ pc'[u] \in InDriver /\ write'[u]
    <3>1. PICK u \in Thr : blk[u] = n /\ pc[u] \in InDriver /\ write[u]
      BY <1>0, <1>1, <2>7, Zenon DEF DataInv
    <3>2. u # t
      BY <1>1, <2>1, <2>7, <3>1, Zenon DEF Moved
    <3> QED
      BY <1>1, <1>5, <3>1, <3>2, Zenon
  <2>8. \A u \in Thr : pc'[u] = "written" => blk'[u] \in dfresh'
    BY <1>0, <1>1, <1>4, <1>5, <2>1, Zenon DEF DataInv, Moved
  <2>9. ASSUME NEW u \in Thr, pc'[u] = "io", HeadOf(u)' \notin avail' PROVE Moved(u)'
    <3>1. Moved(u)
      BY <1>0, <1>1, <1>7, <1>8, <2>9, Zenon DEF DataInv
    <3> QED
      BY <1>1, <3>1, Zenon DEF Moved
  <2> QED
    BY <2>3, <2>4, <2>5, <2>6, <2>7, <2>8, <2>9, Zenon DEF DataInv
<1>14. ChanInv'
  <2>1. \A u \in Thr : chan'[u] # None =>
          chan'[u] = chan[u] /\ chan[u] # FreeChan /\ u # t /\ pc'[u] = pc[u]
    BY <1>1, <1>5, Zenon
  <2>2. used' # <<>> => irq' \/ handler' = "loop"
    BY <1>0, <1>1, Zenon DEF ChanInv
  <2> QED
    BY <1>0, <1>1, <2>1, <2>2, SameChan, Zenon
<1> QED
  BY <1>10, <1>11, <1>12, <1>13, <1>14, Zenon DEF DriverInv

\* acquiresleep() succeeds.
LEMMA AcquireDisk ==
  ASSUME DiskInv, NEW t \in Thr, Acquire(t)
  PROVE  DriverInv'
<1> USE DEF driverVars
<1>0. CacheInv /\ DiskTypes /\ HoldInv /\ QueueInv /\ DataInv /\ ChanInv
  BY Zenon DEF DiskInv, DriverInv
<1>1. /\ pc[t] = "lock" /\ chan[t] = None /\ lock[buf[t]] = None
      /\ lock' = [lock EXCEPT ![buf[t]] = t] /\ write' = [write EXCEPT ![t] = FALSE]
      /\ pc' = [pc EXCEPT ![t] = IF buf[t] \in valid THEN "hold" ELSE "desc"]
      /\ UNCHANGED <<blockno, fresh, buf, chan, driverVars, valid, blk, pinned>>
  BY Zenon DEF Acquire, Awake
<1>2. buf[t] \in Buf
  BY <1>0, <1>1, HasBuffer, Zenon DEF Away
<1>3. PICK l \in {"hold", "desc"} :
        pc' = [pc EXCEPT ![t] = l] /\ (l = "hold" <=> buf[t] \in valid)
  BY <1>1, Zenon
<1>4. /\ \A u \in Thr : /\ pc'[u] = IF u = t THEN l ELSE pc[u]
                        /\ write'[u] = IF u = t THEN FALSE ELSE write[u]
      /\ \A b \in Buf : lock'[b] = IF b = buf[t] THEN t ELSE lock[b]
  BY <1>0, <1>1, <1>2, <1>3, Zenon DEF CacheInv, CacheTypes, DiskTypes
<1>5. DiskTypes'
  <2>1. lock' \in [Buf -> Thr \cup {None}] /\ write' \in [Thr -> BOOLEAN]
    BY <1>0, <1>1, <1>2, Zenon DEF DiskTypes
  <2> QED
    BY <1>0, <1>1, <2>1, Zenon DEF DiskTypes, Channel, FreeChan
<1>6. HoldInv'
  <2>1. ASSUME NEW u \in Thr, pc'[u] \in Holding PROVE lock'[buf'[u]] = u
    <3>1. CASE u = t
      BY <1>1, <1>2, <1>4, <3>1, Zenon
    <3>2. CASE u # t
      <4>1. pc[u] \in Holding
        BY <1>4, <2>1, <3>2, Zenon
      <4>2. lock[buf[u]] = u /\ buf[u] \in Buf
        BY <1>0, <4>1, HolderFacts, Zenon
      <4>3. buf[u] # buf[t]
        BY <1>1, <4>2, NoneAssumption, Zenon
      <4> QED
        BY <1>1, <1>4, <4>2, <4>3, Zenon
    <3> QED
      BY <3>1, <3>2, Zenon
  <2> QED
    BY <2>1, Zenon DEF HoldInv
<1>7. QueueInv'
  <2>1. /\ \A u \in Thr : pc'[u] = "io" <=> pc[u] = "io"
        /\ \A u \in Thr : pc[u] = "io" =>
             buf'[u] = buf[u] /\ blk'[u] = blk[u] /\ write'[u] = write[u]
    BY <1>1, <1>4, Zenon
  <2> QED
    BY <1>0, <1>1, <2>1, SameQueue, Zenon
<1>8. DataInv'
  <2>1. \A b \in valid' : b \in fresh'
    BY <1>0, <1>1, Zenon DEF DataInv
  <2>2. \A u \in Thr : pc'[u] \in Using => buf'[u] \in valid'
    BY <1>0, <1>1, <1>3, <1>4, Zenon DEF DataInv, Using
  <2>3. \A u \in Thr : pc'[u] \in InDriver => (write'[u] <=> buf'[u] \in valid')
    BY <1>0, <1>1, <1>3, <1>4, Zenon DEF DataInv, InDriver
  <2>4. \A n \in pinned' : \E b \in Buf : blockno'[b] = n /\ b \in valid'
    BY <1>0, <1>1, Zenon DEF DataInv
  <2>5. \A n \in Block : n \in dfresh' \/ n \in pinned'
          \/ \E u \in Thr : blk'[u] = n /\ pc'[u] \in InDriver /\ write'[u]
    BY <1>0, <1>1, <1>4, SMTT(30) DEF DataInv, InDriver
  <2>6. \A u \in Thr : pc'[u] = "written" => blk'[u] \in dfresh'
    BY <1>0, <1>1, <1>4, SMTT(30) DEF DataInv
  <2>7. ASSUME NEW u \in Thr, pc'[u] = "io", HeadOf(u)' \notin avail' PROVE Moved(u)'
    <3>1. pc[u] = "io" /\ HeadOf(u) \notin avail /\ write'[u] = write[u]
      BY <1>1, <1>4, <2>7, Zenon DEF HeadOf
    <3>2. Moved(u)
      BY <1>0, <3>1, Zenon DEF DataInv
    <3> QED
      BY <1>1, <3>1, <3>2, Zenon DEF Moved
  <2> QED
    BY <2>1, <2>2, <2>3, <2>4, <2>5, <2>6, <2>7, Zenon DEF DataInv
<1>9. ChanInv'
  <2>1. \A u \in Thr : chan'[u] # None => u # t /\ chan'[u] = chan[u] /\ pc'[u] = pc[u]
    BY <1>1, <1>4, Zenon
  <2>2. ASSUME NEW u \in Thr, chan'[u] # None, pc[u] = "lock", lock[buf[u]] # None
        PROVE  lock'[buf[u]] # None
    <3>1. buf[u] \in Buf
      BY <1>0, <2>2, HasBuffer, Zenon DEF Away
    <3> QED
      BY <1>4, <2>2, <3>1, NoneAssumption, Zenon
  <2>3. used' # <<>> => irq' \/ handler' = "loop"
    BY <1>0, <1>1, Zenon DEF ChanInv
  <2> QED
    BY <1>0, <1>1, <2>1, <2>2, <2>3, SameChan, Zenon
<1> QED
  BY <1>5, <1>6, <1>7, <1>8, <1>9, Zenon DEF DriverInv

\* A process that has the buffer goes on to release it or to write it.
LEMMA HolderRest ==
  ASSUME DiskInv, NEW t \in Thr, pc[t] \in Using,
         NEW l \in {"release", "desc"}, pc' = [pc EXCEPT ![t] = l],
         write' \in [Thr -> BOOLEAN], \A u \in Thr : u # t => write'[u] = write[u],
         UNCHANGED <<buf, blk, chan, lock, bdisk, free, idx, ops, info, avail, used, irq, handler>>
  PROVE  /\ DiskTypes' /\ HoldInv' /\ QueueInv' /\ ChanInv'
         /\ \A u \in Thr : pc'[u] = IF u = t THEN l ELSE pc[u]
<1>0. CacheInv /\ DiskTypes /\ HoldInv /\ QueueInv /\ ChanInv
  BY Zenon DEF DiskInv, DriverInv
<1>1. \A u \in Thr : pc'[u] = IF u = t THEN l ELSE pc[u]
  BY <1>0, Zenon DEF CacheInv, CacheTypes
<1>2. DiskTypes'
  BY <1>0, Zenon DEF DiskTypes, Channel, FreeChan
<1>3. HoldInv'
  <2>1. \A u \in Thr : pc'[u] \in Holding => pc[u] \in Holding /\ buf'[u] = buf[u]
    BY <1>1, Zenon DEF Holding, Using
  <2> QED
    BY <1>0, <2>1, SameHold, Zenon
<1>4. QueueInv'
  <2>1. /\ \A u \in Thr : pc'[u] = "io" <=> pc[u] = "io"
        /\ \A u \in Thr : pc[u] = "io" =>
             buf'[u] = buf[u] /\ blk'[u] = blk[u] /\ write'[u] = write[u]
    BY <1>1, Zenon DEF Using
  <2> QED
    BY <1>0, <2>1, SameQueue, Zenon
<1>5. ChanInv'
  <2>1. pc[t] \notin {"io", "desc", "lock"}
    BY Zenon DEF Using
  <2>2. chan[t] = None
    BY <1>0, <2>1, NotAsleep, Zenon
  <2>3. \A u \in Thr : chan'[u] # None => u # t /\ chan'[u] = chan[u] /\ pc'[u] = pc[u]
    BY <1>1, <2>2, Zenon
  <2>4. used' # <<>> => irq' \/ handler' = "loop"
    BY <1>0, Zenon DEF ChanInv
  <2> QED
    BY <1>0, <2>3, <2>4, SameChan, Zenon
<1> QED
  BY <1>1, <1>2, <1>3, <1>4, <1>5, Zenon

\* New contents: the only buffer of the block has them, nobody else is at work on
\* that block, and the block is pinned or will be written.
LEMMA ModifiedData ==
  ASSUME DiskInv, NEW t \in Thr, pc[t] = "hold",
         fresh' = (fresh \ Cached(blk[t])) \cup {buf[t]}, dfresh' = dfresh \ {blk[t]},
         NEW l \in {"release", "desc"}, \A u \in Thr : pc'[u] = IF u = t THEN l ELSE pc[u],
         \A u \in Thr : u # t => write'[u] = write[u],
         UNCHANGED <<buf, blk, valid, blockno, idx, avail>>,
         \/ l = "release" /\ pinned' = pinned \cup {blk[t]}
         \/ l = "desc" /\ write'[t] /\ pinned' = pinned
  PROVE  DataInv'
<1>0. CacheInv /\ HoldInv /\ DataInv
  BY Zenon DEF DiskInv, DriverInv
<1>1. /\ buf[t] \in Buf /\ blk[t] \in Block /\ blockno[buf[t]] = blk[t]
      /\ \A b \in Buf : blockno[b] = blk[t] => b = buf[t]
      /\ \A u \in Thr : pc[u] \in Holding /\ u # t => buf[u] # buf[t] /\ blk[u] # blk[t]
  BY <1>0, HolderFacts, Zenon DEF Holding
<1>2. \A b : b \in fresh => b \in fresh'
  BY <1>1, Zenon DEF Cached
<1>3. buf[t] \in valid
  BY <1>0, Zenon DEF DataInv, Using
<1>4. \A b \in valid' : b \in fresh'
  BY <1>0, <1>2, Zenon DEF DataInv
<1>5. \A u \in Thr : pc'[u] \in Using => buf'[u] \in valid'
  BY <1>0, <1>3, Zenon DEF DataInv
<1>6. \A u \in Thr : pc'[u] \in InDriver => (write'[u] <=> buf'[u] \in valid')
  BY <1>0, <1>3, Zenon DEF DataInv, InDriver
<1>7. \A n \in pinned' : \E b \in Buf : blockno'[b] = n /\ b \in valid'
  BY <1>0, <1>1, <1>3, SMTT(30) DEF DataInv
<1>8. ASSUME NEW n \in Block, n \notin dfresh', n \notin pinned'
      PROVE  \E u \in Thr : blk'[u] = n /\ pc'[u] \in InDriver /\ write'[u]
  <2>1. CASE n = blk[t]
    BY <1>8, <2>1, Zenon DEF InDriver
  <2>2. CASE n # blk[t]
    <3>1. PICK u \in Thr : blk[u] = n /\ pc[u] \in InDriver /\ write[u]
      BY <1>0, <1>8, <2>2, Zenon DEF DataInv
    <3> QED
      BY <2>2, <3>1, Zenon
  <2> QED
    BY <2>1, <2>2, Zenon
<1>9. ASSUME NEW u \in Thr, pc'[u] = "written" PROVE blk'[u] \in dfresh'
  <2>1. u # t /\ pc[u] = "written"
    BY <1>9, Zenon
  <2>2. blk[u] \in dfresh /\ blk[u] # blk[t]
    BY <1>0, <1>1, <2>1, Zenon DEF DataInv, Holding
  <2> QED
    BY <2>2, Zenon
<1>10. ASSUME NEW u \in Thr, pc'[u] = "io", HeadOf(u)' \notin avail' PROVE Moved(u)'
  <2>1. u # t /\ pc[u] = "io" /\ HeadOf(u) \notin avail /\ write'[u] = write[u]
    BY <1>10, Zenon DEF HeadOf
  <2>2. Moved(u) /\ blk[u] # blk[t]
    BY <1>0, <1>1, <2>1, Zenon DEF DataInv, Holding
  <2> QED
    BY <1>2, <2>1, <2>2, Zenon DEF Moved
<1> QED
  BY <1>4, <1>5, <1>6, <1>7, <1>8, <1>9, <1>10, Zenon DEF DataInv

\* log_write() and bwrite() of new contents.
LEMMA ModifyDisk ==
  ASSUME DiskInv, NEW t \in Thr, LogWrite(t) \/ WriteThrough(t)
  PROVE  DriverInv'
<1>0. DiskTypes
  BY Zenon DEF DiskInv, DriverInv
<1>1. CASE LogWrite(t)
  <2>1. /\ pc[t] = "hold" /\ pc' = [pc EXCEPT ![t] = "release"]
        /\ fresh' = (fresh \ Cached(blk[t])) \cup {buf[t]} /\ dfresh' = dfresh \ {blk[t]}
        /\ UNCHANGED <<bdisk, free, idx, ops, info, avail, used, irq, handler>>
        /\ UNCHANGED <<blockno, buf, write, chan, valid, lock, blk>>
    BY <1>1, Zenon DEF LogWrite, Modified
  <2>2. pinned' = pinned \cup {blk[t]}
    <3>1. CASE ~NeedsPin(t) /\ UNCHANGED pinned
      BY <3>1, Zenon DEF NeedsPin
    <3> QED
      BY <1>1, <3>1, Zenon DEF LogWrite
  <2>3. /\ DiskTypes' /\ HoldInv' /\ QueueInv' /\ ChanInv'
        /\ \A u \in Thr : pc'[u] = IF u = t THEN "release" ELSE pc[u]
    BY <1>0, <2>1, HolderRest, Zenon DEF DiskTypes, Using
  <2>4. DataInv'
    BY <2>1, <2>2, <2>3, ModifiedData, Zenon
  <2> QED
    BY <2>3, <2>4, Zenon DEF DriverInv
<1>2. CASE WriteThrough(t)
  <2>1. /\ pc[t] = "hold" /\ pc' = [pc EXCEPT ![t] = "desc"]
        /\ fresh' = (fresh \ Cached(blk[t])) \cup {buf[t]} /\ dfresh' = dfresh \ {blk[t]}
        /\ write' = [write EXCEPT ![t] = TRUE]
        /\ UNCHANGED <<bdisk, free, idx, ops, info, avail, used, irq, handler>>
        /\ UNCHANGED <<blockno, buf, chan, valid, lock, blk, pinned>>
    BY <1>2, Zenon DEF WriteThrough, Modified, cacheVars
  <2>2. /\ write' \in [Thr -> BOOLEAN] /\ write'[t]
        /\ \A u \in Thr : u # t => write'[u] = write[u]
    BY <1>0, <2>1, Zenon DEF DiskTypes
  <2>3. /\ DiskTypes' /\ HoldInv' /\ QueueInv' /\ ChanInv'
        /\ \A u \in Thr : pc'[u] = IF u = t THEN "desc" ELSE pc[u]
    BY <2>1, <2>2, HolderRest, Zenon DEF Using
  <2>4. DataInv'
    BY <2>1, <2>2, <2>3, ModifiedData, Zenon
  <2> QED
    BY <2>3, <2>4, Zenon DEF DriverInv
<1> QED
  BY <1>1, <1>2, Zenon

\* install_trans(): a pinned block is written, and unpinned once it is on the disk.
LEMMA InstallDisk ==
  ASSUME DiskInv, NEW t \in Thr, Install(t) \/ Unpin(t)
  PROVE  DriverInv'
<1> USE DEF driverVars
<1>0. CacheInv /\ DiskTypes /\ DataInv
  BY Zenon DEF DiskInv, DriverInv
<1>1. PICK l \in {"release", "desc"} :
        /\ pc' = [pc EXCEPT ![t] = l] /\ pc[t] \in Using
        /\ l = "desc" => /\ write' = [write EXCEPT ![t] = TRUE] /\ pinned' = pinned
        /\ l = "release" => /\ pc[t] = "written" /\ pinned' = pinned \ {blk[t]} /\ write' = write
  BY Zenon DEF Install, Unpin, Using, cacheVars
<1>2. UNCHANGED <<buf, blk, chan, lock, valid, fresh, blockno, driverVars>>
  BY Zenon DEF Install, Unpin, cacheVars
<1>3. /\ write' \in [Thr -> BOOLEAN] /\ (l = "desc" => write'[t])
      /\ \A u \in Thr : u # t => write'[u] = write[u]
  BY <1>0, <1>1, Zenon DEF DiskTypes
<1>4. /\ DiskTypes' /\ HoldInv' /\ QueueInv' /\ ChanInv'
      /\ \A u \in Thr : pc'[u] = IF u = t THEN l ELSE pc[u]
  BY <1>1, <1>2, <1>3, HolderRest, Zenon
<1>5. DataInv'
  <2>1. buf[t] \in valid /\ (pc[t] = "written" => blk[t] \in dfresh)
    BY <1>0, <1>1, Zenon DEF DataInv
  <2>2. \A b \in valid' : b \in fresh'
    BY <1>0, <1>2, Zenon DEF DataInv
  <2>3. \A u \in Thr : pc'[u] \in Using => buf'[u] \in valid'
    BY <1>0, <1>2, <1>4, <2>1, Zenon DEF DataInv
  <2>4. \A u \in Thr : pc'[u] \in InDriver => (write'[u] <=> buf'[u] \in valid')
    BY <1>0, <1>2, <1>3, <1>4, <2>1, Zenon DEF DataInv, InDriver
  <2>5. \A n \in pinned' : \E b \in Buf : blockno'[b] = n /\ b \in valid'
    BY <1>0, <1>1, <1>2, Zenon DEF DataInv
  <2>6. ASSUME NEW n \in Block, n \notin dfresh', n \notin pinned'
        PROVE  \E u \in Thr : blk'[u] = n /\ pc'[u] \in InDriver /\ write'[u]
    <3>1. n \notin dfresh /\ n \notin pinned
      BY <1>1, <1>2, <2>1, <2>6, Zenon
    <3>2. PICK u \in Thr : blk[u] = n /\ pc[u] \in InDriver /\ write[u]
      BY <1>0, <3>1, Zenon DEF DataInv
    <3>3. u # t
      BY <1>1, <3>2, Zenon DEF InDriver, Using
    <3> QED
      BY <1>2, <1>3, <1>4, <3>2, <3>3, Zenon
  <2>7. \A u \in Thr : pc'[u] = "written" => blk'[u] \in dfresh'
    BY <1>0, <1>2, <1>4, Zenon DEF DataInv
  <2>8. ASSUME NEW u \in Thr, pc'[u] = "io", HeadOf(u)' \notin avail' PROVE Moved(u)'
    <3>1. u # t /\ pc[u] = "io" /\ HeadOf(u) \notin avail /\ write'[u] = write[u]
      BY <1>2, <1>3, <1>4, <2>8, Zenon DEF HeadOf
    <3>2. Moved(u)
      BY <1>0, <3>1, Zenon DEF DataInv
    <3> QED
      BY <1>2, <3>1, <3>2, Zenon DEF Moved
  <2> QED
    BY <2>2, <2>3, <2>4, <2>5, <2>6, <2>7, <2>8, Zenon DEF DataInv
<1> QED
  BY <1>4, <1>5, Zenon DEF DriverInv

\* releasesleep() wakes every waiter for the buffer.
LEMMA ReleaseDisk ==
  ASSUME DiskInv, NEW t \in Thr, ReleaseSleep(t)
  PROVE  DriverInv'
<1> USE DEF driverVars
<1>0. CacheInv /\ DiskTypes /\ HoldInv /\ QueueInv /\ DataInv /\ ChanInv
  BY Zenon DEF DiskInv, DriverInv
<1>1. /\ pc[t] \in Using /\ pc' = [pc EXCEPT ![t] = "drop"]
      /\ lock' = [lock EXCEPT ![buf[t]] = None] /\ chan' = Woken(LockChan(buf[t]))
      /\ UNCHANGED <<blockno, fresh, buf, write, driverVars, valid, blk, pinned>>
  BY Zenon DEF ReleaseSleep, Using, LockChan
<1>2. /\ buf[t] \in Buf
      /\ \A u \in Thr : pc[u] \in Holding /\ u # t => buf[u] # buf[t]
  BY <1>0, <1>1, HolderFacts, Zenon DEF Using, Holding
<1>3. /\ \A u \in Thr : /\ pc'[u] = IF u = t THEN "drop" ELSE pc[u]
                        /\ chan'[u] = IF chan[u] = LockChan(buf[t]) THEN None ELSE chan[u]
      /\ \A b \in Buf : lock'[b] = IF b = buf[t] THEN None ELSE lock[b]
  BY <1>0, <1>1, <1>2, Zenon DEF CacheInv, CacheTypes, DiskTypes, Woken
<1>4. DiskTypes'
  <2>1. lock' \in [Buf -> Thr \cup {None}]
    BY <1>0, <1>1, Zenon DEF DiskTypes
  <2>2. chan' \in [Thr -> Channel \cup {None}]
    BY <1>0, <1>1, WokenType, Zenon
  <2> QED
    BY <1>0, <1>1, <2>1, <2>2, Zenon DEF DiskTypes, Channel, FreeChan
<1>5. HoldInv'
  <2>1. ASSUME NEW u \in Thr, pc'[u] \in Holding PROVE lock'[buf'[u]] = u
    <3>1. u # t /\ pc[u] \in Holding
      BY <1>3, <2>1, Zenon DEF Holding
    <3>2. lock[buf[u]] = u /\ buf[u] \in Buf /\ buf[u] # buf[t]
      BY <1>0, <1>2, <3>1, HolderFacts, Zenon
    <3> QED
      BY <1>1, <1>3, <3>2, Zenon
  <2> QED
    BY <2>1, Zenon DEF HoldInv
<1>6. QueueInv'
  <2>1. \A u \in Thr : pc'[u] = "io" <=> pc[u] = "io"
    BY <1>1, <1>3, SMTT(30) DEF Using
  <2> QED
    BY <1>0, <1>1, <2>1, SameQueue, Zenon
<1>7. DataInv'
  <2>1. \A u \in Thr : pc'[u] \in Using => pc[u] \in Using /\ buf'[u] = buf[u]
    BY <1>1, <1>3, Zenon DEF Using
  <2>2. \A u \in Thr : pc'[u] = "written" => pc[u] = "written" /\ blk'[u] = blk[u]
    BY <1>1, <1>3, SMTT(30)
  <2>3. \A u \in Thr : pc'[u] \in InDriver <=> pc[u] \in InDriver
    BY <1>1, <1>3, SMTT(30) DEF InDriver, Using
  <2>4. \A u \in Thr : pc'[u] = "io" /\ HeadOf(u)' \notin avail' =>
                         pc[u] = "io" /\ HeadOf(u) \notin avail
    BY <1>1, <1>3, SMTT(30) DEF HeadOf
  <2> QED
    BY <1>0, <1>1, <2>1, <2>2, <2>3, <2>4, SameData, Zenon
<1>8. ChanInv'
  <2>1. pc[t] \notin {"io", "desc", "lock"}
    BY <1>1, Zenon DEF Using
  <2>2. chan[t] = None
    BY <1>0, <2>1, NotAsleep, Zenon
  <2>3. \A u \in Thr : chan'[u] # None =>
          u # t /\ chan'[u] = chan[u] /\ chan[u] # LockChan(buf[t]) /\ pc'[u] = pc[u]
    BY <1>3, <2>2, Zenon
  <2>4. ASSUME NEW u \in Thr, chan'[u] # None, pc[u] = "lock",
               chan[u] = LockChan(buf[u]), lock[buf[u]] # None
        PROVE  lock'[buf[u]] # None
    <3>1. buf[u] \in Buf /\ buf[u] # buf[t]
      BY <1>0, <2>3, <2>4, HasBuffer, Zenon DEF Away
    <3> QED
      BY <1>3, <2>4, <3>1, Zenon
  <2>5. used' # <<>> => irq' \/ handler' = "loop"
    BY <1>0, <1>1, Zenon DEF ChanInv
  <2> QED
    BY <1>0, <1>1, <2>3, <2>4, <2>5, SameChan, Zenon
<1> QED
  BY <1>4, <1>5, <1>6, <1>7, <1>8, Zenon DEF DriverInv

\* The device finishes a request.  A written buffer is valid, hence the latest; for
\* a read, nobody else caches the block, so the disk has the latest.
LEMMA DeviceDisk ==
  ASSUME DiskInv, NEW i \in Desc, DeviceDone(i), UNCHANGED cacheVars
  PROVE  DriverInv'
<1> USE DEF cacheVars
<1>0. CacheInv /\ DiskTypes /\ HoldInv /\ QueueInv /\ DataInv /\ ChanInv
  BY Zenon DEF DiskInv, DriverInv
<1>1. /\ i \in avail /\ avail' = avail \ {i} /\ used' = Append(used, i) /\ irq' = TRUE
      /\ UNCHANGED <<blockno, bdisk, free, idx, ops, info, handler, pc, buf, write, chan>>
  BY Zenon DEF DeviceDone
<1>2. PICK w \in Thr : pc[w] = "io" /\ i = HeadOf(w)
  BY <1>0, <1>1, Zenon DEF QueueInv
<1>3. /\ ops[i] = [buf |-> buf[w], blk |-> blk[w], write |-> write[w]]
      /\ ~InUsed(i) /\ buf[w] \in bdisk
  BY <1>0, <1>1, <1>2, Zenon DEF QueueInv
<1>4. ops[i].buf = buf[w] /\ ops[i].blk = blk[w] /\ ops[i].write = write[w]
  BY <1>3, SMTT(30)
<1>5. \A u \in Thr : pc[u] = "io" /\ u # w => HeadOf(u) # i
  BY <1>0, <1>2, HeadFacts, Zenon
<1>6. /\ buf[w] \in Buf /\ blk[w] \in Block
      /\ \A b \in Buf : blockno[b] = blk[w] => b = buf[w]
      /\ \A u \in Thr : pc[u] \in Holding /\ u # w => blk[u] # blk[w]
  BY <1>0, <1>2, HolderFacts, Zenon DEF Holding
<1>7. /\ used' \in Seq(Desc)
      /\ \A d \in Desc : InUsed(d)' <=> InUsed(d) \/ d = i
      /\ \A j, k \in 1 .. Len(used') : used'[j] = used'[k] => j = k
  BY <1>0, <1>1, <1>3, AppendUsed, Zenon DEF DiskTypes, QueueInv
<1>8. \A u \in Thr : HeadOf(u)' = HeadOf(u)
  BY <1>1, Zenon DEF HeadOf
<1>9. write[w] <=> buf[w] \in valid
  BY <1>0, <1>2, Zenon DEF DataInv, InDriver
<1>10. /\ \A b : b \in fresh => b \in fresh'
       /\ \A n : n \in dfresh => n \in dfresh'
       /\ IF write[w] THEN blk[w] \in dfresh' ELSE buf[w] \in fresh'
  <2>1. CASE write[w]
    <3>1. buf[w] \in fresh
      BY <1>0, <1>9, <2>1, Zenon DEF DataInv
    <3>2. dfresh' = dfresh \cup {blk[w]} /\ UNCHANGED fresh
      BY <1>4, <2>1, <3>1, Zenon DEF DeviceDone
    <3> QED
      BY <2>1, <3>2, Zenon
  <2>2. CASE ~write[w]
    <3>1. blk[w] \notin pinned
      BY <1>0, <1>6, <1>9, <2>2, Zenon DEF DataInv
    <3>2. ~ \E u \in Thr : blk[u] = blk[w] /\ pc[u] \in InDriver /\ write[u]
      BY <1>6, <2>2, Zenon DEF InDriver, Holding
    <3>3. blk[w] \in dfresh
      BY <1>0, <1>6, <3>1, <3>2, Zenon DEF DataInv
    <3>4. fresh' = fresh \cup {buf[w]} /\ UNCHANGED dfresh
      BY <1>4, <2>2, <3>3, Zenon DEF DeviceDone
    <3> QED
      BY <2>2, <3>4, Zenon
  <2> QED
    BY <2>1, <2>2, Zenon
<1>11. DiskTypes'
  BY <1>0, <1>1, <1>7, Zenon DEF DiskTypes, Channel, FreeChan
<1>12. HoldInv'
  BY <1>0, <1>1, SameHold, Zenon
<1>13. QueueInv'
  <2>1. ASSUME NEW u \in Thr, pc'[u] = "io"
        PROVE  /\ ops'[HeadOf(u)'] = [buf |-> buf'[u], blk |-> blk'[u], write |-> write'[u]]
               /\ info'[HeadOf(u)'] = buf'[u]
               /\ HeadOf(u)' \in avail' => ~InUsed(HeadOf(u))'
               /\ buf'[u] \in bdisk' <=> HeadOf(u)' \in avail' \/ InUsed(HeadOf(u))'
    <3>1. PICK d \in Desc : d = HeadOf(u) /\ d = HeadOf(u)' /\ pc[u] = "io"
      BY <1>0, <1>1, <1>8, <2>1, HeadFacts, Zenon
    <3>2. /\ ops[d] = [buf |-> buf[u], blk |-> blk[u], write |-> write[u]]
          /\ info[d] = buf[u]
          /\ d \in avail => ~InUsed(d)
          /\ buf[u] \in bdisk <=> d \in avail \/ InUsed(d)
      BY <1>0, <3>1, Zenon DEF QueueInv
    <3>3. InUsed(HeadOf(u))' <=> InUsed(d)'
      BY <3>1, Zenon DEF InUsed
    <3>4. InUsed(d)' <=> InUsed(d) \/ d = i
      BY <1>7, Zenon
    <3> QED
      BY <1>1, <3>1, <3>2, <3>3, <3>4, Zenon
  <2>2. ASSUME NEW d \in Desc, d \in avail' \/ InUsed(d)'
        PROVE  \E u \in Thr : pc'[u] = "io" /\ d = HeadOf(u)'
    <3>1. d \in avail \/ InUsed(d)
      BY <1>1, <1>7, <2>2, Zenon
    <3> QED
      BY <1>0, <1>1, <1>8, <3>1, SMTT(30) DEF QueueInv
  <2>3. /\ \A u \in Thr : pc'[u] = "io" => idx'[u] # {}
        /\ \A u \in Thr : \A d \in idx'[u] : d \notin free'
        /\ \A u, v \in Thr : u # v => \A d \in idx'[u] : d \notin idx'[v]
    BY <1>0, <1>1, Zenon DEF QueueInv
  <2> QED
    BY <1>7, <2>1, <2>2, <2>3, Zenon DEF QueueInv
<1>14. DataInv'
  <2>1. \A b \in valid' : b \in fresh'
    BY <1>0, <1>10, Zenon DEF DataInv
  <2>2. /\ \A u \in Thr : pc'[u] \in Using => buf'[u] \in valid'
        /\ \A u \in Thr : pc'[u] \in InDriver => (write'[u] <=> buf'[u] \in valid')
        /\ \A n \in pinned' : \E b \in Buf : blockno'[b] = n /\ b \in valid'
    BY <1>0, <1>1, Zenon DEF DataInv
  <2>3. \A n \in Block : n \in dfresh' \/ n \in pinned'
          \/ \E u \in Thr : blk'[u] = n /\ pc'[u] \in InDriver /\ write'[u]
    BY <1>0, <1>1, <1>10, Zenon DEF DataInv
  <2>4. \A u \in Thr : pc'[u] = "written" => blk'[u] \in dfresh'
    BY <1>0, <1>1, <1>10, Zenon DEF DataInv
  <2>5. ASSUME NEW u \in Thr, pc'[u] = "io", HeadOf(u)' \notin avail' PROVE Moved(u)'
    <3>1. CASE u = w
      BY <1>1, <1>10, <3>1, Zenon DEF Moved
    <3>2. CASE u # w
      <4>1. pc[u] = "io" /\ HeadOf(u) \notin avail
        BY <1>1, <1>5, <1>8, <2>5, <3>2, Zenon
      <4>2. Moved(u)
        BY <1>0, <4>1, Zenon DEF DataInv
      <4> QED
        BY <1>1, <1>10, <4>2, Zenon DEF Moved
    <3> QED
      BY <3>1, <3>2, Zenon
  <2> QED
    BY <2>1, <2>2, <2>3, <2>4, <2>5, Zenon DEF DataInv
<1>15. ChanInv'
  <2>1. used' # <<>> => irq' \/ handler' = "loop"
    BY <1>1, Zenon
  <2> QED
    BY <1>0, <1>1, <2>1, SameChan, Zenon
<1> QED
  BY <1>11, <1>12, <1>13, <1>14, <1>15, Zenon DEF DriverInv

\* The handler takes one entry: it clears b->disk of that request alone, and wakes
\* its caller.
LEMMA IntrEntryDisk ==
  ASSUME DiskInv, IntrEntry, UNCHANGED cacheVars
  PROVE  DriverInv'
<1> USE DEF cacheVars
<1>0. CacheInv /\ DiskTypes /\ HoldInv /\ QueueInv /\ DataInv /\ ChanInv
  BY Zenon DEF DiskInv, DriverInv
<1>1. /\ handler = "loop" /\ used # <<>> /\ used' = Tail(used)
      /\ bdisk' = bdisk \ {info[Head(used)]}
      /\ chan' = Woken(DiskChan(info[Head(used)]))
      /\ UNCHANGED <<blockno, free, idx, ops, info, avail, dfresh, fresh, pc, buf, write>>
      /\ UNCHANGED <<irq, handler>>
  BY Zenon DEF IntrEntry, IntrFrame
<1>2. PICK i \in Desc :
        /\ i = Head(used) /\ InUsed(i) /\ used' \in Seq(Desc)
        /\ \A d \in Desc : InUsed(d)' <=> InUsed(d) /\ d # i
        /\ \A j, k \in 1 .. Len(used') : used'[j] = used'[k] => j = k
  BY <1>0, <1>1, TailUsed, Zenon DEF DiskTypes, QueueInv
<1>3. PICK w \in Thr : pc[w] = "io" /\ i = HeadOf(w)
  BY <1>0, <1>2, Zenon DEF QueueInv
<1>4. info[i] = buf[w] /\ i \notin avail
  BY <1>0, <1>2, <1>3, Zenon DEF QueueInv
<1>5. bdisk' = bdisk \ {buf[w]} /\ chan' = Woken(DiskChan(buf[w]))
  BY <1>1, <1>2, <1>4, Zenon
<1>6. \A u \in Thr : pc[u] = "io" /\ u # w => HeadOf(u) # i /\ buf[u] # buf[w]
  BY <1>0, <1>3, HeadFacts, HolderFacts, Zenon DEF Holding
<1>7. \A u \in Thr : HeadOf(u)' = HeadOf(u)
  BY <1>1, Zenon DEF HeadOf
<1>8. DiskTypes'
  <2>1. chan' \in [Thr -> Channel \cup {None}]
    BY <1>0, <1>5, WokenType, Zenon
  <2> QED
    BY <1>0, <1>1, <1>2, <2>1, Zenon DEF DiskTypes, Channel, FreeChan
<1>9. HoldInv'
  BY <1>0, <1>1, SameHold, Zenon
<1>10. QueueInv'
  <2>1. ASSUME NEW u \in Thr, pc'[u] = "io"
        PROVE  /\ ops'[HeadOf(u)'] = [buf |-> buf'[u], blk |-> blk'[u], write |-> write'[u]]
               /\ info'[HeadOf(u)'] = buf'[u]
               /\ HeadOf(u)' \in avail' => ~InUsed(HeadOf(u))'
               /\ buf'[u] \in bdisk' <=> HeadOf(u)' \in avail' \/ InUsed(HeadOf(u))'
    <3>1. PICK d \in Desc : d = HeadOf(u) /\ d = HeadOf(u)' /\ pc[u] = "io"
      BY <1>0, <1>1, <1>7, <2>1, HeadFacts, Zenon
    <3>2. /\ ops[d] = [buf |-> buf[u], blk |-> blk[u], write |-> write[u]]
          /\ info[d] = buf[u]
          /\ d \in avail => ~InUsed(d)
          /\ buf[u] \in bdisk <=> d \in avail \/ InUsed(d)
      BY <1>0, <3>1, Zenon DEF QueueInv
    <3>3. InUsed(HeadOf(u))' <=> InUsed(d)'
      BY <3>1, Zenon DEF InUsed
    <3>4. InUsed(d)' <=> InUsed(d) /\ d # i
      BY <1>2, Zenon
    <3>5. u = w => d = i
      BY <1>3, <3>1, Zenon
    <3>6. u # w => d # i /\ buf[u] # buf[w]
      BY <1>6, <3>1, Zenon
    <3>7. buf[u] \in bdisk' <=> d \in avail \/ InUsed(d)'
      BY <1>4, <1>5, <3>2, <3>4, <3>5, <3>6, Zenon
    <3> QED
      BY <1>1, <3>1, <3>2, <3>3, <3>4, <3>7, Zenon
  <2>2. ASSUME NEW d \in Desc, d \in avail' \/ InUsed(d)'
        PROVE  \E u \in Thr : pc'[u] = "io" /\ d = HeadOf(u)'
    <3>1. d \in avail \/ InUsed(d)
      BY <1>1, <1>2, <2>2, Zenon
    <3> QED
      BY <1>0, <1>1, <1>7, <3>1, SMTT(30) DEF QueueInv
  <2>3. /\ \A u \in Thr : pc'[u] = "io" => idx'[u] # {}
        /\ \A u \in Thr : \A d \in idx'[u] : d \notin free'
        /\ \A u, v \in Thr : u # v => \A d \in idx'[u] : d \notin idx'[v]
    BY <1>0, <1>1, Zenon DEF QueueInv
  <2> QED
    BY <1>2, <2>1, <2>2, <2>3, Zenon DEF QueueInv
<1>11. DataInv'
  BY <1>0, <1>1, <1>7, SameData, Zenon
<1>12. ChanInv'
  <2>1. \A u \in Thr : chan'[u] = IF chan[u] = DiskChan(buf[w]) THEN None ELSE chan[u]
    BY <1>5, Zenon DEF Woken
  <2>2. ASSUME NEW u \in Thr, chan'[u] # None, pc[u] = "io",
               chan[u] = DiskChan(buf[u]), buf[u] \in bdisk
        PROVE  buf[u] \in bdisk'
    <3>1. buf[u] # buf[w]
      BY <2>1, <2>2, Zenon
    <3> QED
      BY <1>5, <2>2, <3>1, Zenon
  <2>3. \A u \in Thr : chan'[u] # None => chan'[u] = chan[u]
    BY <2>1, Zenon
  <2>4. used' # <<>> => irq' \/ handler' = "loop"
    BY <1>1, Zenon
  <2> QED
    BY <1>0, <1>1, <2>2, <2>3, <2>4, SameChan, Zenon
<1> QED
  BY <1>8, <1>9, <1>10, <1>11, <1>12, Zenon DEF DriverInv

\* The handler begins or ends, or nothing happens.
LEMMA HandlerDisk ==
  ASSUME DiskInv, ((IntrAck \/ IntrReturn) /\ UNCHANGED cacheVars) \/ UNCHANGED vars
  PROVE  DriverInv'
<1> USE DEF cacheVars, driverVars
<1>0. DiskTypes /\ HoldInv /\ QueueInv /\ DataInv /\ ChanInv
  BY Zenon DEF DiskInv, DriverInv
<1>1. /\ UNCHANGED <<blockno, free, idx, ops, info, avail, dfresh, fresh, pc, buf, write>>
      /\ UNCHANGED <<bdisk, used, chan, valid, lock, blk, pinned>>
  BY Zenon DEF IntrAck, IntrReturn, IntrFrame, vars
<1>2. used' # <<>> => irq' \/ handler' = "loop"
  BY <1>0, <1>1, Zenon DEF IntrAck, IntrReturn, vars, ChanInv
<1>3. \A u \in Thr : HeadOf(u)' = HeadOf(u)
  BY <1>1, Zenon DEF HeadOf
<1>4. DiskTypes'
  BY <1>0, <1>1, Zenon DEF DiskTypes, Channel, FreeChan
<1>5. HoldInv' /\ QueueInv'
  BY <1>0, <1>1, SameHold, SameQueue, Zenon
<1>6. DataInv'
  BY <1>0, <1>1, <1>3, SameData, Zenon
<1>7. ChanInv'
  BY <1>0, <1>1, <1>2, SameChan, Zenon
<1> QED
  BY <1>4, <1>5, <1>6, <1>7, Zenon DEF DriverInv

\* Initially nothing is under way.
LEMMA InitDisk ==
  ASSUME Init
  PROVE  DriverInv
<1>1. /\ free = Desc /\ idx = [t \in Thr |-> {}] /\ avail = {} /\ used = <<>>
      /\ ops = [i \in Desc |-> None] /\ info = [i \in Desc |-> None] /\ dfresh = Block
      /\ fresh = {} /\ valid = {} /\ lock = [b \in Buf |-> None]
      /\ pc = [t \in Thr |-> "idle"] /\ chan = [t \in Thr |-> None]
      /\ write = [t \in Thr |-> FALSE] /\ pinned = {}
  BY Zenon DEF Init, InitDriver
<1>2. used \in Seq(Desc) /\ Len(used) = 0 /\ 1 .. Len(used) = {}
  <2>1. used \in Seq(Desc) /\ Len(used) = 0
    BY <1>1, EmptySeq, Zenon
  <2>2. 1 .. 0 = {}
    BY SMT
  <2> QED
    BY <2>1, <2>2, Zenon
<1>3. DiskTypes
  BY <1>1, <1>2, Zenon DEF DiskTypes
<1>4. \A t \in Thr : pc[t] = "idle" /\ chan[t] = None /\ idx[t] = {}
  BY <1>1, Zenon
<1>5. HoldInv
  BY <1>4, Zenon DEF HoldInv, Holding
<1>6. QueueInv
  BY <1>1, <1>2, <1>4, Zenon DEF QueueInv, InUsed
<1>7. DataInv
  BY <1>1, <1>4, Zenon DEF DataInv, Using, InDriver
<1>8. ChanInv
  BY <1>1, <1>4, Zenon DEF ChanInv
<1> QED
  BY <1>3, <1>5, <1>6, <1>7, <1>8, Zenon DEF DriverInv

\* DiskInv is an invariant of the cache over the driver.
THEOREM DiskInvariant == Spec => []DiskInv
<1>1. Init => DriverInv
  BY InitDisk, Zenon
<1>2. CacheInv /\ DriverInv /\ [Next]_vars => DriverInv'
  <2> SUFFICES ASSUME CacheInv, DriverInv, [Next]_vars PROVE DriverInv'
    BY Zenon
  <2>0. DiskInv /\ CacheTypes
    BY Zenon DEF DiskInv, CacheInv
  <2>1. ASSUME NEW t \in Thr, Bread(t) PROVE DriverInv'
    <3>1. PICK n \in Wants[t] : BgetHit(t, n) \/ BgetMiss(t, n) \/ BgetPanic(t, n)
      BY <2>1, Zenon DEF Bread
    <3>2. n \in Block
      BY WantsAssumption, Zenon
    <3>3. CASE BgetHit(t, n) \/ BgetPanic(t, n)
      <4>1. /\ pc[t] = "idle" /\ \E l \in {"idle", "lock", "panic"} : pc' = [pc EXCEPT ![t] = l]
            /\ \A u \in Thr : u # t => buf'[u] = buf[u] /\ blk'[u] = blk[u]
        BY <2>0, <3>3, Zenon DEF BgetHit, BgetPanic, CacheTypes, cacheVars
      <4>2. UNCHANGED <<write, chan, lock, driverVars, valid, fresh, pinned, blockno>>
        BY <3>3, Zenon DEF BgetHit, BgetPanic, cacheVars
      <4> QED
        BY <2>0, <4>1, <4>2, OutsideRest, OutsideData, Zenon DEF DriverInv
    <3> QED
      BY <2>0, <3>1, <3>2, <3>3, BgetMissDisk, Zenon
  <2>2. ASSUME NEW t \in Thr, Brelse(t) PROVE DriverInv'
    <3>1. /\ pc[t] = "drop" /\ pc' = [pc EXCEPT ![t] = "idle"]
          /\ \A u \in Thr : u # t => buf'[u] = buf[u] /\ blk'[u] = blk[u]
      BY <2>0, <2>2, Zenon DEF Brelse, CacheTypes
    <3>2. UNCHANGED <<write, chan, lock, driverVars, valid, fresh, pinned, blockno>>
      BY <2>2, Zenon DEF Brelse
    <3> QED
      BY <2>0, <3>1, <3>2, OutsideRest, OutsideData, Zenon DEF DriverInv
  <2>3. ASSUME NEW t \in Thr, Process(t) PROVE DriverInv'
    BY <2>0, <2>2, <2>3, SleepDisk, SubmitDisk, TransferredDisk, AcquireDisk, ModifyDisk,
       InstallDisk, ReleaseDisk, Zenon DEF Process
  <2>4. CASE (Device \/ Interrupt) /\ UNCHANGED cacheVars
    BY <2>0, <2>4, DeviceDisk, IntrEntryDisk, HandlerDisk, Zenon DEF Device, Interrupt
  <2>5. CASE UNCHANGED vars
    BY <2>0, <2>5, HandlerDisk, Zenon
  <2> QED
    BY <2>1, <2>3, <2>4, <2>5, Zenon DEF Next
<1>3. Spec => []DriverInv
  BY <1>1, <1>2, CacheInvariant, PTL DEF Spec
<1> QED
  BY <1>3, CacheInvariant, PTL DEF DiskInv

\* Between bread() and brelse() the caller has the buffer to itself, and it holds
\* the latest data of the block asked for.
THEOREM HoldersSeeLatest == Spec => []HolderSeesLatest
<1>1. DiskInv => HolderSeesLatest
  <2> SUFFICES ASSUME DiskInv, NEW t \in Thr, pc[t] \in {"hold", "release", "written"}
               PROVE  /\ lock[buf[t]] = t /\ blockno[buf[t]] = blk[t]
                      /\ buf[t] \in valid \cap fresh
    BY Zenon DEF HolderSeesLatest
  <2>1. lock[buf[t]] = t /\ blockno[buf[t]] = blk[t]
    BY HolderFacts, Zenon DEF DiskInv, DriverInv, Holding
  <2>2. buf[t] \in valid /\ buf[t] \in fresh
    BY Zenon DEF DiskInv, DriverInv, DataInv, Using
  <2> QED
    BY <2>1, <2>2, Zenon
<1> QED
  BY <1>1, DiskInvariant, PTL

\* When bwrite() returns the disk has the data, and brelse() never makes the last
\* copy of a block recyclable.
THEOREM WritesReachDisk == Spec => []WriteReachesDisk
<1>1. DiskInv => WriteReachesDisk
  BY Zenon DEF DiskInv, DriverInv, DataInv, InDriver, WriteReachesDisk
<1> QED
  BY <1>1, DiskInvariant, PTL

\* Nobody sleeps on a request, a descriptor or a buffer that is already there.
THEOREM NoWakeupIsLost == Spec => []NoLostWakeup
<1>1. DiskInv => NoLostWakeup
  <2> SUFFICES ASSUME DiskInv, NEW t \in Thr, chan[t] # None
               PROVE  CASE pc[t] = "io"   ->
                             \/ Lowest(idx[t]) \in avail
                             \/ Lowest(idx[t]) \in Range(used) /\ (irq \/ handler = "loop")
                        [] pc[t] = "desc" -> Cardinality(free) < 3
                        [] pc[t] = "lock" -> lock[buf[t]] # None
    BY Zenon DEF NoLostWakeup
  <2>0. DiskTypes /\ QueueInv /\ ChanInv
    BY Zenon DEF DiskInv, DriverInv
  <2>1. CASE pc[t] = "io"
    <3>1. buf[t] \in bdisk
      BY <2>0, <2>1, Zenon DEF ChanInv
    <3>2. Lowest(idx[t]) \in avail \/ InUsed(Lowest(idx[t]))
      BY <2>0, <2>1, <3>1, Zenon DEF QueueInv, HeadOf
    <3>3. InUsed(Lowest(idx[t])) => Lowest(idx[t]) \in Range(used) /\ used # <<>>
      <4>1. DOMAIN used = 1 .. Len(used)
        BY <2>0, LenProperties, Zenon DEF DiskTypes
      <4>2. used = <<>> => 1 .. Len(used) = {}
        BY SMT
      <4> QED
        BY <4>1, <4>2, Zenon DEF InUsed, Range
    <3>4. used # <<>> => irq \/ handler = "loop"
      BY <2>0, Zenon DEF ChanInv
    <3> QED
      BY <2>1, <3>2, <3>3, <3>4, Zenon
  <2>2. CASE pc[t] = "desc"
    <3>1. Cardinality(free) < 3
      BY <2>0, <2>2, Zenon DEF ChanInv
    <3> QED
      BY <2>2, <3>1, Zenon
  <2>3. CASE pc[t] = "lock"
    <3>1. lock[buf[t]] # None
      BY <2>0, <2>3, Zenon DEF ChanInv
    <3> QED
      BY <2>3, <3>1, Zenon
  <2> QED
    BY <2>0, <2>1, <2>2, <2>3, Zenon DEF ChanInv
<1> QED
  BY <1>1, DiskInvariant, PTL
=============================================================================
