---------------------------- MODULE FsCountProofs ---------------------------
(***************************************************************************)
(* The in-memory inodes.  A copy that is valid is what the disk holds.     *)
(* And the references are counted: a step that changes ref by what comes   *)
(* to refer to an inode keeps ref exact, and a lock is one of the          *)
(* references.  For any processes, inodes, blocks, names and calls.        *)
(***************************************************************************)
EXTENDS FsInv, FiniteSetTheorems, TLAPS

-----------------------------------------------------------------------------
(* Valid copies.                                                             *)

\* A file system with a dinode for every inode number, and e that differs from d in
\* the inodes of S at most.
InoOk(d) == "ino" \in DOMAIN d /\ DOMAIN d.ino = Inum
Kept(d, e, S) == InoOk(e) /\ \A i \in Inum : i \notin S => e.ino[i] = d.ino[i]

CopyInv ==
  /\ InoOk(disk) /\ InoOk(durable) /\ DOMAIN mem = Inum
  /\ CopiesCurrent
  /\ ~up => (\A i \in Inum : mem[i] = NoInode) /\ (\A p \in Proc : todo[p] = <<>>)

\* iupdate(), and the operations that leave the dinodes alone.
LEMMA InoSet ==
  ASSUME NEW d, InoOk(d), NEW j, NEW x, NEW n
  PROVE  /\ Kept(d, [d EXCEPT !.ino[j] = x], {j}) /\ Kept(d, [d EXCEPT !.used = x], {j})
         /\ Kept(d, [d EXCEPT !.ents[j] = x], {j}) /\ Kept(d, [d EXCEPT !.ents[j][n] = x], {j})
<1>1. ASSUME NEW y PROVE Kept(d, [d EXCEPT !.used = y], {j}) /\ Kept(d, [d EXCEPT !.ents = y], {j})
  BY Zenon DEF Kept, InoOk
<1>2. Kept(d, [d EXCEPT !.ino[j] = x], {j})
  <2>1. /\ "ino" \in DOMAIN [d EXCEPT !.ino[j] = x]
        /\ [d EXCEPT !.ino[j] = x].ino = [d.ino EXCEPT ![j] = x]
    BY Zenon DEF InoOk
  <2> QED
    BY <2>1, Zenon DEF Kept, InoOk
<1> QED
  BY <1>1, <1>2, Zenon

\* The operations of the inode layer change the dinode they are about.
LEMMA KeptFacts ==
  ASSUME NEW d, InoOk(d), NEW j
  PROVE  /\ \A x : Kept(d, Updated(d, j, x), {j}) /\ Kept(d, NlinkAdd(d, j, x), {j})
         /\ Kept(d, Grown(d, j), {j}) /\ Kept(d, Truncated(d, j), {j})
         /\ \A n, x : Kept(d, Linked(d, j, n, x), {j}) /\ Kept(d, Unlinked(d, j, n), {j})
<1>1. ASSUME NEW x PROVE Kept(d, Updated(d, j, x), {j})
  BY InoSet, Zenon DEF Updated
<1>2. ASSUME NEW x PROVE Kept(d, NlinkAdd(d, j, x), {j})
  <2>1. PICK y : NlinkAdd(d, j, x) = [d EXCEPT !.ino[j] = y]
    BY Zenon DEF NlinkAdd
  <2>2. Kept(d, [d EXCEPT !.ino[j] = y], {j})
    BY InoSet, Zenon
  <2> QED
    BY <2>1, <2>2, Zenon
<1>3. Kept(d, Grown(d, j), {j})
  <2>1. PICK y, z : Grown(d, j) = [[d EXCEPT !.used = y] EXCEPT !.ino[j] = z]
    BY Zenon DEF Grown
  <2>2. PICK e : e = [d EXCEPT !.used = y]
    BY Zenon
  <2>3. Kept(d, e, {j})
    <3>1. Kept(d, [d EXCEPT !.used = y], {j})
      BY InoSet, Zenon
    <3> QED
      BY <2>2, <3>1, Zenon
  <2>4. InoOk(e)
    BY <2>3, Zenon DEF Kept
  <2>5. Kept(e, [e EXCEPT !.ino[j] = z], {j})
    BY <2>4, InoSet, Zenon
  <2>6. Grown(d, j) = [e EXCEPT !.ino[j] = z]
    BY <2>1, <2>2, Zenon
  <2> QED
    BY <2>3, <2>5, <2>6, Zenon DEF Kept
<1>4. Kept(d, Truncated(d, j), {j})
  <2>1. PICK e : e = Bfree(d, d.ino[j].blocks)
    BY Zenon
  <2>2. Kept(d, e, {j})
    <3>1. Kept(d, [d EXCEPT !.used = @ \ d.ino[j].blocks], {j})
      BY InoSet, Zenon
    <3> QED
      BY <2>1, <3>1, Zenon DEF Bfree
  <2>3. PICK y : Truncated(d, j) = [[e EXCEPT !.ino[j] = y] EXCEPT !.ents[j] = NoEntries]
    BY <2>1, Zenon DEF Truncated
  <2>4. PICK f : f = [e EXCEPT !.ino[j] = y]
    BY Zenon
  <2>5. Kept(e, f, {j})
    <3>1. InoOk(e)
      BY <2>2, Zenon DEF Kept
    <3>2. Kept(e, [e EXCEPT !.ino[j] = y], {j})
      BY <3>1, InoSet, Zenon
    <3> QED
      BY <2>4, <3>2, Zenon
  <2>6. Kept(f, [f EXCEPT !.ents[j] = NoEntries], {j})
    <3>1. InoOk(f)
      BY <2>5, Zenon DEF Kept
    <3> QED
      BY <3>1, InoSet, Zenon
  <2>7. Truncated(d, j) = [f EXCEPT !.ents[j] = NoEntries]
    BY <2>3, <2>4, Zenon
  <2> QED
    BY <2>2, <2>5, <2>6, <2>7, Zenon DEF Kept
<1>5. ASSUME NEW n, NEW x PROVE Kept(d, Linked(d, j, n, x), {j})
  <2>1. PICK g : g = IF HasRoom(d, j) THEN d ELSE Grown(d, j)
    BY Zenon
  <2>2. Kept(d, g, {j})
    BY <1>3, <2>1, Zenon DEF Kept
  <2>3. Linked(d, j, n, x) = [g EXCEPT !.ents[j][n] = x]
    BY <2>1, Zenon DEF Linked
  <2>4. Kept(g, Linked(d, j, n, x), {j})
    <3>1. InoOk(g)
      BY <2>2, Zenon DEF Kept
    <3>2. Kept(g, [g EXCEPT !.ents[j][n] = x], {j})
      BY <3>1, InoSet, Zenon
    <3> QED
      BY <2>3, <3>2, Zenon
  <2> QED
    BY <2>2, <2>4, Zenon DEF Kept
<1>6. ASSUME NEW n PROVE Kept(d, Unlinked(d, j, n), {j})
  BY InoSet, Zenon DEF Unlinked
<1> QED
  BY <1>1, <1>2, <1>3, <1>4, <1>5, <1>6, Zenon

\* A step that reads inode j from the disk, drops its copy, or does neither.
Reads(j) ==
  /\ UNCHANGED <<disk, up>> /\ durable' \in {durable, disk}
  /\ mem' \in {mem, [mem EXCEPT ![j] = NoInode], [mem EXCEPT ![j] = Loaded(j)]}

\* Such a step keeps the copies current.
LEMMA ReadStep ==
  ASSUME CopyInv, NEW j, up, Reads(j)
  PROVE  CopyInv'
<1>1. /\ disk' = disk /\ up' = up /\ durable' \in {durable, disk}
      /\ mem' \in {mem, [mem EXCEPT ![j] = NoInode], [mem EXCEPT ![j] = Loaded(j)]}
  BY Zenon DEF Reads
<1>2. InoOk(disk') /\ InoOk(durable')
  BY <1>1, Zenon DEF CopyInv
<1>3. DOMAIN mem' = Inum
  BY <1>1, Zenon DEF CopyInv
<1>4. Loaded(j) = mem[j] \/ Loaded(j) = disk.ino[j]
  BY Zenon DEF Loaded
<1>5. ASSUME NEW i \in Inum PROVE mem'[i] \in {mem[i], NoInode, disk.ino[i]}
  <2>1. CASE mem' = mem
    BY <2>1, Zenon
  <2>2. CASE mem' = [mem EXCEPT ![j] = NoInode]
    BY <2>2, Zenon DEF CopyInv
  <2>3. CASE mem' = [mem EXCEPT ![j] = Loaded(j)]
    BY <1>4, <2>3, Zenon DEF CopyInv
  <2> QED
    BY <1>1, <2>1, <2>2, <2>3, Zenon
<1>6. CopiesCurrent'
  BY <1>1, <1>5, Zenon DEF CopyInv, CopiesCurrent
<1> QED
  BY <1>1, <1>2, <1>3, <1>6, Zenon DEF CopyInv

\* A step that changes inodes and updates their copies.
Writes(S) ==
  /\ UNCHANGED <<durable, up>> /\ Kept(disk, disk', S)
  /\ mem' = Synced(S)

\* Such a step keeps the copies current, too.
LEMMA WriteStep ==
  ASSUME CopyInv, NEW S, up, Writes(S)
  PROVE  CopyInv'
<1>1. /\ durable' = durable /\ up' = up /\ InoOk(disk')
      /\ \A i \in Inum : i \notin S => disk'.ino[i] = disk.ino[i]
  BY Zenon DEF Writes, Kept
<1>2. DOMAIN mem' = Inum /\ \A i \in Inum : mem'[i] = IF i \in S THEN disk'.ino[i] ELSE mem[i]
  BY Zenon DEF Writes, Synced
<1>3. CopiesCurrent'
  BY <1>1, <1>2, Zenon DEF CopyInv, CopiesCurrent
<1> QED
  BY <1>1, <1>2, <1>3, Zenon DEF CopyInv

\* iput() frees the inode and its copy is not valid any more.
LEMMA FreeCopy ==
  ASSUME CopyInv, NEW p, up, PutFree(p)
  PROVE  CopyInv'
<1>1. PICK i : i = Head(todo[p]).ip
  BY Zenon
<1>2. /\ disk' = Updated(Truncated(disk, i), i, FreeInode)
      /\ mem' = [mem EXCEPT ![i] = NoInode] /\ durable' = durable /\ up' = up
  BY <1>1, Zenon DEF PutFree, rest
<1>3. InoOk(disk) /\ InoOk(durable) /\ DOMAIN mem = Inum /\ CopiesCurrent
  BY Zenon DEF CopyInv
<1>4. PICK t : t = Truncated(disk, i)
  BY Zenon
<1>5. Kept(disk, t, {i})
  BY <1>3, <1>4, KeptFacts, Zenon
<1>6. InoOk(t)
  BY <1>5, Zenon DEF Kept
<1>7. Kept(t, disk', {i})
  BY <1>2, <1>4, <1>6, KeptFacts, Zenon
<1>8. InoOk(disk') /\ \A j \in Inum : j # i => disk'.ino[j] = disk.ino[j]
  BY <1>5, <1>7, Zenon DEF Kept
<1>9. DOMAIN mem' = Inum /\ \A j \in Inum : mem'[j] = IF j = i THEN NoInode ELSE mem[j]
  BY <1>2, <1>3, Zenon
<1>10. CopiesCurrent'
  BY <1>3, <1>8, <1>9, Zenon DEF CopiesCurrent
<1> QED
  BY <1>2, <1>3, <1>8, <1>9, <1>10, Zenon DEF CopyInv

\* create() changes the directory and the new inode, whichever dirlink() fails.
LEMMA CreateWrites ==
  ASSUME CopyInv, NEW p, CreateNew(p)
  PROVE  \E S : Writes(S)
<1> DEFINE o == Head(todo[p])
           type == call[p].type
           n == Lowest(Unallocated(disk))
           d0 == Allocated(n, type)
           dots == type = "dir" => CanLink(d0, n, ".")
           d1 == IF type = "dir" /\ dots
                 THEN Linked(Linked(d0, n, ".", n), n, "..", o.ip) ELSE d0
           done == dots /\ CanLink(d1, o.ip, o.name)
           d2 == Linked(d1, o.ip, o.name, n)
<1>1. /\ disk' = IF ~done THEN NlinkAdd(d1, n, -1)
                 ELSE IF type = "dir" THEN NlinkAdd(d2, o.ip, 1) ELSE d2
      /\ mem' = Synced({o.ip, n}) /\ durable' = durable /\ up' = up
  BY Zenon DEF CreateNew, rest
<1>2. PICK a, b : a = o.ip /\ b = n
  BY Zenon
<1>3. InoOk(disk)
  BY Zenon DEF CopyInv
<1> HIDE DEF o, type, n, dots, done
<1> DEFINE S == {a, b}
<1>4. Kept(disk, d0, S)
  <2>1. \A x : Kept(disk, Updated(disk, b, x), {b})
    BY <1>3, KeptFacts, Zenon
  <2> QED
    BY <1>2, <2>1, Zenon DEF Allocated, Kept
<1> HIDE DEF d0
<1>5. Kept(disk, d1, S)
  <2>1. PICK e : e = Linked(d0, n, ".", n)
    BY Zenon
  <2>2. InoOk(d0)
    BY <1>4, Zenon DEF Kept
  <2>3. Kept(d0, e, {b})
    BY <1>2, <2>1, <2>2, KeptFacts, Zenon
  <2>4. InoOk(e)
    BY <2>3, Zenon DEF Kept
  <2>5. Kept(e, Linked(e, b, "..", o.ip), {b})
    BY <2>4, KeptFacts, Zenon
  <2>6. d1 = d0 \/ d1 = Linked(e, b, "..", o.ip)
    BY <1>2, <2>1, Zenon
  <2> QED
    BY <1>4, <2>3, <2>5, <2>6, Zenon DEF Kept
<1> HIDE DEF d1
<1>6. InoOk(d1)
  BY <1>5, Zenon DEF Kept
<1>7. Kept(d1, d2, {a})
  BY <1>2, <1>6, KeptFacts, Zenon
<1> HIDE DEF d2
<1>8. InoOk(d2)
  BY <1>7, Zenon DEF Kept
<1>9. Kept(d1, NlinkAdd(d1, b, -1), {b}) /\ Kept(d2, NlinkAdd(d2, a, 1), {a})
  BY <1>6, <1>8, KeptFacts, Zenon
<1>10. disk' \in {NlinkAdd(d1, b, -1), NlinkAdd(d2, a, 1), d2}
  BY <1>1, <1>2, Zenon
<1>11. Kept(disk, disk', S)
  BY <1>5, <1>7, <1>9, <1>10, Zenon DEF Kept
<1>12. mem' = Synced(S)
  BY <1>1, <1>2, Zenon
<1>13. Writes(S)
  BY <1>1, <1>11, <1>12, Zenon DEF Writes
<1> QED
  BY <1>13, Zenon

\* open(), link(), unlink() and write() change the inodes they have locked.
LEMMA UnlinkWrites ==
  ASSUME CopyInv, NEW p, UnlinkEntry(p)
  PROVE  \E S : Writes(S)
<1> DEFINE o == Head(todo[p])
           d == Unlinked(disk, o.arg, o.name)
<1>1. /\ disk' \in {disk, NlinkAdd(d, o.arg, -1), d}
      /\ mem' = Synced({o.ip, o.arg}) /\ durable' = durable /\ up' = up
  BY Zenon DEF UnlinkEntry, rest
<1>2. PICK a, b : a = o.arg /\ b = o.ip
  BY Zenon
<1>3. InoOk(disk)
  BY Zenon DEF CopyInv
<1>4. Kept(disk, d, {a})
  BY <1>2, <1>3, KeptFacts, Zenon
<1> HIDE DEF o, d
<1>5. InoOk(d)
  BY <1>4, Zenon DEF Kept
<1>6. Kept(d, NlinkAdd(d, a, -1), {a})
  BY <1>5, KeptFacts, Zenon
<1>7. disk' \in {disk, NlinkAdd(d, a, -1), d}
  BY <1>1, <1>2, Zenon
<1>8. Kept(disk, disk', {b, a})
  BY <1>3, <1>4, <1>6, <1>7, Zenon DEF Kept
<1>9. Writes({b, a})
  BY <1>1, <1>2, <1>8, Zenon DEF Writes
<1> QED
  BY <1>9, Zenon

\* The other steps that write to one inode.
LEMMA OneWrites ==
  ASSUME CopyInv, NEW p, LinkCount(p) \/ LinkEntry(p) \/ LinkUndo(p) \/ UnlinkCount(p) \/ Write(p)
  PROVE  \E S : Writes(S)
<1>1. PICK i : i = Head(todo[p]).ip
  BY Zenon
<1>2. InoOk(disk)
  BY Zenon DEF CopyInv
<1>3. mem' = Synced({i}) /\ durable' = durable /\ up' = up
  BY <1>1, Zenon DEF LinkCount, LinkEntry, LinkUndo, UnlinkCount, Write, rest
<1>4. \/ disk' = disk \/ disk' = Grown(disk, i)
      \/ (\E x : disk' = NlinkAdd(disk, i, x)) \/ (\E n, x : disk' = Linked(disk, i, n, x))
  BY <1>1, Zenon DEF LinkCount, LinkEntry, LinkUndo, UnlinkCount, Write
<1>5. Kept(disk, disk, {i})
  BY <1>2, Zenon DEF Kept
<1>6. Kept(disk, disk', {i})
  <2>1. CASE disk' = disk
    BY <1>5, <2>1, Zenon
  <2>2. CASE disk' = Grown(disk, i)
    BY <1>2, <2>2, KeptFacts, Zenon
  <2>3. CASE \E x : disk' = NlinkAdd(disk, i, x)
    <3>1. PICK x : disk' = NlinkAdd(disk, i, x)
      BY <2>3, Zenon
    <3> QED
      BY <1>2, <3>1, KeptFacts, Zenon
  <2>4. CASE \E n, x : disk' = Linked(disk, i, n, x)
    <3>1. PICK n, x : disk' = Linked(disk, i, n, x)
      BY <2>4, Zenon
    <3> QED
      BY <1>2, <3>1, KeptFacts, Zenon
  <2> QED
    BY <1>4, <2>1, <2>2, <2>3, <2>4, Zenon
<1>7. Writes({i})
  BY <1>3, <1>6, Zenon DEF Writes
<1> QED
  BY <1>7, Zenon

\* The end of open(), with O_TRUNC or without.
LEMMA OpenCopies ==
  ASSUME CopyInv, NEW p, OpenDone(p)
  PROVE  (\E S : Writes(S)) \/ (\E j : Reads(j))
<1>1. PICK i : i = Head(todo[p]).ip
  BY Zenon
<1>2. InoOk(disk)
  BY Zenon DEF CopyInv
<1>3. durable' = durable /\ up' = up
  BY Zenon DEF OpenDone
<1>4. \/ disk' = disk /\ mem' = mem
      \/ disk' \in {disk, Truncated(disk, i)} /\ mem' = Synced({i})
  BY <1>1, Zenon DEF OpenDone
<1>5. CASE disk' = disk /\ mem' = mem
  <2>1. Reads(i)
    BY <1>3, <1>5, Zenon DEF Reads
  <2> QED
    BY <2>1, Zenon
<1>6. CASE disk' \in {disk, Truncated(disk, i)} /\ mem' = Synced({i})
  <2>1. Kept(disk, disk, {i}) /\ Kept(disk, Truncated(disk, i), {i})
    BY <1>2, KeptFacts, Zenon DEF Kept
  <2>2. Kept(disk, disk', {i})
    BY <1>6, <2>1, Zenon
  <2>3. Writes({i})
    BY <1>3, <1>6, <2>2, Zenon DEF Writes
  <2> QED
    BY <2>3, Zenon
<1> QED
  BY <1>4, <1>5, <1>6, Zenon

\* The steps that write nothing.
LEMMA OnlyReads ==
  ASSUME NEW p,
         \/ PutDrop(p) \/ PutLock(p) \/ PutLast(p) \/ IunlockPut(p) \/ WalkStep(p) \/ WalkEnd(p)
         \/ CreateFound(p) \/ CreateExists(p) \/ CreateNoInode(p) \/ OpenLock(p)
         \/ UnlinkFind(p) \/ Chdir(p) \/ EndOp(p) \/ CommitOp(p) \/ Start(p)
  PROVE  \E j : Reads(j)
<1>1. PICK j : j = Head(todo[p]).ip
  BY Zenon
<1>2. CASE PutDrop(p) \/ PutLock(p) \/ PutLast(p) \/ IunlockPut(p)
  BY <1>1, <1>2, Zenon DEF PutDrop, PutLock, PutLast, IunlockPut, rest, Reads
<1>3. CASE WalkStep(p) \/ WalkEnd(p) \/ CreateFound(p)
  BY <1>1, <1>3, Zenon DEF WalkStep, WalkEnd, CreateFound, rest, Reads
<1>4. CASE CreateExists(p) \/ CreateNoInode(p) \/ OpenLock(p)
  BY <1>1, <1>4, Zenon DEF CreateExists, CreateNoInode, OpenLock, rest, Reads
<1>5. CASE UnlinkFind(p) \/ Chdir(p) \/ EndOp(p) \/ CommitOp(p)
  BY <1>1, <1>5, Zenon DEF UnlinkFind, Chdir, EndOp, CommitOp, rest, Reads
<1>6. CASE Start(p)
  BY <1>1, <1>6, Zenon DEF Start, StartPath, Close, StartWrite, Reads
<1> QED
  BY <1>2, <1>3, <1>4, <1>5, <1>6, Zenon

\* The system is up in every step of a process.
LEMMA StepsAreUp ==
  ASSUME CopyInv, NEW p \in Proc, Step(p) \/ Start(p)
  PROVE  up
<1>1. CASE Start(p)
  BY <1>1, Zenon DEF Start, StartPath, Close, StartWrite, CanBegin
<1>2. CASE Step(p)
  <2>1. \E o : At(p, o)
    BY <1>2, Zenon DEF Step, PutDrop, PutLock, PutFree, PutLast, IunlockPut, WalkStep, WalkEnd,
       CreateFound, CreateExists, CreateNoInode, CreateNew, OpenDone, OpenLock, LinkCount,
       LinkEntry, LinkUndo, UnlinkFind, UnlinkEntry, UnlinkCount, Chdir, Write, EndOp, CommitOp
  <2> QED
    BY <2>1, Zenon DEF At, CopyInv
<1> QED
  BY <1>1, <1>2, Zenon

\* A crash, recovery, and the first process.
LEMMA BootCopies ==
  ASSUME CopyInv, Crash \/ Reclaim \/ Boot
  PROVE  CopyInv'
<1>1. CASE Crash
  <2>1. /\ disk' = durable /\ durable' = durable /\ mem' = [i \in Inum |-> NoInode]
    BY <1>1, Zenon DEF Crash
  <2>2. /\ DOMAIN mem' = Inum /\ (\A i \in Inum : mem'[i] = NoInode)
        /\ \A p \in Proc : todo'[p] = <<>>
    BY <1>1, <2>1, Zenon DEF Crash
  <2> QED
    BY <2>1, <2>2, Zenon DEF CopyInv, CopiesCurrent
<1>2. CASE Reclaim
  <2>1. PICK i : i = Lowest(Orphans(disk))
    BY Zenon
  <2>2. /\ disk' = Updated(Truncated(disk, i), i, FreeInode) /\ durable' = disk'
        /\ mem' = mem /\ todo' = todo /\ ~up
    BY <1>2, <2>1, Zenon DEF Reclaim
  <2>3. InoOk(disk)
    BY Zenon DEF CopyInv
  <2>4. PICK t : t = Truncated(disk, i)
    BY Zenon
  <2>5. InoOk(t)
    BY <2>3, <2>4, KeptFacts, Zenon DEF Kept
  <2>6. InoOk(Updated(t, i, FreeInode))
    BY <2>5, KeptFacts, Zenon DEF Kept
  <2>7. InoOk(disk') /\ InoOk(durable')
    BY <2>2, <2>4, <2>6, Zenon
  <2> QED
    BY <2>2, <2>7, Zenon DEF CopyInv, CopiesCurrent
<1>3. CASE Boot
  BY <1>3, Zenon DEF Boot, CopyInv, CopiesCurrent
<1> QED
  BY <1>1, <1>2, <1>3, Zenon

\* A valid in-memory inode is what the disk holds, after every step of a call, so that
\* iput() may decide by the nlink in memory and ialloc() by the type on disk.
THEOREM CopiesAreCurrent == Spec => []CopiesCurrent
<1>1. Init => CopyInv
  <2> SUFFICES ASSUME Init PROVE CopyInv
    OBVIOUS
  <2>1. InoOk(disk) /\ durable = disk
    <3>1. disk \in FileSystem /\ durable = disk
      BY ImagesAssumption, Zenon DEF Init
    <3> QED
      BY <3>1, Zenon DEF FileSystem, InoOk
  <2>2. DOMAIN mem = Inum /\ (\A i \in Inum : mem[i] = NoInode) /\ up
    BY Zenon DEF Init
  <2> QED
    BY <2>1, <2>2, Zenon DEF CopyInv, CopiesCurrent
<1>2. CopyInv /\ [Next]_vars => CopyInv'
  <2> SUFFICES ASSUME CopyInv, [Next]_vars PROVE CopyInv'
    OBVIOUS
  <2>1. ASSUME NEW p \in Proc, Step(p) \/ Start(p) PROVE CopyInv'
    <3>1. up
      BY <2>1, StepsAreUp, Zenon
    <3>2. (\E j : Reads(j)) \/ (\E S : Writes(S)) \/ PutFree(p)
      BY <2>1, OnlyReads, CreateWrites, UnlinkWrites, OneWrites, OpenCopies, Zenon DEF Step
    <3> QED
      BY <3>1, <3>2, ReadStep, WriteStep, FreeCopy, Zenon
  <2>2. CASE Crash \/ Reclaim \/ Boot
    BY <2>2, BootCopies, Zenon
  <2>3. CASE Idle \/ UNCHANGED vars
    <3>1. UNCHANGED <<disk, durable, mem, todo, up>>
      BY <2>3, Zenon DEF Idle, vars
    <3> QED
      BY <3>1, Zenon DEF CopyInv, CopiesCurrent, InoOk
  <2> QED
    BY <2>1, <2>2, <2>3, Zenon DEF Next
<1>3. CopyInv => CopiesCurrent
  BY Zenon DEF CopyInv
<1> QED
  BY <1>1, <1>2, <1>3, PTL DEF Spec

-----------------------------------------------------------------------------
(* Counting.                                                                 *)

\* Two sets that differ in one element at most.
LEMMA PointCard ==
  ASSUME NEW A, NEW B, NEW x, IsFiniteSet(A), A \ {x} = B \ {x}
  PROVE  /\ IsFiniteSet(B)
         /\ Cardinality(A) + (IF x \in B THEN 1 ELSE 0)
              = Cardinality(B) + (IF x \in A THEN 1 ELSE 0)
<1> DEFINE C == A \ {x}
<1>1. IsFiniteSet(C) /\ C \subseteq A
  BY FS_Subset, Zenon
<1>2. x \notin C
  OBVIOUS
<1>3. IsFiniteSet(C \cup {x}) /\ Cardinality(C \cup {x}) = Cardinality(C) + 1
  BY <1>1, <1>2, FS_AddElement, Zenon
<1>4. A = IF x \in A THEN C \cup {x} ELSE C
  OBVIOUS
<1>5. B = IF x \in B THEN C \cup {x} ELSE C
  OBVIOUS
<1>6. Cardinality(C) \in Nat
  BY <1>1, FS_CardinalityType, Zenon
<1> HIDE DEF C
<1>7. IsFiniteSet(B)
  BY <1>1, <1>3, <1>5, Zenon
<1>8. CASE x \in A /\ x \in B
  BY <1>4, <1>5, <1>7, <1>8, Zenon
<1>9. CASE x \in A /\ x \notin B
  <2>1. Cardinality(A) = Cardinality(C) + 1 /\ Cardinality(B) = Cardinality(C)
    BY <1>3, <1>4, <1>5, <1>9, Zenon
  <2> QED
    BY <1>6, <1>7, <1>9, <2>1, SMT
<1>10. CASE x \notin A /\ x \in B
  <2>1. Cardinality(B) = Cardinality(C) + 1 /\ Cardinality(A) = Cardinality(C)
    BY <1>3, <1>4, <1>5, <1>10, Zenon
  <2> QED
    BY <1>6, <1>7, <1>10, <2>1, SMT
<1>11. CASE x \notin A /\ x \notin B
  BY <1>4, <1>5, <1>7, <1>11, Zenon
<1> QED
  BY <1>8, <1>9, <1>10, <1>11, Zenon

\* The members of a pair.
LEMMA PairFacts ==
  ASSUME NEW P, NEW Q, NEW x \in P \X Q
  PROVE  x[1] \in P /\ x[2] \in Q /\ x = <<x[1], x[2]>>
  BY SMT

\* A list has at most five places.
LEMMA FinitePlaces ==
  IsFiniteSet(1 .. 5)
<1>1. 1 \in Int /\ 5 \in Int
  BY SMT
<1>2. PICK a \in Int, b \in Int : a = 1 /\ b = 5
  BY <1>1, Zenon
<1>3. IsFiniteSet(a .. b)
  BY FS_Interval, Zenon
<1> QED
  BY <1>2, <1>3, Zenon

\* The places in a list that has lost its first element.
\* Whether k is one of A, as a number.
In(k, A) == IF k \in A THEN 1 ELSE 0

\* A set loses an element.
LEMMA DropCard ==
  ASSUME NEW A, IsFiniteSet(A), NEW x, NEW B, B = A \ {x}
  PROVE  IsFiniteSet(B) /\ Cardinality(B) \in Nat /\ Cardinality(A) = Cardinality(B) + In(x, A)
<1>1. A \ {x} = B \ {x} /\ x \notin B
  BY Zenon
<1>2. IsFiniteSet(B) /\ Cardinality(A) + (IF x \in B THEN 1 ELSE 0) = Cardinality(B) + (IF x \in A THEN 1 ELSE 0)
  BY <1>1, PointCard, Zenon
<1>3. Cardinality(A) + 0 = Cardinality(B) + In(x, A)
  BY <1>1, <1>2, Zenon DEF In
<1>4. Cardinality(A) \in Nat /\ Cardinality(B) \in Nat
  BY <1>2, FS_CardinalityType, Zenon
<1>5. Cardinality(A) + 0 = Cardinality(A)
  BY <1>4, SMT
<1> QED
  BY <1>2, <1>3, <1>4, <1>5, Zenon

\* The number of places is the sum over the five there are.
LEMMA FiveCard ==
  ASSUME NEW A \in SUBSET (1 .. 5)
  PROVE  Cardinality(A) = In(1, A) + (In(2, A) + (In(3, A) + (In(4, A) + In(5, A))))
<1>1. PICK a4, a3, a2, a1, a0 : /\ a4 = A \ {5} /\ a3 = a4 \ {4} /\ a2 = a3 \ {3}
                                /\ a1 = a2 \ {2} /\ a0 = a1 \ {1}
  BY Zenon
<1>2. IsFiniteSet(A)
  BY FinitePlaces, FS_Subset, Zenon
<1>3. IsFiniteSet(a4) /\ Cardinality(a4) \in Nat /\ Cardinality(A) = Cardinality(a4) + In(5, A)
  BY <1>1, <1>2, DropCard, Zenon
<1>4. IsFiniteSet(a3) /\ Cardinality(a3) \in Nat /\ Cardinality(a4) = Cardinality(a3) + In(4, a4)
  BY <1>1, <1>3, DropCard, Zenon
<1>5. IsFiniteSet(a2) /\ Cardinality(a2) \in Nat /\ Cardinality(a3) = Cardinality(a2) + In(3, a3)
  BY <1>1, <1>4, DropCard, Zenon
<1>6. IsFiniteSet(a1) /\ Cardinality(a1) \in Nat /\ Cardinality(a2) = Cardinality(a1) + In(2, a2)
  BY <1>1, <1>5, DropCard, Zenon
<1>7. IsFiniteSet(a0) /\ Cardinality(a0) \in Nat /\ Cardinality(a1) = Cardinality(a0) + In(1, a1)
  BY <1>1, <1>6, DropCard, Zenon
<1>8. \A k \in 1 .. 5 : k = 1 \/ k = 2 \/ k = 3 \/ k = 4 \/ k = 5
  BY SMT
<1>9. a0 = {}
  BY <1>1, <1>8, Zenon
<1>10. Cardinality(a0) = 0
  BY <1>9, FS_EmptySet, Zenon
<1>11. 4 # 5 /\ 3 # 5 /\ 3 # 4 /\ 2 # 5 /\ 2 # 4 /\ 2 # 3 /\ 1 # 5 /\ 1 # 4 /\ 1 # 3 /\ 1 # 2
  BY SMT
<1>12. In(4, a4) = In(4, A) /\ In(3, a3) = In(3, A) /\ In(2, a2) = In(2, A) /\ In(1, a1) = In(1, A)
  BY <1>1, <1>11, Zenon DEF In
<1>13. PICK n1, n2, n3, n4, n5 : /\ n1 = In(1, A) /\ n2 = In(2, A) /\ n3 = In(3, A)
                                 /\ n4 = In(4, A) /\ n5 = In(5, A)
  BY Zenon
<1>14. n1 \in {0, 1} /\ n2 \in {0, 1} /\ n3 \in {0, 1} /\ n4 \in {0, 1} /\ n5 \in {0, 1}
  BY <1>13, Zenon DEF In
<1>15. Cardinality(A) = ((((0 + n1) + n2) + n3) + n4) + n5
  BY <1>3, <1>4, <1>5, <1>6, <1>7, <1>10, <1>12, <1>13, Zenon
<1>16. ((((0 + n1) + n2) + n3) + n4) + n5 = n1 + (n2 + (n3 + (n4 + n5)))
  BY <1>14, SMT
<1> QED
  BY <1>13, <1>15, <1>16, Zenon

Others(S, p) == {x \in S : x[1] # p}
Mine(S, p) == {x \in S : x[1] = p}

\* The pairs <<q, k>> of a set with q = p are counted by their k.
LEMMA HalfCard ==
  ASSUME NEW P, IsFiniteSet(P), NEW p \in P, NEW S \in SUBSET (P \X (1 .. 5)),
         NEW A \in SUBSET (1 .. 5), \A k \in 1 .. 5 : <<p, k>> \in S <=> k \in A
  PROVE  /\ Cardinality(A) \in Nat
         /\ Cardinality(Others(S, p)) \in Nat
         /\ Cardinality(S) = Cardinality(Others(S, p)) + Cardinality(A)
<1> DEFINE O == Others(S, p)
           M == Mine(S, p)
           f == [k \in A |-> <<p, k>>]
<1>1. IsFiniteSet(1 .. 5)
  BY FinitePlaces, Zenon
<1>2. IsFiniteSet(P \X (1 .. 5))
  BY <1>1, FS_Product, Zenon
<1>3. IsFiniteSet(S) /\ IsFiniteSet(A)
  BY <1>1, <1>2, FS_Subset, Zenon
<1>4. IsFiniteSet(O) /\ IsFiniteSet(M)
  <2>1. O \in SUBSET S /\ M \in SUBSET S
    BY Zenon DEF Others, Mine
  <2> QED
    BY <1>3, <2>1, FS_Subset, Zenon
<1>5. \A x \in M : x[2] \in A /\ x = <<p, x[2]>>
  <2> TAKE x \in M
  <2>0. x \in P \X (1 .. 5) /\ x \in S /\ x[1] = p
    BY Zenon DEF Mine
  <2>1. x[1] = p /\ x[2] \in 1 .. 5 /\ x = <<x[1], x[2]>> /\ x \in S
    <3> HIDE DEF M
    <3> QED
      BY <2>0, PairFacts, SMT
  <2> QED
    BY <2>1, Zenon
<1>6. \A k \in A : <<p, k>> \in M
  <2> TAKE k \in A
  <2>1. <<p, k>> \in S
    BY Zenon
  <2>2. <<p, k>>[1] = p
    BY Zenon
  <2> QED
    BY <2>1, <2>2, Zenon DEF Mine
<1>7. f \in Bijection(A, M)
  <2>1. f \in [A -> M]
    BY <1>6, Zenon
  <2>2. \A x \in M : \E k \in A : f[k] = x
    BY <1>5, Zenon
  <2>3. \A j, k \in A : f[j] = f[k] => j = k
    BY SMT
  <2>4. f \in Surjection(A, M)
    BY <2>1, <2>2, Zenon DEF Surjection
  <2>5. f \in Injection(A, M)
    BY <2>1, <2>3, Zenon DEF Injection, IsInjective
  <2> QED
    BY <2>4, <2>5, Zenon DEF Bijection
<1>8. Cardinality(M) = Cardinality(A)
  BY <1>3, <1>7, FS_Bijection, Zenon DEF ExistsBijection
<1>9. S = O \cup M /\ O \cap M = {}
  BY Zenon DEF Others, Mine
<1> HIDE DEF O, M
<1>10. Cardinality(S) = Cardinality(O) + Cardinality(M) - Cardinality({})
  BY <1>4, <1>9, FS_Union, Zenon
<1>11. Cardinality({}) = 0
  BY FS_EmptySet, Zenon
<1>12. Cardinality(O) \in Nat /\ Cardinality(A) \in Nat
  BY <1>3, <1>4, FS_CardinalityType, Zenon
<1>13. Cardinality(S) = Cardinality(O) + Cardinality(A)
  BY <1>8, <1>10, <1>11, <1>12, SMT
<1> QED
  BY <1>12, <1>13, Zenon DEF O

\* The places in a list that refer to i, in one list and in all.
IpPlaces(s, i) == {k \in 1 .. 5 : k <= Len(s) /\ ByIp(s[k], i)}
ArgPlaces(s, i) == {k \in 1 .. 5 : k <= Len(s) /\ ByArg(s[k], i)}
IpHeld(td, i) == {x \in Proc \X (1 .. 5) : x[2] <= Len(td[x[1]]) /\ ByIp(td[x[1]][x[2]], i)}
ArgHeld(td, i) == {x \in Proc \X (1 .. 5) : x[2] <= Len(td[x[1]]) /\ ByArg(td[x[1]][x[2]], i)}
CwdSet(c, i) == {p \in Proc : c[p] = i}
FileSet(of, i) == {x \in Proc \X (1 .. NOFILE) : of[x[1]][x[2]].ip = i}

\* What all lists and the tables refer to.
Held(td, i) == Cardinality(IpHeld(td, i)) + Cardinality(ArgHeld(td, i))
Resting(c, of, i) == Cardinality(CwdSet(c, i)) + Cardinality(FileSet(of, i))

\* What a list counts for is the number of places in it, by ip and by arg.
LEMMA ClaimsCount ==
  ASSUME NEW s, NEW i
  PROVE  Claims(s, i) = Cardinality(IpPlaces(s, i)) + Cardinality(ArgPlaces(s, i))
<1>1. PICK A, B : A = IpPlaces(s, i) /\ B = ArgPlaces(s, i)
  BY Zenon
<1>2. A \in SUBSET (1 .. 5) /\ B \in SUBSET (1 .. 5)
  BY <1>1, Zenon DEF IpPlaces, ArgPlaces
<1>3. /\ Cardinality(A) = In(1, A) + (In(2, A) + (In(3, A) + (In(4, A) + In(5, A))))
      /\ Cardinality(B) = In(1, B) + (In(2, B) + (In(3, B) + (In(4, B) + In(5, B))))
  BY <1>2, FiveCard, Zenon
<1>4. ASSUME NEW k \in 1 .. 5
      PROVE  /\ ClaimAt(s, k, i) = In(k, A) + In(k, B)
             /\ In(k, A) \in {0, 1} /\ In(k, B) \in {0, 1}
  <2>1. CASE k <= Len(s)
    <3>1. (k \in A <=> ByIp(s[k], i)) /\ (k \in B <=> ByArg(s[k], i))
      BY <1>1, <2>1, Zenon DEF IpPlaces, ArgPlaces
    <3> QED
      BY <2>1, <3>1, Zenon DEF In, ClaimAt, Claim
  <2>2. CASE ~(k <= Len(s))
    <3>1. k \notin A /\ k \notin B
      BY <1>1, <2>2, Zenon DEF IpPlaces, ArgPlaces
    <3>2. ClaimAt(s, k, i) = 0 /\ In(k, A) = 0 /\ In(k, B) = 0
      BY <2>2, <3>1, Zenon DEF In, ClaimAt
    <3>3. 0 = 0 + 0
      BY SMT
    <3> QED
      BY <3>2, <3>3, Zenon
  <2> QED
    BY <2>1, <2>2, Zenon
<1>5. \A k \in {1, 2, 3, 4, 5} : k \in 1 .. 5
  BY SMT
<1>6. \A k \in {1, 2, 3, 4, 5} : ClaimAt(s, k, i) = In(k, A) + In(k, B)
                                  /\ In(k, A) \in {0, 1} /\ In(k, B) \in {0, 1}
  BY <1>4, <1>5, Zenon
<1>7. PICK a1, a2, a3, a4, a5 : /\ a1 = In(1, A) /\ a2 = In(2, A) /\ a3 = In(3, A)
                                /\ a4 = In(4, A) /\ a5 = In(5, A)
  BY Zenon
<1>8. PICK b1, b2, b3, b4, b5 : /\ b1 = In(1, B) /\ b2 = In(2, B) /\ b3 = In(3, B)
                                /\ b4 = In(4, B) /\ b5 = In(5, B)
  BY Zenon
<1>9. /\ a1 \in {0, 1} /\ a2 \in {0, 1} /\ a3 \in {0, 1} /\ a4 \in {0, 1} /\ a5 \in {0, 1}
      /\ b1 \in {0, 1} /\ b2 \in {0, 1} /\ b3 \in {0, 1} /\ b4 \in {0, 1} /\ b5 \in {0, 1}
  BY <1>6, <1>7, <1>8, Zenon
<1>10. Claims(s, i) = (a1 + b1) + ((a2 + b2) + ((a3 + b3) + ((a4 + b4) + (a5 + b5))))
  BY <1>6, <1>7, <1>8, Zenon DEF Claims
<1>11. (a1 + b1) + ((a2 + b2) + ((a3 + b3) + ((a4 + b4) + (a5 + b5))))
         = (a1 + (a2 + (a3 + (a4 + a5)))) + (b1 + (b2 + (b3 + (b4 + b5))))
  BY <1>9, SMT
<1>12. /\ Cardinality(A) = a1 + (a2 + (a3 + (a4 + a5)))
       /\ Cardinality(B) = b1 + (b2 + (b3 + (b4 + b5)))
  BY <1>3, <1>7, <1>8, Zenon
<1> QED
  BY <1>1, <1>10, <1>11, <1>12, Zenon

\* The places in the list of p, by ip and by arg, among those in all lists.
LEMMA IpHalf ==
  ASSUME NEW td, NEW p \in Proc, NEW i
  PROVE  /\ Cardinality(IpPlaces(td[p], i)) \in Nat
         /\ Cardinality(Others(IpHeld(td, i), p)) \in Nat
         /\ Cardinality(IpHeld(td, i))
              = Cardinality(Others(IpHeld(td, i), p)) + Cardinality(IpPlaces(td[p], i))
<1>1. IpHeld(td, i) \in SUBSET (Proc \X (1 .. 5)) /\ IpPlaces(td[p], i) \in SUBSET (1 .. 5)
  BY Zenon DEF IpHeld, IpPlaces
<1>2. \A k \in 1 .. 5 : <<p, k>> \in IpHeld(td, i) <=> k \in IpPlaces(td[p], i)
  BY Zenon DEF IpHeld, IpPlaces
<1>3. IsFiniteSet(Proc)
  BY ProcAssumption, Zenon
<1> QED
  BY <1>1, <1>2, <1>3, HalfCard

\* The same by arg.
LEMMA ArgHalf ==
  ASSUME NEW td, NEW p \in Proc, NEW i
  PROVE  /\ Cardinality(ArgPlaces(td[p], i)) \in Nat
         /\ Cardinality(Others(ArgHeld(td, i), p)) \in Nat
         /\ Cardinality(ArgHeld(td, i))
              = Cardinality(Others(ArgHeld(td, i), p)) + Cardinality(ArgPlaces(td[p], i))
<1>1. ArgHeld(td, i) \in SUBSET (Proc \X (1 .. 5)) /\ ArgPlaces(td[p], i) \in SUBSET (1 .. 5)
  BY Zenon DEF ArgHeld, ArgPlaces
<1>2. \A k \in 1 .. 5 : <<p, k>> \in ArgHeld(td, i) <=> k \in ArgPlaces(td[p], i)
  BY Zenon DEF ArgHeld, ArgPlaces
<1>3. IsFiniteSet(Proc)
  BY ProcAssumption, Zenon
<1> QED
  BY <1>1, <1>2, <1>3, HalfCard

\* That is a number.
LEMMA ClaimsNumber ==
  ASSUME NEW s, NEW i
  PROVE  Claims(s, i) \in Nat
<1>1. IpPlaces(s, i) \in SUBSET (1 .. 5) /\ ArgPlaces(s, i) \in SUBSET (1 .. 5)
  BY Zenon DEF IpPlaces, ArgPlaces
<1>2. Cardinality(IpPlaces(s, i)) \in Nat /\ Cardinality(ArgPlaces(s, i)) \in Nat
  BY <1>1, FinitePlaces, FS_Subset, FS_CardinalityType, Zenon
<1>3. PICK a, b : a = Cardinality(IpPlaces(s, i)) /\ b = Cardinality(ArgPlaces(s, i))
  BY Zenon
<1>4. a + b \in Nat
  BY <1>2, <1>3, SMT
<1> QED
  BY <1>3, <1>4, ClaimsCount, Zenon

\* The two tables differ at p only.
SameElse(td, td2, p) == \A q \in Proc : q # p => td2[q] = td[q]
Moves(td, td2, p, i) ==
  /\ Held(td, i) \in Nat /\ Held(td2, i) \in Nat
  /\ Claims(td[p], i) \in Nat /\ Claims(td2[p], i) \in Nat
  /\ Held(td2, i) + Claims(td[p], i) = Held(td, i) + Claims(td2[p], i)

\* The list of one process changes.
LEMMA HeldStep ==
  ASSUME NEW td, NEW td2, NEW p \in Proc, SameElse(td, td2, p), NEW i
  PROVE  Moves(td, td2, p, i)
<1>1. \A q \in Proc : q # p => td2[q] = td[q]
  BY Zenon DEF SameElse
<1>4. Others(IpHeld(td, i), p) = Others(IpHeld(td2, i), p)
  BY <1>1, PairFacts, Zenon DEF IpHeld, Others
<1>5. Others(ArgHeld(td, i), p) = Others(ArgHeld(td2, i), p)
  BY <1>1, PairFacts, Zenon DEF ArgHeld, Others
<1> DEFINE a == Cardinality(IpHeld(td, i))
           b == Cardinality(IpHeld(td2, i))
           c == Cardinality(ArgHeld(td, i))
           d == Cardinality(ArgHeld(td2, i))
           m == Cardinality(Others(IpHeld(td, i), p))
           n == Cardinality(Others(ArgHeld(td, i), p))
           a1 == Cardinality(IpPlaces(td[p], i))
           b1 == Cardinality(IpPlaces(td2[p], i))
           c1 == Cardinality(ArgPlaces(td[p], i))
           d1 == Cardinality(ArgPlaces(td2[p], i))
<1>6. a1 \in Nat /\ m \in Nat /\ a = m + a1
  BY IpHalf, Zenon
<1>7. b1 \in Nat /\ b = m + b1
  BY <1>1, <1>4, IpHalf, Zenon
<1>8. c1 \in Nat /\ n \in Nat /\ c = n + c1
  BY ArgHalf, Zenon
<1>9. d1 \in Nat /\ d = n + d1
  BY <1>1, <1>5, ArgHalf, Zenon
<1>10. /\ Held(td, i) = a + c /\ Held(td2, i) = b + d
       /\ Claims(td[p], i) = a1 + c1 /\ Claims(td2[p], i) = b1 + d1
  BY ClaimsCount, Zenon DEF Held
<1> HIDE DEF a, b, c, d, m, n, a1, b1, c1, d1
<1>11. /\ Held(td, i) \in Nat /\ Held(td2, i) \in Nat
       /\ Claims(td[p], i) \in Nat /\ Claims(td2[p], i) \in Nat
       /\ Held(td2, i) + Claims(td[p], i) = Held(td, i) + Claims(td2[p], i)
  BY <1>6, <1>7, <1>8, <1>9, <1>10, SMT
<1> QED
  BY <1>11, Zenon DEF Moves

\* The counts of current directories and open files are numbers.
LEMMA RestingNat ==
  ASSUME NEW c, NEW of, NEW i
  PROVE  /\ IsFiniteSet(CwdSet(c, i)) /\ IsFiniteSet(FileSet(of, i))
         /\ Cardinality(CwdSet(c, i)) \in Nat /\ Cardinality(FileSet(of, i)) \in Nat
<1>1. IsFiniteSet(1 .. NOFILE)
  BY FS_Interval, SizeAssumption
<1>2. IsFiniteSet(Proc \X (1 .. NOFILE))
  BY <1>1, ProcAssumption, FS_Product, Zenon
<1>3. CwdSet(c, i) \subseteq Proc /\ FileSet(of, i) \subseteq Proc \X (1 .. NOFILE)
  BY Zenon DEF CwdSet, FileSet
<1>4. IsFiniteSet(CwdSet(c, i)) /\ IsFiniteSet(FileSet(of, i))
  BY <1>2, <1>3, ProcAssumption, FS_Subset, Zenon
<1> QED
  BY <1>4, FS_CardinalityType, Zenon

\* So are those of the references in lists.
LEMMA HeldNat ==
  ASSUME NEW td, NEW i
  PROVE  Cardinality(IpHeld(td, i)) \in Nat /\ Cardinality(ArgHeld(td, i)) \in Nat
<1>1. IsFiniteSet(1 .. 5)
  BY FinitePlaces, Zenon
<1>2. IsFiniteSet(Proc \X (1 .. 5))
  BY <1>1, ProcAssumption, FS_Product, Zenon
<1>3. IpHeld(td, i) \subseteq Proc \X (1 .. 5) /\ ArgHeld(td, i) \subseteq Proc \X (1 .. 5)
  BY Zenon DEF IpHeld, ArgHeld
<1> QED
  BY <1>2, <1>3, FS_Subset, FS_CardinalityType, Zenon

\* RefExact in these terms.
RefSum == up => \A i \in Inum : ref[i] = Resting(cwd, ofile, i) + Held(todo, i)

\* RefExact in those terms.
LEMMA RefForm ==
  RefExact <=> RefSum
<1> DEFINE held == {x \in Proc \X (1 .. 5) : x[2] <= Len(todo[x[1]])}
           ips(i) == {x \in held : todo[x[1]][x[2]].ip = i
                                     /\ todo[x[1]][x[2]].op \notin {"free", "write"}}
           args(i) == {x \in held : todo[x[1]][x[2]].arg = i}
<1>1. \A i \in Inum : ips(i) = IpHeld(todo, i)
  BY Zenon DEF IpHeld, ByIp
<1>2. \A i \in Inum : args(i) = ArgHeld(todo, i)
  BY Zenon DEF ArgHeld, ByArg
<1>3. RefExact <=> (up => \A i \in Inum : ref[i] = Cardinality(CwdSet(cwd, i))
               + Cardinality(FileSet(ofile, i)) + Cardinality(ips(i)) + Cardinality(args(i)))
  BY Zenon DEF RefExact, CwdSet, FileSet
<1>4. \A i \in Inum : Cardinality(CwdSet(cwd, i)) + Cardinality(FileSet(ofile, i))
                        + Cardinality(IpHeld(todo, i)) + Cardinality(ArgHeld(todo, i))
                      = Resting(cwd, ofile, i) + Held(todo, i)
  <2> TAKE i \in Inum
  <2>1. /\ Cardinality(CwdSet(cwd, i)) \in Nat /\ Cardinality(FileSet(ofile, i)) \in Nat
        /\ Cardinality(IpHeld(todo, i)) \in Nat /\ Cardinality(ArgHeld(todo, i)) \in Nat
    BY RestingNat, HeldNat, Zenon
  <2> QED
    BY <2>1, SMT DEF Resting, Held
<1> QED
  BY <1>1, <1>2, <1>3, <1>4, Zenon DEF RefSum

\* A step keeps the count if ref changes as the references do.
RefHyp(p, t) ==
  /\ up' = up /\ todo' = [todo EXCEPT ![p] = t] /\ ref' \in [Inum -> Int]
  /\ \A i \in Inum : ref'[i] + (Resting(cwd, ofile, i) + Claims(todo[p], i))
                         = ref[i] + (Resting(cwd', ofile', i) + Claims(t, i))

\* A step that changes the list of one process keeps the counts exact, as long as ref
\* changes by what the process and the tables come to hold.
LEMMA RefStep ==
  ASSUME FsTypes, RefExact, NEW p \in Proc, NEW t, RefHyp(p, t)
  PROVE  RefExact'
<1> USE DEF RefHyp
<1>1. RefExact' <=> RefSum'
  BY RefForm, PTL
<1>2. SUFFICES ASSUME up', NEW i \in Inum
               PROVE  ref'[i] = Resting(cwd', ofile', i) + Held(todo', i)
  BY <1>1, Zenon DEF RefSum
<1>3. ref[i] = Resting(cwd, ofile, i) + Held(todo, i)
  BY <1>2, RefForm, Zenon DEF RefSum
<1>4. /\ Held(todo, i) \in Nat /\ Held(todo', i) \in Nat
      /\ Claims(todo[p], i) \in Nat /\ Claims(t, i) \in Nat
      /\ Held(todo', i) + Claims(todo[p], i) = Held(todo, i) + Claims(t, i)
  <2>1. DOMAIN todo = Proc
    BY Zenon DEF FsTypes
  <2>2. PICK td, td2 : td = todo /\ td2 = todo'
    BY Zenon
  <2>3. td2[p] = t /\ SameElse(td, td2, p)
    BY <2>1, <2>2, Zenon DEF SameElse
  <2>4. /\ Held(td, i) \in Nat /\ Held(td2, i) \in Nat
        /\ Claims(td[p], i) \in Nat /\ Claims(td2[p], i) \in Nat
        /\ Held(td2, i) + Claims(td[p], i) = Held(td, i) + Claims(td2[p], i)
    <3>1. Moves(td, td2, p, i)
      BY <2>3, HeldStep, Zenon
    <3> QED
      BY <3>1, Zenon DEF Moves
  <2> QED
    BY <2>2, <2>3, <2>4, Zenon
<1>5. Resting(cwd, ofile, i) \in Nat /\ Resting(cwd', ofile', i) \in Nat
  BY RestingNat DEF Resting
<1>6. ref[i] \in Int /\ ref'[i] \in Int
  BY Zenon DEF FsTypes
<1>7. ref'[i] + (Resting(cwd, ofile, i) + Claims(todo[p], i))
        = ref[i] + (Resting(cwd', ofile', i) + Claims(t, i))
  BY Zenon
<1> QED
  BY <1>3, <1>4, <1>5, <1>6, <1>7, SMT

-----------------------------------------------------------------------------
(* The tables.                                                               *)

\* A descriptor changes: what the tables refer to.
FileMoved(of, p, f, k, i) ==
  Resting(cwd, of, i) + Same(ofile[p][f].ip, i) = Resting(cwd, ofile, i) + Same(k, i)

\* The references that the tables hold, after one entry of ofile changes.
LEMMA FileStep ==
  ASSUME FsTypes, NEW p \in Proc, NEW f \in 1 .. NOFILE, NEW k \in Inum \cup {0}, NEW w \in BOOLEAN,
         NEW of, FilePut(of, p, f, k, w), NEW i \in Inum
  PROVE  FileMoved(of, p, f, k, i)
<1> USE DEF FilePut, FileMoved
<1>1. /\ ofile \in [Proc -> [1 .. NOFILE -> [ip : Inum \cup {0}, writable : BOOLEAN]]]
      /\ \A q \in Proc, g \in 1 .. NOFILE : ofile[q][g].writable => ofile[q][g].ip # 0
  BY Zenon DEF FsTypes, FilesOk
<1>2. File(k, w).ip = k /\ File(k, w).writable = w
  BY Zenon DEF File
<1>3. \A q \in Proc, g \in 1 .. NOFILE :
        of[q][g] = IF q = p /\ g = f THEN File(k, w) ELSE ofile[q][g]
  BY <1>1, Zenon
<1> DEFINE A == FileSet(ofile, i)
           B == FileSet(of, i)
           x == <<p, f>>
<1>4. x \in Proc \X (1 .. NOFILE) /\ x[1] = p /\ x[2] = f
  BY Zenon
<1>5. (x \in A <=> ofile[p][f].ip = i) /\ (x \in B <=> k = i)
  BY <1>2, <1>3, <1>4, Zenon DEF FileSet
<1>6. ASSUME NEW y \in Proc \X (1 .. NOFILE), y # x PROVE of[y[1]][y[2]] = ofile[y[1]][y[2]]
  <2>1. y[1] \in Proc /\ y[2] \in 1 .. NOFILE /\ y = <<y[1], y[2]>>
    BY PairFacts
  <2>2. ~(y[1] = p /\ y[2] = f)
    <3>1. PICK q, g : q = y[1] /\ g = y[2]
      BY Zenon
    <3>2. y = <<q, g>>
      BY <2>1, <3>1, Zenon
    <3> QED
      BY <1>6, <3>1, <3>2, Zenon
  <2> QED
    BY <1>3, <2>1, <2>2, Zenon
<1>7. A \ {x} = B \ {x}
  <2>1. ASSUME NEW y, y # x PROVE y \in A <=> y \in B
    <3>1. CASE y \in Proc \X (1 .. NOFILE)
      <4>1. of[y[1]][y[2]] = ofile[y[1]][y[2]]
        BY <1>6, <2>1, <3>1, Zenon
      <4> QED
        BY <3>1, <4>1, Zenon DEF FileSet
    <3>2. CASE y \notin Proc \X (1 .. NOFILE)
      BY <3>2, Zenon DEF FileSet
    <3> QED
      BY <3>1, <3>2, Zenon
  <2> HIDE DEF A, B, x
  <2> QED
    BY <2>1, Zenon
<1>8. IsFiniteSet(A) /\ Cardinality(A) \in Nat /\ Cardinality(B) \in Nat /\ Cardinality(CwdSet(cwd, i)) \in Nat
  BY RestingNat, Zenon
<1> HIDE DEF x
<1>9. Cardinality(A) + (IF x \in B THEN 1 ELSE 0) = Cardinality(B) + (IF x \in A THEN 1 ELSE 0)
  <2> HIDE DEF A, B
  <2> QED
    BY <1>7, <1>8, PointCard
<1>10. /\ Same(k, i) = (IF x \in B THEN 1 ELSE 0)
       /\ Same(ofile[p][f].ip, i) = (IF x \in A THEN 1 ELSE 0)
  BY <1>5, Zenon DEF Same
<1>11. Cardinality(A) + Same(k, i) = Cardinality(B) + Same(ofile[p][f].ip, i)
  BY <1>9, <1>10, Zenon
<1>12. Same(k, i) \in Nat /\ Same(ofile[p][f].ip, i) \in Nat
  BY Zenon DEF Same
<1>13. /\ Resting(cwd, of, i) = Cardinality(CwdSet(cwd, i)) + Cardinality(B)
       /\ Resting(cwd, ofile, i) = Cardinality(CwdSet(cwd, i)) + Cardinality(A)
  BY Zenon DEF Resting
<1> HIDE DEF A, B
<1>14. Resting(cwd, of, i) + Same(ofile[p][f].ip, i) = Resting(cwd, ofile, i) + Same(k, i)
  BY <1>8, <1>11, <1>12, <1>13, SMT
<1> QED
  BY <1>14, Zenon

\* A current directory changes.
CwdPut(c, p, k) == c = [cwd EXCEPT ![p] = k]
CwdMoved(c, p, k, i) ==
  Resting(c, ofile, i) + Same(cwd[p], i) = Resting(cwd, ofile, i) + Same(k, i)

\* The references that the tables hold, after one cwd changes.
LEMMA CwdStep ==
  ASSUME FsTypes, NEW p \in Proc, NEW k \in Inum, NEW c, CwdPut(c, p, k), NEW i \in Inum
  PROVE  CwdMoved(c, p, k, i)
<1> USE DEF CwdPut, CwdMoved
<1>1. cwd \in [Proc -> Inum]
  BY Zenon DEF FsTypes
<1>2. \A q \in Proc : c[q] = IF q = p THEN k ELSE cwd[q]
  BY <1>1, Zenon
<1> DEFINE A == CwdSet(cwd, i)
           B == CwdSet(c, i)
<1>3. A \ {p} = B \ {p} /\ (p \in A <=> cwd[p] = i) /\ (p \in B <=> k = i)
  BY <1>2, Zenon DEF CwdSet
<1>4. IsFiniteSet(A) /\ Cardinality(A) \in Nat /\ Cardinality(B) \in Nat /\ Cardinality(FileSet(ofile, i)) \in Nat
  BY RestingNat, Zenon
<1>5. Cardinality(A) + (IF p \in B THEN 1 ELSE 0) = Cardinality(B) + (IF p \in A THEN 1 ELSE 0)
  BY <1>3, <1>4, PointCard, Zenon
<1>6. Same(k, i) = (IF p \in B THEN 1 ELSE 0) /\ Same(cwd[p], i) = (IF p \in A THEN 1 ELSE 0)
  BY <1>3, Zenon DEF Same
<1>7. Cardinality(A) + Same(k, i) = Cardinality(B) + Same(cwd[p], i)
  BY <1>5, <1>6, Zenon
<1>8. Same(k, i) \in Nat /\ Same(cwd[p], i) \in Nat
  BY Zenon DEF Same
<1>9. /\ Resting(c, ofile, i) = Cardinality(B) + Cardinality(FileSet(ofile, i))
      /\ Resting(cwd, ofile, i) = Cardinality(A) + Cardinality(FileSet(ofile, i))
  BY Zenon DEF Resting
<1> HIDE DEF A, B
<1>10. Resting(c, ofile, i) + Same(cwd[p], i) = Resting(cwd, ofile, i) + Same(k, i)
  BY <1>4, <1>7, <1>8, <1>9, SMT
<1> QED
  BY <1>10, Zenon

\* The references that the tables come to hold.
TablesMoved(p, gone, come, i) ==
  /\ Resting(cwd, ofile, i) \in Nat /\ Resting(cwd', ofile', i) \in Nat
  /\ Resting(cwd', ofile', i) + Same(gone, i) = Resting(cwd, ofile, i) + Same(come, i)

\* They change by the entry that does.
LEMMA TablesStep ==
  ASSUME FsTypes, NEW p \in Proc, NEW gone, NEW come, Tables(p, gone, come), NEW i \in Inum
  PROVE  TablesMoved(p, gone, come, i)
<1>1. Resting(cwd, ofile, i) \in Nat /\ Resting(cwd', ofile', i) \in Nat
  BY RestingNat DEF Resting
<1>3. CASE gone = 0 /\ come = 0 /\ UNCHANGED <<cwd, ofile>>
  BY <1>1, <1>3, Zenon DEF TablesMoved
<1>4. CASE gone = cwd[p] /\ come \in Inum /\ cwd' = [cwd EXCEPT ![p] = come] /\ ofile' = ofile
  <2>1. CwdPut(cwd', p, come)
    BY <1>4, Zenon DEF CwdPut
  <2>2. CwdMoved(cwd', p, come, i)
    BY <1>4, <2>1, CwdStep, Zenon
  <2> QED
    BY <1>1, <1>4, <2>2, Zenon DEF CwdMoved, TablesMoved
<1>5. ASSUME cwd' = cwd, come \in Inum \cup {0}, NEW f \in 1 .. NOFILE, NEW w \in BOOLEAN,
             gone = ofile[p][f].ip, FilePut(ofile', p, f, come, w)
      PROVE  TablesMoved(p, gone, come, i)
  <2>1. FileMoved(ofile', p, f, come, i)
    BY <1>5, FileStep, Zenon
  <2> QED
    BY <1>1, <1>5, <2>1, Zenon DEF FileMoved, TablesMoved
<1> QED
  BY <1>3, <1>4, <1>5, Zenon DEF Tables

\* A balanced step keeps the counts exact.
LEMMA CountStep ==
  ASSUME FsTypes, RefExact, Balanced
  PROVE  RefExact'
<1>1. PICK p \in Proc : \E t, gone, come : Balance(p, t, gone, come)
  BY Zenon DEF Balanced
<1>2. PICK t, gone, come : Balance(p, t, gone, come)
  BY <1>1, Zenon
<1>3. up' = up /\ todo' = [todo EXCEPT ![p] = t] /\ ref' \in [Inum -> Int] /\ Tables(p, gone, come)
  BY <1>2, Zenon DEF Balance
<1>4. ASSUME NEW i \in Inum
      PROVE  ref'[i] + (Resting(cwd, ofile, i) + Claims(todo[p], i))
               = ref[i] + (Resting(cwd', ofile', i) + Claims(t, i))
  <2>1. TablesMoved(p, gone, come, i)
    BY <1>3, TablesStep, Zenon
  <2>2. PICK r, r2, h, h2, c, c2, g, m :
          /\ r = ref[i] /\ r2 = ref'[i] /\ h = Resting(cwd, ofile, i) /\ h2 = Resting(cwd', ofile', i)
          /\ c = Claims(todo[p], i) /\ c2 = Claims(t, i) /\ g = Same(gone, i) /\ m = Same(come, i)
    BY Zenon
  <2>3. h \in Nat /\ h2 \in Nat /\ h2 + g = h + m
    BY <2>1, <2>2, Zenon DEF TablesMoved
  <2>4. g \in Nat /\ m \in Nat
    BY <2>2, SMT DEF Same
  <2>5. c \in Nat /\ c2 \in Nat
    BY <2>2, ClaimsNumber, Zenon
  <2>6. r \in Int /\ r2 \in Int
    BY <1>3, <2>2, Zenon DEF FsTypes
  <2>7. r2 + (c + g) = r + (m + c2)
    BY <1>2, <2>2, Zenon DEF Balance
  <2>8. r2 + (h + c) = r + (h2 + c2)
    BY <2>3, <2>4, <2>5, <2>6, <2>7, SMT
  <2> QED
    BY <2>2, <2>8, Zenon
<1>5. RefHyp(p, t)
  BY <1>3, <1>4, Zenon DEF RefHyp
<1> QED
  BY <1>5, RefStep, Zenon

-----------------------------------------------------------------------------
(* At boot, and at the iput() of a locked inode.                             *)

\* The references right after boot.
LEMMA FreshCount ==
  ASSUME Fresh, NEW i \in Inum
  PROVE  Resting(cwd, ofile, i) + Held(todo, i) = IF i = ROOT THEN Cardinality(Proc) ELSE 0
<1>1. Cardinality({}) = 0 /\ Cardinality(Proc) \in Nat
  BY FS_EmptySet, FS_CardinalityType, ProcAssumption, Zenon
<1>2. i # 0 /\ \A k \in 1 .. 5 : ~(k <= 0)
  BY SMT DEF Inum
<1>3. CwdSet(cwd, i) = IF i = ROOT THEN Proc ELSE {}
  BY Zenon DEF CwdSet, Fresh
<1>4. FileSet(ofile, i) = {}
  <2> SUFFICES ASSUME NEW x \in FileSet(ofile, i) PROVE FALSE
    BY Zenon
  <2>1. x \in Proc \X (1 .. NOFILE) /\ ofile[x[1]][x[2]].ip = i
    BY Zenon DEF FileSet
  <2>2. PICK q, g : q = x[1] /\ g = x[2]
    BY Zenon
  <2>3. x[1] = q /\ x[2] = g /\ q \in Proc /\ g \in 1 .. NOFILE
    BY <2>1, <2>2, PairFacts
  <2>4. ofile[q][g] = File(0, FALSE) /\ File(0, FALSE).ip = 0
    BY <2>3, Zenon DEF Fresh, NoFiles, File
  <2> QED
    BY <1>2, <2>1, <2>3, <2>4, Zenon
<1>5. \A x \in Proc \X (1 .. 5) : ~(x[2] <= Len(todo[x[1]]))
  <2> TAKE x \in Proc \X (1 .. 5)
  <2>1. PICK q, k : q = x[1] /\ k = x[2]
    BY Zenon
  <2>2. x[1] = q /\ x[2] = k /\ q \in Proc /\ k \in 1 .. 5
    BY <2>1, PairFacts
  <2>3. todo[q] = <<>> /\ Len(<<>>) = 0
    BY <2>2 DEF Fresh
  <2> QED
    BY <1>2, <2>2, <2>3, Zenon
<1>6. IpHeld(todo, i) = {} /\ ArgHeld(todo, i) = {}
  BY <1>5, Zenon DEF IpHeld, ArgHeld
<1>7. Cardinality(CwdSet(cwd, i)) = IF i = ROOT THEN Cardinality(Proc) ELSE 0
  BY <1>1, <1>3, Zenon
<1>8. /\ Resting(cwd, ofile, i) = Cardinality(CwdSet(cwd, i)) + 0
      /\ Held(todo, i) = 0 + 0
  BY <1>1, <1>4, <1>6, Zenon DEF Resting, Held
<1>9. PICK n : n = Cardinality(Proc)
  BY Zenon
<1>10. PICK m : m = Cardinality(CwdSet(cwd, i))
  BY Zenon
<1> QED
  BY <1>1, <1>7, <1>8, <1>9, <1>10, SMT

\* The references of a machine that has just started.
FreshRefs == Fresh /\ \A i \in Inum : ref[i] = IF i = ROOT THEN Cardinality(Proc) ELSE 0

\* It holds a reference to the root for each process.
LEMMA FreshExact ==
  FreshRefs => RefExact
<1> SUFFICES ASSUME FreshRefs PROVE RefExact
  OBVIOUS
<1>1. RefSum
  BY FreshCount, Zenon DEF RefSum, FreshRefs
<1> QED
  BY <1>1, RefForm, Zenon

\* Nothing is counted while the machine is down, and nothing changes if nothing does.
LEMMA CountKept ==
  ASSUME RefExact, ~up' \/ UNCHANGED vars
  PROVE  RefExact'
<1>1. CASE ~up'
  BY <1>1, Zenon DEF RefExact
<1>2. CASE UNCHANGED vars
  <2>1. UNCHANGED <<ref, cwd, ofile, todo, up>>
    BY <1>2, Zenon DEF vars
  <2> QED
    BY <2>1, Zenon DEF RefExact
<1> QED
  BY <1>1, <1>2, Zenon

\* There are finitely many processes.
LEMMA ProcNumber ==
  Cardinality(Proc) \in Nat
  BY FS_CardinalityType, ProcAssumption, Zenon

\* ialloc() and fdalloc() take an element of the set they search.
LEMMA FirstIsFound == FirstFound
<1> SUFFICES ASSUME NEW S \in SUBSET Nat, S # {} PROVE Lowest(S) \in S
  BY Zenon DEF FirstFound
<1> DEFINE R == OpToRel(<, Nat)
<1>1. PICK x \in S : \A y \in S : ~ (<<y, x>> \in R)
  BY NatLessThanWellFounded, WFMin, Zenon
<1>2. ASSUME NEW y \in S PROVE x <= y
  <2>1. ~ (y < x)
    BY <1>1 DEF OpToRel
  <2> QED
    BY <2>1
<1> QED
  BY <1>2, Zenon DEF Lowest

\* A lock is a reference that the iput() of another process would count.
LEMMA LockCounts ==
  ASSUME InodeInv, up, NEW p \in Proc, 1 <= Len(todo[p]), todo[p][1].op = "put",
         NEW i \in Inum, todo[p][1].ip = i, lock[i] # NoProc
  PROVE  ref[i] >= 2
<1>1. PICK h : h = todo[p][1]
  BY Zenon
<1>2. FsTypes /\ h.op = "put" /\ h.ip = i /\ ListOk(todo[p], call[p])
  BY <1>1, Zenon DEF InodeInv, Shape, FsTypes
<1>3. PICK q : q = lock[i]
  BY Zenon
<1>4. q \in Proc
  BY <1>2, <1>3, Zenon DEF FsTypes
<1>5. PICK k \in 1 .. Len(todo[q]) : LockStep(todo[q][k], i)
  BY <1>3, Zenon DEF InodeInv, Shape, LocksHaveSteps
<1>6. ListOk(todo[q], call[q])
  BY <1>2, <1>4, Zenon DEF FsTypes
<1>7. /\ Len(todo[p]) \in Nat /\ Len(todo[q]) \in Nat
      /\ Len(todo[p]) <= 4 /\ Len(todo[q]) <= 4
  <2>1. \A s \in Seq(Steps) : Len(s) \in Nat
    BY SMT
  <2> QED
    BY <1>2, <1>6, <2>1, Zenon DEF ListOk, ListLen
<1>8. /\ 1 \in 1 .. 5 /\ 1 <= Len(todo[p]) /\ k \in 1 .. 5 /\ k <= Len(todo[q])
      /\ 2 \in 1 .. 5 /\ (k = 1 => k # 2)
  BY <1>2, <1>5, <1>7, SMT
<1>9. <<p, 1>> \in IpHeld(todo, i)
  <2>1. ByIp(h, i)
    BY <1>2, Zenon DEF ByIp
  <2>2. <<p, 1>> \in Proc \X (1 .. 5) /\ <<p, 1>>[1] = p /\ <<p, 1>>[2] = 1
    BY <1>8, Zenon
  <2> QED
    BY <1>1, <1>8, <2>1, <2>2, Zenon DEF IpHeld
<1>10. \/ <<q, k>> \in ArgHeld(todo, i)
       \/ \E x \in IpHeld(todo, i) : x # <<p, 1>>
  <2>1. <<q, k>> \in Proc \X (1 .. 5) /\ <<q, k>>[1] = q /\ <<q, k>>[2] = k
    BY <1>4, <1>8, Zenon
  <2>2. CASE todo[q][k].op = "unlink2" /\ todo[q][k].arg = i
    <3>1. ByArg(todo[q][k], i)
      BY <2>2, Zenon DEF ByArg
    <3> QED
      BY <1>8, <2>1, <3>1, Zenon DEF ArgHeld
  <2>3. CASE todo[q][k].op \in {"opened", "unlockput", "unlink3"} /\ todo[q][k].ip = i
    <3>1. ByIp(todo[q][k], i)
      BY <2>3, Zenon DEF ByIp
    <3>2. <<q, k>> \in IpHeld(todo, i)
      BY <1>8, <2>1, <3>1, Zenon DEF IpHeld
    <3>3. <<q, k>> # <<p, 1>>
      <4> SUFFICES ASSUME <<q, k>> = <<p, 1>> PROVE FALSE
        BY Zenon
      <4>1. q = p /\ k = 1
        BY Zenon
      <4> QED
        BY <1>1, <1>2, <2>3, <4>1, Zenon
    <3> QED
      BY <3>2, <3>3, Zenon
  <2>4. CASE todo[q][k].op = "free" /\ todo[q][k].ip = i
    <3>1. k = 1 /\ 2 <= Len(todo[q]) /\ todo[q][2].op = "drop" /\ todo[q][2].ip = i
      BY <1>6, <2>4, Zenon DEF ListOk, ListFree
    <3>2. ByIp(todo[q][2], i)
      BY <3>1, Zenon DEF ByIp
    <3>3. <<q, 2>> \in Proc \X (1 .. 5) /\ <<q, 2>>[1] = q /\ <<q, 2>>[2] = 2
      BY <1>4, <1>8, Zenon
    <3>4. <<q, 2>> \in IpHeld(todo, i)
      BY <3>1, <3>2, <3>3, Zenon DEF IpHeld
    <3>5. <<q, 2>> # <<p, 1>>
      BY SMT
    <3> QED
      BY <3>4, <3>5, Zenon
  <2> QED
    BY <1>5, <2>2, <2>3, <2>4, Zenon DEF LockStep
<1>11. IsFiniteSet(IpHeld(todo, i)) /\ IsFiniteSet(ArgHeld(todo, i))
  <2>1. IsFiniteSet(1 .. 5)
    BY FinitePlaces, Zenon
  <2>2. IsFiniteSet(Proc \X (1 .. 5))
    BY <2>1, ProcAssumption, FS_Product, Zenon
  <2>3. IpHeld(todo, i) \subseteq Proc \X (1 .. 5) /\ ArgHeld(todo, i) \subseteq Proc \X (1 .. 5)
    BY Zenon DEF IpHeld, ArgHeld
  <2> QED
    BY <2>2, <2>3, FS_Subset, Zenon
<1>12. ASSUME NEW S, IsFiniteSet(S), NEW x \in S
       PROVE  /\ Cardinality(S) \in Nat /\ Cardinality(S) >= 1
              /\ (\E y \in S : y # x) => Cardinality(S) >= 2
  <2>1. IsFiniteSet(S \ {x}) /\ Cardinality(S \ {x}) = Cardinality(S) - 1
    BY <1>12, FS_RemoveElement, Zenon
  <2>2. Cardinality(S) \in Nat /\ Cardinality(S \ {x}) \in Nat
    BY <1>12, <2>1, FS_CardinalityType, Zenon
  <2>3. (\E y \in S : y # x) => Cardinality(S \ {x}) # 0
    <3>1. PICK T : T = S \ {x}
      BY Zenon
    <3>2. Cardinality(T) = 0 => T = {}
      BY <2>1, <3>1, FS_EmptySet
    <3> QED
      BY <3>1, <3>2, Zenon
  <2> QED
    BY <2>1, <2>2, <2>3, SMT
<1>13. Held(todo, i) >= 2
  <2>1. Cardinality(IpHeld(todo, i)) \in Nat /\ Cardinality(ArgHeld(todo, i)) \in Nat
    BY HeldNat, Zenon
  <2>2. /\ Cardinality(IpHeld(todo, i)) >= 1
        /\ Cardinality(ArgHeld(todo, i)) >= 1 \/ Cardinality(IpHeld(todo, i)) >= 2
    BY <1>9, <1>10, <1>11, <1>12, Zenon
  <2> QED
    BY <2>1, <2>2, SMT DEF Held
<1>14. ref[i] = Resting(cwd, ofile, i) + Held(todo, i)
  BY <1>2, RefForm, Zenon DEF InodeInv, RefSum
<1>15. Resting(cwd, ofile, i) \in Nat /\ Held(todo, i) \in Nat
  BY RestingNat, HeldNat DEF Resting, Held
<1> QED
  BY <1>13, <1>14, <1>15, SMT
=============================================================================
