--------------------------------- MODULE Fs ---------------------------------
(* Inodes, directories, paths (fs.c) and the file-system calls (sysfile.c),  *)
(* on the atomic log of AtomicLog, with crashes and recovery.                *)
(*                                                                           *)
(* A call is the list of what it has still to do (todo); the head of the     *)
(* list is its next step.  A section between ilock() and iunlock() that      *)
(* waits for nothing else is one step; a lock held while another lock is     *)
(* awaited, or across an iput(), is in lock.  The fields of the in-memory    *)
(* inode are in mem, those of the disk (as the transaction sees it) in       *)
(* disk.ino; directory entries and the bitmap are only on disk.              *)
EXTENDS Integers, Sequences, FiniteSets

CONSTANTS
  Proc,      \* processes
  NINO,      \* inodes 1 .. NINO, the root is inode 1
  Blk,       \* data blocks
  DPB,       \* directory entries in a block
  Name,      \* names, "." and ".." among them
  NOFILE,    \* open files of a process
  Call,      \* the calls processes may make, see Start
  Images,    \* the file systems to begin with
  MaxCalls,  \* bound: calls in a behaviour
  MaxCrash   \* bound: crashes

Inum == 1 .. NINO
ROOT == 1
NoProc == 0
NoName == ""
PathCalls == {"open", "create", "link", "unlink", "chdir"}
FileSystem ==
  [ino : [Inum -> [type : {"free", "file", "dir", "dev"}, nlink : Nat, blocks : SUBSET Blk]],
   ents : [Inum -> [Name -> Inum \cup {0}]], used : SUBSET Blk]

ASSUME ProcAssumption == IsFiniteSet(Proc) /\ NoProc \notin Proc
ASSUME SizeAssumption == NINO \in Nat \ {0} /\ NOFILE \in Nat
ASSUME CallAssumption ==
  Call \subseteq [call : PathCalls, path : Seq(Name), relative : BOOLEAN,
                  type : {"file", "dir", "dev"}, write : BOOLEAN, new : Seq(Name)]
ASSUME ImagesAssumption == Images \subseteq FileSystem

VARIABLES
  disk,     \* the file system that operations see: ino, ents, used
  durable,  \* the file system a crash falls back to
  mem,      \* mem[i]: fields of the in-memory inode, NoInode if not valid
  ref,      \* ref[i]: ip->ref
  lock,     \* lock[i]: the process that holds ip->lock, or NoProc
  cwd,      \* cwd[p]: inode of the current directory
  ofile,    \* ofile[p]: inode (0 if closed) and f->writable of each descriptor
  todo,     \* todo[p]: the steps p's call has still to make
  call,     \* call[p]: the arguments of p's call
  calls,    \* number of calls begun
  crashes,  \* number of crashes
  up        \* the system is running, recovery is over

vars == <<disk, durable, mem, ref, lock, cwd, ofile, todo, call, calls, crashes, up>>
rest == <<durable, cwd, ofile, call, calls, crashes, up>>

Dinode(type, nlink, blocks) == [type |-> type, nlink |-> nlink, blocks |-> blocks]
NoInode == Dinode("none", 0, {})
FreeInode == Dinode("free", 0, {})
NoEntries == [n \in Name |-> 0]
NoCall == [call |-> "none"]
File(i, w) == [ip |-> i, writable |-> w]
NoFiles == [f \in 1 .. NOFILE |-> File(0, FALSE)]

Op(o, i, name, arg) == [op |-> o, ip |-> i, name |-> name, arg |-> arg]
Put(i) == Op("put", i, NoName, 0)
UnlockPut(i) == Op("unlockput", i, NoName, 0)
End == Op("end", 0, NoName, 0)
Commit == Op("commit", 0, NoName, 0)
\* namex(): go on from ip along path; on success do next, else do bad.
Walk(i, path, par, next, arg, bad) ==
  [op |-> "walk", ip |-> i, path |-> path, par |-> par, next |-> next, arg |-> arg, bad |-> bad]

Init ==
  /\ disk \in Images /\ durable = disk
  /\ mem = [i \in Inum |-> NoInode]
  /\ ref = [i \in Inum |-> IF i = ROOT THEN Cardinality(Proc) ELSE 0]
  /\ lock = [i \in Inum |-> NoProc]
  /\ cwd = [p \in Proc |-> ROOT] /\ ofile = [p \in Proc |-> NoFiles]
  /\ todo = [p \in Proc |-> <<>>] /\ call = [p \in Proc |-> NoCall]
  /\ calls = 0 /\ crashes = 0 /\ up = TRUE

-----------------------------------------------------------------------------
(* Inodes and blocks *)

\* ilock() of an inode that nobody has locked reads it unless it is valid.  It
\* panics when the type is free; a behaviour is of interest up to there.
Loaded(i) == IF mem[i] = NoInode THEN disk.ino[i] ELSE mem[i]
Free(i) == lock[i] = NoProc

\* iget() and idup(); a table entry that was not in use is not valid.
Got(r, i) == [r EXCEPT ![i] = @ + 1]
\* The fields of ip and their copy on disk change together (iupdate()).
Updated(d, i, ino) == [d EXCEPT !.ino[i] = ino]
\* ialloc(), balloc() and fdalloc() take the first that is free.
Lowest(S) == CHOOSE x \in S : \A y \in S : x <= y

\* balloc() takes the first free block; bmap() adds it to inode i.
Balloc(d) == Lowest(Blk \ d.used)
Grown(d, i) == [d EXCEPT !.used = @ \cup {Balloc(d)}, !.ino[i].blocks = @ \cup {Balloc(d)}]
\* itrunc() and the bfree() of its blocks.
Bfree(d, B) == [d EXCEPT !.used = @ \ B]
Truncated_mut(d, i) == [d EXCEPT !.ino[i].blocks = {}, !.ents[i] = NoEntries]
Truncated(d, i) ==
  [Bfree(d, d.ino[i].blocks) EXCEPT !.ino[i].blocks = {}, !.ents[i] = NoEntries]

Names(d, i) == {n \in Name : d.ents[i][n] # 0}
\* dirlink(): an empty entry if there is one, else a new block.
HasRoom(d, i) == Cardinality(Names(d, i)) < DPB * Cardinality(d.ino[i].blocks)
CanLink(d, i, name) == name \notin Names(d, i) /\ (HasRoom(d, i) \/ d.used # Blk)
Linked(d, i, name, n) ==
  LET g == IF HasRoom(d, i) THEN d ELSE Grown(d, i)
  IN [g EXCEPT !.ents[i][name] = n]
Unlinked(d, i, name) == [d EXCEPT !.ents[i][name] = 0]
NlinkAdd(d, i, n) == [d EXCEPT !.ino[i].nlink = @ + n]

\* The head of p's list is done; ops come in its place.
Do(p, ops) == todo' = [todo EXCEPT ![p] = ops \o Tail(@)]
At(p, o) == todo[p] # <<>> /\ Head(todo[p]).op = o
\* The in-memory copies of the inodes in S follow the disk.
Synced(S) == [i \in Inum |-> IF i \in S THEN disk'.ino[i] ELSE mem[i]]

\* The inodes ialloc() can choose from.
Unallocated(d) == {i \in Inum : d.ino[i].type = "free"}

-----------------------------------------------------------------------------
(* iput() *)

Dropped(i) == ref[i] = 1      \* the last reference goes
LastUnlinked_mut(i) == mem[i] # NoInode /\ mem[i].nlink = 0
LastUnlinked(i) == ref[i] = 1 /\ mem[i] # NoInode /\ mem[i].nlink = 0

PutDrop(p) ==
  /\ At(p, "put")
  /\ LET i == Head(todo[p]).ip IN
     /\ ~LastUnlinked(i)
     /\ ref' = [ref EXCEPT ![i] = @ - 1]
     /\ mem' = IF Dropped(i) THEN [mem EXCEPT ![i] = NoInode] ELSE mem
  /\ Do(p, <<>>) /\ UNCHANGED <<disk, lock, rest>>

\* No links and no other reference: lock it and free it on disk; only then is
\* the reference dropped, and the inode may be allocated again before that.
PutLock(p) ==
  /\ At(p, "put")
  /\ LET i == Head(todo[p]).ip IN
     /\ LastUnlinked(i) /\ Free(i)
     /\ lock' = [lock EXCEPT ![i] = p]
     /\ Do(p, <<Op("free", i, NoName, 0), Op("drop", i, NoName, 0)>>)
  /\ UNCHANGED <<disk, mem, ref, rest>>
PutFree_mut(p) ==
  /\ At(p, "free")
  /\ LET i == Head(todo[p]).ip IN
     /\ disk' = Updated(Truncated(disk, i), i, FreeInode)
     /\ mem' = [mem EXCEPT ![i] = NoInode]
  /\ Do(p, <<>>) /\ UNCHANGED <<lock, ref, rest>>
PutFree(p) ==
  /\ At(p, "free")
  /\ LET i == Head(todo[p]).ip IN
     /\ disk' = Updated(Truncated(disk, i), i, FreeInode)
     /\ mem' = [mem EXCEPT ![i] = NoInode]
     /\ lock' = [lock EXCEPT ![i] = NoProc]
  /\ Do(p, <<>>) /\ UNCHANGED <<ref, rest>>

\* The reference goes without a second look at nlink.
PutLast(p) ==
  /\ At(p, "drop")
  /\ LET i == Head(todo[p]).ip IN
     /\ ref' = [ref EXCEPT ![i] = @ - 1]
     /\ mem' = IF Dropped(i) THEN [mem EXCEPT ![i] = NoInode] ELSE mem
  /\ Do(p, <<>>) /\ UNCHANGED <<disk, lock, rest>>

IunlockPut_mut(p) ==
  /\ At(p, "unlockput")
  /\ lock' = [lock EXCEPT ![Head(todo[p]).ip] = NoProc]
  /\ Do(p, <<>>) /\ UNCHANGED <<disk, mem, ref, rest>>
IunlockPut(p) ==
  /\ At(p, "unlockput")
  /\ lock' = [lock EXCEPT ![Head(todo[p]).ip] = NoProc]
  /\ Do(p, <<Put(Head(todo[p]).ip)>>) /\ UNCHANGED <<disk, mem, ref, rest>>

-----------------------------------------------------------------------------
(* namex() *)

\* One path element, under ilock(ip).
WalkStep(p) ==
  LET o == Head(todo[p]) IN
  /\ At(p, "walk") /\ o.path # <<>> /\ Free(o.ip)
  /\ LET name == Head(o.path)
         isDir == Loaded(o.ip).type = "dir"
         stop == o.par /\ Len(o.path) = 1
         found == isDir /\ ~stop /\ name \in Names(disk, o.ip)
         next == disk.ents[o.ip][name]
     IN /\ ref' = IF found THEN Got(ref, next) ELSE ref
        /\ Do(p, IF found THEN <<Put(o.ip), [o EXCEPT !.ip = next, !.path = Tail(@)]>>
                 ELSE IF isDir /\ stop THEN <<Op(o.next, o.ip, name, o.arg)>>
                 ELSE <<Put(o.ip)>> \o o.bad)
  /\ mem' = [mem EXCEPT ![o.ip] = Loaded(o.ip)]
  /\ UNCHANGED <<disk, lock, rest>>

\* The path is used up: namei() returns ip, nameiparent() fails.
WalkEnd(p) ==
  LET o == Head(todo[p]) IN
  /\ At(p, "walk") /\ o.path = <<>>
  /\ Do(p, IF o.par THEN <<Put(o.ip)>> \o o.bad ELSE <<Op(o.next, o.ip, NoName, o.arg)>>)
  /\ UNCHANGED <<disk, mem, ref, lock, rest>>

-----------------------------------------------------------------------------
(* create(): open with O_CREATE, mkdir, mknod *)

\* ialloc() of inode n, then ilock(), nlink = 1, iupdate().
Allocated(n, type) ==
  LET ino == IF mem[n] = NoInode THEN Dinode(type, 0, {}) ELSE mem[n]
  IN Updated(disk, n, [ino EXCEPT !.nlink = 1])

CreateFound(p) ==
  LET o == Head(todo[p]) IN
  /\ At(p, "create") /\ Free(o.ip) /\ o.name \in Names(disk, o.ip)
  /\ LET i == disk.ents[o.ip][o.name] IN
     /\ ref' = Got(ref, i)
     /\ Do(p, <<Put(o.ip), Op("exists", i, NoName, 0)>>)
  /\ mem' = [mem EXCEPT ![o.ip] = Loaded(o.ip)]
  /\ UNCHANGED <<disk, lock, rest>>

CreateExists(p) ==
  LET i == Head(todo[p]).ip
      fits == call[p].type = "file" /\ Loaded(i).type \in {"file", "dev"}
  IN /\ At(p, "exists") /\ Free(i)
     /\ mem' = [mem EXCEPT ![i] = Loaded(i)]
     /\ lock' = IF fits THEN [lock EXCEPT ![i] = p] ELSE lock
     /\ Do(p, IF fits THEN <<Op("opened", i, NoName, 0)>> ELSE <<Put(i)>>)
     /\ UNCHANGED <<disk, ref, rest>>

CreateNoInode(p) ==
  LET o == Head(todo[p]) IN
  /\ At(p, "create") /\ Free(o.ip) /\ o.name \notin Names(disk, o.ip)
  /\ Unallocated(disk) = {}
  /\ mem' = [mem EXCEPT ![o.ip] = Loaded(o.ip)]
  /\ Do(p, <<Put(o.ip)>>) /\ UNCHANGED <<disk, ref, lock, rest>>

\* The new inode, for a directory its entries "." and "..", and its entry in
\* the parent; if a block is missing, the inode is put back with nlink 0.
CreateNew(p) ==
  LET o == Head(todo[p])
      type == call[p].type
      n == Lowest(Unallocated(disk))
      d0 == Allocated(n, type)
      dots == type = "dir" => CanLink(d0, n, ".")
      d1 == IF type = "dir" /\ dots
            THEN Linked(Linked(d0, n, ".", n), n, "..", o.ip) ELSE d0
      done == dots /\ CanLink(d1, o.ip, o.name)
      d2 == Linked(d1, o.ip, o.name, n)
  IN /\ At(p, "create") /\ Free(o.ip) /\ o.name \notin Names(disk, o.ip)
     /\ Unallocated(disk) # {} /\ Free(n)
     /\ ref' = Got(ref, n)
     /\ disk' = IF ~done THEN NlinkAdd(d1, n, -1)
                ELSE IF type = "dir" THEN NlinkAdd(d2, o.ip, 1) ELSE d2
     /\ mem' = Synced({o.ip, n})
     /\ lock' = [lock EXCEPT ![IF done THEN n ELSE o.ip] = p]
     /\ Do(p, IF ~done THEN <<Put(n), UnlockPut(o.ip)>>
              ELSE <<Put(o.ip), IF type = "file" THEN Op("opened", n, NoName, 0) ELSE UnlockPut(n)>>)
     /\ UNCHANGED rest

-----------------------------------------------------------------------------
(* The rest of open, and read-only opens *)

\* sys_open() with ip locked: a file descriptor, O_TRUNC, iunlock().  Opening
\* for writing is with O_TRUNC, as the shell does.
OpenDone(p) ==
  LET i == Head(todo[p]).ip
      fds == {f \in 1 .. NOFILE : ofile[p][f].ip = 0}
      trunc == call[p].write /\ mem[i].type = "file"
  IN /\ At(p, "opened")
     /\ lock' = [lock EXCEPT ![i] = NoProc]
     /\ IF fds = {}
        THEN Do(p, <<Put(i)>>) /\ UNCHANGED <<disk, mem, ofile>>
        ELSE /\ Do(p, <<>>)
             /\ ofile' = [ofile EXCEPT ![p][Lowest(fds)] = File(i, call[p].write)]
             /\ disk' = IF trunc THEN Truncated(disk, i) ELSE disk
             /\ mem' = Synced({i})
     /\ UNCHANGED <<ref, durable, cwd, call, calls, crashes, up>>

\* open without O_CREATE: only files and devices for writing.
OpenLock(p) ==
  LET i == Head(todo[p]).ip
      refuse == Loaded(i).type = "dir" /\ call[p].write
  IN /\ At(p, "open") /\ Free(i)
     /\ mem' = [mem EXCEPT ![i] = Loaded(i)]
     /\ lock' = IF refuse THEN lock ELSE [lock EXCEPT ![i] = p]
     /\ Do(p, IF refuse THEN <<Put(i)>> ELSE <<Op("opened", i, NoName, 0)>>)
     /\ UNCHANGED <<disk, ref, rest>>

-----------------------------------------------------------------------------
(* link, unlink, chdir, write *)

\* sys_link(): count the link first, make the entry second.
LinkCount(p) ==
  LET i == Head(todo[p]).ip
      isDir == Loaded(i).type = "dir"
  IN /\ At(p, "link") /\ Free(i)
     /\ disk' = IF isDir THEN disk ELSE NlinkAdd(disk, i, 1)
     /\ mem' = Synced({i})
     /\ IF isDir
        THEN ref' = ref /\ Do(p, <<Put(i)>>)
        ELSE /\ ref' = Got(ref, ROOT)
             /\ Do(p, <<Walk(ROOT, call[p].new, TRUE, "linkin", i, <<Op("linkbad", i, NoName, 0)>>)>>)
     /\ UNCHANGED <<lock, rest>>
LinkEntry(p) ==
  LET o == Head(todo[p]) IN
  /\ At(p, "linkin") /\ Free(o.ip)
  /\ IF CanLink(disk, o.ip, o.name)
     THEN /\ disk' = Linked(disk, o.ip, o.name, o.arg)
          /\ Do(p, <<Put(o.ip), Put(o.arg)>>)
     ELSE disk' = disk /\ Do(p, <<Put(o.ip), Op("linkbad", o.arg, NoName, 0)>>)
  /\ mem' = Synced({o.ip})
  /\ UNCHANGED <<ref, lock, rest>>
LinkUndo_mut(p) ==
  LET i == Head(todo[p]).ip IN
  /\ At(p, "linkbad") /\ Free(i)
  /\ mem' = [mem EXCEPT ![i] = Loaded(i)]
  /\ Do(p, <<Put(i)>>) /\ UNCHANGED <<disk, ref, lock, rest>>
LinkUndo(p) ==
  LET i == Head(todo[p]).ip IN
  /\ At(p, "linkbad") /\ Free(i)
  /\ disk' = NlinkAdd(disk, i, -1)
  /\ mem' = Synced({i})
  /\ Do(p, <<Put(i)>>) /\ UNCHANGED <<ref, lock, rest>>

\* sys_unlink(): lock the directory, find the entry, lock the inode.
UnlinkFind(p) ==
  LET o == Head(todo[p])
      found == o.name \notin {".", ".."} /\ o.name \in Names(disk, o.ip)
      i == disk.ents[o.ip][o.name]
  IN /\ At(p, "unlink") /\ Free(o.ip)
     /\ mem' = [mem EXCEPT ![o.ip] = Loaded(o.ip)]
     /\ IF found
        THEN /\ lock' = [lock EXCEPT ![o.ip] = p] /\ ref' = Got(ref, i)
             /\ Do(p, <<Op("unlink2", i, o.name, o.ip)>>)
        ELSE Do(p, <<Put(o.ip)>>) /\ UNCHANGED <<lock, ref>>
     /\ UNCHANGED <<disk, rest>>

IsDirEmpty(i) == Names(disk, i) = {".", ".."}

\* ... and remove the entry.  It panics when nlink is already 0.
UnlinkEntry(p) ==
  LET o == Head(todo[p])
      isDir == Loaded(o.ip).type = "dir"
      d == Unlinked(disk, o.arg, o.name)
  IN /\ At(p, "unlink2") /\ Free(o.ip)
     /\ IF isDir /\ ~IsDirEmpty(o.ip)
        THEN /\ Do(p, <<Put(o.ip), UnlockPut(o.arg)>>)
             /\ UNCHANGED <<disk, lock>>
        ELSE /\ disk' = IF isDir THEN NlinkAdd(d, o.arg, -1) ELSE d
             /\ lock' = [lock EXCEPT ![o.arg] = NoProc, ![o.ip] = p]
             /\ Do(p, <<Put(o.arg), Op("unlink3", o.ip, NoName, 0)>>)
     /\ mem' = Synced({o.ip, o.arg})
     /\ UNCHANGED <<ref, rest>>
UnlinkCount_mut(p) ==
  LET i == Head(todo[p]).ip IN
  /\ At(p, "unlink3")
  /\ disk' = NlinkAdd(disk, i, -1) /\ mem' = Synced({i})
  /\ Do(p, <<Put(i)>>) /\ UNCHANGED <<lock, ref, rest>>
UnlinkCount(p) ==
  LET i == Head(todo[p]).ip IN
  /\ At(p, "unlink3")
  /\ disk' = NlinkAdd(disk, i, -1) /\ mem' = Synced({i})
  /\ lock' = [lock EXCEPT ![i] = NoProc]
  /\ Do(p, <<Put(i)>>) /\ UNCHANGED <<ref, rest>>

\* sys_chdir(): the old directory is put, the new one kept.
Chdir(p) ==
  LET i == Head(todo[p]).ip
      isDir == Loaded(i).type = "dir"
  IN /\ At(p, "chdir") /\ Free(i)
     /\ mem' = [mem EXCEPT ![i] = Loaded(i)]
     /\ cwd' = IF isDir THEN [cwd EXCEPT ![p] = i] ELSE cwd
     /\ Do(p, <<Put(IF isDir THEN cwd[p] ELSE i)>>)
     /\ UNCHANGED <<disk, ref, lock, durable, ofile, call, calls, crashes, up>>

\* filewrite() of a block at the end of the file; writei() stops when balloc()
\* finds no block.
Write(p) ==
  LET i == Head(todo[p]).ip IN
  /\ At(p, "write") /\ Free(i)
  /\ disk' = IF disk.used = Blk THEN disk ELSE Grown(disk, i)
  /\ mem' = Synced({i})
  /\ Do(p, <<>>) /\ UNCHANGED <<ref, lock, rest>>

-----------------------------------------------------------------------------
(* Calls, transactions, crashes *)

\* begin_op() waits while the log commits.
CanBegin(p) == up /\ calls < MaxCalls /\ todo[p] = <<>> /\ \A q \in Proc : ~At(q, "commit")

\* The calls with a path: open, create (O_CREATE, mkdir, mknod), link, unlink,
\* chdir.  The path starts at the root or at the current directory.
StartPath(p, c) ==
  LET start == IF c.relative THEN cwd[p] ELSE ROOT IN
  /\ CanBegin(p)
  /\ ref' = Got(ref, start)
  /\ todo' = [todo EXCEPT ![p] =
       <<Walk(start, c.path, c.call \in {"create", "unlink"}, c.call, 0, <<>>), End>>]
  /\ call' = [call EXCEPT ![p] = c] /\ calls' = calls + 1
  /\ UNCHANGED <<disk, durable, mem, lock, cwd, ofile, crashes, up>>

\* sys_close(): the descriptor goes, then fileclose() puts the inode.
Close(p, f) ==
  /\ CanBegin(p) /\ ofile[p][f].ip # 0
  /\ ofile' = [ofile EXCEPT ![p][f] = File(0, FALSE)]
  /\ todo' = [todo EXCEPT ![p] = <<Put(ofile[p][f].ip), End>>]
  /\ calls' = calls + 1
  /\ UNCHANGED <<disk, durable, mem, ref, lock, cwd, call, crashes, up>>

StartWrite(p, f) ==
  LET i == ofile[p][f].ip IN
  /\ CanBegin(p) /\ ofile[p][f].writable /\ mem[i].type = "file"
  /\ todo' = [todo EXCEPT ![p] = <<Op("write", i, NoName, 0), End>>]
  /\ calls' = calls + 1
  /\ UNCHANGED <<disk, durable, mem, ref, lock, cwd, ofile, call, crashes, up>>

\* end_op(): the last operation commits.
EndOp(p) ==
  /\ At(p, "end")
  /\ Do(p, IF \E q \in Proc \ {p} : todo[q] # <<>> THEN <<>> ELSE <<Commit>>)
  /\ call' = [call EXCEPT ![p] = NoCall]
  /\ UNCHANGED <<disk, durable, mem, ref, lock, cwd, ofile, calls, crashes, up>>
CommitOp(p) ==
  /\ At(p, "commit")
  /\ durable' = disk
  /\ Do(p, <<>>)
  /\ UNCHANGED <<disk, mem, ref, lock, cwd, ofile, call, calls, crashes, up>>

Crash ==
  /\ crashes < MaxCrash /\ crashes' = crashes + 1
  /\ disk' = durable /\ up' = FALSE
  /\ mem' = [i \in Inum |-> NoInode] /\ ref' = [i \in Inum |-> 0]
  /\ lock' = [i \in Inum |-> NoProc] /\ cwd' = [p \in Proc |-> ROOT]
  /\ ofile' = [p \in Proc |-> NoFiles]
  /\ todo' = [p \in Proc |-> <<>>] /\ call' = [p \in Proc |-> NoCall]
  /\ UNCHANGED <<durable, calls>>

Orphans(d) == {i \in Inum : d.ino[i].type # "free" /\ d.ino[i].nlink = 0}

\* fsinit(): ireclaim() frees each orphan in a transaction of its own; then
\* the processes start in the root directory.
Reclaim ==
  /\ ~up /\ Orphans(disk) # {}
  /\ LET i == Lowest(Orphans(disk)) IN
     disk' = Updated(Truncated(disk, i), i, FreeInode)
  /\ durable' = disk'
  /\ UNCHANGED <<mem, ref, lock, cwd, ofile, todo, call, calls, crashes, up>>
Boot ==
  /\ ~up /\ Orphans(disk) = {}
  /\ up' = TRUE
  /\ ref' = [ref EXCEPT ![ROOT] = Cardinality(Proc)]
  /\ UNCHANGED <<disk, durable, mem, lock, cwd, ofile, todo, call, calls, crashes>>

Step(p) ==
  \/ PutDrop(p) \/ PutLock(p) \/ PutFree(p) \/ PutLast(p) \/ IunlockPut(p)
  \/ WalkStep(p) \/ WalkEnd(p)
  \/ CreateFound(p) \/ CreateExists(p) \/ CreateNoInode(p) \/ CreateNew(p)
  \/ OpenDone(p) \/ OpenLock(p)
  \/ LinkCount(p) \/ LinkEntry(p) \/ LinkUndo(p)
  \/ UnlinkFind(p) \/ UnlinkEntry(p) \/ UnlinkCount(p)
  \/ Chdir(p) \/ Write(p) \/ EndOp(p) \/ CommitOp(p)

Start(p) ==
  \/ \E c \in Call : StartPath(p, c)
  \/ \E f \in 1 .. NOFILE : Close(p, f) \/ StartWrite(p, f)

\* The bounds are reached and no call is in progress.
Idle == up /\ calls = MaxCalls /\ (\A p \in Proc : todo[p] = <<>>) /\ UNCHANGED vars

Next == \/ \E p \in Proc : Step(p) \/ Start(p)
        \/ Crash \/ Reclaim \/ Boot \/ Idle

Spec == Init /\ [][Next]_vars

-----------------------------------------------------------------------------
(* Properties *)

\* The inodes that paths without ".." reach from the root.
Reached(d) ==
  LET below(S) == {d.ents[e[1]][e[2]] : e \in S \X (Name \ {".", ".."})} \ {0}
      within[k \in 1 .. NINO] ==
        IF k = 1 THEN {ROOT} ELSE LET S == within[k - 1] IN S \cup below(S)
  IN within[NINO]

\* Every block in the bitmap belongs to exactly one inode, through balloc,
\* itrunc, full disks, crashes and reclaimed orphans.
BlocksOwned ==
  /\ UNION {disk.ino[i].blocks : i \in Inum} = disk.used
  /\ \A i, j \in Inum : i # j => disk.ino[i].blocks \cap disk.ino[j].blocks = {}

\* ip->ref is the number of current directories, open files and running calls
\* that have a pointer to the inode, on every path through the calls, the
\* failing ones included: nothing leaks and nothing is put twice.
RefExact ==
  LET held == {x \in Proc \X (1 .. 5) : x[2] <= Len(todo[x[1]])}
      of(x) == todo[x[1]][x[2]]
  IN up => \A i \in Inum :
    ref[i] = Cardinality({p \in Proc : cwd[p] = i})
             + Cardinality({x \in Proc \X (1 .. NOFILE) : ofile[x[1]][x[2]].ip = i})
             + Cardinality({x \in held : of(x).ip = i /\ of(x).op \notin {"free", "write"}})
             + Cardinality({x \in held : of(x).arg = i})

\* The inode the next step of p locks with ilock(), 0 if there is none.
Locks(p) ==
  IF todo[p] = <<>> THEN 0
  ELSE LET o == Head(todo[p]) IN
       IF o.op = "walk" THEN (IF o.path = <<>> THEN 0 ELSE o.ip)
       ELSE IF o.op \in {"create", "exists", "open", "link", "linkin", "linkbad",
                         "unlink", "unlink2", "chdir", "write"} THEN o.ip ELSE 0

\* A valid in-memory inode is what the disk holds: iupdate() follows every
\* change of a field that is also on disk.
CopiesCurrent == \A i \in Inum : mem[i] # NoInode => mem[i] = disk.ino[i]

\* "ilock: no type" (fs.c): ilock() never finds a free inode.  It does when a
\* path goes through ".." of a removed directory: rmdir leaves the entry, and
\* does not keep the parent.
IlockFindsType == \A p \in Proc : Locks(p) # 0 => Loaded(Locks(p)).type # "free"

\* A path of p's call goes up.
Climbs(p) ==
  call[p] # NoCall /\ \E s \in {call[p].path, call[p].new} : \E k \in DOMAIN s : s[k] = ".."

\* A call without ".." in its paths panics neither in ilock() ("ilock: no type")
\* nor in sys_unlink() ("unlink: nlink < 1"): an inode that another process frees
\* in iput(), or that is allocated again, is never one that it is about to lock,
\* and what it unlinks has a link; and a valid in-memory copy is what the disk
\* holds.
LockedInodeLive ==
  /\ \A p \in Proc : ~Climbs(p) =>
       /\ Locks(p) # 0 => Loaded(Locks(p)).type # "free"
       /\ At(p, "unlink2") => Loaded(Locks(p)).nlink >= 1
  /\ CopiesCurrent

\* iput() takes the sleep lock with itable.lock held: "this acquiresleep()
\* won't block (or deadlock)" (fs.c).
IputNeverBlocks ==
  \A p \in Proc : At(p, "put") /\ LastUnlinked(Head(todo[p]).ip) => Free(Head(todo[p]).ip)

\* No call waits for ever: a lock is held by a process that is in a call and
\* that is not, directly or through others, waiting for itself.  unlink holds
\* the directory while it locks the inode, create while it locks the new one.
NoLockCycle ==
  LET holder(p) == IF Locks(p) = 0 THEN NoProc ELSE lock[Locks(p)]
  IN /\ \A i \in Inum : lock[i] # NoProc => todo[lock[i]] # <<>>
     /\ \A p \in Proc : holder(p) # NoProc => holder(holder(p)) = NoProc

\* "If that was the last reference and the inode has no links to it, free the
\* inode (and its content) on disk" (fs.c, iput): an unlinked inode that is
\* still allocated is one that somebody holds.
OrphanHasHolder == up => \A i \in Orphans(disk) : ref[i] > 0
=============================================================================
