------------------------------- MODULE FsInv -------------------------------
(***************************************************************************)
(* The inductive invariant of the inode table, and what a step may do to   *)
(* the references that it counts.                                          *)
(***************************************************************************)
EXTENDS Fs

\* The steps of a call that have an inode and nothing else, and those with two.
OneInode == {"put", "unlockput", "free", "drop", "create", "exists", "opened", "open",
             "link", "linkbad", "unlink", "unlink3", "chdir", "write"}
TwoInodes == {"linkin", "unlink2"}
Label == Name \cup {NoName}
LinkBad(a) == Op("linkbad", a, NoName, 0)
OneSteps == {Op(o, i, n, 0) : o \in OneInode, i \in Inum, n \in Label}
TwoSteps == {Op(o, i, n, a) : o \in TwoInodes, i \in Inum, n \in Label, a \in Inum}
WalkSteps == {Walk(i, path, par, next, 0, <<>>) :
                i \in Inum, path \in Seq(Name), par \in BOOLEAN, next \in PathCalls}
LinkSteps == {Walk(i, path, TRUE, "linkin", a, <<LinkBad(a)>>) :
                i \in Inum, path \in Seq(Name), a \in Inum}
Steps == {End, Commit} \cup OneSteps \cup TwoSteps \cup WalkSteps \cup LinkSteps

\* The steps of a call that does not look at its arguments.
Simple == {"put", "free", "drop", "write", "end", "commit"}

\* The list s of a process whose call is c.  iput() is the only step that puts two
\* others before what follows it, and it is never in the way of another iput().
ListLen(s) ==
  /\ Len(s) <= 4
  /\ Len(s) = 4 => s[1].op = "free"
  /\ Len(s) = 3 => s[1].op \in {"free", "drop", "put"}
ListArgs(s, c) == \A k \in 1 .. Len(s) : s[k].op \in Simple \/ c \in Call
ListEnd(s) == \A k \in 1 .. Len(s) : s[k].op \in {"end", "commit"} => k = Len(s)
ListFree(s) ==
  \A k \in 1 .. Len(s) : s[k].op = "free" =>
    k = 1 /\ 2 <= Len(s) /\ s[2].op = "drop" /\ s[2].ip = s[1].ip
NoFree(s) == \A k \in 1 .. Len(s) : s[k].op # "free"
ListOk(s, c) ==
  s \in Seq(Steps) /\ ListLen(s) /\ ListArgs(s, c) /\ ListEnd(s) /\ ListFree(s)

EntsOk(d) == "ents" \in DOMAIN d /\ d.ents \in [Inum -> [Name -> Inum \cup {0}]]

FilesOk(of) ==
  /\ of \in [Proc -> [1 .. NOFILE -> [ip : Inum \cup {0}, writable : BOOLEAN]]]
  /\ \A p \in Proc, f \in 1 .. NOFILE : of[p][f].writable => of[p][f].ip # 0

FsTypes ==
  /\ EntsOk(disk) /\ EntsOk(durable)
  /\ ref \in [Inum -> Int]
  /\ lock \in [Inum -> Proc \cup {NoProc}]
  /\ cwd \in [Proc -> Inum]
  /\ FilesOk(ofile)
  /\ DOMAIN todo = Proc /\ DOMAIN call = Proc
  /\ \A p \in Proc : ListOk(todo[p], call[p])

\* Whoever holds the lock of an inode has a step to make with it locked.
LockStep(o, i) ==
  \/ o.op \in {"opened", "unlockput", "unlink3", "free"} /\ o.ip = i
  \/ o.op = "unlink2" /\ o.arg = i
LocksHaveSteps ==
  \A i \in Inum : lock[i] # NoProc =>
    \E k \in 1 .. Len(todo[lock[i]]) : LockStep(todo[lock[i]][k], i)

\* Before recovery is over nobody runs.
DownInv ==
  ~up => /\ todo = [p \in Proc |-> <<>>] /\ ref = [i \in Inum |-> 0]
         /\ lock = [i \in Inum |-> NoProc] /\ cwd = [p \in Proc |-> ROOT]
         /\ ofile = [p \in Proc |-> NoFiles]

Shape == FsTypes /\ LocksHaveSteps /\ DownInv
InodeInv == Shape /\ RefExact

\* What a step refers to by its ip and by its arg, and what a list of them counts for.
ByIp(o, i) == o.ip = i /\ o.op \notin {"free", "write"}
ByArg(o, i) == o.arg = i
Same(j, i) == IF j = i THEN 1 ELSE 0
Claim(o, i) == (IF ByIp(o, i) THEN 1 ELSE 0) + (IF ByArg(o, i) THEN 1 ELSE 0)
ClaimAt(s, k, i) == IF k <= Len(s) THEN Claim(s[k], i) ELSE 0
Claims(s, i) ==
  ClaimAt(s, 1, i) + (ClaimAt(s, 2, i) + (ClaimAt(s, 3, i) + (ClaimAt(s, 4, i) + ClaimAt(s, 5, i))))

\* A descriptor of p comes to name k; the current directory of p, or a descriptor of p,
\* comes to name come in place of gone.
FilePut(of, p, f, k, w) == (w => k # 0) /\ of = [ofile EXCEPT ![p][f] = File(k, w)]
Tables(p, gone, come) ==
  \/ gone = 0 /\ come = 0 /\ UNCHANGED <<cwd, ofile>>
  \/ gone = cwd[p] /\ come \in Inum /\ cwd' = [cwd EXCEPT ![p] = come] /\ ofile' = ofile
  \/ /\ cwd' = cwd /\ come \in Inum \cup {0}
     /\ \E f \in 1 .. NOFILE, w \in BOOLEAN : gone = ofile[p][f].ip /\ FilePut(ofile', p, f, come, w)

\* The list of p becomes t, and ref changes by what t and the tables refer to.
Balance(p, t, gone, come) ==
  /\ up' = up /\ todo' = [todo EXCEPT ![p] = t] /\ ref' \in [Inum -> Int] /\ Tables(p, gone, come)
  /\ \A i \in Inum : ref'[i] + (Claims(todo[p], i) + Same(gone, i))
                         = ref[i] + (Same(come, i) + Claims(t, i))
Balanced == \E p \in Proc : \E t, gone, come : Balance(p, t, gone, come)

\* ialloc(), fdalloc() and ireclaim() find the first of the numbers they search for, if
\* there is one.
FirstFound == \A S \in SUBSET Nat : S # {} => Lowest(S) \in S

\* A machine that has just started: each process in the root directory, nothing open.
Fresh ==
  /\ todo = [p \in Proc |-> <<>>] /\ lock = [i \in Inum |-> NoProc]
  /\ cwd = [p \in Proc |-> ROOT] /\ ofile = [p \in Proc |-> NoFiles]
=============================================================================
