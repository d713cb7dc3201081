-------------------------------- MODULE File --------------------------------
(* Open files (file.c), descriptors (sysfile.c) and pipes (pipe.c).  A step is *)
(* what a call does under one lock: ftable.lock for the reference counts, the  *)
(* lock of a pipe from one sleep() to the next.  nread and nwrite wrap at PW,   *)
(* as the code's uint wraps at 2^32.  The inode behind a file is its contents. *)
EXTENDS Console

CONSTANTS
  NFILE,      \* open files in the system
  NOFILE,     \* descriptors of a process
  Pipe,       \* pages for pipes
  PIPESIZE,
  PW          \* width of nread and nwrite, a multiple of PIPESIZE

ASSUME PipeWidthAssumption == PW % PIPESIZE = 0 /\ PW > PIPESIZE

VARIABLES
  ftable,     \* ftable[f]: ref, type, readable, writable, pipe or name, off
  ofile,      \* ofile[p][fd]: the open file, 0 if the descriptor is free
  pipes,      \* pipes[pi]: live, nread, nwrite, readopen, writeopen, data, and
              \* the history cut: a killed writer left bytes and woke nobody
  sent, got,  \* history: bytes written to and read from a pipe
  files       \* the contents of the files on disk, by name

fileVars == <<ftable, ofile, pipes, sent, got, files>>

FileIdx == 1 .. NFILE
Fd == 0 .. NOFILE - 1
NoFile == [ref |-> 0, type |-> "none", readable |-> FALSE, writable |-> FALSE, on |-> <<>>, off |-> 0]
OpenFile(type, r, w, on) ==
  [ref |-> 1, type |-> type, readable |-> r, writable |-> w, on |-> on, off |-> 0]
NoPipe == [live |-> FALSE, nread |-> 0, nwrite |-> 0, readopen |-> FALSE, writeopen |-> FALSE,
           data |-> [i \in 0 .. PIPESIZE - 1 |-> "nul"], cut |-> FALSE]

FileInit ==
  /\ ftable = [f \in FileIdx |-> NoFile]
  /\ ofile = [p \in Proc |-> [fd \in Fd |-> 0]]
  /\ pipes = [pi \in Pipe |-> NoPipe]
  /\ sent = [pi \in Pipe |-> <<>>] /\ got = [pi \in Pipe |-> <<>>]
  /\ files = <<>>

-----------------------------------------------------------------------------
(* Descriptors and the file table *)

FreeFiles == {f \in FileIdx : ftable[f].ref = 0}
FreeFds(p) == {fd \in Fd : ofile[p][fd] = 0}
Opened(p, fd) == fd \in Fd /\ ofile[p][fd] # 0
FileOf(p, fd) == ftable[ofile[p][fd]]
OpenFds(p) == Fd \ FreeFds(p)

\* filealloc(), up to n times, as long as there are files.
Least(a, b) == IF a < b THEN a ELSE b
FirstFiles(n) == SubSeq(SetToSortSeq(FreeFiles, LAMBDA a, b : a < b), 1, Least(n, Cardinality(FreeFiles)))
Taken(fs) == [f \in FileIdx |-> IF f \in Range(fs) THEN [NoFile EXCEPT !.ref = 1] ELSE ftable[f]]

\* sys_open() of what is already looked up: filealloc() and fdalloc().
CanOpen(p) == FreeFiles # {} /\ FreeFds(p) # {}
OpenNew(p, file) ==
  /\ ftable' = [ftable EXCEPT ![Min(FreeFiles)] = file]
  /\ ofile' = [ofile EXCEPT ![p][Min(FreeFds(p))] = Min(FreeFiles)]

\* sys_dup()
CanDup(p, fd) == Opened(p, fd) /\ FreeFds(p) # {}
DupFd(p, fd) ==
  /\ ftable' = [ftable EXCEPT ![ofile[p][fd]].ref = @ + 1]
  /\ ofile' = [ofile EXCEPT ![p][Min(FreeFds(p))] = ofile[p][fd]]

\* The file part of kfork(): filedup() of every open file.
ForkFiles_mut(p, q) ==
  /\ ofile' = [ofile EXCEPT ![q] = ofile[p]]
  /\ ftable' = [f \in FileIdx |->
       [ftable[f] EXCEPT !.ref = @ + (IF \E fd \in Fd : ofile[p][fd] = f THEN 1 ELSE 0)]]
ForkFiles(p, q) ==
  /\ ofile' = [ofile EXCEPT ![q] = ofile[p]]
  /\ ftable' = [f \in FileIdx |->
       [ftable[f] EXCEPT !.ref = @ + Cardinality({fd \in Fd : ofile[p][fd] = f})]]

\* fileclose() up to the release of ftable.lock; the end of a pipe is closed in
\* a step of its own, and then the file entry may already be in use again.
FileClose(f) ==
  ftable' = [ftable EXCEPT ![f] = IF @.ref = 1 THEN NoFile ELSE [@ EXCEPT !.ref = @ - 1]]
ClosesPipe(f) == ftable[f].ref = 1 /\ ftable[f].type = "pipe"

-----------------------------------------------------------------------------
(* Pipes *)

ReadChan(pi) == <<"nread", pi>>
WriteChan(pi) == <<"nwrite", pi>>
FreePipes == {pi \in Pipe : ~pipes[pi].live}

\* pipealloc(), with the two files that it has.
CanAlloc == Cardinality(FreeFiles) >= 2 /\ FreePipes # {}
PipeAlloc(fs) ==
  LET pi == Min(FreePipes) IN
  /\ pipes' = [pipes EXCEPT ![pi] = [NoPipe EXCEPT !.live = TRUE, !.readopen = TRUE, !.writeopen = TRUE]]
  /\ ftable' = [ftable EXCEPT ![fs[1]] = OpenFile("pipe", TRUE, FALSE, pi),
                              ![fs[2]] = OpenFile("pipe", FALSE, TRUE, pi)]
  /\ sent' = [sent EXCEPT ![pi] = <<>>] /\ got' = [got EXCEPT ![pi] = <<>>]

\* The two descriptors of sys_pipe().
TwoFds(p) == Cardinality(FreeFds(p)) >= 2
Second(S) == Min(S \ {Min(S)})
PipeFds(p, fs) ==
  ofile' = [ofile EXCEPT ![p][Min(FreeFds(p))] = fs[1], ![p][Second(FreeFds(p))] = fs[2]]

\* pipeclose(): the last end frees the page.
Closed(pi, writable) ==
  LET c == IF writable THEN [pipes[pi] EXCEPT !.writeopen = FALSE]
           ELSE [pipes[pi] EXCEPT !.readopen = FALSE]
  IN IF ~c.readopen /\ ~c.writeopen THEN NoPipe ELSE c
PipeClose(pi, writable) ==
  /\ pipes' = [pipes EXCEPT ![pi] = Closed(pi, writable)]
  /\ chan' = WakeUp(IF writable THEN ReadChan(pi) ELSE WriteChan(pi))

Held(pi) == (pipes[pi].nwrite + PW - pipes[pi].nread) % PW
IsFull(pi) == pipes[pi].nwrite = (pipes[pi].nread + PIPESIZE) % PW
IsEmpty(pi) == pipes[pi].nread = pipes[pi].nwrite
Room_mut(pi) == PIPESIZE + 1 - Held(pi)
Room(pi) == PIPESIZE - Held(pi)
Content(pi) == [i \in 1 .. Held(pi) |-> pipes[pi].data[(pipes[pi].nread + i - 1) % PIPESIZE]]

\* pipewrite() of bytes until the pipe is full or all are written; cut says
\* that it leaves without the wakeup() of the readers.
WokenByWrite(pi) == WakeUp(ReadChan(pi))
PipePut(pi, bytes, cut) ==
  LET n == Least(Len(bytes), Room(pi))
      w == pipes[pi].nwrite
  IN /\ pipes' = [pipes EXCEPT
          ![pi].data = [i \in DOMAIN @ |->
             IF \E k \in 1 .. n : (w + k - 1) % PIPESIZE = i
             THEN bytes[CHOOSE k \in 1 .. n : (w + k - 1) % PIPESIZE = i] ELSE @[i]],
          ![pi].nwrite = (w + n) % PW, ![pi].cut = cut]
     /\ sent' = [sent EXCEPT ![pi] = @ \o SubSeq(bytes, 1, n)]

\* piperead() of up to n bytes from a pipe that is not empty or has no writer.
Readable(pi, n) == SubSeq(Content(pi), 1, Least(n, Held(pi)))
PipeGet(pi, n) ==
  /\ pipes' = [pipes EXCEPT ![pi].nread = (@ + Len(Readable(pi, n))) % PW]
  /\ got' = [got EXCEPT ![pi] = @ \o Readable(pi, n)]
  /\ chan' = WakeUp(WriteChan(pi))

-----------------------------------------------------------------------------
(* Properties *)

\* A pipe delivers what was written, in order, nothing lost and nothing twice,
\* with a full and an empty buffer, counters that wrap, writers that are killed
\* between two bytes and ends that close at any moment (pipewrite, piperead).
PipeInOrder ==
  \A pi \in Pipe : pipes[pi].live => /\ Held(pi) <= PIPESIZE
                                     /\ got[pi] \o Content(pi) = sent[pi]
=============================================================================
