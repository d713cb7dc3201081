-------------------------------- MODULE Shell --------------------------------
(* init, the shell and the commands it runs (init.c, sh.c, cat.c, echo.c) on   *)
(* the open files, pipes and console of the kernel.                            *)
(*                                                                             *)
(* A process is the list of the calls it has still to make (prog); runcmd()    *)
(* turns a parsed command into such a list.  A process slot stands for its pid; *)
(* fork, exit and wait are one step each here (Proc has their interleavings),   *)
(* except that exit closes one descriptor after the other.                     *)
EXTENDS File, ShParse

CONSTANTS
  BUF,        \* bytes cat reads at once
  MAXFILE     \* bytes of the largest file

VARIABLES
  state,      \* "unused", "live" or "zombie"
  parent,
  killed,
  prog,       \* prog[p]: the calls p has still to make
  kills       \* the pids of the kill() calls still to come

procVars == <<state, parent, killed, kills>>
vars == <<consoleVars, fileVars, procVars, prog>>

INIT == 1
WaitChan(p) == <<"wait", p>>

-----------------------------------------------------------------------------
(* Programs *)

\* fd and arg are the arguments of the call; begun once it has slept, and then
\* part is what it has read before it slept.
Do(op, fd, arg) == [op |-> op, fd |-> fd, arg |-> arg, part |-> <<>>, begun |-> FALSE]
Close(fd) == Do("close", fd, <<>>)
Dup(fd) == Do("dup", fd, <<>>)
Open(file, tok) == Do("open", 0, [name |-> file, tok |-> tok])
Fork(child) == Do("fork", 0, child)
Wait == Do("wait", 0, <<>>)
Exit == Do("exit", 0, <<>>)
EndPipe(pi, writable) == [Do("pipeclose", pi, writable) EXCEPT !.begun = TRUE]
\* fileclose() of the files that a failing call had taken.
GiveBack(fs) == [i \in DOMAIN fs |-> [Do("fileclose", fs[i], <<>>) EXCEPT !.begun = TRUE]]
Write(fd, bytes) == Do("write", fd, bytes)
\* cat gives up when write() fails.
CatWrite(bytes) == Do("catwrite", 1, bytes)
Cat(fd) == Do("cat", fd, <<>>)
Gets(line) == Do("gets", 0, line)

\* A message to the user; panic() in sh.c and the error exits of cat and init.
Message == Write(2, <<"m">>)
Fails == <<Message, Exit>>

\* exec() of cat and echo; nothing else is there.
CatFiles(names) == [i \in DOMAIN names |-> Do("catfile", 0, names[i])]
Echo(words) ==
  FlattenSeq([i \in DOMAIN words |->
    <<Write(1, words[i]), Write(1, <<IF i < Len(words) THEN " " ELSE "nl">>)>>])
Program(argv) ==
  IF argv = <<>> THEN <<Exit>>
  ELSE CASE argv[1] = <<"c">> -> (IF Len(argv) = 1 THEN <<Cat(0)>> ELSE CatFiles(Tail(argv))) \o <<Exit>>
         [] argv[1] = <<"e">> -> Echo(Tail(argv)) \o <<Exit>>
         [] OTHER -> Fails

\* runcmd()
RedirFd(tok) == IF tok = "<" THEN 0 ELSE 1
RECURSIVE RunCmd(_)
RunCmd(c) ==
  CASE c.type = "EXEC"  -> Program(c.argv)
    [] c.type = "REDIR" -> <<Close(RedirFd(c.tok)), Open(c.file, c.tok)>> \o RunCmd(c.cmd)
    [] c.type = "LIST"  -> <<Fork(RunCmd(c.left)), Wait>> \o RunCmd(c.right)
    [] c.type = "PIPE"  -> <<Do("pipe", 0, c)>>
    [] c.type = "BACK"  -> <<Fork(RunCmd(c.cmd)), Exit>>
RunPipe_mut(c, p0, p1) ==
  <<Fork(<<Close(1), Dup(p1), Close(p0), Close(p1)>> \o RunCmd(c.left)),
    Fork(<<Close(0), Dup(p0), Close(p0), Close(p1)>> \o RunCmd(c.right)),
    Close(p0), Wait, Wait, Exit>>
RunPipe(c, p0, p1) ==
  <<Fork(<<Close(1), Dup(p1), Close(p0), Close(p1)>> \o RunCmd(c.left)),
    Fork(<<Close(0), Dup(p0), Close(p0), Close(p1)>> \o RunCmd(c.right)),
    Close(p0), Close(p1), Wait, Wait, Exit>>
RunParsed(a) == IF a.s = 0 THEN Fails ELSE RunCmd(a.cmd)
Parsed(line) == RunParsed(ParseCmd(line))

\* main() of sh: three descriptors, then a line after the other.
ShLoop == <<Write(2, <<"$">>), Gets(<<>>)>>
ShMain == <<Do("consoles", 0, <<>>)>> \o ShLoop
ShCmd(line, cmd) ==
  IF line = <<>> THEN <<Exit>>
  ELSE IF CharAt(cmd, 1) = "nl" THEN ShLoop
  ELSE IF IsPrefix(<<"c", "d", " ">>, cmd) THEN <<Do("chdir", 0, <<>>)>> \o ShLoop
  ELSE <<Fork(Parsed(cmd)), Wait>> \o ShLoop
ShLine(line) ==
  ShCmd(line, SubSeq(line, Min({k \in 1 .. Len(line) + 1 : CharAt(line, k) # " "}), Len(line)))

\* main() of init: the console as 0, 1 and 2, then one shell after the other.
InitLoop == <<Write(1, <<"m">>), Fork(ShMain), Do("initwait", 0, 0)>>
InitMain == <<Do("console", 0, <<>>), Dup(0), Dup(0)>> \o InitLoop

-----------------------------------------------------------------------------

Init ==
  /\ ConsoleInit /\ FileInit
  /\ state = [p \in Proc |-> IF p = INIT THEN "live" ELSE "unused"]
  /\ parent = [p \in Proc |-> INIT] /\ killed = [p \in Proc |-> FALSE]
  /\ \E s \in Scripts : typed = s.keys /\ ahead = s.ahead /\ kills = s.kills
  /\ prog = [p \in Proc |-> IF p = INIT THEN InitMain ELSE <<>>]

Op(p) == Head(prog[p])
Awake(p) == state[p] = "live" /\ chan[p] = NoChan
\* A killed process makes no further call; one it is in goes on.
At(p, op) == Op(p).op = op /\ (killed[p] => Op(p).begun \/ op = "exit")
\* ops come in the place of the call that is done.
Then(p, ops) == prog' = [prog EXCEPT ![p] = ops \o Tail(@)]
Becomes(p, ops) == prog' = [prog EXCEPT ![p] = ops]
\* The call goes to sleep in c, with this much read.
Sleeps(p, part) == prog' = [prog EXCEPT ![p][1].begun = TRUE, ![p][1].part = part]
StaysWith(p, arg) == prog' = [prog EXCEPT ![p][1].begun = TRUE, ![p][1].arg = arg]

\* kill(), of anybody but init and the shell, up to the wakeup.
Marks(p) ==
  /\ p \in kills /\ kills' = kills \ {p}
  /\ killed' = [killed EXCEPT ![p] = TRUE]
\* sleep(c, lk) of a call that killed() has just allowed to go on.  killed() has
\* released p->lock, so a kill() on another CPU may still come before sleep()
\* takes it: it finds p RUNNING and wakes nobody.  Nothing else that matters to
\* p can happen in between, because lk is held.
SleepOn(p, ch, c) ==
  /\ chan' = [ch EXCEPT ![p] = c]
  /\ UNCHANGED <<killed, kills>> \/ Marks(p)

quiet == <<device, driver, user, ghosts>>
onlyProg == <<consoleVars, fileVars, procVars>>

-----------------------------------------------------------------------------
(* Calls that make and drop descriptors *)

\* open("console"): init's first, and those of the shell's loop.
OpenConsole(p) ==
  /\ At(p, "console") \/ At(p, "consoles")
  /\ IF CanOpen(p)
     THEN LET fd == Min(FreeFds(p)) IN
          /\ OpenNew(p, OpenFile("device", TRUE, TRUE, <<>>))
          /\ IF Op(p).op = "console" THEN Then(p, <<>>)
             ELSE IF fd >= 3 THEN Then(p, <<Close(fd)>>) ELSE prog' = prog
     ELSE Then(p, <<>>) /\ UNCHANGED <<ftable, ofile>>
  /\ UNCHANGED <<consoleVars, pipes, sent, got, files, procVars>>

\* open() for a redirection and in cat.  O_CREATE has made the file before
\* filealloc() or fdalloc() can fail; O_TRUNC comes after them.
OpenName(p) ==
  LET isCat == Op(p).op = "catfile"
      name == IF isCat THEN Op(p).arg ELSE Op(p).arg.name
      tok == IF isCat THEN "<" ELSE Op(p).arg.tok
      fd == Min(FreeFds(p))
      found == tok # "<" \/ name \in DOMAIN files
      made == IF name \in DOMAIN files THEN files ELSE (name :> <<>>) @@ files
  IN /\ At(p, "open") \/ At(p, "catfile")
     /\ IF found /\ CanOpen(p)
        THEN /\ OpenNew(p, OpenFile("inode", tok = "<", tok # "<", name))
             /\ Then(p, IF isCat THEN <<Cat(fd), Close(fd)>> ELSE <<>>)
             /\ files' = IF tok = ">" THEN (name :> <<>>) @@ files ELSE made
        ELSE IF found
        THEN /\ ftable' = Taken(FirstFiles(1)) /\ files' = made /\ ofile' = ofile
             /\ Becomes(p, GiveBack(FirstFiles(1)) \o Fails)
        ELSE Becomes(p, Fails) /\ UNCHANGED <<ftable, ofile, files>>
     /\ UNCHANGED <<consoleVars, pipes, sent, got, procVars>>

DupCall(p) ==
  /\ At(p, "dup") /\ Then(p, <<>>)
  /\ IF CanDup(p, Op(p).fd) THEN DupFd(p, Op(p).fd) ELSE UNCHANGED <<ftable, ofile>>
  /\ UNCHANGED <<consoleVars, pipes, sent, got, files, procVars>>

\* What fileclose() leaves to do once it has released ftable.lock.
Ends(f) == IF ClosesPipe(f) THEN <<EndPipe(ftable[f].on, ftable[f].writable)>> ELSE <<>>

\* close(), and what exit() does with every descriptor.
CloseCall(p) ==
  LET fd == IF Op(p).op = "exit" THEN Min(OpenFds(p)) ELSE Op(p).fd
      last == IF Op(p).op = "exit" THEN <<Exit>> ELSE <<>>
  IN /\ At(p, "close") \/ (At(p, "exit") /\ OpenFds(p) # {})
     /\ IF Opened(p, fd)
        THEN /\ ofile' = [ofile EXCEPT ![p][fd] = 0] /\ FileClose(ofile[p][fd])
             /\ Then(p, Ends(ofile[p][fd]) \o last)
        ELSE Then(p, last) /\ UNCHANGED <<ftable, ofile>>
     /\ UNCHANGED <<consoleVars, pipes, sent, got, files, procVars>>

\* fileclose() of a file without a descriptor.
GiveBackCall(p) ==
  /\ At(p, "fileclose")
  /\ FileClose(Op(p).fd) /\ Then(p, Ends(Op(p).fd))
  /\ UNCHANGED <<consoleVars, ofile, pipes, sent, got, files, procVars>>

EndPipeCall(p) ==
  /\ At(p, "pipeclose") /\ Then(p, <<>>)
  /\ PipeClose(Op(p).fd, Op(p).arg)
  /\ UNCHANGED <<quiet, ftable, ofile, sent, got, files, procVars>>

\* sys_pipe(): files, a page, descriptors; when something is missing the files
\* go back one after the other, and with them the ends of the pipe.
PipeCall(p) ==
  LET fs == FirstFiles(2) IN
  /\ At(p, "pipe")
  /\ IF CanAlloc THEN PipeAlloc(fs) ELSE ftable' = Taken(fs) /\ UNCHANGED <<pipes, sent, got>>
  /\ IF CanAlloc /\ TwoFds(p)
     THEN PipeFds(p, fs) /\ Then(p, RunPipe(Op(p).arg, Min(FreeFds(p)), Second(FreeFds(p))))
     ELSE ofile' = ofile /\ Becomes(p, GiveBack(fs) \o Fails)
  /\ UNCHANGED <<consoleVars, files, procVars>>

-----------------------------------------------------------------------------
(* read() and write() *)

AtRead(p, type) ==
  /\ At(p, "cat") \/ At(p, "gets")
  /\ Opened(p, Op(p).fd) /\ FileOf(p, Op(p).fd).readable /\ FileOf(p, Op(p).fd).type = type
Count(p) == IF Op(p).op = "cat" THEN BUF ELSE 1

\* gets() ends with the line or the input.
HasGot(bytes, line) == IF bytes = <<>> \/ Last(line) = "nl" THEN ShLine(line) ELSE <<Gets(line)>>
\* cat writes what it has read; gets() goes on to the end of the line.
HasRead(p, bytes) ==
  IF Op(p).op = "cat"
  THEN Then(p, IF bytes = <<>> THEN <<>> ELSE <<CatWrite(bytes), Cat(Op(p).fd)>>)
  ELSE Becomes(p, HasGot(bytes, Op(p).arg \o bytes))
ReadFails(p) == IF Op(p).op = "cat" THEN Becomes(p, Fails) ELSE Becomes(p, ShLine(Op(p).arg))

ReadBad(p) ==
  /\ At(p, "cat") \/ At(p, "gets")
  /\ Opened(p, Op(p).fd) => ~FileOf(p, Op(p).fd).readable
  /\ ReadFails(p) /\ UNCHANGED onlyProg

\* readi() of n bytes at off, of what the inode has.
Readi(data, off, n) ==
  IF off > Len(data) THEN <<>> ELSE SubSeq(data, off + 1, Least(Len(data), off + n))
FileRead(p, f, bytes) ==
  /\ ftable' = [ftable EXCEPT ![f].off = @ + Len(bytes)]
  /\ HasRead(p, bytes)
ReadFile(p) ==
  LET f == FileOf(p, Op(p).fd) IN
  /\ AtRead(p, "inode")
  /\ FileRead(p, ofile[p][Op(p).fd], Readi(files[f.on], f.off, Count(p)))
  /\ UNCHANGED <<consoleVars, ofile, pipes, sent, got, files, procVars>>

ConsoleRead(p, r) ==
  /\ cons' = [cons EXCEPT !.r = r.r]
  /\ taken' = taken \o Between(cons.r, r.r)
  /\ IF r.done THEN HasRead(p, r.got) /\ UNCHANGED <<chan, killed, kills>>
     ELSE IF killed[p] THEN ReadFails(p) /\ UNCHANGED <<chan, killed, kills>>
     ELSE Sleeps(p, r.got) /\ SleepOn(p, chan, ConsChan)
  /\ UNCHANGED <<device, consLock, txBusy, hand, echo, user, keys, lost, fileVars, state, parent>>
ReadConsole(p) ==
  /\ AtRead(p, "device") /\ ~consLock
  /\ ConsoleRead(p, ConsRead(cons.r, Op(p).part, Count(p)))

ReadPipe(p) ==
  LET pi == FileOf(p, Op(p).fd).on IN
  /\ AtRead(p, "pipe")
  /\ IF IsEmpty(pi) /\ pipes[pi].writeopen
     THEN /\ IF killed[p] THEN ReadFails(p) /\ UNCHANGED <<chan, killed, kills>>
             ELSE Sleeps(p, <<>>) /\ SleepOn(p, chan, ReadChan(pi))
          /\ UNCHANGED <<pipes, got>>
     ELSE PipeGet(pi, Count(p)) /\ HasRead(p, Readable(pi, Count(p))) /\ UNCHANGED <<killed, kills>>
  /\ UNCHANGED <<quiet, ftable, ofile, sent, files, state, parent>>

AtWrite(p, type) ==
  /\ At(p, "write") \/ At(p, "catwrite")
  /\ Opened(p, Op(p).fd) /\ FileOf(p, Op(p).fd).writable /\ FileOf(p, Op(p).fd).type = type
WriteFails(p) == IF Op(p).op = "catwrite" THEN Becomes(p, Fails) ELSE Then(p, <<>>)

WriteBad(p) ==
  /\ At(p, "write") \/ At(p, "catwrite")
  /\ Opened(p, Op(p).fd) => ~FileOf(p, Op(p).fd).writable
  /\ WriteFails(p) /\ UNCHANGED onlyProg

\* writei() at off, with the inode locked; it refuses to leave a hole or to
\* exceed the largest file.
CanWritei(data, off, bytes) == off <= Len(data) /\ off + Len(bytes) <= MAXFILE
Writei(data, off, bytes) ==
  SubSeq(data, 1, off) \o bytes \o SubSeq(data, off + Len(bytes) + 1, Len(data))
WriteFile(p) ==
  LET f == FileOf(p, Op(p).fd)
      bytes == Op(p).arg
  IN /\ AtWrite(p, "inode")
     /\ IF CanWritei(files[f.on], f.off, bytes)
        THEN /\ Then(p, <<>>)
             /\ files' = [files EXCEPT ![f.on] = Writei(@, f.off, bytes)]
             /\ ftable' = [ftable EXCEPT ![ofile[p][Op(p).fd]].off = @ + Len(bytes)]
        ELSE WriteFails(p) /\ UNCHANGED <<files, ftable>>
     /\ UNCHANGED <<consoleVars, ofile, pipes, sent, got, procVars>>

WriteConsole(p) ==
  /\ AtWrite(p, "device")
  /\ UartPut(p)
  /\ IF txBusy THEN StaysWith(p, Op(p).arg)
     ELSE IF Len(Op(p).arg) = 1 THEN Then(p, <<>>)
     ELSE StaysWith(p, Tail(Op(p).arg))
  /\ UNCHANGED <<fileVars, procVars>>

\* pipewrite() asks killed() before every byte: a kill() on another CPU makes it
\* return after some of them, and then it wakes no reader.
WritePipe(p) ==
  LET pi == FileOf(p, Op(p).fd).on
      bytes == Op(p).arg
      left == SubSeq(bytes, Room(pi) + 1, Len(bytes))
  IN /\ AtWrite(p, "pipe")
     /\ IF ~pipes[pi].readopen \/ killed[p]
        THEN WriteFails(p) /\ UNCHANGED <<pipes, sent, chan, killed, kills>>
        ELSE \/ /\ PipePut(pi, bytes, FALSE)
                /\ IF left = <<>>
                   THEN Then(p, <<>>) /\ chan' = WokenByWrite(pi) /\ UNCHANGED <<killed, kills>>
                   ELSE StaysWith(p, left) /\ SleepOn(p, WokenByWrite(pi), WriteChan(pi))
             \/ /\ \E k \in 1 .. Least(Room(pi), Len(bytes) - 1) : PipePut(pi, SubSeq(bytes, 1, k), TRUE)
                /\ Marks(p) /\ WriteFails(p) /\ chan' = chan
     /\ UNCHANGED <<quiet, ftable, ofile, got, files, state, parent>>

-----------------------------------------------------------------------------
(* Processes *)

\* cd in the shell: chdir() may fail.
ChdirCall(p) ==
  /\ At(p, "chdir") /\ (Then(p, <<>>) \/ Then(p, <<Message>>))
  /\ UNCHANGED onlyProg

Unused == {q \in Proc : state[q] = "unused"}
ForkCall(p) ==
  LET q == Min(Unused) IN
  /\ At(p, "fork")
  /\ IF Unused = {}
     THEN Becomes(p, Fails) /\ UNCHANGED <<state, parent, ofile, ftable>>
     ELSE /\ prog' = [prog EXCEPT ![q] = Op(p).arg,
                                  ![p] = IF p = INIT THEN <<Do("initwait", 0, q)>> ELSE Tail(@)]
          /\ state' = [state EXCEPT ![q] = "live"] /\ parent' = [parent EXCEPT ![q] = p]
          /\ ForkFiles(p, q)
  /\ UNCHANGED <<consoleVars, pipes, sent, got, files, killed, kills>>

Children(p) == {q \in Proc \ {INIT} : state[q] # "unused" /\ parent[q] = p}
Dead(p) == {q \in Children(p) : state[q] = "zombie"}
WaitCall(p) ==
  LET q == Min(Dead(p)) IN
  /\ At(p, "wait") \/ At(p, "initwait")
  /\ IF Dead(p) # {}
     THEN /\ state' = [state EXCEPT ![q] = "unused"] /\ killed' = [killed EXCEPT ![q] = FALSE]
          /\ IF p # INIT THEN Then(p, <<>>)
             ELSE IF q = Op(p).arg THEN Becomes(p, InitLoop) ELSE prog' = prog
          /\ UNCHANGED <<chan, kills>>
     ELSE /\ IF Children(p) = {} \/ killed[p]
             THEN (IF p = INIT THEN Becomes(p, Fails) ELSE Then(p, <<>>)) /\ UNCHANGED <<chan, killed, kills>>
             ELSE Sleeps(p, <<>>) /\ SleepOn(p, chan, WaitChan(p))
          /\ UNCHANGED state
  /\ UNCHANGED <<quiet, fileVars, parent>>

ExitCall(p) ==
  /\ At(p, "exit") /\ OpenFds(p) = {}
  /\ state' = [state EXCEPT ![p] = "zombie"]
  /\ parent' = [q \in Proc |-> IF q \in Children(p) THEN INIT ELSE parent[q]]
  /\ chan' = [q \in Proc |->
       IF chan[q] = WaitChan(parent[p]) \/ (chan[q] = WaitChan(INIT) /\ Children(p) # {})
       THEN NoChan ELSE chan[q]]
  /\ prog' = [prog EXCEPT ![p] = <<>>]
  /\ UNCHANGED <<quiet, fileVars, killed, kills>>

\* usertrap(): a killed process exits instead of making or returning from a call.
Die(p) ==
  /\ killed[p] /\ ~Op(p).begun /\ Op(p).op # "exit"
  /\ Becomes(p, <<Exit>>) /\ UNCHANGED onlyProg

\* kill() by somebody.
Kill(p) ==
  /\ state[p] = "live" /\ Marks(p)
  /\ chan' = [chan EXCEPT ![p] = NoChan]
  /\ UNCHANGED <<quiet, fileVars, state, parent, prog>>

Process(p) ==
  \/ OpenConsole(p) \/ OpenName(p) \/ DupCall(p) \/ CloseCall(p) \/ GiveBackCall(p)
  \/ EndPipeCall(p) \/ PipeCall(p)
  \/ ReadBad(p) \/ ReadFile(p) \/ ReadConsole(p) \/ ReadPipe(p)
  \/ WriteBad(p) \/ WriteFile(p) \/ WriteConsole(p) \/ WritePipe(p)
  \/ ChdirCall(p) \/ ForkCall(p) \/ WaitCall(p) \/ ExitCall(p) \/ Die(p)

Device == (DeviceSent \/ DeviceKey \/ Interrupt) /\ UNCHANGED <<fileVars, procVars, prog>>

Next == Device \/ \E p \in Proc : (Awake(p) /\ Process(p)) \/ Kill(p)

Spec == Init /\ [][Next]_vars

-----------------------------------------------------------------------------
(* Properties *)

\* Somebody has this end of the pipe open, or is on the way to pipeclose().
HasEnd(pi, writable) ==
  \/ \E f \in FileIdx : ftable[f].type = "pipe" /\ ftable[f].on = pi /\ ftable[f].writable = writable
  \/ \E p \in Proc : /\ prog[p] # <<>> /\ Op(p).op = "pipeclose"
                     /\ Op(p).fd = pi /\ Op(p).arg = writable

\* f->ref counts the descriptors of all processes, and the files that a call
\* which fails is about to give back, through fork, dup, close, exit, kill and a
\* full file table; and a pipe's ends are open exactly as long as a file, or a
\* close in progress, can still reach them: the page is neither freed under a
\* user nor left behind (fileclose, pipeclose, sys_pipe).
DescriptorsCounted ==
  /\ LET giving == {p \in Proc : prog[p] # <<>> /\ Op(p).op = "fileclose"}
         back(p) == SelectSeq(prog[p], LAMBDA o : o.op = "fileclose")
     IN \A f \in FileIdx :
          ftable[f].ref = Cardinality({x \in Proc \X Fd : ofile[x[1]][x[2]] = f})
                          + Cardinality({p \in giving : \E o \in Range(back(p)) : o.fd = f})
  /\ \A pi \in Pipe : /\ pipes[pi].readopen = HasEnd(pi, FALSE)
                      /\ pipes[pi].writeopen = HasEnd(pi, TRUE)

\* No wakeup is lost: whoever sleeps in piperead, pipewrite, consoleread,
\* uartwrite or wait still has nothing to do, and for the UART an interrupt is
\* on its way.  Keys, echoes, exits, closes and kills come at any moment.  What
\* the code does not guarantee on several CPUs: that nobody who is killed sleeps
\* (SleepOn), and that a reader is woken for the bytes of a writer that was
\* killed in the middle of pipewrite().
SleepersHaveReason ==
  \A p \in Proc :
    /\ \A pi \in Pipe : /\ chan[p] = ReadChan(pi) => (IsEmpty(pi) \/ pipes[pi].cut) /\ pipes[pi].writeopen
                        /\ chan[p] = WriteChan(pi) => IsFull(pi) /\ pipes[pi].readopen
    /\ chan[p] = ConsChan => cons.r = cons.w
    /\ chan[p] = TxChan => txBusy /\ (thr > 0 \/ irq \/ hand = "ack")
    /\ chan[p] = WaitChan(p) => Children(p) # {} /\ Dead(p) = {}

\* The shell comes back: whatever was typed, with the input of the commands
\* ended by ^D, and whoever is killed at whatever moment, when nothing moves any
\* more there are only init and a shell that waits for the next line.  A pipe end
\* left open, or a missed exit, would leave a command behind; a kill that comes
\* too late to end a sleep is not lost, because what is waited for comes.
AtRest ==
  /\ \A p \in Proc : state[p] = "live" => chan[p] # NoChan
  /\ thr = 0 /\ ~irq /\ hand = "idle" /\ typed = <<>>
RestsAtPrompt ==
  AtRest => lost \/ \A p \in Proc \ {INIT} : state[p] # "unused" => Op(p).op = "gets"
=============================================================================
