------------------------------- MODULE MCShell -------------------------------
(* One shell and the commands of a typed line.  c is cat, e is echo, nl ends a *)
(* line, D, H and U are control characters.  Process 2 is the shell, 3 the     *)
(* child that runs the line, 4 and 5 the two sides of its pipe.                *)
EXTENDS Shell

Type(line, early, pids) == [keys |-> line, ahead |-> early, kills |-> pids]
CatTillEof == Type(<<"c", "nl", "D">>, 0, {3})
Typed ==
  {CatTillEof,
   Type(<<"e", " ", "a", ";", "e", "nl">>, 0, {3}),
   Type(<<"e", " ", "a", "a", "|", "c", "nl">>, 0, {4}),
   Type(<<"e", "|", "c", "nl">>, 0, {5}),
   Type(<<"e", " ", "a", "a", "a", "|", "c", "nl">>, 0, {}),
   Type(<<"e", " ", "a", "a", "a", "|", "e", "|", "e", "nl">>, 0, {}),
   Type(<<"e", ">", "f", "|", "e", "nl">>, 0, {}),
   Type(<<"e", " ", "a", "&", "nl">>, 2, {}),
   Type(<<"e", " ", "a", ">", "f", ";", "c", " ", "f", "nl">>, 1, {}),
   Type(<<"(", "e", " ", "a", ";", "e", " ", "f", ")", ">", "f", "nl">>, 1, {}),
   Type(<<"a", "H", "c", "U", "H", "e", "nl", "D">>, 4, {}),
   Type(<<"|", ")", "nl", "nl", "c", "d", " ", "f", "nl">>, 1, {}),
   Type(<<"c", " ", "f", "nl", "f", "nl">>, 5, {})}

\* Before the system starts, every line of up to MaxLine characters is built
\* up in probe, for the parser.
CONSTANT MaxLine
VARIABLE probe
Chars == {"a", " ", "|", ";", "&", "(", ")", ">", "<"}
Probe ==
  /\ typed = CatTillEof.keys /\ prog[INIT] = InitMain
  /\ Len(probe) < MaxLine /\ \E c \in Chars : probe' = Append(probe, c)
  /\ UNCHANGED vars
Run == probe = <<>> /\ Next /\ UNCHANGED probe
MCInit == Init /\ probe = <<>>
MCSpec == MCInit /\ [][Probe \/ Run]_<<vars, probe>>

\* The shell's parser builds for every line the command that the grammar gives
\* it, and reports an error for exactly the lines outside the grammar: the
\* precedence of |, & and ;, redirections before, between and after words and
\* around blocks, empty commands, MAXARGS (parsecmd).
ParserMatchesGrammar == prog[INIT] = InitMain => ParsedAsMeant(probe)
=============================================================================
