------------------------------- MODULE ShParse -------------------------------
(* The shell's parser (sh.c), on the characters of a line, and the grammar it *)
(* is checked against.  A parsing function takes the line and a position and  *)
(* returns what it built and the position it has reached; position 0 stands   *)
(* for panic().                                                               *)
EXTENDS Integers, SequencesExt

CONSTANT MAXARGS   \* size of argv

White == {" ", "nl"}
Symbols == {"<", "|", ">", "&", ";", "(", ")"}

CharAt(l, s) == IF s <= Len(l) THEN l[s] ELSE "nul"
Skip(l, s) == Min({k \in s .. Len(l) + 1 : CharAt(l, k) \notin White})

\* gettoken(): the token that starts at q and ends before eq, its characters,
\* and the position after the white space that follows.
IsAppend(l, q) == CharAt(l, q) = ">" /\ CharAt(l, q + 1) = ">"
TokenEnd(l, q) ==
  IF q > Len(l) THEN q
  ELSE IF IsAppend(l, q) THEN q + 2
  ELSE IF l[q] \in Symbols THEN q + 1
  ELSE Min({k \in q .. Len(l) + 1 : CharAt(l, k) \in White \cup Symbols \cup {"nul"}})
\* nulterminate() ends the word at eq.
Word(l, q, eq) == SubSeq(l, q, eq - 1)
Token(l, q, eq) ==
  [tok |-> IF IsAppend(l, q) THEN "+" ELSE IF CharAt(l, q) \in Symbols \cup {"nul"} THEN CharAt(l, q) ELSE "a",
   word |-> Word(l, q, eq), s |-> Skip(l, eq)]
TokenAt(l, q) == Token(l, q, TokenEnd(l, q))
GetToken(l, s) == TokenAt(l, Skip(l, s))

Peek(l, s, toks) == CharAt(l, Skip(l, s)) \in toks

\* The constructors.
Exec(argv) == [type |-> "EXEC", argv |-> argv]
Redir(cmd, file, tok) == [type |-> "REDIR", cmd |-> cmd, file |-> file, tok |-> tok]
PipeCmd(l, r) == [type |-> "PIPE", left |-> l, right |-> r]
ListCmd(l, r) == [type |-> "LIST", left |-> l, right |-> r]
BackCmd(c) == [type |-> "BACK", cmd |-> c]

Panic == [cmd |-> Exec(<<>>), s |-> 0]
Built(cmd, s) == [cmd |-> cmd, s |-> s]
\* A later redirection encloses an earlier one.
Enclosed(cmd, redirs) == FoldLeft(LAMBDA c, f : Redir(c, f.word, f.tok), cmd, redirs)

\* parseredirs(): the redirections from position r.s on, after those in r.
RECURSIVE ParseRedirs(_, _)
RedirTo(l, r, tok, f) ==
  IF f.tok # "a" THEN [redirs |-> <<>>, s |-> 0]
  ELSE ParseRedirs(l, [redirs |-> Append(r.redirs, [word |-> f.word, tok |-> tok]), s |-> f.s])
RedirFrom(l, r, t) == RedirTo(l, r, t.tok, GetToken(l, t.s))
ParseRedirs(l, r) ==
  IF Peek(l, r.s, {"<", ">"}) THEN RedirFrom(l, r, GetToken(l, r.s)) ELSE r
NoRedirs(s) == [redirs |-> <<>>, s |-> s]

\* The loop of parseexec() with argv and the redirections so far.
RECURSIVE ParseArgs(_, _, _)
NextArg(l, argv, r, t) ==
  IF t.tok = "nul" THEN Built(Enclosed(Exec(argv), r.redirs), r.s)
  ELSE IF t.tok # "a" \/ Len(argv) + 1 >= MAXARGS THEN Panic
  ELSE ParseArgs(l, Append(argv, t.word), ParseRedirs(l, [r EXCEPT !.s = t.s]))
ParseArgs(l, argv, r) ==
  IF r.s = 0 THEN Panic
  ELSE IF Peek(l, r.s, {"|", ")", "&", ";"}) THEN Built(Enclosed(Exec(argv), r.redirs), r.s)
  ELSE NextArg(l, argv, r, GetToken(l, r.s))

\* parseblock(), after the closing parenthesis, and after the inner line.
BlockRedirs(b, r) == IF r.s = 0 THEN Panic ELSE Built(Enclosed(b.cmd, r.redirs), r.s)
BlockEnd(l, b) ==
  IF b.s = 0 THEN Panic
  ELSE IF Peek(l, b.s, {")"}) THEN BlockRedirs(b, ParseRedirs(l, NoRedirs(GetToken(l, b.s).s)))
  ELSE Panic

RECURSIVE ParseLine(_, _)
ParseBlock(l, s) == BlockEnd(l, ParseLine(l, GetToken(l, s).s))

ParseExec(l, s) ==
  IF Peek(l, s, {"("}) THEN ParseBlock(l, s) ELSE ParseArgs(l, <<>>, ParseRedirs(l, NoRedirs(s)))

RECURSIVE ParsePipe(_, _)
Piped(a, b) == IF b.s = 0 THEN Panic ELSE Built(PipeCmd(a.cmd, b.cmd), b.s)
PipeAfter(l, a) ==
  IF a.s = 0 THEN Panic
  ELSE IF Peek(l, a.s, {"|"}) THEN Piped(a, ParsePipe(l, GetToken(l, a.s).s)) ELSE a
ParsePipe(l, s) == PipeAfter(l, ParseExec(l, s))

\* parseline(): any number of &, then perhaps a list.
RECURSIVE ParseBack(_, _)
ParseBack_mut(l, a) ==
  IF a.s = 0 THEN Panic
  ELSE IF Peek(l, a.s, {"&"}) THEN Built(BackCmd(a.cmd), GetToken(l, a.s).s) ELSE a
ParseBack(l, a) ==
  IF a.s = 0 THEN Panic
  ELSE IF Peek(l, a.s, {"&"}) THEN ParseBack(l, Built(BackCmd(a.cmd), GetToken(l, a.s).s)) ELSE a
Listed(a, b) == IF b.s = 0 THEN Panic ELSE Built(ListCmd(a.cmd, b.cmd), b.s)
LineAfter(l, a) ==
  IF a.s = 0 THEN Panic
  ELSE IF Peek(l, a.s, {";"}) THEN Listed(a, ParseLine(l, GetToken(l, a.s).s)) ELSE a
ParseLine(l, s) == LineAfter(l, ParseBack(l, ParsePipe(l, s)))

\* parsecmd(): leftovers are an error.
AllOf(l, a) == IF a.s # 0 /\ Skip(l, a.s) = Len(l) + 1 THEN a ELSE Panic
ParseCmd(l) == AllOf(l, ParseLine(l, 1))

-----------------------------------------------------------------------------
(* The grammar: the set of commands that a sequence of tokens stands for *)

RECURSIVE Tokens(_, _)
Tokens(l, s) ==
  LET t == GetToken(l, s) IN IF t.tok = "nul" THEN <<>> ELSE <<t>> \o Tokens(l, t.s)

IsRedir(t) == t.tok \in {"<", ">", "+"}
From(t, i) == SubSeq(t, i, Len(t))
Upto(t, i) == SubSeq(t, 1, i)
\* The redirections of a sequence of words and redirections, and its words.
Files(t) == {i \in 2 .. Len(t) : IsRedir(t[i - 1])}
WellFormed(t) ==
  /\ \A i \in DOMAIN t : t[i].tok = "a" \/ (IsRedir(t[i]) /\ i < Len(t))
  /\ \A i \in Files(t) : t[i].tok = "a"
Ordered(S) == [k \in 1 .. Cardinality(S) |-> CHOOSE i \in S : Cardinality({j \in S : j <= i}) = k]
RedirsOf(t) ==
  [k \in 1 .. Cardinality(Files(t)) |->
     LET i == Ordered(Files(t))[k] IN [word |-> t[i].word, tok |-> t[i - 1].tok]]
WordsOf(t) ==
  LET S == {i \in DOMAIN t : t[i].tok = "a"} \ Files(t)
  IN [k \in 1 .. Cardinality(S) |-> t[Ordered(S)[k]].word]

RECURSIVE LineMeans(_)
SimpleMeans(t) ==
  IF WellFormed(t) /\ Len(WordsOf(t)) < MAXARGS
  THEN {Enclosed(Exec(WordsOf(t)), RedirsOf(t))} ELSE {}
BlockMeans(t) ==
  UNION {{Enclosed(c, RedirsOf(From(t, k + 1))) : c \in LineMeans(SubSeq(t, 2, k - 1))} :
         k \in {k \in 2 .. Len(t) : /\ t[1].tok = "(" /\ t[k].tok = ")"
                                    /\ WellFormed(From(t, k + 1)) /\ WordsOf(From(t, k + 1)) = <<>>}}
ExecMeans(t) == SimpleMeans(t) \cup BlockMeans(t)
Split(t, tok) == {i \in DOMAIN t : t[i].tok = tok}
RECURSIVE PipeMeans(_)
PipeMeans(t) ==
  ExecMeans(t) \cup
  UNION {{PipeCmd(a, b) : a \in ExecMeans(Upto(t, i - 1)), b \in PipeMeans(From(t, i + 1))} :
         i \in Split(t, "|")}
RECURSIVE BackMeans(_)
BackMeans(t) ==
  PipeMeans(t) \cup
  (IF t # <<>> /\ Last(t).tok = "&" THEN {BackCmd(c) : c \in BackMeans(Front(t))} ELSE {})
LineMeans(t) ==
  BackMeans(t) \cup
  UNION {{ListCmd(a, b) : a \in BackMeans(Upto(t, i - 1)), b \in LineMeans(From(t, i + 1))} :
         i \in Split(t, ";")}

\* The parser accepts exactly the lines of the grammar and builds the one
\* command that the grammar gives them (parsecmd and the functions it calls).
Meant(a) == IF a.s = 0 THEN {} ELSE {a.cmd}
ParsedAsMeant(l) == LineMeans(Tokens(l, 1)) = Meant(ParseCmd(l))
=============================================================================
