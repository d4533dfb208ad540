------------------------------ MODULE ShParse -------------------------------
(***************************************************************************)
(* The command language of sh.c: gettoken(), peek() and the parse          *)
(* functions on positions of the line, against the grammar                 *)
(*                                                                         *)
(*   line   ::= pipe "&"* [ ";" line ]                                     *)
(*   pipe   ::= exec [ "|" pipe ]                                          *)
(*   exec   ::= "(" line ")" redir*  |  (word | redir)*                    *)
(*   redir  ::= ("<" | ">" | ">>") word                                    *)
(*                                                                         *)
(* The characters are " " for white space, "w" for what words are made of, *)
(* and the symbols.  A word is the pair of its position and its end.       *)
(***************************************************************************)
EXTENDS Integers, Sequences, FiniteSets

CONSTANTS
  MAXARGS,
  MaxLine         \* bound: length of a line

whitespace == {" "}
symbols == {"<", "|", ">", "&", ";", "(", ")"}
Char == whitespace \cup symbols \cup {"w"}

VARIABLE buf      \* the line

ParseInit == buf = <<>>

\* One more character.
gets(c) == Len(buf) < MaxLine /\ buf' = Append(buf, c)

ParseNext == \E c \in Char : gets(c)

-----------------------------------------------------------------------------
(* Constructors                                                            *)

execcmd(argv) == [type |-> "EXEC", argv |-> argv]
redircmd(cmd, file, fd) == [type |-> "REDIR", cmd |-> cmd, file |-> file, fd |-> fd]
pipecmd(l, r) == [type |-> "PIPE", left |-> l, right |-> r]
listcmd(l, r) == [type |-> "LIST", left |-> l, right |-> r]
backcmd(cmd) == [type |-> "BACK", cmd |-> cmd]

\* Redirections rs around cmd, the first one innermost.
RECURSIVE Redirected(_, _)
Redirected(cmd, rs) ==
  IF rs = <<>> THEN cmd ELSE Redirected(redircmd(cmd, rs[1].file, rs[1].fd), Tail(rs))

-----------------------------------------------------------------------------
(* Tokens.  es is the position of the NUL.                                 *)

es == Len(buf) + 1
At(s) == IF s < es THEN buf[s] ELSE "nul"
\* The first position from s on that is not in C.
Skip(s, C) == CHOOSE t \in s .. es : At(t) \notin C /\ \A u \in s .. t - 1 : At(u) \in C

\* The end of the token at q: NUL, >>, another symbol, or a word.
append(q) == At(q) = ">" /\ At(q + 1) = ">"
eq(q) ==
  CASE At(q) = "nul" -> q
    [] append(q) -> q + 2
    [] At(q) \in symbols /\ ~append(q) -> q + 1
    [] OTHER -> Skip(q, Char \ (whitespace \cup symbols))

Token(q) ==
  [tok |-> IF append(q) THEN "+" ELSE IF At(q) = "w" THEN "a" ELSE At(q),
   word |-> <<q, eq(q)>>, s |-> Skip(eq(q), whitespace)]
gettoken(ps) == Token(Skip(ps, whitespace))

peek(ps, toks) == At(Skip(ps, whitespace)) \in toks

-----------------------------------------------------------------------------
(* The parse functions return a command and the position they got to, or   *)
(* panic().                                                                *)

panic == [ok |-> FALSE, cmd |-> execcmd(<<>>), s |-> es]
Parsed(cmd, s) == [ok |-> TRUE, cmd |-> cmd, s |-> s]

\* parseredirs(): the redirections from ps on, after rs.
RECURSIVE parseredirs(_, _)
parseredirs(rs, ps) ==
  IF ~peek(ps, {"<", ">"}) THEN [ok |-> TRUE, rs |-> rs, s |-> ps]
  ELSE LET t == gettoken(ps)
           f == gettoken(t.s) IN
       IF f.tok # "a" THEN [ok |-> FALSE, rs |-> rs, s |-> es]
       ELSE parseredirs(Append(rs, [file |-> f.word, fd |-> IF t.tok = "<" THEN 0 ELSE 1]), f.s)

\* The loop of parseexec(), after the words argv and what r has.
RECURSIVE parseargs(_, _)
parseargs(argv, r) ==
  LET t == gettoken(r.s) IN
  IF ~r.ok THEN panic
  ELSE IF peek(r.s, {"|", ")", "&", ";"}) \/ t.tok = "nul"
    THEN Parsed(Redirected(execcmd(argv), r.rs), r.s)
  ELSE IF t.tok # "a" \/ Len(argv) + 1 >= MAXARGS THEN panic
  ELSE parseargs(Append(argv, t.word), parseredirs(r.rs, t.s))

\* parseblock() once parseline() has returned l, and parseredirs() r.
Block(l, r) ==
  IF ~l.ok \/ ~peek(l.s, {")"}) \/ ~r.ok THEN panic
  ELSE Parsed(Redirected(l.cmd, r.rs), r.s)
parseblock(l) == Block(l, parseredirs(<<>>, gettoken(l.s).s))

\* parseexec(); l is what parseline() returns behind a "(".
parseexec(ps, l) ==
  IF peek(ps, {"("}) THEN parseblock(l) ELSE parseargs(<<>>, parseredirs(<<>>, ps))

\* parsepipe() once parseexec() has returned l; r is what parsepipe() returns
\* behind the "|".
parsepipe(l, r) ==
  IF peek(l.s, {"|"}) THEN [r EXCEPT !.cmd = pipecmd(l.cmd, @)] ELSE l

\* Mutant: one & at most.
backs_one(r) ==
  IF peek(r.s, {"&"}) THEN [r EXCEPT !.cmd = backcmd(@), !.s = gettoken(r.s).s] ELSE r

\* The loop of parseline().
RECURSIVE backs(_)
backs(r) ==
  IF peek(r.s, {"&"}) THEN backs([r EXCEPT !.cmd = backcmd(@), !.s = gettoken(r.s).s]) ELSE r

\* parseline() behind that loop; r is what parseline() returns behind the ";".
parseline(l, r) ==
  IF peek(l.s, {";"}) THEN [r EXCEPT !.cmd = listcmd(l.cmd, @)] ELSE l

\* The command, unless something is left of the line, or none after panic().
Whole(r) == IF r.ok /\ Skip(r.s, whitespace) = es THEN {r.cmd} ELSE {}

parsecmd ==
  LET parse[f \in {"line", "pipe"}, ps \in 1 .. es] ==
        LET behind(g, s) == parse[g, gettoken(s).s]
            piped(l) == parsepipe(l, behind("pipe", l.s))
            listed(l) == parseline(l, behind("line", l.s)) IN
        IF f = "line" THEN listed(backs(parse["pipe", ps]))
                      ELSE piped(parseexec(ps, behind("line", ps)))
  IN Whole(parse["line", 1])

\* nulterminate(): the ends of words that it overwrites.
RECURSIVE nulterminate(_)
nulterminate(cmd) ==
  CASE cmd.type = "EXEC" -> {cmd.argv[i][2] : i \in 1 .. Len(cmd.argv)}
    [] cmd.type = "REDIR" -> nulterminate(cmd.cmd) \cup {cmd.file[2]}
    [] cmd.type \in {"PIPE", "LIST"} -> nulterminate(cmd.left) \cup nulterminate(cmd.right)
    [] cmd.type = "BACK" -> nulterminate(cmd.cmd)

-----------------------------------------------------------------------------
(* The grammar: the commands that a sequence of tokens derives.            *)

\* Words are runs of "w", and of a run of ">" each pair is one token.
Tokens ==
  LET Run(i, c) == i - CHOOSE k \in 1 .. i : /\ \A j \in k .. i : buf[j] = c
                                             /\ k = 1 \/ buf[k - 1] # c
      Starts(i) == CASE buf[i] = "w" -> Run(i, "w") = 0
                     [] buf[i] = ">" -> Run(i, ">") % 2 = 0
                     [] OTHER -> buf[i] # " "
      End(i) == CHOOSE k \in i + 1 .. es : /\ k = es \/ buf[k] # buf[i]
                                           /\ \A j \in i .. k - 1 : buf[j] = buf[i]
      At2(i) == <<buf[i], i, IF buf[i] = "w" THEN End(i) ELSE i>>
      f[i \in 0 .. Len(buf)] ==
        IF i = 0 THEN <<>> ELSE IF Starts(i) THEN Append(f[i - 1], At2(i)) ELSE f[i - 1] IN
  f[Len(buf)]

Is(t, i, c) == t[i][1] = c
Word(t, i) == <<t[i][2], t[i][3]>>
Before(t, i) == SubSeq(t, 1, i - 1)
After(t, i) == SubSeq(t, i + 1, Len(t))
Places(t, c) == {i \in 1 .. Len(t) : Is(t, i, c)}
InOrder(S, op(_)) ==
  [k \in 1 .. Cardinality(S) |-> op(CHOOSE i \in S : Cardinality({j \in S : j < i}) = k - 1)]

Ops(t) == Places(t, "<") \cup Places(t, ">")
Files(t) == {i + 1 : i \in Ops(t)}
Args(t) == Places(t, "w") \ Files(t)
\* Words and redirections, and nothing else.
Words(t) == Files(t) \subseteq Places(t, "w") /\ Ops(t) \cup Places(t, "w") = 1 .. Len(t)
Around(cmd, t) ==
  Redirected(cmd, InOrder(Ops(t), LAMBDA i : [file |-> Word(t, i + 1), fd |-> IF Is(t, i, "<") THEN 0 ELSE 1]))

RECURSIVE Line(_), Pipe(_), Backs(_)
Exec(t) ==
  (IF Words(t) /\ Cardinality(Args(t)) < MAXARGS
     THEN {Around(execcmd(InOrder(Args(t), LAMBDA i : Word(t, i))), t)} ELSE {})
  \cup
  UNION {{Around(c, After(t, j)) : c \in Line(SubSeq(t, 2, j - 1))} :
           j \in {i \in Places(t, ")") : /\ Is(t, 1, "(")
                                         /\ Words(After(t, i)) /\ Args(After(t, i)) = {}}}
Pipe(t) ==
  Exec(t) \cup UNION {{pipecmd(l, r) : l \in Exec(Before(t, i)), r \in Pipe(After(t, i))} : i \in Places(t, "|")}
Backs(t) ==
  Pipe(t) \cup IF t # <<>> /\ Is(t, Len(t), "&") THEN {backcmd(c) : c \in Backs(Before(t, Len(t)))} ELSE {}
Line(t) ==
  Backs(t) \cup UNION {{listcmd(l, r) : l \in Backs(Before(t, i)), r \in Line(After(t, i))} : i \in Places(t, ";")}

\* Of a line with the tokens ts parsecmd() returned cmds.
Agrees(cmds, ts) ==
  /\ cmds = Line(ts) /\ Cardinality(cmds) <= 1
  /\ \A cmd \in cmds :
       LET nuls == nulterminate(cmd) \cup {es} IN
       \A i \in Places(ts, "w") :
         /\ ts[i][3] \in nuls
         /\ \A n \in nuls : n >= ts[i][2] => ts[i][3] <= n

\* parsecmd() accepts the lines of the grammar and no others, and builds the
\* one command that the line derives; when nulterminate() has put a NUL behind
\* every word none of them has lost its end or been cut short.
ParsesGrammar == Agrees(parsecmd, Tokens)
=============================================================================
