------------------------------- MODULE MCParts ------------------------------
(***************************************************************************)
(* Model checking of nine components that do not interact: Mkfs, FileData, *)
(* Umalloc, Console, Grep, ShParse, Irq, Strings and SysArgs.  `part' says *)
(* which one a behaviour is about; the others stay in their first state.   *)
(***************************************************************************)
EXTENDS Mkfs, Irq

VARIABLES
  part,
  fs, off, todo, ret, panicked,
  ptr, usize, freep, brk, upc, up, prevp, nunits, bp, live, lost,
  cr, cw, ce, cbuf, clock, cpc, cn, target, killed,
  re, text,
  buf,
  mem, user

fvars == <<fs, off, todo, ret, panicked>>
uvars == <<ptr, usize, freep, brk, upc, up, prevp, nunits, bp, live, lost>>
cvars == <<cr, cw, ce, cbuf, clock, cpc, cn, target, killed>>
inputs == <<re, text, buf, mem, user>>

\* Files 1 and 2, a block of two bytes, one direct and two indirect blocks.  The
\* code only copies bytes, so one that can be told from all others shows where
\* each of them goes: `OneMark' bounds what is written to one 2 at a time.
FileOf(f) == f
FD == INSTANCE FileData WITH
  Proc <- {1, 2}, File <- {1, 2}, Inode <- {1, 2}, ip <- FileOf, Block <- 1 .. 5,
  Buffer <- {<<1>>, <<1, 1, 1>>, <<2, 1, 1>>, <<1, 2, 1>>, <<1, 1, 2>>},
  BSIZE <- 2, NDIRECT <- 1, LOGSIZE <- 6, UINT <- 16, MaxN <- 2
Marks(s) == Cardinality({k \in DOMAIN s : s[k] = 2})
OneMark ==
  LET c == FD!Contents IN
  Marks(c[1]) + Marks(c[2]) + Marks(todo[1].addr) + Marks(todo[2].addr) <= 1

UM == INSTANCE Umalloc WITH
  MinCore <- 3, HeapEnd <- 8, MaxUnits <- 4, size <- usize, pc <- upc, p <- up

CON == INSTANCE Console WITH
  Proc <- {1, 2}, INPUT_BUF <- 3, UINT <- 6, MaxN <- 2,
  r <- cr, w <- cw, e <- ce, buf <- cbuf, lock <- clock, pc <- cpc, n <- cn

GR == INSTANCE Grep WITH
  ReChar <- {"a", ".", "*", "^", "$"}, TextChar <- {"a", "b"}, MaxRe <- 4, MaxText <- 3

SH == INSTANCE ShParse WITH MAXARGS <- 3, MaxLine <- 5

ST == INSTANCE Strings WITH BYTE <- 4, MaxMem <- 5, BASE <- 3, UINT <- 32

SA == INSTANCE SysArgs WITH BYTE <- 4, WORD <- 2, UINT <- 16, MaxSz <- 5

ASSUME IrqAssumption

PartsInit ==
  /\ part \in {"mkfs", "files", "heap", "console", "grep", "sh", "irq", "strings", "args"}
  /\ Init /\ FD!Init /\ UM!Init /\ CON!Init /\ IrqInit
  /\ IF part = "grep" THEN GR!Init ELSE re = <<>> /\ text = <<>>
  /\ SH!ParseInit /\ ST!StrInit /\ SA!ArgInit

\* Inputs stop growing, mkfs exits, and panic() stops the system.
PartsNext ==
  /\ UNCHANGED part
  /\ \/ part = "mkfs" /\ Next /\ UNCHANGED <<fvars, uvars, cvars, irqvars, inputs>>
     \/ part = "files" /\ FD!Next /\ OneMark' /\ UNCHANGED <<vars, uvars, cvars, irqvars, inputs>>
     \/ part = "heap" /\ UM!Next /\ UNCHANGED <<vars, fvars, cvars, irqvars, inputs>>
     \/ part = "console" /\ CON!Next /\ UNCHANGED <<vars, fvars, uvars, irqvars, inputs>>
     \/ part = "irq" /\ IrqNext /\ UNCHANGED <<vars, fvars, uvars, cvars, inputs>>
     \/ /\ UNCHANGED <<vars, fvars, uvars, cvars, irqvars>>
        /\ \/ part = "grep" /\ GR!Next /\ UNCHANGED <<buf, mem, user>>
           \/ part = "sh" /\ SH!ParseNext /\ UNCHANGED <<re, text, mem, user>>
           \/ part = "strings" /\ ST!StrNext /\ UNCHANGED <<re, text, buf, user>>
           \/ part = "args" /\ SA!ArgNext /\ UNCHANGED <<re, text, buf, mem>>
           \/ part \notin {"files", "heap", "console"} /\ UNCHANGED inputs

PartsSpec == PartsInit /\ [][PartsNext]_<<part, vars, fvars, uvars, cvars, irqvars, inputs>>

\* What is stored in blocks that are not allocated, in memory that is no
\* header and in the unused part of the input ring is never read: two states
\* that differ only there, or in which of two processes or of two files is
\* which, are the same; and so are two in which the bitmap is right and the
\* files have the same contents in other blocks.
Blocks == IF FD!BlocksExact THEN Cardinality(fs.used) ELSE fs
Writers(f) == {q \in {1, 2} : todo[q].f = f}
FileView(f) ==
  <<FD!Contents[f], off[f], Cardinality(Writers(f)),
    {<<todo[q].addr, todo[q].i>> : q \in Writers(f)}>>
Headers == UM!Ring \cup live \cup {bp}
Reader(q) == <<cpc[q], cn[q], target[q], killed[q], clock = q>>
PartsView ==
  CASE part = "mkfs" -> <<part, vars>>
    [] part = "files" ->
         <<part, {FileView(f) : f \in {1, 2}}, Blocks, panicked>>
    [] part = "heap" ->
         <<part, [x \in Headers \ {UM!Null} |-> <<usize[x], IF x \in live THEN 0 ELSE ptr[x]>>],
           freep, brk, upc, up, prevp, nunits, bp, live, lost>>
    [] part = "console" ->
         <<part, CON!Slice(cr, ce), cr, cw, ce, {Reader(q) : q \in {1, 2}}>>
    [] part = "irq" -> <<part, irqvars>>
    [] OTHER -> <<part, inputs>>

\* Mkfs: the image is a file system with the contents of the files.
MkfsConsistent == part = "mkfs" => ImageConsistent
\* FileData: the bitmap marks exactly the blocks of files, each used once, and
\* filewrite() never exceeds the log.
BlocksExact == part = "files" => FD!BlocksExact
\* Umalloc: malloc() and free() keep every unit in one block and the free
\* list in order and joined.
HeapIntact == part = "heap" => UM!HeapIntact
\* Console: the input ring is a line buffer, no reader sleeps while there is
\* input, and a full ring can be read.
RingIsLineBuffer == CON!RingIsLineBuffer
\* Grep: match() agrees with what the operators mean.
MatchesMeaning == part = "grep" => GR!MatchesMeaning
\* ShParse: the shell parses the lines of its grammar, as what they mean.
ParsesGrammar == part = "sh" => SH!ParsesGrammar
\* Strings and SysArgs: the routines do what their callers rely on.
RoutinesMeet ==
  /\ part = "strings" => ST!StringsMeet
  /\ part = "args" => SA!ArgumentsInside
=============================================================================
