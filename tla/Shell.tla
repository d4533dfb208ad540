------------------------------- MODULE Shell --------------------------------
(***************************************************************************)
(* The shell at work: main() of sh.c reads lines and forks, and runcmd()   *)
(* runs the parsed command in processes of its own, wired with pipe(),     *)
(* dup() and close().                                                      *)
(*                                                                         *)
(* fork(), wait(), exit() and pipes are taken as the kernel provides them: *)
(* a pipe holds PIPESIZE bytes, a reader sees its end when no descriptor   *)
(* of a write end is left.  A program copies its input to its output,      *)
(* writes and exits, or exits.                                             *)
(***************************************************************************)
EXTENDS Integers, Sequences, FiniteSets

CONSTANTS
  MAXARGS,
  Proc,           \* 1 .. n, the process slots
  Lines,          \* what can be typed
  MaxLines,       \* bound: lines typed
  NOFILE, PIPESIZE,
  MaxWrite        \* bound: bytes that a program writes

Parser(buf) == INSTANCE ShParse WITH MaxLine <- 0
\* parsecmd() of the lines.
Parsed == [l \in Lines |-> Parser(l)!parsecmd]

Sh == 1
init == 0         \* the process that adopts orphans
Fd == 0 .. NOFILE - 1
Closed == <<"none", 0>>
console == <<"console", 0>>
Pipe0 == 1 .. Cardinality(Proc)

VARIABLES
  me,             \* state of each process: see Idle
  pipe,           \* bytes in each pipe
  typed,          \* history: number of lines read
  failed          \* history: fork() has failed

svars == <<me, pipe, typed, failed>>

\* pc and command, open files, parent, and p[] of runcmd(); want is what the
\* command line asks descriptors 0 and 1 to be, and bg whether nobody waits.
Idle == [pc |-> "free", cmd |-> Parser(<<>>)!execcmd(<<>>), fd |-> [f \in Fd |-> Closed],
         up |-> init, p |-> <<0, 0>>, n |-> 0, want |-> <<Closed, Closed>>, bg |-> FALSE]

\* main() has opened the console three times.
ShInit ==
  /\ me = [q \in Proc |-> IF q # Sh THEN Idle
                          ELSE [Idle EXCEPT !.pc = "prompt", !.want = <<console, console>>,
                                            !.fd = [f \in Fd |-> IF f < 3 THEN console ELSE Closed]]]
  /\ pipe = [n \in Pipe0 |-> 0]
  /\ typed = 0 /\ failed = FALSE

Live(m, q) == m[q].pc \notin {"free", "zombie"}
Open(m, o) == \E q \in Proc, f \in Fd : m[q].fd[f] = o
Goto(q, l) == [me EXCEPT ![q].pc = l]

-----------------------------------------------------------------------------
(* System calls                                                            *)

\* Slot and descriptors are the lowest free ones.
Unused == {q \in Proc : me[q].pc = "free"}
NewProc == CHOOSE q \in Unused : \A r \in Unused : q <= r
Lowest(fd) == CHOOSE f \in Fd : fd[f] = Closed /\ \A g \in Fd : fd[g] = Closed => f <= g
Install(fd, o) == [fd EXCEPT ![Lowest(fd)] = o]
Close(fd, f) == [fd EXCEPT ![f] = Closed]

\* exit(): the descriptors are closed, orphans go to init, which waits for
\* them, and so does a parent that lives.
Exit(q, m) ==
  [r \in Proc |->
     IF r = q THEN IF m[q].up = init THEN Idle ELSE [Idle EXCEPT !.pc = "zombie", !.up = m[q].up]
     ELSE IF m[r].up = q THEN IF m[r].pc = "zombie" THEN Idle ELSE [m[r] EXCEPT !.up = init]
     ELSE m[r]]

\* fork1() of a child that starts with `first'; the parent goes on at l, or
\* panics when there is no slot.
Fork1(q, first, l) ==
  IF Unused = {}
    THEN me' = Exit(q, me) /\ failed' = TRUE
    ELSE /\ me' = [me EXCEPT ![q].pc = l, ![NewProc] = [first EXCEPT !.up = q]]
         /\ UNCHANGED failed

Children(q) == {r \in Proc : me[r].up = q /\ me[r].pc # "free"}

\* wait(): a child that has exited is gone; l is where the process goes on.
wait(q, from, m) ==
  /\ me[q].pc = from
  /\ \/ Children(q) = {} /\ me' = m
     \/ \E r \in Children(q) : me[r].pc = "zombie" /\ me' = [m EXCEPT ![r] = Idle]
  /\ UNCHANGED <<pipe, typed, failed>>

-----------------------------------------------------------------------------
(* main()                                                                  *)

\* getcmd(), and fork1() of a child that parses the line; it exits when
\* parsecmd() panics.
getcmd ==
  /\ me[Sh].pc = "prompt" /\ typed < MaxLines
  /\ typed' = typed + 1
  /\ \E l \in Lines :
       \/ /\ Parsed[l] = {}
          /\ Fork1(Sh, [me[Sh] EXCEPT !.pc = "exit"], "wait")
       \/ \E c \in Parsed[l] : Fork1(Sh, [me[Sh] EXCEPT !.pc = "run", !.cmd = c], "wait")
  /\ UNCHANGED pipe

\* End of input.
eof ==
  /\ me[Sh].pc = "prompt"
  /\ me' = Exit(Sh, me)
  /\ UNCHANGED <<pipe, typed, failed>>

main_wait == wait(Sh, "wait", Goto(Sh, "prompt"))

-----------------------------------------------------------------------------
(* runcmd()                                                                *)

Runs(q, type) == me[q].pc = "run" /\ me[q].cmd.type = type

\* exec() of a program, which can fail.
run_exec(q) ==
  /\ Runs(q, "EXEC")
  /\ \/ me' = Exit(q, me)
     \/ /\ me[q].cmd.argv # <<>>
        /\ \/ me' = Goto(q, "read")
           \/ \E n \in 1 .. MaxWrite : me' = [me EXCEPT ![q].pc = "write", ![q].n = n]
  /\ UNCHANGED <<pipe, typed, failed>>

\* close() and open(), which can fail.
run_redir(q) ==
  /\ Runs(q, "REDIR")
  /\ LET c == me[q].cmd
         o == <<"file", c.file[1]>> IN
     \/ me' = Exit(q, me)
     \/ me' = [me EXCEPT ![q].cmd = c.cmd, ![q].fd = Install(Close(@, c.fd), o),
                         ![q].want[c.fd + 1] = o]
  /\ UNCHANGED <<pipe, typed, failed>>

run_list(q) ==
  /\ Runs(q, "LIST")
  /\ Fork1(q, [me[q] EXCEPT !.cmd = me[q].cmd.left], "list")
  /\ UNCHANGED <<pipe, typed>>

run_right(q) == wait(q, "list", [me EXCEPT ![q].pc = "run", ![q].cmd = me[q].cmd.right])

run_back(q) ==
  /\ Runs(q, "BACK")
  /\ Fork1(q, [me[q] EXCEPT !.cmd = me[q].cmd.cmd, !.bg = TRUE], "exit")
  /\ UNCHANGED <<pipe, typed>>

\* pipe(p)
run_pipe(q) ==
  /\ Runs(q, "PIPE")
  /\ LET n == CHOOSE k \in Pipe0 : ~Open(me, <<"r", k>>) /\ ~Open(me, <<"w", k>>)
         fd == me[q].fd
         fd1 == Install(fd, <<"r", n>>) IN
     IF Cardinality({f \in Fd : fd[f] = Closed}) < 2
       THEN me' = Exit(q, me) /\ UNCHANGED pipe
       ELSE /\ me' = [me EXCEPT ![q].pc = "left", ![q].fd = Install(fd1, <<"w", n>>),
                                ![q].p = <<Lowest(fd), Lowest(fd1)>>]
            /\ pipe' = [pipe EXCEPT ![n] = 0]
  /\ UNCHANGED <<typed, failed>>

\* The two children; the first step of each is to move p[1] to 1, p[0] to 0.
Child(q, cmd, k) ==
  [me[q] EXCEPT !.pc = IF k = 1 THEN "dup1" ELSE "dup0", !.cmd = cmd,
                !.want[k + 1] = me[q].fd[me[q].p[k + 1]]]

run_left(q) ==
  /\ me[q].pc = "left"
  /\ Fork1(q, Child(q, me[q].cmd.left, 1), "right")
  /\ UNCHANGED <<pipe, typed>>

fork_right(q) ==
  /\ me[q].pc = "right"
  /\ Fork1(q, Child(q, me[q].cmd.right, 0), "close")
  /\ UNCHANGED <<pipe, typed>>

CloseBoth(fd, p) == Close(Close(fd, p[1]), p[2])

\* Mutant: the child keeps p[0] and p[1].
dup_open(q) ==
  \E k \in {0, 1} :
    /\ me[q].pc = IF k = 1 THEN "dup1" ELSE "dup0"
    /\ me' = [me EXCEPT ![q].pc = "run", ![q].fd = Install(Close(@, k), @[me[q].p[k + 1]])]
    /\ UNCHANGED <<pipe, typed, failed>>

dup(q) ==
  \E k \in {0, 1} :
    /\ me[q].pc = IF k = 1 THEN "dup1" ELSE "dup0"
    /\ me' = [me EXCEPT ![q].pc = "run",
                        ![q].fd = CloseBoth(Install(Close(@, k), @[me[q].p[k + 1]]), me[q].p)]
    /\ UNCHANGED <<pipe, typed, failed>>

\* Mutant: the parent waits before it closes the pipe.
run_close_late(q) == me[q].pc = "close" /\ me' = Goto(q, "wait1") /\ UNCHANGED <<pipe, typed, failed>>

run_close(q) ==
  /\ me[q].pc = "close"
  /\ me' = [me EXCEPT ![q].pc = "wait1", ![q].fd = CloseBoth(@, me[q].p)]
  /\ UNCHANGED <<pipe, typed, failed>>

run_wait1(q) == wait(q, "wait1", Goto(q, "wait2"))

run_wait2(q) == wait(q, "wait2", Goto(q, "exit"))

run_exit(q) ==
  /\ me[q].pc = "exit"
  /\ me' = Exit(q, me)
  /\ UNCHANGED <<pipe, typed, failed>>

-----------------------------------------------------------------------------
(* The programs: cat.c, or one that writes n bytes and exits.              *)

\* read(0): a byte of the pipe, or its end.
prog_read(q) ==
  /\ me[q].pc = "read"
  /\ LET o == me[q].fd[0] IN
     IF o[1] = "r" /\ pipe[o[2]] > 0
       THEN /\ pipe' = [pipe EXCEPT ![o[2]] = @ - 1]
            /\ me' = Goto(q, "copy")
       ELSE /\ o[1] = "r" => ~Open(me, <<"w", o[2]>>)
            /\ me' = Exit(q, me)
            /\ UNCHANGED pipe
  /\ UNCHANGED <<typed, failed>>

\* write(1): sleep while the pipe is full and somebody can read it.
prog_write(q) ==
  /\ me[q].pc \in {"copy", "write"}
  /\ LET o == me[q].fd[1]
         lost == o[1] # "w" \/ ~Open(me, <<"r", o[2]>>) IN
       /\ ~lost => pipe[o[2]] < PIPESIZE
       /\ pipe' = IF lost THEN pipe ELSE [pipe EXCEPT ![o[2]] = @ + 1]
  /\ me' = IF me[q].pc = "copy" THEN Goto(q, "read")
           ELSE IF me[q].n = 1 THEN Exit(q, me) ELSE [me EXCEPT ![q].n = @ - 1]
  /\ UNCHANGED <<typed, failed>>

-----------------------------------------------------------------------------
Step(q) ==
  \/ run_exec(q) \/ run_redir(q) \/ run_list(q) \/ run_right(q)
  \/ run_back(q) \/ run_pipe(q) \/ run_left(q) \/ fork_right(q) \/ dup(q) \/ run_close(q)
  \/ run_wait1(q) \/ run_wait2(q) \/ run_exit(q)
  \/ prog_read(q) \/ prog_write(q)

ShNext == getcmd \/ eof \/ main_wait \/ \E q \in Proc : Step(q)

ShSpec == ShInit /\ [][ShNext]_svars

\* Every process runs; what is typed is up to the user.
ShFairness == WF_svars(main_wait) /\ \A q \in Proc : WF_svars(Step(q))

-----------------------------------------------------------------------------
\* runcmd(): when a program starts its descriptors 0 and 1 are what the command
\* line says - the pipes to its neighbours, a file, or what the shell has - and
\* no other descriptor is open, of a pipe in particular.  Whoever started it
\* waits, unless it was started with & or fork() has failed; and what is to the
\* right of a ; runs when all that was started for the left has exited.
RunsAsWritten ==
  \A q \in Proc :
    /\ me[q].pc \in {"read", "copy", "write"} =>
         me[q].fd = [f \in Fd |-> CASE f = 0 -> me[q].want[1] [] f = 1 -> me[q].want[2]
                                    [] f = 2 -> console [] OTHER -> Closed]
    /\ Live(me, q) /\ q # Sh /\ me[q].up = init => me[q].bg \/ failed
    /\ me[q].pc = "run" => Children(q) = {}

\* The shell prompts again after every line: no stage of a pipeline waits for
\* an end of file that never comes because a write end was left open.
PromptReturns == (me[Sh].pc = "wait") ~> (me[Sh].pc = "prompt")
=============================================================================
