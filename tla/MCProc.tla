------------------------------- MODULE MCProc -------------------------------
(***************************************************************************)
(* Model checking of Proc and of Shell, which makes processes and pipes    *)
(* them together.  `part' says which one a behaviour is about; the other   *)
(* stays in its first state.                                               *)
(***************************************************************************)
EXTENDS Proc

CONSTANTS p0, p1, p2

VARIABLES part, me, pipe, typed, failed

shvars == <<me, pipe, typed, failed>>

\* Pipelines, lists, background commands and blocks of commands, an input
\* that is redirected inside a pipeline, and lines that do not parse.
Line ==
  {<<"w", "|", "w">>, <<"w", "|", "w", "|", "w">>, <<"w", ";", "w">>, <<"w", "&">>,
   <<"(", "w", ";", "w", ")", "|", "w">>, <<"w", "|", "w", "<", "w">>,
   <<"w", "&", ";", "w">>, <<"w", "|", "w", "&">>, <<"w", "&", ";", "w", "|", "w">>,
   <<"w", "|">>, <<"(">>}

S == INSTANCE Shell WITH
  MAXARGS <- 3, Proc <- 1 .. 6, Lines <- Line, MaxLines <- 1, NOFILE <- 5, PIPESIZE <- 1,
  MaxWrite <- 2

PartInit == part \in {"proc", "shell"} /\ Init /\ S!ShInit

PartNext ==
  /\ UNCHANGED part
  /\ \/ part = "proc" /\ Next /\ UNCHANGED shvars
     \/ part = "shell" /\ S!ShNext /\ UNCHANGED vars

\* The fairness of each component, while the behaviour is about it; at its
\* first prompt none of the shell's actions is enabled but the user's.
PartSpec ==
  /\ PartInit /\ [][PartNext]_<<part, vars, shvars>>
  /\ \A p \in Slot : WF_vars(part = "proc" /\ InKernel(p) /\ Continue(p))
  /\ SF_vars(part = "proc" /\ sys_wait(initproc))
  /\ S!ShFairness

\* Shell: the commands of a line run as it is written.
RunsAsWritten == part = "shell" => S!RunsAsWritten
\* Shell: the prompt comes back.
PromptReturns == S!PromptReturns
=============================================================================
