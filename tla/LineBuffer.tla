----------------------------- MODULE LineBuffer -----------------------------
(***************************************************************************)
(* What the console promises its readers: the characters of a line become  *)
(* available together, in the order they were typed, when the line ends or *)
(* when nothing more fits; until then they can be erased.                  *)
(***************************************************************************)
EXTENDS Integers, Sequences

CONSTANTS
  Char,           \* characters that are kept
  LineEnd,        \* those that end a line
  Capacity

VARIABLES
  ready,          \* what readers may take
  edit            \* the line that is being typed

vars == <<ready, edit>>

Init == ready = <<>> /\ edit = <<>>

Type(c) ==
  /\ Len(ready) + Len(edit) < Capacity
  /\ LET line == Append(edit, c) IN
     IF c \in LineEnd \/ Len(ready) + Len(line) = Capacity
       THEN ready' = ready \o line /\ edit' = <<>>
       ELSE edit' = line /\ UNCHANGED ready

\* Erase the last character or all of the line.
Erase == edit # <<>> /\ edit' = SubSeq(edit, 1, Len(edit) - 1) /\ UNCHANGED ready
KillLine == edit' = <<>> /\ UNCHANGED ready

Take == ready # <<>> /\ ready' = Tail(ready) /\ UNCHANGED edit

Next == (\E c \in Char : Type(c)) \/ Erase \/ KillLine \/ Take

Spec == Init /\ [][Next]_vars
=============================================================================
