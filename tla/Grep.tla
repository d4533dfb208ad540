-------------------------------- MODULE Grep --------------------------------
(***************************************************************************)
(* The regular expressions of grep.c: match(), matchhere() and matchstar() *)
(* on positions of re and text, checked against what the operators ^ . * $ *)
(* mean.  The text grows a character at a time.                            *)
(***************************************************************************)
EXTENDS Integers, SequencesExt

CONSTANTS
  ReChar,         \* the characters of expressions
  TextChar,
  MaxRe,          \* bound: length of an expression
  MaxText         \* bound: length of a line

VARIABLES re, text

vars == <<re, text>>

Init ==
  /\ re \in UNION {[1 .. k -> ReChar] : k \in 0 .. MaxRe}
  /\ text = <<>>

-----------------------------------------------------------------------------
Nul == "nul"
At(s, i) == IF i <= Len(s) THEN s[i] ELSE Nul

RECURSIVE matchhere(_, _), matchstar(_, _, _)

matchhere(i, j) ==
  \/ At(re, i) = Nul
  \/ /\ At(re, i) # Nul /\ At(re, i + 1) = "*"
     /\ matchstar(At(re, i), i + 2, j)
  \/ /\ At(re, i) = "$" /\ At(re, i + 1) = Nul
     /\ At(text, j) = Nul
  \/ /\ At(re, i) # Nul /\ At(re, i + 1) # "*"
     /\ ~(At(re, i) = "$" /\ At(re, i + 1) = Nul)
     /\ At(text, j) # Nul /\ At(re, i) \in {".", At(text, j)}
     /\ matchhere(i + 1, j + 1)

\* Mutant: a * matches one or more instances.
matchstar_plus(c, i, j) ==
  /\ At(text, j) # Nul /\ c \in {".", At(text, j)}
  /\ matchhere(i, j + 1) \/ matchstar(c, i, j + 1)

matchstar(c, i, j) ==
  \/ matchhere(i, j)
  \/ /\ At(text, j) # Nul /\ c \in {".", At(text, j)}
     /\ matchstar(c, i, j + 1)

match ==
  IF At(re, 1) = "^" THEN matchhere(2, 1)
  ELSE \E j \in 1 .. Len(text) + 1 : matchhere(1, j)

ReadChar(c) == Len(text) < MaxText /\ text' = Append(text, c) /\ UNCHANGED re

Next == \E c \in TextChar : ReadChar(c)

Spec == Init /\ [][Next]_vars

-----------------------------------------------------------------------------
\* The items of an expression, by the position they start at: a character,
\* a starred character, or the end of the line.
Starts ==
  LET first == IF At(re, 1) = "^" THEN 2 ELSE 1
      start[i \in 0 .. Len(re)] ==
        i >= first /\ \/ i = first
                      \/ start[i - 1] /\ At(re, i) # "*"
                      \/ i - 2 >= first /\ start[i - 2] /\ At(re, i - 1) = "*"
  IN  {i \in 1 .. Len(re) : start[i]}

Fits(i, from, to) ==
  LET is(c) == At(re, i) \in {".", c} IN
  IF At(re, i + 1) = "*" THEN \A j \in from + 1 .. to : is(text[j])
  ELSE IF At(re, i) = "$" /\ i = Len(re) THEN from = to /\ to = Len(text)
  ELSE to = from + 1 /\ is(text[to])

\* match() says yes exactly when the text can be cut so that every item of
\* the expression fits its piece, the first piece starting the line after ^.
MatchesMeaning ==
  LET Item == SetToSortSeq(Starts, <) IN
  match <=>
    \E cut \in [1 .. Len(Item) + 1 -> 0 .. Len(text)] :
      /\ At(re, 1) = "^" => cut[1] = 0
      /\ \A k \in DOMAIN Item : cut[k] <= cut[k + 1] /\ Fits(Item[k], cut[k], cut[k + 1])
=============================================================================
