------------------------------ MODULE Channel -------------------------------
(***************************************************************************)
(* What a pipe promises: a queue of at most Cap bytes that leave in the    *)
(* order they came, and ends that once closed stay closed.                 *)
(***************************************************************************)
EXTENDS Integers, Sequences

CONSTANTS Byte, Cap

VARIABLES
  q,           \* bytes written and not yet read
  got,         \* the last byte received
  rend, wend   \* 1 while somebody has the read end, the write end, open

vars == <<q, got, rend, wend>>

Init ==
  /\ q = <<>>
  /\ got \in Byte
  /\ rend = 1
  /\ wend = 1

Send(d) ==
  /\ wend = 1
  /\ Len(q) < Cap
  /\ q' = Append(q, d)
  /\ UNCHANGED <<got, rend, wend>>

Recv ==
  /\ rend = 1
  /\ q # <<>>
  /\ got' = Head(q)
  /\ q' = Tail(q)
  /\ UNCHANGED <<rend, wend>>

CloseRead ==
  /\ rend = 1
  /\ rend' = 0
  /\ UNCHANGED <<q, got, wend>>

CloseWrite ==
  /\ wend = 1
  /\ wend' = 0
  /\ UNCHANGED <<q, got, rend>>

Next ==
  \/ \E d \in Byte : Send(d)
  \/ Recv
  \/ CloseRead
  \/ CloseWrite

Spec == Init /\ [][Next]_vars
=============================================================================
