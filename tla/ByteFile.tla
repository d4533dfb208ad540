------------------------------ MODULE ByteFile ------------------------------
(***************************************************************************)
(* What a file on disk promises to the processes that read and write it: an*)
(* array of bytes that grows at its end, and a position for each open file.*)
(***************************************************************************)
EXTENDS Integers, Sequences

CONSTANTS
  Proc, Inode, File,
  Buffer,         \* the sequences of bytes that are written
  ip(_),          \* the inode of an open file
  MaxLen,         \* the largest file
  UINT            \* counts of reads are unsigned ints

VARIABLES
  bytes,          \* the contents of each inode
  off,            \* the position of each open file
  todo,           \* the write of each process: its file, its bytes, how many are done
  ret             \* the last read: its count, its result and the bytes

vars == <<bytes, off, todo, ret>>

Idle == [f |-> 0, addr |-> <<>>, i |-> 0]

Init ==
  /\ bytes = [i \in Inode |-> <<>>]
  /\ off = [f \in File |-> 0]
  /\ todo = [p \in Proc |-> Idle]
  /\ ret = [n |-> 0, r |-> 0, bytes |-> <<>>]

\* s with the bytes of t from position o on.
Overlay(s, o, t) ==
  SubSeq(s, 1, o) \o t \o SubSeq(s, o + Len(t) + 1, Len(s))

StartWrite(p, f) ==
  /\ todo[p] = Idle
  /\ \E t \in Buffer : todo' = [todo EXCEPT ![p] = [f |-> f, addr |-> t, i |-> 0]]
  /\ UNCHANGED <<off, ret, bytes>>

\* The next m bytes of p, at the position of its file.
Write(p, m) ==
  LET f == todo[p].f
      i == todo[p].i
      n == Len(todo[p].addr) IN
  /\ i + m <= n
  /\ todo' = [todo EXCEPT ![p] = IF i + m = n THEN Idle ELSE [@ EXCEPT !.i = i + m]]
  /\ off[f] <= Len(bytes[ip(f)]) /\ off[f] + m <= MaxLen
  /\ off' = [off EXCEPT ![f] = @ + m]
  /\ bytes' = [bytes EXCEPT ![ip(f)] = Overlay(@, off[f], SubSeq(todo[p].addr, i + 1, i + m))]
  /\ UNCHANGED ret

\* A write ends early only where the file would become too large.
WriteFails(p) ==
  /\ todo[p] # Idle
  /\ off[todo[p].f] + (Len(todo[p].addr) - todo[p].i) > MaxLen
  /\ todo' = [todo EXCEPT ![p] = Idle]
  /\ UNCHANGED <<off, ret, bytes>>

\* As many of n bytes from position o on as there are.
SelectFrom(s, o, n) == SubSeq(s, o + 1, IF o + n < Len(s) THEN o + n ELSE Len(s))

Read(f, n) ==
  /\ UNCHANGED todo
  /\ LET s == SelectFrom(bytes[ip(f)], off[f], n) IN
     /\ ret'.bytes = s /\ ret'.r = Len(s)
     /\ off' = [off EXCEPT ![f] = @ + Len(s)]
  /\ UNCHANGED bytes

\* n < UINT, and the last position would be beyond the largest number.
ReadFails(f, n) ==
  /\ off[f] + n >= UINT
  /\ ret' = [n |-> n, r |-> -1, bytes |-> <<>>]
  /\ UNCHANGED <<off, todo, bytes>>

Open(f) ==
  /\ off' = [off EXCEPT ![f] = 0]
  /\ UNCHANGED <<todo, ret, bytes>>

Remove(i) ==
  /\ off' = [f \in File |-> IF ip(f) = i THEN 0 ELSE off[f]]
  /\ bytes' = [bytes EXCEPT ![i] = <<>>]
  /\ UNCHANGED <<todo, ret>>

Next ==
  \/ \E p \in Proc, f \in File : StartWrite(p, f)
  \/ \E p \in Proc : WriteFails(p) \/ \E m \in 1 .. Len(todo[p].addr) : Write(p, m)
  \/ \E f \in File : Read(f, ret'.n) \/ ReadFails(f, ret'.n) \/ Open(f)
  \/ \E i \in Inode : Remove(i)

Spec == Init /\ [][Next]_vars
=============================================================================
