------------------------------ MODULE Console -------------------------------
(***************************************************************************)
(* The input side of console.c: consoleintr() edits a line in the ring     *)
(* input.buf, console_read() takes committed bytes out of it.  r, w and e  *)
(* are unsigned and wrap around; the ring is indexed modulo INPUT_BUF.     *)
(* The locking, the sleep and the end-of-file lines of console_read() and  *)
(* all of consoleintr() are modelled from their commented-out text.        *)
(***************************************************************************)
EXTENDS Integers, Sequences

CONSTANTS
  Proc,
  INPUT_BUF,
  UINT,           \* 2^32, a multiple of INPUT_BUF
  MaxN            \* bound: the largest read

Nobody == 0         \* no process; processes are positive
Nul == "nul"
CtrlD == "^D"
Newline == "\n"
Char == {"a", CtrlD, Newline}
\* What getc() returns, process listing and second names of a key left out.
Key == {"a", CtrlD, Newline, "\r", Nul, "^U", "^H"}

VARIABLES
  r, w, e, buf,
  lock,           \* the holder of input.lock
  pc,             \* idle, reading, sleeping, woken
  n, target,
  killed

vars == <<r, w, e, buf, lock, pc, n, target, killed>>

Init ==
  /\ r = 0 /\ w = 0 /\ e = 0
  /\ buf = [i \in 0 .. INPUT_BUF - 1 |-> Nul]
  /\ lock = Nobody
  /\ pc = [q \in Proc |-> "idle"]
  /\ n = [q \in Proc |-> 0]
  /\ target = [q \in Proc |-> 0]
  /\ killed = [q \in Proc |-> FALSE]

Inc(i) == (i + 1) % UINT
Dec(i) == (i - 1) % UINT
Used(from, to) == (to - from) % UINT

-----------------------------------------------------------------------------
(* consoleintr(): one key.  It holds input.lock with interrupts off.       *)

\* How far back ^U goes.
RECURSIVE LineStart(_)
LineStart(i) ==
  IF i # w /\ buf[Dec(i) % INPUT_BUF] # Newline THEN LineStart(Dec(i)) ELSE i

wakeup == [q \in Proc |-> IF pc[q] = "sleeping" THEN "woken" ELSE pc[q]]

\* Mutant: one key too many.
Room_over == Used(r, e) <= INPUT_BUF

Room == Used(r, e) < INPUT_BUF

consoleintr(key) ==
  /\ lock = Nobody
  /\ \/ /\ key = "^U"
        /\ e' = LineStart(e)
        /\ UNCHANGED <<w, buf, pc>>
     \/ /\ key = "^H" /\ e # w
        /\ e' = Dec(e)
        /\ UNCHANGED <<w, buf, pc>>
     \/ /\ key \notin {"^U", "^H", Nul} /\ Room
        /\ LET c == IF key = "\r" THEN Newline ELSE key IN
           /\ buf' = [buf EXCEPT ![e % INPUT_BUF] = c]
           /\ e' = Inc(e)
           /\ IF c \in {Newline, CtrlD} \/ e' = (r + INPUT_BUF) % UINT
                THEN w' = e' /\ pc' = wakeup
                ELSE UNCHANGED <<w, pc>>
  /\ UNCHANGED <<r, lock, n, target, killed>>

-----------------------------------------------------------------------------
(* console_read()                                                          *)

console_read(q, k) ==
  /\ pc[q] = "idle" /\ ~killed[q] /\ lock = Nobody
  /\ lock' = q
  /\ pc' = [pc EXCEPT ![q] = "reading"]
  /\ n' = [n EXCEPT ![q] = k]
  /\ target' = [target EXCEPT ![q] = k]
  /\ UNCHANGED <<r, w, e, buf, killed>>

\* Nothing to read: give up when killed, or sleep.
read_empty(q) ==
  /\ lock = q /\ n[q] > 0 /\ r = w
  /\ lock' = Nobody
  /\ IF killed[q]
       THEN /\ pc' = [pc EXCEPT ![q] = "idle"]
            /\ n' = [n EXCEPT ![q] = 0]
            /\ target' = [target EXCEPT ![q] = 0]
       ELSE /\ pc' = [pc EXCEPT ![q] = "sleeping"]
            /\ UNCHANGED <<n, target>>
  /\ UNCHANGED <<r, w, e, buf, killed>>

Return(q) ==
  /\ lock' = Nobody
  /\ pc' = [pc EXCEPT ![q] = "idle"]
  /\ n' = [n EXCEPT ![q] = 0]
  /\ target' = [target EXCEPT ![q] = 0]

\* A byte; a ^D after other bytes is left for the next call.
read_byte(q) ==
  /\ lock = q /\ n[q] > 0 /\ r # w
  /\ LET c == buf[r % INPUT_BUF] IN
     /\ r' = IF c = CtrlD /\ n[q] < target[q] THEN r ELSE Inc(r)
     /\ IF c \in {CtrlD, Newline}
          THEN Return(q)
          ELSE n' = [n EXCEPT ![q] = @ - 1] /\ UNCHANGED <<lock, pc, target>>
  /\ UNCHANGED <<w, e, buf, killed>>

read_done(q) ==
  /\ lock = q /\ n[q] = 0
  /\ Return(q)
  /\ UNCHANGED <<r, w, e, buf, killed>>

\* The end of sleep(): take the lock again.
read_wake(q) ==
  /\ pc[q] = "woken" /\ lock = Nobody
  /\ lock' = q
  /\ pc' = [pc EXCEPT ![q] = "reading"]
  /\ UNCHANGED <<r, w, e, buf, n, target, killed>>

\* kill() makes a sleeping process run.
kill(q) ==
  /\ ~killed[q]
  /\ killed' = [killed EXCEPT ![q] = TRUE]
  /\ pc' = IF pc[q] = "sleeping" THEN [pc EXCEPT ![q] = "woken"] ELSE pc
  /\ UNCHANGED <<r, w, e, buf, lock, n, target>>

Next ==
  \/ \E key \in Key : consoleintr(key)
  \/ \E q \in Proc :
       \/ \E k \in 0 .. MaxN : console_read(q, k)
       \/ read_empty(q)
       \/ read_byte(q)
       \/ read_done(q)
       \/ read_wake(q)
       \/ kill(q)

Spec == Init /\ [][Next]_vars

-----------------------------------------------------------------------------
Slice(from, to) == [i \in 1 .. Used(from, to) |-> buf[(from + i - 1) % INPUT_BUF]]

LB == INSTANCE LineBuffer WITH
  LineEnd <- {CtrlD, Newline}, Capacity <- INPUT_BUF,
  ready <- Slice(r, w), edit <- Slice(w, e)

\* No reader sleeps while there is something to read, and a ring that is full
\* holds something to read: consoleintr() drops every key until a reader runs.
ReadersAwake ==
  /\ \A q \in Proc : pc[q] = "sleeping" => r = w
  /\ Used(r, e) = INPUT_BUF => w = e

\* The ring with its three wrapping indices is a line buffer of INPUT_BUF
\* characters, whichever readers share it, and nobody waits for nothing.
RingIsLineBuffer == LB!Spec /\ []ReadersAwake
=============================================================================
