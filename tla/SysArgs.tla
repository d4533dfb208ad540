------------------------------ MODULE SysArgs -------------------------------
(***************************************************************************)
(* Fetching the arguments of a system call from the calling process        *)
(* (syscall.c): fetchint(), fetchstr(), argint(), argptr() and argstr().   *)
(*                                                                         *)
(* `user' is the memory of the process, proc->sz bytes at address 0 and    *)
(* up, grown a byte at a time; a word has WORD bytes (4 in the code) of    *)
(* BYTE values, lowest first.  Addresses are unsigned ints and wrap at     *)
(* UINT; `esp' is the stack pointer the process made the call with.        *)
(***************************************************************************)
EXTENDS Integers, Sequences

CONSTANTS
  WORD, BYTE,
  UINT,      \* BYTE ^ WORD
  MaxSz      \* bound on the size of the process

VARIABLE user

sz == Len(user)

ArgInit == user = <<>>

\* The process is a byte larger; any value may be there.
sbrk(c) == sz < MaxSz /\ user' = Append(user, c)

ArgNext == \E c \in 0 .. BYTE - 1 : sbrk(c)

ArgSpec == ArgInit /\ [][ArgNext]_user

-----------------------------------------------------------------------------
\* The int at address addr, as an unsigned one.
Word(addr) ==
  LET byte(a) == IF a < sz THEN user[a + 1] ELSE 0   \* nobody's memory
      to[k \in 0 .. WORD] == IF k = 0 THEN 0 ELSE to[k - 1] * BYTE + byte(addr + WORD - k)
  IN to[WORD]

Fail == [ok |-> FALSE, v |-> 0]
Ok(v) == [ok |-> TRUE, v |-> v]

fetchint(addr) ==
  IF addr >= sz \/ (addr + WORD) % UINT > sz THEN Fail ELSE Ok(Word(addr))

\* The loop over s; the length of the string.
fetchstr(addr) ==
  LET from[s \in addr .. sz] ==
        CASE s = sz -> Fail
          [] s < sz /\ user[s + 1] = 0 -> Ok(s - addr)
          [] OTHER -> from[s + 1]
  IN IF addr >= sz THEN Fail ELSE from[addr]

argint(esp, n) == fetchint((esp + WORD + WORD * n) % UINT)

\* size is an int: a negative one is added as UINT less its amount, and the sum
\* wraps back below the pointer.
argptr(esp, n, size) ==
  LET i == argint(esp, n)
  IN IF ~i.ok \/ i.v >= sz \/ (i.v + size) % UINT > sz THEN Fail ELSE i

argstr(esp, n) ==
  LET addr == argint(esp, n)
  IN IF addr.ok THEN fetchstr(addr.v) ELSE Fail

-----------------------------------------------------------------------------
Uint == 0 .. UINT - 1

\* The addresses a .. a + n - 1 belong to the process.
Inside(a, n) == a < sz /\ a + n <= sz

\* A system call gets an int exactly when the whole word is in the process, a
\* string exactly when its NUL is, and a block of `size' bytes exactly when the
\* block is and begins below proc->sz, for any address: addr + 4 and i + size
\* wrap near the top, which the first test of each routine has to refuse.  Of a
\* negative size, which sys_read() and sys_write() pass on from their caller,
\* argptr() promises no more than that the pointer is in the process.
ArgumentsInside ==
  /\ \A a \in Uint :
       /\ fetchint(a).ok <=> Inside(a, WORD)
       /\ LET nul == {s \in a .. sz - 1 : user[s + 1] = 0}
          IN /\ fetchstr(a).ok <=> nul # {}
             /\ fetchstr(a).ok => /\ a + fetchstr(a).v \in nul
                                  /\ \A s \in nul : a + fetchstr(a).v <= s
  /\ \A esp \in Uint, n \in 0 .. 2 :
       LET at == (esp + WORD + WORD * n) % UINT
           v == Word(at) IN
       /\ \A size \in 0 .. UINT \div 2 - 1 :
            argptr(esp, n, size) =
              IF Inside(at, WORD) /\ Inside(v, size) THEN Ok(v) ELSE Fail
       /\ \A size \in - (UINT \div 2) .. -1 :
            argptr(esp, n, size).ok => Inside(at, WORD) /\ argptr(esp, n, size) = Ok(v) /\ v < sz
       /\ argstr(esp, n).ok =>
            Inside(at, WORD) /\ Inside(v, argstr(esp, n).v + 1)
=============================================================================
