------------------------------ MODULE Strings -------------------------------
(***************************************************************************)
(* The memory and string routines of string.c (only memset() is live) and  *)
(* ulib.c, and the conversions printint() of console.c and printf.c and    *)
(* atoi() of ulib.c, over a memory `mem' of bytes that is grown a byte at  *)
(* a time.  A routine is the loop of the code; the property compares it    *)
(* with what it is for, for every choice of arguments inside the memory.   *)
(***************************************************************************)
EXTENDS Integers, Sequences

CONSTANTS
  BYTE,     \* number of values of a byte
  MaxMem,   \* bound on the size of the memory
  BASE,     \* base of the decimal conversions
  UINT      \* number of values of an unsigned int

VARIABLE mem

StrInit == mem = <<>>

grow(c) == Len(mem) < MaxMem /\ mem' = Append(mem, c)

StrNext == \E c \in 0 .. BYTE - 1 : grow(c)

Addr == 1 .. Len(mem)

\* Some byte from s on is NUL: a string starts at s.
IsString(s) == \E i \in s .. Len(mem) : mem[i] = 0

strlen(m, s) ==
  LET from[n \in 0 .. Len(m) - s] == IF m[s + n] = 0 THEN n ELSE from[n + 1] IN from[0]

-----------------------------------------------------------------------------
\* `*d++ = *s++', n times; and `*--d = *--s' from the ends.
forward(d, s, n) ==
  LET to[k \in 0 .. n] ==
        IF k = 0 THEN mem ELSE LET m == to[k - 1] IN [m EXCEPT ![d + k - 1] = m[s + k - 1]]
  IN to[n]

backward(d, s, n) ==
  LET to[k \in 0 .. n] ==
        IF k = 0 THEN mem ELSE LET m == to[k - 1] IN [m EXCEPT ![d + n - k] = m[s + n - k]]
  IN to[n]

\* Mutant: the overlap is tested the wrong way round.
memmove_below(d, s, n) == IF s < d /\ s + n < d THEN backward(d, s, n) ELSE forward(d, s, n)

memmove(d, s, n) == IF s < d /\ s + n > d THEN backward(d, s, n) ELSE forward(d, s, n)

\* ulib.c's memmove() copies forward only.
umemmove(d, s, n) == forward(d, s, n)

\* string.c's memset() stores whole words of four bytes, each the `or' of c
\* shifted by 0 to 31: all ones from the lowest bit of c on.
memset(d, c, size) ==
  LET low == CHOOSE b \in {2 ^ k : k \in 0 .. BYTE} : c % (2 * b) = b
      f == IF c = 0 THEN <<0, 0, 0, 0>> ELSE <<BYTE - low, BYTE - 1, BYTE - 1, BYTE - 1>>
  IN [i \in Addr |-> IF d <= i /\ i < d + 4 * (size \div 4) THEN f[((i - d) % 4) + 1] ELSE mem[i]]

strncmp(p, q, n) ==
  LET from[k \in 0 .. n] ==
        IF k < n /\ p[k + 1] # 0 /\ p[k + 1] = q[k + 1] THEN from[k + 1] ELSE k
  IN IF from[0] = n THEN 0 ELSE p[from[0] + 1] - q[from[0] + 1]

\* The bytes are copied up to the NUL; the rest of the n are NULs.
strncpy(d, t, n) ==
  LET to[k \in 0 .. n] ==
        IF k = 0 THEN mem
        ELSE LET m == to[k - 1]
                 pads == k > 1 /\ m[d + k - 2] = 0
             IN [m EXCEPT ![d + k - 1] = IF pads THEN 0 ELSE m[t + k - 1]]
  IN to[n]

\* k bytes are copied, at most n - 1; the NUL is stored behind the last one,
\* which may be a NUL itself.
safestrcpy(d, t, n) ==
  LET len == strlen(mem, t)
      copied == IF len + 1 < n - 1 THEN len + 1 ELSE n - 1
  IN IF n <= 0 THEN mem ELSE [forward(d, t, copied) EXCEPT ![d + copied] = 0]

-----------------------------------------------------------------------------
\* The digits come out lowest first and are printed from the last.
digits(x, base) ==
  LET from[y \in 0 .. UINT - 1] ==
        IF y < base THEN <<y>> ELSE Append(from[y \div base], y % base)
  IN from[x]

\* x is unsigned: minus the smallest int is its own magnitude.
printint(xx, base, sgn) ==
  LET neg == sgn /\ xx < 0
  IN [minus |-> neg, digits |-> digits((IF neg THEN -xx ELSE xx) % UINT, base)]

\* The loop, over digits; n is an int that wraps.
atoi(s) ==
  LET to[k \in 0 .. Len(s)] == IF k = 0 THEN 0 ELSE (to[k - 1] * BASE + s[k]) % UINT
      n == to[Len(s)]
  IN IF n >= UINT \div 2 THEN n - UINT ELSE n

StrSpec == StrInit /\ [][StrNext]_mem

-----------------------------------------------------------------------------
Apart(d, s, n) == d + n <= s \/ s + n <= d

\* Only the n bytes at d differ.
Only(m, d, n) == \A i \in Addr : m[i] # mem[i] => i \in d .. d + n - 1

\* The n bytes at s, wherever d is: what memmove() is for.
Moved(m, d, s, n) ==
  Only(m, d, n) /\ \A k \in 0 .. n - 1 : m[d + k] = mem[s + k]

\* string.c's memmove() copies overlapping blocks either way, ulib.c's only
\* downwards, the way grep() uses it; memset() clears blocks of whole words
\* and, called with 1 as kfree() does, leaves no byte of them clear.
BlocksMove ==
  \A d, s \in Addr : \A n \in 0 .. Len(mem) + 1 - (IF d > s THEN d ELSE s) :
    /\ Moved(memmove(d, s, n), d, s, n)
    /\ d <= s \/ Apart(d, s, n) => Moved(umemmove(d, s, n), d, s, n)
    /\ n % 4 = 0 =>
         \A c \in {0, 1} :
           /\ Only(memset(d, c, n), d, n)
           /\ \A k \in 0 .. n - 1 : (memset(d, c, n)[d + k] = 0) <=> (c = 0)

Bytes(m, s, n) == SubSeq(m, s, s + n - 1)

\* A name dirlink() stores with strncpy() is the one dirlookup() finds with
\* strncmp(), also when it fills the field and no NUL fits behind it, and no
\* other name is; what safestrcpy() stores in n bytes is a string, the first
\* bytes of the source.
NamesFound ==
  \A d, t, u \in Addr : \A n \in 1 .. Len(mem) + 1 - d :
    Apart(d, t, n) /\ IsString(t) /\ IsString(u) /\ t + n - 1 <= Len(mem) /\ u + n - 1 <= Len(mem)
      => LET name == strncpy(d, t, n)
             same == \A k \in 0 .. n - 1 :
                       (\A j \in 0 .. k - 1 : mem[t + j] # 0) => mem[t + k] = mem[u + k]
             copy == safestrcpy(d, t, n)
         IN /\ Only(name, d, n) /\ Only(copy, d, n)
            /\ (strncmp(Bytes(mem, u, n), Bytes(name, d, n), n) = 0) <=> same
            /\ strlen(copy, d) = IF strlen(mem, t) < n THEN strlen(mem, t) ELSE n - 1
            /\ \A k \in 0 .. strlen(copy, d) - 1 : copy[d + k] = mem[t + k]

\* printint() prints every int, the smallest included, and atoi() reads back
\* what printint() prints of one that is not negative.
NumbersRoundTrip ==
  \A xx \in -(UINT \div 2) .. UINT \div 2 - 1 :
    LET p == printint(xx, BASE, TRUE)
        value[k \in 0 .. Len(p.digits)] ==
          IF k = 0 THEN 0 ELSE value[k - 1] * BASE + p.digits[k]
    IN /\ (IF p.minus THEN -1 ELSE 1) * value[Len(p.digits)] = xx
       /\ Len(p.digits) > 1 => p.digits[1] # 0
       /\ xx >= 0 => atoi(p.digits) = xx

\* The routines do what their callers rely on.
StringsMeet == BlocksMove /\ NamesFound /\ (mem = <<>> => NumbersRoundTrip)
=============================================================================
