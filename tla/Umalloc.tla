------------------------------ MODULE Umalloc -------------------------------
(***************************************************************************)
(* The heap of a user program: malloc(), free() and morecore() of umalloc.c*)
(* in units of a Header.  The free list is a ring of headers in address    *)
(* order that starts at `base', which lies below the heap.                 *)
(*                                                                         *)
(* A program has one thread.  The loops of malloc() and free() take one    *)
(* action per header they look at.                                         *)
(***************************************************************************)
EXTENDS Integers, FiniteSets

CONSTANTS
  MinCore,        \* 4096: the least that morecore() asks for
  HeapEnd,        \* bound: sbrk() fails beyond it
  MaxUnits        \* bound: the largest request, the header included

base == 0
Null == -1
Addr == 1 .. HeapEnd - 1

VARIABLES
  ptr, size,      \* s.ptr and s.size of the header at each address
  freep,
  brk,            \* the end of the heap
  pc,             \* idle, scan, place
  p, prevp,       \* of malloc(); p of free()
  nunits,         \* of malloc(), 0 for a call of free()
  bp,             \* of free()
  live,           \* the blocks of the program
  lost            \* the units that the program took with sbrk() itself

vars == <<ptr, size, freep, brk, pc, p, prevp, nunits, bp, live, lost>>

Init ==
  /\ ptr = [x \in {base} \cup Addr |-> Null]
  /\ size = [x \in {base} \cup Addr |-> 0]
  /\ freep = Null
  /\ brk = 1
  /\ pc = "idle" /\ p = Null /\ prevp = Null /\ nunits = 0 /\ bp = Null
  /\ live = {} /\ lost = {}

Return == pc' = "idle" /\ p' = Null /\ prevp' = Null /\ nunits' = 0 /\ bp' = Null

-----------------------------------------------------------------------------
(* malloc()                                                                *)

malloc(n) ==
  /\ pc = "idle"
  /\ LET first == freep = Null IN
     /\ ptr' = IF first THEN [ptr EXCEPT ![base] = base] ELSE ptr
     /\ freep' = IF first THEN base ELSE freep
     /\ prevp' = IF first THEN base ELSE freep
     /\ p' = IF first THEN base ELSE ptr[freep]
  /\ nunits' = n
  /\ pc' = "scan"
  /\ UNCHANGED <<size, brk, bp, live, lost>>

\* A block that is large enough: all of it, or its tail end.
malloc_take ==
  /\ pc = "scan" /\ size[p] >= nunits
  /\ IF size[p] = nunits
       THEN /\ ptr' = [ptr EXCEPT ![prevp] = ptr[p]]
            /\ live' = live \cup {p}
            /\ UNCHANGED size
       ELSE LET q == p + size[p] - nunits IN
            /\ size' = [size EXCEPT ![p] = @ - nunits, ![q] = nunits]
            /\ live' = live \cup {q}
            /\ UNCHANGED ptr
  /\ freep' = prevp
  /\ Return
  /\ UNCHANGED <<brk, lost>>

malloc_next ==
  /\ pc = "scan" /\ size[p] < nunits /\ p # freep
  /\ prevp' = p
  /\ p' = ptr[p]
  /\ UNCHANGED <<ptr, size, freep, brk, pc, nunits, bp, live, lost>>

\* Once around: morecore() frees a new block at the end of the heap, or
\* malloc() returns 0.
malloc_morecore ==
  /\ pc = "scan" /\ size[p] < nunits /\ p = freep
  /\ LET nu == IF nunits < MinCore THEN MinCore ELSE nunits IN
     IF brk + nu > HeapEnd
       THEN Return /\ UNCHANGED <<size, brk>>
       ELSE /\ brk' = brk + nu
            /\ size' = [size EXCEPT ![brk] = nu]
            /\ bp' = brk
            /\ p' = freep
            /\ pc' = "place"
            /\ UNCHANGED <<prevp, nunits>>
  /\ UNCHANGED <<ptr, freep, live, lost>>

-----------------------------------------------------------------------------
(* free()                                                                  *)

free(b) ==
  /\ pc = "idle" /\ b \in live
  /\ live' = live \ {b}
  /\ bp' = b
  /\ p' = freep
  /\ pc' = "place"
  /\ UNCHANGED <<ptr, size, freep, brk, prevp, nunits, lost>>

\* The loop of free() ends between p and p->s.ptr, or at the end of the ring.
Between == (bp > p /\ bp < ptr[p]) \/ (p >= ptr[p] /\ (bp > p \/ bp < ptr[p]))

free_next ==
  /\ pc = "place" /\ ~Between
  /\ p' = ptr[p]
  /\ UNCHANGED <<ptr, size, freep, brk, pc, prevp, nunits, bp, live, lost>>

\* After free() in morecore() malloc() goes on behind freep.
Resume ==
  IF nunits = 0 THEN Return
  ELSE pc' = "scan" /\ prevp' = freep' /\ p' = ptr'[freep'] /\ bp' = Null /\ UNCHANGED nunits

\* Mutant: the block is not joined with the one below it.
free_link_nojoin ==
  /\ pc = "place" /\ Between
  /\ LET up == bp + size[bp] = ptr[p]
         sz == IF up THEN size[bp] + size[ptr[p]] ELSE size[bp]
         nx == IF up THEN ptr[ptr[p]] ELSE ptr[p] IN
     /\ size' = [size EXCEPT ![bp] = sz]
     /\ ptr' = [ptr EXCEPT ![bp] = nx, ![p] = bp]
  /\ freep' = p
  /\ Resume
  /\ UNCHANGED <<brk, live, lost>>

\* Join with the block above, and with the one below.
free_link ==
  /\ pc = "place" /\ Between
  /\ LET up == bp + size[bp] = ptr[p]
         down == p + size[p] = bp
         sz == IF up THEN size[bp] + size[ptr[p]] ELSE size[bp]
         nx == IF up THEN ptr[ptr[p]] ELSE ptr[p] IN
     /\ size' = IF down THEN [size EXCEPT ![bp] = sz, ![p] = @ + sz]
                        ELSE [size EXCEPT ![bp] = sz]
     /\ ptr' = [ptr EXCEPT ![bp] = nx, ![p] = IF down THEN nx ELSE bp]
  /\ freep' = p
  /\ Resume
  /\ UNCHANGED <<brk, live, lost>>

\* The program grows its memory without malloc().
sbrk ==
  /\ pc = "idle" /\ brk < HeapEnd
  /\ brk' = brk + 1
  /\ lost' = lost \cup {brk}
  /\ UNCHANGED <<ptr, size, freep, pc, p, prevp, nunits, bp, live>>

Next ==
  \/ \E n \in 1 .. MaxUnits : malloc(n)
  \/ malloc_take
  \/ malloc_next
  \/ malloc_morecore
  \/ \E b \in live : free(b)
  \/ free_next
  \/ free_link
  \/ sbrk

Spec == Init /\ [][Next]_vars

-----------------------------------------------------------------------------
Units(b) == b .. b + size[b] - 1
\* The headers that the ring reaches from base.
Ring ==
  IF freep = Null THEN {} ELSE
  LET r[k \in 0 .. HeapEnd] == IF k = 0 THEN base ELSE ptr[r[k - 1]]
  IN  {r[k] : k \in 0 .. HeapEnd}
FreeBlocks == Ring \ {base}

\* Between two calls the free list is one ring in address order, freep is on
\* it, no two free blocks touch, and every unit that morecore() got is in one
\* free block or in one block of the program: nothing is handed out twice and
\* nothing is lost, in whichever order blocks come back.
HeapIntact ==
  pc = "idle" /\ freep # Null =>
    /\ freep \in Ring
    /\ Cardinality({x \in Ring : ptr[x] <= x}) = 1
    /\ \A x \in FreeBlocks : size[x] > 0 /\ (ptr[x] # base => x + size[x] < ptr[x])
    /\ \A x, y \in FreeBlocks \cup live : x # y => Units(x) \cap Units(y) = {}
    /\ UNION {Units(x) : x \in FreeBlocks \cup live} = (1 .. brk - 1) \ lost
=============================================================================
