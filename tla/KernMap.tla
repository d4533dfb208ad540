------------------------------ MODULE KernMap -------------------------------
(***************************************************************************)
(* The kernel's page table: walkpgdir(), mappages(), setupkvm() and        *)
(* kvmalloc() of vm.c, which run under the EntryPageTable of main.c on the *)
(* pages that kinit1() has freed.                                          *)
(*                                                                         *)
(* Addresses are counted in pages: VSIZE stands for 2^32, and arithmetic   *)
(* on virtual addresses wraps there.  One action is one turn of the loop   *)
(* of mappages().                                                          *)
(***************************************************************************)
EXTENDS Integers, Sequences, FiniteSets

CONSTANTS
  VSIZE,          \* virtual pages
  NPT,            \* entries of a page table
  KERNBASE, EXTMEM, PHYSTOP,
  ENTRYTOP,       \* what EntryPageTable maps: 4 MB
  UART0_BASE_V, VIC_BASE, VEC_TBL, TIMER_BASE,
  Layouts         \* data, end and UART0_BASE_P of the builds considered

v2p(a) == a - KERNBASE
p2v(a) == a + KERNBASE
PDX(va) == va \div NPT
PTX(va) == va % NPT
NoFrame == -1
Frame == 0 .. PHYSTOP - 1

VARIABLES
  lay,            \* the layout
  free,           \* kmem.freelist
  vec,            \* kmap[5].phys_start
  pgdir,          \* kernel_pgdir: the physical address in each entry
  mem,            \* the page tables, by frame
  k,              \* setupkvm(): the row of kmap
  a, last, pa,    \* mappages()
  mode            \* entry, map, hang, or kpgdir once it is in force

vars == <<lay, free, vec, pgdir, mem, k, a, last, pa, mode>>

zeroed == [x \in 0 .. NPT - 1 |-> NoFrame]

\* After kinit1(end, P2V(4 MB)).
Init ==
  /\ lay \in Layouts
  /\ free = v2p(lay.end) .. ENTRYTOP - 1
  /\ vec = NoFrame
  /\ pgdir = [x \in 0 .. VSIZE \div NPT - 1 |-> NoFrame]
  /\ mem = [f \in Frame |-> zeroed]
  /\ k = 0 /\ a = 0 /\ last = 0 /\ pa = 0
  /\ mode = "entry"

\* EntryPageTable: 4 MB at 0 and again at KERNBASE.
EntryPageTable(va) ==
  CASE va \in 0 .. ENTRYTOP - 1 -> va
    [] va \in KERNBASE .. KERNBASE + ENTRYTOP - 1 -> va - KERNBASE
    [] OTHER -> NoFrame

\* kalloc(): the page freed last, which freerange() makes the highest.
Highest(S) == CHOOSE f \in S : \A g \in S : g <= f

-----------------------------------------------------------------------------
kmap(v) == <<
  [virt |-> KERNBASE,          start |-> 0,            end |-> EXTMEM],
  [virt |-> KERNBASE + EXTMEM, start |-> EXTMEM,       end |-> v2p(lay.data)],
  [virt |-> lay.data,          start |-> v2p(lay.data), end |-> v2p(lay.end)],
  [virt |-> lay.end,           start |-> v2p(lay.end), end |-> PHYSTOP],
  [virt |-> UART0_BASE_V,      start |-> lay.uart,     end |-> lay.uart + 1],
  [virt |-> VEC_TBL,           start |-> v,            end |-> lay.uart + 1],
  [virt |-> VIC_BASE,          start |-> VIC_BASE,     end |-> VIC_BASE + 1],
  [virt |-> TIMER_BASE,        start |-> TIMER_BASE,   end |-> TIMER_BASE + 1]>>

\* mappages() of row r begins; the size may wrap, and so may va + size - 1.
Row(r, v) ==
  /\ k' = r
  /\ a' = kmap(v)[r].virt
  /\ last' = (kmap(v)[r].virt + (kmap(v)[r].end - kmap(v)[r].start) - 1) % VSIZE
  /\ pa' = kmap(v)[r].start

\* setupkvm(): a page for the vectors, an empty directory.
setupkvm ==
  /\ mode = "entry"
  /\ free # {}
  /\ vec' = Highest(free) /\ free' = free \ {vec'}
  /\ mode' = "map"
  /\ Row(1, vec')
  /\ UNCHANGED <<lay, pgdir, mem>>

\* walkpgdir(): the table of va, by the address it is found at; a new one is
\* a page from kalloc(), cleared.
walkpgdir(va) ==
  IF pgdir[PDX(va)] # NoFrame
    THEN [pgtab |-> pgdir[PDX(va)], free |-> free, mem |-> mem, pgdir |-> pgdir]
    ELSE IF free = {} THEN [pgtab |-> NoFrame, free |-> free, mem |-> mem, pgdir |-> pgdir]
    ELSE LET f == Highest(free) IN
         [pgtab |-> p2v(f), free |-> free \ {f}, mem |-> [mem EXCEPT ![f] = zeroed],
          pgdir |-> [pgdir EXCEPT ![PDX(va)] = f]]

\* mappages() returns: setupkvm() takes the next row, and after the last one
\* kvmalloc() switches to kpgdir.
NextRow ==
  IF k < Len(kmap(vec)) THEN Row(k + 1, vec) /\ UNCHANGED mode
  ELSE mode' = "kpgdir" /\ UNCHANGED <<k, a, last, pa>>

\* A turn of the loop of mappages(); `done' is its exit condition.  Without a
\* page for the table kvmalloc() loops for ever.
Turn(done) ==
  /\ mode = "map"
  /\ LET w == walkpgdir(a)
         at == EntryPageTable(w.pgtab) IN
     IF w.pgtab = NoFrame
       THEN mode' = "hang" /\ UNCHANGED <<free, mem, pgdir, k, a, last, pa>>
       ELSE /\ free' = w.free /\ pgdir' = w.pgdir
            /\ mem' = IF at = NoFrame THEN w.mem ELSE [w.mem EXCEPT ![at][PTX(a)] = pa]
            /\ IF ~done
                 THEN a' = (a + 1) % VSIZE /\ pa' = pa + 1 /\ UNCHANGED <<k, last, mode>>
                 ELSE NextRow
  /\ UNCHANGED <<lay, vec>>

\* Mutant: "if (a == last)", as the line above the condition has it.
mappages_eq == Turn(a = last)

mappages == Turn(a >= last)

Next == setupkvm \/ mappages

Spec == Init /\ [][Next]_vars

-----------------------------------------------------------------------------
\* The translation of va by kpgdir.
Translate(va) == IF pgdir[PDX(va)] = NoFrame THEN NoFrame ELSE mem[pgdir[PDX(va)]][PTX(va)]

\* Where the rest of the kernel relies on va to lead: V2P() and P2V() of
\* memlayout.h on physical memory, uart.h, picirq.c and timer.c on their
\* device, and trap_init() on a page of its own for the vectors.
Relied(va) ==
  CASE va \in KERNBASE .. KERNBASE + PHYSTOP - 1 -> v2p(va)
    [] va = UART0_BASE_V -> lay.uart
    [] va = VEC_TBL -> vec
    [] va \in {VIC_BASE, TIMER_BASE} -> va
    [] OTHER -> NoFrame

\* kvmalloc(): when kpgdir is in force it maps what the kernel uses to where it
\* uses it, and nothing else - although the end of the row of the vectors is
\* that of another row, and although walkpgdir() uses the physical addresses of
\* tables it comes back to; the page of the vectors and the tables are nobody
\* else's.  The comment above kmap[] says something else of the devices: it has
\* 0xfe000000 and up mapped direct, and everything below KERNBASE the user's.
KernelMapped ==
  mode = "kpgdir" =>
    LET tables == {pgdir[x] : x \in DOMAIN pgdir} \ {NoFrame} IN
    /\ \A va \in 0 .. VSIZE - 1 : Translate(va) = Relied(va)
    /\ vec \notin free \cup tables /\ tables \cap free = {}
    /\ Cardinality(tables) = Cardinality({x \in DOMAIN pgdir : pgdir[x] # NoFrame})
=============================================================================
