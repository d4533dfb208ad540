----------------------------- MODULE AddrSpace ------------------------------
(***************************************************************************)
(* The memory of user processes: allocuvm(), deallocuvm(), copyuvm() and   *)
(* freevm() of vm.c, and their callers growproc(), fork() and wait() of    *)
(* proc.c and exec() of exec.c, over the pages that kalloc() gives out.    *)
(*                                                                         *)
(* A loop that allocates takes one action per page.  kalloc() can fail at  *)
(* any call, since the rest of the kernel uses pages too; processes meet   *)
(* here only in taking pages, so one system call at a time is enough.      *)
(* setupkvm() is taken to return a new page directory, as its callers      *)
(* expect.                                                                 *)
(***************************************************************************)
EXTENDS Integers, FiniteSets, FiniteSetsExt

CONSTANTS
  Proc,
  First,          \* the process that userinit() made
  Page,           \* physical pages
  PGSIZE,
  NPages,         \* pages below KERNBASE
  TabSize,        \* pages one page table maps
  NPTENTRIES,     \* what deallocuvm() takes TabSize for
  UINT,           \* 2^32
  MaxGrow,        \* bound: the largest argument of sbrk()
  None

AddrSpaceAssumption ==
  /\ First \in Proc
  /\ PGSIZE \in Nat \ {0} /\ TabSize \in Nat \ {0} /\ NPTENTRIES \in Nat \ {0}
  /\ NPages % TabSize = 0
  /\ NPages * PGSIZE < UINT
  /\ None \notin Page

KERNBASE == NPages * PGSIZE
PGROUNDUP(a) == ((a + PGSIZE - 1) \div PGSIZE) * PGSIZE
Vpn == 0 .. NPages - 1
Tab == 0 .. (NPages \div TabSize) - 1
PDX(v) == v \div TabSize

VARIABLES
  free,           \* pages on the free list
  as,             \* proc->pgdir of each process: directory, tables, pages
  sz,             \* proc->sz
  pc,             \* user, grow, copy, image, stack
  proc,           \* the process in a system call
  new,            \* the address space that copyuvm() or exec() builds
  a, goal,        \* the loop of allocuvm() and where it ends
  child,          \* fork's np
  ignored,        \* history: a failure of mappages() lost a page
  emptied         \* history: growproc() took all of a process's memory

vars == <<free, as, sz, pc, proc, new, a, goal, child, ignored, emptied>>

NoSpace == [dir |-> None, tab |-> [t \in Tab |-> None], map |-> [v \in Vpn |-> None]]
Pages(s) == ({s.dir} \cup {s.tab[t] : t \in Tab} \cup {s.map[v] : v \in Vpn}) \ {None}
Used(s) == s.dir # None

\* kalloc(): a free page, if there is one.  Pages are interchangeable, so one
\* choice stands for all.
kalloc(fr) == IF fr = {} THEN {} ELSE {CHOOSE m \in fr : TRUE}

\* userinit(): one page at address 0.
Init ==
  \E d \in kalloc(Page) : \E t \in kalloc(Page \ {d}) : \E m \in kalloc(Page \ {d, t}) :
    /\ free = Page \ {d, t, m}
    /\ as = [p \in Proc |-> IF p # First THEN NoSpace ELSE
               [dir |-> d, tab |-> [NoSpace.tab EXCEPT ![0] = t],
                map |-> [NoSpace.map EXCEPT ![0] = m]]]
    /\ sz = [p \in Proc |-> IF p = First THEN PGSIZE ELSE 0]
    /\ pc = "user" /\ proc = None /\ new = NoSpace
    /\ a = 0 /\ goal = 0 /\ child = None
    /\ ignored = FALSE /\ emptied = FALSE

-----------------------------------------------------------------------------
(* vm.c                                                                    *)

\* kalloc() and mappages() of page v in s: no page, no page for the table, or
\* mapped.
MapPage(s, v, fr) ==
  {[s |-> s, free |-> fr, res |-> "nomem"]} \cup
  IF s.tab[PDX(v)] # None
    THEN {[s |-> [s EXCEPT !.map[v] = m], free |-> fr \ {m}, res |-> "ok"] : m \in kalloc(fr)}
    ELSE UNION {
      {[s |-> s, free |-> fr \ {m}, res |-> "notab"]} \cup
      {[s |-> [s EXCEPT !.tab[PDX(v)] = t, !.map[v] = m], free |-> fr \ {m, t}, res |-> "ok"] :
         t \in kalloc(fr \ {m})} : m \in kalloc(fr)}

\* The pages that the loop of deallocuvm() comes to, from `from' to `to'.
\* Where there is no table it steps over NPTENTRIES pages.
Visited(s, from, to) ==
  LET f[x \in 0 .. KERNBASE + NPTENTRIES * PGSIZE] ==
        IF x >= to THEN {}
        ELSE IF s.tab[PDX(x \div PGSIZE)] = None THEN f[x + NPTENTRIES * PGSIZE]
        ELSE {x \div PGSIZE} \cup f[x + PGSIZE]
  IN  f[PGROUNDUP(from)]

\* deallocuvm(): s without those pages, and the pages it gives back.
deallocuvm(s, oldsz, newsz) ==
  LET V == Visited(s, newsz, oldsz) IN
  [s |-> [s EXCEPT !.map = [v \in Vpn |-> IF v \in V THEN None ELSE s.map[v]]],
   pages |-> {s.map[v] : v \in V} \ {None}]

\* freevm(): the pages it gives back.
freevm(s) ==
  deallocuvm(s, KERNBASE, 0).pages \cup (({s.dir} \cup {s.tab[t] : t \in Tab}) \ {None})

\* Back to user mode.
Return ==
  /\ new' = NoSpace
  /\ child' = None
  /\ proc' = None /\ pc' = "user"
  /\ a' = 0 /\ goal' = 0

-----------------------------------------------------------------------------
(* sbrk(): growproc()                                                      *)

\* growproc(n), n > 0: the checks of allocuvm().
growproc(p) ==
  /\ Used(as[p]) /\ proc = None
  /\ \E n \in 1 .. MaxGrow :
       LET newsz == (sz[p] + n) % UINT IN
       /\ newsz < KERNBASE /\ newsz >= sz[p]
       /\ goal' = newsz
  /\ a' = PGROUNDUP(sz[p])
  /\ proc' = p /\ pc' = "grow"
  /\ UNCHANGED <<free, as, sz, new, child, ignored, emptied>>

\* Mutant: what was allocated before the failure is kept.
grow_keep(p) ==
  /\ proc = p /\ pc = "grow"
  /\ IF a >= goal
       THEN /\ sz' = [sz EXCEPT ![p] = goal]
            /\ Return
            /\ UNCHANGED <<free, as, ignored>>
       ELSE \E o \in MapPage(as[p], a \div PGSIZE, free) :
            IF o.res = "nomem"
              THEN Return /\ UNCHANGED <<free, as, sz, ignored>>
              ELSE /\ as' = [as EXCEPT ![p] = o.s]
                   /\ free' = o.free
                   /\ a' = a + PGSIZE
                   /\ ignored' = (ignored \/ o.res = "notab")
                   /\ UNCHANGED <<sz, pc, proc, new, goal, child>>
  /\ UNCHANGED emptied

\* One turn of the loop of allocuvm(), which does not look at the result of
\* mappages(), or its end.
grow(p) ==
  /\ proc = p /\ pc = "grow"
  /\ IF a >= goal
       THEN /\ sz' = [sz EXCEPT ![p] = goal]
            /\ Return
            /\ UNCHANGED <<free, as, ignored>>
       ELSE \E o \in MapPage(as[p], a \div PGSIZE, free) :
            IF o.res = "nomem"
              THEN /\ LET d == deallocuvm(as[p], goal, sz[p]) IN
                        as' = [as EXCEPT ![p] = d.s] /\ free' = free \cup d.pages
                   /\ Return
                   /\ UNCHANGED <<sz, ignored>>
              ELSE /\ as' = [as EXCEPT ![p] = o.s]
                   /\ free' = o.free
                   /\ a' = a + PGSIZE
                   /\ ignored' = (ignored \/ o.res = "notab")
                   /\ UNCHANGED <<sz, pc, proc, new, goal, child>>
  /\ UNCHANGED emptied

\* growproc(-n): deallocuvm() below zero does nothing, and growproc() takes a
\* new size of 0 for an error.
growproc_shrink(p) ==
  /\ Used(as[p]) /\ proc = None
  /\ \E n \in 1 .. MaxGrow :
       LET newsz == (sz[p] - n + UINT) % UINT
           d == deallocuvm(as[p], sz[p], newsz) IN
       /\ newsz < sz[p]
       /\ as' = [as EXCEPT ![p] = d.s]
       /\ free' = free \cup d.pages
       /\ sz' = IF newsz = 0 THEN sz ELSE [sz EXCEPT ![p] = newsz]
       /\ emptied' = (emptied \/ newsz = 0)
  /\ UNCHANGED <<pc, proc, new, a, goal, child, ignored>>

-----------------------------------------------------------------------------
(* fork(): copyuvm()                                                       *)

\* setupkvm() for the copy.
copyuvm(p, q) ==
  /\ Used(as[p]) /\ proc = None
  /\ ~Used(as[q])
  /\ \E d \in kalloc(free) :
       /\ new' = [NoSpace EXCEPT !.dir = d]
       /\ free' = free \ {d}
  /\ child' = q
  /\ a' = 0
  /\ proc' = p /\ pc' = "copy"
  /\ UNCHANGED <<as, sz, goal, ignored, emptied>>

\* One turn of the loop of copyuvm(): the error path frees the copy, but not
\* the page it could not map.  Where the parent has no page copyuvm() panics,
\* and the process goes no further.
copyuvm_page(p) ==
  /\ proc = p /\ pc = "copy"
  /\ a < sz[p]
  /\ as[p].map[a \div PGSIZE] # None
  /\ \E o \in MapPage(new, a \div PGSIZE, free) :
       IF o.res = "ok"
         THEN /\ new' = o.s
              /\ free' = o.free
              /\ a' = a + PGSIZE
              /\ UNCHANGED <<pc, proc, child, goal, ignored>>
         ELSE /\ free' = o.free \cup freevm(new)
              /\ ignored' = (ignored \/ o.res = "notab")
              /\ Return
  /\ UNCHANGED <<as, sz, emptied>>

\* fork(): the copy becomes the child's memory.
fork(p) ==
  /\ proc = p /\ pc = "copy"
  /\ a >= sz[p]
  /\ as' = [as EXCEPT ![child] = new]
  /\ sz' = [sz EXCEPT ![child] = sz[p]]
  /\ Return
  /\ UNCHANGED <<free, ignored, emptied>>

-----------------------------------------------------------------------------
(* exec() and exit()                                                       *)

\* setupkvm() and the segments of the program, which end at `goal'.
exec(p) ==
  /\ Used(as[p]) /\ proc = None
  /\ \E d \in kalloc(free), n \in 0 .. KERNBASE - 1 :
       /\ new' = [NoSpace EXCEPT !.dir = d]
       /\ free' = free \ {d}
       /\ goal' = n
  /\ a' = 0
  /\ proc' = p /\ pc' = "image"
  /\ UNCHANGED <<as, sz, child, ignored, emptied>>

\* Mutant: the freed directory is kept.
exec_bad_keep(p) ==
  /\ proc = p /\ pc \in {"image", "stack"}
  /\ free' = free \cup freevm(new)
  /\ proc' = None /\ pc' = "user"
  /\ UNCHANGED <<as, sz, new, child, a, goal, ignored, emptied>>

\* "bad:" of exec().
exec_bad(p) ==
  /\ proc = p /\ pc \in {"image", "stack"}
  /\ free' = free \cup freevm(new)
  /\ Return
  /\ UNCHANGED <<as, sz, ignored, emptied>>

\* One turn of the loop of allocuvm() for exec(); the failure of kalloc() is
\* exec_bad.
exec_page(p) ==
  /\ proc = p /\ pc \in {"image", "stack"}
  /\ a < goal
  /\ \E o \in MapPage(new, a \div PGSIZE, free) :
       /\ o.res # "nomem"
       /\ new' = o.s
       /\ free' = o.free
       /\ ignored' = (ignored \/ o.res = "notab")
  /\ a' = a + PGSIZE
  /\ UNCHANGED <<as, sz, pc, proc, goal, child, emptied>>

\* Two more pages: the guard page and the stack.
exec_stack(p) ==
  /\ proc = p /\ pc = "image"
  /\ a >= goal
  /\ PGROUNDUP(goal) + 2 * PGSIZE < KERNBASE
  /\ goal' = PGROUNDUP(goal) + 2 * PGSIZE
  /\ pc' = "stack"
  /\ UNCHANGED <<free, proc, as, sz, new, a, child, ignored, emptied>>

\* Commit to the user image, and free the old one.
exec_commit(p) ==
  /\ proc = p /\ pc = "stack"
  /\ a >= goal
  /\ as' = [as EXCEPT ![p] = new]
  /\ sz' = [sz EXCEPT ![p] = goal]
  /\ free' = free \cup freevm(as[p])
  /\ Return
  /\ UNCHANGED <<ignored, emptied>>

\* exit(), and freevm() by the parent in wait().
exit(p) ==
  /\ Used(as[p]) /\ proc = None /\ p # First
  /\ free' = free \cup freevm(as[p])
  /\ as' = [as EXCEPT ![p] = NoSpace]
  /\ sz' = [sz EXCEPT ![p] = 0]
  /\ UNCHANGED <<pc, proc, new, a, goal, child, ignored, emptied>>

-----------------------------------------------------------------------------
Next ==
  \E p \in Proc :
    \/ growproc(p)
    \/ grow(p)
    \/ growproc_shrink(p)
    \/ \E q \in Proc : copyuvm(p, q)
    \/ copyuvm_page(p)
    \/ fork(p)
    \/ exec(p)
    \/ exec_bad(p)
    \/ exec_page(p)
    \/ exec_stack(p)
    \/ exec_commit(p)
    \/ exit(p)

Spec == Init /\ [][Next]_vars

-----------------------------------------------------------------------------
Space == [dir : Page \cup {None}, tab : [Tab -> Page \cup {None}],
          map : [Vpn -> Page \cup {None}]]

TypeOK ==
  /\ free \subseteq Page
  /\ as \in [Proc -> Space] /\ new \in Space
  /\ sz \in [Proc -> 0 .. KERNBASE - 1]
  /\ pc \in {"user", "grow", "copy", "image", "stack"}
  /\ proc \in Proc \cup {None} /\ child \in Proc \cup {None}
  /\ a \in 0 .. KERNBASE /\ goal \in 0 .. KERNBASE - 1
  /\ ignored \in BOOLEAN /\ emptied \in BOOLEAN

\* The directory, tables and user pages of s.
Slots(s) ==
  (IF Used(s) THEN 1 ELSE 0)
    + Cardinality({t \in Tab : s.tab[t] # None}) + Cardinality({v \in Vpn : s.map[v] # None})
InUse == Pages(new) \cup UNION {Pages(as[p]) : p \in Proc}

\* No page serves two purposes: memory of two processes is disjoint, no
\* process maps a page twice, and no page in use is on the free list,
\* whatever failed on the way.  (There are as many pages in use as uses.)
NoSharedPages ==
  /\ TypeOK
  /\ InUse \cap free = {}
  /\ Cardinality(InUse) = Slots(new) + MapThenSumSet(LAMBDA p : Slots(as[p]), Proc)

\* Every page is free or belongs to a process, as long as no failure of
\* mappages() was ignored: the error paths of fork() and exec() and wait()
\* give back all they have.
NoLeak ==
  ~ignored => free \cup InUse = Page

Complete(p) ==
  \A v \in Vpn : as[p].map[v] # None <=> v * PGSIZE < sz[p]

\* A process has exactly the pages below proc->sz mapped, also while it is in
\* fork() or exec(), so that copyuvm() does not panic: as long as no failure
\* of mappages() was ignored and no process gave up all of its memory.
MappedBelowSz ==
  \A p \in Proc :
    Used(as[p]) /\ ~(proc = p /\ pc = "grow") /\ ~ignored /\ ~emptied => Complete(p)

=============================================================================
