------------------------------- MODULE Kalloc -------------------------------
(***************************************************************************)
(* The page allocator of kalloc.c: the free list threaded through the free *)
(* pages, the two-phase start that main() makes of it, and kalloc() and    *)
(* kfree() by several kernel threads afterwards.                           *)
(*                                                                         *)
(* A thread that holds kmem.lock runs with interrupts masked, so only it   *)
(* moves; while kmem.use_lock is 0 nothing protects the list.              *)
(***************************************************************************)
EXTENDS Integers, Sequences, FiniteSets

CONSTANTS
  Thread,         \* kernel threads
  Boot,           \* the one that runs main()
  PGSIZE,
  END,            \* end[]: the first address behind the kernel
  ENTRYTOP,       \* P2V(4*1024*1024): what entrypgdir maps
  TOP,            \* P2V(PHYSTOP)
  None            \* no thread

ASSUME KallocAssumption ==
  /\ Boot \in Thread /\ None \notin Thread
  /\ PGSIZE \in Nat \ {0}
  /\ END \in Nat \ {0} /\ ENTRYTOP \in Nat /\ TOP \in Nat
  /\ END <= ENTRYTOP /\ ENTRYTOP <= TOP
  /\ ENTRYTOP % PGSIZE = 0

PGROUNDUP(a) == (a + PGSIZE - 1) - ((a + PGSIZE - 1) % PGSIZE)

Page == {a \in END .. TOP - 1 : a % PGSIZE = 0 /\ a + PGSIZE <= TOP}
Null == 0
Junk == -1      \* memset(v, 1, PGSIZE), and whatever an owner writes

VARIABLES
  next,           \* r->next, the first word of each page
  freelist,       \* kmem.freelist
  use_lock,       \* kmem.use_lock
  lk,             \* holder of kmem.lock, or None
  phase,          \* where main() is
  p,              \* p of freerange()
  pc,             \* where each thread is in kalloc() or kfree()
  r,              \* r of kalloc() and kfree()
  owned,          \* owned[t]: pages kalloc() returned to t, not yet freed
  chain           \* history: the free pages in list order

vars == <<next, freelist, use_lock, lk, phase, p, pc, r, owned, chain>>

Init ==
  /\ next = [a \in Page |-> Null]
  /\ freelist = Null
  /\ use_lock = 0
  /\ lk = None
  /\ phase = "kinit1"
  /\ p = PGROUNDUP(END)
  /\ pc = [t \in Thread |-> "idle"]
  /\ r = [t \in Thread |-> Null]
  /\ owned = [t \in Thread |-> {}]
  /\ chain = <<>>

\* Only the boot thread exists until main() is done.
Runs(t) == lk \in {None, t} /\ (phase = "run" \/ t = Boot)

-----------------------------------------------------------------------------
(* kalloc() and kfree().                                                   *)

\* acquire(&kmem.lock), if locks are in use.
enter(t, from, to) ==
  /\ Runs(t)
  /\ pc[t] = from
  /\ lk' = IF use_lock = 1 THEN t ELSE lk
  /\ pc' = [pc EXCEPT ![t] = to]
  /\ UNCHANGED <<next, freelist, use_lock, phase, p, r, owned, chain>>

leave(t) ==
  /\ lk' = IF use_lock = 1 THEN None ELSE lk
  /\ pc' = [pc EXCEPT ![t] = "idle"]

kalloc(t) == phase \in {"kvmalloc", "run"} /\ enter(t, "idle", "head")

\* r = kmem.freelist.
kalloc_head(t) ==
  /\ Runs(t)
  /\ pc[t] = "head"
  /\ r' = [r EXCEPT ![t] = freelist]
  /\ pc' = [pc EXCEPT ![t] = "pop"]
  /\ UNCHANGED <<next, freelist, use_lock, lk, phase, p, owned, chain>>

\* Take r off the list and return it, or return 0.
kalloc_pop(t) ==
  /\ Runs(t)
  /\ pc[t] = "pop"
  /\ IF r[t] # Null
       THEN /\ freelist' = next[r[t]]
            /\ owned' = [owned EXCEPT ![t] = @ \cup {r[t]}]
            /\ chain' = IF chain = <<>> THEN <<>> ELSE Tail(chain)
       ELSE UNCHANGED <<freelist, owned, chain>>
  /\ leave(t)
  /\ UNCHANGED <<next, use_lock, phase, p, r>>

\* memset(v, 1, PGSIZE) of a page that t owns, or that freerange() adds.
kfree_junk(t, v) ==
  /\ next' = [next EXCEPT ![v] = Junk]
  /\ r' = [r EXCEPT ![t] = v]
  /\ pc' = [pc EXCEPT ![t] = "junk"]

kfree(t, v) ==
  /\ Runs(t)
  /\ pc[t] = "idle"
  /\ phase = "run"
  /\ v \in owned[t]
  /\ owned' = [owned EXCEPT ![t] = @ \ {v}]
  /\ kfree_junk(t, v)
  /\ UNCHANGED <<freelist, use_lock, lk, phase, p, chain>>

kfree_lock(t) == enter(t, "junk", "link")

\* Mutant: the page is filled with junk after it was linked.
kfree_link_junk(t) ==
  /\ Runs(t)
  /\ pc[t] = "link"
  /\ next' = [next EXCEPT ![r[t]] = Junk]
  /\ pc' = [pc EXCEPT ![t] = "push"]
  /\ UNCHANGED <<freelist, use_lock, lk, phase, p, r, owned, chain>>

\* r->next = kmem.freelist.
kfree_link(t) ==
  /\ Runs(t)
  /\ pc[t] = "link"
  /\ next' = [next EXCEPT ![r[t]] = freelist]
  /\ pc' = [pc EXCEPT ![t] = "push"]
  /\ UNCHANGED <<freelist, use_lock, lk, phase, p, r, owned, chain>>

kfree_push(t) ==
  /\ Runs(t)
  /\ pc[t] = "push"
  /\ freelist' = r[t]
  /\ chain' = <<r[t]>> \o chain
  /\ leave(t)
  /\ UNCHANGED <<next, use_lock, phase, p, r, owned>>

\* The owner of a page writes to it.
write(t, v) ==
  /\ Runs(t)
  /\ v \in owned[t]
  /\ next[v] # Junk
  /\ next' = [next EXCEPT ![v] = Junk]
  /\ UNCHANGED <<freelist, use_lock, lk, phase, p, pc, r, owned, chain>>

-----------------------------------------------------------------------------
(* main(): kinit1(), kvmalloc(), kinit2().                                 *)

vend == IF phase = "kinit1" THEN ENTRYTOP ELSE TOP

\* One turn of the loop of freerange().
freerange ==
  /\ phase \in {"kinit1", "kinit2"}
  /\ pc[Boot] = "idle"
  /\ p + PGSIZE <= vend
  /\ kfree_junk(Boot, p)
  /\ p' = p + PGSIZE
  /\ UNCHANGED <<freelist, use_lock, lk, phase, owned, chain>>

kinit1 ==
  /\ phase = "kinit1"
  /\ pc[Boot] = "idle"
  /\ p + PGSIZE > vend
  /\ phase' = "kvmalloc"
  /\ UNCHANGED <<next, freelist, use_lock, lk, p, pc, r, owned, chain>>

\* Mutant: kinit2() starts behind the first page entrypgdir does not map.
kvmalloc_late ==
  /\ phase = "kvmalloc"
  /\ pc[Boot] = "idle"
  /\ phase' = "kinit2"
  /\ p' = PGROUNDUP(ENTRYTOP + 1)
  /\ UNCHANGED <<next, freelist, use_lock, lk, pc, r, owned, chain>>

\* kvmalloc() keeps the page tables it took.
kvmalloc ==
  /\ phase = "kvmalloc"
  /\ pc[Boot] = "idle"
  /\ phase' = "kinit2"
  /\ p' = PGROUNDUP(ENTRYTOP)
  /\ UNCHANGED <<next, freelist, use_lock, lk, pc, r, owned, chain>>

\* Mutant: kinit2() does not turn the lock on.
kinit2_nolock ==
  /\ phase = "kinit2"
  /\ pc[Boot] = "idle"
  /\ p + PGSIZE > vend
  /\ phase' = "run"
  /\ UNCHANGED <<next, freelist, use_lock, lk, p, pc, r, owned, chain>>

kinit2 ==
  /\ phase = "kinit2"
  /\ pc[Boot] = "idle"
  /\ p + PGSIZE > vend
  /\ use_lock' = 1
  /\ phase' = "run"
  /\ UNCHANGED <<next, freelist, lk, p, pc, r, owned, chain>>

-----------------------------------------------------------------------------
Next ==
  \/ \E t \in Thread : kalloc(t) \/ kalloc_head(t) \/ kalloc_pop(t)
  \/ \E t \in Thread : kfree_lock(t) \/ kfree_link(t) \/ kfree_push(t)
  \/ \E t \in Thread, v \in Page : kfree(t, v) \/ write(t, v)
  \/ freerange
  \/ kinit1
  \/ kvmalloc
  \/ kinit2

Spec == Init /\ [][Next]_vars

-----------------------------------------------------------------------------
TypeOK ==
  /\ next \in [Page -> Page \cup {Null, Junk}]
  /\ freelist \in Page \cup {Null, Junk}
  /\ use_lock \in {0, 1}
  /\ lk \in Thread \cup {None}
  /\ phase \in {"kinit1", "kvmalloc", "kinit2", "run"}
  /\ p \in Nat
  /\ pc \in [Thread -> {"idle", "head", "pop", "junk", "link", "push"}]
  /\ r \in [Thread -> Page \cup {Null}]
  /\ owned \in [Thread -> SUBSET Page]
  /\ chain \in Seq(Page)

Listed == {chain[i] : i \in 1 .. Len(chain)}
\* Pages on their way into the list.
Freeing(t) == IF pc[t] \in {"junk", "link", "push"} THEN {r[t]} ELSE {}

\* kalloc(): no page is handed out twice, and none that is on the free list:
\* the owners, the pages being freed and the list never share a page, and the
\* list holds no page twice.
NoDoubleAlloc ==
  /\ \A t \in Thread : Listed \cap (owned[t] \cup Freeing(t)) = {}
  /\ \A t \in Thread : owned[t] \cap Freeing(t) = {}
  /\ \A t, u \in Thread : t # u =>
       (owned[t] \cup Freeing(t)) \cap (owned[u] \cup Freeing(u)) = {}
  /\ \A i, j \in 1 .. Len(chain) : chain[i] = chain[j] => i = j

\* kmem.freelist leads through exactly the free pages, and kalloc() returns 0
\* only when there are none.
ListIntact ==
  /\ freelist = IF chain = <<>> THEN Null ELSE chain[1]
  /\ \A i \in 1 .. Len(chain) :
       next[chain[i]] = IF i = Len(chain) THEN Null ELSE chain[i + 1]
  /\ \A t \in Thread : pc[t] = "pop" => r[t] = freelist

\* freerange(): once main() is done every page between end and PHYSTOP is on
\* the list or has an owner.
NoPageLost ==
  phase = "run" =>
    Page \subseteq Listed \cup UNION {owned[t] \cup Freeing(t) : t \in Thread}
=============================================================================
