---------------------------- MODULE KallocProofs ----------------------------
(***************************************************************************)
(* Proofs about Kalloc for any threads, page size and memory size: no page *)
(* is handed out twice, the free list stays intact, and none is lost.      *)
(***************************************************************************)
EXTENDS Kalloc, TLAPS

Critical == {"head", "pop", "link", "push"}

\* kmem.use_lock is set exactly when threads other than main() exist, and who
\* is inside kalloc() or kfree() holds kmem.lock or is main().
LockInv ==
  /\ use_lock = 1 <=> phase = "run"
  /\ \A t \in Thread : pc[t] \in Critical => lk = t \/ (phase # "run" /\ t = Boot)
  /\ lk # None => phase = "run"
  /\ phase # "run" => \A t \in Thread \ {Boot} : pc[t] = "idle" /\ owned[t] = {}
  /\ \A t \in Thread : pc[t] \in {"junk", "link", "push"} => r[t] \in Page
  /\ \A t \in Thread : pc[t] = "push" => next[r[t]] = freelist

\* The pages freerange() has added so far lie below p, those of kinit1() also
\* below ENTRYTOP.
Managed == Listed \cup owned[Boot] \cup Freeing(Boot)

BootInv ==
  /\ p % PGSIZE = 0 /\ p >= END
  /\ phase # "run" => \A a \in Managed : a < p
  /\ phase \in {"kinit1", "kvmalloc"} => \A a \in Managed : a + PGSIZE <= ENTRYTOP

KInv ==
  /\ TypeOK
  /\ LockInv
  /\ NoDoubleAlloc
  /\ ListIntact
  /\ BootInv

-----------------------------------------------------------------------------
(* Page boundaries are multiples of PGSIZE.                                *)

\* Division with remainder.
LEMMA DivMod ==
  ASSUME NEW n \in Nat \ {0}, NEW x \in Int
  PROVE  /\ x = n * (x \div n) + (x % n)
         /\ x \div n \in Int
         /\ x % n \in 0 .. n - 1
<1>1. n \in Int /\ n > 0
  OBVIOUS
<1>2. x = n * (x \div n) + (x % n)
  BY <1>1
<1>3. x % n \in 0 .. n - 1 /\ x \div n \in Int
  BY <1>1
<1> QED
  BY <1>2, <1>3

\* Adding a multiple of n does not change the remainder.
LEMMA ModAddMultiple ==
  ASSUME NEW n \in Nat \ {0}, NEW k \in Int, NEW x \in Int
  PROVE  (x + k * n) % n = x % n
<1> DEFINE d == x \div n
           m == x % n
<1>1. x = n * d + m /\ d \in Int /\ m \in 0 .. n - 1
  BY DivMod
<1> HIDE DEF d, m
<1>2. x + k * n = (d + k) * n + m
  BY <1>1
<1>3. ((d + k) * n + m) % n = m
  BY <1>1
<1> QED
  BY <1>2, <1>3 DEF m

\* In particular adding n.
LEMMA ModAddN ==
  ASSUME NEW n \in Nat \ {0}, NEW x \in Int
  PROVE  (x + n) % n = x % n
<1>1. (x + 1 * n) % n = x % n
  BY ModAddMultiple, 1 \in Int
<1> QED
  BY <1>1

\* Two multiples of n are at least n apart.
LEMMA MultiplesApart ==
  ASSUME NEW n \in Nat \ {0}, NEW x \in Int, NEW y \in Int,
         x % n = 0, y % n = 0, x < y
  PROVE  x + n <= y
<1> SUFFICES ASSUME y - x < n PROVE FALSE
  OBVIOUS
<1> DEFINE d == x \div n
<1>1. x = n * d /\ d \in Int
  BY DivMod
<1> HIDE DEF d
<1>2. y = (y - x) + d * n
  BY <1>1
<1>3. ((y - x) + d * n) % n = (y - x) % n
  <2>1. y - x \in Int
    OBVIOUS
  <2>2. \A z \in Int : (z + d * n) % n = z % n
    BY Zenon, <1>1, ModAddMultiple
  <2> QED
    BY <2>1, <2>2
<1>4. (y - x) % n = y - x
  OBVIOUS
<1> QED
  BY <1>2, <1>3, <1>4

\* A multiple of n leaves no remainder.
LEMMA ModMultiple ==
  ASSUME NEW n \in Nat \ {0}, NEW k \in Int
  PROVE  (k * n) % n = 0
OBVIOUS

\* PGROUNDUP(a) is the page boundary at or above a.
LEMMA RoundUp ==
  ASSUME NEW a \in Nat
  PROVE  PGROUNDUP(a) \in Nat /\ PGROUNDUP(a) >= a /\ PGROUNDUP(a) % PGSIZE = 0
<1> DEFINE x == a + PGSIZE - 1
           d == x \div PGSIZE
           m == x % PGSIZE
<1>1. PGSIZE \in Nat \ {0} /\ x \in Nat
  BY KallocAssumption
<1>2. x = PGSIZE * d + m /\ d \in Int /\ m \in 0 .. PGSIZE - 1
  BY <1>1, DivMod
<1>3. PGROUNDUP(a) = x - m
  BY DEF PGROUNDUP
<1> HIDE DEF d, m
<1>4. x - m \in Nat /\ x - m >= a
  BY <1>1, <1>2
<1>5. x - m = d * PGSIZE
  BY <1>1, <1>2
<1>6. (d * PGSIZE) % PGSIZE = 0
  BY Zenon, <1>1, <1>2, ModMultiple
<1> QED
  BY <1>3, <1>4, <1>5, <1>6

\* The initial state.
LEMMA InitKInv == Init => KInv
<1> SUFFICES ASSUME Init PROVE KInv
  OBVIOUS
<1> USE KallocAssumption DEF Init
<1>1. p \in Nat /\ p >= END /\ p % PGSIZE = 0
  BY RoundUp
<1>2. Listed = {} /\ Managed = {} /\ \A t \in Thread : Freeing(t) = {}
  BY DEF Listed, Freeing, Managed
<1>3. TypeOK
  BY <1>1 DEF TypeOK
<1>4. LockInv
  BY DEF LockInv, Critical
<1>5. NoDoubleAlloc
  BY <1>2 DEF NoDoubleAlloc
<1>6. ListIntact
  BY DEF ListIntact
<1>7. BootInv
  BY <1>1, <1>2 DEF BootInv
<1> QED
  BY <1>3, <1>4, <1>5, <1>6, <1>7 DEF KInv

\* While t runs, nobody else is between acquire() and release().
LEMMA Exclusive ==
  ASSUME KInv, NEW t \in Thread, Runs(t)
  PROVE  \A u \in Thread \ {t} : pc[u] \notin Critical
BY KallocAssumption DEF KInv, LockInv, Runs

\* p is a page while freerange() goes on.
LEMMA NextPage ==
  ASSUME KInv, phase \in {"kinit1", "kinit2"}, p + PGSIZE <= vend
  PROVE  p \in Page
BY KallocAssumption DEF KInv, TypeOK, BootInv, Page, vend

-----------------------------------------------------------------------------
(* The steps.                                                              *)

\* acquire() of kalloc() and kfree().
LEMMA EnterStep ==
  ASSUME KInv, NEW t \in Thread, kalloc(t) \/ kfree_lock(t)
  PROVE  KInv'
<1> USE DEF KInv
<1>1. PICK from \in {"idle", "junk"}, to \in {"head", "link"} :
        enter(t, from, to) /\ (from = "idle" <=> to = "head")
  BY DEF kalloc, kfree_lock
<1>2. UNCHANGED <<next, freelist, use_lock, phase, p, r, owned, chain>>
      /\ pc' = [pc EXCEPT ![t] = to] /\ pc[t] = from
      /\ lk' = IF use_lock = 1 THEN t ELSE lk
  BY <1>1 DEF enter
<1>3. TypeOK'
  BY <1>1, <1>2 DEF TypeOK
<1>4. LockInv'
  <2>1. \A u \in Thread \ {t} : pc[u] \notin Critical /\ pc'[u] = pc[u]
    BY <1>1, <1>2, Exclusive DEF enter, TypeOK
  <2>2. pc'[t] = to
    BY <1>2 DEF TypeOK
  <2>3. phase = "run" \/ t = Boot
    BY <1>1 DEF enter, Runs
  <2> QED
    BY <1>1, <1>2, <2>1, <2>2, <2>3, KallocAssumption DEF LockInv, Critical, TypeOK
<1>5. \A u \in Thread : Freeing(u)' = Freeing(u)
  BY <1>1, <1>2 DEF Freeing, TypeOK
<1>6. NoDoubleAlloc'
  BY <1>2, <1>5 DEF NoDoubleAlloc, Listed
<1>7. ListIntact'
  BY <1>1, <1>2 DEF ListIntact, TypeOK
<1>8. BootInv'
  BY <1>2, <1>5, KallocAssumption DEF BootInv, Managed, Listed
<1> QED
  BY <1>3, <1>4, <1>6, <1>7, <1>8

\* r = kmem.freelist.
LEMMA HeadStep ==
  ASSUME KInv, NEW t \in Thread, kalloc_head(t)
  PROVE  KInv'
<1> USE DEF KInv
<1>1. UNCHANGED <<next, freelist, use_lock, lk, phase, p, owned, chain>>
      /\ pc' = [pc EXCEPT ![t] = "pop"] /\ r' = [r EXCEPT ![t] = freelist] /\ pc[t] = "head"
  BY DEF kalloc_head
<1>0. freelist \in Page \cup {Null}
  BY DEF ListIntact, TypeOK
<1>3. TypeOK'
  BY <1>0, <1>1 DEF TypeOK
<1>4. LockInv'
  BY <1>1, KallocAssumption DEF LockInv, Critical, TypeOK
<1>5. \A u \in Thread : Freeing(u)' = Freeing(u)
  BY Zenon, <1>1 DEF Freeing, TypeOK
<1>6. NoDoubleAlloc'
  BY <1>1, <1>5 DEF NoDoubleAlloc, Listed
<1>7. ListIntact'
  BY <1>1 DEF ListIntact, TypeOK
<1>8. BootInv'
  BY <1>1, <1>5, KallocAssumption DEF BootInv, Managed, Listed
<1> QED
  BY <1>3, <1>4, <1>6, <1>7, <1>8

\* kalloc() takes the head of the list, or finds the list empty.
LEMMA PopStep ==
  ASSUME KInv, NEW t \in Thread, kalloc_pop(t)
  PROVE  KInv'
<1> USE DEF KInv
<1>1. /\ UNCHANGED <<next, use_lock, phase, p, r>>
      /\ pc[t] = "pop" /\ pc' = [pc EXCEPT ![t] = "idle"]
      /\ lk' = IF use_lock = 1 THEN None ELSE lk
      /\ Runs(t) /\ r[t] = freelist
  BY DEF kalloc_pop, leave, ListIntact
<1>2. \A u \in Thread \ {t} : pc[u] \notin Critical /\ pc'[u] = pc[u]
  BY <1>1, Exclusive DEF TypeOK
<1>3. pc'[t] = "idle"
  BY <1>1 DEF TypeOK
<1>4. \A u \in Thread : Freeing(u)' = Freeing(u)
  BY <1>1 DEF Freeing, TypeOK
<1>5. CASE r[t] = Null
  <2>1. UNCHANGED <<freelist, owned, chain>>
    BY <1>5 DEF kalloc_pop
  <2>2. TypeOK'
    BY <1>1, <2>1 DEF TypeOK
  <2>3. LockInv'
    BY <1>1, <1>2, <1>3, <2>1, KallocAssumption DEF LockInv, Critical, TypeOK
  <2>4. NoDoubleAlloc'
    BY <1>4, <2>1 DEF NoDoubleAlloc, Listed
  <2>5. ListIntact'
    BY <1>1, <1>2, <1>3, <2>1 DEF ListIntact, Critical
  <2>6. BootInv'
    BY <1>1, <1>4, <2>1, KallocAssumption DEF BootInv, Managed, Listed
  <2> QED
    BY <2>2, <2>3, <2>4, <2>5, <2>6
<1>6. CASE r[t] # Null
  <2>1. chain # <<>> /\ r[t] = chain[1] /\ Len(chain) \in Nat \ {0} /\ r[t] \in Listed
    BY <1>1, <1>6 DEF ListIntact, TypeOK, Listed
  <2>2. /\ freelist' = next[r[t]] /\ chain' = Tail(chain)
        /\ owned' = [owned EXCEPT ![t] = @ \cup {r[t]}]
    BY <1>6, <2>1 DEF kalloc_pop
  <2>3. /\ Len(chain') = Len(chain) - 1 /\ chain' \in Seq(Page)
        /\ \A i \in 1 .. Len(chain') : chain'[i] = chain[i + 1] /\ i + 1 \in 1 .. Len(chain)
    BY <2>1, <2>2 DEF TypeOK
  <2>4. Listed' \subseteq Listed /\ r[t] \notin Listed'
    BY <2>1, <2>3 DEF Listed, NoDoubleAlloc, TypeOK
  <2>5. r[t] \in Page /\ \A u \in Thread : r[t] \notin owned[u] \cup Freeing(u)
    BY <2>1 DEF NoDoubleAlloc, TypeOK, Listed
  <2>6. next[chain[1]] = IF Len(chain) = 1 THEN Null ELSE chain[2]
    <3>1. 1 \in 1 .. Len(chain)
      BY <2>1
    <3>2. next[chain[1]] = IF 1 = Len(chain) THEN Null ELSE chain[1 + 1]
      BY Zenon, <3>1 DEF ListIntact
    <3> QED
      BY <3>2
  <2>7. freelist' = IF chain' = <<>> THEN Null ELSE chain'[1]
    <3>1. CASE Len(chain) = 1
      <4>1. chain' = <<>>
        BY <2>3, <3>1
      <4> QED
        BY <2>1, <2>2, <2>6, <3>1, <4>1
    <3>2. CASE Len(chain) # 1
      <4>1. 1 \in 1 .. Len(chain') /\ chain' # <<>>
        BY <2>1, <2>3, <3>2
      <4>2. chain'[1] = chain[2]
        BY <2>3, <4>1
      <4> QED
        BY <2>1, <2>2, <2>6, <3>2, <4>1, <4>2
    <3> QED
      BY <3>1, <3>2
  <2>8. TypeOK'
    BY <1>1, <2>2, <2>3, <2>5 DEF TypeOK
  <2>9. LockInv'
    <3>1. t = Boot \/ phase = "run"
      BY <1>1 DEF Runs
    <3>2. \A u \in Thread \ {t} : owned'[u] = owned[u]
      BY <2>2 DEF TypeOK
    <3> QED
      BY <1>1, <1>2, <1>3, <3>1, <3>2, KallocAssumption DEF LockInv, Critical, TypeOK
  <2>10. NoDoubleAlloc'
    <3>1. \A u \in Thread : owned'[u] = IF u = t THEN owned[t] \cup {r[t]} ELSE owned[u]
      BY <2>2 DEF TypeOK
    <3>2. \A i, j \in 1 .. Len(chain') : chain'[i] = chain'[j] => i = j
      BY <2>1, <2>3 DEF NoDoubleAlloc, TypeOK
    <3> QED
      BY <1>4, <2>4, <2>5, <3>1, <3>2 DEF NoDoubleAlloc
  <2>11. ListIntact'
    <3>1. \A i \in 1 .. Len(chain') :
            next'[chain'[i]] = IF i = Len(chain') THEN Null ELSE chain'[i + 1]
      BY <1>1, <2>1, <2>3 DEF ListIntact, TypeOK
    <3> QED
      BY <1>2, <1>3, <2>7, <3>1 DEF ListIntact, Critical
  <2>12. BootInv'
    <3>1. Managed' \subseteq Managed
      BY <1>1, <1>4, <2>1, <2>2, <2>4, KallocAssumption DEF Managed, LockInv, TypeOK, Runs
    <3> QED
      BY <1>1, <3>1 DEF BootInv
  <2> QED
    BY <2>8, <2>9, <2>10, <2>11, <2>12
<1> QED
  BY <1>5, <1>6

\* memset(): v leaves its owner, or comes from freerange(), and is on its way.
LEMMA JunkStep ==
  ASSUME KInv, NEW t \in Thread, NEW v \in Page,
         pc[t] = "idle", kfree_junk(t, v), phase = "run" \/ t = Boot,
         UNCHANGED <<freelist, use_lock, lk, phase, chain>>,
         v \notin Listed,
         \A u \in Thread \ {t} : v \notin owned[u] \cup Freeing(u),
         owned' = [owned EXCEPT ![t] = @ \ {v}],
         p' \in Nat, BootInv'
  PROVE  KInv'
<1> USE DEF KInv
<1>1. next' = [next EXCEPT ![v] = Junk] /\ r' = [r EXCEPT ![t] = v]
      /\ pc' = [pc EXCEPT ![t] = "junk"]
  BY DEF kfree_junk
<1>2. TypeOK'
  BY <1>1 DEF TypeOK
<1>3. /\ Freeing(t)' = {v} /\ Freeing(t) = {}
      /\ \A u \in Thread \ {t} : Freeing(u)' = Freeing(u) /\ owned'[u] = owned[u]
  BY <1>1 DEF Freeing, TypeOK
<1>4. LockInv'
  <2>1. \A u \in Thread : pc[u] = "push" => r[u] # v
    BY DEF Freeing, TypeOK
  <2>2. \A u \in Thread : u # t => pc'[u] = pc[u] /\ r'[u] = r[u]
    BY <1>1 DEF TypeOK
  <2>3. pc'[t] = "junk" /\ r'[t] = v
    BY <1>1 DEF TypeOK
  <2>4. \A u \in Thread : pc'[u] = "push" => next'[r'[u]] = freelist'
    BY <1>1, <2>1, <2>2, <2>3 DEF LockInv, TypeOK
  <2>5. \A u \in Thread : pc'[u] \in {"junk", "link", "push"} => r'[u] \in Page
    BY <2>2, <2>3 DEF LockInv
  <2> QED
    BY <1>3, <2>2, <2>3, <2>4, <2>5 DEF LockInv, Critical
<1>5. NoDoubleAlloc'
  <2>1. owned'[t] = owned[t] \ {v}
    BY DEF TypeOK
  <2> QED
    BY <1>3, <2>1 DEF NoDoubleAlloc, Listed
<1>6. ListIntact'
  <2>1. \A i \in 1 .. Len(chain) : chain[i] # v
    BY DEF Listed
  <2>2. \A i \in 1 .. Len(chain) : next'[chain[i]] = next[chain[i]]
    BY <1>1, <2>1 DEF TypeOK
  <2>3. \A u \in Thread : pc'[u] = "pop" => pc[u] = "pop" /\ r'[u] = r[u]
    BY <1>1 DEF TypeOK
  <2> QED
    BY <2>2, <2>3 DEF ListIntact
<1> QED
  BY <1>2, <1>4, <1>5, <1>6

\* kfree() of a page the caller owns.
LEMMA KfreeStep ==
  ASSUME KInv, NEW t \in Thread, NEW v \in Page, kfree(t, v)
  PROVE  KInv'
<1> USE DEF KInv
<1>1. BootInv'
  BY DEF kfree, BootInv
<1>2. v \notin Listed /\ \A u \in Thread \ {t} : v \notin owned[u] \cup Freeing(u)
  BY DEF kfree, NoDoubleAlloc
<1>3. p' \in Nat
  BY DEF kfree, TypeOK
<1> QED
  BY Zenon, <1>1, <1>2, <1>3, JunkStep DEF kfree

\* freerange() adds a page nobody has seen before.
LEMMA FreerangeStep ==
  ASSUME KInv, freerange
  PROVE  KInv'
<1> USE DEF KInv
<1>1. p \in Page /\ p \notin Managed
  BY NextPage DEF freerange, BootInv, TypeOK
<1>2. phase # "run" /\ Boot \in Thread /\ PGSIZE \in Nat \ {0} /\ phase' = phase
      /\ UNCHANGED <<owned, chain>> /\ p' = p + PGSIZE /\ pc[Boot] = "idle"
  BY KallocAssumption DEF freerange
<1>3. \A u \in Thread \ {Boot} : p \notin owned[u] \cup Freeing(u)
  BY <1>2 DEF LockInv, Freeing
<1>4. owned' = [owned EXCEPT ![Boot] = @ \ {p}]
  <2>1. owned[Boot] \ {p} = owned[Boot]
    BY <1>1 DEF Managed
  <2> QED
    BY <1>2, <2>1 DEF TypeOK
<1>5. Managed' = Managed \cup {p}
  <2>1. Freeing(Boot) = {}
    BY <1>2 DEF Freeing
  <2>2. Freeing(Boot)' = {p}
    BY <1>2 DEF Freeing, freerange, kfree_junk, TypeOK
  <2> QED
    BY <1>2, <2>1, <2>2 DEF Managed, Listed
<1>6. BootInv'
  <2>1. p' % PGSIZE = 0
    <3>1. p \in Int
      BY DEF TypeOK
    <3>2. (p + PGSIZE) % PGSIZE = p % PGSIZE
      BY Zenon, <1>2, <3>1, ModAddN
    <3> QED
      BY <1>2, <3>2 DEF BootInv
  <2>2. p \in Nat /\ p' \in Nat /\ p < p' /\ p' >= END
    BY <1>2, KallocAssumption DEF TypeOK, BootInv
  <2>3. \A a \in Managed' : a < p'
    <3>1. \A a \in Managed : a < p
      BY <1>2 DEF BootInv
    <3>2. Managed \subseteq Page
      BY KallocAssumption DEF Managed, Listed, Freeing, TypeOK, LockInv
    <3>3. Page \subseteq Nat
      BY KallocAssumption DEF Page
    <3> QED
      BY <1>5, <2>2, <3>1, <3>2, <3>3
  <2>4. phase \in {"kinit1", "kvmalloc"} => \A a \in Managed' : a + PGSIZE <= ENTRYTOP
    BY <1>2, <1>5 DEF BootInv, freerange, vend
  <2> QED
    BY <1>2, <2>1, <2>2, <2>3, <2>4 DEF BootInv
<1>7. p' \in Nat
  BY <1>2 DEF TypeOK
<1> QED
  BY Zenon, <1>1, <1>2, <1>3, <1>4, <1>6, <1>7, JunkStep DEF freerange, Managed

\* r->next = kmem.freelist.
LEMMA LinkStep ==
  ASSUME KInv, NEW t \in Thread, kfree_link(t)
  PROVE  KInv'
<1> USE DEF KInv
<1>1. /\ UNCHANGED <<freelist, use_lock, lk, phase, p, r, owned, chain>>
      /\ pc[t] = "link" /\ pc' = [pc EXCEPT ![t] = "push"]
      /\ next' = [next EXCEPT ![r[t]] = freelist] /\ Runs(t) /\ r[t] \in Page
  BY DEF kfree_link, LockInv
<1>2. \A u \in Thread \ {t} : pc[u] \notin Critical /\ pc'[u] = pc[u]
  BY <1>1, Exclusive DEF TypeOK
<1>3. pc'[t] = "push" /\ next'[r[t]] = freelist
  BY <1>1 DEF TypeOK
<1>4. \A u \in Thread : Freeing(u)' = Freeing(u)
  BY <1>1 DEF Freeing, TypeOK
<1>5. TypeOK'
  BY <1>1 DEF TypeOK
<1>6. LockInv'
  BY <1>1, <1>2, <1>3 DEF LockInv, Critical
<1>7. NoDoubleAlloc'
  BY <1>1, <1>4 DEF NoDoubleAlloc, Listed
<1>8. ListIntact'
  <2>1. \A i \in 1 .. Len(chain) : chain[i] # r[t]
    BY <1>1 DEF NoDoubleAlloc, Listed, Freeing
  <2>2. \A i \in 1 .. Len(chain) : next'[chain[i]] = next[chain[i]]
    BY <1>1, <2>1 DEF TypeOK
  <2> QED
    BY <1>1, <1>2, <1>3, <2>2 DEF ListIntact, Critical
<1>9. BootInv'
  BY <1>1, <1>4, KallocAssumption DEF BootInv, Managed, Listed
<1> QED
  BY <1>5, <1>6, <1>7, <1>8, <1>9

\* kmem.freelist = r.
LEMMA PushStep ==
  ASSUME KInv, NEW t \in Thread, kfree_push(t)
  PROVE  KInv'
<1> USE DEF KInv
<1>1. /\ UNCHANGED <<next, use_lock, phase, p, r, owned>>
      /\ pc[t] = "push" /\ pc' = [pc EXCEPT ![t] = "idle"]
      /\ lk' = (IF use_lock = 1 THEN None ELSE lk)
      /\ freelist' = r[t] /\ chain' = <<r[t]>> \o chain
      /\ Runs(t) /\ r[t] \in Page /\ next[r[t]] = freelist
  BY DEF kfree_push, LockInv, leave
<1>2. \A u \in Thread \ {t} : pc[u] \notin Critical /\ pc'[u] = pc[u]
  BY <1>1, Exclusive DEF TypeOK
<1>3. pc'[t] = "idle"
  BY <1>1 DEF TypeOK
<1>4. Freeing(t) = {r[t]} /\ Freeing(t)' = {} /\ \A u \in Thread \ {t} : Freeing(u)' = Freeing(u)
  BY <1>1, <1>2, <1>3 DEF Freeing
<1>5. /\ chain' \in Seq(Page) /\ Len(chain') = Len(chain) + 1 /\ chain'[1] = r[t]
      /\ \A i \in 2 .. Len(chain') : chain'[i] = chain[i - 1] /\ i - 1 \in 1 .. Len(chain)
      /\ Len(chain) \in Nat
  BY <1>1 DEF TypeOK
<1>6. \A i \in 1 .. Len(chain) : i + 1 \in 2 .. Len(chain') /\ chain'[i + 1] = chain[i]
  BY <1>5
<1>7. Listed' = Listed \cup {r[t]}
  <2>1. \A i \in 1 .. Len(chain') : i = 1 \/ i \in 2 .. Len(chain')
    BY <1>5
  <2>2. 1 \in 1 .. Len(chain')
    BY <1>5
  <2>3. Listed' \subseteq Listed \cup {r[t]}
    BY <1>5, <2>1 DEF Listed
  <2>4. \A i \in 1 .. Len(chain) : i + 1 \in 1 .. Len(chain')
    BY <1>5
  <2>5. Listed \cup {r[t]} \subseteq Listed'
    BY <1>5, <1>6, <2>2, <2>4 DEF Listed
  <2> QED
    BY <2>3, <2>5
<1>8. r[t] \notin Listed
  BY <1>4 DEF NoDoubleAlloc
<1>9. TypeOK'
  BY <1>1, <1>5 DEF TypeOK
<1>10. LockInv'
  BY <1>1, <1>2, <1>3, KallocAssumption DEF LockInv, Critical, Runs
<1>11. NoDoubleAlloc'
  <2>1. ASSUME NEW i \in 1 .. Len(chain'), NEW j \in 1 .. Len(chain'), chain'[i] = chain'[j]
        PROVE  i = j
    <3>1. \A k \in 2 .. Len(chain') : chain'[k] # r[t]
      BY <1>5, <1>8 DEF Listed
    <3>2. i = 1 <=> j = 1
      BY <1>5, <2>1, <3>1
    <3>3. CASE i # 1
      <4>1. i - 1 \in 1 .. Len(chain) /\ j - 1 \in 1 .. Len(chain) /\ chain[i - 1] = chain[j - 1]
        BY <1>5, <2>1, <3>2, <3>3
      <4>2. i - 1 = j - 1
        BY <4>1 DEF NoDoubleAlloc
      <4> QED
        BY <4>2
    <3> QED
      BY <3>2, <3>3
  <2>2. \A u \in Thread : r[t] \notin owned[u] /\ (u # t => r[t] \notin Freeing(u))
    BY <1>4 DEF NoDoubleAlloc
  <2>3. \A u \in Thread : Freeing(u)' \subseteq Freeing(u) /\ owned'[u] = owned[u]
    BY <1>1, <1>4
  <2>4. \A u \in Thread : r[t] \notin Freeing(u)'
    BY <1>4, <2>2
  <2>5. \A u \in Thread : Listed' \cap (owned'[u] \cup Freeing(u)') = {}
    BY <1>7, <2>2, <2>3, <2>4 DEF NoDoubleAlloc
  <2>6. \A u \in Thread : owned'[u] \cap Freeing(u)' = {}
    BY <2>3 DEF NoDoubleAlloc
  <2>7. \A u, v \in Thread : u # v =>
          (owned'[u] \cup Freeing(u)') \cap (owned'[v] \cup Freeing(v)') = {}
    BY <2>3 DEF NoDoubleAlloc
  <2> QED
    BY <2>1, <2>5, <2>6, <2>7 DEF NoDoubleAlloc
<1>12. ListIntact'
  <2>1. chain' # <<>>
    BY <1>5
  <2>2. ASSUME NEW i \in 1 .. Len(chain')
        PROVE  next'[chain'[i]] = IF i = Len(chain') THEN Null ELSE chain'[i + 1]
    <3>1. CASE i = 1
      <4>1. CASE chain = <<>>
        <5>1. freelist = Null /\ Len(chain') = 1
          BY <1>5, <4>1 DEF ListIntact
        <5> QED
          BY <1>1, <1>5, <3>1, <5>1
      <4>2. CASE chain # <<>>
        <5>1. 1 \in 1 .. Len(chain) /\ Len(chain') # 1
          BY <1>5, <4>2 DEF TypeOK
        <5>2. chain'[1 + 1] = chain[1]
          BY <1>6, <5>1
        <5> QED
          BY <1>1, <1>5, <3>1, <4>2, <5>1, <5>2 DEF ListIntact
      <4> QED
        BY <4>1, <4>2
    <3>2. CASE i # 1
      <4>1. i - 1 \in 1 .. Len(chain) /\ chain'[i] = chain[i - 1]
        BY <1>5, <3>2
      <4>2. next[chain[i - 1]] = IF i - 1 = Len(chain) THEN Null ELSE chain[i - 1 + 1]
        BY <4>1 DEF ListIntact
      <4>3. i # Len(chain') => chain'[i + 1] = chain[i]
        <5>1. i # Len(chain') => i \in 1 .. Len(chain)
          BY <1>5
        <5> QED
          BY <1>6, <5>1
      <4> QED
        BY <1>1, <1>5, <4>1, <4>2, <4>3
    <3> QED
      BY <3>1, <3>2
  <2> QED
    BY <1>1, <1>2, <1>3, <1>5, <2>1, <2>2 DEF ListIntact, Critical
<1>13. BootInv'
  <2>1. CASE phase = "run"
    BY <1>1, <2>1 DEF BootInv
  <2>2. CASE phase # "run"
    <3>1. t = Boot
      BY <1>1, <2>2 DEF Runs
    <3>2. Managed' \subseteq Managed
      BY <1>1, <1>4, <1>7, <3>1 DEF Managed
    <3> QED
      BY <1>1, <3>2 DEF BootInv
  <2> QED
    BY <2>1, <2>2
<1> QED
  BY <1>9, <1>10, <1>11, <1>12, <1>13

\* An owner writes to its own page only.
LEMMA WriteStep ==
  ASSUME KInv, NEW t \in Thread, NEW v \in Page, write(t, v)
  PROVE  KInv'
<1> USE DEF KInv
<1>1. /\ UNCHANGED <<freelist, use_lock, lk, phase, p, pc, r, owned, chain>>
      /\ next' = [next EXCEPT ![v] = Junk] /\ v \in owned[t]
  BY DEF write
<1>2. v \notin Listed /\ \A u \in Thread : v \notin Freeing(u)
  BY <1>1 DEF NoDoubleAlloc
<1>3. \A i \in 1 .. Len(chain) : next'[chain[i]] = next[chain[i]]
  BY <1>1, <1>2 DEF Listed, TypeOK
<1>4. \A u \in Thread : pc[u] = "push" => next'[r[u]] = next[r[u]]
  BY <1>1, <1>2 DEF Freeing, TypeOK
<1>5. \A u \in Thread : Freeing(u)' = Freeing(u)
  BY <1>1 DEF Freeing
<1>6. TypeOK'
  BY <1>1 DEF TypeOK
<1>7. LockInv'
  BY <1>1, <1>4 DEF LockInv
<1>8. NoDoubleAlloc'
  BY <1>1, <1>5 DEF NoDoubleAlloc, Listed
<1>9. ListIntact'
  BY <1>1, <1>3 DEF ListIntact
<1>10. BootInv'
  BY <1>1, <1>5, KallocAssumption DEF BootInv, Managed, Listed
<1> QED
  BY <1>6, <1>7, <1>8, <1>9, <1>10

\* main() goes on to its next phase.
LEMMA PhaseStep ==
  ASSUME KInv, kinit1 \/ kvmalloc \/ kinit2
  PROVE  KInv'
<1> USE KallocAssumption DEF KInv
<1>1. UNCHANGED <<next, freelist, lk, pc, r, owned, chain>> /\ pc[Boot] = "idle"
  BY DEF kinit1, kvmalloc, kinit2
<1>2. \A u \in Thread : Freeing(u)' = Freeing(u)
  BY <1>1 DEF Freeing
<1>3. NoDoubleAlloc' /\ ListIntact'
  BY <1>1, <1>2 DEF NoDoubleAlloc, ListIntact, Listed
<1>4. \A u \in Thread : pc[u] = "idle"
  BY <1>1 DEF kinit1, kvmalloc, kinit2, LockInv
<1>5. Managed' = Managed
  BY <1>1, <1>2 DEF Managed, Listed
<1>6. PGROUNDUP(ENTRYTOP) \in Nat /\ PGROUNDUP(ENTRYTOP) >= ENTRYTOP
      /\ PGROUNDUP(ENTRYTOP) % PGSIZE = 0
  BY RoundUp
<1>7. TypeOK'
  BY <1>1, <1>6 DEF kinit1, kvmalloc, kinit2, TypeOK
<1>8. LockInv'
  BY <1>1, <1>4 DEF kinit1, kvmalloc, kinit2, LockInv, Critical
<1>9. BootInv'
  <2>1. CASE kinit1
    BY <1>5, <2>1 DEF BootInv, kinit1
  <2>2. CASE kinit2
    BY <1>5, <2>2 DEF BootInv, kinit2
  <2>3. CASE kvmalloc
    <3>1. Managed \subseteq Nat
      <4>1. Listed \subseteq Page /\ owned[Boot] \subseteq Page
        BY DEF Listed, TypeOK
      <4>2. Freeing(Boot) = {}
        BY <1>1 DEF Freeing
      <4>3. Page \subseteq Nat
        BY DEF Page
      <4> QED
        BY Zenon, <4>1, <4>2, <4>3 DEF Managed
    <3>2. \A a \in Managed : a + PGSIZE <= ENTRYTOP
      BY <2>3 DEF BootInv, kvmalloc
    <3>3. \A a \in Managed : a < PGROUNDUP(ENTRYTOP)
      BY <1>6, <3>1, <3>2
    <3> QED
      BY <1>5, <1>6, <2>3, <3>3 DEF BootInv, kvmalloc
  <2> QED
    BY <2>1, <2>2, <2>3
<1> QED
  BY <1>3, <1>7, <1>8, <1>9

\* Every step keeps the invariant.
LEMMA KInvStep == KInv /\ [Next]_vars => KInv'
<1> SUFFICES ASSUME KInv, [Next]_vars PROVE KInv'
  OBVIOUS
<1>1. CASE UNCHANGED vars
  <2>1. TypeOK' /\ LockInv' /\ ListIntact'
    BY <1>1 DEF vars, KInv, TypeOK, LockInv, ListIntact
  <2>2. Listed' = Listed /\ \A t \in Thread : Freeing(t)' = Freeing(t)
    BY <1>1 DEF vars, Listed, Freeing
  <2>3. NoDoubleAlloc'
    BY <1>1, <2>2 DEF vars, KInv, NoDoubleAlloc
  <2>4. BootInv'
    BY <1>1, <2>2, KallocAssumption DEF vars, KInv, BootInv, Managed
  <2> QED
    BY <2>1, <2>3, <2>4 DEF KInv
<1>2. ASSUME NEW t \in Thread, kalloc(t) \/ kfree_lock(t) PROVE KInv'
  BY <1>2, EnterStep
<1>3. ASSUME NEW t \in Thread, kalloc_head(t) \/ kalloc_pop(t) PROVE KInv'
  BY <1>3, HeadStep, PopStep
<1>4. ASSUME NEW t \in Thread, kfree_link(t) \/ kfree_push(t) PROVE KInv'
  BY <1>4, LinkStep, PushStep
<1>5. ASSUME NEW t \in Thread, NEW v \in Page, kfree(t, v) \/ write(t, v) PROVE KInv'
  BY <1>5, KfreeStep, WriteStep
<1>6. CASE freerange
  BY <1>6, FreerangeStep
<1>7. CASE kinit1 \/ kvmalloc \/ kinit2
  BY <1>7, PhaseStep
<1> QED
  BY <1>1, <1>2, <1>3, <1>4, <1>5, <1>6, <1>7 DEF Next

\* The inductive invariant holds throughout.
THEOREM KallocInvariant == Spec => []KInv
BY InitKInv, KInvStep, PTL DEF Spec

\* kalloc(): no page is handed out twice, for any threads, page size and
\* amount of memory.
THEOREM NoDoubleAllocHolds == Spec => []NoDoubleAlloc
<1>1. KInv => NoDoubleAlloc
  BY DEF KInv
<1> QED
  BY <1>1, KallocInvariant, PTL

\* kmem.freelist always leads through exactly the free pages.
THEOREM ListIntactHolds == Spec => []ListIntact
<1>1. KInv => ListIntact
  BY DEF KInv
<1> QED
  BY <1>1, KallocInvariant, PTL

-----------------------------------------------------------------------------
(* No page is lost: what kalloc() and kfree() once had, they keep.         *)

\* The pages on the list, in the hands of an owner or on their way back.
Known == Listed \cup UNION {owned[t] \cup Freeing(t) : t \in Thread}

\* How far the loops of freerange() have come.
CoverInv ==
  /\ phase \in {"kinit1", "kinit2"} => \A a \in Page : a < p => a \in Known
  /\ phase = "kvmalloc" => \A a \in Page : a + PGSIZE <= ENTRYTOP => a \in Known
  /\ NoPageLost

\* PGROUNDUP(a) is the first page boundary at or above a.
LEMMA RoundUpLeast ==
  ASSUME NEW a \in Nat, NEW b \in Nat, b % PGSIZE = 0, a <= b
  PROVE  PGROUNDUP(a) <= b
<1> DEFINE x == a + PGSIZE - 1
           m == x % PGSIZE
<1>1. PGSIZE \in Nat \ {0} /\ x \in Int
  BY KallocAssumption
<1>2. m \in 0 .. PGSIZE - 1
  BY <1>1, DivMod
<1>3. PGROUNDUP(a) < a + PGSIZE
  <2>1. PGROUNDUP(a) = x - m
    BY DEF PGROUNDUP
  <2> HIDE DEF m
  <2> QED
    BY <1>1, <1>2, <2>1
<1> SUFFICES ASSUME b < PGROUNDUP(a) PROVE FALSE
  BY RoundUp
<1>4. b + PGSIZE <= PGROUNDUP(a)
  BY <1>1, RoundUp, MultiplesApart
<1>5. PGROUNDUP(a) \in Nat
  BY RoundUp
<1> HIDE DEF x, m
<1> QED
  BY <1>1, <1>3, <1>4, <1>5

\* Before the first turn of freerange() no page lies below p.
LEMMA InitCover == Init => CoverInv
<1> SUFFICES ASSUME Init PROVE CoverInv
  OBVIOUS
<1>1. ASSUME NEW a \in Page PROVE ~(a < p)
  <2>1. a \in Nat /\ END <= a /\ a % PGSIZE = 0 /\ END \in Nat
    BY KallocAssumption DEF Page
  <2>2. PGROUNDUP(END) <= a /\ PGROUNDUP(END) \in Nat
    BY <2>1, RoundUpLeast, RoundUp
  <2> QED
    BY <2>1, <2>2 DEF Init
<1> QED
  BY <1>1 DEF Init, CoverInv, NoPageLost

\* kalloc() and kfree() lose no page, whoever runs: a page that leaves the
\* list has an owner, one that leaves its owner is on its way into the list,
\* and stays so until it is in it.
LEMMA KnownGrows ==
  ASSUME KInv, [Next]_vars
  PROVE  Known \subseteq Known'
<1> USE DEF KInv
<1> DEFINE Has(t) == owned[t] \cup Freeing(t)
<1>1. ASSUME UNCHANGED chain, \A u \in Thread : Has(u) \subseteq Has(u)'
      PROVE  Known \subseteq Known'
  BY <1>1 DEF Known, Listed
<1>2. CASE UNCHANGED vars
  <2>1. \A u \in Thread : Has(u)' = Has(u)
    BY <1>2 DEF vars, Freeing
  <2> QED
    BY <1>1, <1>2, <2>1 DEF vars
<1>3. ASSUME NEW t \in Thread, kalloc(t) \/ kfree_lock(t) \/ kalloc_head(t) \/ kfree_link(t)
      PROVE  Known \subseteq Known'
  <2>1. \A u \in Thread : Freeing(u) \subseteq Freeing(u)'
    BY <1>3 DEF kalloc, kfree_lock, enter, kalloc_head, kfree_link, Freeing, TypeOK
  <2>2. UNCHANGED <<owned, chain>>
    BY <1>3 DEF kalloc, kfree_lock, enter, kalloc_head, kfree_link
  <2> QED
    BY <1>1, <2>1, <2>2
<1>4. ASSUME NEW t \in Thread, kalloc_pop(t) PROVE Known \subseteq Known'
  <2>1. /\ pc[t] = "pop" /\ r[t] = freelist /\ r' = r
        /\ pc' = [pc EXCEPT ![t] = "idle"]
    BY <1>4 DEF kalloc_pop, leave, ListIntact
  <2>2. \A u \in Thread : Freeing(u)' = Freeing(u)
    BY <2>1 DEF Freeing, TypeOK
  <2>3. CASE r[t] = Null
    BY <1>1, <1>4, <2>2, <2>3 DEF kalloc_pop
  <2>4. CASE r[t] # Null
    <3>1. chain # <<>> /\ r[t] = chain[1] /\ Len(chain) \in Nat \ {0}
      BY <2>1, <2>4 DEF ListIntact, TypeOK
    <3>2. chain' = Tail(chain) /\ owned' = [owned EXCEPT ![t] = @ \cup {r[t]}]
      BY <1>4, <2>4, <3>1 DEF kalloc_pop
    <3>3. \A u \in Thread : Has(u) \subseteq Has(u)' /\ r[t] \in Has(t)'
      BY <2>2, <3>2 DEF TypeOK
    <3>4. Listed \subseteq Listed' \cup {r[t]}
      <4>1. ASSUME NEW i \in 1 .. Len(chain), i # 1 PROVE chain[i] \in Listed'
        <5>1. i - 1 \in 1 .. Len(chain') /\ chain'[i - 1] = chain[i]
          BY <3>1, <3>2, <4>1 DEF TypeOK
        <5> QED
          BY <5>1 DEF Listed
      <4> QED
        BY <3>1, <4>1 DEF Listed
    <3> QED
      BY <3>3, <3>4 DEF Known
  <2> QED
    BY <2>3, <2>4
<1>5. ASSUME NEW t \in Thread, kfree_push(t) PROVE Known \subseteq Known'
  <2>1. /\ UNCHANGED <<r, owned>> /\ pc' = [pc EXCEPT ![t] = "idle"]
        /\ chain' = <<r[t]>> \o chain /\ pc[t] = "push" /\ r[t] \in Page
    BY <1>5 DEF kfree_push, leave, LockInv
  <2>2. Len(chain') = Len(chain) + 1 /\ chain'[1] = r[t] /\ Len(chain) \in Nat
    BY <2>1 DEF TypeOK
  <2>3. \A i \in 1 .. Len(chain) : i + 1 \in 1 .. Len(chain') /\ chain'[i + 1] = chain[i]
    BY <2>1, <2>2 DEF TypeOK
  <2>4. Listed \subseteq Listed'
    BY <2>3 DEF Listed
  <2>5. r[t] \in Listed'
    BY <2>2, 1 \in 1 .. Len(chain') DEF Listed
  <2>6. \A u \in Thread : Freeing(u) \subseteq Freeing(u)' \cup {r[t]}
    BY <2>1 DEF Freeing, TypeOK
  <2> QED
    BY <2>1, <2>4, <2>5, <2>6 DEF Known
<1>6. ASSUME NEW t \in Thread, NEW v \in Page, kfree(t, v) PROVE Known \subseteq Known'
  <2>1. /\ owned' = [owned EXCEPT ![t] = @ \ {v}] /\ chain' = chain
        /\ r' = [r EXCEPT ![t] = v] /\ pc' = [pc EXCEPT ![t] = "junk"] /\ pc[t] = "idle"
    BY <1>6 DEF kfree, kfree_junk
  <2>2. Freeing(t)' = {v} /\ Freeing(t) = {} /\ owned'[t] = owned[t] \ {v}
    BY <2>1 DEF Freeing, TypeOK
  <2>3. \A u \in Thread \ {t} : Has(u)' = Has(u)
    BY <2>1 DEF Freeing, TypeOK
  <2> QED
    BY <1>1, <2>1, <2>2, <2>3
<1>7. ASSUME NEW t \in Thread, NEW v \in Page, write(t, v) PROVE Known \subseteq Known'
  <2>1. UNCHANGED <<pc, r, owned, chain>>
    BY <1>7 DEF write
  <2> QED
    BY <1>1, <2>1 DEF Freeing
<1>8. CASE freerange
  <2>1. /\ UNCHANGED <<owned, chain>> /\ pc[Boot] = "idle"
        /\ r' = [r EXCEPT ![Boot] = p] /\ pc' = [pc EXCEPT ![Boot] = "junk"]
    BY <1>8 DEF freerange, kfree_junk
  <2>2. \A u \in Thread : Freeing(u) \subseteq Freeing(u)'
    BY <2>1 DEF Freeing, TypeOK
  <2> QED
    BY <1>1, <2>1, <2>2
<1>9. CASE kinit1 \/ kvmalloc \/ kinit2
  <2>1. UNCHANGED <<pc, r, owned, chain>>
    BY <1>9 DEF kinit1, kvmalloc, kinit2
  <2> QED
    BY <1>1, <2>1 DEF Freeing
<1> QED
  BY <1>2, <1>3, <1>4, <1>5, <1>6, <1>7, <1>8, <1>9 DEF Next

\* Every page is reached by one of the two loops of freerange(): none is left
\* between the end of kinit1() and the start of kinit2().
LEMMA CoverStep == KInv /\ CoverInv /\ [Next]_vars => CoverInv'
<1> SUFFICES ASSUME KInv, CoverInv, [Next]_vars PROVE CoverInv'
  OBVIOUS
<1>1. Known \subseteq Known'
  BY KnownGrows
<1>2. PGSIZE \in Nat \ {0} /\ ENTRYTOP \in Nat /\ TOP \in Nat /\ Boot \in Thread
  BY KallocAssumption
<1>3. /\ p \in Nat /\ p % PGSIZE = 0
      /\ phase \in {"kinit1", "kvmalloc", "kinit2", "run"}
  BY DEF KInv, TypeOK, BootInv
<1>4. \A a \in Page : a \in Nat /\ a % PGSIZE = 0 /\ a + PGSIZE <= TOP
  BY <1>2, KallocAssumption DEF Page
<1>5. CASE UNCHANGED <<phase, p>>
  BY <1>1, <1>5 DEF CoverInv, NoPageLost, Known
<1>6. CASE freerange
  <2>1. p' = p + PGSIZE /\ phase' = phase /\ phase \in {"kinit1", "kinit2"}
    BY <1>6 DEF freerange
  <2>2. p \in Known'
    <3>1. r' = [r EXCEPT ![Boot] = p] /\ pc' = [pc EXCEPT ![Boot] = "junk"]
      BY <1>6 DEF freerange, kfree_junk
    <3>2. Freeing(Boot)' = {p}
      BY <1>2, <3>1 DEF Freeing, KInv, TypeOK
    <3> QED
      BY <1>2, <3>2 DEF Known
  <2>3. ASSUME NEW a \in Page, a < p + PGSIZE PROVE a < p \/ a = p
    <3> SUFFICES ASSUME p < a PROVE FALSE
      BY <1>3, <1>4
    <3>1. p + PGSIZE <= a
      BY <1>2, <1>3, <1>4, MultiplesApart
    <3> QED
      BY <1>2, <1>3, <1>4, <2>3, <3>1
  <2> QED
    BY <1>1, <2>1, <2>2, <2>3 DEF CoverInv, NoPageLost
<1>7. CASE kinit1
  <2>1. /\ p + PGSIZE > ENTRYTOP /\ phase = "kinit1" /\ phase' = "kvmalloc"
    BY <1>7 DEF kinit1, vend
  <2>2. \A a \in Page : a + PGSIZE <= ENTRYTOP => a < p
    BY <1>2, <1>3, <1>4, <2>1
  <2> QED
    BY <1>1, <2>1, <2>2 DEF CoverInv, NoPageLost
<1>8. CASE kvmalloc
  <2>1. p' = PGROUNDUP(ENTRYTOP) /\ phase = "kvmalloc" /\ phase' = "kinit2"
    BY <1>8 DEF kvmalloc
  <2>2. PGROUNDUP(ENTRYTOP) <= ENTRYTOP /\ PGROUNDUP(ENTRYTOP) \in Nat
    BY <1>2, RoundUpLeast, RoundUp, KallocAssumption
  <2>3. ASSUME NEW a \in Page, a < PGROUNDUP(ENTRYTOP) PROVE a + PGSIZE <= ENTRYTOP
    <3>1. a < ENTRYTOP
      BY <1>2, <1>4, <2>2, <2>3
    <3> QED
      BY <1>2, <1>4, <3>1, MultiplesApart, KallocAssumption
  <2> QED
    BY <1>1, <2>1, <2>3 DEF CoverInv, NoPageLost
<1>9. CASE kinit2
  <2>1. p + PGSIZE > TOP /\ phase = "kinit2" /\ phase' = "run"
    BY <1>9 DEF kinit2, vend
  <2>2. \A a \in Page : a < p
    BY <1>2, <1>3, <1>4, <2>1
  <2>3. Page \subseteq Known
    BY <2>1, <2>2 DEF CoverInv
  <2> QED
    BY <1>1, <2>1, <2>3 DEF CoverInv, NoPageLost, Known
<1> QED
  BY Zenon, <1>5, <1>6, <1>7, <1>8, <1>9
     DEF Next, vars, kalloc, kfree_lock, enter, kalloc_head, kalloc_pop, kfree, kfree_link,
         kfree_push, write

\* freerange() called twice, once up to what entrypgdir maps and once up to
\* PHYSTOP, leaves out no page, and no sequence of kalloc() and kfree() loses
\* one: for any page size and memory size.
THEOREM NoPageLostHolds == Spec => []NoPageLost
<1>1. CoverInv => NoPageLost
  BY DEF CoverInv
<1> QED
  BY <1>1, InitCover, CoverStep, KallocInvariant, PTL DEF Spec
=============================================================================
