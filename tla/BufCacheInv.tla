---------------------------- MODULE BufCacheInv -----------------------------
(***************************************************************************)
(* The inductive invariant CInv of BufCache, and one lemma for each action *)
(* except bget() and those that release a buffer: the action preserves     *)
(* CInv.  The others, the initial states and the theorems are in           *)
(* BufCacheProofs.                                                         *)
(***************************************************************************)
EXTENDS BufCache, TLAPS

BufRec == [sector : Sector \cup {None}, busy : BOOLEAN, valid : BOOLEAN,
           dirty : BOOLEAN, data : Value]
ProcRec == [pc : {"idle", "trans", "bget", "iderw", "iderw_wait", "have"},
            mode : {"none", "read", "trans", "logged", "commit", "wrote"},
            want : Sector \cup {None}, held : Seq(Buf), asleep : Buf \cup {None}]

Types ==
  /\ buf \in [Buf -> BufRec]
  /\ lru \in Seq(Buf) /\ Range(lru) = Buf /\ Len(lru) = Cardinality(Buf)
  /\ idequeue \in Seq(Buf)
  /\ disk \in [Sector -> Value]
  /\ me \in [Proc -> ProcRec]
  /\ owner \in Proc \cup {None}
  /\ lh \in Seq(Data) /\ Len(lh) <= LOGSIZE
  /\ tail \in 0 .. Len(lh) + 1
  /\ memdisk \in BOOLEAN
  /\ panicked \in BOOLEAN
  /\ logical \in [Sector -> Value]

Last(h) == h[Len(h)]
Held(m) == Range(m.held)
Waiting(m) == m.pc \in {"iderw", "iderw_wait"}

\* Where a process is in bread(), log_write() and commit_trans(): l is log.lh
\* and t how far the commit is.
Control(m, l, t) ==
  /\ m.mode = "none" <=> m.pc = "idle"
  /\ m.pc = "idle" => Len(m.held) = 0
  /\ m.pc = "trans" => m.mode = "trans" /\ Len(m.held) = 0
  /\ m.pc = "bget" =>
       /\ m.want \in Sector
       /\ m.mode \in {"read", "trans", "commit"}
       /\ Len(m.held) \in {0, 1}
       /\ m.mode = "read" => Len(m.held) = 0
       /\ m.mode = "trans" /\ Len(m.held) = 0 => m.want \in Data
       /\ m.mode = "commit" /\ Len(m.held) = 1 => t \in 1 .. Len(l) /\ m.want = l[t]
  /\ m.pc \in {"iderw", "iderw_wait", "have"} => Len(m.held) \in {1, 2}
  /\ m.mode = "read" => Len(m.held) \in {0, 1}
  /\ m.mode = "logged" => m.pc = "have" \/ (Waiting(m) /\ Len(m.held) = 2)
  /\ m.mode = "wrote" => m.pc = "have" \/ Waiting(m)
  /\ m.mode \in {"trans", "logged"} => t = 0 /\ (m.pc # "trans" => Len(l) < LOGSIZE)
  /\ m.mode \in {"commit", "wrote"} => Len(l) > 0 /\ (Len(m.held) = 2 => t \in 1 .. Len(l))

\* What the buffers B are like that a process holds.
Contents(m, B, l, t) ==
  /\ \A b \in Held(m) : B[b].busy /\ B[b].sector \in Sector
  /\ Len(m.held) = 2 => m.held[1] # m.held[2]
  /\ m.pc = "have" => B[Last(m.held)].valid
  /\ m.pc = "iderw" /\ m.mode \in {"read", "trans", "commit"} => ~B[Last(m.held)].valid
  /\ m.pc = "iderw" /\ m.mode \in {"logged", "wrote"} => B[Last(m.held)].dirty
  /\ m.pc = "have" /\ (m.mode = "wrote" \/ (m.mode = "logged" /\ Len(m.held) = 2))
       => ~B[Last(m.held)].dirty
  /\ Len(m.held) = 2 \/ (m.pc = "bget" /\ Len(m.held) = 1) => B[m.held[1]].valid
  /\ m.mode \in {"trans", "logged"} /\ Len(m.held) > 0 => B[m.held[1]].sector \in Data
  /\ m.mode = "commit" /\ m.pc # "bget" /\ Len(m.held) = 2 => B[Last(m.held)].sector = l[t]
  /\ m.mode = "wrote" /\ t \in 1 .. Len(l) => B[Last(m.held)].sector = l[t]

ProcInv == \A p \in Proc : Control(me[p], lh, tail) /\ Contents(me[p], buf, lh, tail)

\* B_BUSY has one holder.
HolderInv ==
  /\ \A p, q \in Proc : p # q => Held(me[p]) \cap Held(me[q]) = {}
  /\ \A b \in Buf : buf[b].busy => \E p \in Proc : b \in Held(me[p])

\* No sector is cached twice.
SectorInv == \A b, c \in Buf : buf[b].sector = buf[c].sector /\ buf[b].sector # None => b = c

\* log.busy: one process is in a transaction; the log is empty otherwise.
OwnerInv ==
  /\ \A p \in Proc : owner = p <=> me[p].mode \in {"trans", "logged", "commit", "wrote"}
  /\ owner = None => Len(lh) = 0 /\ tail = 0

\* log_write() changed the first buffer it holds; it is not pinned yet.
Changed(m) ==
  \/ m.mode = "logged"
  \/ m.mode = "trans" /\ (Len(m.held) = 2 \/ (m.pc = "bget" /\ Len(m.held) = 1))

\* The buffers whose contents the disk may not have.
Ahead(B, M) == {b \in Buf : B[b].valid /\ (B[b].dirty \/ \E p \in Proc : Changed(M[p]) /\ M[p].held[1] = b)}

\* A valid buffer has the last contents written; so has the disk, but for the
\* sectors of the buffers ahead of it.
CoherenceInv ==
  /\ \A b \in Buf : buf[b].valid => buf[b].sector \in Sector /\ buf[b].data = logical[buf[b].sector]
  /\ \A b \in Buf : buf[b].dirty => buf[b].valid
  /\ \A s \in Sector : disk[s] # logical[s] => \E b \in Ahead(buf, me) : buf[b].sector = s

\* The sector s is in the log l and its block is not installed yet.
Pinned(s, l, t) == \E i \in 1 .. Len(l) : t <= i /\ s = l[i]
\* iderw() is to write b.
Writing(m, b) == m.mode \in {"logged", "wrote"} /\ Waiting(m) /\ b = Last(m.held)

\* A dirty buffer is pinned by the log, or being written.
DirtyInv ==
  \A b \in Buf : buf[b].dirty =>
    Pinned(buf[b].sector, lh, tail) \/ \E p \in Proc : Writing(me[p], b)

\* The disk is to read or to write the buffer.
Pending(r) == ~r.valid \/ r.dirty

\* A request is queued once, and its process is in iderw() with that buffer.
QueueInv ==
  /\ \A i, j \in 1 .. Len(idequeue) : idequeue[i] = idequeue[j] => i = j
  /\ \A i \in 1 .. Len(idequeue) :
       /\ Pending(buf[idequeue[i]])
       /\ \E p \in Proc : me[p].pc = "iderw_wait" /\ idequeue[i] = Last(me[p].held)

CInv ==
  /\ Types
  /\ ProcInv
  /\ HolderInv
  /\ SectorInv
  /\ OwnerInv
  /\ CoherenceInv
  /\ DirtyInv
  /\ QueueInv

-----------------------------------------------------------------------------
(* Sequences and numbers.                                                  *)

\* The buffers of a process, which are at most two.
LEMMA HeldElements ==
  ASSUME NEW h \in Seq(Buf), Len(h) \in {0, 1, 2}
  PROVE  /\ Len(h) = 0 => Range(h) = {}
         /\ Len(h) = 1 => h[1] \in Buf /\ Range(h) = {h[1]} /\ Last(h) = h[1]
         /\ Len(h) = 2 => h[1] \in Buf /\ h[2] \in Buf /\ Range(h) = {h[1], h[2]} /\ Last(h) = h[2]
<1>1. DOMAIN h = 1 .. Len(h)
  OBVIOUS
<1>2. \A i \in 1 .. Len(h) : h[i] \in Buf
  OBVIOUS
<1>3. CASE Len(h) = 0
  BY <1>1, <1>3 DEF Range
<1>4. CASE Len(h) = 1
  <2>1. 1 .. Len(h) = {1}
    BY <1>4
  <2> QED
    BY <1>1, <1>2, <1>4, <2>1 DEF Range, Last
<1>5. CASE Len(h) = 2
  <2>1. 1 .. Len(h) = {1, 2}
    BY <1>5
  <2> QED
    BY <1>1, <1>2, <1>5, <2>1 DEF Range, Last
<1> QED
  BY <1>3, <1>4, <1>5

\* bread() adds a buffer to those a process holds.
LEMMA HeldAppend ==
  ASSUME NEW h \in Seq(Buf), Len(h) \in {0, 1}, NEW b \in Buf
  PROVE  /\ Append(h, b) \in Seq(Buf)
         /\ Len(Append(h, b)) = Len(h) + 1
         /\ Last(Append(h, b)) = b
         /\ Range(Append(h, b)) = Range(h) \cup {b}
         /\ Append(h, b)[1] = IF Len(h) = 0 THEN b ELSE h[1]
<1> DEFINE a == Append(h, b)
<1>1. /\ a \in Seq(Buf) /\ Len(a) = Len(h) + 1 /\ a[Len(h) + 1] = b
      /\ \A i \in 1 .. Len(h) : a[i] = h[i]
  OBVIOUS
<1> HIDE DEF a
<1>2. Len(a) \in {0, 1, 2} /\ Last(a) = b /\ a[1] = IF Len(h) = 0 THEN b ELSE h[1]
  BY <1>1 DEF Last
<1>3. Range(a) = Range(h) \cup {b}
  <2>1. CASE Len(h) = 0
    <3>1. Len(a) = 1 /\ a[1] = b
      BY <2>1, <1>1
    <3>2. Range(a) = {a[1]}
      BY <3>1, <1>1, HeldElements
    <3>3. Range(h) = {}
      BY Zenon, <2>1, HeldElements
    <3> QED
      BY <3>1, <3>2, <3>3
  <2>2. CASE Len(h) = 1
    <3>1. Len(a) = 2 /\ a[1] = h[1] /\ a[2] = b
      BY <2>2, <1>1
    <3>2. Range(a) = {a[1], a[2]}
      BY Zenon, <3>1, <1>1, HeldElements
    <3>3. Range(h) = {h[1]}
      BY <2>2, HeldElements
    <3> QED
      BY <3>1, <3>2, <3>3
  <2> QED
    BY <2>1, <2>2
<1> QED
  BY <1>1, <1>2, <1>3 DEF a

\* The list without the buffer at place i.
Unlinked(l, i) == SubSeq(l, 1, i - 1) \o SubSeq(l, i + 1, Len(l))

\* brelse() unlinks one buffer and keeps the order of the others.
LEMMA UnlinkedElements ==
  ASSUME NEW l \in Seq(Buf), NEW i \in 1 .. Len(l)
  PROVE  /\ Unlinked(l, i) \in Seq(Buf)
         /\ Len(Unlinked(l, i)) = Len(l) - 1
         /\ \A k \in 1 .. Len(l) - 1 : Unlinked(l, i)[k] = IF k < i THEN l[k] ELSE l[k + 1]
<1> DEFINE x == SubSeq(l, 1, i - 1)
           y == SubSeq(l, i + 1, Len(l))
           z == x \o y
<1>1. x \in Seq(Buf) /\ Len(x) = i - 1 /\ \A k \in 1 .. i - 1 : x[k] = l[k]
  OBVIOUS
<1>2. y \in Seq(Buf) /\ Len(y) = Len(l) - i /\ \A k \in 1 .. Len(l) - i : y[k] = l[k + i]
  OBVIOUS
<1>3. Unlinked(l, i) = z
  BY DEF Unlinked
<1> HIDE DEF x, y
<1>4. z \in Seq(Buf) /\ Len(z) = Len(l) - 1
  BY <1>1, <1>2
<1>5. ASSUME NEW k \in 1 .. Len(l) - 1 PROVE z[k] = IF k < i THEN l[k] ELSE l[k + 1]
  <2>1. CASE k < i
    <3>1. z[k] = x[k]
      BY <2>1, <1>1, <1>2
    <3> QED
      BY <2>1, <3>1, <1>1
  <2>2. CASE ~(k < i)
    <3>1. k - (i - 1) \in 1 .. Len(l) - i /\ k - (i - 1) + i = k + 1
      BY <2>2
    <3>2. z[k] = y[k - (i - 1)]
      BY <2>2, <1>1, <1>2
    <3> HIDE DEF z
    <3> QED
      BY <2>2, <3>1, <3>2, <1>2
  <2> HIDE DEF z
  <2> QED
    BY <2>1, <2>2
<1> HIDE DEF z
<1> QED
  BY <1>3, <1>4, <1>5

\* brelse() moves a buffer in the list; the list keeps its buffers.
LEMMA RecentElements ==
  ASSUME NEW l \in Seq(Buf), NEW b \in Range(l)
  PROVE  /\ Recent(l, b) \in Seq(Buf)
         /\ Len(Recent(l, b)) = Len(l)
         /\ Range(Recent(l, b)) = Range(l)
<1> DEFINE i == CHOOSE k \in 1 .. Len(l) : l[k] = b
           r == Unlinked(l, i)
           m == Recent(l, b)
<1>1. i \in 1 .. Len(l) /\ l[i] = b /\ b \in Buf
  BY DEF Range
<1>2. /\ r \in Seq(Buf) /\ Len(r) = Len(l) - 1
      /\ \A k \in 1 .. Len(l) - 1 : r[k] = IF k < i THEN l[k] ELSE l[k + 1]
  <2> HIDE DEF i
  <2> QED
    BY Zenon, <1>1, UnlinkedElements
<1>3. m = <<b>> \o r
  BY DEF Recent, Unlinked
<1> HIDE DEF m, r, i
<1>4. m \in Seq(Buf) /\ Len(m) = Len(l) /\ m[1] = b /\ \A k \in 2 .. Len(l) : m[k] = r[k - 1]
  BY <1>1, <1>2, <1>3
<1>5. ASSUME NEW k \in 1 .. Len(l) PROVE \E j \in 1 .. Len(l) : m[k] = l[j]
  <2>1. CASE k = 1
    BY Zenon, <2>1, <1>1, <1>4
  <2>2. CASE k # 1
    <3>1. k \in 2 .. Len(l) /\ k - 1 \in 1 .. Len(l) - 1 /\ k - 1 \in 1 .. Len(l) /\ k - 1 + 1 = k
      BY <2>2
    <3>2. m[k] = IF k - 1 < i THEN l[k - 1] ELSE l[k]
      BY Zenon, <3>1, <1>2, <1>4
    <3> QED
      BY Zenon, <3>1, <3>2
  <2> QED
    BY <2>1, <2>2
<1>6. ASSUME NEW k \in 1 .. Len(l) PROVE \E j \in 1 .. Len(l) : l[k] = m[j]
  <2>1. CASE k < i
    <3>1. l[k] = m[k + 1] /\ k + 1 \in 1 .. Len(l)
      BY <2>1, <1>1, <1>2, <1>4
    <3> QED
      BY <3>1
  <2>2. CASE k = i
    BY <2>2, <1>1, <1>4
  <2>3. CASE k > i
    <3>1. l[k] = m[k]
      BY <2>3, <1>1, <1>2, <1>4
    <3> QED
      BY <3>1
  <2> QED
    BY <2>1, <2>2, <2>3, <1>1
<1>7. DOMAIN m = 1 .. Len(l) /\ DOMAIN l = 1 .. Len(l)
  BY <1>4
<1>8. Range(m) = {m[k] : k \in 1 .. Len(l)} /\ Range(l) = {l[k] : k \in 1 .. Len(l)}
  BY <1>7 DEF Range
<1>9. Range(m) = Range(l)
  <2>1. Range(m) \subseteq Range(l)
    BY Zenon, <1>8, <1>5
  <2>2. Range(l) \subseteq Range(m)
    BY Zenon, <1>8, <1>6
  <2> QED
    BY Zenon, <2>1, <2>2
<1> QED
  BY <1>4, <1>9 DEF m

-----------------------------------------------------------------------------
(* What a step of one process leaves alone.                                *)

\* Two local states that differ at most in what the process sleeps on.
Same(n, m) == n.pc = m.pc /\ n.mode = m.mode /\ n.want = m.want /\ n.held = m.held

\* wakeup() changes nothing else.
LEMMA AwakeSame ==
  ASSUME NEW M \in [Proc -> ProcRec], NEW b
  PROVE  /\ Awake(M, b) \in [Proc -> ProcRec]
         /\ \A q \in Proc : Same(Awake(M, b)[q], M[q])
<1>1. ASSUME NEW q \in Proc
      PROVE  Awake(M, b)[q] \in ProcRec /\ Same(Awake(M, b)[q], M[q])
  <2>1. Awake(M, b)[q] = IF M[q].asleep = b THEN [M[q] EXCEPT !.asleep = None] ELSE M[q]
    BY DEF Awake
  <2>2. M[q] \in ProcRec
    OBVIOUS
  <2> QED
    BY Zenon, <2>1, <2>2 DEF ProcRec, Same
<1>2. Awake(M, b) \in [Proc -> ProcRec]
  <2>1. Awake(M, b) = [q \in Proc |-> Awake(M, b)[q]]
    BY DEF Awake
  <2> QED
    BY <2>1, <1>1
<1> QED
  BY <1>1, <1>2

\* A process keeps its place in the program whatever others do; only the one
\* in a transaction looks at the log.
LEMMA ControlFrame ==
  ASSUME NEW m, NEW n, Same(n, m), NEW l, NEW t, NEW l2, NEW t2,
         (l2 = l /\ t2 = t) \/ m.mode \in {"none", "read"},
         Control(m, l, t)
  PROVE  Control(n, l2, t2)
<1>1. CASE l2 = l /\ t2 = t
  BY <1>1 DEF Control, Same, Waiting
<1>2. CASE m.mode \in {"none", "read"}
  BY <1>2 DEF Control, Same, Waiting
<1> QED
  BY <1>1, <1>2

\* The same for what it holds, as long as its buffers are left alone.
LEMMA ContentsFrame ==
  ASSUME NEW m \in ProcRec, NEW n, Same(n, m), NEW l, NEW t, NEW l2, NEW t2, NEW B, NEW B2,
         (l2 = l /\ t2 = t) \/ m.mode \in {"none", "read"},
         Control(m, l, t), Contents(m, B, l, t),
         \A b \in Held(m) : B2[b] = B[b]
  PROVE  Contents(n, B2, l2, t2)
<1>1. m.held \in Seq(Buf) /\ Len(m.held) \in {0, 1, 2}
  <2>1. m.held \in Seq(Buf) /\ m.pc \in {"idle", "trans", "bget", "iderw", "iderw_wait", "have"}
    BY DEF ProcRec
  <2> QED
    BY <2>1 DEF Control
<1>2. Len(m.held) > 0 => /\ m.held[1] \in Held(m) /\ Last(m.held) \in Held(m)
                         /\ B2[m.held[1]] = B[m.held[1]]
                         /\ B2[Last(m.held)] = B[Last(m.held)]
  BY <1>1, HeldElements DEF Held
<1>3. /\ m.pc \in {"have", "iderw", "iderw_wait"} => Len(m.held) > 0
      /\ m.mode = "wrote" => Len(m.held) > 0
  BY <1>1 DEF Control, Waiting
<1>4. CASE l2 = l /\ t2 = t
  BY <1>1, <1>2, <1>3, <1>4 DEF Contents, Same, Held
<1>5. CASE m.mode \in {"none", "read"}
  BY <1>1, <1>2, <1>3, <1>5 DEF Contents, Same, Held
<1> QED
  BY <1>4, <1>5

\* What remains to show of the processes after a step of p: the place and the
\* buffers of p itself.
LEMMA ProcStep ==
  ASSUME me \in [Proc -> ProcRec], ProcInv, HolderInv, OwnerInv,
         NEW p \in Proc,
         \A q \in Proc : q # p => Same(me'[q], me[q]),
         \A q \in Proc : q # p => \A b \in Held(me[q]) : buf'[b] = buf[b],
         (lh' = lh /\ tail' = tail) \/ owner = p,
         Control(me'[p], lh', tail'),
         Contents(me'[p], buf', lh', tail')
  PROVE  ProcInv'
<1> SUFFICES ASSUME NEW q \in Proc, q # p
             PROVE  Control(me'[q], lh', tail') /\ Contents(me'[q], buf', lh', tail')
  BY DEF ProcInv
<1>1. Same(me'[q], me[q]) /\ \A b \in Held(me[q]) : buf'[b] = buf[b]
  OBVIOUS
<1>2. me[q] \in ProcRec /\ Control(me[q], lh, tail) /\ Contents(me[q], buf, lh, tail)
  BY DEF ProcInv
<1>3. (lh' = lh /\ tail' = tail) \/ me[q].mode \in {"none", "read"}
  BY <1>2 DEF OwnerInv, ProcRec
<1> QED
  BY <1>1, <1>2, <1>3, ControlFrame, ContentsFrame

\* After a step of p the busy buffers still have one holder, if p took only
\* buffers that were free, and B_BUSY follows what p holds.
LEMMA HolderStep ==
  ASSUME HolderInv, NEW p \in Proc,
         \A q \in Proc : q # p => Same(me'[q], me[q]),
         \A b \in Held(me'[p]) : b \in Held(me[p]) \/ ~buf[b].busy,
         \A q \in Proc : \A b \in Held(me[q]) : buf[b].busy,
         \A b \in Buf : buf'[b].busy => b \in Held(me'[p]) \/ (buf[b].busy /\ b \notin Held(me[p]))
  PROVE  HolderInv'
<1>1. \A q \in Proc : q # p => Held(me'[q]) = Held(me[q])
  BY DEF Same, Held
<1>2. \A q, r \in Proc : q # r => Held(me'[q]) \cap Held(me'[r]) = {}
  BY <1>1 DEF HolderInv
<1>3. \A b \in Buf : buf'[b].busy => \E q \in Proc : b \in Held(me'[q])
  BY <1>1 DEF HolderInv
<1> QED
  BY <1>2, <1>3 DEF HolderInv, Held

\* The disk stays behind only in sectors of buffers that are ahead.
LEMMA AheadStep ==
  ASSUME CoherenceInv,
         \A s \in Sector : \/ disk'[s] = disk[s] /\ logical'[s] = logical[s]
                           \/ disk'[s] = logical'[s]
                           \/ \E b \in Ahead(buf', me') : buf'[b].sector = s,
         \A b \in Ahead(buf, me) : b \in Ahead(buf', me') /\ buf'[b].sector = buf[b].sector
  PROVE  \A s \in Sector : disk'[s] # logical'[s] => \E b \in Ahead(buf', me') : buf'[b].sector = s
BY DEF CoherenceInv

\* A process that stays where it is keeps its change and its request.
LEMMA SameViews ==
  ASSUME NEW n, NEW m, Same(n, m)
  PROVE  /\ n.held = m.held /\ Held(n) = Held(m)
         /\ Changed(n) <=> Changed(m)
         /\ \A b : Writing(n, b) <=> Writing(m, b)
BY DEF Same, Held, Changed, Writing, Waiting

\* Dirty buffers after a step of p.
LEMMA DirtyStep ==
  ASSUME DirtyInv, NEW p \in Proc,
         \A q \in Proc : q # p => Same(me'[q], me[q]),
         \A b \in Buf : buf'[b].dirty =>
           \/ Pinned(buf'[b].sector, lh', tail')
           \/ Writing(me'[p], b)
           \/ /\ buf[b].dirty /\ ~Writing(me[p], b)
              /\ Pinned(buf[b].sector, lh, tail) => Pinned(buf'[b].sector, lh', tail')
  PROVE  DirtyInv'
<1> SUFFICES ASSUME NEW b \in Buf, buf'[b].dirty
             PROVE  Pinned(buf'[b].sector, lh', tail') \/ \E q \in Proc : Writing(me'[q], b)
  BY DEF DirtyInv
<1>1. \A q \in Proc : q # p => (Writing(me'[q], b) <=> Writing(me[q], b))
  BY SameViews
<1> QED
  BY <1>1 DEF DirtyInv

\* The buffers a process holds include the one it works on.
LEMMA TopHeld ==
  ASSUME NEW m \in ProcRec, NEW l, NEW t, Control(m, l, t)
  PROVE  /\ m.held \in Seq(Buf) /\ Len(m.held) \in {0, 1, 2}
         /\ Held(m) \subseteq Buf
         /\ m.pc \in {"iderw", "iderw_wait", "have"} => Len(m.held) \in {1, 2}
         /\ Len(m.held) > 0 => Last(m.held) \in Held(m) /\ m.held[1] \in Held(m)
<1>1. m.held \in Seq(Buf) /\ m.pc \in {"idle", "trans", "bget", "iderw", "iderw_wait", "have"}
  BY DEF ProcRec
<1>2. Len(m.held) \in {0, 1, 2}
  BY <1>1 DEF Control
<1>3. m.pc \in {"iderw", "iderw_wait", "have"} => Len(m.held) \in {1, 2}
  BY <1>1 DEF Control
<1> QED
  BY <1>1, <1>2, <1>3, HeldElements DEF Held

\* The queue of the disk after a step that adds or serves no request.
LEMMA QueueStep ==
  ASSUME me \in [Proc -> ProcRec], ProcInv, QueueInv, NEW p \in Proc,
         idequeue' = idequeue,
         \A q \in Proc : q # p => Same(me'[q], me[q]),
         \A q \in Proc : q # p => \A b \in Held(me[q]) : buf'[b] = buf[b],
         me[p].pc = "iderw_wait" =>
           \/ ~Pending(buf[Last(me[p].held)])
           \/ Same(me'[p], me[p]) /\ \A b \in Held(me[p]) : buf'[b] = buf[b]
  PROVE  QueueInv'
<1> SUFFICES ASSUME NEW i \in 1 .. Len(idequeue)
             PROVE  /\ Pending(buf'[idequeue[i]])
                    /\ \E q \in Proc : me'[q].pc = "iderw_wait" /\ idequeue[i] = Last(me'[q].held)
  BY DEF QueueInv
<1>1. Pending(buf[idequeue[i]])
  BY DEF QueueInv
<1>2. PICK q \in Proc : me[q].pc = "iderw_wait" /\ idequeue[i] = Last(me[q].held)
  BY DEF QueueInv
<1>3. idequeue[i] \in Held(me[q])
  <2>1. me[q] \in ProcRec /\ Control(me[q], lh, tail)
    BY DEF ProcInv
  <2>2. me[q].held \in Seq(Buf) /\ Len(me[q].held) \in {1, 2}
    BY <2>1, <1>2 DEF Control, ProcRec
  <2>3. \A k \in {1, 2} : k > 0
    OBVIOUS
  <2>4. Len(me[q].held) > 0
    BY Zenon, <2>2, <2>3
  <2> QED
    BY <2>1, <2>4, <1>2, TopHeld
<1>4. Same(me'[q], me[q]) /\ buf'[idequeue[i]] = buf[idequeue[i]]
  BY <1>1, <1>2, <1>3
<1> QED
  BY <1>1, <1>2, <1>4 DEF Same

\* A step that only moves p in its program, with the buffers it has.
LEMMA QuietStep ==
  ASSUME CInv, NEW p \in Proc, NEW r \in ProcRec,
         me' = [me EXCEPT ![p] = r],
         UNCHANGED <<buf, lru, idequeue, disk, lh, tail, memdisk, panicked, logical>>,
         owner' \in Proc \cup {None},
         r.held = me[p].held,
         Control(r, lh, tail), Contents(r, buf, lh, tail),
         OwnerInv',
         Changed(me[p]) => Changed(r),
         \A b \in Buf : buf[b].dirty /\ Writing(me[p], b) => Writing(r, b),
         me[p].pc = "iderw_wait" => r.pc = "iderw_wait" \/ ~Pending(buf[Last(me[p].held)])
  PROVE  CInv'
<1>1. me \in [Proc -> ProcRec] /\ ProcInv /\ HolderInv /\ OwnerInv /\ QueueInv
  BY DEF CInv, Types
<1>2. me'[p] = r /\ \A q \in Proc : q # p => me'[q] = me[q] /\ Same(me'[q], me[q])
  BY <1>1 DEF Same
<1>3. me' \in [Proc -> ProcRec]
  BY <1>1
<1>4. Types'
  BY <1>3 DEF CInv, Types
<1>5. ProcInv'
  BY <1>1, <1>2, ProcStep
<1>6. HolderInv'
  <2>1. Held(me'[p]) = Held(me[p])
    BY <1>2 DEF Held
  <2>2. \A q \in Proc : \A b \in Held(me[q]) : buf[b].busy
    BY Zenon, <1>1 DEF ProcInv, Contents
  <2> QED
    BY <1>1, <1>2, <2>1, <2>2, HolderStep
<1>7. SectorInv'
  BY DEF CInv, SectorInv
<1>8. CoherenceInv'
  <2>1. \A q \in Proc : Changed(me[q]) => Changed(me'[q]) /\ me'[q].held = me[q].held
    BY <1>2
  <2>2. \A b \in Ahead(buf, me) : b \in Ahead(buf', me')
    BY <2>1 DEF Ahead
  <2> QED
    BY Zenon, <2>2 DEF CInv, CoherenceInv
<1>9. DirtyInv'
  BY <1>2, DirtyStep DEF CInv
<1>10. QueueInv'
  <2>1. CASE r.pc = "iderw_wait"
    BY <2>1, <1>1, <1>2 DEF QueueInv
  <2>2. CASE r.pc # "iderw_wait"
    BY <2>2, <1>1, <1>2, QueueStep
  <2> QED
    BY <2>1, <2>2
<1> QED
  BY <1>4, <1>5, <1>6, <1>7, <1>8, <1>9, <1>10 DEF CInv

-----------------------------------------------------------------------------
(* The steps that touch no buffer.                                         *)

\* What the invariant says of one process.
LEMMA Local ==
  ASSUME CInv, NEW p \in Proc
  PROVE  /\ me[p] \in ProcRec
         /\ Control(me[p], lh, tail) /\ Contents(me[p], buf, lh, tail)
         /\ owner = p <=> me[p].mode \in {"trans", "logged", "commit", "wrote"}
         /\ lh \in Seq(Data) /\ Len(lh) \in Nat /\ Len(lh) <= LOGSIZE
         /\ tail \in 0 .. Len(lh) + 1
BY DEF CInv, Types, ProcInv, OwnerInv

\* Whoever holds a buffer has B_BUSY set.
LEMMA HeldBusy ==
  ASSUME CInv
  PROVE  \A q \in Proc : \A b \in Held(me[q]) : buf[b].busy /\ buf[b].sector \in Sector
<1> SUFFICES ASSUME NEW q \in Proc
             PROVE  \A b \in Held(me[q]) : buf[b].busy /\ buf[b].sector \in Sector
  OBVIOUS
<1>1. Contents(me[q], buf, lh, tail)
  BY DEF CInv, ProcInv
<1> QED
  BY Zenon, <1>1 DEF Contents

\* A reader asks for a block.
LEMMA ReadStep ==
  ASSUME CInv, NEW p \in Proc, read(p)
  PROVE  CInv'
<1>1. PICK s \in Data : me' = [me EXCEPT ![p] = [Wants(p, s) EXCEPT !.mode = "read"]]
  BY Zenon DEF read, Set
<1> DEFINE r == [Wants(p, s) EXCEPT !.mode = "read"]
<1>2. me[p] \in ProcRec /\ me[p].pc = "idle" /\ Control(me[p], lh, tail) /\ s \in Sector
  BY Local DEF read, At, Sector
<1>3. /\ r \in ProcRec /\ r.pc = "bget" /\ r.mode = "read" /\ r.want = s /\ r.held = me[p].held
  BY Zenon, <1>2 DEF Wants, ProcRec
<1> HIDE DEF r
<1>4. me[p].mode = "none" /\ Len(me[p].held) = 0 /\ Held(me[p]) = {}
  BY <1>2, HeldElements DEF Control, ProcRec, Held
<1>5. Control(r, lh, tail)
  BY <1>2, <1>3, <1>4 DEF Control
<1>6. Contents(r, buf, lh, tail)
  BY <1>3, <1>4 DEF Contents, Held
<1>7. UNCHANGED <<buf, lru, idequeue, disk, owner, lh, tail, memdisk, panicked, logical>>
  BY DEF read, log
<1>8. OwnerInv'
  BY <1>1, <1>3, <1>4, <1>7 DEF CInv, Types, OwnerInv, r
<1>9. me' = [me EXCEPT ![p] = r] /\ owner' \in Proc \cup {None}
  BY <1>1, <1>7 DEF CInv, Types, r
<1> QED
  BY Zenon, <1>2, <1>3, <1>4, <1>5, <1>6, <1>7, <1>8, <1>9, QuietStep DEF Changed, Writing

\* begin_trans(): log.busy is taken.
LEMMA BeginStep ==
  ASSUME CInv, NEW p \in Proc, begin_trans(p)
  PROVE  CInv'
<1> DEFINE r == [me[p] EXCEPT !.pc = "trans", !.mode = "trans"]
<1>1. me' = [me EXCEPT ![p] = r] /\ owner = None /\ owner' = p
  BY DEF begin_trans, Set
<1>2. me[p] \in ProcRec /\ me[p].pc = "idle" /\ Control(me[p], lh, tail)
  BY Local DEF begin_trans, At
<1>3. /\ r \in ProcRec /\ r.pc = "trans" /\ r.mode = "trans" /\ r.held = me[p].held
  BY Zenon, <1>2 DEF ProcRec
<1> HIDE DEF r
<1>4. me[p].mode = "none" /\ Len(me[p].held) = 0 /\ Held(me[p]) = {}
  BY <1>2, HeldElements DEF Control, ProcRec, Held
<1>5. tail = 0
  BY <1>1 DEF CInv, OwnerInv
<1>6. Control(r, lh, tail)
  BY <1>2, <1>3, <1>4, <1>5 DEF Control
<1>7. Contents(r, buf, lh, tail)
  BY <1>3, <1>4 DEF Contents, Held
<1>8. UNCHANGED <<buf, lru, idequeue, disk, lh, tail, memdisk, panicked, logical>>
  BY DEF begin_trans
<1>9. OwnerInv'
  <2>1. \A q \in Proc : owner # q /\ me[q].mode \notin {"trans", "logged", "commit", "wrote"}
    BY <1>1, BufCacheAssumption DEF CInv, OwnerInv
  <2>2. p # None
    BY BufCacheAssumption
  <2>3. me'[p] = r /\ \A q \in Proc : q # p => me'[q] = me[q]
    BY <1>1 DEF CInv, Types
  <2> QED
    BY <2>1, <2>2, <2>3, <1>1, <1>3 DEF OwnerInv
<1> QED
  BY Zenon, <1>1, <1>2, <1>3, <1>4, <1>6, <1>7, <1>8, <1>9, QuietStep DEF Changed, Writing

\* A block that the transaction is to change.
LEMMA TransBreadStep ==
  ASSUME CInv, NEW p \in Proc, trans_bread(p)
  PROVE  CInv'
<1>1. PICK s \in Data : me' = [me EXCEPT ![p] = Wants(p, s)]
  BY Zenon DEF trans_bread, Set
<1> DEFINE r == Wants(p, s)
<1>2. me[p] \in ProcRec /\ me[p].pc = "trans" /\ Control(me[p], lh, tail) /\ s \in Sector /\ Len(lh) < LOGSIZE
  BY Local DEF trans_bread, At, Sector
<1>3. /\ r \in ProcRec /\ r.pc = "bget" /\ r.mode = me[p].mode /\ r.want = s /\ r.held = me[p].held
  BY Zenon, <1>2 DEF Wants, ProcRec
<1> HIDE DEF r
<1>4. me[p].mode = "trans" /\ Len(me[p].held) = 0 /\ Held(me[p]) = {}
  BY <1>2, HeldElements DEF Control, ProcRec, Held
<1>5. Control(r, lh, tail)
  BY <1>2, <1>3, <1>4 DEF Control
<1>6. Contents(r, buf, lh, tail)
  BY <1>3, <1>4 DEF Contents, Held
<1>7. UNCHANGED <<buf, lru, idequeue, disk, owner, lh, tail, memdisk, panicked, logical>>
  BY DEF trans_bread, log
<1>8. OwnerInv'
  BY <1>1, <1>3, <1>4, <1>7 DEF CInv, Types, OwnerInv, r
<1>9. me' = [me EXCEPT ![p] = r] /\ owner' \in Proc \cup {None}
  BY <1>1, <1>7 DEF CInv, Types, r
<1> QED
  BY Zenon, <1>2, <1>3, <1>4, <1>5, <1>6, <1>7, <1>8, <1>9, QuietStep DEF Changed, Writing

\* commit_trans() of an empty transaction, or its first bread().
LEMMA CommitStep ==
  ASSUME CInv, NEW p \in Proc, commit_trans(p)
  PROVE  CInv'
<1>1. me[p] \in ProcRec /\ me[p].pc = "trans" /\ Control(me[p], lh, tail)
  BY Local DEF commit_trans, At
<1>2. me[p].mode = "trans" /\ Len(me[p].held) = 0 /\ me[p].held = <<>> /\ Held(me[p]) = {} /\ tail = 0
  BY <1>1, HeldElements DEF Control, ProcRec, Held
<1>3. UNCHANGED <<buf, lru, idequeue, disk, lh, tail, memdisk, panicked, logical>>
  BY DEF commit_trans
<1>4. owner = p
  BY <1>2, Local
<1>5. \A q \in Proc : q # p => me[q].mode \notin {"trans", "logged", "commit", "wrote"}
  BY <1>4 DEF CInv, OwnerInv
<1>6. ~Changed(me[p]) /\ (\A b : ~Writing(me[p], b)) /\ me[p].pc # "iderw_wait"
  BY <1>1, <1>2 DEF Changed, Writing
<1>7. CASE lh = <<>>
  <2>1. me' = [me EXCEPT ![p] = Idle] /\ owner' = None
    BY <1>7 DEF commit_trans, Set
  <2>2. /\ Idle \in ProcRec /\ Idle.pc = "idle" /\ Idle.mode = "none" /\ Idle.held = me[p].held
    BY <1>2 DEF Idle, ProcRec
  <2>3. Control(Idle, lh, tail)
    BY <1>2, <2>2 DEF Control
  <2>4. Contents(Idle, buf, lh, tail)
    BY <1>2, <2>2 DEF Contents, Held
  <2>5. OwnerInv'
    <3>1. me'[p] = Idle /\ \A q \in Proc : q # p => me'[q] = me[q]
      BY <2>1 DEF CInv, Types
    <3>2. \A q \in Proc : q # None
      BY BufCacheAssumption
    <3> QED
      BY <1>2, <1>3, <1>5, <1>7, <2>1, <2>2, <3>1, <3>2 DEF OwnerInv
  <2> QED
    BY Zenon, <1>3, <1>6, <2>1, <2>2, <2>3, <2>4, <2>5, QuietStep
<1>8. CASE lh # <<>>
  <2> DEFINE r == [Wants(p, Head0) EXCEPT !.mode = "commit"]
  <2>1. me' = [me EXCEPT ![p] = r] /\ owner' = owner
    BY <1>8 DEF commit_trans, Set
  <2>2. Head0 \in Sector
    BY BufCacheAssumption DEF Head0, Sector, LogSector
  <2>3. /\ r \in ProcRec /\ r.pc = "bget" /\ r.mode = "commit" /\ r.want = Head0 /\ r.held = me[p].held
    BY Zenon, <1>1, <2>2 DEF Wants, ProcRec
  <2> HIDE DEF r
  <2>4. Len(lh) > 0
    BY <1>8, Local
  <2>5. Control(r, lh, tail)
    BY <1>2, <2>2, <2>3, <2>4 DEF Control
  <2>6. Contents(r, buf, lh, tail)
    BY <1>2, <2>3 DEF Contents, Held
  <2>7. OwnerInv'
    BY <1>2, <1>3, <1>4, <1>5, <2>1, <2>3 DEF CInv, Types, OwnerInv
  <2>8. owner' \in Proc \cup {None}
    BY <2>1 DEF CInv, Types
  <2> QED
    BY Zenon, <1>3, <1>6, <2>1, <2>3, <2>5, <2>6, <2>7, <2>8, QuietStep
<1> QED
  BY <1>7, <1>8

\* install_trans(): bread() of the home block, with the log block in hand.
LEMMA InstallStep ==
  ASSUME CInv, NEW p \in Proc, install_trans(p)
  PROVE  CInv'
<1> DEFINE r == Wants(p, lh[tail])
<1>1. me' = [me EXCEPT ![p] = r]
  BY DEF install_trans, Set
<1>2. /\ me[p] \in ProcRec /\ me[p].pc = "have" /\ me[p].mode = "commit" /\ Len(me[p].held) = 1
      /\ tail \in 1 .. Len(lh) /\ lh \in Seq(Data)
      /\ Control(me[p], lh, tail) /\ Contents(me[p], buf, lh, tail)
  BY Local DEF install_trans, At
<1>3. lh[tail] \in Sector
  BY <1>2 DEF Sector
<1>4. /\ r \in ProcRec /\ r.pc = "bget" /\ r.mode = "commit" /\ r.want = lh[tail] /\ r.held = me[p].held
  BY Zenon, <1>2, <1>3 DEF Wants, ProcRec
<1> HIDE DEF r
<1>5. Control(r, lh, tail)
  BY <1>2, <1>3, <1>4 DEF Control
<1>6. Contents(r, buf, lh, tail)
  <2>1. Last(me[p].held) = me[p].held[1]
    BY <1>2, HeldElements DEF ProcRec
  <2> QED
    BY Zenon, <1>2, <1>4, <2>1 DEF Contents, Held
<1>7. UNCHANGED <<buf, lru, idequeue, disk, owner, lh, tail, memdisk, panicked, logical>>
  BY DEF install_trans, log
<1>8. OwnerInv'
  BY <1>1, <1>2, <1>4, <1>7 DEF CInv, Types, OwnerInv
<1>9. owner' \in Proc \cup {None}
  BY <1>7 DEF CInv, Types
<1> QED
  BY Zenon, <1>1, <1>2, <1>4, <1>5, <1>6, <1>7, <1>8, <1>9, QuietStep DEF Changed, Writing

\* sleep(b), in bget() or iderw().
LEMMA SleepStep ==
  ASSUME CInv, NEW p \in Proc, NEW b \in Buf,
         me' = [me EXCEPT ![p] = [me[p] EXCEPT !.asleep = b]],
         UNCHANGED <<buf, lru, idequeue, disk, owner, lh, tail, memdisk, panicked, logical>>
  PROVE  CInv'
<1> DEFINE r == [me[p] EXCEPT !.asleep = b]
<1>1. me[p] \in ProcRec /\ Control(me[p], lh, tail) /\ Contents(me[p], buf, lh, tail)
  BY Local
<1>2. r \in ProcRec /\ Same(r, me[p])
  BY <1>1 DEF ProcRec, Same
<1>3. me' = [me EXCEPT ![p] = r]
  OBVIOUS
<1> HIDE DEF r
<1>4. Control(r, lh, tail)
  BY <1>1, <1>2, ControlFrame
<1>5. Contents(r, buf, lh, tail)
  BY <1>1, <1>2, ContentsFrame
<1>6. OwnerInv' /\ owner' \in Proc \cup {None}
  BY <1>2, <1>3 DEF CInv, Types, OwnerInv, Same
<1>7. (Changed(me[p]) => Changed(r)) /\ \A c : Writing(me[p], c) => Writing(r, c)
  BY <1>2, SameViews
<1>8. r.held = me[p].held /\ r.pc = me[p].pc
  BY <1>2 DEF Same
<1> QED
  BY Zenon, <1>2, <1>3, <1>4, <1>5, <1>6, <1>7, <1>8, QuietStep

\* iderw() wakes up: the request is served, or it sleeps again.
LEMMA IderwWaitStep ==
  ASSUME CInv, NEW p \in Proc, iderw_wait(p)
  PROVE  CInv'
<1> DEFINE b == Last(me[p].held)
<1>1. /\ me[p] \in ProcRec /\ me[p].pc = "iderw_wait"
      /\ Control(me[p], lh, tail) /\ Contents(me[p], buf, lh, tail)
  BY Local DEF iderw_wait, At
<1>2. Len(me[p].held) \in {1, 2} /\ b \in Held(me[p]) /\ b \in Buf /\ Len(me[p].held) > 0
  <2>1. me[p].held \in Seq(Buf) /\ Len(me[p].held) \in {1, 2}
    BY <1>1 DEF ProcRec, Control
  <2> QED
    BY <2>1, HeldElements DEF Held
<1>3. UNCHANGED <<buf, lru, idequeue, disk, owner, lh, tail, memdisk, panicked, logical>>
  BY DEF iderw_wait, log
<1>4. owner' \in Proc \cup {None}
  BY <1>3 DEF CInv, Types
<1>5. CASE buf[b].valid /\ ~buf[b].dirty
  <2> DEFINE r == [me[p] EXCEPT !.pc = "have"]
  <2>1. me' = [me EXCEPT ![p] = r]
    BY <1>5 DEF iderw_wait, Goto, Set, Top, Last
  <2>2. r \in ProcRec /\ r.pc = "have" /\ r.mode = me[p].mode /\ r.want = me[p].want /\ r.held = me[p].held
    BY <1>1 DEF ProcRec
  <2> HIDE DEF r
  <2>3. Control(r, lh, tail)
    BY <1>1, <1>2, <2>2 DEF Control, Waiting
  <2>4. Contents(r, buf, lh, tail)
    BY Zenon, <1>1, <1>2, <1>5, <2>2 DEF Contents, Held
  <2>5. OwnerInv'
    BY <1>3, <2>1, <2>2 DEF CInv, Types, OwnerInv
  <2>6. Changed(me[p]) => Changed(r)
    BY <1>1, <2>2 DEF Changed
  <2>7. \A c \in Buf : ~(buf[c].dirty /\ Writing(me[p], c))
    BY <1>5 DEF Writing
  <2> QED
    BY Zenon, <1>3, <1>4, <1>5, <2>1, <2>2, <2>3, <2>4, <2>5, <2>6, <2>7, QuietStep DEF Pending
<1>6. CASE ~(buf[b].valid /\ ~buf[b].dirty)
  BY Zenon, <1>2, <1>3, <1>6, SleepStep DEF iderw_wait, Set, Top, Last
<1> QED
  BY <1>5, <1>6

-----------------------------------------------------------------------------
(* bget()                                                                  *)

\* bget() returns b, cached already or recycled for its sector.
Takes(p, b, r) ==
  /\ me[p].pc = "bget" /\ ~buf[b].busy
  /\ \/ r = buf[b] /\ buf[b].sector = me[p].want
     \/ r = Fresh(me[p].want) /\ ~buf[b].dirty /\ Cached(me[p].want) = {}
  /\ Take(p, b, r)
  /\ UNCHANGED <<lru, idequeue, disk, log, logical>>

\* Nobody held the buffer that bget() takes, and what it held before is on the
\* disk.
LEMMA TakeStep ==
  ASSUME CInv, NEW p \in Proc, NEW b \in Buf, NEW r, Takes(p, b, r)
  PROVE  CInv'
<1> DEFINE m == me[p]
           n == Holding(p, b, r)
           s == me[p].want
<1>old. m.pc = "bget" /\ ~buf[b].busy
  BY DEF Takes
<1>1. /\ m \in ProcRec /\ Control(m, lh, tail) /\ Contents(m, buf, lh, tail)
      /\ buf \in [Buf -> BufRec] /\ me \in [Proc -> ProcRec]
  BY Local DEF CInv, Types
<1>2. m.mode \in {"read", "trans", "commit"} /\ s \in Sector /\ m.held \in Seq(Buf) /\ Len(m.held) \in {0, 1}
  BY <1>old, <1>1 DEF Control, ProcRec
<1>3. r \in BufRec /\ r.sector = s /\ (r.dirty \/ r.valid \/ buf[b].dirty => r = buf[b])
  <2>1. CASE r = buf[b] /\ buf[b].sector = s
    BY <2>1, <1>1
  <2>2. CASE r = Fresh(s) /\ ~buf[b].dirty
    <3>1. r = [sector |-> s, busy |-> FALSE, valid |-> FALSE, dirty |-> FALSE, data |-> Zero]
      BY <2>2 DEF Fresh
    <3> QED
      BY <2>2, <3>1, <1>2, BufCacheAssumption DEF BufRec
  <2> QED
    BY <2>1, <2>2 DEF Takes
<1>4. /\ n \in ProcRec /\ n.held = Append(m.held, b) /\ n.mode = m.mode
      /\ n.pc = IF r.valid THEN "have" ELSE "iderw"
  BY Zenon, <1>1, <1>2, HeldAppend DEF Holding, ProcRec
<1>5. /\ Len(n.held) = Len(m.held) + 1 /\ Last(n.held) = b /\ Held(n) = Held(m) \cup {b}
      /\ n.held[1] = IF Len(m.held) = 0 THEN b ELSE m.held[1]
  BY <1>2, <1>4, HeldAppend DEF Held
<1>6. /\ me' = [me EXCEPT ![p] = n] /\ buf' = [buf EXCEPT ![b] = [r EXCEPT !.busy = TRUE]]
      /\ UNCHANGED <<lru, idequeue, disk, owner, lh, tail, memdisk, panicked, logical>>
  BY DEF Takes, Take, Set, log
<1>7. /\ me'[p] = n /\ me' \in [Proc -> ProcRec]
      /\ \A q \in Proc : q # p => me'[q] = me[q] /\ Same(me'[q], me[q])
  BY <1>1, <1>4, <1>6 DEF Same
<1>8. /\ buf' \in [Buf -> BufRec] /\ \A c \in Buf : c # b => buf'[c] = buf[c]
      /\ buf'[b].sector = r.sector /\ buf'[b].busy /\ buf'[b].valid = r.valid
      /\ buf'[b].dirty = r.dirty /\ buf'[b].data = r.data
  BY Zenon, <1>1, <1>3, <1>6 DEF BufRec
<1> HIDE DEF n
<1>9. \A q \in Proc : Held(me[q]) \subseteq Buf /\ b \notin Held(me[q])
                      /\ \A c \in Held(me[q]) : buf[c].busy /\ buf'[c] = buf[c]
  <2> TAKE q \in Proc
  <2>1. Held(me[q]) \subseteq Buf
    BY Local, TopHeld
  <2>2. \A c \in Held(me[q]) : buf[c].busy
    BY HeldBusy
  <2> QED
    BY <1>old, <2>1, <2>2, <1>8
<1>10. Len(m.held) = 1 => m.held[1] \in Held(m)
  BY <1>2, HeldElements DEF Held
<1>11. Control(n, lh, tail)
  <2>1. n.pc \in {"iderw", "have"}
    BY <1>4
  <2>2. Len(n.held) \in {1, 2} /\ (m.mode = "read" => Len(n.held) = 1)
    <3>1. \A k \in {0, 1} : k + 1 \in {1, 2}
      OBVIOUS
    <3>2. Len(n.held) \in {1, 2}
      BY Zenon, <3>1, <1>2, <1>5
    <3>3. m.mode = "read" => Len(m.held) = 0
      BY <1>old, <1>1 DEF Control
    <3> QED
      BY <3>2, <3>3, <1>5
  <2>3. m.mode = "trans" => tail = 0 /\ Len(lh) < LOGSIZE
    BY <1>old, <1>1 DEF Control
  <2>4. m.mode = "commit" => Len(lh) > 0 /\ (Len(n.held) = 2 => tail \in 1 .. Len(lh))
    BY <1>old, <1>1, <1>2, <1>5 DEF Control
  <2> QED
    BY <2>1, <2>2, <2>3, <2>4, <1>2, <1>4 DEF Control
<1>12. Contents(n, buf', lh, tail)
  <2>1. \A c \in Held(n) : buf'[c].busy /\ buf'[c].sector \in Sector
    BY <1>2, <1>3, <1>5, <1>8, <1>9, HeldBusy
  <2>2. Len(m.held) = 1 => m.held[1] # b /\ buf'[m.held[1]] = buf[m.held[1]]
    BY <1>9, <1>10
  <2>3. Len(m.held) = 1 => buf[m.held[1]].valid
    BY <1>old, <1>1 DEF Contents
  <2>4. Len(n.held) = 2 => n.held[1] # n.held[2] /\ buf'[n.held[1]].valid
    <3>1. n.held[Len(n.held)] = b
      BY <1>5 DEF Last
    <3>2. \A k \in {0, 1} : k + 1 = 2 => k = 1 /\ k # 0
      OBVIOUS
    <3>3. Len(n.held) = 2 => Len(m.held) = 1 /\ Len(m.held) # 0
      BY Zenon, <1>2, <1>5, <3>2
    <3>4. Len(n.held) = 2 => n.held[1] = m.held[1]
      BY Zenon, <1>5, <3>3
    <3> QED
      BY <2>2, <2>3, <3>1, <3>3, <3>4
  <2>5. n.mode = "trans" => buf'[n.held[1]].sector \in Data
    <3>1. Len(m.held) = 0 /\ m.mode = "trans" => s \in Data
      BY <1>old, <1>1 DEF Control
    <3>2. Len(m.held) = 1 /\ m.mode = "trans" => buf[m.held[1]].sector \in Data
      BY <1>1 DEF Contents
    <3> QED
      BY Zenon, <1>2, <1>3, <1>4, <1>5, <1>8, <2>2, <3>1, <3>2
  <2>6. n.mode = "commit" /\ Len(n.held) = 2 => buf'[b].sector = lh[tail]
    <3>1. m.mode = "commit" /\ Len(m.held) = 1 => s = lh[tail]
      BY Zenon, <1>old, <1>1 DEF Control
    <3> QED
      BY <1>2, <1>3, <1>4, <1>5, <1>8, <3>1
  <2>7. /\ Last(n.held) = b /\ n.mode \in {"read", "trans", "commit"}
        /\ (n.pc = "have" /\ buf'[b].valid) \/ (n.pc = "iderw" /\ ~buf'[b].valid)
    BY <1>2, <1>4, <1>5, <1>8
  <2> QED
    BY <2>1, <2>4, <2>5, <2>6, <2>7 DEF Contents
<1>13. Types'
  BY <1>6, <1>7, <1>8 DEF CInv, Types
<1>14. ProcInv'
  BY Zenon, <1>1, <1>6, <1>7, <1>9, <1>11, <1>12, ProcStep DEF CInv
<1>15. HolderInv'
  <2>1. \A c \in Held(me'[p]) : c \in Held(me[p]) \/ ~buf[c].busy
    BY <1>old, <1>5, <1>7
  <2>2. \A c \in Buf : buf'[c].busy => c \in Held(me'[p]) \/ (buf[c].busy /\ c \notin Held(me[p]))
    BY <1>5, <1>7, <1>8
  <2> QED
    BY Zenon, <2>1, <2>2, <1>7, <1>9, HolderStep DEF CInv
<1>16. SectorInv'
  BY <1>3, <1>8 DEF Takes, CInv, SectorInv, Cached
<1>17. OwnerInv'
  BY <1>4, <1>6, <1>7 DEF CInv, OwnerInv
<1>18. CoherenceInv'
  <2>1. \A q \in Proc : Changed(me[q]) =>
           Changed(me'[q]) /\ me'[q].held[1] = me[q].held[1] /\ me[q].held[1] \in Held(me[q])
    <3> SUFFICES ASSUME NEW q \in Proc, Changed(me[q])
                 PROVE  Changed(me'[q]) /\ me'[q].held[1] = me[q].held[1] /\ me[q].held[1] \in Held(me[q])
      OBVIOUS
    <3>1. CASE q # p
      <4>1. me[q] \in ProcRec /\ Control(me[q], lh, tail)
        BY Local
      <4>2. me[q].held \in Seq(Buf) /\ Len(me[q].held) \in {1, 2}
        BY Zenon, <4>1 DEF Changed, Control, ProcRec, Waiting
      <4> QED
        BY <3>1, <4>2, <1>7, HeldElements DEF Held
    <3>2. CASE q = p
      <4>1. m.mode = "trans" /\ Len(m.held) = 1
        <5>1. m.mode # "logged"
          BY <1>2
        <5>2. Len(m.held) # 2
          <6>1. \A k \in {0, 1} : k # 2
            OBVIOUS
          <6> QED
            BY Zenon, <1>2, <6>1
        <5>3. Changed(m)
          BY <3>2
        <5> QED
          BY <5>1, <5>2, <5>3 DEF Changed
      <4>2. n.mode = "trans" /\ Len(n.held) = 2
        BY <4>1, <1>4, <1>5
      <4> QED
        BY <3>2, <4>1, <4>2, <1>5, <1>7, <1>10 DEF Changed
    <3> QED
      BY <3>1, <3>2
  <2>2. \A c \in Ahead(buf, me) : c \in Ahead(buf', me') /\ buf'[c].sector = buf[c].sector
    <3> SUFFICES ASSUME NEW c \in Ahead(buf, me)
                 PROVE  c \in Ahead(buf', me') /\ buf'[c].sector = buf[c].sector
      OBVIOUS
    <3>1. c \in Buf /\ buf[c].valid
      BY DEF Ahead
    <3>2. CASE \E q \in Proc : Changed(me[q]) /\ me[q].held[1] = c
      <4>1. PICK q \in Proc : Changed(me[q]) /\ me[q].held[1] = c
        BY <3>2
      <4>2. c # b /\ buf'[c] = buf[c]
        BY <2>1, <4>1, <1>9
      <4> QED
        BY Zenon, <2>1, <3>1, <4>1, <4>2 DEF Ahead
    <3>3. CASE buf[c].dirty
      <4>1. buf'[c].valid /\ buf'[c].dirty /\ buf'[c].sector = buf[c].sector
        BY <3>1, <3>3, <1>3, <1>8
      <4> QED
        BY <3>1, <4>1 DEF Ahead
    <3> QED
      BY Zenon, <3>2, <3>3 DEF Ahead
  <2>3. \A t \in Sector : disk'[t] # logical'[t] => \E c \in Ahead(buf', me') : buf'[c].sector = t
    BY Zenon, <2>2, <1>6, AheadStep DEF CInv
  <2>4. \A c \in Buf : buf'[c].valid => buf'[c].sector \in Sector /\ buf'[c].data = logical'[buf'[c].sector]
    BY <1>3, <1>6, <1>8 DEF CInv, CoherenceInv
  <2>5. \A c \in Buf : buf'[c].dirty => buf'[c].valid
    BY <1>3, <1>8 DEF CInv, CoherenceInv
  <2> QED
    BY <2>3, <2>4, <2>5 DEF CoherenceInv
<1>19. DirtyInv'
  <2>1. \A c : ~Writing(me[p], c)
    BY <1>2 DEF Writing
  <2>2. \A c \in Buf : buf'[c].dirty => buf[c].dirty /\ buf'[c].sector = buf[c].sector
    BY <1>3, <1>8
  <2> QED
    BY <2>1, <2>2, <1>6, <1>7, DirtyStep DEF CInv
<1>20. QueueInv'
  BY <1>old, <1>1, <1>6, <1>7, <1>9, QueueStep DEF CInv
<1> QED
  BY <1>13, <1>14, <1>15, <1>16, <1>17, <1>18, <1>19, <1>20 DEF CInv

-----------------------------------------------------------------------------
(* ide.c and memide.c                                                      *)

\* The process waits for the disk and may go on once it has the buffer.
Resumes(n, m) ==
  /\ Waiting(m) /\ n.mode = m.mode /\ n.held = m.held
  /\ n.pc = "have" \/ (m.pc = "iderw_wait" /\ n.pc = "iderw_wait")

\* The disk carries out the request of p for b, and p waits on or goes on.
Serves(p, b) ==
  /\ b = Last(me[p].held) /\ Pending(buf[b])
  /\ buf' = [buf EXCEPT ![b] = Served(b)] /\ disk' = Written(b)
  /\ UNCHANGED <<lru, log, panicked, logical>>
  /\ idequeue' \in Seq(Buf)
  /\ me' \in [Proc -> ProcRec]
  /\ \A q \in Proc : q # p => Same(me'[q], me[q])
  /\ Resumes(me'[p], me[p])

\* A request that is carried out keeps all of CInv but for the queue.
LEMMA ServeStep ==
  ASSUME CInv, NEW p \in Proc, NEW b, Serves(p, b)
  PROVE  /\ Types' /\ ProcInv' /\ HolderInv' /\ SectorInv' /\ OwnerInv' /\ CoherenceInv' /\ DirtyInv'
         /\ b \in Buf /\ b \in Held(me[p])
         /\ \A c \in Buf : c # b => buf'[c] = buf[c]
<1> DEFINE m == me[p]
           n == me'[p]
           s == buf[b].sector
<1>req. b = Last(m.held) /\ Pending(buf[b]) /\ Resumes(n, m)
  BY DEF Serves
<1>eff. /\ buf' = [buf EXCEPT ![b] = Served(b)] /\ disk' = Written(b)
        /\ UNCHANGED <<lru, log, panicked, logical>>
  BY DEF Serves
<1>oth. /\ me' \in [Proc -> ProcRec] /\ idequeue' \in Seq(Buf)
        /\ \A q \in Proc : q # p => Same(me'[q], me[q])
  BY DEF Serves
<1>1. /\ m \in ProcRec /\ Control(m, lh, tail) /\ Contents(m, buf, lh, tail)
      /\ buf \in [Buf -> BufRec] /\ disk \in [Sector -> Value] /\ me \in [Proc -> ProcRec]
  BY Local DEF CInv, Types
<1>2. m.held \in Seq(Buf) /\ Len(m.held) \in {1, 2}
  BY <1>req, <1>1 DEF ProcRec, Control, Waiting, Resumes
<1>3. /\ b \in Buf /\ b \in Held(m) /\ m.held[1] \in Held(m) /\ Held(m) \subseteq Buf
      /\ Len(m.held) = 2 => m.held[1] # b
  BY Zenon, <1>req, <1>1, <1>2, HeldElements DEF Contents, Held
<1>4. s \in Sector /\ buf[b].busy /\ buf[b] \in BufRec
  BY Zenon, <1>1, <1>3 DEF Contents
<1>5. \A c \in Buf : (buf[c].dirty => buf[c].valid)
                     /\ (buf[c].valid => buf[c].sector \in Sector /\ buf[c].data = logical[buf[c].sector])
  BY DEF CInv, CoherenceInv
<1>6. ~buf[b].dirty => disk[s] = logical[s]
  <2> SUFFICES ASSUME ~buf[b].dirty, disk[s] # logical[s]
               PROVE  FALSE
    OBVIOUS
  <2>1. PICK c \in Ahead(buf, me) : buf[c].sector = s
    BY <1>4 DEF CInv, CoherenceInv
  <2>2. c \in Buf /\ buf[c].valid
    BY DEF Ahead
  <2>3. s # None
    BY <1>4, BufCacheAssumption DEF Sector, LogSector
  <2>4. c = b
    BY <2>1, <2>2, <2>3, <1>3 DEF CInv, SectorInv
  <2> QED
    BY Zenon, <1>req, <2>2, <2>4 DEF Pending
<1>7. /\ \A c \in Buf : c # b => buf'[c] = buf[c]
      /\ buf'[b].sector = s /\ buf'[b].busy = buf[b].busy /\ buf'[b].valid /\ ~buf'[b].dirty
      /\ buf'[b].data = IF buf[b].dirty THEN buf[b].data ELSE disk[s]
      /\ buf' \in [Buf -> BufRec]
  BY Zenon, <1>eff, <1>1, <1>3, <1>4 DEF Served, BufRec
<1>8. buf'[b].data = logical[s]
  BY <1>3, <1>5, <1>6, <1>7
<1>9. disk' \in [Sector -> Value] /\ disk'[s] = logical[s] /\ \A t \in Sector : t # s => disk'[t] = disk[t]
  BY Zenon, <1>eff, <1>1, <1>3, <1>4, <1>5, <1>6 DEF Written, BufRec
<1>10. UNCHANGED <<lru, owner, lh, tail, memdisk, panicked, logical>>
  BY <1>eff DEF log
<1>11. \A q \in Proc : q # p => \A c \in Held(me[q]) : c # b /\ buf'[c] = buf[c]
  <2> SUFFICES ASSUME NEW q \in Proc, q # p, NEW c \in Held(me[q])
               PROVE  c # b /\ buf'[c] = buf[c]
    OBVIOUS
  <2>1. Held(me[q]) \subseteq Buf
    BY Local, TopHeld
  <2>2. Held(me[q]) \cap Held(m) = {}
    BY Zenon DEF CInv, HolderInv
  <2>3. c # b
    BY <2>2, <1>3
  <2> QED
    BY <2>1, <2>3, <1>7
<1>12. Waiting(m) /\ n \in ProcRec /\ n.mode = m.mode /\ n.held = m.held
       /\ (n.pc = "have" \/ (m.pc = "iderw_wait" /\ n.pc = "iderw_wait"))
  BY <1>req, <1>oth DEF Resumes
<1>13. Types'
  BY Zenon, <1>oth, <1>7, <1>9, <1>10 DEF CInv, Types
<1>14. ProcInv'
  <2>1. Control(n, lh, tail)
    BY Zenon, <1>1, <1>2, <1>12 DEF Control, Waiting
  <2>2. \A c \in Held(n) : buf'[c].busy /\ buf'[c].sector = buf[c].sector /\ buf'[c].sector \in Sector
    <3>1. Held(n) = Held(m)
      BY <1>12 DEF Held
    <3>2. \A c \in Held(m) : c \in Buf /\ buf[c].busy /\ buf[c].sector \in Sector
      BY <1>3, HeldBusy
    <3> QED
      BY <1>7, <3>1, <3>2
  <2>3. Len(m.held) = 2 => buf'[m.held[1]] = buf[m.held[1]]
    BY <1>3, <1>7
  <2>4. buf'[m.held[1]].sector = buf[m.held[1]].sector
    BY Zenon, <1>3, <1>7
  <2>5. Len(n.held) = 2 => n.held[1] # n.held[2] /\ buf'[n.held[1]].valid
    BY Zenon, <1>1, <1>12, <2>3 DEF Contents
  <2>6. n.mode \in {"trans", "logged"} /\ Len(n.held) > 0 => buf'[n.held[1]].sector \in Data
    BY Zenon, <1>1, <1>12, <2>4 DEF Contents
  <2>7. /\ n.mode = "commit" /\ Len(n.held) = 2 => buf'[b].sector = lh[tail]
        /\ n.mode = "wrote" /\ tail \in 1 .. Len(lh) => buf'[b].sector = lh[tail]
    BY Zenon, <1>1, <1>req, <1>7, <1>12 DEF Contents, Waiting
  <2>8. Last(n.held) = b /\ n.pc \in {"have", "iderw_wait"} /\ buf'[b].valid /\ ~buf'[b].dirty
    BY Zenon, <1>req, <1>7, <1>12
  <2>9. Contents(n, buf', lh, tail)
    BY Zenon, <2>2, <2>5, <2>6, <2>7, <2>8 DEF Contents
  <2> QED
    BY Zenon, <1>oth, <1>1, <1>10, <1>11, <2>1, <2>9, ProcStep DEF CInv
<1>15. HolderInv'
  <2>1. Held(n) = Held(m)
    BY <1>12 DEF Held
  <2>2. \A q \in Proc : \A c \in Held(me[q]) : buf[c].busy
    BY HeldBusy
  <2>3. \A c \in Buf : buf'[c].busy = buf[c].busy
    BY <1>7
  <2> QED
    BY <1>oth, <2>1, <2>2, <2>3, HolderStep DEF CInv
<1>16. SectorInv'
  BY <1>7 DEF CInv, SectorInv
<1>17. OwnerInv'
  <2>1. \A q \in Proc : me'[q].mode = me[q].mode
    BY <1>oth, <1>12 DEF Same
  <2> QED
    BY <2>1, <1>10 DEF CInv, OwnerInv
<1>18. CoherenceInv'
  <2>1. \A c \in Buf : buf'[c].valid => buf'[c].sector \in Sector /\ buf'[c].data = logical'[buf'[c].sector]
    BY <1>4, <1>5, <1>7, <1>8, <1>10
  <2>2. \A c \in Buf : buf'[c].dirty => buf'[c].valid
    BY <1>5, <1>7
  <2>3. \A q \in Proc : Changed(me[q]) => Changed(me'[q]) /\ me'[q].held = me[q].held
    <3>1. \A q \in Proc : q # p /\ Changed(me[q]) => Changed(me'[q]) /\ me'[q].held = me[q].held
      BY <1>oth, SameViews
    <3>2. Changed(m) => Changed(n)
      BY <1>12 DEF Changed, Waiting
    <3> QED
      BY <3>1, <3>2, <1>12
  <2>4. ASSUME NEW t \in Sector, disk'[t] # logical'[t]
        PROVE  \E c \in Ahead(buf', me') : buf'[c].sector = t
    <3>1. t # s /\ disk[t] # logical[t]
      BY <2>4, <1>9, <1>10
    <3>2. PICK c \in Ahead(buf, me) : buf[c].sector = t
      BY <3>1 DEF CInv, CoherenceInv
    <3>3. c \in Buf /\ c # b /\ buf'[c] = buf[c]
      BY <3>1, <3>2, <1>7 DEF Ahead
    <3>4. c \in Ahead(buf', me')
      BY <2>3, <3>3 DEF Ahead
    <3> QED
      BY <3>2, <3>3, <3>4
  <2> QED
    BY Zenon, <2>1, <2>2, <2>4 DEF CoherenceInv
<1>19. DirtyInv'
  <2>1. \A c \in Buf : buf'[c].dirty => c # b /\ buf[c].dirty /\ buf'[c].sector = buf[c].sector
    BY <1>7
  <2>2. \A c : c # b => ~Writing(me[p], c)
    BY <1>req DEF Writing
  <2> QED
    BY Zenon, <1>oth, <2>1, <2>2, <1>10, DirtyStep DEF CInv
<1> QED
  BY <1>3, <1>7, <1>13, <1>14, <1>15, <1>16, <1>17, <1>18, <1>19

\* iderw()
LEMMA IderwStep ==
  ASSUME CInv, NEW p \in Proc, iderw(p)
  PROVE  CInv'
<1> DEFINE m == me[p]
           b == Last(m.held)
<1>1. /\ m \in ProcRec /\ m.pc = "iderw" /\ Waiting(m)
      /\ Control(m, lh, tail) /\ Contents(m, buf, lh, tail)
  BY Local DEF iderw, At, Waiting
<1>2. me \in [Proc -> ProcRec] /\ idequeue \in Seq(Buf)
  BY DEF CInv, Types
<1>3. m.held \in Seq(Buf) /\ Len(m.held) \in {1, 2}
  BY <1>1 DEF ProcRec, Control
<1>4. b \in Buf /\ b \in Held(m)
  BY <1>3, HeldElements DEF Held
<1>5. Pending(buf[b])
  <2>1. m.mode \in {"none", "read", "trans", "logged", "commit", "wrote"} /\ m.mode # "none"
    BY <1>1 DEF ProcRec, Control
  <2> QED
    BY Zenon, <2>1, <1>1 DEF Contents, Pending
<1>6. CASE memdisk
  <2> DEFINE r == [me[p] EXCEPT !.pc = "have"]
  <2>1. /\ me' = [me EXCEPT ![p] = r] /\ buf' = [buf EXCEPT ![b] = Served(b)] /\ disk' = Written(b)
        /\ idequeue' = idequeue
    BY <1>6 DEF iderw, Goto, Set, Top, Last
  <2>2. UNCHANGED <<lru, log, panicked, logical>>
    BY DEF iderw
  <2>3. r \in ProcRec /\ r.pc = "have" /\ r.mode = m.mode /\ r.held = m.held
    BY <1>1 DEF ProcRec
  <2> HIDE DEF r
  <2>4. /\ me' \in [Proc -> ProcRec] /\ me'[p] = r
        /\ \A q \in Proc : q # p => Same(me'[q], me[q])
    BY <1>2, <2>1, <2>3 DEF Same
  <2>5. /\ Types' /\ ProcInv' /\ HolderInv' /\ SectorInv' /\ OwnerInv' /\ CoherenceInv' /\ DirtyInv'
        /\ \A c \in Buf : c # b => buf'[c] = buf[c]
    <3>1. idequeue' \in Seq(Buf) /\ Resumes(me'[p], me[p])
      BY <1>1, <1>2, <2>1, <2>3, <2>4 DEF Resumes
    <3>2. b = Last(me[p].held) /\ Pending(buf[b])
      BY <1>5
    <3>3. buf' = [buf EXCEPT ![b] = Served(b)] /\ disk' = Written(b)
      BY <2>1
    <3> HIDE DEF b, m
    <3>4. Serves(p, b)
      BY Zenon, <2>2, <2>4, <3>1, <3>2, <3>3 DEF Serves
    <3> QED
      BY <3>4, ServeStep
  <2>6. \A q \in Proc : q # p => \A c \in Held(me[q]) : buf'[c] = buf[c]
    <3> SUFFICES ASSUME NEW q \in Proc, q # p, NEW c \in Held(me[q])
                 PROVE  buf'[c] = buf[c]
      OBVIOUS
    <3>1. Held(me[q]) \subseteq Buf
      BY Local, TopHeld
    <3>2. Held(me[q]) \cap Held(m) = {}
      BY DEF CInv, HolderInv
    <3> QED
      BY <3>1, <3>2, <1>4, <2>5
  <2>7. QueueInv'
    BY <1>1, <1>2, <2>1, <2>4, <2>6, QueueStep DEF CInv
  <2> QED
    BY <2>5, <2>7 DEF CInv
<1>7. CASE ~memdisk
  <2> DEFINE r == [me[p] EXCEPT !.pc = "iderw_wait", !.asleep = b]
             Q == Append(idequeue, b)
  <2>1. /\ me' = [me EXCEPT ![p] = r] /\ idequeue' = Q
        /\ UNCHANGED <<buf, lru, disk, owner, lh, tail, memdisk, panicked, logical>>
    BY <1>7 DEF iderw, Set, Top, Last, log
  <2>2. r \in ProcRec /\ r.pc = "iderw_wait" /\ r.mode = m.mode /\ r.held = m.held
    BY Zenon, <1>1, <1>4 DEF ProcRec
  <2> HIDE DEF r
  <2>3. /\ me' \in [Proc -> ProcRec] /\ me'[p] = r
        /\ \A q \in Proc : q # p => me'[q] = me[q] /\ Same(me'[q], me[q])
    BY <1>2, <2>1, <2>2 DEF Same
  <2>4. /\ Q \in Seq(Buf) /\ Len(Q) = Len(idequeue) + 1 /\ Q[Len(Q)] = b
        /\ \A i \in 1 .. Len(idequeue) : Q[i] = idequeue[i]
    BY <1>2, <1>4
  <2> HIDE DEF Q
  <2>5. Types'
    BY <2>1, <2>3, <2>4 DEF CInv, Types
  <2>6. ProcInv'
    <3>1. Control(r, lh, tail)
      BY <1>1, <2>2 DEF Control, Waiting
    <3>2. Contents(r, buf, lh, tail)
      BY Zenon, <1>1, <2>2 DEF Contents, Held
    <3> QED
      BY <1>2, <2>1, <2>3, <3>1, <3>2, ProcStep DEF CInv
  <2>7. HolderInv'
    <3>1. Held(me'[p]) = Held(me[p])
      BY <2>2, <2>3 DEF Held
    <3>2. \A q \in Proc : \A c \in Held(me[q]) : buf[c].busy
      BY HeldBusy
    <3> QED
      BY <2>1, <2>3, <3>1, <3>2, HolderStep DEF CInv
  <2>8. SectorInv'
    BY <2>1 DEF CInv, SectorInv
  <2>9. OwnerInv'
    BY <2>1, <2>2, <2>3 DEF CInv, OwnerInv
  <2>10. CoherenceInv'
    <3>1. \A q \in Proc : Changed(me[q]) => Changed(me'[q]) /\ me'[q].held = me[q].held
      <4>1. Changed(m) => Changed(r)
        BY <1>1, <2>2 DEF Changed
      <4> QED
        BY <2>2, <2>3, <4>1
    <3>2. \A c \in Ahead(buf, me) : c \in Ahead(buf', me')
      BY <2>1, <3>1 DEF Ahead
    <3> QED
      BY Zenon, <2>1, <3>2 DEF CInv, CoherenceInv
  <2>11. DirtyInv'
    <3>1. \A c : Writing(me[p], c) => Writing(me'[p], c)
      BY <2>2, <2>3 DEF Writing, Waiting
    <3> QED
      BY <2>1, <2>3, <3>1, DirtyStep DEF CInv
  <2>12. QueueInv'
    <3>1. \A i \in 1 .. Len(idequeue) :
            /\ Pending(buf[idequeue[i]]) /\ idequeue[i] # b
            /\ \E q \in Proc : me'[q].pc = "iderw_wait" /\ idequeue[i] = Last(me'[q].held)
      <4> TAKE i \in 1 .. Len(idequeue)
      <4>1. Pending(buf[idequeue[i]])
        BY DEF CInv, QueueInv
      <4>2. PICK q \in Proc : me[q].pc = "iderw_wait" /\ idequeue[i] = Last(me[q].held)
        BY DEF CInv, QueueInv
      <4>3. q # p /\ me'[q] = me[q]
        BY <4>2, <1>1, <2>3
      <4>4. Last(me[q].held) \in Held(me[q])
        <5>1. me[q].held \in Seq(Buf) /\ Len(me[q].held) \in {1, 2}
          BY Zenon, <4>2, Local DEF Control, ProcRec
        <5> QED
          BY <5>1, HeldElements DEF Held
      <4>5. Held(me[q]) \cap Held(m) = {}
        BY <4>3 DEF CInv, HolderInv
      <4> QED
        BY <4>1, <4>2, <4>3, <4>4, <4>5, <1>4
    <3>2. \A i, j \in 1 .. Len(idequeue) : idequeue[i] = idequeue[j] => i = j
      BY DEF CInv, QueueInv
    <3>3. \A i, j \in 1 .. Len(Q) : Q[i] = Q[j] => i = j
      <4>1. \A i \in 1 .. Len(idequeue) : Q[i] = idequeue[i] /\ Q[i] # b
        BY Zenon, <2>4, <3>1
      <4>2. \A i \in 1 .. Len(Q) : i \in 1 .. Len(idequeue) \/ i = Len(Q)
        BY <1>2, <2>4
      <4> QED
        BY Zenon, <2>4, <3>2, <4>1, <4>2
    <3>4. \A i \in 1 .. Len(Q) :
            /\ Pending(buf[Q[i]])
            /\ \E q \in Proc : me'[q].pc = "iderw_wait" /\ Q[i] = Last(me'[q].held)
      <4> TAKE i \in 1 .. Len(Q)
      <4>1. CASE i \in 1 .. Len(idequeue)
        BY <4>1, <2>4, <3>1
      <4>2. CASE i = Len(Q)
        BY <4>2, <1>5, <2>2, <2>3, <2>4
      <4> QED
        BY <4>1, <4>2, <1>2, <2>4
    <3> QED
      BY <2>1, <3>3, <3>4 DEF QueueInv
  <2> QED
    BY <2>5, <2>6, <2>7, <2>8, <2>9, <2>10, <2>11, <2>12 DEF CInv
<1> QED
  BY <1>6, <1>7

\* ideintr(): the active request, the first of the queue, is done.
LEMMA IdeintrStep ==
  ASSUME CInv, ideintr
  PROVE  CInv'
<1> DEFINE b == Head(idequeue)
           Q == Tail(idequeue)
<1>1. /\ idequeue # <<>> /\ buf' = [buf EXCEPT ![b] = Served(b)] /\ disk' = Written(b)
      /\ me' = Awake(me, b) /\ idequeue' = Q
  BY DEF ideintr
<1>2. UNCHANGED <<lru, log, panicked, logical>>
  BY DEF ideintr
<1>3. me \in [Proc -> ProcRec] /\ idequeue \in Seq(Buf)
  BY DEF CInv, Types
<1>4. /\ Len(idequeue) >= 1 /\ b = idequeue[1] /\ Q \in Seq(Buf) /\ Len(Q) = Len(idequeue) - 1
      /\ \A i \in 1 .. Len(Q) : Q[i] = idequeue[i + 1]
  BY <1>1, <1>3
<1> HIDE DEF b, Q
<1>5. Pending(buf[b]) /\ \E p \in Proc : me[p].pc = "iderw_wait" /\ b = Last(me[p].held)
  BY <1>3, <1>4 DEF CInv, QueueInv
<1>6. PICK p \in Proc : me[p].pc = "iderw_wait" /\ b = Last(me[p].held)
  BY <1>5
<1>7. me' \in [Proc -> ProcRec] /\ \A q \in Proc : Same(me'[q], me[q])
  BY <1>1, <1>3, AwakeSame
<1>8. /\ Types' /\ ProcInv' /\ HolderInv' /\ SectorInv' /\ OwnerInv' /\ CoherenceInv' /\ DirtyInv'
      /\ b \in Buf /\ \A c \in Buf : c # b => buf'[c] = buf[c]
  <2>1. idequeue' \in Seq(Buf)
    BY <1>1, <1>4
  <2>2. Resumes(me'[p], me[p])
    BY <1>6, <1>7 DEF Same, Resumes, Waiting
  <2>3. Serves(p, b)
    BY Zenon, <1>1, <1>2, <1>5, <1>6, <1>7, <2>1, <2>2 DEF Serves
  <2> QED
    BY <2>3, ServeStep
<1>9. QueueInv'
  <2>1. \A i, j \in 1 .. Len(idequeue) : idequeue[i] = idequeue[j] => i = j
    BY DEF CInv, QueueInv
  <2>2. \A i, j \in 1 .. Len(Q) : Q[i] = Q[j] => i = j
    BY <2>1, <1>3, <1>4
  <2>3. ASSUME NEW i \in 1 .. Len(Q)
        PROVE  /\ Pending(buf'[Q[i]])
               /\ \E q \in Proc : me'[q].pc = "iderw_wait" /\ Q[i] = Last(me'[q].held)
    <3>1. i + 1 \in 1 .. Len(idequeue) /\ Q[i] = idequeue[i + 1] /\ Q[i] \in Buf
      BY <1>3, <1>4
    <3>2. Q[i] # b
      BY <2>1, <3>1, <1>3, <1>4
    <3>3. Pending(buf[Q[i]]) /\ \E q \in Proc : me[q].pc = "iderw_wait" /\ Q[i] = Last(me[q].held)
      BY <3>1 DEF CInv, QueueInv
    <3> QED
      BY Zenon, <3>1, <3>2, <3>3, <1>7, <1>8 DEF Same
  <2> QED
    BY <1>1, <2>2, <2>3 DEF QueueInv
<1> QED
  BY <1>8, <1>9 DEF CInv

-----------------------------------------------------------------------------
(* Changing a block.                                                       *)

\* p puts v into the buffer d that it has, and goes on as n.
Writes(p, d, v, n) ==
  /\ me[p].pc = "have" /\ buf[d].valid
  /\ buf' \in [Buf -> BufRec] /\ \A c \in Buf : c # d => buf'[c] = buf[c]
  /\ buf'[d].sector = buf[d].sector /\ buf'[d].busy /\ buf'[d].valid /\ buf'[d].data = v
  /\ buf'[d].dirty => Writing(n, d) \/ buf[d].dirty
  /\ logical' = [logical EXCEPT ![buf[d].sector] = v]
  /\ me' = [me EXCEPT ![p] = n] /\ n.held = me[p].held
  /\ owner = p /\ n.mode \in {"trans", "logged", "commit", "wrote"}
  /\ Changed(me[p]) => Changed(n)
  /\ d \in Ahead(buf', me')
  /\ Control(n, lh, tail) /\ Contents(n, buf', lh, tail)
  /\ UNCHANGED <<lru, idequeue, disk, log, panicked>>

\* The owner of the transaction writes into a buffer; the disk is behind now.
LEMMA WriteStep ==
  ASSUME CInv, NEW p \in Proc, NEW n \in ProcRec, NEW d \in Held(me[p]), NEW v \in Value,
         Writes(p, d, v, n)
  PROVE  CInv'
<1>buf. /\ buf' \in [Buf -> BufRec] /\ \A c \in Buf : c # d => buf'[c] = buf[c]
        /\ buf'[d].sector = buf[d].sector /\ buf'[d].busy /\ buf'[d].valid /\ buf'[d].data = v
        /\ buf'[d].dirty => Writing(n, d) \/ buf[d].dirty
  BY DEF Writes
<1>me. /\ me[p].pc = "have" /\ me' = [me EXCEPT ![p] = n] /\ n.held = me[p].held
       /\ Changed(me[p]) => Changed(n)
       /\ Control(n, lh, tail) /\ Contents(n, buf', lh, tail)
  BY DEF Writes
<1>1. /\ me[p] \in ProcRec /\ Control(me[p], lh, tail) /\ Contents(me[p], buf, lh, tail)
      /\ buf \in [Buf -> BufRec] /\ me \in [Proc -> ProcRec] /\ logical \in [Sector -> Value]
  BY Zenon, Local DEF CInv, Types
<1>2. d \in Buf /\ buf[d].sector \in Sector /\ buf[d].busy
  BY <1>1, TopHeld, HeldBusy
<1>3. /\ me'[p] = n /\ me' \in [Proc -> ProcRec]
      /\ \A q \in Proc : q # p => me'[q] = me[q] /\ Same(me'[q], me[q])
  BY <1>me, <1>1 DEF Same
<1>4. UNCHANGED <<lru, idequeue, disk, owner, lh, tail, memdisk, panicked>>
  BY DEF Writes, log
<1>5. \A q \in Proc : q # p => \A c \in Held(me[q]) : buf'[c] = buf[c]
  <2> SUFFICES ASSUME NEW q \in Proc, q # p, NEW c \in Held(me[q])
               PROVE  buf'[c] = buf[c]
    OBVIOUS
  <2>1. Held(me[q]) \subseteq Buf
    BY Local, TopHeld
  <2>2. Held(me[q]) \cap Held(me[p]) = {}
    BY Zenon DEF CInv, HolderInv
  <2> QED
    BY <1>buf, <2>1, <2>2
<1>6. /\ logical' \in [Sector -> Value] /\ logical'[buf[d].sector] = v
      /\ \A s \in Sector : s # buf[d].sector => logical'[s] = logical[s]
  BY <1>1, <1>2 DEF Writes
<1>7. Types'
  BY Zenon, <1>buf, <1>3, <1>4, <1>6 DEF CInv, Types
<1>8. ProcInv'
  BY <1>me, <1>1, <1>3, <1>4, <1>5, ProcStep DEF CInv
<1>9. HolderInv'
  <2>1. Held(me'[p]) = Held(me[p])
    BY <1>me, <1>3 DEF Held
  <2>2. \A q \in Proc : \A c \in Held(me[q]) : buf[c].busy
    BY HeldBusy
  <2>3. \A c \in Buf : buf'[c].busy => buf[c].busy
    BY <1>buf, <1>2
  <2> QED
    BY Zenon, <1>3, <2>1, <2>2, <2>3, HolderStep DEF CInv
<1>10. SectorInv'
  BY <1>buf, <1>2 DEF CInv, SectorInv
<1>11. OwnerInv'
  BY Zenon, <1>3, <1>4 DEF Writes, CInv, OwnerInv
<1>12. CoherenceInv'
  <2>1. \A c \in Buf : buf'[c].valid => buf'[c].sector \in Sector /\ buf'[c].data = logical'[buf'[c].sector]
    <3> SUFFICES ASSUME NEW c \in Buf, c # d, buf[c].valid
                 PROVE  buf[c].sector \in Sector /\ buf[c].data = logical'[buf[c].sector]
      BY <1>buf, <1>2, <1>6
    <3>1. buf[c].sector \in Sector /\ buf[c].data = logical[buf[c].sector]
      BY Zenon DEF CInv, CoherenceInv
    <3>2. buf[c].sector # None
      BY <3>1, BufCacheAssumption DEF Sector, LogSector
    <3>3. buf[c].sector # buf[d].sector
      BY <3>2, <1>2 DEF CInv, SectorInv
    <3> QED
      BY Zenon, <3>1, <3>3, <1>6
  <2>2. \A c \in Buf : buf'[c].dirty => buf'[c].valid
    BY <1>buf DEF CInv, CoherenceInv
  <2>3. \A q \in Proc : Changed(me[q]) => Changed(me'[q]) /\ me'[q].held = me[q].held
    BY <1>me, <1>3
  <2>4. \A c \in Ahead(buf, me) : c \in Ahead(buf', me') /\ buf'[c].sector = buf[c].sector
    <3> SUFFICES ASSUME NEW c \in Ahead(buf, me), c # d
                 PROVE  c \in Ahead(buf', me') /\ buf'[c].sector = buf[c].sector
      BY Zenon, <1>buf DEF Writes
    <3>1. c \in Buf /\ buf'[c] = buf[c]
      BY <1>buf DEF Ahead
    <3> QED
      BY <2>3, <3>1 DEF Ahead
  <2>5. \A s \in Sector : \/ disk'[s] = disk[s] /\ logical'[s] = logical[s]
                          \/ \E b \in Ahead(buf', me') : buf'[b].sector = s
    BY <1>buf, <1>4, <1>6 DEF Writes
  <2>6. \A s \in Sector : disk'[s] # logical'[s] => \E b \in Ahead(buf', me') : buf'[b].sector = s
    BY Zenon, <2>4, <2>5, AheadStep DEF CInv
  <2> QED
    BY Zenon, <2>1, <2>2, <2>6 DEF CoherenceInv
<1>13. DirtyInv'
  <2>1. \A c : ~Writing(me[p], c)
    BY <1>me DEF Writing, Waiting
  <2>2. \A c \in Buf : buf'[c].sector = buf[c].sector /\ (buf'[c].dirty => Writing(me'[p], c) \/ buf[c].dirty)
    BY <1>buf, <1>2, <1>3
  <2> QED
    BY Zenon, <2>1, <2>2, <1>3, <1>4, DirtyStep DEF CInv
<1>14. QueueInv'
  BY Zenon, <1>me, <1>1, <1>3, <1>4, <1>5, QueueStep DEF CInv
<1> QED
  BY <1>7, <1>8, <1>9, <1>10, <1>11, <1>12, <1>13, <1>14 DEF CInv

\* A sector has a place in the log, or the next free one is its place.
LEMMA SlotBound ==
  ASSUME lh \in Seq(Data), NEW s
  PROVE  Slot(s) \in 1 .. Len(lh) + 1
<1>1. Len(lh) \in Nat
  OBVIOUS
<1>2. CASE \E i \in 1 .. Len(lh) : lh[i] = s
  BY <1>1, <1>2 DEF Slot
<1>3. CASE ~\E i \in 1 .. Len(lh) : lh[i] = s
  BY <1>1, <1>3 DEF Slot
<1> QED
  BY <1>2, <1>3

\* log_write() changes the data of a buffer and nothing else of it.
LEMMA Filled ==
  ASSUME buf \in [Buf -> BufRec], NEW b \in Buf, NEW v \in Value, buf' = [buf EXCEPT ![b].data = v]
  PROVE  /\ buf' \in [Buf -> BufRec]
         /\ \A c \in Buf : c # b => buf'[c] = buf[c]
         /\ buf'[b].sector = buf[b].sector /\ buf'[b].busy = buf[b].busy /\ buf'[b].valid = buf[b].valid
         /\ buf'[b].dirty = buf[b].dirty /\ buf'[b].data = v
BY Zenon DEF BufRec

\* log_write(): the block is changed, and the log block is asked for.
LEMMA LogWriteStep ==
  ASSUME CInv, NEW p \in Proc, log_write(p)
  PROVE  CInv'
<1> DEFINE m == me[p]
           b == Last(me[p].held)
           k == Slot(buf[b].sector)
           n == Wants(p, k)
<1>1. /\ m \in ProcRec /\ m.pc = "have" /\ m.mode = "trans" /\ Len(m.held) = 1 /\ owner = p
      /\ Control(m, lh, tail) /\ Contents(m, buf, lh, tail) /\ lh \in Seq(Data) /\ Len(lh) \in Nat
  BY Local DEF log_write, At
<1>2. PICK v \in Value : /\ buf' = [buf EXCEPT ![b].data = v]
                         /\ logical' = [logical EXCEPT ![buf[b].sector] = v]
                         /\ me' = [me EXCEPT ![p] = n]
  BY Zenon DEF log_write, Top, Last, Set
<1>3. UNCHANGED <<lru, idequeue, disk, log, panicked>>
  BY DEF log_write
<1>4. m.held \in Seq(Buf) /\ b = m.held[1] /\ b = Last(m.held) /\ b \in Buf /\ Held(m) = {b}
  BY <1>1, HeldElements DEF ProcRec, Held
<1>5. buf \in [Buf -> BufRec] /\ buf[b].valid /\ buf[b].busy /\ buf[b].sector \in Data
  <2>1. buf \in [Buf -> BufRec]
    BY Zenon DEF CInv, Types
  <2>2. Len(m.held) > 0
    BY <1>1
  <2> QED
    BY Zenon, <1>1, <1>4, <2>1, <2>2 DEF Contents
<1>6. k \in Sector
  <2>1. k \in 1 .. Len(lh) + 1
    BY <1>1, SlotBound
  <2>2. Len(lh) < LOGSIZE
    BY <1>1 DEF Control
  <2> QED
    BY <1>1, <2>1, <2>2, BufCacheAssumption DEF Sector, LogSector
<1>7. n \in ProcRec /\ n.pc = "bget" /\ n.mode = "trans" /\ n.want = k /\ n.held = m.held
  BY Zenon, <1>1, <1>6 DEF Wants, ProcRec
<1> HIDE DEF n, k, b
<1>8. /\ buf' \in [Buf -> BufRec] /\ \A c \in Buf : c # b => buf'[c] = buf[c]
      /\ buf'[b].sector = buf[b].sector /\ buf'[b].busy /\ buf'[b].valid
      /\ buf'[b].dirty = buf[b].dirty /\ buf'[b].data = v
  <2>1. buf' = [buf EXCEPT ![b].data = v]
    BY <1>2
  <2> QED
    BY ZenonT(30), <1>4, <1>5, <2>1, Filled
<1>9. Changed(n) /\ n.held[1] = b
  <2>1. n.mode = "trans" /\ n.pc = "bget" /\ Len(n.held) = 1
    BY <1>1, <1>7
  <2> QED
    BY Zenon, <2>1, <1>4, <1>7 DEF Changed
<1>10. b \in Ahead(buf', me')
  <2>1. me'[p] = n
    BY <1>2 DEF CInv, Types
  <2>2. buf'[b].valid
    BY <1>8
  <2> QED
    BY <2>1, <2>2, <1>4, <1>9 DEF Ahead
<1>11. Control(n, lh, tail)
  <2>1. tail = 0 /\ Len(lh) < LOGSIZE
    BY <1>1 DEF Control
  <2>2. Len(n.held) = 1
    BY <1>1, <1>7
  <2> QED
    BY <1>6, <1>7, <2>1, <2>2 DEF Control, Waiting
<1>12. Contents(n, buf', lh, tail)
  <2>1. Held(n) = {b} /\ Len(n.held) = 1
    BY Zenon, <1>1, <1>4, <1>7 DEF Held
  <2>2. buf[b].sector \in Sector
    BY <1>5 DEF Sector
  <2>3. n.pc = "bget" /\ n.mode = "trans" /\ n.held[1] = b
    BY <1>7, <1>9
  <2>4. Len(n.held) # 2
    BY <2>1
  <2> QED
    BY Zenon, <1>5, <1>8, <2>1, <2>2, <2>3, <2>4 DEF Contents
<1>13. b \in Held(m)
  BY <1>4
<1>14. Writes(p, b, v, n)
  BY Zenon, <1>1, <1>2, <1>3, <1>5, <1>7, <1>8, <1>9, <1>10, <1>11, <1>12 DEF Writes
<1> QED
  BY <1>7, <1>13, <1>14, WriteStep

\* bwrite() puts the data into the buffer and sets B_DIRTY.
LEMMA Dirtied ==
  ASSUME buf \in [Buf -> BufRec], NEW d \in Buf, NEW v \in Value,
         buf' = [buf EXCEPT ![d].data = v, ![d].dirty = TRUE]
  PROVE  /\ buf' \in [Buf -> BufRec]
         /\ \A c \in Buf : c # d => buf'[c] = buf[c]
         /\ buf'[d].sector = buf[d].sector /\ buf'[d].busy = buf[d].busy
         /\ buf'[d].valid = buf[d].valid /\ buf'[d].dirty /\ buf'[d].data = v
BY Zenon DEF BufRec

\* bwrite() of the log block, of the log header or of a home block.
LEMMA BwriteStep ==
  ASSUME CInv, NEW p \in Proc, bwrite(p)
  PROVE  CInv'
<1> DEFINE m == me[p]
           d == Last(me[p].held)
           v == buf[me[p].held[1]].data
           n == [me[p] EXCEPT !.pc = "iderw", !.mode = IF @ = "trans" THEN "logged" ELSE "wrote"]
<1>1. /\ m \in ProcRec /\ m.pc = "have"
      /\ \/ m.mode \in {"trans", "commit"} /\ Len(m.held) = 2
         \/ m.mode = "commit" /\ tail \in {0, Len(lh) + 1}
      /\ Control(m, lh, tail) /\ Contents(m, buf, lh, tail) /\ Len(lh) \in Nat
  BY Zenon, Local DEF bwrite, At
<1>2. /\ buf' = [buf EXCEPT ![d].data = v, ![d].dirty = TRUE]
      /\ logical' = [logical EXCEPT ![buf[d].sector] = v]
      /\ me' = [me EXCEPT ![p] = n]
      /\ UNCHANGED <<lru, idequeue, disk, log, panicked>>
  BY Zenon DEF bwrite, Top, Last, Set
<1>3. m.held \in Seq(Buf) /\ Len(m.held) \in {1, 2}
  BY <1>1 DEF ProcRec, Control
<1>4. /\ d = Last(m.held) /\ d \in Held(m) /\ m.held[1] \in Held(m) /\ Held(m) \subseteq Buf /\ d \in Buf /\ m.held[1] \in Buf
      /\ Len(m.held) = 2 => m.held[1] # d
  <2>1. Len(m.held) = 2 => m.held[1] # m.held[2]
    BY Zenon, <1>1 DEF Contents
  <2> QED
    BY Zenon, <1>1, <1>3, <2>1, HeldElements DEF Held
<1>5. /\ buf \in [Buf -> BufRec] /\ buf[d].valid /\ buf[d].busy /\ buf[d].sector \in Sector /\ v \in Value
      /\ \A c \in Held(m) : buf[c].busy /\ buf[c].sector \in Sector
  <2>1. buf \in [Buf -> BufRec]
    BY DEF CInv, Types
  <2>2. v \in Value
    BY <2>1, <1>4 DEF BufRec
  <2>3. buf[d].valid
    BY Zenon, <1>1 DEF Contents
  <2> QED
    BY <2>1, <2>2, <2>3, <1>4, HeldBusy
<1>6. /\ n \in ProcRec /\ n.pc = "iderw" /\ n.held = m.held
      /\ n.mode = IF m.mode = "trans" THEN "logged" ELSE "wrote"
  BY Zenon, <1>1 DEF ProcRec
<1>7. n.mode \in {"logged", "wrote"} /\ owner = p
  BY <1>1, <1>6, Local
<1>8. /\ buf' \in [Buf -> BufRec] /\ \A c \in Buf : c # d => buf'[c] = buf[c]
      /\ buf'[d].sector = buf[d].sector /\ buf'[d].busy /\ buf'[d].valid
      /\ buf'[d].dirty /\ buf'[d].data = v
  <2> HIDE DEF v, d
  <2>1. buf' = [buf EXCEPT ![d].data = v, ![d].dirty = TRUE]
    BY <1>2
  <2>2. buf \in [Buf -> BufRec] /\ d \in Buf /\ v \in Value /\ buf[d].busy /\ buf[d].valid
    BY <1>4, <1>5
  <2> QED
    BY Zenon, <2>1, <2>2, Dirtied
<1> HIDE DEF n, v, d
<1>old. /\ Len(m.held) = 2 => m.held[1] # m.held[2] /\ buf[m.held[1]].valid
        /\ m.mode = "trans" => buf[m.held[1]].sector \in Data
        /\ m.mode = "commit" /\ Len(m.held) = 2 => buf[d].sector = lh[tail]
  <2>1. \A k \in {1, 2} : k > 0
    OBVIOUS
  <2> QED
    BY Zenon, <1>1, <1>3, <1>4, <2>1 DEF Contents
<1>9. Writing(n, d)
  BY <1>4, <1>6, <1>7 DEF Writing, Waiting
<1>10. d \in Ahead(buf', me')
  BY <1>4, <1>8 DEF Ahead
<1>11. Changed(m) => Changed(n)
  BY <1>1, <1>6 DEF Changed
<1>12. Control(n, lh, tail)
  BY <1>1, <1>3, <1>6 DEF Control, Waiting
<1>13. Contents(n, buf', lh, tail)
  <2>1. Held(n) = Held(m) /\ \A c \in Held(n) : buf'[c].busy /\ buf'[c].sector \in Sector
    BY <1>4, <1>5, <1>6, <1>8 DEF Held
  <2>2. Len(m.held) = 2 => buf'[m.held[1]] = buf[m.held[1]] /\ buf[m.held[1]].valid
    BY Zenon, <1>old, <1>4, <1>8
  <2>3. n.mode = "logged" => buf'[m.held[1]].sector \in Data
    BY Zenon, <1>old, <1>4, <1>6, <1>8
  <2>4. n.mode = "wrote" /\ tail \in 1 .. Len(lh) => buf'[d].sector = lh[tail]
    <3>1. \A k \in Nat : \A t \in 1 .. k : t \notin {0, k + 1}
      OBVIOUS
    <3> QED
      BY Zenon, <1>old, <1>1, <1>6, <1>8, <3>1
  <2>5. n.pc = "iderw" /\ n.mode \in {"logged", "wrote"} /\ n.held = m.held /\ Last(n.held) = d /\ buf'[d].dirty
    BY <1>4, <1>6, <1>7, <1>8
  <2>6. Len(n.held) = 2 => n.held[1] # n.held[2]
    BY <1>old, <1>6
  <2> QED
    BY Zenon, <2>1, <2>2, <2>3, <2>4, <2>5, <2>6 DEF Contents
<1> QED
  <2>1. /\ me[p].pc = "have" /\ n.mode \in {"trans", "logged", "commit", "wrote"} /\ owner = p
        /\ n \in ProcRec /\ n.held = me[p].held
    BY <1>1, <1>6, <1>7
  <2>2. d \in Held(me[p]) /\ v \in Value /\ buf[d].valid
    BY <1>4, <1>5
  <2> HIDE DEF m
  <2>3. Writes(p, d, v, n)
    BY Zenon, <1>2, <1>8, <1>9, <1>10, <1>11, <1>12, <1>13, <2>1, <2>2 DEF Writes, m
  <2> QED
    BY <2>1, <2>2, <2>3, WriteStep

=============================================================================
