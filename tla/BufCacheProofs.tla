--------------------------- MODULE BufCacheProofs ---------------------------
(***************************************************************************)
(* Proofs about BufCache, for any sets of processes, buffers, sectors and  *)
(* contents and any size of the log: a sector is cached once and a busy    *)
(* buffer has one holder, a read sees the last write, a commit leaves the  *)
(* home blocks on the disk; and how many buffers bget() needs so that it   *)
(* never runs out of them.                                                 *)
(***************************************************************************)
EXTENDS BufCacheInv, FiniteSetTheorems

-----------------------------------------------------------------------------
(* bget()                                                                  *)

\* A nonempty set of natural numbers has a least element.
LEMMA LeastNat ==
  ASSUME NEW T \in SUBSET Nat, T # {}
  PROVE  \E x \in T : \A y \in T : x <= y
<1> DEFINE R == OpToRel(<, Nat)
<1>1. \A a, c \in Nat : a < c => <<a, c>> \in R
  BY DEF OpToRel
<1>2. IsWellFoundedOn(R, Nat)
  BY Zenon, NatLessThanWellFounded
<1> HIDE DEF R
<1>3. \E x \in T : \A y \in T : ~(<<y, x>> \in R)
  BY Zenon, <1>2, WFMin
<1>4. PICK x \in T : \A y \in T : ~(<<y, x>> \in R)
  BY <1>3
<1>5. ASSUME NEW y \in T PROVE x <= y
  <2>1. x \in Nat /\ y \in Nat
    OBVIOUS
  <2>2. ~(y < x)
    BY Zenon, <2>1, <1>1, <1>4
  <2> QED
    BY <2>1, <2>2
<1> QED
  BY <1>5

\* LeastRecent() picks one of the places it is given.
LEMMA LeastRecentIn ==
  ASSUME NEW n \in Nat, NEW T \in SUBSET (1 .. n), T # {}
  PROVE  LeastRecent(T) \in T
<1> DEFINE U == {k \in 0 .. n : n - k \in T}
<1>1. PICK t \in T : TRUE
  BY Zenon
<1>2. n - t \in 0 .. n /\ n - (n - t) = t
  OBVIOUS
<1>3. n - t \in U
  BY <1>2
<1>4. U \in SUBSET Nat
  OBVIOUS
<1>5. \E u \in U : \A y \in U : u <= y
  <2> HIDE DEF U
  <2> QED
    BY <1>3, <1>4, LeastNat
<1>6. PICK u \in U : \A y \in U : u <= y
  BY <1>5
<1>7. ASSUME NEW y \in T PROVE y <= n - u
  <2>1. n - y \in U /\ y \in Int /\ u \in Int
    OBVIOUS
  <2>2. u <= n - y
    BY <2>1, <1>6
  <2> QED
    BY <2>1, <2>2
<1>8. \E i \in T : \A j \in T : j <= i
  BY <1>7
<1> QED
  BY Zenon, <1>8 DEF LeastRecent

\* bget()
LEMMA BgetStep ==
  ASSUME CInv, NEW p \in Proc, bget(p)
  PROVE  CInv'
<1> DEFINE s == me[p].want
<1>1. /\ me[p].pc = "bget" /\ UNCHANGED <<lru, idequeue, disk, log, logical>>
      /\ \/ \E b \in Cached(s) :
              IF buf[b].busy
                THEN me' = [me EXCEPT ![p] = [me[p] EXCEPT !.asleep = b]] /\ UNCHANGED <<buf, panicked>>
                ELSE Take(p, b, buf[b])
         \/ /\ Cached(s) = {}
            /\ IF Reusable = {}
                 THEN panicked' = TRUE /\ UNCHANGED <<buf, me>>
                 ELSE Take(p, lru[LeastRecent(Reusable)], Fresh(s))
  BY DEF bget, Look, At, Set
<1>2. CASE \E b \in Cached(s) : buf[b].busy /\ me' = [me EXCEPT ![p] = [me[p] EXCEPT !.asleep = b]]
                                /\ UNCHANGED <<buf, panicked>>
  BY Zenon, <1>1, <1>2, SleepStep DEF Cached, log
<1>3. CASE \E b \in Cached(s) : ~buf[b].busy /\ Take(p, b, buf[b])
  <2>1. PICK b \in Buf : buf[b].sector = s /\ ~buf[b].busy /\ Take(p, b, buf[b])
    BY <1>3 DEF Cached
  <2> QED
    BY Zenon, <2>1, <1>1, TakeStep DEF Takes
<1>4. CASE panicked' = TRUE /\ UNCHANGED <<buf, me>>
  BY <1>1, <1>4 DEF CInv, log, Types, ProcInv, HolderInv, SectorInv, OwnerInv, CoherenceInv, DirtyInv, QueueInv
<1>5. CASE Cached(s) = {} /\ Reusable # {} /\ Take(p, lru[LeastRecent(Reusable)], Fresh(s))
  <2> DEFINE i == LeastRecent(Reusable)
  <2>1. lru \in Seq(Buf) /\ Len(lru) \in Nat
    BY DEF CInv, Types
  <2>2. Reusable \in SUBSET (1 .. Len(lru))
    BY DEF Reusable
  <2>3. i \in Reusable
    BY Zenon, <1>5, <2>1, <2>2, LeastRecentIn
  <2> HIDE DEF i
  <2>4. lru[i] \in Buf /\ ~buf[lru[i]].busy /\ ~buf[lru[i]].dirty
    BY <2>1, <2>3 DEF Reusable
  <2>5. Take(p, lru[i], Fresh(s))
    BY <1>5 DEF i
  <2> QED
    BY Zenon, <2>4, <2>5, <1>1, <1>5, TakeStep DEF Takes
<1> QED
  BY Zenon, <1>1, <1>2, <1>3, <1>4, <1>5

-----------------------------------------------------------------------------
(* brelse()                                                                *)

\* The step in which p gives up b and goes on as n: what brelse() and the
\* callers that also change the log do to the state.
Releases(p, b, n) ==
  /\ me[p].pc = "have" /\ Held(n) = Held(me[p]) \ {b}
  /\ me' = Awake([me EXCEPT ![p] = n], b) /\ lru' = Recent(lru, b)
  /\ UNCHANGED <<idequeue, disk, memdisk, panicked, logical>>
  /\ buf' \in [Buf -> BufRec] /\ \A c \in Buf : c # b => buf'[c] = buf[c]
  /\ buf'[b].sector = buf[b].sector /\ buf'[b].valid = buf[b].valid /\ buf'[b].data = buf[b].data
  /\ ~buf'[b].busy /\ (buf[b].dirty => buf'[b].dirty) /\ (buf'[b].dirty => buf[b].valid)
  /\ owner' \in Proc \cup {None} /\ lh' \in Seq(Data) /\ Len(lh') <= LOGSIZE /\ tail' \in 0 .. Len(lh') + 1
  /\ (lh' = lh /\ tail' = tail) \/ owner = p
  /\ \A q \in Proc : q # p => (owner' = q <=> owner = q)
  /\ owner' = p <=> n.mode \in {"trans", "logged", "commit", "wrote"}
  /\ owner' = None => Len(lh') = 0 /\ tail' = 0
  /\ Control(n, lh', tail') /\ Contents(n, buf', lh', tail')
  /\ Changed(me[p]) => \/ Changed(n) /\ n.held[1] = me[p].held[1]
                       \/ buf'[me[p].held[1]].dirty
  /\ \A c \in Buf : buf'[c].dirty =>
       \/ Pinned(buf'[c].sector, lh', tail')
       \/ buf[c].dirty /\ (Pinned(buf[c].sector, lh, tail) => Pinned(buf'[c].sector, lh', tail'))

\* brelse() keeps the invariant: the buffer is the one the process held, and a
\* dirty buffer that it gives up is pinned by the log.
LEMMA ReleaseStep ==
  ASSUME CInv, NEW p \in Proc, NEW b \in Held(me[p]), NEW n \in ProcRec, Releases(p, b, n)
  PROVE  CInv'
<1>req. me[p].pc = "have" /\ Held(n) = Held(me[p]) \ {b}
  BY DEF Releases
<1>me. /\ me' = Awake([me EXCEPT ![p] = n], b) /\ lru' = Recent(lru, b)
       /\ UNCHANGED <<idequeue, disk, memdisk, panicked, logical>>
  BY Zenon DEF Releases
<1>buf. /\ buf' \in [Buf -> BufRec] /\ \A c \in Buf : c # b => buf'[c] = buf[c]
        /\ buf'[b].sector = buf[b].sector /\ buf'[b].valid = buf[b].valid /\ buf'[b].data = buf[b].data
        /\ ~buf'[b].busy /\ (buf[b].dirty => buf'[b].dirty) /\ (buf'[b].dirty => buf[b].valid)
  BY Zenon DEF Releases
<1>log. /\ owner' \in Proc \cup {None} /\ lh' \in Seq(Data) /\ Len(lh') <= LOGSIZE /\ tail' \in 0 .. Len(lh') + 1
        /\ (lh' = lh /\ tail' = tail) \/ owner = p
        /\ \A q \in Proc : q # p => (owner' = q <=> owner = q)
        /\ owner' = p <=> n.mode \in {"trans", "logged", "commit", "wrote"}
        /\ owner' = None => Len(lh') = 0 /\ tail' = 0
  BY Zenon DEF Releases
<1>new. Control(n, lh', tail') /\ Contents(n, buf', lh', tail')
  BY Zenon DEF Releases
<1>kept. Changed(me[p]) => \/ Changed(n) /\ n.held[1] = me[p].held[1]
                          \/ buf'[me[p].held[1]].dirty
  BY Zenon DEF Releases
<1>pinned. \A c \in Buf : buf'[c].dirty =>
             \/ Pinned(buf'[c].sector, lh', tail')
             \/ buf[c].dirty /\ (Pinned(buf[c].sector, lh, tail) => Pinned(buf'[c].sector, lh', tail'))
  BY Zenon DEF Releases
<1>1. /\ me[p] \in ProcRec /\ Control(me[p], lh, tail) /\ Contents(me[p], buf, lh, tail)
      /\ buf \in [Buf -> BufRec] /\ me \in [Proc -> ProcRec]
  BY Local DEF CInv, Types
<1>2. b \in Buf
  BY <1>1, TopHeld
<1>3. /\ me' \in [Proc -> ProcRec] /\ Same(me'[p], n)
      /\ \A q \in Proc : q # p => Same(me'[q], me[q])
  <2> DEFINE M == [me EXCEPT ![p] = n]
  <2>1. M \in [Proc -> ProcRec] /\ M[p] = n /\ \A q \in Proc : q # p => M[q] = me[q]
    BY <1>1
  <2> HIDE DEF M
  <2>2. Awake(M, b) \in [Proc -> ProcRec] /\ \A q \in Proc : Same(Awake(M, b)[q], M[q])
    BY <2>1, AwakeSame
  <2>3. me' = Awake(M, b)
    BY <1>me DEF M
  <2> QED
    BY Zenon, <2>1, <2>2, <2>3
<1>4. \A q \in Proc : q # p => \A c \in Held(me[q]) : buf'[c] = buf[c]
  <2> SUFFICES ASSUME NEW q \in Proc, q # p, NEW c \in Held(me[q])
               PROVE  buf'[c] = buf[c]
    OBVIOUS
  <2>1. Held(me[q]) \subseteq Buf
    BY Local, TopHeld
  <2>2. Held(me[q]) \cap Held(me[p]) = {}
    BY Zenon DEF CInv, HolderInv
  <2> QED
    BY <1>buf, <2>1, <2>2
<1>5. Types'
  <2>1. lru' \in Seq(Buf) /\ Range(lru') = Buf /\ Len(lru') = Cardinality(Buf)
    BY <1>2, <1>me, RecentElements DEF CInv, Types
  <2> QED
    BY Zenon, <1>me, <1>buf, <1>log, <1>3, <2>1 DEF CInv, Types
<1>6. ProcInv'
  <2>1. Control(me'[p], lh', tail')
    BY <1>new, <1>3, ControlFrame
  <2>2. Contents(me'[p], buf', lh', tail')
    BY <1>new, <1>3, ContentsFrame
  <2> QED
    BY Zenon, <1>log, <1>1, <1>3, <1>4, <2>1, <2>2, ProcStep DEF CInv
<1>7. HolderInv'
  <2>1. Held(me'[p]) = Held(me[p]) \ {b}
    BY <1>req, <1>3, SameViews
  <2>2. \A q \in Proc : \A c \in Held(me[q]) : buf[c].busy
    BY HeldBusy
  <2>3. \A c \in Buf : buf'[c].busy => buf[c].busy /\ c # b
    BY <1>buf, <1>2
  <2> QED
    BY Zenon, <1>3, <2>1, <2>2, <2>3, HolderStep DEF CInv
<1>8. SectorInv'
  BY <1>buf, <1>2 DEF CInv, SectorInv
<1>9. OwnerInv'
  BY ZenonT(30), <1>log, <1>3 DEF CInv, OwnerInv, Same
<1>10. CoherenceInv'
  <2>1. \A c \in Buf : buf'[c].valid => buf'[c].sector \in Sector /\ buf'[c].data = logical'[buf'[c].sector]
    BY <1>me, <1>buf, <1>2 DEF CInv, CoherenceInv
  <2>2. \A c \in Buf : buf'[c].dirty => buf'[c].valid
    BY <1>me, <1>buf, <1>2 DEF CInv, CoherenceInv
  <2>3. \A q \in Proc : Changed(me[q]) =>
          \/ Changed(me'[q]) /\ me'[q].held[1] = me[q].held[1]
          \/ buf'[me[q].held[1]].dirty
    <3>1. \A q \in Proc : q # p => me'[q].held = me[q].held /\ (Changed(me[q]) => Changed(me'[q]))
      BY ZenonT(30), <1>3, SameViews
    <3>2. me'[p].held = n.held /\ (Changed(n) => Changed(me'[p]))
      BY <1>3, SameViews
    <3> QED
      BY ZenonT(30), <1>kept, <3>1, <3>2
  <2>4. \A c \in Ahead(buf, me) : c \in Ahead(buf', me') /\ buf'[c].sector = buf[c].sector
    <3> SUFFICES ASSUME NEW c \in Ahead(buf, me)
                 PROVE  c \in Ahead(buf', me') /\ buf'[c].sector = buf[c].sector
      BY Zenon
    <3>1. /\ c \in Buf /\ buf'[c].valid /\ buf'[c].sector = buf[c].sector
          /\ buf[c].dirty => buf'[c].dirty
      BY Zenon, <1>buf, <1>2 DEF Ahead
    <3>2. buf[c].dirty \/ \E q \in Proc : Changed(me[q]) /\ me[q].held[1] = c
      BY DEF Ahead
    <3>3. buf'[c].dirty \/ \E q \in Proc : Changed(me'[q]) /\ me'[q].held[1] = c
      BY ZenonT(30), <2>3, <3>1, <3>2
    <3> QED
      BY Zenon, <3>1, <3>3 DEF Ahead
  <2>5. \A s \in Sector : disk'[s] # logical'[s] => \E c \in Ahead(buf', me') : buf'[c].sector = s
    BY Zenon, <1>me, <2>4, AheadStep DEF CInv
  <2> QED
    BY Zenon, <2>1, <2>2, <2>5 DEF CoherenceInv
<1>11. DirtyInv'
  <2>1. \A c : ~Writing(me[p], c)
    BY <1>req DEF Writing, Waiting
  <2> QED
    BY Zenon, <1>pinned, <2>1, <1>3, DirtyStep DEF CInv
<1>12. QueueInv'
  BY Zenon, <1>req, <1>me, <1>1, <1>3, <1>4, QueueStep DEF CInv
<1> QED
  BY <1>5, <1>6, <1>7, <1>8, <1>9, <1>10, <1>11, <1>12 DEF CInv

\* What brelse() does to the buffer.
LEMMA Unbusied ==
  ASSUME buf \in [Buf -> BufRec], NEW b \in Buf, buf' = [buf EXCEPT ![b].busy = FALSE]
  PROVE  /\ buf' \in [Buf -> BufRec]
         /\ \A c \in Buf : c # b => buf'[c] = buf[c]
         /\ buf'[b].sector = buf[b].sector /\ buf'[b].valid = buf[b].valid /\ buf'[b].data = buf[b].data
         /\ buf'[b].dirty = buf[b].dirty /\ ~buf'[b].busy
BY Zenon DEF BufRec

\* brelse() by a process that keeps the log as it is.
LEMMA PlainRelease ==
  ASSUME CInv, NEW p \in Proc, me[p].pc = "have", NEW b \in Held(me[p]), NEW n \in ProcRec,
         brelse(p, [me EXCEPT ![p] = n], b),
         Held(n) = Held(me[p]) \ {b},
         UNCHANGED <<idequeue, disk, log, panicked, logical>>,
         me[p].mode \in {"trans", "logged", "commit", "wrote"} <=> n.mode \in {"trans", "logged", "commit", "wrote"},
         Control(n, lh, tail), Contents(n, buf', lh, tail),
         Changed(me[p]) => Changed(n) /\ n.held[1] = me[p].held[1]
  PROVE  CInv'
<1>1. /\ me[p] \in ProcRec /\ Control(me[p], lh, tail)
      /\ owner = p <=> me[p].mode \in {"trans", "logged", "commit", "wrote"}
  BY Local
<1>2. /\ buf \in [Buf -> BufRec] /\ owner \in Proc \cup {None} /\ lh \in Seq(Data) /\ Len(lh) <= LOGSIZE
      /\ tail \in 0 .. Len(lh) + 1 /\ (owner = None => Len(lh) = 0 /\ tail = 0)
      /\ \A c \in Buf : buf[c].dirty => buf[c].valid
  BY DEF CInv, Types, OwnerInv, CoherenceInv
<1>3. b \in Buf
  BY <1>1, TopHeld
<1>4. /\ me' = Awake([me EXCEPT ![p] = n], b) /\ lru' = Recent(lru, b)
      /\ buf' = [buf EXCEPT ![b].busy = FALSE]
      /\ UNCHANGED <<idequeue, disk, owner, lh, tail, memdisk, panicked, logical>>
  BY DEF brelse, log
<1>5. /\ buf' \in [Buf -> BufRec] /\ \A c \in Buf : c # b => buf'[c] = buf[c]
      /\ buf'[b].sector = buf[b].sector /\ buf'[b].valid = buf[b].valid /\ buf'[b].data = buf[b].data
      /\ buf'[b].dirty = buf[b].dirty /\ ~buf'[b].busy
  BY Zenon, <1>2, <1>3, <1>4, Unbusied
<1>6. \A c \in Buf : buf'[c].dirty => buf[c].dirty /\ buf'[c].sector = buf[c].sector
  BY <1>5
<1>7. owner' = p <=> n.mode \in {"trans", "logged", "commit", "wrote"}
  BY <1>1, <1>4
<1>8. /\ owner' \in Proc \cup {None} /\ lh' \in Seq(Data) /\ Len(lh') <= LOGSIZE
      /\ tail' \in 0 .. Len(lh') + 1 /\ (owner' = None => Len(lh') = 0 /\ tail' = 0)
  BY <1>2, <1>4
<1>9. /\ (lh' = lh /\ tail' = tail) \/ owner = p
      /\ \A q \in Proc : q # p => (owner' = q <=> owner = q)
  BY <1>4
<1>10. Control(n, lh', tail') /\ Contents(n, buf', lh', tail')
  BY Zenon, <1>4
<1>11. \A c \in Buf : buf'[c].dirty =>
           \/ Pinned(buf'[c].sector, lh', tail')
           \/ buf[c].dirty /\ (Pinned(buf[c].sector, lh, tail) => Pinned(buf'[c].sector, lh', tail'))
  BY Zenon, <1>4, <1>6
<1>12. buf'[b].dirty => buf[b].valid
  BY Zenon, <1>2, <1>3, <1>6
<1>13. /\ me' = Awake([me EXCEPT ![p] = n], b) /\ lru' = Recent(lru, b)
       /\ UNCHANGED <<idequeue, disk, memdisk, panicked, logical>>
  BY Zenon, <1>4
<1> QED
  BY Zenon, <1>5, <1>7, <1>8, <1>9, <1>10, <1>11, <1>12, <1>13, ReleaseStep DEF Releases

\* A reader is done with its block.
LEMMA ReadDoneStep ==
  ASSUME CInv, NEW p \in Proc, read_done(p)
  PROVE  CInv'
<1> DEFINE m == me[p]
           b == Last(me[p].held)
<1>1. m \in ProcRec /\ m.pc = "have" /\ m.mode = "read" /\ Control(m, lh, tail)
  BY Local DEF read_done, At
<1>2. brelse(p, [me EXCEPT ![p] = Idle], b) /\ UNCHANGED <<idequeue, disk, log, panicked, logical>>
  BY DEF read_done, Top, Last
<1>3. m.held \in Seq(Buf) /\ Len(m.held) = 1
  <2>1. m.held \in Seq(Buf)
    BY <1>1 DEF ProcRec
  <2>2. Len(m.held) \in {1, 2} /\ Len(m.held) \in {0, 1}
    BY <1>1 DEF Control
  <2>3. \A k : k \in {1, 2} /\ k \in {0, 1} => k = 1
    OBVIOUS
  <2> QED
    BY Zenon, <2>1, <2>2, <2>3
<1>4. Held(m) = {b}
  BY <1>3, HeldElements DEF Held
<1>5. Idle \in ProcRec /\ Idle.mode = "none" /\ Idle.pc = "idle" /\ Idle.held = <<>>
  BY DEF Idle, ProcRec
<1>6. Held(Idle) = {} /\ Len(Idle.held) = 0
  BY <1>5 DEF Held, Range
<1>7. Control(Idle, lh, tail)
  BY <1>5, <1>6 DEF Control
<1>8. Contents(Idle, buf', lh, tail)
  BY <1>5, <1>6 DEF Contents
<1>9. ~Changed(m)
  BY <1>1 DEF Changed
<1> QED
  BY Zenon, <1>1, <1>2, <1>4, <1>5, <1>6, <1>7, <1>8, <1>9, PlainRelease

\* log_write() gives up the log block.
LEMMA LoggedStep ==
  ASSUME CInv, NEW p \in Proc, log_write_logged(p)
  PROVE  CInv'
<1> DEFINE m == me[p]
           a == me[p].held[1]
           b == Last(me[p].held)
           n == [me[p] EXCEPT !.held = <<@[1]>>]
<1>1. /\ m \in ProcRec /\ m.pc = "have" /\ m.mode = "logged" /\ Len(m.held) = 2
      /\ Control(m, lh, tail) /\ Contents(m, buf, lh, tail)
  BY Local DEF log_write_logged, At
<1>2. brelse(p, [me EXCEPT ![p] = n], b) /\ UNCHANGED <<idequeue, disk, log, panicked, logical>>
  BY DEF log_write_logged, Top, Last
<1>3. m.held \in Seq(Buf)
  BY <1>1 DEF ProcRec
<1>4. Held(m) = {a, b} /\ a \in Buf /\ b \in Buf /\ a # b
  BY Zenon, <1>1, <1>3, HeldElements DEF Held, Contents
<1>5. n \in ProcRec /\ n.mode = "logged" /\ n.pc = "have" /\ n.held = <<a>>
  BY <1>1, <1>4 DEF ProcRec
<1>6. Len(n.held) = 1 /\ n.held[1] = a /\ Last(n.held) = a /\ Held(n) = {a}
  BY <1>4, <1>5 DEF Held, Range, Last
<1>7. buf' = [buf EXCEPT ![b].busy = FALSE] /\ buf'[a] = buf[a]
  BY Zenon, <1>2, <1>4 DEF brelse, CInv, Types
<1>8. Control(n, lh, tail)
  BY Zenon, <1>1, <1>5, <1>6 DEF Control
<1>9. Contents(n, buf', lh, tail)
  <2>1. buf[a].busy /\ buf[a].sector \in Sector /\ buf[a].valid /\ buf[a].sector \in Data
    <3>1. Len(m.held) > 0
      BY <1>1
    <3> QED
      BY Zenon, <1>1, <1>4, <3>1 DEF Contents
  <2>2. buf'[a] = buf[a]
    BY Zenon, <1>7
  <2> HIDE DEF n, a
  <2> QED
    BY <1>5, <1>6, <2>1, <2>2 DEF Contents
<1>10. Changed(n) /\ Held(n) = Held(m) \ {b} /\ b \in Held(m)
  BY Zenon, <1>4, <1>5, <1>6 DEF Changed
<1> HIDE DEF n, b
<1> QED
  BY Zenon, <1>1, <1>2, <1>5, <1>6, <1>8, <1>9, <1>10, PlainRelease

\* log.lh with the sector of the block that was logged.
LEMMA LoggedList ==
  ASSUME lh \in Seq(Data), Len(lh) < LOGSIZE, NEW s \in Data, NEW l,
         l = IF Slot(s) > Len(lh) THEN Append(lh, s) ELSE lh
  PROVE  /\ l \in Seq(Data) /\ Len(l) <= LOGSIZE /\ Len(l) \in Nat /\ Len(lh) <= Len(l)
         /\ \A i \in 1 .. Len(lh) : l[i] = lh[i]
         /\ \E i \in 1 .. Len(l) : l[i] = s
<1>1. Len(lh) \in Nat /\ LOGSIZE \in Nat
  BY BufCacheAssumption
<1>2. CASE \E i \in 1 .. Len(lh) : lh[i] = s
  <2>1. Slot(s) \in 1 .. Len(lh)
    BY Zenon, <1>2 DEF Slot
  <2>2. l = lh
    BY <1>1, <2>1
  <2> QED
    BY <1>1, <1>2, <2>2
<1>3. CASE ~\E i \in 1 .. Len(lh) : lh[i] = s
  <2>1. Slot(s) = Len(lh) + 1
    BY <1>3 DEF Slot
  <2>2. l = Append(lh, s)
    BY <1>1, <2>1
  <2>3. /\ l \in Seq(Data) /\ Len(l) = Len(lh) + 1 /\ l[Len(lh) + 1] = s
        /\ \A i \in 1 .. Len(lh) : l[i] = lh[i]
    BY <2>2
  <2> QED
    BY <1>1, <2>3
<1> QED
  BY Zenon, <1>2, <1>3

\* The end of log_write(): the buffer is pinned and given up.
LEMMA PinStep ==
  ASSUME CInv, NEW p \in Proc, log_write_pin(p)
  PROVE  CInv'
<1> DEFINE m == me[p]
           b == Last(me[p].held)
           s == buf[b].sector
           l == IF Slot(s) > Len(lh) THEN Append(lh, s) ELSE lh
           n == [Idle EXCEPT !.pc = "trans", !.mode = "trans"]
<1>1. /\ m \in ProcRec /\ m.pc = "have" /\ m.mode = "logged" /\ Len(m.held) = 1 /\ owner = p
      /\ Control(m, lh, tail) /\ Contents(m, buf, lh, tail) /\ lh \in Seq(Data)
  BY Zenon, Local DEF log_write_pin, Pin, At
<1>2. /\ lh' = l /\ buf' = [buf EXCEPT ![b].dirty = TRUE, ![b].busy = FALSE]
      /\ lru' = Recent(lru, b) /\ me' = Awake([me EXCEPT ![p] = n], b)
      /\ UNCHANGED <<idequeue, disk, owner, tail, memdisk, panicked, logical>>
  BY Zenon DEF log_write_pin, Pin, Top, Last
<1>3. m.held \in Seq(Buf)
  BY <1>1 DEF ProcRec
<1>4. m.held[1] = b /\ Held(m) = {b} /\ b \in Buf
  BY <1>1, <1>3, HeldElements DEF Held
<1>5. buf \in [Buf -> BufRec] /\ buf[b].valid /\ s \in Data
  BY <1>1, <1>4 DEF CInv, Types, Contents
<1>6. Len(lh) < LOGSIZE /\ tail = 0
  BY <1>1 DEF Control
<1>7. /\ l \in Seq(Data) /\ Len(l) <= LOGSIZE /\ Len(l) \in Nat /\ Len(lh) <= Len(l)
      /\ \A i \in 1 .. Len(lh) : l[i] = lh[i]
      /\ \E i \in 1 .. Len(l) : l[i] = s
  <2>1. l = IF Slot(s) > Len(lh) THEN Append(lh, s) ELSE lh
    OBVIOUS
  <2> HIDE DEF s, l
  <2> QED
    BY <1>1, <1>5, <1>6, <2>1, LoggedList
<1>8. n \in ProcRec /\ n.mode = "trans" /\ n.pc = "trans" /\ n.held = <<>>
  <2>1. Idle \in ProcRec /\ Idle.held = <<>>
    BY DEF Idle, ProcRec
  <2> QED
    BY Zenon, <2>1 DEF ProcRec
<1>9. Held(n) = {} /\ Len(n.held) = 0
  BY <1>8 DEF Held, Range
<1>10. /\ buf' \in [Buf -> BufRec] /\ \A c \in Buf : c # b => buf'[c] = buf[c]
       /\ buf'[b].sector = s /\ buf'[b].valid = buf[b].valid /\ buf'[b].data = buf[b].data
       /\ buf'[b].dirty /\ ~buf'[b].busy
  <2>1. buf' = [buf EXCEPT ![b].dirty = TRUE, ![b].busy = FALSE]
    BY Zenon, <1>2
  <2>2. b \in Buf /\ buf \in [Buf -> BufRec] /\ buf[b] \in BufRec
    BY Zenon, <1>4, <1>5
  <2> HIDE DEF b
  <2>3. buf'[b] = [buf[b] EXCEPT !.dirty = TRUE, !.busy = FALSE] /\ \A c \in Buf : c # b => buf'[c] = buf[c]
    BY <2>1, <2>2
  <2>4. /\ buf'[b] \in BufRec /\ buf'[b].sector = buf[b].sector /\ buf'[b].valid = buf[b].valid
        /\ buf'[b].data = buf[b].data /\ buf'[b].dirty /\ ~buf'[b].busy
    BY Zenon, <2>2, <2>3 DEF BufRec
  <2> QED
    BY <2>1, <2>2, <2>3, <2>4
<1> HIDE DEF n, l, b
<1>11. Control(n, lh', tail')
  BY <1>2, <1>6, <1>8, <1>9 DEF Control
<1>12. Contents(n, buf', lh', tail')
  BY <1>8, <1>9 DEF Contents
<1>13. \A c \in Buf : buf'[c].dirty =>
         \/ Pinned(buf'[c].sector, lh', tail')
         \/ buf[c].dirty /\ (Pinned(buf[c].sector, lh, tail) => Pinned(buf'[c].sector, lh', tail'))
  <2>1. Pinned(buf'[b].sector, lh', tail')
    <3>1. PICK i \in 1 .. Len(l) : l[i] = s
      BY <1>7
    <3>2. tail' <= i
      BY <1>2, <1>6, <1>7
    <3> QED
      BY <3>1, <3>2, <1>2, <1>10 DEF Pinned
  <2>2. \A t : Pinned(t, lh, tail) => Pinned(t, lh', tail')
    <3> SUFFICES ASSUME NEW t, NEW i \in 1 .. Len(lh), lh[i] = t
                 PROVE  Pinned(t, lh', tail')
      BY DEF Pinned
    <3>1. i \in 1 .. Len(l) /\ l[i] = t /\ tail' <= i
      BY <1>1, <1>2, <1>6, <1>7
    <3> QED
      BY <3>1, <1>2 DEF Pinned
  <2> QED
    BY <2>1, <2>2, <1>10
<1>14. /\ owner' \in Proc \cup {None} /\ lh' \in Seq(Data) /\ Len(lh') <= LOGSIZE
       /\ tail' \in 0 .. Len(lh') + 1
  BY <1>1, <1>2, <1>6, <1>7
<1>15. owner' = p /\ p # None /\ \A q \in Proc : q # p => (owner' = q <=> owner = q)
  BY Zenon, <1>1, <1>2, BufCacheAssumption
<1>16. /\ me' = Awake([me EXCEPT ![p] = n], b) /\ lru' = Recent(lru, b)
       /\ UNCHANGED <<idequeue, disk, memdisk, panicked, logical>>
  BY <1>2
<1>17. b \in Held(me[p]) /\ Held(n) = Held(me[p]) \ {b} /\ buf'[me[p].held[1]].dirty /\ me[p].pc = "have"
  BY <1>1, <1>4, <1>9, <1>10
<1>18. n.mode \in {"trans", "logged", "commit", "wrote"}
  BY <1>8
<1>19. owner = p
  BY <1>1
<1> QED
  BY Zenon, <1>5, <1>8, <1>10, <1>11, <1>12, <1>13, <1>14, <1>15, <1>16, <1>17, <1>18, <1>19, ReleaseStep DEF Releases

\* install_trans() gives up the log block and keeps the home block.
LEMMA LogBlockReleased ==
  ASSUME CInv, NEW p \in Proc, commit_brelse(p), Len(me[p].held) = 2
  PROVE  CInv'
<1> DEFINE m == me[p]
           a == me[p].held[2]
           b == me[p].held[1]
           n == [me[p] EXCEPT !.held = <<@[2]>>]
<1>1. /\ m \in ProcRec /\ m.pc = "have" /\ m.mode = "wrote"
      /\ Control(m, lh, tail) /\ Contents(m, buf, lh, tail)
  BY Local DEF commit_brelse, At
<1>2. brelse(p, [me EXCEPT ![p] = n], b) /\ UNCHANGED <<idequeue, disk, log, panicked, logical>>
  BY DEF commit_brelse
<1>3. m.held \in Seq(Buf)
  BY <1>1 DEF ProcRec
<1>5. Held(m) = {a, b} /\ a \in Buf /\ b \in Buf /\ a # b /\ Last(m.held) = a
  BY Zenon, <1>1, <1>3, HeldElements DEF Held, Contents
<1>6. n \in ProcRec /\ n.mode = "wrote" /\ n.pc = "have" /\ n.held = <<a>>
  BY <1>1, <1>5 DEF ProcRec
<1>7. Len(n.held) = 1 /\ n.held[1] = a /\ Last(n.held) = a /\ Held(n) = {a}
  BY <1>5, <1>6 DEF Held, Range, Last
<1> HIDE DEF n
<1>8. buf'[a] = buf[a]
  BY Zenon, <1>2, <1>5 DEF brelse, CInv, Types
<1>9. Control(n, lh, tail)
  BY Zenon, <1>1, <1>6, <1>7 DEF Control
<1>10. Contents(n, buf', lh, tail)
  <2>1. /\ buf[a].busy /\ buf[a].sector \in Sector /\ buf[a].valid /\ ~buf[a].dirty
        /\ tail \in 1 .. Len(lh) => buf[a].sector = lh[tail]
    BY Zenon, <1>1, <1>5 DEF Contents
  <2>2. n.mode = "wrote" /\ n.pc = "have"
    BY <1>6
  <2> HIDE DEF a
  <2> QED
    BY <1>7, <1>8, <2>1, <2>2 DEF Contents
<1>11. ~Changed(m) /\ Held(n) = Held(m) \ {b} /\ b \in Held(m)
  BY Zenon, <1>1, <1>5, <1>7 DEF Changed
<1> HIDE DEF b
<1> QED
  BY Zenon, <1>1, <1>2, <1>6, <1>9, <1>10, <1>11, PlainRelease

\* The commit goes on with t, or is over, when no dirty buffer needs the log
\* any more than before.
LEMMA CommitRelease ==
  ASSUME CInv, NEW p \in Proc, me[p].pc = "have", me[p].mode = "wrote", Len(me[p].held) = 1,
         NEW n \in ProcRec, brelse(p, [me EXCEPT ![p] = n], me[p].held[1]),
         UNCHANGED <<idequeue, disk, memdisk, panicked, logical>>,
         Len(n.held) = 0, n.pc \in {"idle", "bget"},
         owner' = IF n.pc = "idle" THEN None ELSE owner,
         n.mode = IF n.pc = "idle" THEN "none" ELSE "commit",
         lh' \in Seq(Data), Len(lh') <= LOGSIZE, tail' \in 0 .. Len(lh') + 1,
         owner' = None => Len(lh') = 0 /\ tail' = 0,
         Control(n, lh', tail'),
         \A c \in Buf : buf[c].dirty =>
           (Pinned(buf[c].sector, lh, tail) => Pinned(buf[c].sector, lh', tail'))
  PROVE  CInv'
<1> DEFINE m == me[p]
           b == me[p].held[1]
<1>1. m \in ProcRec /\ owner = p
  BY Zenon, Local
<1>2. m.held \in Seq(Buf) /\ n.held \in Seq(Buf)
  BY Zenon, <1>1 DEF ProcRec
<1>3. Held(m) = {b} /\ b \in Buf /\ Held(n) = {}
  BY Zenon, <1>2, HeldElements DEF Held
<1>4. /\ me' = Awake([me EXCEPT ![p] = n], b) /\ lru' = Recent(lru, b)
      /\ buf' = [buf EXCEPT ![b].busy = FALSE]
      /\ UNCHANGED <<idequeue, disk, memdisk, panicked, logical>>
  BY Zenon DEF brelse
<1> HIDE DEF b
<1>5. buf \in [Buf -> BufRec] /\ \A c \in Buf : buf[c].dirty => buf[c].valid
  BY Zenon DEF CInv, Types, CoherenceInv
<1>6. /\ buf' \in [Buf -> BufRec] /\ \A c \in Buf : c # b => buf'[c] = buf[c]
      /\ buf'[b].sector = buf[b].sector /\ buf'[b].valid = buf[b].valid /\ buf'[b].data = buf[b].data
      /\ buf'[b].dirty = buf[b].dirty /\ ~buf'[b].busy
  BY Zenon, <1>3, <1>4, <1>5, Unbusied
<1>7. p # None /\ owner' \in Proc \cup {None} /\ \A q \in Proc : q # p => (owner' = q <=> owner = q)
  BY Zenon, <1>1, BufCacheAssumption
<1>8. owner' = p <=> n.mode \in {"trans", "logged", "commit", "wrote"}
  BY Zenon, <1>1, <1>7
<1>9. Contents(n, buf', lh', tail')
  BY <1>3 DEF Contents
<1>10. ~Changed(m) /\ Held(n) = Held(m) \ {b} /\ b \in Held(m)
  BY Zenon, <1>3 DEF Changed
<1>11. \A c \in Buf : buf'[c].dirty =>
         \/ Pinned(buf'[c].sector, lh', tail')
         \/ buf[c].dirty /\ (Pinned(buf[c].sector, lh, tail) => Pinned(buf'[c].sector, lh', tail'))
  <2>1. \A c \in Buf : buf'[c].dirty => buf[c].dirty /\ buf'[c].sector = buf[c].sector
    BY Zenon, <1>6
  <2> QED
    BY Zenon, <2>1
<1>12. buf'[b].dirty => buf[b].valid
  BY Zenon, <1>3, <1>5, <1>6
<1> QED
  BY ZenonT(30), <1>1, <1>4, <1>6, <1>7, <1>8, <1>9, <1>10, <1>11, <1>12, ReleaseStep DEF Releases

\* commit_trans() gives up what it wrote, and writes the next block.
LEMMA CommitBrelseStep ==
  ASSUME CInv, NEW p \in Proc, commit_brelse(p)
  PROVE  CInv'
<1> DEFINE m == me[p]
           b == me[p].held[1]
           next == IF tail < Len(lh) THEN tail + 1 ELSE Head0
           n == [Wants(p, next) EXCEPT !.mode = "commit", !.held = <<>>]
<1>1. /\ m \in ProcRec /\ m.pc = "have" /\ m.mode = "wrote" /\ owner = p
      /\ Control(m, lh, tail) /\ Contents(m, buf, lh, tail)
      /\ lh \in Seq(Data) /\ Len(lh) \in Nat /\ Len(lh) <= LOGSIZE /\ tail \in 0 .. Len(lh) + 1
  BY Zenon, Local DEF commit_brelse, At
<1>2. UNCHANGED <<idequeue, disk, panicked, logical>>
  BY DEF commit_brelse
<1>3. m.held \in Seq(Buf)
  BY <1>1 DEF ProcRec
<1>4. CASE Len(m.held) = 2
  BY <1>4, LogBlockReleased
<1>5. ASSUME Len(m.held) # 2 PROVE Len(m.held) = 1
  BY <1>1, <1>5 DEF Control
<1>6. CASE Len(m.held) # 2 /\ tail = Len(lh) + 1
  <2>1. /\ brelse(p, [me EXCEPT ![p] = Idle], b)
        /\ owner' = None /\ lh' = <<>> /\ tail' = 0 /\ UNCHANGED memdisk
    BY <1>6 DEF commit_brelse
  <2>2. Idle \in ProcRec /\ Idle.mode = "none" /\ Idle.pc = "idle" /\ Idle.held = <<>>
    BY DEF Idle, ProcRec
  <2>3. Len(Idle.held) = 0
    BY <2>2
  <2>4. lh' \in Seq(Data) /\ Len(lh') = 0 /\ Len(lh') <= LOGSIZE /\ tail' \in 0 .. Len(lh') + 1
    BY <2>1, BufCacheAssumption
  <2>5. Control(Idle, lh', tail')
    BY <2>2, <2>3 DEF Control
  <2>6. \A s : ~Pinned(s, lh, tail)
    BY <1>1, <1>6 DEF Pinned
  <2>7. Len(m.held) = 1
    BY <1>5, <1>6
  <2> HIDE DEF b
  <2> QED
    BY Zenon, <1>1, <1>2, <2>1, <2>2, <2>3, <2>4, <2>5, <2>6, <2>7, CommitRelease DEF b
<1>7. CASE Len(m.held) # 2 /\ tail # Len(lh) + 1
  <2>1. /\ brelse(p, [me EXCEPT ![p] = n], b)
        /\ tail' = tail + 1 /\ UNCHANGED <<owner, lh, memdisk>>
    BY <1>7 DEF commit_brelse
  <2>2. next \in Sector
    BY <1>1, BufCacheAssumption DEF Sector, LogSector, Head0
  <2>3. n \in ProcRec /\ n.pc = "bget" /\ n.mode = "commit" /\ n.want = next /\ n.held = <<>>
    <3> HIDE DEF next
    <3>1. Wants(p, next) \in ProcRec /\ Wants(p, next).pc = "bget" /\ Wants(p, next).want = next
      BY Zenon, <1>1, <2>2 DEF Wants, ProcRec
    <3>2. <<>> \in Seq(Buf)
      OBVIOUS
    <3> QED
      BY Zenon, <3>1, <3>2 DEF ProcRec
  <2>4. Len(n.held) = 0
    BY <2>3
  <2> HIDE DEF n, next
  <2>5. lh' \in Seq(Data) /\ Len(lh') <= LOGSIZE /\ tail' \in 0 .. Len(lh') + 1
    BY <1>1, <1>7, <2>1
  <2>6. Control(n, lh', tail')
    <3>1. Len(lh') > 0
      BY Zenon, <1>1, <2>1 DEF Control
    <3> QED
      BY <2>2, <2>3, <2>4, <3>1 DEF Control
  <2>7. Len(m.held) = 1
    BY <1>5, <1>7
  <2>8. ASSUME NEW c \in Buf, buf[c].dirty, Pinned(buf[c].sector, lh, tail)
        PROVE  Pinned(buf[c].sector, lh', tail')
    <3>1. PICK i \in 1 .. Len(lh) : tail <= i /\ buf[c].sector = lh[i]
      BY <2>8 DEF Pinned
    <3>2. CASE i = tail
      <4>1. b \in Buf /\ Last(m.held) = b
        BY <1>3, <2>7, HeldElements
      <4>2. ~buf[b].dirty /\ buf[b].sector = lh[tail]
        BY Zenon, <1>1, <3>1, <3>2, <4>1 DEF Contents
      <4>3. buf[c].sector \in Data /\ buf[c].sector # None
        BY <1>1, <3>1, BufCacheAssumption
      <4>4. c = b
        BY Zenon, <3>1, <3>2, <4>1, <4>2, <4>3 DEF CInv, SectorInv
      <4> QED
        BY Zenon, <2>8, <4>2, <4>4
    <3>3. CASE i # tail
      <4>1. tail' <= i
        BY <1>1, <2>1, <3>1, <3>3
      <4> QED
        BY <2>1, <3>1, <4>1 DEF Pinned
    <3> QED
      BY <3>2, <3>3
  <2>9. owner' = owner /\ owner' # None
    BY <1>1, <2>1, BufCacheAssumption
  <2> HIDE DEF b
  <2>10. UNCHANGED <<idequeue, disk, memdisk, panicked, logical>>
    BY <1>2, <2>1
  <2> QED
    BY Zenon, <1>1, <2>1, <2>3, <2>4, <2>5, <2>6, <2>7, <2>8, <2>9, <2>10, CommitRelease DEF b
<1> QED
  BY Zenon, <1>4, <1>6, <1>7

-----------------------------------------------------------------------------
(* CInv is inductive.                                                      *)

\* b_init() links every buffer into the list, once.
LEMMA ListOfBuffers ==
  ASSUME Init
  PROVE  lru \in Seq(Buf) /\ Range(lru) = Buf /\ Len(lru) = Cardinality(Buf)
<1> DEFINE c == Cardinality(Buf)
<1>1. c \in Nat /\ ExistsBijection(1 .. c, Buf)
  BY BufCacheAssumption, FS_CardinalityType
<1>2. lru \in Bijection(1 .. c, Buf)
  BY <1>1 DEF ExistsBijection, Init
<1>3. lru \in [1 .. c -> Buf] /\ \A b \in Buf : \E i \in 1 .. c : lru[i] = b
  BY <1>2 DEF Bijection, Injection, Surjection
<1> HIDE DEF c
<1>4. lru \in Seq(Buf) /\ Len(lru) = c
  BY <1>1, <1>3
<1>5. Range(lru) = Buf
  BY <1>3 DEF Range
<1> QED
  BY <1>4, <1>5 DEF c

\* CInv holds when b_init() is done.
LEMMA InitCInv ==
  ASSUME Init
  PROVE  CInv
<1>1. Idle \in ProcRec /\ Idle.mode = "none" /\ Idle.pc = "idle" /\ Idle.held = <<>>
  BY DEF Idle, ProcRec
<1>2. Len(Idle.held) = 0 /\ Held(Idle) = {}
  BY <1>1 DEF Held, Range
<1>3. /\ Fresh(None) \in BufRec /\ Fresh(None).sector = None
      /\ ~Fresh(None).busy /\ ~Fresh(None).valid /\ ~Fresh(None).dirty
  BY BufCacheAssumption DEF Fresh, BufRec
<1>4. buf \in [Buf -> BufRec] /\ \A b \in Buf : buf[b] = Fresh(None)
  BY <1>3 DEF Init
<1>5. me \in [Proc -> ProcRec] /\ \A p \in Proc : me[p] = Idle
  BY <1>1 DEF Init
<1>6. /\ idequeue = <<>> /\ lh = <<>> /\ tail = 0 /\ owner = None /\ Len(lh) = 0 /\ Len(idequeue) = 0
      /\ disk \in [Sector -> Value] /\ logical = disk
  BY BufCacheAssumption DEF Init
<1>7. Types
  <2>1. lru \in Seq(Buf) /\ Range(lru) = Buf /\ Len(lru) = Cardinality(Buf)
    BY Zenon, ListOfBuffers
  <2>2. idequeue \in Seq(Buf) /\ lh \in Seq(Data) /\ Len(lh) <= LOGSIZE /\ tail \in 0 .. Len(lh) + 1
    BY <1>6, BufCacheAssumption
  <2>3. memdisk \in BOOLEAN /\ panicked \in BOOLEAN /\ owner \in Proc \cup {None}
    BY Zenon DEF Init
  <2> QED
    BY <1>4, <1>5, <1>6, <2>1, <2>2, <2>3 DEF Types
<1>8. ProcInv
  <2>1. Control(Idle, lh, tail)
    BY Zenon, <1>1, <1>2 DEF Control
  <2>2. Contents(Idle, buf, lh, tail)
    BY <1>1, <1>2 DEF Contents
  <2> QED
    BY <1>5, <2>1, <2>2 DEF ProcInv
<1>9. HolderInv /\ SectorInv
  BY <1>2, <1>3, <1>4, <1>5 DEF HolderInv, SectorInv
<1>10. OwnerInv
  BY Zenon, <1>1, <1>5, <1>6, BufCacheAssumption DEF OwnerInv
<1>11. CoherenceInv /\ DirtyInv
  BY Zenon, <1>3, <1>4, <1>6 DEF CoherenceInv, DirtyInv
<1>12. QueueInv
  BY <1>6 DEF QueueInv
<1> QED
  BY Zenon, <1>7, <1>8, <1>9, <1>10, <1>11, <1>12 DEF CInv

\* Every step of the buffer cache, the disk and their users keeps CInv.
LEMMA CInvStep ==
  ASSUME CInv, [Next]_vars
  PROVE  CInv'
<1>1. CASE UNCHANGED vars
  <2>1. (Types /\ ProcInv /\ HolderInv)'
    BY Zenon, <1>1 DEF vars, CInv, Types, ProcInv, HolderInv
  <2>2. (SectorInv /\ OwnerInv /\ QueueInv)'
    BY <1>1 DEF vars, CInv, SectorInv, OwnerInv, QueueInv
  <2>3. (CoherenceInv /\ DirtyInv)'
    BY <1>1 DEF vars, CInv, CoherenceInv, Ahead, DirtyInv
  <2> QED
    BY <2>1, <2>2, <2>3 DEF CInv
<1>2. CASE ideintr
  BY <1>2, IdeintrStep
<1>3. ASSUME NEW p \in Proc, Step(p)
      PROVE  CInv'
  BY Zenon, <1>3, BgetStep, IderwStep, IderwWaitStep, ReadDoneStep, LogWriteStep, BwriteStep, LoggedStep,
     PinStep, InstallStep, CommitBrelseStep DEF Step
<1>4. ASSUME NEW p \in Proc, read(p) \/ begin_trans(p) \/ trans_bread(p) \/ commit_trans(p)
      PROVE  CInv'
  BY <1>4, ReadStep, BeginStep, TransBreadStep, CommitStep
<1> QED
  BY <1>1, <1>2, <1>3, <1>4 DEF Next

\* CInv is an invariant of the buffer cache.
THEOREM CInvHolds == Spec => []CInv
<1>1. Init => CInv
  BY InitCInv
<1>2. CInv /\ [Next]_vars => CInv'
  BY CInvStep
<1> QED
  BY <1>1, <1>2, PTL DEF Spec
-----------------------------------------------------------------------------
(* What CInv says of a read and of a commit.                               *)

\* bread() returns the last contents given to the sector.
LEMMA CInvReadsLatest == CInv => ReadsLatest
<1> SUFFICES ASSUME CInv, NEW p \in Proc, me[p].pc = "have"
             PROVE  buf[Top(p)].valid /\ buf[Top(p)].data = logical[buf[Top(p)].sector]
  BY DEF ReadsLatest
<1>1. me[p] \in ProcRec /\ Control(me[p], lh, tail) /\ Contents(me[p], buf, lh, tail)
  BY Local
<1>2. Len(me[p].held) \in {1, 2}
  BY <1>1, TopHeld
<1>3. Top(p) \in Buf
  <2>1. \A k \in {1, 2} : k > 0
    OBVIOUS
  <2>2. Len(me[p].held) > 0
    BY Zenon, <1>2, <2>1
  <2> QED
    BY <1>1, <2>2, TopHeld DEF Top, Last
<1>4. buf[Top(p)].valid
  BY Zenon, <1>1 DEF Contents, Top, Last
<1> QED
  BY <1>3, <1>4 DEF CInv, CoherenceInv

\* Every process that gets a block from bread(), as a reader, in a transaction
\* or in its commit, sees what was last written to it, whether the disk, a
\* clean buffer or a buffer pinned by the log has it.
THEOREM ReadsLatestHolds == Spec => []ReadsLatest
BY CInvHolds, CInvReadsLatest, PTL

\* With no transaction open nothing is pinned, so nothing is ahead of the disk.
LEMMA CInvCommittedOnDisk == CInv => CommittedOnDisk
<1> SUFFICES ASSUME CInv, owner = None
             PROVE  /\ \A s \in Data : disk[s] = logical[s]
                    /\ \A b \in Buf : buf[b].dirty => buf[b].busy
  BY DEF CommittedOnDisk
<1>1. \A p \in Proc : me[p].mode \notin {"trans", "logged", "commit", "wrote"}
  BY BufCacheAssumption DEF CInv, OwnerInv
<1>2. \A p \in Proc : ~Changed(me[p]) /\ \A b : ~Writing(me[p], b)
  BY <1>1 DEF Changed, Writing
<1>3. \A b \in Buf : ~buf[b].dirty
  <2>1. Len(lh) = 0
    BY DEF CInv, OwnerInv
  <2>2. \A s : ~Pinned(s, lh, tail)
    BY <2>1 DEF Pinned
  <2> QED
    BY Zenon, <1>2, <2>2 DEF CInv, DirtyInv
<1>4. Ahead(buf, me) = {}
  BY <1>2, <1>3 DEF Ahead
<1>5. \A s \in Sector : disk[s] = logical[s]
  BY Zenon, <1>4 DEF CInv, CoherenceInv
<1> QED
  BY <1>3, <1>5 DEF Sector

\* When commit_trans() is over, and before any transaction begins, the disk has
\* the last contents of every block and no buffer is left pinned.
THEOREM CommittedOnDiskHolds == Spec => []CommittedOnDisk
BY CInvHolds, CInvCommittedOnDisk, PTL

\* But for the panic of bget(), CInv is all of OneBufferPerSector.
LEMMA CInvOneBuffer ==
  ASSUME CInv, ~panicked
  PROVE  OneBufferPerSector
<1>1. TypeOK
  <2>1. Range(idequeue) \subseteq Buf /\ Range(lh) \subseteq Data
    BY DEF CInv, Types, Range
  <2>2. tail \in 0 .. LOGSIZE + 1
    <3>1. Len(lh) \in Nat /\ Len(lh) <= LOGSIZE /\ tail \in 0 .. Len(lh) + 1
      BY DEF CInv, Types
    <3> QED
      BY <3>1, BufCacheAssumption
  <2>3. ASSUME NEW p \in Proc
        PROVE  /\ me[p].want \in Sector \cup {None} /\ me[p].asleep \in Buf \cup {None}
               /\ Len(me[p].held) <= 2
    <3>1. me[p] \in ProcRec /\ Len(me[p].held) \in {0, 1, 2}
      BY Local, TopHeld
    <3>2. \A k \in {0, 1, 2} : k <= 2
      OBVIOUS
    <3>3. Len(me[p].held) <= 2
      BY Zenon, <3>1, <3>2
    <3> QED
      BY Zenon, <3>1, <3>3 DEF ProcRec
  <2> QED
    BY Zenon, <2>1, <2>2, <2>3 DEF TypeOK, CInv, Types, BufRec
<1>2. \A b, c \in Buf : buf[b].sector = buf[c].sector /\ buf[b].sector # None => b = c
  BY DEF CInv, SectorInv
<1>3. ASSUME NEW b \in Buf
      PROVE  Cardinality({p \in Proc : b \in Range(me[p].held)}) = IF buf[b].busy THEN 1 ELSE 0
  <2> DEFINE P == {p \in Proc : b \in Range(me[p].held)}
  <2>1. CASE buf[b].busy
    <3>1. PICK p \in Proc : b \in Held(me[p])
      BY Zenon, <2>1 DEF CInv, HolderInv
    <3>2. \A q \in Proc : b \in Held(me[q]) => q = p
      BY Zenon, <3>1 DEF CInv, HolderInv
    <3>3. P = {p}
      BY <3>1, <3>2 DEF Held
    <3> HIDE DEF P
    <3> QED
      BY Zenon, <2>1, <3>3, FS_Singleton DEF P
  <2>2. CASE ~buf[b].busy
    <3>1. P = {}
      BY <2>2, HeldBusy DEF Held
    <3> HIDE DEF P
    <3> QED
      BY Zenon, <2>2, <3>1, FS_EmptySet DEF P
  <2> QED
    BY <2>1, <2>2
<1> QED
  BY Zenon, <1>1, <1>2, <1>3 DEF OneBufferPerSector

\* However few buffers there are: until bget() panics no sector is cached twice
\* and a B_BUSY buffer has exactly one holder.
THEOREM OneBufferUnlessPanic == Spec => [](panicked \/ OneBufferPerSector)
<1>1. CInv => panicked \/ OneBufferPerSector
  BY CInvOneBuffer
<1> QED
  BY <1>1, CInvHolds, PTL
-----------------------------------------------------------------------------
(* How many buffers bget() needs.                                          *)

\* A buffer for every block of the log and one more for every process.
EnoughBuffers == IsFiniteSet(Proc) /\ LOGSIZE + Cardinality(Proc) <= Cardinality(Buf)

InLog(b) == \E i \in 1 .. Len(lh) : lh[i] = buf[b].sector
\* The block b that q changes; it has a place in the log, or gets the next one.
Home(q, b) == me[q].mode \in {"trans", "logged"} /\ Len(me[q].held) > 0 /\ b = me[q].held[1]
LogUse == {b \in Buf : InLog(b) \/ \E q \in Proc : Home(q, b)}

\* The index of a sector in log.lh.
LEMMA SlotOf ==
  ASSUME lh \in Seq(Data), NEW b
  PROVE  /\ InLog(b) => Slot(buf[b].sector) \in 1 .. Len(lh) /\ lh[Slot(buf[b].sector)] = buf[b].sector
         /\ ~InLog(b) => Slot(buf[b].sector) = Len(lh) + 1
<1>1. CASE InLog(b)
  BY Zenon, <1>1 DEF InLog, Slot
<1>2. CASE ~InLog(b)
  BY <1>2 DEF InLog, Slot
<1> QED
  BY Zenon, <1>1, <1>2

\* The blocks of a transaction have different places in the log, and fit in it.
LEMMA LogUseSlots ==
  ASSUME CInv
  PROVE  /\ \A b \in LogUse : Slot(buf[b].sector) \in 1 .. LOGSIZE
         /\ \A b, c \in LogUse : Slot(buf[b].sector) = Slot(buf[c].sector) => b = c
<1>1. lh \in Seq(Data) /\ Len(lh) \in Nat /\ Len(lh) <= LOGSIZE /\ LOGSIZE \in Nat
  BY BufCacheAssumption DEF CInv, Types
<1>2. ASSUME NEW q \in Proc, NEW b, Home(q, b)
      PROVE  owner = q /\ Len(lh) < LOGSIZE
  <2>1. Control(me[q], lh, tail) /\ owner = q
    BY <1>2, Local DEF Home
  <2>2. me[q].pc # "trans"
    BY <1>2, <2>1 DEF Home, Control
  <2> QED
    BY Zenon, <1>2, <2>1, <2>2 DEF Home, Control
<1>3. ASSUME NEW b \in LogUse
      PROVE  Slot(buf[b].sector) \in 1 .. LOGSIZE
  <2>1. CASE InLog(b)
    <3>1. Slot(buf[b].sector) \in 1 .. Len(lh)
      BY <1>1, <2>1, SlotOf
    <3> QED
      BY <1>1, <3>1
  <2>2. CASE ~InLog(b)
    <3>1. PICK q \in Proc : Home(q, b)
      BY <2>2 DEF LogUse
    <3>2. Len(lh) < LOGSIZE
      BY <1>2, <3>1
    <3>3. Slot(buf[b].sector) = Len(lh) + 1
      BY <1>1, <2>2, SlotOf
    <3> QED
      BY <1>1, <3>2, <3>3
  <2> QED
    BY <2>1, <2>2
<1>4. ASSUME NEW b \in LogUse, NEW c \in LogUse, Slot(buf[b].sector) = Slot(buf[c].sector)
      PROVE  b = c
  <2>1. CASE InLog(b) /\ InLog(c)
    <3>1. buf[b].sector = buf[c].sector /\ buf[b].sector \in Data
      BY <1>1, <1>4, <2>1, SlotOf
    <3> QED
      BY Zenon, <3>1, BufCacheAssumption DEF CInv, SectorInv, LogUse
  <2>2. CASE ~InLog(b) /\ ~InLog(c)
    <3>1. PICK q \in Proc : Home(q, b)
      BY <2>2 DEF LogUse
    <3>2. PICK r \in Proc : Home(r, c)
      BY <2>2 DEF LogUse
    <3>3. q = r
      BY <3>1, <3>2, <1>2
    <3> QED
      BY Zenon, <3>1, <3>2, <3>3 DEF Home
  <2>3. InLog(b) <=> InLog(c)
    <3>1. \A k \in 1 .. Len(lh) : k # Len(lh) + 1
      BY <1>1
    <3> QED
      BY <1>1, <1>4, <3>1, SlotOf
  <2> QED
    BY <2>1, <2>2, <2>3
<1> QED
  BY <1>3, <1>4

\* Every other buffer in use is held, and no process holds two of them.
LEMMA OthersHeld ==
  ASSUME CInv
  PROVE  /\ \A b \in Buf \ LogUse : buf[b].busy \/ buf[b].dirty => \E q \in Proc : b \in Held(me[q])
         /\ \A q \in Proc : \A b, c \in Held(me[q]) \ LogUse : b = c
<1>1. ASSUME NEW b \in Buf \ LogUse, buf[b].busy \/ buf[b].dirty
      PROVE  \E q \in Proc : b \in Held(me[q])
  <2>1. CASE buf[b].busy
    BY <2>1 DEF CInv, HolderInv
  <2>2. CASE buf[b].dirty
    <3>1. ~Pinned(buf[b].sector, lh, tail)
      BY DEF Pinned, LogUse, InLog
    <3>2. PICK q \in Proc : Writing(me[q], b)
      BY Zenon, <2>2, <3>1 DEF CInv, DirtyInv
    <3>3. Len(me[q].held) \in {1, 2} /\ me[q] \in ProcRec /\ Control(me[q], lh, tail)
      BY Zenon, <3>2, Local, TopHeld DEF Writing, Waiting
    <3>4. \A k \in {1, 2} : k > 0
      OBVIOUS
    <3>5. Last(me[q].held) \in Held(me[q])
      BY Zenon, <3>3, <3>4, TopHeld
    <3> QED
      BY <3>2, <3>5 DEF Writing
  <2> QED
    BY <1>1, <2>1, <2>2
<1>2. ASSUME NEW q \in Proc, NEW b \in Held(me[q]) \ LogUse, NEW c \in Held(me[q]) \ LogUse
      PROVE  b = c
  <2> DEFINE m == me[q]
  <2>1. m \in ProcRec /\ Control(m, lh, tail) /\ Contents(m, buf, lh, tail)
    BY Local
  <2>2. m.held \in Seq(Buf) /\ Len(m.held) \in {0, 1, 2} /\ Held(m) \subseteq Buf
    BY Zenon, <2>1, TopHeld
  <2>3. CASE Len(m.held) \in {0, 1}
    BY <2>2, <2>3, HeldElements DEF Held
  <2>4. CASE Len(m.held) = 2
    <3>1. Held(m) = {m.held[1], m.held[2]} /\ Last(m.held) = m.held[2] /\ m.held[1] \in Buf /\ m.held[2] \in Buf
      BY Zenon, <2>2, <2>4, HeldElements DEF Held
    <3>2. m.mode \in {"trans", "logged", "commit", "wrote"}
      <4>1. m.pc # "idle" /\ m.mode # "read"
        BY <2>1, <2>4 DEF Control
      <4>2. m.mode \in {"none", "read", "trans", "logged", "commit", "wrote"}
        BY Zenon, <2>1 DEF ProcRec
      <4> QED
        BY Zenon, <2>1, <4>1, <4>2 DEF Control
    <3>3. CASE m.mode \in {"trans", "logged"}
      <4>1. Home(q, m.held[1])
        BY <2>4, <3>3 DEF Home
      <4>2. m.held[1] \in LogUse
        BY Zenon, <3>1, <4>1 DEF LogUse
      <4> QED
        BY Zenon, <3>1, <4>2
    <3>4. CASE m.mode \in {"commit", "wrote"}
      <4>1. tail \in 1 .. Len(lh)
        BY Zenon, <2>1, <2>4, <3>4 DEF Control
      <4>2. m.pc # "bget"
        BY <2>1, <2>4 DEF Control
      <4>3. buf[Last(m.held)].sector = lh[tail]
        BY Zenon, <2>1, <2>4, <3>4, <4>1, <4>2 DEF Contents
      <4>4. m.held[2] \in LogUse
        BY Zenon, <3>1, <4>1, <4>3 DEF LogUse, InLog
      <4> QED
        BY Zenon, <3>1, <4>4
    <3> QED
      BY Zenon, <3>2, <3>3, <3>4
  <2> QED
    BY <2>2, <2>3, <2>4
<1> QED
  BY <1>1, <1>2
\* If every buffer is in use then they are no more than the places S of the log
\* that a buffer has and the processes Q that hold a buffer without one.
LEMMA InUseBound ==
  ASSUME CInv, IsFiniteSet(Proc), \A b \in Buf : buf[b].busy \/ buf[b].dirty,
         NEW S \in SUBSET (1 .. LOGSIZE), \A b \in LogUse : Slot(buf[b].sector) \in S,
         NEW Q \in SUBSET Proc, \A q \in Proc : Held(me[q]) \ LogUse # {} => q \in Q
  PROVE  Cardinality(Buf) <= Cardinality(S) + Cardinality(Q)
<1> DEFINE A == LogUse
           B == Buf \ LogUse
           f == [b \in A |-> Slot(buf[b].sector)]
           g == [b \in B |-> CHOOSE q \in Proc : b \in Held(me[q])]
<1>1. IsFiniteSet(S) /\ IsFiniteSet(Q)
  <2>1. 1 \in Int /\ LOGSIZE \in Int
    BY BufCacheAssumption
  <2>2. IsFiniteSet(1 .. LOGSIZE)
    BY <2>1, FS_Interval
  <2> QED
    BY Zenon, <2>2, FS_Subset
<1>2. f \in Injection(A, S)
  BY LogUseSlots DEF Injection, IsInjective
<1>3. g \in Injection(B, Q)
  <2>1. ASSUME NEW b \in B
        PROVE  g[b] \in Proc /\ b \in Held(me[g[b]])
    BY OthersHeld
  <2>2. g = [b \in B |-> g[b]]
    OBVIOUS
  <2> HIDE DEF g
  <2>3. g \in [B -> Q]
    <3>1. \A b \in B : g[b] \in Q
      BY <2>1
    <3> QED
      BY <2>2, <3>1
  <2>4. ASSUME NEW b \in B, NEW c \in B, g[b] = g[c]
        PROVE  b = c
    BY <2>1, <2>4, OthersHeld
  <2> QED
    BY <2>3, <2>4 DEF Injection, IsInjective
<1>4. A \cup B = Buf /\ A \cap B = {}
  BY Zenon DEF LogUse
<1> HIDE DEF A, B, f, g
<1>5. IsFiniteSet(A) /\ Cardinality(A) <= Cardinality(S)
  BY Zenon, <1>1, <1>2, FS_Injection
<1>6. IsFiniteSet(B) /\ Cardinality(B) <= Cardinality(Q)
  BY <1>1, <1>3, FS_Injection
<1>7. Cardinality(Buf) = Cardinality(A) + Cardinality(B)
  <2>1. Cardinality(A \cup B) = Cardinality(A) + Cardinality(B) - Cardinality(A \cap B)
    BY Zenon, <1>5, <1>6, FS_Union
  <2>2. Cardinality(A \cap B) = 0 /\ Cardinality(A) \in Nat /\ Cardinality(B) \in Nat
    BY Zenon, <1>4, <1>5, <1>6, FS_EmptySet, FS_CardinalityType
  <2>3. Cardinality(A \cup B) = Cardinality(Buf)
    BY Zenon, <1>4
  <2> QED
    BY <2>1, <2>2, <2>3
<1>8. /\ Cardinality(A) \in Nat /\ Cardinality(B) \in Nat
      /\ Cardinality(S) \in Nat /\ Cardinality(Q) \in Nat
  BY <1>1, <1>5, <1>6, FS_CardinalityType
<1> QED
  BY <1>5, <1>6, <1>7, <1>8

\* With enough of them bget() finds a buffer to recycle: the process that looks
\* holds none without a place in the log or, when it looks for the home block
\* of a block of the log, no buffer has the place of that one.
LEMMA BgetFinds ==
  ASSUME CInv, EnoughBuffers, NEW p \in Proc, me[p].pc = "bget", Cached(me[p].want) = {}
  PROVE  \E b \in Buf : ~buf[b].busy /\ ~buf[b].dirty
<1> SUFFICES ASSUME \A b \in Buf : buf[b].busy \/ buf[b].dirty
             PROVE  FALSE
  OBVIOUS
<1> DEFINE m == me[p]
           S == 1 .. LOGSIZE
<1>1. /\ IsFiniteSet(Proc) /\ LOGSIZE \in Nat /\ LOGSIZE + Cardinality(Proc) <= Cardinality(Buf)
      /\ IsFiniteSet(S) /\ Cardinality(S) = LOGSIZE
      /\ Cardinality(Proc) \in Nat /\ Cardinality(Buf) \in Nat
  BY BufCacheAssumption, FS_Interval, FS_CardinalityType DEF EnoughBuffers
<1>2. m \in ProcRec /\ Control(m, lh, tail) /\ lh \in Seq(Data) /\ Len(lh) \in Nat /\ Len(lh) <= LOGSIZE
  BY Local
<1>3. Len(m.held) \in {0, 1} /\ m.held \in Seq(Buf) /\ m.mode \in {"read", "trans", "commit"}
  BY Zenon, <1>2 DEF Control, ProcRec
<1>4. \A b \in LogUse : Slot(buf[b].sector) \in S
  BY LogUseSlots
<1>5. CASE m.mode = "commit" /\ Len(m.held) = 1
  <2>1. tail \in 1 .. Len(lh) /\ m.want = lh[tail]
    BY <1>2, <1>5 DEF Control
  <2>2. ASSUME NEW b \in LogUse
        PROVE  Slot(buf[b].sector) # tail
    <3>1. b \in Buf /\ buf[b].sector # lh[tail]
      BY <2>1 DEF Cached, LogUse
    <3>2. CASE InLog(b)
      BY <1>2, <3>1, <3>2, SlotOf
    <3>3. CASE ~InLog(b)
      <4>1. Slot(buf[b].sector) = Len(lh) + 1
        BY Zenon, <1>2, <3>3, SlotOf
      <4> QED
        BY <1>2, <2>1, <4>1
    <3> QED
      BY <3>2, <3>3
  <2>3. tail \in S
    BY <1>1, <1>2, <2>1
  <2>4. Cardinality(S \ {tail}) = LOGSIZE - 1
    BY ZenonT(30), <1>1, <2>3, FS_RemoveElement
  <2>5. Cardinality(Buf) <= Cardinality(S \ {tail}) + Cardinality(Proc)
    <3>1. \A b \in LogUse : Slot(buf[b].sector) \in S \ {tail}
      BY Zenon, <1>4, <2>2
    <3> QED
      BY Zenon, <1>1, <3>1, InUseBound
  <2> QED
    BY <1>1, <2>4, <2>5
<1>6. CASE ~(m.mode = "commit" /\ Len(m.held) = 1)
  <2>1. Held(m) \ LogUse = {}
    <3>1. CASE Len(m.held) = 0
      BY Zenon, <1>3, <3>1, HeldElements DEF Held
    <3>2. CASE Len(m.held) = 1
      <4>1. m.mode = "trans"
        <5>1. m.mode # "read"
          BY <1>2, <3>2 DEF Control
        <5> QED
          BY Zenon, <1>3, <1>6, <3>2, <5>1
      <4>2. Held(m) = {m.held[1]} /\ m.held[1] \in Buf
        BY Zenon, <1>3, <3>2, HeldElements DEF Held
      <4>3. Home(p, m.held[1])
        BY <3>2, <4>1 DEF Home
      <4> QED
        BY Zenon, <4>2, <4>3 DEF LogUse
    <3> QED
      BY Zenon, <1>3, <3>1, <3>2
  <2>2. Cardinality(Proc \ {p}) = Cardinality(Proc) - 1
    BY Zenon, <1>1, FS_RemoveElement
  <2>3. Cardinality(Buf) <= Cardinality(S) + Cardinality(Proc \ {p})
    <3>1. \A q \in Proc : Held(me[q]) \ LogUse # {} => q \in Proc \ {p}
      BY Zenon, <2>1
    <3> QED
      BY Zenon, <1>1, <1>4, <3>1, InUseBound
  <2> QED
    BY <1>1, <2>2, <2>3
<1> QED
  BY <1>5, <1>6

\* bget() does not panic.
LEMMA NoPanicStep ==
  ASSUME CInv, EnoughBuffers, ~panicked, [Next]_vars
  PROVE  ~panicked'
<1>1. ASSUME NEW p \in Proc, bget(p)
      PROVE  ~panicked'
  <2>1. ASSUME Cached(me[p].want) = {}
        PROVE  Reusable # {}
    <3>1. me[p].pc = "bget"
      BY <1>1 DEF bget, Look, At
    <3>2. PICK b \in Buf : ~buf[b].busy /\ ~buf[b].dirty
      BY <2>1, <3>1, BgetFinds
    <3>3. b \in Range(lru) /\ lru \in Seq(Buf)
      BY DEF CInv, Types
    <3>4. PICK i \in 1 .. Len(lru) : lru[i] = b
      BY <3>3 DEF Range
    <3> QED
      BY <3>2, <3>4 DEF Reusable
  <2> QED
    BY Zenon, <1>1, <2>1 DEF bget, Look, Take
<1>2. ASSUME NEW p \in Proc, Step(p), ~bget(p)
      PROVE  ~panicked'
  BY Zenon, <1>2 DEF Step, iderw, iderw_wait, read_done, log_write, bwrite, log_write_logged, log_write_pin, Pin,
              install_trans, commit_brelse
<1>3. ASSUME NEW p \in Proc, read(p) \/ begin_trans(p) \/ trans_bread(p) \/ commit_trans(p)
      PROVE  ~panicked'
  BY <1>3 DEF read, begin_trans, trans_bread, commit_trans
<1>4. ideintr \/ UNCHANGED vars => ~panicked'
  BY DEF ideintr, vars
<1> QED
  BY <1>1, <1>2, <1>3, <1>4 DEF Next

\* With LOGSIZE buffers and one more for every process bget() always returns a
\* buffer: it never runs out of them, no sector is cached twice and a B_BUSY
\* buffer has exactly one holder.
THEOREM OneBufferPerSectorHolds ==
  ASSUME EnoughBuffers
  PROVE  Spec => []OneBufferPerSector
<1>1. Init => ~panicked
  BY DEF Init
<1>2. CInv /\ ~panicked /\ [Next]_vars => ~panicked'
  BY NoPanicStep
<1>3. CInv /\ ~panicked => OneBufferPerSector
  BY CInvOneBuffer
<1> QED
  BY <1>1, <1>2, <1>3, CInvHolds, PTL DEF Spec

=============================================================================
