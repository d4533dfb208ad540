------------------------------ MODULE BufCache ------------------------------
(***************************************************************************)
(* The buffer cache of bio.c on the disk driver of ide.c or memide.c, used *)
(* as the kernel uses it: readers hold one buffer at a time, and the one   *)
(* transaction of log.c pins the buffers it changes (log_write) and writes *)
(* them back when it commits (install_trans).  Crashes are in Log; here    *)
(* the question is who holds which buffer.                                 *)
(*                                                                         *)
(* One action is one critical section of bcache.lock or idelock, or code   *)
(* that only touches buffers the process holds.                            *)
(***************************************************************************)
EXTENDS Integers, Sequences, FiniteSets, Functions

CONSTANTS
  Proc,
  Writer,         \* bound: the processes that change files
  Buf,            \* bcache.buf, NBUF of them
  Data,           \* the sectors that hold file system blocks
  LOGSIZE,
  Value,          \* contents of a sector
  Zero,           \* what the disk holds at first
  None

ASSUME BufCacheAssumption ==
  /\ IsFiniteSet(Buf)
  /\ LOGSIZE \in Nat
  /\ Zero \in Value
  /\ None \notin Proc \cup Buf \cup Data \cup 0 .. LOGSIZE

Head0 == 0                              \* log.start: the header
LogSector == 0 .. LOGSIZE
Sector == Data \cup LogSector

VARIABLES
  buf,            \* sector, flags and data of each buffer
  lru,            \* the list from bcache.head.next on
  idequeue,       \* requests to the disk, the active one first
  disk,
  me,             \* the local state of each process
  owner,          \* the process between begin_trans() and commit_trans()
  lh,             \* log.lh
  tail,           \* how far commit_trans() is
  memdisk,        \* TRUE for memide.c, FALSE for ide.c
  panicked,       \* "bget: no buffers"
  logical         \* history: the last contents given to each sector

vars == <<buf, lru, idequeue, disk, me, owner, lh, tail, memdisk, panicked, logical>>
log == <<owner, lh, tail, memdisk>>

Idle == [pc |-> "idle", mode |-> "none", want |-> None, held |-> <<>>, asleep |-> None]
Fresh(s) == [sector |-> s, busy |-> FALSE, valid |-> FALSE, dirty |-> FALSE, data |-> Zero]

\* b_init()
Init ==
  /\ buf = [b \in Buf |-> Fresh(None)]
  /\ lru = CHOOSE l \in Bijection(1 .. Cardinality(Buf), Buf) : TRUE
  /\ idequeue = <<>>
  /\ disk = [s \in Sector |-> Zero]
  /\ me = [p \in Proc |-> Idle]
  /\ owner = None /\ lh = <<>> /\ tail = 0
  /\ memdisk \in BOOLEAN
  /\ panicked = FALSE
  /\ logical = disk

At(p, l) == ~panicked /\ me[p].pc = l /\ me[p].asleep = None
Set(p, r) == me' = [me EXCEPT ![p] = r]
Goto(p, l) == Set(p, [me[p] EXCEPT !.pc = l])
Top(p) == LET h == me[p].held IN h[Len(h)]
Wants(p, s) == [me[p] EXCEPT !.pc = "bget", !.want = s]
Awake(m, b) == [q \in Proc |-> IF m[q].asleep = b THEN [m[q] EXCEPT !.asleep = None] ELSE m[q]]

-----------------------------------------------------------------------------
(* bio.c                                                                   *)

Cached(s) == {b \in Buf : buf[b].sector = s}
Reusable == {i \in 1 .. Len(lru) : ~buf[lru[i]].busy /\ ~buf[lru[i]].dirty}
LeastRecent(S) == CHOOSE i \in S : \A j \in S : j <= i

\* p has b; bread() sends a buffer without the data to the disk.
Holding(p, b, r) ==
  [me[p] EXCEPT !.pc = IF r.valid THEN "have" ELSE "iderw", !.held = Append(@, b), !.want = None]

Take(p, b, r) ==
  /\ buf' = [buf EXCEPT ![b] = [r EXCEPT !.busy = TRUE]]
  /\ Set(p, Holding(p, b, r))
  /\ UNCHANGED panicked

\* A turn of the loop of bget(): loops if a process that finds the buffer busy
\* looks again after its sleep, free are the places of the list to recycle.
Look(p, loops, free) ==
  /\ At(p, "bget")
  /\ LET s == me[p].want IN
     \/ \E b \in Cached(s) :
          IF buf[b].busy
            THEN /\ Set(p, [(IF loops THEN me[p] ELSE Holding(p, b, buf[b])) EXCEPT !.asleep = b])
                 /\ UNCHANGED <<buf, panicked>>
            ELSE Take(p, b, buf[b])
     \/ /\ Cached(s) = {}
        /\ IF free = {}
             THEN panicked' = TRUE /\ UNCHANGED <<buf, me>>
             ELSE Take(p, lru[LeastRecent(free)], Fresh(s))
  /\ UNCHANGED <<lru, idequeue, disk, log, logical>>

\* Mutant: a sleeper does not look for the sector again.
bget_noloop(p) == Look(p, FALSE, Reusable)
\* Mutant: dirty buffers are recycled too.
bget_dirty(p) == Look(p, TRUE, {i \in 1 .. Len(lru) : ~buf[lru[i]].busy})

\* bget(): the cached buffer, or the least recently used one that is neither
\* busy nor dirty; sleep on a busy one and look again.
bget(p) == Look(p, TRUE, Reusable)

\* The list with b unlinked from its place and put at the front.
Recent(l, b) ==
  LET k == CHOOSE i \in 1 .. Len(l) : l[i] = b IN
  <<b>> \o (SubSeq(l, 1, k - 1) \o SubSeq(l, k + 1, Len(l)))

-----------------------------------------------------------------------------
(* ide.c and memide.c                                                      *)

\* The disk carries out the request for b: the contents b and the disk get.
Served(b) == [buf[b] EXCEPT !.valid = TRUE, !.dirty = FALSE,
                            !.data = IF buf[b].dirty THEN @ ELSE disk[buf[b].sector]]
Written(b) == IF buf[b].dirty THEN [disk EXCEPT ![buf[b].sector] = buf[b].data] ELSE disk

\* iderw(): memide.c copies at once; ide.c queues the request and sleeps.
iderw(p) ==
  /\ At(p, "iderw")
  /\ LET b == Top(p) IN
     IF memdisk
       THEN /\ buf' = [buf EXCEPT ![b] = Served(b)]
            /\ disk' = Written(b)
            /\ Goto(p, "have")
            /\ UNCHANGED idequeue
       ELSE /\ idequeue' = Append(idequeue, b)
            /\ Set(p, [me[p] EXCEPT !.pc = "iderw_wait", !.asleep = b])
            /\ UNCHANGED <<buf, disk>>
  /\ UNCHANGED <<lru, log, panicked, logical>>

\* The loop of iderw(), when a wakeup(b) has ended its sleep.
iderw_wait(p) ==
  /\ At(p, "iderw_wait")
  /\ LET b == Top(p) IN
       IF buf[b].valid /\ ~buf[b].dirty
         THEN Goto(p, "have")
         ELSE Set(p, [me[p] EXCEPT !.asleep = b])
  /\ UNCHANGED <<buf, lru, idequeue, disk, log, panicked, logical>>

\* Mutant: the request that is done stays at the head of the queue.
ideintr_stuck ==
  /\ ~panicked
  /\ idequeue # <<>>
  /\ LET b == Head(idequeue) IN
       /\ buf' = [buf EXCEPT ![b] = Served(b)]
       /\ disk' = Written(b)
       /\ me' = Awake(me, b)
  /\ UNCHANGED <<idequeue, lru, log, panicked, logical>>

\* ideintr(): the active request is done.
ideintr ==
  /\ ~panicked
  /\ idequeue # <<>>
  /\ LET b == Head(idequeue) IN
       /\ buf' = [buf EXCEPT ![b] = Served(b)]
       /\ disk' = Written(b)
       /\ me' = Awake(me, b)
  /\ idequeue' = Tail(idequeue)
  /\ UNCHANGED <<lru, log, panicked, logical>>

-----------------------------------------------------------------------------
(* The users: fileread() and the like, and log.c.                          *)

\* A reader: bread(), look, brelse().
read(p) ==
  /\ At(p, "idle")
  /\ \E s \in Data : Set(p, [Wants(p, s) EXCEPT !.mode = "read"])
  /\ UNCHANGED <<buf, lru, idequeue, disk, log, panicked, logical>>

\* brelse(b) by p; m says where the processes go on.
brelse(p, m, b) ==
  /\ buf' = [buf EXCEPT ![b].busy = FALSE]
  /\ lru' = Recent(lru, b)
  /\ me' = Awake(m, b)

read_done(p) ==
  /\ At(p, "have")
  /\ me[p].mode = "read"
  /\ brelse(p, [me EXCEPT ![p] = Idle], Top(p))
  /\ UNCHANGED <<idequeue, disk, log, panicked, logical>>

begin_trans(p) ==
  /\ At(p, "idle") /\ p \in Writer
  /\ owner = None
  /\ owner' = p
  /\ Set(p, [me[p] EXCEPT !.pc = "trans", !.mode = "trans"])
  /\ UNCHANGED <<buf, lru, idequeue, disk, lh, tail, memdisk, panicked, logical>>

\* In a transaction: bread() of a block that is to be changed.
trans_bread(p) ==
  /\ At(p, "trans")
  /\ Len(lh) < LOGSIZE
  /\ \E s \in Data : Set(p, Wants(p, s))
  /\ UNCHANGED <<buf, lru, idequeue, disk, log, panicked, logical>>

\* The index of sector s in log.lh, or the next free one.
Slot(s) == IF \E i \in 1 .. Len(lh) : lh[i] = s
             THEN CHOOSE i \in 1 .. Len(lh) : lh[i] = s
             ELSE Len(lh) + 1

\* The block is modified; log_write() up to its bread(log block).
log_write(p) ==
  /\ At(p, "have")
  /\ me[p].mode = "trans"
  /\ Len(me[p].held) = 1
  /\ LET b == Top(p) IN
     \E v \in Value :
       /\ buf' = [buf EXCEPT ![b].data = v]
       /\ logical' = [logical EXCEPT ![buf[b].sector] = v]
       /\ Set(p, Wants(p, Slot(buf[b].sector)))
  /\ UNCHANGED <<lru, idequeue, disk, log, panicked>>

\* memmove() from one held buffer to the other (write_head() fills in its
\* own), and bwrite() of the second.
bwrite(p) ==
  /\ At(p, "have")
  /\ \/ me[p].mode \in {"trans", "commit"} /\ Len(me[p].held) = 2
     \/ me[p].mode = "commit" /\ tail \in {0, Len(lh) + 1}
  /\ LET d == Top(p)
         v == buf[me[p].held[1]].data IN
       /\ buf' = [buf EXCEPT ![d].data = v, ![d].dirty = TRUE]
       /\ logical' = [logical EXCEPT ![buf[d].sector] = v]
  /\ Set(p, [me[p] EXCEPT !.pc = "iderw", !.mode = IF @ = "trans" THEN "logged" ELSE "wrote"])
  /\ UNCHANGED <<lru, idequeue, disk, log, panicked>>

\* log_write(): brelse(lbuf).
log_write_logged(p) ==
  /\ At(p, "have")
  /\ me[p].mode = "logged"
  /\ Len(me[p].held) = 2
  /\ brelse(p, [me EXCEPT ![p].held = <<@[1]>>], Top(p))
  /\ UNCHANGED <<idequeue, disk, log, panicked, logical>>

\* The end of log_write(), B_DIRTY against eviction, and the caller's brelse():
\* l is the list of blocks in the log.
Pin(p, l) ==
  /\ At(p, "have")
  /\ me[p].mode = "logged"
  /\ Len(me[p].held) = 1
  /\ LET b == Top(p) IN
       /\ lh' = l
       /\ buf' = [buf EXCEPT ![b].dirty = TRUE, ![b].busy = FALSE]
       /\ lru' = Recent(lru, b)
       /\ me' = Awake([me EXCEPT ![p] = [Idle EXCEPT !.pc = "trans", !.mode = "trans"]], b)
  /\ UNCHANGED <<idequeue, disk, owner, tail, memdisk, panicked, logical>>

\* Mutant: the block is not recorded in log.lh.
log_write_pin_only(p) == Pin(p, lh)

log_write_pin(p) ==
  LET s == buf[Top(p)].sector IN Pin(p, IF Slot(s) > Len(lh) THEN Append(lh, s) ELSE lh)

\* commit_trans(): an empty transaction is over; otherwise write_head().
commit_trans(p) ==
  /\ At(p, "trans")
  /\ IF lh = <<>>
       THEN Set(p, Idle) /\ owner' = None
       ELSE Set(p, [Wants(p, Head0) EXCEPT !.mode = "commit"]) /\ UNCHANGED owner
  /\ UNCHANGED <<buf, lru, idequeue, disk, lh, tail, memdisk, panicked, logical>>

\* install_trans(): with the log block in hand, bread() the home block.
install_trans(p) ==
  /\ At(p, "have")
  /\ me[p].mode = "commit"
  /\ tail \in 1 .. Len(lh)
  /\ Len(me[p].held) = 1
  /\ Set(p, Wants(p, lh[tail]))
  /\ UNCHANGED <<buf, lru, idequeue, disk, log, panicked, logical>>

\* brelse() of what was written (write_head), or of the log block.
commit_brelse(p) ==
  /\ At(p, "have")
  /\ me[p].mode = "wrote"
  /\ LET b == me[p].held[1]
         next == IF tail < Len(lh) THEN tail + 1 ELSE Head0 IN
     IF Len(me[p].held) = 2
       THEN /\ brelse(p, [me EXCEPT ![p].held = <<@[2]>>], b)
            /\ UNCHANGED log
       ELSE IF tail = Len(lh) + 1
         THEN /\ brelse(p, [me EXCEPT ![p] = Idle], b)
              /\ owner' = None /\ lh' = <<>> /\ tail' = 0
              /\ UNCHANGED memdisk
         ELSE /\ brelse(p, [me EXCEPT ![p] = [Wants(p, next) EXCEPT
                                                 !.mode = "commit", !.held = <<>>]], b)
              /\ tail' = tail + 1
              /\ UNCHANGED <<owner, lh, memdisk>>
  /\ UNCHANGED <<idequeue, disk, panicked, logical>>

-----------------------------------------------------------------------------
Step(p) ==
  \/ bget(p)
  \/ iderw(p)
  \/ iderw_wait(p)
  \/ read_done(p)
  \/ log_write(p)
  \/ bwrite(p)
  \/ log_write_logged(p)
  \/ log_write_pin(p)
  \/ install_trans(p)
  \/ commit_brelse(p)

Next ==
  \/ \E p \in Proc : Step(p) \/ read(p) \/ begin_trans(p) \/ trans_bread(p) \/ commit_trans(p)
  \/ ideintr

Spec == Init /\ [][Next]_vars

\* The scheduler runs every process and the disk answers every request.
Fairness == WF_vars(ideintr) /\ \A p \in Proc : WF_vars(Step(p))

FairSpec == Spec /\ Fairness

-----------------------------------------------------------------------------
TypeOK ==
  /\ buf \in [Buf -> [sector : Sector \cup {None}, busy : BOOLEAN, valid : BOOLEAN,
                      dirty : BOOLEAN, data : Value]]
  /\ Range(lru) = Buf /\ Len(lru) = Cardinality(Buf)
  /\ Range(idequeue) \subseteq Buf
  /\ disk \in [Sector -> Value]
  /\ \A p \in Proc :
       /\ me[p].want \in Sector \cup {None}
       /\ me[p].asleep \in Buf \cup {None}
       /\ Len(me[p].held) <= 2
  /\ owner \in Proc \cup {None}
  /\ Range(lh) \subseteq Data /\ Len(lh) <= LOGSIZE
  /\ tail \in 0 .. LOGSIZE + 1
  /\ panicked \in BOOLEAN
  /\ logical \in [Sector -> Value]

\* bget(): "In either case, return B_BUSY buffer" - it never runs out of
\* buffers, caches no sector twice, and a busy buffer has one holder.
OneBufferPerSector ==
  /\ TypeOK /\ ~panicked
  /\ \A b, c \in Buf : buf[b].sector = buf[c].sector /\ buf[b].sector # None => b = c
  /\ \A b \in Buf :
       Cardinality({p \in Proc : b \in Range(me[p].held)}) = IF buf[b].busy THEN 1 ELSE 0

\* bread(): a process that gets a buffer sees what was last written to that
\* sector, also when the disk does not have it yet.
ReadsLatest ==
  \A p \in Proc :
    me[p].pc = "have" /\ me[p].mode \in {"read", "trans", "commit"} =>
      buf[Top(p)].valid /\ buf[Top(p)].data = logical[buf[Top(p)].sector]

\* After commit_trans() every home block is on the disk and unpinned.
CommittedOnDisk ==
  owner = None =>
    /\ \A s \in Data : disk[s] = logical[s]
    /\ \A b \in Buf : buf[b].dirty => buf[b].busy

\* iderw(): a request is served and its process goes on, whoever else sleeps
\* on the same buffer.  (That bget() returns is not so: a process that waits
\* for a busy buffer can find it busy again whenever it gets to look.)
RequestServed ==
  \A p \in Proc : (me[p].pc = "iderw") ~> (me[p].pc = "have")
=============================================================================
