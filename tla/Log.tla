-------------------------------- MODULE Log ---------------------------------
(***************************************************************************)
(* The redo log of log.c over the buffer cache of bio.c and the disk of    *)
(* memide.c: transactions of several processes, a crash between any two    *)
(* disk writes, and the recovery that initlog() runs at the next boot,     *)
(* which may itself be cut short by a crash.                               *)
(*                                                                         *)
(* A disk write of one sector is atomic.  Log blocks and the header block  *)
(* are always written through, so their cached copies equal the disk's and *)
(* only the home blocks have a cached copy of their own here.              *)
(***************************************************************************)
EXTENDS Integers, Sequences, FiniteSets

CONSTANTS
  Proc,       \* processes that make file system calls
  Block,      \* home sectors
  Data,       \* contents of a sector
  LOGSIZE,    \* entries of struct logheader
  SIZE,       \* log.size: sectors of the on-disk log, its header included
  None        \* "not cached"

ASSUME LogSizeAssumption == LOGSIZE \in Nat \ {0} /\ SIZE \in Nat /\ SIZE > 1
ASSUME NoneAssumption == None \notin Data

\* log_write() panics once log.lh.n reaches either limit.
MaxLog == IF LOGSIZE < SIZE - 1 THEN LOGSIZE ELSE SIZE - 1

VARIABLES
  home,       \* disk: the home sectors
  dlog,       \* disk: the log blocks; dlog[i] is sector log.start + i
  dhead,      \* disk: sector[0 .. n-1] of the log header
  lh,         \* memory: sector[0 .. n-1] of log.lh
  busy,       \* memory: log.busy
  cache,      \* memory: the buffered copy of a home sector, or None
  dirty,      \* memory: home sectors whose buffer has B_DIRTY set
  tail,       \* memory: tail of install_trans()
  rec,        \* where initlog() is: "read", "install", "done"; "halt" after panic
  pc          \* where each process is

disk == <<home, dlog, dhead>>
vars == <<home, dlog, dhead, lh, busy, cache, dirty, tail, rec, pc>>

Entries(s) == 1 .. Len(s)
Sectors(s) == {s[i] : i \in Entries(s)}

\* The machine was switched on with some file system and an empty log (mkfs).
Init ==
  /\ home \in [Block -> Data]
  /\ dlog \in [1 .. MaxLog -> Data]
  /\ dhead = <<>>
  /\ lh = <<>>
  /\ busy = 0
  /\ cache = [b \in Block |-> None]
  /\ dirty = {}
  /\ tail = 1
  /\ rec = "read"
  /\ pc = [p \in Proc |-> "idle"]

-----------------------------------------------------------------------------
(* The buffer cache, as the log uses it.                                   *)

\* bread() by any process, inside a transaction or not, of an uncached sector.
bread(b) ==
  /\ rec = "done"
  /\ cache[b] = None
  /\ cache' = [cache EXCEPT ![b] = home[b]]
  /\ UNCHANGED <<home, dlog, dhead, lh, busy, dirty, tail, rec, pc>>

\* bget() recycles the buffer of b for another sector: never a dirty one.
bget(b) ==
  /\ rec \in {"install", "done"}
  /\ cache[b] # None
  /\ b \notin dirty
  /\ cache' = [cache EXCEPT ![b] = None]
  /\ UNCHANGED <<home, dlog, dhead, lh, busy, dirty, tail, rec, pc>>

-----------------------------------------------------------------------------
(* log.c.                                                                  *)

\* Mutant: `if(log.busy)' instead of `while': a woken process does not look again.
begin_trans_if(p) ==
  /\ rec = "done"
  /\ pc[p] \in {"idle", "begin"}
  /\ busy' = 1
  /\ pc' = [pc EXCEPT ![p] = IF busy = 1 /\ pc[p] = "idle" THEN "asleep" ELSE "trans"]
  /\ UNCHANGED <<home, dlog, dhead, lh, cache, dirty, tail, rec>>

\* begin_trans(): sleep while a transaction is active, then become active.
begin_trans(p) ==
  /\ rec = "done"
  /\ pc[p] \in {"idle", "begin"}
  /\ busy' = 1
  /\ pc' = [pc EXCEPT ![p] = IF busy = 1 THEN "asleep" ELSE "trans"]
  /\ UNCHANGED <<home, dlog, dhead, lh, cache, dirty, tail, rec>>

\* The slot log_write() uses: the one that already holds b, or a new one.
Slot(b) ==
  IF b \in Sectors(lh) THEN CHOOSE i \in Entries(lh) : lh[i] = b ELSE Len(lh) + 1

\* bread(), a change of the buffer to d, log_write() and brelse().  B_BUSY
\* keeps the buffer from everyone else in between.
log_write(p, b, d) ==
  /\ rec = "done"
  /\ pc[p] = "trans"
  /\ cache[b] # None
  /\ Len(lh) < MaxLog
  /\ busy = 1
  /\ lh' = IF b \in Sectors(lh) THEN lh ELSE Append(lh, b)
  /\ dlog' = [dlog EXCEPT ![Slot(b)] = d]
  /\ cache' = [cache EXCEPT ![b] = d]
  /\ dirty' = dirty \cup {b}
  /\ UNCHANGED <<home, dhead, busy, tail, rec, pc>>

\* log_write() panics: "too big a transaction".  The machine stops.
log_write_panic(p) ==
  /\ rec = "done"
  /\ pc[p] = "trans"
  /\ ~(Len(lh) < MaxLog /\ busy = 1)
  /\ rec' = "halt"
  /\ UNCHANGED <<home, dlog, dhead, lh, busy, cache, dirty, tail, pc>>

\* Mutant: the header is also written while the transaction is open, as by a
\* log_write() that calls write_head() at its end.
commit_trans_early(p) ==
  /\ rec = "done"
  /\ pc[p] = "trans"
  /\ IF lh # <<>>
       THEN dhead' = lh /\ tail' = 1 /\ pc' \in {pc, [pc EXCEPT ![p] = "install"]}
       ELSE pc' = [pc EXCEPT ![p] = "unlock"] /\ UNCHANGED <<dhead, tail>>
  /\ UNCHANGED <<home, dlog, lh, busy, cache, dirty, rec>>

\* commit_trans(): write_head() with the logged sectors, if there are any.
commit_trans(p) ==
  /\ rec = "done"
  /\ pc[p] = "trans"
  /\ IF lh # <<>>
       THEN dhead' = lh /\ tail' = 1 /\ pc' = [pc EXCEPT ![p] = "install"]
       ELSE pc' = [pc EXCEPT ![p] = "unlock"] /\ UNCHANGED <<dhead, tail>>
  /\ UNCHANGED <<home, dlog, lh, busy, cache, dirty, rec>>

\* One turn of the loop of install_trans(): log block to home location.
install_trans ==
  /\ tail \in Entries(lh)
  /\ home' = [home EXCEPT ![lh[tail]] = dlog[tail]]
  /\ cache' = [cache EXCEPT ![lh[tail]] = dlog[tail]]
  /\ dirty' = dirty \ {lh[tail]}
  /\ tail' = tail + 1
  /\ UNCHANGED <<dlog, dhead, lh, busy>>

commit_install(p) ==
  /\ rec = "done"
  /\ pc[p] = "install"
  /\ install_trans
  /\ UNCHANGED <<rec, pc>>

\* log.lh.n = 0; write_head(): erase the transaction from the log.
erase ==
  /\ tail \notin Entries(lh)
  /\ lh' = <<>>
  /\ dhead' = <<>>
  /\ UNCHANGED <<home, dlog, busy, cache, dirty, tail>>

commit_erase(p) ==
  /\ rec = "done"
  /\ pc[p] = "install"
  /\ erase
  /\ pc' = [pc EXCEPT ![p] = "unlock"]
  /\ UNCHANGED rec

\* Mutant: no wakeup(&log).
commit_unlock_silent(p) ==
  /\ rec = "done"
  /\ pc[p] = "unlock"
  /\ busy' = 0
  /\ pc' = [pc EXCEPT ![p] = "idle"]
  /\ UNCHANGED <<home, dlog, dhead, lh, cache, dirty, tail, rec>>

\* The end of commit_trans(): log.busy = 0 and wakeup(&log) under log.lock.
commit_unlock(p) ==
  /\ rec = "done"
  /\ pc[p] = "unlock"
  /\ busy' = 0
  /\ pc' = [q \in Proc |-> IF q = p THEN "idle"
                           ELSE IF pc[q] = "asleep" THEN "begin" ELSE pc[q]]
  /\ UNCHANGED <<home, dlog, dhead, lh, cache, dirty, tail, rec>>

\* Mutant: recovery starts over with the first entry after every block.
recover_install_again ==
  /\ rec = "install"
  /\ tail \in Entries(lh)
  /\ home' = [home EXCEPT ![lh[tail]] = dlog[tail]]
  /\ UNCHANGED <<dlog, dhead, lh, busy, cache, dirty, tail, rec, pc>>

\* initlog(), run by the first process in forkret() before any system call:
\* read_head(), install_trans(), and erase.
recover_read ==
  /\ rec = "read"
  /\ lh' = dhead
  /\ tail' = 1
  /\ rec' = "install"
  /\ UNCHANGED <<home, dlog, dhead, busy, cache, dirty, pc>>

recover_install ==
  /\ rec = "install"
  /\ install_trans
  /\ UNCHANGED <<rec, pc>>

recover_erase ==
  /\ rec = "install"
  /\ erase
  /\ rec' = "done"
  /\ UNCHANGED pc

\* The machine loses power, or is reset after a panic: memory is gone.
Crash ==
  /\ lh' = <<>>
  /\ busy' = 0
  /\ cache' = [b \in Block |-> None]
  /\ dirty' = {}
  /\ tail' = 1
  /\ rec' = "read"
  /\ pc' = [p \in Proc |-> "idle"]
  /\ UNCHANGED disk

-----------------------------------------------------------------------------
Next ==
  \/ \E b \in Block : bread(b) \/ bget(b)
  \/ \E p \in Proc : begin_trans(p)
  \/ \E p \in Proc, b \in Block, d \in Data : log_write(p, b, d)
  \/ \E p \in Proc : log_write_panic(p)
  \/ \E p \in Proc : commit_trans(p)
  \/ \E p \in Proc : commit_install(p)
  \/ \E p \in Proc : commit_erase(p)
  \/ \E p \in Proc : commit_unlock(p)
  \/ recover_read
  \/ recover_install
  \/ recover_erase
  \/ Crash

Spec == Init /\ [][Next]_vars
\* Fairness.  The first process finishes initlog(), and a process in a
\* transaction reaches commit_trans() and the end of it.
CommitStep(p) ==
  commit_trans(p) \/ commit_install(p) \/ commit_erase(p) \/ commit_unlock(p)

Fairness ==
  /\ WF_vars(recover_read \/ recover_install \/ recover_erase)
  /\ \A p \in Proc : WF_vars(CommitStep(p))

FairSpec == Spec /\ Fairness

-----------------------------------------------------------------------------
TypeOK ==
  /\ home \in [Block -> Data]
  /\ dlog \in [1 .. MaxLog -> Data]
  /\ dhead \in Seq(Block) /\ Len(dhead) <= MaxLog
  /\ lh \in Seq(Block) /\ Len(lh) <= MaxLog
  /\ busy \in {0, 1}
  /\ cache \in [Block -> Data \cup {None}]
  /\ dirty \subseteq Block
  /\ tail \in 1 .. MaxLog + 1
  /\ rec \in {"read", "install", "done", "halt"}
  /\ pc \in [Proc -> {"idle", "begin", "asleep", "trans", "install", "unlock"}]

\* What initlog() would make of the disk if the machine stopped now.
Recovered ==
  [b \in Block |-> IF b \in Sectors(dhead)
                     THEN dlog[CHOOSE i \in Entries(dhead) : dhead[i] = b]
                     ELSE home[b]]

\* What bread() returns; until initlog() is done nobody reads.
View ==
  [b \in Block |-> IF rec \in {"read", "install"} THEN Recovered[b]
                   ELSE IF cache[b] # None THEN cache[b] ELSE home[b]]

\* The process whose transaction may still write, and the one whose header is
\* written (or who had nothing to write).
Open == {p \in Proc : pc[p] = "trans"}
Committed == {p \in Proc : pc[p] \in {"install", "unlock"}}
InTrans == Open \cup Committed

\* log.c:8-32 and 98-100: the log makes system calls atomic.  Whatever is
\* crashed, evicted or interleaved, all the writes of a transaction become
\* durable at one instant, the write_head() of commit_trans(), after which it
\* writes nothing; and reads see the writes of the open transaction and of all
\* earlier ones.
Store == INSTANCE AtomicStore WITH stable <- Recovered, view <- View,
                                   open <- Open, committed <- Committed
AtomicTransactions == Store!Spec

\* log.c:13-14: only one system call can be in a transaction, and a process
\* sleeps in begin_trans() only while that one will still wake it up.
OneTransaction ==
  /\ \A p, q \in InTrans : p = q
  /\ (\E p \in Proc : pc[p] = "asleep") => InTrans # {}

\* A process asleep in begin_trans() is woken up, unless the machine stops.
WaiterWakes ==
  \A p \in Proc : pc[p] = "asleep" ~> pc[p] = "begin" \/ rec \in {"read", "halt"}

\* Recovery ends, unless the machine stops again.
RecoveryEnds == rec = "install" ~> rec \in {"read", "done"}
=============================================================================
