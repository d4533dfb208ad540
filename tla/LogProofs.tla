------------------------------ MODULE LogProofs -----------------------------
(***************************************************************************)
(* Proofs about Log, for any sets of processes, blocks and contents and    *)
(* any size of the log: the type invariant, that one transaction is open   *)
(* at a time, and that Log implements AtomicStore.                         *)
(***************************************************************************)
EXTENDS Log, TLAPS

\* log absorption: a sector has at most one log entry.
Distinct(s) == \A i, j \in Entries(s) : s[i] = s[j] => i = j

\* log.busy, the owner of the transaction and the sleepers agree.
BusyInv ==
  /\ \A p, q \in InTrans : p = q
  /\ busy = 1 <=> InTrans # {}
  /\ \A p \in Proc : pc[p] = "asleep" => busy = 1
  /\ rec \in {"read", "install"} => InTrans = {}

\* The entries of lh before tail are installed.
Installed == \A i \in Entries(lh) : i < tail => home[lh[i]] = dlog[i]

\* What the disk and the log header look like in each phase.
PhaseInv ==
  /\ rec \in {"done", "halt"} /\ (\A p \in Proc : pc[p] \notin {"trans", "install"})
       => lh = <<>> /\ dhead = <<>> /\ dirty = {}
  /\ \A p \in Proc : pc[p] = "trans" => dhead = <<>> /\ dirty = Sectors(lh)
  /\ \A p \in Proc : pc[p] = "install" =>
       /\ dhead = lh
       /\ dirty = {lh[i] : i \in {j \in Entries(lh) : j >= tail}}
       /\ Installed
  /\ rec = "read" => lh = <<>> /\ dirty = {}
  /\ rec = "install" => lh = dhead /\ dirty = {} /\ Installed

\* A clean buffer agrees with its home sector, a dirty one with the log.
CacheInv ==
  /\ \A b \in Block : b \notin dirty /\ cache[b] # None => cache[b] = home[b]
  /\ \A i \in Entries(lh) : lh[i] \in dirty => cache[lh[i]] = dlog[i]

LInv ==
  /\ TypeOK
  /\ Distinct(lh)
  /\ Distinct(dhead)
  /\ BusyInv
  /\ PhaseInv
  /\ CacheInv

-----------------------------------------------------------------------------
\* A transaction has room for a block.
LEMMA MaxLogNat == MaxLog \in Nat \ {0}
BY LogSizeAssumption DEF MaxLog

\* The first boot, with an empty log.
THEOREM InitLInv == Init => LInv
<1> SUFFICES ASSUME Init PROVE LInv
  OBVIOUS
<1>1. TypeOK
  BY MaxLogNat DEF Init, TypeOK
<1>2. Distinct(lh) /\ Distinct(dhead)
  BY DEF Init, Distinct, Entries
<1>3. BusyInv
  BY DEF Init, BusyInv, InTrans, Open, Committed
<1>4. PhaseInv /\ CacheInv
  BY DEF Init, PhaseInv, CacheInv, Entries
<1> QED
  BY <1>1, <1>2, <1>3, <1>4 DEF LInv

\* Every step keeps the types.
LEMMA TypeStep == ASSUME LInv, [Next]_vars PROVE TypeOK'
<1> USE MaxLogNat DEF LInv, TypeOK
<1>1. ASSUME NEW b \in Block, bread(b) \/ bget(b) PROVE TypeOK'
  BY <1>1 DEF bread, bget
<1>2. ASSUME NEW p \in Proc, begin_trans(p) PROVE TypeOK'
  BY <1>2 DEF begin_trans
<1>3. ASSUME NEW p \in Proc, NEW b \in Block, NEW d \in Data, log_write(p, b, d)
      PROVE  TypeOK'
  <2>1. lh' \in {lh, Append(lh, b)} /\ Len(lh) < MaxLog
    BY <1>3 DEF log_write
  <2>2. lh' \in Seq(Block) /\ Len(lh') <= MaxLog
    BY <2>1
  <2>3. dlog' \in [1 .. MaxLog -> Data]
    BY Zenon, <1>3 DEF log_write
  <2>4. cache' \in [Block -> Data \cup {None}] /\ dirty' \subseteq Block
    BY <1>3 DEF log_write
  <2> QED
    BY <1>3, <2>2, <2>3, <2>4 DEF log_write
<1>4. ASSUME NEW p \in Proc, log_write_panic(p) \/ commit_trans(p) \/ commit_unlock(p)
      PROVE  TypeOK'
  <2>1. CASE log_write_panic(p)
    BY <2>1 DEF log_write_panic
  <2>2. CASE commit_trans(p)
    <3>1. CASE lh = <<>>
      BY <2>2, <3>1 DEF commit_trans
    <3>2. CASE lh # <<>>
      BY <2>2, <3>2 DEF commit_trans
    <3> QED
      BY <3>1, <3>2
  <2>3. CASE commit_unlock(p)
    BY <2>3 DEF commit_unlock
  <2> QED
    BY <1>4, <2>1, <2>2, <2>3
<1>5. ASSUME install_trans, rec' = rec, pc' = pc PROVE TypeOK'
  <2>1. lh[tail] \in Block /\ dlog[tail] \in Data
    BY <1>5 DEF install_trans, Entries
  <2> QED
    BY <1>5, <2>1 DEF install_trans, Entries
<1>6. ASSUME NEW p \in Proc, commit_install(p) \/ commit_erase(p) PROVE TypeOK'
  <2>1. CASE commit_install(p)
    BY <1>5, <2>1 DEF commit_install
  <2>2. CASE commit_erase(p)
    BY <2>2 DEF commit_erase, erase
  <2> QED
    BY <1>6, <2>1, <2>2
<1>7. ASSUME recover_read \/ recover_install \/ recover_erase PROVE TypeOK'
  <2>1. CASE recover_read
    BY <2>1 DEF recover_read
  <2>2. CASE recover_install
    BY <1>5, <2>2 DEF recover_install
  <2>3. CASE recover_erase
    BY <2>3 DEF recover_erase, erase
  <2> QED
    BY Zenon, <1>7, <2>1, <2>2, <2>3
<1>8. ASSUME Crash PROVE TypeOK'
  BY <1>8 DEF Crash, disk
<1>9. ASSUME UNCHANGED vars PROVE TypeOK'
  BY <1>9 DEF vars
<1> QED
  BY Zenon, <1>1, <1>2, <1>3, <1>4, <1>6, <1>7, <1>8, <1>9 DEF Next

\* The slot log_write() picks: a fresh one, or the one that holds the sector.
LEMMA SlotFacts ==
  ASSUME TypeOK, NEW b \in Block
  PROVE  /\ Slot(b) \in 1 .. Len(lh) + 1
         /\ Slot(b) \in Entries(lh) => lh[Slot(b)] = b
         /\ b \in Sectors(lh) <=> Slot(b) \in Entries(lh)
<1>1. CASE b \in Sectors(lh)
  <2>1. \E i \in Entries(lh) : lh[i] = b
    BY <1>1 DEF Sectors
  <2>2. Slot(b) \in Entries(lh) /\ lh[Slot(b)] = b
    BY <1>1, <2>1 DEF Slot
  <2> QED
    BY <1>1, <2>2 DEF TypeOK, Entries
<1>2. CASE b \notin Sectors(lh)
  BY <1>2 DEF TypeOK, Slot, Entries
<1> QED
  BY <1>1, <1>2

\* Each action preserves the inductive invariant.
LEMMA BreadStep == ASSUME LInv, NEW b \in Block, bread(b) \/ bget(b) PROVE LInv'
<1>1. TypeOK'
  BY TypeStep DEF Next
<1>2. (Distinct(lh) /\ Distinct(dhead))'
  BY DEF LInv, bread, bget, Distinct, Entries
<1>3. BusyInv'
  BY DEF LInv, bread, bget, BusyInv, InTrans, Open, Committed
<1>4. PhaseInv'
  BY DEF LInv, bread, bget, PhaseInv, Installed, Entries, Sectors
<1>5. CacheInv'
  <2>1. CASE bread(b)
    <3>1. \A i \in Entries(lh) : lh[i] \in dirty => lh[i] # b
      BY <2>1, NoneAssumption, MaxLogNat DEF LInv, TypeOK, bread, CacheInv, Entries
    <3> QED
      BY <2>1, <3>1 DEF LInv, TypeOK, bread, CacheInv, Entries
  <2>2. CASE bget(b)
    BY <2>2 DEF LInv, TypeOK, bget, CacheInv, Entries
  <2> QED
    BY <2>1, <2>2
<1> QED
  BY <1>1, <1>2, <1>3, <1>4, <1>5 DEF LInv

\* begin_trans() opens the transaction or puts the caller to sleep.
LEMMA BeginStep == ASSUME LInv, NEW p \in Proc, begin_trans(p) PROVE LInv'
<1>1. TypeOK'
  BY TypeStep DEF Next
<1>2. (Distinct(lh) /\ Distinct(dhead))'
  BY DEF LInv, begin_trans, Distinct, Entries
<1>3. BusyInv'
  BY DEF LInv, TypeOK, begin_trans, BusyInv, InTrans, Open, Committed
<1>4. PhaseInv'
  BY DEF LInv, TypeOK, begin_trans, BusyInv, InTrans, Open, Committed, PhaseInv, Installed, Entries, Sectors
<1>5. CacheInv'
  BY DEF LInv, begin_trans, CacheInv, Entries
<1> QED
  BY <1>1, <1>2, <1>3, <1>4, <1>5 DEF LInv

\* log_write() of a block, new to the transaction or absorbed.
LEMMA WriteStep ==
  ASSUME LInv, NEW p \in Proc, NEW b \in Block, NEW d \in Data, log_write(p, b, d)
  PROVE  LInv'
<1>1. TypeOK'
  BY TypeStep DEF Next
<1>2. (Distinct(lh) /\ Distinct(dhead))'
  BY DEF LInv, TypeOK, log_write, Distinct, Entries, Sectors
<1>3. BusyInv'
  BY DEF LInv, log_write, BusyInv, InTrans, Open, Committed
<1>4. PhaseInv'
  <2>1. /\ rec = "done" /\ pc[p] = "trans" /\ dirty' = dirty \cup {b}
        /\ rec' = rec /\ pc' = pc /\ dhead' = dhead
    BY Zenon DEF log_write
  <2>2. dhead = <<>> /\ dirty = Sectors(lh)
    BY Zenon, <2>1 DEF LInv, PhaseInv
  <2>3. \A q \in Proc : pc[q] # "install"
    BY Zenon, <2>1 DEF LInv, BusyInv, InTrans, Open, Committed
  <2>4. Sectors(lh') = Sectors(lh) \cup {b}
    BY DEF LInv, TypeOK, log_write, Sectors, Entries
  <2> QED
    BY Zenon, <2>1, <2>2, <2>3, <2>4 DEF PhaseInv
<1>5. CacheInv'
  <2> DEFINE k == Slot(b)
  <2>1. /\ k \in 1 .. Len(lh) + 1 /\ k \in 1 .. MaxLog
        /\ k \in Entries(lh) => lh[k] = b
        /\ b \in Sectors(lh) <=> k \in Entries(lh)
    BY SlotFacts, MaxLogNat DEF LInv, TypeOK, log_write
  <2>2. /\ dlog' = [dlog EXCEPT ![k] = d]
        /\ cache' = [cache EXCEPT ![b] = d]
        /\ dirty' = dirty \cup {b}
        /\ home' = home
    BY DEF log_write
  <2> HIDE DEF k
  <2>3. \A i \in Entries(lh') : lh'[i] = b <=> i = k
    <3>1. CASE b \in Sectors(lh)
      <4>1. lh' = lh /\ Distinct(lh)
        BY Zenon, <3>1 DEF LInv, log_write
      <4> QED
        BY Zenon, <2>1, <3>1, <4>1 DEF Distinct
    <3>2. CASE b \notin Sectors(lh)
      <4>1. lh \in Seq(Block) /\ Len(lh) \in Nat /\ lh' = Append(lh, b)
        BY <3>2 DEF LInv, TypeOK, log_write
      <4>2. /\ k = Len(lh) + 1 /\ lh'[k] = b
            /\ \A i \in Entries(lh') : i = k \/ i \in Entries(lh)
            /\ \A i \in Entries(lh) : i # k /\ lh'[i] = lh[i]
        BY <2>1, <3>2, <4>1 DEF Entries
      <4>3. \A i \in Entries(lh) : lh[i] # b
        BY Zenon, <3>2 DEF Sectors
      <4> QED
        BY Zenon, <4>2, <4>3
    <3> QED
      BY Zenon, <3>1, <3>2
  <2>4. \A i \in Entries(lh') : i # k => i \in Entries(lh) /\ lh'[i] = lh[i]
    BY <2>1 DEF LInv, TypeOK, log_write, Entries, Slot, k
  <2>5. \A i \in Entries(lh') : lh'[i] \in Block /\ i \in 1 .. MaxLog
    BY <1>1, MaxLogNat DEF TypeOK, Entries
  <2>6. ASSUME NEW i \in Entries(lh'), lh'[i] \in dirty' PROVE cache'[lh'[i]] = dlog'[i]
    BY <2>1, <2>2, <2>3, <2>4, <2>5, <2>6 DEF LInv, TypeOK, CacheInv
  <2>7. \A c \in Block : c \notin dirty' /\ cache'[c] # None => cache'[c] = home'[c]
    BY <2>2 DEF LInv, TypeOK, CacheInv
  <2> QED
    BY <2>6, <2>7 DEF CacheInv
<1> QED
  BY <1>1, <1>2, <1>3, <1>4, <1>5 DEF LInv

\* log_write() beyond the size of the log: nothing runs after panic().
LEMMA PanicStep == ASSUME LInv, NEW p \in Proc, log_write_panic(p) PROVE LInv'
<1>1. TypeOK'
  BY TypeStep DEF Next
<1>2. (Distinct(lh) /\ Distinct(dhead) /\ BusyInv /\ PhaseInv /\ CacheInv)'
  BY DEF LInv, log_write_panic, Distinct, BusyInv, InTrans, Open, Committed, PhaseInv, CacheInv,
         Installed, Entries, Sectors
<1> QED
  BY <1>1, <1>2 DEF LInv

\* commit_trans(): write_head() commits.
LEMMA CommitStepInv == ASSUME LInv, NEW p \in Proc, commit_trans(p) PROVE LInv'
<1>1. TypeOK'
  BY TypeStep DEF Next
<1>2. (Distinct(lh) /\ Distinct(dhead))'
  BY DEF LInv, commit_trans, Distinct, Entries
<1>3. BusyInv'
  BY ZenonT(30) DEF LInv, TypeOK, commit_trans, BusyInv, InTrans, Open, Committed
<1>4. PhaseInv'
  <2>1. /\ rec = "done" /\ pc[p] = "trans" /\ UNCHANGED <<lh, dirty, rec>>
        /\ \/ lh # <<>> /\ dhead' = lh /\ tail' = 1 /\ pc' = [pc EXCEPT ![p] = "install"]
           \/ lh = <<>> /\ dhead' = dhead /\ pc' = [pc EXCEPT ![p] = "unlock"]
    BY DEF commit_trans
  <2>2. dhead = <<>> /\ dirty = Sectors(lh)
    BY Zenon, <2>1 DEF LInv, PhaseInv
  <2>3. /\ \A q \in Proc : pc'[q] # "trans"
        /\ \A q \in Proc : pc'[q] = "install" => q = p /\ lh # <<>>
        /\ lh # <<>> => pc'[p] = "install"
    <3>1. \A q \in Proc : pc[q] \in {"trans", "install"} => q = p
      BY Zenon, <2>1 DEF LInv, BusyInv, InTrans, Open, Committed
    <3>2. pc \in [Proc -> {"idle", "begin", "asleep", "trans", "install", "unlock"}]
      BY DEF LInv, TypeOK
    <3> QED
      BY <2>1, <3>1, <3>2
  <2>4. CASE lh = <<>>
    <3>1. dirty = {}
      BY <2>2, <2>4 DEF Sectors, Entries
    <3> QED
      BY <2>1, <2>2, <2>3, <2>4, <3>1 DEF PhaseInv
  <2>5. CASE lh # <<>>
    <3>1. dhead' = lh /\ tail' = 1
      BY <2>1, <2>5
    <3>2. Sectors(lh) = {lh[i] : i \in {j \in Entries(lh) : j >= 1}} /\ \A i \in Entries(lh) : ~(i < 1)
      BY DEF Sectors, Entries
    <3>3. Installed'
      BY <2>1, <3>1, <3>2 DEF Installed
    <3> QED
      BY <2>1, <2>2, <2>3, <2>5, <3>1, <3>2, <3>3 DEF PhaseInv
  <2> QED
    BY <2>4, <2>5
<1>5. CacheInv'
  BY DEF LInv, commit_trans, CacheInv, Entries
<1> QED
  BY <1>1, <1>2, <1>3, <1>4, <1>5 DEF LInv

\* One turn of install_trans().
LEMMA InstallStep ==
  ASSUME LInv, install_trans, pc' = pc, rec' = rec,
         rec = "install" \/ \E p \in Proc : pc[p] = "install" /\ rec = "done",
         TypeOK'
  PROVE  LInv'
<1>2. (Distinct(lh) /\ Distinct(dhead))'
  BY DEF LInv, install_trans, Distinct, Entries
<1>3. BusyInv'
  BY DEF LInv, install_trans, BusyInv, InTrans, Open, Committed
<1>4. PhaseInv'
  BY DEF LInv, TypeOK, install_trans, BusyInv, InTrans, Open, Committed, PhaseInv, Installed, Entries, Sectors, Distinct
<1>5. CacheInv'
  BY DEF LInv, TypeOK, install_trans, CacheInv, Entries, Distinct
<1> QED
  BY <1>2, <1>3, <1>4, <1>5 DEF LInv

\* The header is written with n = 0.
LEMMA EraseStep ==
  ASSUME LInv, erase, TypeOK',
         \/ rec = "install" /\ rec' = "done" /\ pc' = pc
         \/ \E p \in Proc : /\ pc[p] = "install" /\ rec = "done" /\ rec' = rec
                            /\ pc' = [pc EXCEPT ![p] = "unlock"]
  PROVE  LInv'
<1>2. (Distinct(lh) /\ Distinct(dhead))'
  BY DEF erase, Distinct, Entries
<1>3. BusyInv'
  BY DEF LInv, TypeOK, erase, BusyInv, InTrans, Open, Committed
<1>4. PhaseInv'
  BY DEF LInv, TypeOK, erase, BusyInv, InTrans, Open, Committed, PhaseInv, Installed, Entries, Sectors
<1>5. CacheInv'
  BY DEF LInv, TypeOK, erase, CacheInv, Entries
<1> QED
  BY <1>2, <1>3, <1>4, <1>5 DEF LInv

\* The end of commit_trans(): log.busy = 0 and wakeup().
LEMMA UnlockStep == ASSUME LInv, NEW p \in Proc, commit_unlock(p) PROVE LInv'
<1>1. TypeOK'
  BY TypeStep DEF Next
<1>2. (Distinct(lh) /\ Distinct(dhead) /\ CacheInv)'
  BY DEF LInv, commit_unlock, Distinct, CacheInv, Entries
<1>3. rec = "done" /\ busy' = 0 /\ UNCHANGED <<lh, dhead, dirty, rec>>
  BY DEF commit_unlock
<1>4. \A q \in Proc : pc[q] \in {"trans", "install", "unlock"} => q = p /\ pc[q] = "unlock"
  BY Zenon DEF LInv, BusyInv, InTrans, Open, Committed, commit_unlock
<1>5. \A q \in Proc : pc'[q] \notin {"trans", "install", "unlock", "asleep"}
  BY <1>4 DEF commit_unlock
<1>6. InTrans' = {}
  BY Zenon, <1>5 DEF InTrans, Open, Committed
<1>7. BusyInv'
  BY <1>3, <1>5, <1>6 DEF BusyInv
<1>8. lh = <<>> /\ dhead = <<>> /\ dirty = {}
  BY Zenon, <1>3, <1>4 DEF LInv, PhaseInv
<1>9. PhaseInv'
  BY <1>3, <1>5, <1>8 DEF PhaseInv
<1> QED
  BY <1>1, <1>2, <1>7, <1>9 DEF LInv

\* recover_from_log() reads the header.
LEMMA ReadHeadStep == ASSUME LInv, recover_read PROVE LInv'
<1>1. TypeOK'
  BY TypeStep DEF Next
<1>2. (Distinct(lh) /\ Distinct(dhead))'
  BY DEF LInv, recover_read, Distinct, Entries
<1>3. BusyInv'
  BY DEF LInv, recover_read, BusyInv, InTrans, Open, Committed
<1>4. (PhaseInv /\ CacheInv)'
  BY DEF LInv, TypeOK, recover_read, PhaseInv, CacheInv, Installed, Entries, BusyInv, InTrans, Open, Committed
<1> QED
  BY <1>1, <1>2, <1>3, <1>4 DEF LInv

\* Memory is lost, the disk is kept.
LEMMA CrashStep == ASSUME LInv, Crash PROVE LInv'
<1>1. TypeOK'
  BY TypeStep DEF Next
<1>2. (Distinct(lh) /\ Distinct(dhead))'
  BY DEF LInv, Crash, disk, Distinct, Entries
<1>3. (BusyInv /\ PhaseInv /\ CacheInv)'
  BY DEF Crash, BusyInv, InTrans, Open, Committed, PhaseInv, CacheInv, Entries
<1> QED
  BY <1>1, <1>2, <1>3 DEF LInv

\* Every step keeps the inductive invariant.
THEOREM LInvStep == LInv /\ [Next]_vars => LInv'
<1> SUFFICES ASSUME LInv, [Next]_vars PROVE LInv'
  OBVIOUS
<1>0. TypeOK'
  BY TypeStep
<1>1. ASSUME NEW b \in Block, bread(b) \/ bget(b) PROVE LInv'
  BY <1>1, BreadStep
<1>2. ASSUME NEW p \in Proc, begin_trans(p) PROVE LInv'
  BY <1>2, BeginStep
<1>3. ASSUME NEW p \in Proc, NEW b \in Block, NEW d \in Data, log_write(p, b, d)
      PROVE  LInv'
  BY <1>3, WriteStep
<1>4. ASSUME NEW p \in Proc, log_write_panic(p) PROVE LInv'
  BY <1>4, PanicStep
<1>5. ASSUME NEW p \in Proc, commit_trans(p) PROVE LInv'
  BY <1>5, CommitStepInv
<1>6. ASSUME NEW p \in Proc, commit_install(p) PROVE LInv'
  BY <1>0, <1>6, InstallStep DEF commit_install
<1>7. ASSUME NEW p \in Proc, commit_erase(p) PROVE LInv'
  BY Zenon, <1>0, <1>7, EraseStep DEF commit_erase
<1>8. ASSUME NEW p \in Proc, commit_unlock(p) PROVE LInv'
  BY <1>8, UnlockStep
<1>9. ASSUME recover_read PROVE LInv'
  BY <1>9, ReadHeadStep
<1>10. ASSUME recover_install PROVE LInv'
  BY <1>0, <1>10, InstallStep DEF recover_install
<1>11. ASSUME recover_erase PROVE LInv'
  BY <1>0, <1>11, EraseStep DEF recover_erase
<1>12. ASSUME Crash PROVE LInv'
  BY <1>12, CrashStep
<1>13. ASSUME UNCHANGED vars PROVE LInv'
  BY <1>13 DEF vars, LInv, TypeOK, Distinct, BusyInv, InTrans, Open, Committed, PhaseInv, CacheInv,
     Installed, Entries, Sectors
<1> QED
  BY <1>1, <1>2, <1>3, <1>4, <1>5, <1>6, <1>7, <1>8, <1>9, <1>10, <1>11, <1>12, <1>13 DEF Next

-----------------------------------------------------------------------------
\* Log never leaves the inductive invariant.
THEOREM Invariance == Spec => []LInv
<1> QED
  BY InitLInv, LInvStep, PTL DEF Spec

\* The type invariant holds for every instance.
THEOREM TypeCorrect == Spec => []TypeOK
<1>1. LInv => TypeOK
  BY DEF LInv
<1> QED
  BY <1>1, Invariance, PTL

\* log.c:13-14, for every set of processes: begin_trans() lets one system call
\* at a time into a transaction, and nobody sleeps in it with no transaction
\* left to wake them up.
THEOREM OneTransactionHolds == Spec => []OneTransaction
<1>1. LInv => OneTransaction
  BY DEF LInv, BusyInv, OneTransaction
<1> QED
  BY <1>1, Invariance, PTL

-----------------------------------------------------------------------------
(* Log implements AtomicStore.                                             *)

\* What recovery makes of the disk.
RecoveredOK ==
  /\ Recovered \in [Block -> Data]
  /\ \A i \in Entries(dhead) : Recovered[dhead[i]] = dlog[i]
  /\ \A b \in Block \ Sectors(dhead) : Recovered[b] = home[b]

\* Recovery takes the logged sectors from the log and the others from home.
LEMMA RecoveredFacts == LInv => RecoveredOK
<1> SUFFICES ASSUME LInv PROVE RecoveredOK
  OBVIOUS
<1> USE DEF LInv
<1>1. ASSUME NEW b \in Block, b \in Sectors(dhead)
      PROVE  Recovered[b] \in Data /\ \A i \in Entries(dhead) : dhead[i] = b => Recovered[b] = dlog[i]
  <2> DEFINE k == CHOOSE i \in Entries(dhead) : dhead[i] = b
  <2>1. \E i \in Entries(dhead) : dhead[i] = b
    BY <1>1 DEF Sectors
  <2>2. k \in Entries(dhead) /\ dhead[k] = b
    BY <2>1
  <2>3. Recovered[b] = dlog[k]
    BY <1>1 DEF Recovered
  <2>4. k \in 1 .. MaxLog
    BY <2>2, MaxLogNat DEF TypeOK, Entries
  <2> HIDE DEF k
  <2> QED
    BY Zenon, <2>2, <2>3, <2>4 DEF TypeOK, Distinct
<1>2. \A b \in Block : b \notin Sectors(dhead) => Recovered[b] = home[b]
  BY DEF Recovered
<1>3. \A i \in Entries(dhead) : dhead[i] \in Block /\ dhead[i] \in Sectors(dhead)
  BY DEF TypeOK, Entries, Sectors
<1>4. Recovered \in [Block -> Data]
  <2>1. \A b \in Block : Recovered[b] \in Data
    BY <1>1, <1>2 DEF TypeOK
  <2> QED
    BY <2>1 DEF Recovered
<1> QED
  BY <1>1, <1>2, <1>3, <1>4 DEF RecoveredOK

\* What bread() returns: in a transaction the home sectors overlaid with the
\* pinned buffers, otherwise exactly what a crash would leave.
ViewOK ==
  /\ View \in [Block -> Data]
  /\ (\A p \in Proc : pc[p] # "trans") => View = Recovered

\* Outside an open transaction reads return what a crash would leave.
LEMMA ViewFacts == LInv => ViewOK
<1> SUFFICES ASSUME LInv PROVE ViewOK
  OBVIOUS
<1> USE DEF LInv
<1>1. /\ Recovered \in [Block -> Data]
      /\ \A i \in Entries(dhead) : Recovered[dhead[i]] = dlog[i]
      /\ \A b \in Block \ Sectors(dhead) : Recovered[b] = home[b]
  BY RecoveredFacts DEF RecoveredOK
<1>2. View \in [Block -> Data]
  BY <1>1 DEF View, TypeOK
<1>3. ASSUME rec \in {"read", "install"} PROVE View = Recovered
  <2>1. \A b \in Block : View[b] = Recovered[b]
    BY <1>3 DEF View
  <2> QED
    BY <1>1, <1>2, <2>1
<1>4. ASSUME rec \in {"done", "halt"}, \A p \in Proc : pc[p] # "trans"
      PROVE  View = Recovered
  <2>1. ASSUME NEW p \in Proc, pc[p] = "install", NEW b \in Block
        PROVE  View[b] = Recovered[b]
    <3>1. dhead = lh /\ dirty = {lh[i] : i \in {j \in Entries(lh) : j >= tail}} /\ Installed
      BY <2>1 DEF PhaseInv
    <3>2. View[b] = IF cache[b] # None THEN cache[b] ELSE home[b]
      BY <1>4 DEF View
    <3>3. CASE b \in dirty
      <4>1. PICK i \in Entries(lh) : lh[i] = b
        BY <3>1, <3>3
      <4>2. cache[b] = dlog[i] /\ dlog[i] \in Data
        BY <3>3, <4>1, MaxLogNat DEF CacheInv, TypeOK, Entries
      <4> QED
        BY <1>1, <3>1, <3>2, <4>1, <4>2, NoneAssumption
    <3>4. CASE b \notin dirty
      <4>1. View[b] = home[b]
        BY <3>2, <3>4 DEF CacheInv
      <4>2. CASE b \in Sectors(lh)
        <5>1. PICK i \in Entries(lh) : lh[i] = b
          BY <4>2 DEF Sectors
        <5>2. i < tail
          BY <3>1, <3>4, <5>1 DEF Entries, TypeOK
        <5> QED
          BY <1>1, <3>1, <4>1, <5>1, <5>2 DEF Installed
      <4>3. CASE b \notin Sectors(lh)
        BY <1>1, <3>1, <4>1, <4>3
      <4> QED
        BY <4>2, <4>3
    <3> QED
      BY <3>3, <3>4
  <2>2. ASSUME \A p \in Proc : pc[p] # "install", NEW b \in Block
        PROVE  View[b] = Recovered[b]
    <3>1. dhead = <<>> /\ dirty = {}
      BY <1>4, <2>2 DEF PhaseInv
    <3>2. b \notin Sectors(dhead)
      BY <3>1 DEF Sectors, Entries
    <3> QED
      BY <1>1, <1>4, <3>1, <3>2 DEF View, CacheInv
  <2> QED
    BY <1>1, <1>2, <2>1, <2>2
<1> QED
  BY <1>2, <1>3, <1>4 DEF TypeOK, ViewOK

\* While the transaction is open, a crash would leave the home sectors.
LEMMA OpenFacts ==
  ASSUME LInv, NEW p \in Proc, pc[p] = "trans"
  PROVE  /\ Recovered = home
         /\ dhead = <<>> /\ dirty = Sectors(lh)
         /\ rec \in {"done", "halt"}
         /\ Open = {p} /\ Committed = {}
<1>1. dhead = <<>> /\ dirty = Sectors(lh)
  BY DEF LInv, PhaseInv
<1>2. Sectors(dhead) = {}
  BY <1>1 DEF Sectors, Entries
<1>3. Recovered = home
  BY <1>2, RecoveredFacts DEF RecoveredOK, LInv, TypeOK
<1> QED
  BY <1>1, <1>3 DEF LInv, TypeOK, BusyInv, InTrans, Open, Committed

\* install_trans() and erasing the header change neither what a crash would
\* leave nor what reads return.
LEMMA InstallStutters ==
  ASSUME LInv, LInv', install_trans, pc' = pc,
         rec' = rec, \A p \in Proc : pc[p] # "trans",
         rec = "install" \/ \E p \in Proc : pc[p] = "install"
  PROVE  Recovered' = Recovered /\ View' = View
<1> USE DEF LInv
<1>1. /\ Recovered \in [Block -> Data]
      /\ \A i \in Entries(dhead) : Recovered[dhead[i]] = dlog[i]
      /\ \A b \in Block \ Sectors(dhead) : Recovered[b] = home[b]
  BY RecoveredFacts DEF RecoveredOK
<1>2. dhead = lh /\ dhead' = dhead /\ dlog' = dlog
  BY DEF install_trans, PhaseInv
<1>a. (LInv => RecoveredOK /\ ViewOK)'
  BY RecoveredFacts, ViewFacts, PTL
<1>3. /\ Recovered' \in [Block -> Data]
      /\ \A i \in Entries(dhead) : Recovered'[dhead[i]] = dlog[i]
      /\ \A b \in Block \ Sectors(dhead) : Recovered'[b] = home'[b]
  BY <1>a, <1>2 DEF RecoveredOK, Entries, Sectors
<1>4. \A b \in Block \ Sectors(dhead) : home'[b] = home[b]
  BY <1>2 DEF install_trans, Sectors, Entries, TypeOK
<1>5. \A b \in Block : Recovered'[b] = Recovered[b]
  BY <1>1, <1>3, <1>4 DEF Sectors
<1>6. Recovered' = Recovered
  BY <1>1, <1>3, <1>5
<1>7. View = Recovered
  BY ViewFacts DEF ViewOK
<1>8. View' = Recovered'
  BY <1>a DEF ViewOK
<1> QED
  BY <1>6, <1>7, <1>8

\* Erasing the header after the last home sector is installed changes neither.
LEMMA EraseStutters ==
  ASSUME LInv, LInv', erase, \A p \in Proc : pc[p] # "trans" /\ pc'[p] # "trans",
         rec = "install" \/ \E p \in Proc : pc[p] = "install"
  PROVE  Recovered' = Recovered /\ View' = View
<1> USE DEF LInv
<1>1. RecoveredOK /\ ViewOK
  BY RecoveredFacts, ViewFacts
<1>2. RecoveredOK' /\ ViewOK'
  <2>1. (LInv => RecoveredOK /\ ViewOK)'
    BY RecoveredFacts, ViewFacts, PTL
  <2> QED
    BY <2>1
<1>3. dhead = lh /\ Installed /\ dhead' = <<>> /\ home' = home
  BY DEF erase, PhaseInv
<1>4. tail > Len(lh)
  BY DEF erase, Entries, TypeOK
<1>5. \A b \in Block : Recovered[b] = home[b]
  <2> TAKE b \in Block
  <2>1. CASE b \in Sectors(dhead)
    <3>1. PICK i \in Entries(dhead) : dhead[i] = b
      BY <2>1 DEF Sectors
    <3>2. home[dhead[i]] = dlog[i]
      BY <1>3, <1>4, <3>1 DEF Installed, Entries, TypeOK
    <3> QED
      BY <1>1, <3>1, <3>2 DEF RecoveredOK
  <2>2. CASE b \notin Sectors(dhead)
    BY <1>1, <2>2 DEF RecoveredOK
  <2> QED
    BY <2>1, <2>2
<1>6. \A b \in Block : Recovered'[b] = home[b]
  <2>1. Sectors(dhead)' = {}
    BY <1>3 DEF Sectors, Entries
  <2> QED
    BY <1>2, <1>3, <2>1 DEF RecoveredOK
<1>7. Recovered' = Recovered
  BY <1>1, <1>2, <1>5, <1>6 DEF RecoveredOK
<1> QED
  BY <1>1, <1>2, <1>7 DEF ViewOK

-----------------------------------------------------------------------------
(* One lemma for each kind of step of Log: what it is to AtomicStore.      *)

\* Reading a sector into a buffer, or recycling a clean buffer, is invisible.
LEMMA BreadSim ==
  ASSUME LInv, NEW b \in Block, bread(b) \/ bget(b)
  PROVE  UNCHANGED <<Recovered, View, Open, Committed>>
<1> USE DEF LInv
<1>1. UNCHANGED <<home, dlog, dhead, dirty, rec, pc>>
  BY DEF bread, bget
<1>2. Recovered' = Recovered /\ UNCHANGED <<Open, Committed>>
  BY <1>1 DEF Recovered, Open, Committed, Sectors, Entries
<1>3. \A c \in Block :
        (IF cache'[c] # None THEN cache'[c] ELSE home[c])
          = (IF cache[c] # None THEN cache[c] ELSE home[c])
  BY NoneAssumption DEF bread, bget, CacheInv, TypeOK
<1>4. View' = View
  BY <1>1, <1>2, <1>3 DEF View
<1> QED
  BY <1>2, <1>4

\* begin_trans() opens the transaction, or puts the caller to sleep.
LEMMA BeginSim ==
  ASSUME LInv, NEW p \in Proc, begin_trans(p)
  PROVE  Store!Begin(p) \/ UNCHANGED <<Recovered, View, Open, Committed>>
<1> USE DEF LInv
<1>1. UNCHANGED <<home, dlog, dhead, cache, rec>>
  BY DEF begin_trans
<1>2. Recovered' = Recovered
  BY <1>1 DEF Recovered, Sectors, Entries
<1>3. View' = View
  BY <1>1, <1>2 DEF View
<1>4. CASE busy = 1
  <2>1. UNCHANGED <<Open, Committed>>
    BY <1>4 DEF begin_trans, Open, Committed, TypeOK
  <2> QED
    BY <1>2, <1>3, <2>1
<1>5. CASE busy # 1
  <2>1. InTrans = {}
    BY <1>5 DEF TypeOK, BusyInv
  <2>2. Open = {} /\ Committed = {}
    BY <2>1 DEF InTrans
  <2>3. pc' = [pc EXCEPT ![p] = "trans"]
    BY <1>5 DEF begin_trans
  <2>4. Open' = {p} /\ Committed' = {}
    BY <2>2, <2>3 DEF Open, Committed, TypeOK
  <2> QED
    BY <1>2, <1>3, <2>2, <2>4 DEF Store!Begin
<1> QED
  BY <1>4, <1>5

\* log_write() is a write that reads see and a crash does not.
LEMMA WriteSim ==
  ASSUME LInv, LInv', NEW p \in Proc, NEW b \in Block, NEW d \in Data, log_write(p, b, d)
  PROVE  Store!Write(p, b, d)
<1> USE DEF LInv
<1>1. UNCHANGED <<home, dhead, rec, pc>> /\ pc[p] = "trans" /\ rec = "done"
  BY DEF log_write
<1>2. UNCHANGED <<Open, Committed>> /\ p \in Open
  BY <1>1 DEF Open, Committed
<1>3. dhead = <<>>
  BY <1>1, OpenFacts
<1>4. Recovered' = Recovered
  BY <1>1, <1>3 DEF Recovered, Sectors, Entries
<1>5. cache' = [cache EXCEPT ![b] = d]
  BY DEF log_write
<1>6. View' = [View EXCEPT ![b] = d]
  BY Zenon, <1>1, <1>5, NoneAssumption DEF View, TypeOK
<1> QED
  BY <1>2, <1>4, <1>6 DEF Store!Write

\* write_head() in commit_trans() makes all the writes durable at once, and the
\* transaction writes no more; an empty one is durable as it is.
LEMMA CommitSim ==
  ASSUME LInv, LInv', NEW p \in Proc, commit_trans(p)
  PROVE  Store!Commit(p)
<1> USE DEF LInv
<1>1. UNCHANGED <<home, cache, rec>> /\ pc[p] = "trans" /\ rec = "done"
  BY DEF commit_trans
<1>2. Open = {p} /\ Committed = {}
  BY <1>1, OpenFacts
<1>3. Open' = {} /\ Committed' = {p}
  <2>1. pc' \in {[pc EXCEPT ![p] = "install"], [pc EXCEPT ![p] = "unlock"]}
    BY DEF commit_trans
  <2> QED
    BY <1>2, <2>1 DEF Open, Committed, TypeOK
<1>4. View' = View
  BY <1>1 DEF View
<1>5. \A q \in Proc : pc'[q] # "trans"
  BY <1>3 DEF Open
<1>6. (LInv => ViewOK)'
  BY ViewFacts, PTL
<1>7. Recovered' = View'
  BY <1>5, <1>6 DEF ViewOK
<1> QED
  BY <1>2, <1>3, <1>4, <1>7 DEF Store!Commit

\* commit_trans() returns only after the commit, and changes nothing more.
LEMMA UnlockSim ==
  ASSUME LInv, LInv', NEW p \in Proc, commit_unlock(p)
  PROVE  Store!End(p)
<1> USE DEF LInv
<1>1. UNCHANGED <<home, dlog, dhead, cache, rec>> /\ pc[p] = "unlock"
  BY DEF commit_unlock
<1>2. Recovered' = Recovered
  BY <1>1 DEF Recovered, Sectors, Entries
<1>3. View' = View
  BY <1>1, <1>2 DEF View
<1>4. \A q \in InTrans : q = p
  BY <1>1 DEF BusyInv, InTrans, Committed
<1>5. Committed = {p} /\ Open = {}
  BY <1>1, <1>4 DEF InTrans, Open, Committed
<1>6. \A q \in Proc : pc'[q] \notin {"trans", "install", "unlock"}
  BY <1>5 DEF Open, Committed, commit_unlock, TypeOK
<1>7. Committed' = {} /\ Open' = {}
  BY <1>6 DEF Open, Committed
<1> QED
  BY <1>2, <1>3, <1>5, <1>7 DEF Store!End

\* panic() and read_head() change nothing that can be seen.
LEMMA QuietSim ==
  ASSUME LInv, recover_read \/ \E p \in Proc : log_write_panic(p)
  PROVE  UNCHANGED <<Recovered, View, Open, Committed>>
<1>1. UNCHANGED <<home, dlog, dhead, cache, pc>>
  BY DEF recover_read, log_write_panic
<1>2. Recovered' = Recovered /\ UNCHANGED <<Open, Committed>>
  BY <1>1 DEF Recovered, Open, Committed, Sectors, Entries
<1>3. (rec \in {"read", "install"}) <=> (rec' \in {"read", "install"})
  BY DEF recover_read, log_write_panic
<1>4. View' = View
  BY <1>1, <1>2, <1>3 DEF View
<1> QED
  BY <1>2, <1>4

\* A crash at any point loses the open transaction and nothing else.
LEMMA CrashSim ==
  ASSUME LInv, LInv', Crash
  PROVE  Store!Crash
<1>1. UNCHANGED <<home, dlog, dhead>> /\ \A p \in Proc : pc'[p] = "idle"
  BY DEF Crash, disk
<1>2. Recovered' = Recovered
  BY <1>1 DEF Recovered, Sectors, Entries
<1>3. Open' = {} /\ Committed' = {}
  BY <1>1 DEF Open, Committed
<1>4. (LInv => ViewOK)'
  BY ViewFacts, PTL
<1>5. View' = Recovered'
  BY <1>1, <1>4 DEF ViewOK
<1> QED
  BY <1>2, <1>3, <1>5 DEF Store!Crash

\* Installing and erasing, in commit_trans() or in recovery.
LEMMA InstallSim ==
  ASSUME LInv, LInv',
         \/ recover_install \/ recover_erase
         \/ \E p \in Proc : commit_install(p) \/ commit_erase(p)
  PROVE  UNCHANGED <<Recovered, View, Open, Committed>>
<1> USE DEF LInv
<1>1. CASE recover_install \/ recover_erase
  <2>1. \A p \in Proc : pc[p] # "trans" /\ pc'[p] # "trans"
    BY <1>1 DEF recover_install, recover_erase, BusyInv, InTrans, Open, Committed
  <2>2. UNCHANGED <<Open, Committed>>
    BY <1>1 DEF recover_install, recover_erase, Open, Committed
  <2>3. CASE recover_install
    BY <2>1, <2>2, <2>3, InstallStutters DEF recover_install
  <2>4. CASE recover_erase
    BY <2>1, <2>2, <2>4, EraseStutters DEF recover_erase
  <2> QED
    BY <1>1, <2>3, <2>4
<1>2. ASSUME NEW p \in Proc, commit_install(p) \/ commit_erase(p)
      PROVE  UNCHANGED <<Recovered, View, Open, Committed>>
  <2>1. pc[p] = "install" /\ pc' \in {pc, [pc EXCEPT ![p] = "unlock"]}
    BY <1>2 DEF commit_install, commit_erase
  <2>2. \A q \in Proc : pc[q] # "trans"
    BY <2>1 DEF BusyInv, InTrans, Open, Committed
  <2>3. UNCHANGED <<Open, Committed>> /\ \A q \in Proc : pc'[q] # "trans"
    BY <2>1, <2>2 DEF Open, Committed, TypeOK
  <2>4. CASE commit_install(p)
    BY <2>1, <2>2, <2>3, <2>4, InstallStutters DEF commit_install
  <2>5. CASE commit_erase(p)
    BY <2>1, <2>2, <2>3, <2>5, EraseStutters DEF commit_erase
  <2> QED
    BY <1>2, <2>4, <2>5
<1> QED
  BY <1>1, <1>2

\* Every step of Log is a step of AtomicStore or invisible to it.
THEOREM StepSimulation ==
  ASSUME LInv, LInv', [Next]_vars
  PROVE  [Store!Next]_Store!vars
<1> USE DEF Store!vars, Store!Next
<1>1. ASSUME NEW b \in Block, bread(b) \/ bget(b) PROVE [Store!Next]_Store!vars
  BY <1>1, BreadSim
<1>2. ASSUME NEW p \in Proc, begin_trans(p) PROVE [Store!Next]_Store!vars
  BY <1>2, BeginSim
<1>3. ASSUME NEW p \in Proc, NEW b \in Block, NEW d \in Data, log_write(p, b, d)
      PROVE  [Store!Next]_Store!vars
  BY <1>3, WriteSim
<1>4. ASSUME NEW p \in Proc, commit_trans(p) PROVE [Store!Next]_Store!vars
  BY <1>4, CommitSim
<1>5. ASSUME NEW p \in Proc, commit_unlock(p) PROVE [Store!Next]_Store!vars
  BY <1>5, UnlockSim
<1>6. CASE recover_read \/ \E p \in Proc : log_write_panic(p)
  BY <1>6, QuietSim
<1>7. CASE \/ recover_install \/ recover_erase
           \/ \E p \in Proc : commit_install(p) \/ commit_erase(p)
  BY <1>7, InstallSim
<1>8. CASE Crash
  BY <1>8, CrashSim
<1>9. CASE UNCHANGED vars
  <2>1. UNCHANGED <<Recovered, Open, Committed>>
    BY <1>9 DEF vars, Recovered, Open, Committed, Sectors, Entries
  <2>2. View' = View
    BY <1>9, <2>1 DEF vars, View
  <2> QED
    BY <2>1, <2>2
<1> QED
  BY <1>1, <1>2, <1>3, <1>4, <1>5, <1>6, <1>7, <1>8, <1>9 DEF Next

\* log.c makes system calls atomic: Log implements AtomicStore for any
\* number of processes and blocks and any log size.
THEOREM Refinement == Spec => AtomicTransactions
<1>1. Init => Store!Init
  <2> SUFFICES ASSUME Init PROVE Store!Init
    OBVIOUS
  <2>1. LInv
    BY InitLInv
  <2>2. \A p \in Proc : pc[p] = "idle"
    BY DEF Init
  <2> QED
    BY <2>1, <2>2, ViewFacts, RecoveredFacts DEF Store!Init, ViewOK, RecoveredOK, Open, Committed
<1>2. LInv /\ LInv' /\ [Next]_vars => [Store!Next]_Store!vars
  BY StepSimulation
<1> QED
  BY <1>1, <1>2, Invariance, PTL DEF Spec, AtomicTransactions, Store!Spec
=============================================================================
