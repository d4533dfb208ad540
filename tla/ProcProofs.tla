----------------------------- MODULE ProcProofs -----------------------------
(***************************************************************************)
(* Proofs about Proc, for any number of slots and of pids: that the table  *)
(* of processes stays a tree with init at its root, whatever fork(),       *)
(* exit(), wait() and kill() do in whatever order, and that no wait()      *)
(* sleeps on.                                                              *)
(***************************************************************************)
EXTENDS Proc, FiniteSetTheorems, TLAPS

\* Where a process is in the middle of fork().
Making == {"kstack", "copyuvm", "ready"}

\* A fork() in progress has a slot of its own, in EMBRYO, and has done to it
\* what it does before the place where it is.
MakerInv ==
  /\ \A p \in Slot : np[p] # None <=> pc[p] \in Making
  /\ \A p \in Slot : np[p] # None => state[p] = "RUNNABLE" /\ state[np[p]] = "EMBRYO"
  /\ \A p, q \in Slot : np[p] = np[q] /\ np[p] # None => p = q
  /\ \A q \in Slot : state[q] = "EMBRYO" => \E p \in Slot : np[p] = q
  /\ \A p \in Slot : np[p] # None =>
       /\ kstack[np[p]] = (IF pc[p] = "kstack" THEN 0 ELSE 1)
       /\ parent[np[p]] = (IF pc[p] = "ready" THEN p ELSE None)

\* nextpid has never been given out, and the slots in use have their own pids.
PidInv ==
  /\ \A p \in Slot : pid[p] < nextpid /\ (state[p] # "UNUSED" => pid[p] # 0)
  /\ \A p, q \in Slot :
       p # q /\ state[p] # "UNUSED" /\ state[q] # "UNUSED" => pid[p] # pid[q]

\* init lives and is nobody's child; whoever is named as a parent lives.
ParentInv ==
  /\ Live(initproc) /\ parent[initproc] = None
  /\ \A p \in Slot : parent[p] # p
  /\ \A p \in Slot : parent[p] # None => Live(parent[p])
  /\ \A p \in Slot \ {initproc} : Live(p) \/ state[p] = "ZOMBIE" => parent[p] # None
  /\ \A p \in Slot : state[p] = "UNUSED" => parent[p] = None

PInv ==
  /\ TypeOK
  /\ MakerInv
  /\ PidInv
  /\ KstackMatches
  /\ ParentInv
  /\ NoWaitLost

-----------------------------------------------------------------------------
\* What the checked properties say follows from the inductive invariant.
LEMMA PInvTree == PInv => TreeOK
<1> SUFFICES ASSUME PInv PROVE TreeOK
  OBVIOUS
<1> USE ProcAssumption DEF PInv
<1>1. ASSUME NEW q \in Slot
      PROVE  state[q] = "EMBRYO" <=> Cardinality({p \in Slot : np[p] = q}) = 1
  <2>1. CASE state[q] = "EMBRYO"
    <3>1. PICK p \in Slot : np[p] = q
      BY <2>1 DEF MakerInv
    <3>2. {x \in Slot : np[x] = q} = {p}
      BY <3>1 DEF MakerInv
    <3> QED
      BY Zenon, <2>1, <3>2, FS_Singleton
  <2>2. CASE state[q] # "EMBRYO"
    <3>1. {x \in Slot : np[x] = q} = {}
      BY <2>2 DEF MakerInv
    <3> QED
      BY <2>2, <3>1, FS_EmptySet
  <2> QED
    BY <2>1, <2>2
<1>2. EmbryoHasOneMaker
  BY <1>1 DEF EmbryoHasOneMaker, PidInv
<1> QED
  BY <1>2 DEF TreeOK, ParentInv

\* userinit().
LEMMA InitPInv == Init => PInv
<1> SUFFICES ASSUME Init PROVE PInv
  OBVIOUS
<1> USE ProcAssumption DEF Init
<1>1. TypeOK
  <2>1. pid \in [Slot -> 0 .. MaxPid] /\ nextpid \in 2 .. MaxPid + 1
    OBVIOUS
  <2>2. state \in [Slot -> State] /\ kstack \in [Slot -> {0, 1}] /\ killed \in [Slot -> {0, 1}]
    BY DEF State
  <2>3. /\ parent \in [Slot -> Slot \cup {None}] /\ np \in [Slot -> Slot \cup {None}]
        /\ chan \in [Slot -> Slot \cup {"event", None}] /\ pc \in [Slot -> Label]
    BY DEF Label
  <2> QED
    BY Zenon, <2>1, <2>2, <2>3 DEF TypeOK
<1>2. MakerInv
  BY DEF MakerInv, Making
<1>3. PidInv
  BY DEF PidInv
<1>4. KstackMatches
  BY DEF KstackMatches, Live
<1>5. ParentInv
  BY DEF ParentInv, Live
<1>6. NoWaitLost
  BY DEF NoWaitLost
<1> QED
  BY <1>1, <1>2, <1>3, <1>4, <1>5, <1>6 DEF PInv

-----------------------------------------------------------------------------
(* The steps.                                                              *)

\* A step that makes and ends no process, and leaves the forks in progress
\* where they are: it puts live processes to sleep or wakes them.
LEMMA QuietStep ==
  ASSUME PInv, TypeOK', NoWaitLost',
         UNCHANGED <<pid, parent, kstack, nextpid, np>>,
         \A q \in Slot : state'[q] = state[q] \/ (Live(q) /\ Live(q)'),
         \A q \in Slot : np[q] # None => pc'[q] = pc[q] /\ state'[q] = "RUNNABLE",
         \A q \in Slot : np[q] = None => pc'[q] \notin Making
  PROVE  PInv'
<1> USE ProcAssumption DEF PInv
<1>1. \A q \in Slot : /\ Live(q)' <=> Live(q)
                      /\ state'[q] = "EMBRYO" <=> state[q] = "EMBRYO"
                      /\ state'[q] = "ZOMBIE" <=> state[q] = "ZOMBIE"
                      /\ state'[q] = "UNUSED" <=> state[q] = "UNUSED"
  BY DEF Live
<1>2. MakerInv'
  BY <1>1 DEF MakerInv, TypeOK
<1>3. PidInv'
  BY <1>1 DEF PidInv
<1>4. KstackMatches'
  BY <1>1 DEF KstackMatches
<1>5. ParentInv'
  BY <1>1 DEF ParentInv, TypeOK
<1> QED
  BY <1>2, <1>3, <1>4, <1>5

\* allocproc(): the slot was nobody's, and the pid is new.
LEMMA AllocprocStep ==
  ASSUME PInv, NEW p \in Slot, allocproc(p)
  PROVE  PInv'
<1> USE ProcAssumption DEF PInv
<1>1. PICK q \in Slot :
        /\ state[q] = "UNUSED" /\ state' = [state EXCEPT ![q] = "EMBRYO"]
        /\ pid' = [pid EXCEPT ![q] = nextpid] /\ np' = [np EXCEPT ![p] = q]
  BY Zenon DEF allocproc
<1>2. /\ nextpid' = nextpid + 1 /\ nextpid <= MaxPid /\ pc' = [pc EXCEPT ![p] = "kstack"]
      /\ UNCHANGED <<parent, killed, chan, kstack, panicked, victims>>
      /\ state[p] = "RUNNABLE" /\ pc[p] = "user"
  BY DEF allocproc, Enters, Runs, Goto
<1>3. TypeOK'
  BY <1>1, <1>2 DEF TypeOK, State, Label
<1>4. /\ \A x \in Slot : state'[x] = IF x = q THEN "EMBRYO" ELSE state[x]
      /\ \A x \in Slot : np'[x] = IF x = p THEN q ELSE np[x]
      /\ \A x \in Slot : pc'[x] = IF x = p THEN "kstack" ELSE pc[x]
      /\ \A x \in Slot : pid'[x] = IF x = q THEN nextpid ELSE pid[x]
      /\ p # q /\ np[p] = None /\ \A x \in Slot : np[x] # q
  BY <1>1, <1>2 DEF TypeOK, MakerInv, Making
<1>5. kstack[q] = 0 /\ parent[q] = None /\ ~Live(q)
  BY <1>1 DEF KstackMatches, ParentInv, Live
<1>6. MakerInv'
  <2>1. \A x \in Slot : np'[x] # None <=> pc'[x] \in Making
    BY <1>4 DEF MakerInv, Making
  <2>2. \A x \in Slot : np'[x] # None => state'[x] = "RUNNABLE" /\ state'[np'[x]] = "EMBRYO"
    BY <1>1, <1>2, <1>4 DEF MakerInv, TypeOK
  <2>3. \A x, y \in Slot : np'[x] = np'[y] /\ np'[x] # None => x = y
    BY <1>4 DEF MakerInv
  <2>4. \A x \in Slot : state'[x] = "EMBRYO" => \E y \in Slot : np'[y] = x
    BY <1>4 DEF MakerInv
  <2>5. ASSUME NEW x \in Slot, np'[x] # None
        PROVE  /\ kstack'[np'[x]] = (IF pc'[x] = "kstack" THEN 0 ELSE 1)
               /\ parent'[np'[x]] = (IF pc'[x] = "ready" THEN x ELSE None)
    BY <1>2, <1>4, <1>5, <2>5 DEF MakerInv
  <2> QED
    BY <2>1, <2>2, <2>3, <2>4, <2>5 DEF MakerInv
<1>7. PidInv'
  BY <1>2, <1>4 DEF PidInv, TypeOK
<1>8. \A x \in Slot : Live(x)' <=> Live(x)
  BY <1>4, <1>5 DEF Live
<1>9. KstackMatches'
  BY <1>2, <1>4, <1>8 DEF KstackMatches
<1>10. ParentInv'
  BY <1>2, <1>4, <1>5, <1>8 DEF ParentInv, TypeOK
<1>11. NoWaitLost'
  BY <1>2, <1>4 DEF NoWaitLost, Children
<1> QED
  BY <1>3, <1>6, <1>7, <1>9, <1>10, <1>11

\* A failing fork() gives its slot back as it was, but for the pid.
LEMMA GiveUpStep ==
  ASSUME PInv, NEW p \in Slot, pc[p] \in {"kstack", "copyuvm"},
         state' = [state EXCEPT ![np[p]] = "UNUSED"],
         np' = [np EXCEPT ![p] = None],
         pc' = [pc EXCEPT ![p] = "return"],
         kstack' = [kstack EXCEPT ![np[p]] = 0],
         UNCHANGED <<pid, parent, killed, chan, nextpid, panicked, victims>>
  PROVE  PInv'
<1> USE ProcAssumption DEF PInv
<1> DEFINE q == np[p]
<1>1. q \in Slot /\ state[q] = "EMBRYO" /\ parent[q] = None /\ p # q
  BY DEF MakerInv, Making, TypeOK
<1>2. /\ \A x \in Slot : state'[x] = IF x = q THEN "UNUSED" ELSE state[x]
      /\ \A x \in Slot : np'[x] = IF x = p THEN None ELSE np[x]
      /\ \A x \in Slot : pc'[x] = IF x = p THEN "return" ELSE pc[x]
      /\ \A x \in Slot : kstack'[x] = IF x = q THEN 0 ELSE kstack[x]
  BY <1>1 DEF TypeOK
<1>3. TypeOK'
  BY <1>1 DEF TypeOK, State, Label
<1>4. \A x \in Slot : x # p => np[x] # q
  BY <1>1 DEF MakerInv
<1> HIDE DEF q
<1>5. MakerInv'
  BY <1>1, <1>2, <1>4 DEF MakerInv, Making, TypeOK
<1>6. PidInv'
  BY <1>1, <1>2 DEF PidInv
<1>7. \A x \in Slot : Live(x)' <=> Live(x)
  BY <1>1, <1>2 DEF Live
<1>8. KstackMatches'
  BY <1>1, <1>2 DEF KstackMatches, Live
<1>9. ParentInv'
  BY <1>1, <1>2, <1>7 DEF ParentInv, TypeOK
<1>10. NoWaitLost'
  BY <1>1, <1>2 DEF NoWaitLost, Children
<1> QED
  BY <1>3, <1>5, <1>6, <1>8, <1>9, <1>10

\* The kernel stack, copyuvm() and np->parent.
LEMMA ForkMidStep ==
  ASSUME PInv, NEW p \in Slot, allocproc_kstack(p) \/ fork_copyuvm(p)
  PROVE  PInv'
<1> USE ProcAssumption DEF PInv
<1> DEFINE q == np[p]
<1>1. pc[p] \in {"kstack", "copyuvm"} /\ state[p] = "RUNNABLE"
  BY DEF allocproc_kstack, fork_copyuvm, Runs
<1>2. q \in Slot /\ state[q] = "EMBRYO" /\ parent[q] = None /\ p # q
      /\ kstack[q] = (IF pc[p] = "kstack" THEN 0 ELSE 1)
  BY <1>1 DEF MakerInv, Making, TypeOK
<1>3. \A x \in Slot : x # p => np[x] # q
  BY <1>2 DEF MakerInv
<1>4. CASE np' # np
  <2>1. CASE pc[p] = "kstack"
    <3>1. kstack' = kstack /\ kstack[q] = 0
      BY <1>2, <1>4, <2>1 DEF allocproc_kstack, fork_copyuvm, Runs
    <3>2. kstack' = [kstack EXCEPT ![np[p]] = 0]
      BY <1>2, <3>1 DEF TypeOK
    <3> QED
      BY Zenon, <1>4, <2>1, <3>2, GiveUpStep DEF allocproc_kstack, fork_copyuvm, Runs, Goto
  <2>2. CASE pc[p] = "copyuvm"
    BY <1>4, <2>2, GiveUpStep DEF allocproc_kstack, fork_copyuvm, Runs, Goto
  <2> QED
    BY <1>1, <2>1, <2>2
<1>5. CASE np' = np /\ pc[p] = "kstack"
  <2>1. /\ kstack' = [kstack EXCEPT ![q] = 1] /\ pc' = [pc EXCEPT ![p] = "copyuvm"]
        /\ UNCHANGED <<state, np, pid, parent, killed, chan, nextpid, panicked, victims>>
    BY <1>2, <1>5 DEF allocproc_kstack, fork_copyuvm, Runs, Goto, TypeOK
  <2> HIDE DEF q
  <2>2. /\ \A x \in Slot : kstack'[x] = IF x = q THEN 1 ELSE kstack[x]
        /\ \A x \in Slot : pc'[x] = IF x = p THEN "copyuvm" ELSE pc[x]
    BY <1>2, <2>1 DEF TypeOK
  <2>3. TypeOK'
    BY Zenon, <2>1 DEF TypeOK, Label
  <2>4. MakerInv'
    BY <1>2, <1>3, <1>5, <2>1, <2>2 DEF MakerInv, Making, TypeOK, q
  <2>5. KstackMatches'
    BY <1>2, <2>1, <2>2 DEF KstackMatches, Live
  <2>6. PidInv' /\ ParentInv' /\ NoWaitLost'
    BY <2>1 DEF PidInv, ParentInv, NoWaitLost, Live, Children
  <2> QED
    BY <2>3, <2>4, <2>5, <2>6
<1>6. CASE np' = np /\ pc[p] = "copyuvm"
  <2>1. /\ parent' = [parent EXCEPT ![q] = p] /\ pc' = [pc EXCEPT ![p] = "ready"]
        /\ UNCHANGED <<state, np, pid, kstack, killed, chan, nextpid, panicked, victims>>
    BY <1>2, <1>6 DEF allocproc_kstack, fork_copyuvm, Runs, Goto, TypeOK
  <2> HIDE DEF q
  <2>2. /\ \A x \in Slot : parent'[x] = IF x = q THEN p ELSE parent[x]
        /\ \A x \in Slot : pc'[x] = IF x = p THEN "ready" ELSE pc[x]
    BY <1>2, <2>1 DEF TypeOK
  <2>3. TypeOK'
    BY Zenon, <2>1 DEF TypeOK, Label
  <2>4. MakerInv'
    BY <1>2, <1>3, <1>6, <2>1, <2>2 DEF MakerInv, Making, TypeOK, q
  <2>5. PidInv' /\ KstackMatches'
    BY <2>1 DEF PidInv, KstackMatches, Live
  <2>6. ParentInv'
    BY <1>1, <1>2, <2>1, <2>2 DEF ParentInv, Live
  <2>7. NoWaitLost'
    BY <1>1, <1>2, <2>1, <2>2 DEF NoWaitLost, Children
  <2> QED
    BY <2>3, <2>4, <2>5, <2>6, <2>7
<1> QED
  BY <1>1, <1>4, <1>5, <1>6

\* np->state = RUNNABLE: the child is complete.
LEMMA ForkStep ==
  ASSUME PInv, NEW p \in Slot, fork(p)
  PROVE  PInv'
<1> USE ProcAssumption DEF PInv
<1> DEFINE q == np[p]
<1>1. pc[p] = "ready" /\ state[p] = "RUNNABLE"
  BY DEF fork, Runs
<1>2. q \in Slot /\ state[q] = "EMBRYO" /\ parent[q] = p /\ p # q /\ kstack[q] = 1
      /\ np[q] = None
  BY <1>1 DEF MakerInv, Making, TypeOK
<1>3. \A x \in Slot : x # p => np[x] # q
  BY <1>2 DEF MakerInv
<1>4. /\ state' = [state EXCEPT ![q] = "RUNNABLE"] /\ np' = [np EXCEPT ![p] = None]
      /\ pc' = [pc EXCEPT ![p] = "return", ![q] = "return"]
      /\ UNCHANGED <<pid, parent, killed, chan, kstack, nextpid, panicked, victims>>
  BY DEF fork
<1> HIDE DEF q
<1>5. TypeOK'
  BY Zenon, <1>4 DEF TypeOK, State, Label
<1>6. /\ \A x \in Slot : state'[x] = IF x = q THEN "RUNNABLE" ELSE state[x]
      /\ \A x \in Slot : np'[x] = IF x = p THEN None ELSE np[x]
      /\ \A x \in Slot : pc'[x] = IF x \in {p, q} THEN "return" ELSE pc[x]
  BY <1>2, <1>4 DEF TypeOK
<1>7. MakerInv'
  <2>1. \A x \in Slot : np'[x] # None <=> pc'[x] \in Making
    BY <1>2, <1>6 DEF MakerInv, Making
  <2>2. \A x \in Slot : np'[x] # None => state'[x] = "RUNNABLE" /\ state'[np'[x]] = "EMBRYO"
    BY <1>2, <1>3, <1>6 DEF MakerInv, TypeOK
  <2>3. \A x, y \in Slot : np'[x] = np'[y] /\ np'[x] # None => x = y
    BY <1>6 DEF MakerInv
  <2>4. \A x \in Slot : state'[x] = "EMBRYO" => \E y \in Slot : np'[y] = x
    BY <1>6 DEF MakerInv, q
  <2>5. ASSUME NEW x \in Slot, np'[x] # None
        PROVE  /\ kstack'[np'[x]] = (IF pc'[x] = "kstack" THEN 0 ELSE 1)
               /\ parent'[np'[x]] = (IF pc'[x] = "ready" THEN x ELSE None)
    <3>1. np'[x] = np[x] /\ np[x] # None /\ pc'[x] = pc[x]
      BY <1>2, <1>6, <2>5
    <3> QED
      BY <1>4, <3>1 DEF MakerInv
  <2> QED
    BY <2>1, <2>2, <2>3, <2>4, <2>5 DEF MakerInv
<1>8. PidInv'
  BY <1>2, <1>4, <1>6 DEF PidInv
<1>9. KstackMatches'
  BY <1>2, <1>4, <1>6 DEF KstackMatches, Live
<1>10. ParentInv'
  BY <1>1, <1>2, <1>4, <1>6 DEF ParentInv, Live, TypeOK
<1>11. NoWaitLost'
  BY <1>2, <1>4, <1>6 DEF NoWaitLost, Children
<1> QED
  BY <1>5, <1>7, <1>8, <1>9, <1>10, <1>11

\* exit(): the children go to init, which lives, and whoever has to reap a
\* zombie now is awake.
LEMMA ExitStep ==
  ASSUME PInv, NEW p \in Slot, sys_exit(p) \/ trap_exit(p)
  PROVE  PInv'
<1> USE ProcAssumption DEF PInv
<1>1. /\ state[p] = "RUNNABLE" /\ pc[p] \in {"user", "return"} /\ exit(p)
      /\ UNCHANGED <<pid, killed, chan, kstack, nextpid, np, victims>>
  BY DEF sys_exit, trap_exit, Enters, Runs
<1>2. CASE p = initproc
  <2>1. UNCHANGED <<state, parent, pc>> /\ panicked' = TRUE
    BY <1>1, <1>2 DEF exit
  <2>2. TypeOK' /\ NoWaitLost'
    BY <1>1, <2>1 DEF TypeOK, NoWaitLost, Children
  <2>3. \A x \in Slot : np[x] # None => state'[x] = "RUNNABLE"
    BY <2>1 DEF MakerInv
  <2>4. \A x \in Slot : np[x] = None => pc'[x] \notin Making
    BY <2>1 DEF MakerInv
  <2> QED
    BY <1>1, <2>1, <2>2, <2>3, <2>4, QuietStep
<1>3. CASE p # initproc
  <2> DEFINE par == parent[p]
             orphan == \E c \in Children(p) : state[c] = "ZOMBIE"
             woken(x) == state[x] = "SLEEPING" /\ (chan[x] = par \/ (orphan /\ chan[x] = initproc))
  <2>1. /\ parent' = [c \in Slot |-> IF parent[c] = p THEN initproc ELSE parent[c]]
        /\ pc' = [pc EXCEPT ![p] = "user"] /\ UNCHANGED panicked
        /\ state' = [IF orphan THEN wakeup1(wakeup1(state, par), initproc) ELSE wakeup1(state, par)
                       EXCEPT ![p] = "ZOMBIE"]
    BY <1>1, <1>3 DEF exit, Goto
  <2> HIDE DEF par, orphan
  <2>2. /\ state' \in [Slot -> State]
        /\ \A x \in Slot : state'[x] = IF x = p THEN "ZOMBIE"
                                       ELSE IF woken(x) THEN "RUNNABLE" ELSE state[x]
    BY <2>1 DEF wakeup1, TypeOK, State
  <2> HIDE DEF woken
  <2>3. /\ \A x \in Slot : parent'[x] = IF parent[x] = p THEN initproc ELSE parent[x]
        /\ \A x \in Slot : pc'[x] = IF x = p THEN "user" ELSE pc[x]
    BY <2>1 DEF TypeOK
  <2>4. TypeOK'
    BY <1>1, <2>1, <2>2 DEF TypeOK, Label
  <2>5. np[p] = None
    BY <1>1 DEF MakerInv, Making
  <2>6. \A x \in Slot \ {p} : /\ Live(x)' <=> Live(x)
                              /\ state'[x] = "EMBRYO" <=> state[x] = "EMBRYO"
                              /\ state'[x] = "ZOMBIE" <=> state[x] = "ZOMBIE"
                              /\ state'[x] = "UNUSED" <=> state[x] = "UNUSED"
                              /\ state[x] = "RUNNABLE" => state'[x] = "RUNNABLE"
    BY <2>2 DEF Live, woken
  <2>7. state'[p] = "ZOMBIE" /\ state[p] = "RUNNABLE" /\ Live(p) /\ ~Live(p)'
    BY <1>1, <2>2 DEF Live
  <2>8. MakerInv'
    <3>1. \A x \in Slot : np[x] # None <=> pc'[x] \in Making
      BY <2>3, <2>5 DEF MakerInv, Making
    <3>2. \A x \in Slot : np[x] # None =>
            x # p /\ np[x] \in Slot \ {p} /\ parent[np[x]] # p /\ pc'[x] = pc[x]
      BY <2>3, <2>5, <2>7 DEF MakerInv, TypeOK
    <3>3. \A x \in Slot : np[x] # None => state'[x] = "RUNNABLE" /\ state'[np[x]] = "EMBRYO"
      BY <2>6, <3>2 DEF MakerInv
    <3>4. \A x \in Slot : state'[x] = "EMBRYO" => \E y \in Slot : np[y] = x
      BY <2>6, <2>7 DEF MakerInv
    <3>5. \A x \in Slot : np[x] # None => parent'[np[x]] = parent[np[x]]
      BY <2>3, <3>2
    <3> QED
      BY <1>1, <3>1, <3>2, <3>3, <3>4, <3>5 DEF MakerInv
  <2>9. PidInv'
    BY <1>1, <2>6, <2>7 DEF PidInv
  <2>10. KstackMatches'
    BY <1>1, <2>6, <2>7 DEF KstackMatches
  <2>11. ParentInv'
    BY <1>3, <2>3, <2>6, <2>7 DEF ParentInv, TypeOK
  <2>12. NoWaitLost'
    <3> SUFFICES ASSUME NEW x \in Slot, state'[x] = "SLEEPING", chan'[x] = x
                 PROVE  /\ \A c \in Children(x)' : state'[c] # "ZOMBIE"
                        /\ Children(x)' # {} /\ killed'[x] = 0
      BY DEF NoWaitLost
    <3>1. x # p /\ state[x] = "SLEEPING" /\ chan[x] = x /\ ~woken(x) /\ x # par
      BY <1>1, <2>2, <2>7 DEF woken
    <3>2. /\ \A c \in Slot : parent[c] = x => state[c] # "ZOMBIE"
          /\ \E c \in Slot : parent[c] = x
          /\ killed[x] = 0
      BY <3>1 DEF NoWaitLost, Children
    <3>3. ASSUME NEW c \in Slot, parent'[c] = x PROVE state'[c] # "ZOMBIE"
      <4>1. CASE parent[c] = x
        BY <2>6, <3>1, <3>2, <4>1 DEF par
      <4>2. CASE parent[c] # x
        <5>1. x = initproc /\ parent[c] = p
          BY <2>3, <3>3, <4>2
        <5>2. ~orphan
          BY <3>1, <5>1 DEF woken
        <5>3. state[c] # "ZOMBIE" /\ c # p
          BY <5>1, <5>2 DEF orphan, Children, ParentInv
        <5> QED
          BY <2>6, <5>3
      <4> QED
        BY <4>1, <4>2
    <3>4. \E c \in Slot : parent'[c] = x
      BY <2>3, <3>1, <3>2
    <3> QED
      BY <1>1, <3>2, <3>3, <3>4 DEF Children
  <2> QED
    BY <2>4, <2>8, <2>9, <2>10, <2>11, <2>12
<1> QED
  BY <1>2, <1>3

\* wait(): a zombie has no children any more and nobody's fork() is about it.
LEMMA ReapStep ==
  ASSUME PInv, NEW p \in Slot, Runs(p, "wait"), wait_reap(p),
         UNCHANGED <<nextpid, np, panicked, victims>>
  PROVE  PInv'
<1> USE ProcAssumption DEF PInv
<1>1. PICK c \in Slot :
        /\ parent[c] = p /\ state[c] = "ZOMBIE"
        /\ state' = [state EXCEPT ![c] = "UNUSED"]
        /\ pid' = [pid EXCEPT ![c] = 0]
        /\ parent' = [parent EXCEPT ![c] = None]
        /\ killed' = [killed EXCEPT ![c] = 0]
        /\ kstack' = [kstack EXCEPT ![c] = 0]
        /\ pc' = [pc EXCEPT ![p] = "return"]
        /\ UNCHANGED chan
  BY Zenon DEF wait_reap, Children, Goto
<1>2. state[p] = "RUNNABLE" /\ pc[p] = "wait" /\ p # c
  BY <1>1 DEF Runs
<1>3. TypeOK'
  BY <1>1 DEF TypeOK, State, Label
<1>4. /\ \A x \in Slot : state'[x] = IF x = c THEN "UNUSED" ELSE state[x]
      /\ \A x \in Slot : pid'[x] = IF x = c THEN 0 ELSE pid[x]
      /\ \A x \in Slot : parent'[x] = IF x = c THEN None ELSE parent[x]
      /\ \A x \in Slot : kstack'[x] = IF x = c THEN 0 ELSE kstack[x]
      /\ \A x \in Slot : killed'[x] = IF x = c THEN 0 ELSE killed[x]
      /\ \A x \in Slot : pc'[x] = IF x = p THEN "return" ELSE pc[x]
  BY <1>1 DEF TypeOK
<1>5. np[p] = None /\ np[c] = None /\ \A x \in Slot : np[x] # c
  BY <1>1, <1>2 DEF MakerInv, Making
<1>6. MakerInv'
  <2>1. \A x \in Slot : np[x] # None <=> pc'[x] \in Making
    BY <1>4, <1>5 DEF MakerInv, Making
  <2>2. \A x \in Slot : np[x] # None =>
          /\ np[x] \in Slot \ {c} /\ x # c /\ pc'[x] = pc[x]
          /\ state'[x] = state[x] /\ state'[np[x]] = state[np[x]]
          /\ kstack'[np[x]] = kstack[np[x]] /\ parent'[np[x]] = parent[np[x]]
    BY <1>4, <1>5 DEF TypeOK
  <2>3. \A x \in Slot : state'[x] = "EMBRYO" => \E y \in Slot : np[y] = x
    BY <1>4 DEF MakerInv
  <2> QED
    BY <2>1, <2>2, <2>3 DEF MakerInv
<1>7. PidInv'
  BY <1>4 DEF PidInv, TypeOK
<1>8. KstackMatches'
  BY <1>4 DEF KstackMatches, Live
<1>9. \A x \in Slot : Live(x)' <=> Live(x)
  BY <1>1, <1>4 DEF Live
<1>10. ParentInv'
  BY <1>1, <1>4, <1>9 DEF ParentInv, Live, TypeOK
<1>11. NoWaitLost'
  BY <1>1, <1>2, <1>4 DEF NoWaitLost, Children
<1> QED
  BY <1>3, <1>6, <1>7, <1>8, <1>10, <1>11

\* The steps that put their process to sleep, or only move it.
LEMMA OwnStep ==
  ASSUME PInv, NEW p \in Slot,
         \/ sys_wait(p) \/ trap_return(p) \/ trap_fault(p) \/ sys_sleep(p)
         \/ Runs(p, "wait") /\ wait_none(p) /\ UNCHANGED <<nextpid, np, panicked, victims>>
  PROVE  PInv'
<1> USE ProcAssumption DEF PInv
<1>1. /\ state[p] = "RUNNABLE" /\ pc[p] \in {"user", "return", "wait", "sleep"}
      /\ UNCHANGED <<pid, parent, kstack, nextpid, np, panicked>>
  BY DEF sys_wait, trap_return, trap_fault, sys_sleep, wait_none, Enters, Runs
<1>2. \E l \in {"user", "return", "wait", "sleep"} : pc' = [pc EXCEPT ![p] = l]
  BY <1>1 DEF sys_wait, trap_return, trap_fault, sys_sleep, wait_none, Goto, TypeOK
<1>3. state' = state \/ state' = [state EXCEPT ![p] = "SLEEPING"]
  BY DEF sys_wait, trap_return, trap_fault, sys_sleep, wait_none
<1>4. np[p] = None
  BY <1>1 DEF MakerInv, Making
<1>5. TypeOK'
  <2>1. chan' \in [Slot -> Slot \cup {"event", None}]
    BY DEF sys_wait, trap_return, trap_fault, sys_sleep, wait_none, TypeOK
  <2>2. killed' \in [Slot -> {0, 1}]
    BY DEF sys_wait, trap_return, trap_fault, sys_sleep, wait_none, TypeOK
  <2>3. pid[p] \in 1 .. MaxPid
    BY <1>1 DEF PidInv, TypeOK
  <2>4. victims' \subseteq 1 .. MaxPid
    BY Zenon, <2>3 DEF sys_wait, trap_return, trap_fault, sys_sleep, wait_none, TypeOK
  <2>5. state' \in [Slot -> State] /\ pc' \in [Slot -> Label]
    BY <1>2, <1>3 DEF TypeOK, State, Label
  <2> QED
    BY <1>1, <2>1, <2>2, <2>4, <2>5 DEF TypeOK
<1>6. NoWaitLost'
  <2>1. ASSUME NEW x \in Slot \ {p}
        PROVE  state'[x] = state[x] /\ chan'[x] = chan[x] /\ killed'[x] = killed[x]
    BY DEF sys_wait, trap_return, trap_fault, sys_sleep, wait_none, TypeOK
  <2>2. \A c \in Slot : state'[c] = "ZOMBIE" => state[c] = "ZOMBIE"
    BY <1>3 DEF TypeOK
  <2>3. ASSUME state'[p] = "SLEEPING", chan'[p] = p
        PROVE  /\ \A c \in Slot : parent[c] = p => state[c] # "ZOMBIE"
               /\ \E c \in Slot : parent[c] = p
               /\ killed'[p] = 0
    <3>1. ~sys_sleep(p)
      BY <1>1, <2>3 DEF sys_sleep, TypeOK
    <3>2. wait_none(p)
      BY <1>1, <2>3, <3>1 DEF sys_wait, trap_return, trap_fault
    <3> QED
      BY <1>1, <2>3, <3>2 DEF wait_none, Children, TypeOK
  <2> QED
    BY <1>1, <2>1, <2>2, <2>3 DEF NoWaitLost, Children
<1>7. \A q \in Slot : state'[q] = state[q] \/ (Live(q) /\ Live(q)')
  BY <1>1, <1>3 DEF Live, TypeOK
<1>8. \A q \in Slot : np[q] # None => pc'[q] = pc[q] /\ state'[q] = "RUNNABLE"
  BY <1>2, <1>3, <1>4 DEF MakerInv, TypeOK
<1>9. \A q \in Slot : np[q] = None => pc'[q] \notin Making
  BY <1>2 DEF MakerInv, Making, TypeOK
<1> QED
  BY <1>1, <1>5, <1>6, <1>7, <1>8, <1>9, QuietStep

\* wakeup() and kill() wake sleepers; the one that kill() marks is not left
\* asleep.
LEMMA WakeStep ==
  ASSUME PInv, wakeup \/ \E p \in Slot : \E n \in 0 .. MaxPid : kill(p, n)
  PROVE  PInv'
<1> USE ProcAssumption DEF PInv
<1>1. /\ UNCHANGED <<pid, parent, chan, kstack, nextpid, np, panicked>>
      /\ state' \in [Slot -> State]
      /\ \A q \in Slot : state'[q] # state[q] => state[q] = "SLEEPING" /\ state'[q] = "RUNNABLE"
  BY DEF wakeup, kill, wakeup1, TypeOK, State
<1>2. /\ killed' \in [Slot -> {0, 1}]
      /\ \A q \in Slot : killed'[q] # killed[q] => state'[q] # "SLEEPING"
  BY DEF wakeup, kill, TypeOK, State
<1>3. victims' \subseteq 1 .. MaxPid
  <2>1. \A n \in 0 .. MaxPid : {n} \ {0} \subseteq 1 .. MaxPid
    OBVIOUS
  <2> QED
    BY ZenonT(30), <2>1 DEF wakeup, kill, TypeOK
<1>4. /\ pc' \in [Slot -> Label]
      /\ \A q \in Slot : pc'[q] # pc[q] => pc[q] = "user" /\ pc'[q] = "return"
  BY DEF wakeup, kill, TypeOK, Label, Enters, Runs, Goto
<1>5. TypeOK'
  BY <1>1, <1>2, <1>3, <1>4 DEF TypeOK
<1>6. NoWaitLost'
  <2>1. \A q \in Slot : state'[q] = "SLEEPING" => state[q] = "SLEEPING" /\ killed'[q] = killed[q]
    BY <1>1, <1>2
  <2>2. \A q \in Slot : state'[q] = "ZOMBIE" => state[q] = "ZOMBIE"
    BY <1>1
  <2> QED
    BY <1>1, <2>1, <2>2 DEF NoWaitLost, Children
<1>7. \A q \in Slot : state'[q] = state[q] \/ (Live(q) /\ Live(q)')
  BY <1>1 DEF Live
<1>8. \A q \in Slot : np[q] # None => pc'[q] = pc[q] /\ state'[q] = "RUNNABLE"
  BY <1>1, <1>4 DEF MakerInv, Making
<1>9. \A q \in Slot : np[q] = None => pc'[q] \notin Making
  BY <1>4 DEF MakerInv, Making
<1> QED
  BY <1>1, <1>5, <1>6, <1>7, <1>8, <1>9, QuietStep

\* Every step keeps the invariant.
LEMMA PInvStep == PInv /\ [Next]_vars => PInv'
<1> SUFFICES ASSUME PInv, [Next]_vars PROVE PInv'
  OBVIOUS
<1>1. CASE UNCHANGED vars
  BY <1>1 DEF vars, PInv, TypeOK, MakerInv, PidInv, KstackMatches, ParentInv, NoWaitLost,
              Live, Children
<1>2. ASSUME NEW p \in Slot, allocproc(p) PROVE PInv'
  BY <1>2, AllocprocStep
<1>3. ASSUME NEW p \in Slot, allocproc_kstack(p) \/ fork_copyuvm(p) PROVE PInv'
  BY <1>3, ForkMidStep
<1>4. ASSUME NEW p \in Slot, fork(p) PROVE PInv'
  BY <1>4, ForkStep
<1>5. ASSUME NEW p \in Slot, sys_exit(p) \/ trap_exit(p) PROVE PInv'
  BY <1>5, ExitStep
<1>6. ASSUME NEW p \in Slot, wait(p) PROVE PInv'
  BY <1>6, ReapStep, OwnStep DEF wait
<1>7. ASSUME NEW p \in Slot, sys_wait(p) \/ trap_return(p) \/ trap_fault(p) \/ sys_sleep(p)
      PROVE  PInv'
  BY <1>7, OwnStep
<1>8. ASSUME wakeup \/ \E p \in Slot : \E n \in 0 .. MaxPid : kill(p, n) PROVE PInv'
  BY <1>8, WakeStep
<1> QED
  BY <1>1, <1>2, <1>3, <1>4, <1>5, <1>6, <1>7, <1>8 DEF Next, Continue

\* The inductive invariant holds throughout.
THEOREM PInvHolds == Spec => []PInv
BY InitPInv, PInvStep, PTL DEF Spec

\* fork(), exit(), wait(): every process but init has a parent that lives and
\* can wait for it, an EMBRYO slot belongs to exactly one fork(), no two
\* processes have the same pid, and no slot loses or keeps a kernel stack.
THEOREM TreeOKHolds == Spec => []TreeOK
BY PInvHolds, PInvTree, PTL

\* wait(): nobody sleeps there over a zombie child, without a child, or when
\* killed, however the exits and kills of other processes fall.
THEOREM NoWaitLostHolds == Spec => []NoWaitLost
<1>1. PInv => NoWaitLost
  BY DEF PInv
<1> QED
  BY <1>1, PInvHolds, PTL
=============================================================================
