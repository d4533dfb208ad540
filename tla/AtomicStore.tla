---------------------------- MODULE AtomicStore -----------------------------
(***************************************************************************)
(* What log.c promises its callers: a block store on which system calls    *)
(* run one transaction at a time.  A transaction is open, then committed:  *)
(* it commits once, all its writes become durable at that instant, and it  *)
(* writes nothing more.  A stop of the machine loses only the open one.    *)
(***************************************************************************)
CONSTANTS Proc, Block, Data

VARIABLES
  stable,     \* what a crash leaves behind
  view,       \* what reads return
  open,       \* the processes whose transaction may still write
  committed   \* the processes whose transaction is durable and not yet ended

vars == <<stable, view, open, committed>>

Init ==
  /\ stable \in [Block -> Data]
  /\ view = stable
  /\ open = {}
  /\ committed = {}

Begin(p) ==
  /\ open = {} /\ committed = {}
  /\ open' = {p}
  /\ UNCHANGED <<stable, view, committed>>

Write(p, b, d) ==
  /\ p \in open
  /\ view' = [view EXCEPT ![b] = d]
  /\ UNCHANGED <<stable, open, committed>>

\* All of the transaction is durable, and it can neither write nor commit again.
Commit(p) ==
  /\ open = {p}
  /\ stable' = view
  /\ open' = {}
  /\ committed' = {p}
  /\ UNCHANGED view

\* commit_trans() returns; only a committed transaction ends.
End(p) ==
  /\ committed = {p}
  /\ committed' = {}
  /\ UNCHANGED <<stable, view, open>>

Crash ==
  /\ view' = stable
  /\ open' = {} /\ committed' = {}
  /\ UNCHANGED stable

Next ==
  \/ \E p \in Proc : Begin(p) \/ Commit(p) \/ End(p)
  \/ \E p \in Proc, b \in Block, d \in Data : Write(p, b, d)
  \/ Crash

Spec == Init /\ [][Next]_vars
=============================================================================
