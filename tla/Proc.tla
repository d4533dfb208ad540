-------------------------------- MODULE Proc --------------------------------
(***************************************************************************)
(* The life of a process: fork(), exit(), wait() and kill() of proc.c, the *)
(* checks of proc->killed in trap(), and the system calls that block.      *)
(*                                                                         *)
(* One action is one critical section of ptable.lock with the code around  *)
(* it.  That the scheduler has picked a RUNNABLE process is the subject of *)
(* Sched; here RUNNABLE covers RUNNING.  User programs are arbitrary,      *)
(* except that init only forks and waits (init.c).                         *)
(***************************************************************************)
EXTENDS Integers, FiniteSets

CONSTANTS
  Slot,           \* slots of ptable
  initproc,
  MaxPid,         \* bound: the last pid given out
  None            \* a null pointer

ASSUME ProcAssumption ==
  /\ initproc \in Slot /\ None \notin Slot /\ "event" \notin Slot
  /\ MaxPid \in Nat \ {0}      \* init has pid 1

VARIABLES
  state,          \* p->state
  pid,            \* p->pid
  parent,         \* p->parent
  killed,         \* p->killed
  chan,           \* p->chan: a process (in wait) or "event"
  kstack,         \* 1 when p->kstack is a page
  nextpid,
  pc,             \* where the process is
  np,             \* fork's new process
  panicked,       \* exit() has panicked: "init exiting"
  victims         \* history: the pids (0 is none) that kill() or a fault named

vars == <<state, pid, parent, killed, chan, kstack, nextpid, pc, np, panicked, victims>>

\* userinit()
Init ==
  /\ state = [p \in Slot |-> IF p = initproc THEN "RUNNABLE" ELSE "UNUSED"]
  /\ pid = [p \in Slot |-> IF p = initproc THEN 1 ELSE 0]
  /\ parent = [p \in Slot |-> None]
  /\ killed = [p \in Slot |-> 0]
  /\ chan = [p \in Slot |-> None]
  /\ kstack = [p \in Slot |-> IF p = initproc THEN 1 ELSE 0]
  /\ nextpid = 2
  /\ pc = [p \in Slot |-> "user"]
  /\ np = [p \in Slot |-> None]
  /\ panicked = FALSE
  /\ victims = {}

Runs(p, l) == ~panicked /\ state[p] = "RUNNABLE" /\ pc[p] = l
Goto(p, l) == pc' = [pc EXCEPT ![p] = l]
Children(p) == {c \in Slot : parent[c] = p}

\* wakeup1(c), applied to the states st.
wakeup1(st, c) ==
  [q \in Slot |-> IF st[q] = "SLEEPING" /\ chan[q] = c THEN "RUNNABLE" ELSE st[q]]

\* trap() on a system call: a killed process exits instead of entering it.
Enters(p) == Runs(p, "user") /\ killed[p] = 0

-----------------------------------------------------------------------------
(* fork()                                                                  *)

\* allocproc(), the part under ptable.lock.  Without an UNUSED slot fork()
\* returns -1.
allocproc(p) ==
  /\ Enters(p)
  /\ nextpid <= MaxPid
  /\ \E q \in Slot :
       /\ state[q] = "UNUSED"
       /\ state' = [state EXCEPT ![q] = "EMBRYO"]
       /\ pid' = [pid EXCEPT ![q] = nextpid]
       /\ np' = [np EXCEPT ![p] = q]
  /\ nextpid' = nextpid + 1
  /\ Goto(p, "kstack")
  /\ UNCHANGED <<parent, killed, chan, kstack, panicked, victims>>

\* The kernel stack, or the slot is given up.
allocproc_kstack(p) ==
  /\ Runs(p, "kstack")
  /\ \/ /\ kstack' = [kstack EXCEPT ![np[p]] = 1]
        /\ Goto(p, "copyuvm")
        /\ UNCHANGED <<state, np>>
     \/ /\ state' = [state EXCEPT ![np[p]] = "UNUSED"]
        /\ np' = [np EXCEPT ![p] = None]
        /\ Goto(p, "return")
        /\ UNCHANGED kstack
  /\ UNCHANGED <<pid, parent, killed, chan, nextpid, panicked, victims>>

\* copyuvm() and np->parent, or the slot and its kernel stack are given up.
fork_copyuvm(p) ==
  /\ Runs(p, "copyuvm")
  /\ \/ /\ parent' = [parent EXCEPT ![np[p]] = p]
        /\ Goto(p, "ready")
        /\ UNCHANGED <<state, kstack, np>>
     \/ /\ kstack' = [kstack EXCEPT ![np[p]] = 0]
        /\ state' = [state EXCEPT ![np[p]] = "UNUSED"]
        /\ np' = [np EXCEPT ![p] = None]
        /\ Goto(p, "return")
        /\ UNCHANGED parent
  /\ UNCHANGED <<pid, killed, chan, nextpid, panicked, victims>>

\* np->state = RUNNABLE, after the files are duplicated.
fork(p) ==
  /\ Runs(p, "ready")
  /\ state' = [state EXCEPT ![np[p]] = "RUNNABLE"]
  /\ np' = [np EXCEPT ![p] = None]
  /\ pc' = [pc EXCEPT ![p] = "return", ![np[p]] = "return"]
  /\ UNCHANGED <<pid, parent, killed, chan, kstack, nextpid, panicked, victims>>

-----------------------------------------------------------------------------
(* exit(), wait(), kill()                                                  *)

\* Mutant: the children stay with the process that exits.
exit_orphan(p) ==
  IF p = initproc
    THEN panicked' = TRUE /\ UNCHANGED <<state, parent, pc>>
    ELSE /\ state' = [wakeup1(state, parent[p]) EXCEPT ![p] = "ZOMBIE"]
         /\ Goto(p, "user")
         /\ UNCHANGED <<parent, panicked>>

\* Mutant: the parent is not woken.
exit_nowake(p) ==
  IF p = initproc
    THEN panicked' = TRUE /\ UNCHANGED <<state, parent, pc>>
    ELSE /\ state' = [state EXCEPT ![p] = "ZOMBIE"]
         /\ parent' = [c \in Slot |-> IF parent[c] = p THEN initproc ELSE parent[c]]
         /\ Goto(p, "user")
         /\ UNCHANGED panicked

\* exit(): wake the parent, pass the children to init and wake it when one is
\* a zombie already, become a zombie; init panics.
exit(p) ==
  IF p = initproc
    THEN panicked' = TRUE /\ UNCHANGED <<state, parent, pc>>
    ELSE /\ LET st == wakeup1(state, parent[p])
                orphan == \E c \in Children(p) : state[c] = "ZOMBIE"
            IN  state' = [IF orphan THEN wakeup1(st, initproc) ELSE st
                            EXCEPT ![p] = "ZOMBIE"]
         /\ parent' = [c \in Slot |-> IF parent[c] = p THEN initproc ELSE parent[c]]
         /\ Goto(p, "user")
         /\ UNCHANGED panicked

sys_exit(p) ==
  /\ Enters(p)
  /\ p # initproc
  /\ exit(p)
  /\ UNCHANGED <<pid, killed, chan, kstack, nextpid, np, victims>>

\* trap(): a killed process exits on its way into or out of the kernel.
trap_exit(p) ==
  /\ Runs(p, "user") \/ Runs(p, "return")
  /\ killed[p] = 1
  /\ exit(p)
  /\ UNCHANGED <<pid, killed, chan, kstack, nextpid, np, victims>>

\* trap(): the way back to user space of a process that is not killed.
trap_return(p) ==
  /\ Runs(p, "return")
  /\ killed[p] = 0
  /\ Goto(p, "user")
  /\ UNCHANGED <<state, pid, parent, killed, chan, kstack, nextpid, np, panicked, victims>>

\* trap(): a fault in user space, proc->killed = 1.
trap_fault(p) ==
  /\ Enters(p)
  /\ p # initproc
  /\ killed' = [killed EXCEPT ![p] = 1]
  /\ victims' = victims \cup {pid[p]}
  /\ UNCHANGED <<state, pid, parent, chan, kstack, nextpid, pc, np, panicked>>

sys_wait(p) ==
  /\ Enters(p)
  /\ Goto(p, "wait")
  /\ UNCHANGED <<state, pid, parent, killed, chan, kstack, nextpid, np, panicked, victims>>

\* A zombie child is found.
wait_reap(p) ==
  \E c \in Children(p) :
    /\ state[c] = "ZOMBIE"
    /\ state' = [state EXCEPT ![c] = "UNUSED"]
    /\ pid' = [pid EXCEPT ![c] = 0]
    /\ parent' = [parent EXCEPT ![c] = None]
    /\ killed' = [killed EXCEPT ![c] = 0]
    /\ kstack' = [kstack EXCEPT ![c] = 0]
    /\ Goto(p, "return")
    /\ UNCHANGED chan

\* No child is a zombie: return -1, or sleep(proc, &ptable.lock).
wait_none(p) ==
  /\ \A c \in Children(p) : state[c] # "ZOMBIE"
  /\ IF Children(p) = {} \/ killed[p] = 1
       THEN Goto(p, "return") /\ UNCHANGED <<state, chan>>
       ELSE /\ state' = [state EXCEPT ![p] = "SLEEPING"]
            /\ chan' = [chan EXCEPT ![p] = p]
            /\ UNCHANGED pc
  /\ UNCHANGED <<pid, parent, killed, kstack>>

\* One turn of the loop of wait(), under ptable.lock.
wait(p) ==
  /\ Runs(p, "wait")
  /\ wait_reap(p) \/ wait_none(p)
  /\ UNCHANGED <<nextpid, np, panicked, victims>>

\* A system call that waits for an event in a loop that looks at proc->killed
\* under the lock it sleeps with (sys_sleep, piperead, console_read).
sys_sleep(p) ==
  /\ (Enters(p) /\ p # initproc) \/ Runs(p, "sleep")
  /\ \/ /\ killed[p] = 0
        /\ state' = [state EXCEPT ![p] = "SLEEPING"]
        /\ chan' = [chan EXCEPT ![p] = "event"]
        /\ Goto(p, "sleep")
     \/ Goto(p, "return") /\ UNCHANGED <<state, chan>>
  /\ UNCHANGED <<pid, parent, killed, kstack, nextpid, np, panicked, victims>>

\* An interrupt handler or another process calls wakeup().
wakeup ==
  /\ ~panicked
  /\ \E p \in Slot : state[p] = "SLEEPING" /\ chan[p] = "event"
  /\ state' = wakeup1(state, "event")
  /\ UNCHANGED <<pid, parent, killed, chan, kstack, nextpid, pc, np, panicked, victims>>

\* Mutant: a sleeper is not woken.
kill_asleep(p, n) ==
  /\ Enters(p)
  /\ p # initproc
  /\ \E q \in Slot :
       /\ pid[q] = n
       /\ killed' = [killed EXCEPT ![q] = 1]
  /\ victims' = victims \cup ({n} \ {0})
  /\ Goto(p, "return")
  /\ UNCHANGED <<state, pid, parent, chan, kstack, nextpid, np, panicked>>

\* kill(n): mark the slot with that pid, and wake it from any sleep.  An
\* UNUSED slot matches by the pid left in it, 0 or that of a fork() that
\* failed; slots have no order here, and any that matches stands for the first.
kill(p, n) ==
  /\ Enters(p)
  /\ p # initproc
  /\ \E q \in Slot :
       /\ pid[q] = n
       /\ killed' = [killed EXCEPT ![q] = 1]
       /\ state' = IF state[q] = "SLEEPING" THEN [state EXCEPT ![q] = "RUNNABLE"] ELSE state
  /\ victims' = victims \cup ({n} \ {0})
  /\ Goto(p, "return")
  /\ UNCHANGED <<pid, parent, chan, kstack, nextpid, np, panicked>>

-----------------------------------------------------------------------------
\* The steps of a process that is in the kernel, or has to leave user space.
Continue(p) ==
  \/ allocproc_kstack(p)
  \/ fork_copyuvm(p)
  \/ fork(p)
  \/ wait(p)
  \/ sys_sleep(p)
  \/ trap_exit(p)
  \/ trap_return(p)

Next ==
  \/ \E p \in Slot :
       \/ Continue(p)
       \/ allocproc(p)
       \/ sys_exit(p)
       \/ trap_fault(p)
       \/ sys_wait(p)
       \/ \E n \in 0 .. MaxPid : kill(p, n)
  \/ wakeup

Spec == Init /\ [][Next]_vars

\* The scheduler runs every RUNNABLE process again and again (Sched), and init
\* waits for children forever (init.c).
InKernel(p) == pc[p] # "user" \/ killed[p] = 1
Fairness ==
  /\ \A p \in Slot : WF_vars(InKernel(p) /\ Continue(p))
  /\ SF_vars(sys_wait(initproc))

FairSpec == Spec /\ Fairness

-----------------------------------------------------------------------------
State == {"UNUSED", "EMBRYO", "SLEEPING", "RUNNABLE", "ZOMBIE"}
Label == {"user", "kstack", "copyuvm", "ready", "wait", "sleep", "return"}

TypeOK ==
  /\ state \in [Slot -> State]
  /\ pid \in [Slot -> 0 .. MaxPid]
  /\ parent \in [Slot -> Slot \cup {None}]
  /\ killed \in [Slot -> {0, 1}]
  /\ chan \in [Slot -> Slot \cup {"event", None}]
  /\ kstack \in [Slot -> {0, 1}]
  /\ nextpid \in 2 .. MaxPid + 1
  /\ pc \in [Slot -> Label]
  /\ np \in [Slot -> Slot \cup {None}]
  /\ panicked \in BOOLEAN
  /\ victims \subseteq 1 .. MaxPid

Live(p) == state[p] \in {"SLEEPING", "RUNNABLE"}

\* allocproc(): a slot in EMBRYO belongs to exactly one fork() in progress,
\* which alone may write it without ptable.lock; pids in use are distinct.
EmbryoHasOneMaker ==
  /\ \A q \in Slot : state[q] = "EMBRYO" <=> Cardinality({p \in Slot : np[p] = q}) = 1
  /\ \A p, q \in Slot :
       p # q /\ state[p] # "UNUSED" /\ state[q] # "UNUSED" => pid[p] # pid[q]

\* A process that can run, or has to be reaped, has a kernel stack, and an
\* unused slot has none: no path loses one.
KstackMatches ==
  \A p \in Slot :
    /\ Live(p) \/ state[p] = "ZOMBIE" => kstack[p] = 1
    /\ state[p] = "UNUSED" => kstack[p] = 0

\* exit() and wait(): every process but init has a parent that is still there
\* to wait for it, and an unused slot is nobody's child; a slot is in one hand
\* and has what its state says.
TreeOK ==
  /\ TypeOK /\ EmbryoHasOneMaker /\ KstackMatches
  /\ \A p \in Slot :
       /\ (Live(p) \/ state[p] = "ZOMBIE") /\ p # initproc =>
            parent[p] # None /\ Live(parent[p])
       /\ state[p] = "UNUSED" => parent[p] = None

\* wait(): nobody sleeps there while a zombie child is to be reaped, without
\* any child, or when killed.
NoWaitLost ==
  \A p \in Slot :
    state[p] = "SLEEPING" /\ chan[p] = p =>
      /\ \A c \in Children(p) : state[c] # "ZOMBIE"
      /\ Children(p) # {}
      /\ killed[p] = 0

\* "Kill the process with the given pid" (the comment on kill()): a process is
\* killed only if it faulted or kill() named its pid.
KillOnlyTarget ==
  \A p \in Slot : Live(p) /\ killed[p] = 1 => pid[p] \in victims

\* kill(): a killed process gets out of wherever it is and exits.
KilledDies ==
  \A p \in Slot :
    (Live(p) /\ killed[p] = 1) ~> (state[p] \in {"ZOMBIE", "UNUSED"} \/ panicked)

\* exit() wakes the parent and hands the children to init: init reaps its own
\* children and the ones it inherits.
OrphansReaped ==
  \A p \in Slot :
    (state[p] = "ZOMBIE" /\ parent[p] = initproc) ~> (state[p] = "UNUSED" \/ panicked)
=============================================================================
