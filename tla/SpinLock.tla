------------------------------ MODULE SpinLock ------------------------------
(***************************************************************************)
(* The interrupt flag of the one CPU (arm.c), the pushcli/popcli nesting   *)
(* that protects it, and the locks of spinlock.c built on them.            *)
(*                                                                         *)
(* acquire() as built does not spin: it masks interrupts and marks the     *)
(* lock.  The `#if 0' blocks of acquire() and release() record the owner   *)
(* and check holding(); RecordCpu says whether they are compiled in.       *)
(***************************************************************************)
EXTENDS Integers, FiniteSets

CONSTANTS
  Lock,        \* the spinlocks of the kernel
  RecordCpu    \* TRUE: with the `#if 0' blocks of spinlock.c; FALSE: as built

ASSUME LockAssumption == IsFiniteSet(Lock)
ASSUME RecordCpuAssumption == RecordCpu \in BOOLEAN

VARIABLES
  intOn,       \* int_enabled(): the I bit of cpsr is clear
  ncli,        \* cpu->ncli, depth of pushcli nesting
  intena,      \* cpu->intena, interrupts were enabled before the first pushcli
  locked,      \* lk->locked
  lkcpu,       \* lk->cpu = cpus
  panicked     \* panic() was called: the machine spins with interrupts off

cpuVars == <<intOn, ncli, intena, locked, lkcpu, panicked>>

\* Reset leaves interrupts masked; init_lock clears both fields.
init_lock ==
  /\ intOn = FALSE
  /\ ncli = 0
  /\ intena = FALSE
  /\ locked = [l \in Lock |-> 0]
  /\ lkcpu = [l \in Lock |-> FALSE]
  /\ panicked = FALSE

\* lk->cpu is only ever assigned in the `#if 0' blocks.
holding(l) == locked[l] = 1 /\ lkcpu[l]

panic ==
  /\ panicked' = TRUE
  /\ intOn' = FALSE
  /\ UNCHANGED <<ncli, intena, locked, lkcpu>>

\* The part of pushcli after int_enabled() was read into `enabled'.
pushcli(enabled) ==
  /\ intOn' = FALSE
  /\ ncli' = ncli + 1
  /\ intena' = IF ncli = 0 THEN enabled ELSE intena

\* popcli panics when it would be called with interrupts on or unmatched.
popcliPanics == intOn \/ ncli - 1 < 0

popcli ==
  /\ ncli' = ncli - 1
  /\ intOn' = (intOn \/ (ncli - 1 = 0 /\ intena))
  /\ UNCHANGED intena

\* acquire() from cli() on.  With RecordCpu the xchg loop spins, with
\* interrupts masked, for as long as the lock is taken.
acquirePanics(l) == RecordCpu /\ holding(l)

acquire(l, enabled) ==
  /\ RecordCpu => locked[l] = 0
  /\ pushcli(enabled)
  /\ locked' = [locked EXCEPT ![l] = 1]
  /\ lkcpu' = [lkcpu EXCEPT ![l] = @ \/ RecordCpu]
  /\ UNCHANGED panicked

releasePanics(l) == (RecordCpu /\ ~holding(l)) \/ popcliPanics

release(l) ==
  /\ locked' = [locked EXCEPT ![l] = 0]
  /\ lkcpu' = [lkcpu EXCEPT ![l] = @ /\ ~RecordCpu]
  /\ popcli
  /\ UNCHANGED panicked

CpuTypeOK ==
  /\ intOn \in BOOLEAN
  /\ ncli \in Nat
  /\ intena \in BOOLEAN
  /\ locked \in [Lock -> {0, 1}]
  /\ lkcpu \in [Lock -> BOOLEAN]
  /\ panicked \in BOOLEAN
=============================================================================
