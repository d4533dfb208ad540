------------------------------- MODULE Sched --------------------------------
(***************************************************************************)
(* The kernel contexts that share the CPU: the scheduler loop, the kernel  *)
(* thread of each process, and the interrupt handler that may run on top   *)
(* of either.  They take and release locks, yield, sleep and wake each     *)
(* other up (proc.c, trap.c) through the locks of module SpinLock.         *)
(*                                                                         *)
(* Between cli() and sti() nothing else can run on the one CPU, so a step  *)
(* here is the code between two points where an interrupt can be taken or  *)
(* the context switched.  The one window inside acquire() is in pushcli(), *)
(* between int_enabled() and cli(): it is a state of its own ("pushcli").  *)
(***************************************************************************)
EXTENDS SpinLock

CONSTANTS
  NPROC,        \* size of the process table
  PtableLock    \* ptable.lock

ASSUME NPROCAssumption == NPROC \in Nat \ {0}
ASSUME PtableAssumption == PtableLock \in Lock

Proc == 1 .. NPROC
Scheduler == 0
Ctx == {Scheduler} \cup Proc
\* A context runs its thread frame or, on top of it, an interrupt handler.
Frame == Ctx \X {"thr", "irq"}
NoLock == "none"
ASSUME NoLockAssumption == NoLock \notin Lock

VARIABLES
  cur,       \* the context on the CPU
  kind,      \* kind[t]: the topmost frame of context t, "thr" or "irq"
  at,        \* at[f]: control point of frame f
  want,      \* want[f]: the argument of the acquire() frame f is in
  why,       \* why[f]: the caller of that acquire(): "crit", "yield", "sleep"
  enabled,   \* enabled[f]: local of pushcli()
  held,      \* held[f]: locks f acquired and did not release
  saved,     \* saved[p]: local intena of sched()
  state,     \* p->state
  chan,      \* p->chan; a condition is named by the lock that protects it
  scan       \* the scheduler's p: index of the next table entry to look at

schedVars == <<cur, kind, at, want, why, enabled, held, saved, state, chan, scan>>
vars == <<cpuVars, schedVars>>

Running == <<cur, kind[cur]>>
IrqOf(t) == <<t, "irq">>
ThrOf(t) == <<t, "thr">>

\* Every process was just made by fork(): it will enter at forkret().
Init ==
  /\ init_lock
  /\ cur = Scheduler
  /\ kind = [t \in Ctx |-> "thr"]
  /\ at = [f \in Frame |-> IF f = ThrOf(Scheduler) THEN "loop"
                           ELSE IF f[2] = "thr" THEN "forkret" ELSE "run"]
  /\ want = [f \in Frame |-> NoLock]
  /\ why = [f \in Frame |-> "crit"]
  /\ enabled = [f \in Frame |-> FALSE]
  /\ held = [f \in Frame |-> {}]
  /\ saved = [p \in Proc |-> FALSE]
  /\ state = [p \in Proc |-> "RUNNABLE"]
  /\ chan = [p \in Proc |-> NoLock]
  /\ scan = 1

-----------------------------------------------------------------------------
(* Interrupts.                                                             *)

\* The CPU takes an interrupt: it masks further ones and enters the handler.
Irq ==
  /\ ~panicked
  /\ intOn
  /\ kind[cur] = "thr"
  /\ kind' = [kind EXCEPT ![cur] = "irq"]
  /\ intOn' = FALSE
  /\ UNCHANGED <<ncli, intena, locked, lkcpu, panicked>>
  /\ UNCHANGED <<cur, at, want, why, enabled, held, saved, state, chan, scan>>

\* The handler returns; the interrupted cpsr, with interrupts on, comes back.
IrqReturn ==
  /\ ~panicked
  /\ kind[cur] = "irq"
  /\ at[Running] = "run"
  /\ held[Running] = {}
  /\ kind' = [kind EXCEPT ![cur] = "thr"]
  /\ intOn' = TRUE
  /\ UNCHANGED <<ncli, intena, locked, lkcpu, panicked>>
  /\ UNCHANGED <<cur, at, want, why, enabled, held, saved, state, chan, scan>>

-----------------------------------------------------------------------------
(* acquire() and release().                                                *)

\* pushcli() up to and including the call of int_enabled().
CallAcquire(l, reason) ==
  /\ at' = [at EXCEPT ![Running] = "pushcli"]
  /\ want' = [want EXCEPT ![Running] = l]
  /\ why' = [why EXCEPT ![Running] = reason]
  /\ enabled' = [enabled EXCEPT ![Running] = intOn]
  /\ UNCHANGED <<cur, kind, held, saved, state, chan, scan, cpuVars>>

\* Kernel code enters a critical section.  It never asks for a lock it holds.
BeginCrit(l) ==
  /\ ~panicked
  /\ at[Running] = "run"
  /\ cur = Scheduler => kind[cur] = "irq"
  /\ l \notin held[Running]
  /\ CallAcquire(l, "crit")

\* acquire(lk) at the end of sleep(), after the process was woken.
Reacquire ==
  /\ ~panicked
  /\ at[Running] = "relock"
  /\ CallAcquire(want[Running], "crit")

\* yield(), called by trap() at the end of a timer interrupt of a process.
Yield ==
  /\ ~panicked
  /\ cur \in Proc
  /\ kind[cur] = "irq"
  /\ at[Running] = "run"
  /\ held[Running] = {}
  /\ CallAcquire(PtableLock, "yield")

\* sleep(chan, lk) with lk # &ptable.lock, called with only lk held.
Sleep(lk) ==
  /\ ~panicked
  /\ cur \in Proc
  /\ kind[cur] = "thr"
  /\ at[Running] = "run"
  /\ lk # PtableLock
  /\ held[Running] = {lk}
  /\ CallAcquire(PtableLock, "sleep")

\* Mutant: acquire() as built, which does not look at the lock, without cli().
EndAcquire_unmasked ==
  /\ ~panicked
  /\ at[Running] = "pushcli"
  /\ ncli' = ncli + 1
  /\ intena' = IF ncli = 0 THEN enabled[Running] ELSE intena
  /\ locked' = [locked EXCEPT ![want[Running]] = 1]
  /\ lkcpu' = [lkcpu EXCEPT ![want[Running]] = TRUE]
  /\ held' = [held EXCEPT ![Running] = @ \cup {want[Running]}]
  /\ at' = [at EXCEPT ![Running] = "run"]
  /\ UNCHANGED <<cur, kind, want, why, enabled, saved, state, chan, scan, intOn, panicked>>

\* Mutant: the scheduler does not start again at the first process.
EndAcquire_norewind ==
  /\ ~panicked
  /\ at[Running] = "pushcli"
  /\ acquire(want[Running], enabled[Running])
  /\ held' = [held EXCEPT ![Running] = @ \cup {want[Running]}]
  /\ at' = [at EXCEPT ![Running] =
              IF cur = Scheduler /\ kind[cur] = "thr" THEN "scan"
              ELSE IF why[Running] = "crit" THEN "run" ELSE why[Running]]
  /\ UNCHANGED <<cur, kind, want, why, enabled, saved, state, chan, scan>>

\* The rest of acquire(): cli(), the nesting count, and the lock itself.
EndAcquire ==
  /\ ~panicked
  /\ at[Running] = "pushcli"
  /\ IF acquirePanics(want[Running])
       THEN panic /\ UNCHANGED schedVars
       ELSE /\ acquire(want[Running], enabled[Running])
            /\ held' = [held EXCEPT ![Running] = @ \cup {want[Running]}]
            /\ at' = [at EXCEPT ![Running] =
                        IF cur = Scheduler /\ kind[cur] = "thr" THEN "scan"
                        ELSE IF why[Running] = "crit" THEN "run" ELSE why[Running]]
            /\ scan' = IF cur = Scheduler /\ kind[cur] = "thr" THEN 1 ELSE scan
            /\ UNCHANGED <<cur, kind, want, why, enabled, saved, state, chan>>

\* Kernel code leaves a critical section.
EndCrit(l) ==
  /\ ~panicked
  /\ at[Running] = "run"
  /\ l \in held[Running]
  /\ IF releasePanics(l)
       THEN panic /\ UNCHANGED schedVars
       ELSE /\ release(l)
            /\ held' = [held EXCEPT ![Running] = @ \ {l}]
            /\ UNCHANGED <<cur, kind, at, want, why, enabled, saved, state, chan, scan>>
-----------------------------------------------------------------------------
(* Giving up the CPU: yield(), sleep(), sched().                           *)

YieldRunnable ==
  /\ ~panicked
  /\ at[Running] = "yield"
  /\ state' = [state EXCEPT ![cur] = "RUNNABLE"]
  /\ at' = [at EXCEPT ![Running] = "sched"]
  /\ UNCHANGED <<cur, kind, want, why, enabled, held, saved, chan, scan, cpuVars>>

\* sleep() once it holds ptable.lock: release(lk), set chan and state.
SleepRelease(lk) ==
  /\ ~panicked
  /\ at[Running] = "sleep"
  /\ lk \in held[Running] \ {PtableLock}
  /\ IF releasePanics(lk)
       THEN panic /\ UNCHANGED schedVars
       ELSE /\ release(lk)
            /\ held' = [held EXCEPT ![Running] = @ \ {lk}]
            /\ chan' = [chan EXCEPT ![cur] = lk]
            /\ state' = [state EXCEPT ![cur] = "SLEEPING"]
            /\ at' = [at EXCEPT ![Running] = "sched"]
            /\ UNCHANGED <<cur, kind, want, why, enabled, saved, scan>>

\* sleep(proc, &ptable.lock) as wait() calls it: no lock is exchanged.
WaitSleep ==
  /\ ~panicked
  /\ cur \in Proc
  /\ kind[cur] = "thr"
  /\ at[Running] = "run"
  /\ held[Running] = {PtableLock}
  /\ chan' = [chan EXCEPT ![cur] = PtableLock]
  /\ state' = [state EXCEPT ![cur] = "SLEEPING"]
  /\ why' = [why EXCEPT ![Running] = "wait"]
  /\ at' = [at EXCEPT ![Running] = "sched"]
  /\ UNCHANGED <<cur, kind, want, enabled, held, saved, scan, cpuVars>>

schedPanics ==
  \/ ~holding(PtableLock)
  \/ ncli # 1
  \/ state[cur] = "RUNNING"
  \/ intOn

\* sched() up to swtch(): the scheduler resumes behind its own swtch() and
\* goes on with the next entry.  ptable.lock changes hands with the CPU.
Swtch ==
  /\ ~panicked
  /\ at[Running] = "sched"
  /\ IF schedPanics
       THEN panic /\ UNCHANGED schedVars
       ELSE /\ saved' = [saved EXCEPT ![cur] = intena]
            /\ cur' = Scheduler
            /\ at' = [at EXCEPT ![Running] = "off", ![ThrOf(Scheduler)] = "scan"]
            /\ held' = [held EXCEPT ![Running] = @ \ {PtableLock},
                                    ![ThrOf(Scheduler)] = {PtableLock}]
            /\ scan' = scan + 1
            /\ UNCHANGED <<kind, want, why, enabled, state, chan, cpuVars>>

\* sched() after swtch(), then the tail of yield(), wait()'s sleep() or sleep().
ResumeYield ==
  /\ ~panicked
  /\ at[Running] = "resume"
  /\ why[Running] = "yield"
  /\ IF releasePanics(PtableLock)
       THEN panic /\ UNCHANGED schedVars
       ELSE /\ release(PtableLock)
            /\ held' = [held EXCEPT ![Running] = @ \ {PtableLock}]
            /\ at' = [at EXCEPT ![Running] = "run"]
            /\ UNCHANGED <<cur, kind, want, why, enabled, saved, state, chan, scan>>

ResumeWait ==
  /\ ~panicked
  /\ at[Running] = "resume"
  /\ why[Running] = "wait"
  /\ chan' = [chan EXCEPT ![cur] = NoLock]
  /\ at' = [at EXCEPT ![Running] = "run"]
  /\ UNCHANGED <<cur, kind, want, why, enabled, held, saved, state, scan, cpuVars>>

ResumeSleep ==
  /\ ~panicked
  /\ at[Running] = "resume"
  /\ why[Running] = "sleep"
  /\ IF releasePanics(PtableLock)
       THEN panic /\ UNCHANGED schedVars
       ELSE /\ release(PtableLock)
            /\ held' = [held EXCEPT ![Running] = @ \ {PtableLock}]
            /\ chan' = [chan EXCEPT ![cur] = NoLock]
            /\ want' = [want EXCEPT ![Running] = chan[cur]]
            /\ at' = [at EXCEPT ![Running] = "relock"]
            /\ UNCHANGED <<cur, kind, why, enabled, saved, state, scan>>

\* forkret(): the first thing a new process does, with the scheduler's lock.
forkret ==
  /\ ~panicked
  /\ cur \in Proc
  /\ at[Running] = "forkret"
  /\ IF releasePanics(PtableLock)
       THEN panic /\ UNCHANGED schedVars
       ELSE /\ release(PtableLock)
            /\ held' = [held EXCEPT ![Running] = @ \ {PtableLock}]
            /\ at' = [at EXCEPT ![Running] = "trapret"]
            /\ UNCHANGED <<cur, kind, want, why, enabled, saved, state, chan, scan>>

\* trapret: the new process enters user mode, which runs with interrupts on.
trapret ==
  /\ ~panicked
  /\ at[Running] = "trapret"
  /\ intOn' = TRUE
  /\ at' = [at EXCEPT ![Running] = "run"]
  /\ UNCHANGED <<ncli, intena, locked, lkcpu, panicked>>
  /\ UNCHANGED <<cur, kind, want, why, enabled, held, saved, state, chan, scan>>

-----------------------------------------------------------------------------
(* wakeup() and kill(), under ptable.lock.                                 *)

wakeup1(c) ==
  /\ ~panicked
  /\ at[Running] = "run"
  /\ PtableLock \in held[Running]
  /\ state' = [p \in Proc |-> IF state[p] = "SLEEPING" /\ chan[p] = c
                                THEN "RUNNABLE" ELSE state[p]]
  /\ UNCHANGED <<cur, kind, at, want, why, enabled, held, saved, chan, scan, cpuVars>>

\* kill(), for what it does to the scheduler: p->killed is in Proc.
kill(p) ==
  /\ ~panicked
  /\ at[Running] = "run"
  /\ PtableLock \in held[Running]
  /\ state[p] = "SLEEPING"
  /\ state' = [state EXCEPT ![p] = "RUNNABLE"]
  /\ UNCHANGED <<cur, kind, at, want, why, enabled, held, saved, chan, scan, cpuVars>>

-----------------------------------------------------------------------------
(* scheduler().                                                            *)

SchedulerRuns(point) ==
  /\ ~panicked
  /\ cur = Scheduler
  /\ kind[cur] = "thr"
  /\ at[Running] = point

\* sti() at the top of the loop.
SchedulerSti ==
  /\ SchedulerRuns("loop")
  /\ intOn' = TRUE
  /\ at' = [at EXCEPT ![Running] = "sti"]
  /\ UNCHANGED <<ncli, intena, locked, lkcpu, panicked>>
  /\ UNCHANGED <<cur, kind, want, why, enabled, held, saved, state, chan, scan>>

SchedulerAcquire ==
  /\ SchedulerRuns("sti")
  /\ CallAcquire(PtableLock, "crit")

SchedulerSkip ==
  /\ SchedulerRuns("scan")
  /\ scan \in Proc
  /\ state[scan] # "RUNNABLE"
  /\ scan' = scan + 1
  /\ UNCHANGED <<cur, kind, at, want, why, enabled, held, saved, state, chan, cpuVars>>

\* swtch() to p, which returns from its own swtch() in sched() and restores
\* cpu->intena from its local, or starts at forkret().
Resumed(p) == <<p, kind[p]>>

\* Mutant: sched() does not restore cpu->intena.
SchedulerSwtch_keep ==
  /\ SchedulerRuns("scan")
  /\ scan \in Proc
  /\ state[scan] = "RUNNABLE"
  /\ cur' = scan
  /\ state' = [state EXCEPT ![scan] = "RUNNING"]
  /\ at' = [at EXCEPT ![Running] = "swtch",
                      ![Resumed(scan)] = IF @ = "off" THEN "resume" ELSE @]
  /\ held' = [held EXCEPT ![Running] = @ \ {PtableLock},
                          ![Resumed(scan)] = @ \cup {PtableLock}]
  /\ UNCHANGED <<kind, want, why, enabled, saved, chan, scan, cpuVars>>

SchedulerSwtch ==
  /\ SchedulerRuns("scan")
  /\ scan \in Proc
  /\ state[scan] = "RUNNABLE"
  /\ cur' = scan
  /\ state' = [state EXCEPT ![scan] = "RUNNING"]
  /\ at' = [at EXCEPT ![Running] = "swtch",
                      ![Resumed(scan)] = IF @ = "off" THEN "resume" ELSE @]
  /\ intena' = IF at[Resumed(scan)] = "off" THEN saved[scan] ELSE intena
  /\ held' = [held EXCEPT ![Running] = @ \ {PtableLock},
                          ![Resumed(scan)] = @ \cup {PtableLock}]
  /\ UNCHANGED <<kind, want, why, enabled, saved, chan, scan,
                 intOn, ncli, locked, lkcpu, panicked>>

SchedulerRelease ==
  /\ SchedulerRuns("scan")
  /\ scan \notin Proc
  /\ IF releasePanics(PtableLock)
       THEN panic /\ UNCHANGED schedVars
       ELSE /\ release(PtableLock)
            /\ held' = [held EXCEPT ![Running] = @ \ {PtableLock}]
            /\ at' = [at EXCEPT ![Running] = "loop"]
            /\ UNCHANGED <<cur, kind, want, why, enabled, saved, state, chan, scan>>

-----------------------------------------------------------------------------
Next ==
  \/ Irq
  \/ IrqReturn
  \/ \E l \in Lock : BeginCrit(l)
  \/ Reacquire
  \/ Yield
  \/ \E l \in Lock : Sleep(l)
  \/ EndAcquire
  \/ \E l \in Lock : EndCrit(l)
  \/ YieldRunnable
  \/ \E l \in Lock : SleepRelease(l)
  \/ WaitSleep
  \/ Swtch
  \/ ResumeYield
  \/ ResumeWait
  \/ ResumeSleep
  \/ forkret
  \/ trapret
  \/ \E c \in Lock : wakeup1(c)
  \/ \E p \in Proc : kill(p)
  \/ SchedulerSti
  \/ SchedulerAcquire
  \/ SchedulerSkip
  \/ SchedulerSwtch
  \/ SchedulerRelease

Spec == Init /\ [][Next]_vars

\* Fairness.  The code between two control points always finishes, and a
\* critical section ends, the outermost one too.  Interrupts do not saturate the CPU: a frame goes on
\* although it may be interrupted at its control point any number of times.
\* A timer interrupt stays pending until it can be taken, and then yields.
SchedulerStep ==
  \/ SchedulerSti
  \/ SchedulerAcquire
  \/ SchedulerRuns("pushcli") /\ EndAcquire
  \/ SchedulerSkip
  \/ SchedulerSwtch
  \/ SchedulerRelease

KernelStep ==
  \/ Reacquire
  \/ Running # ThrOf(Scheduler) /\ EndAcquire
  \/ YieldRunnable
  \/ \E l \in Lock : SleepRelease(l)
  \/ Swtch
  \/ ResumeYield
  \/ ResumeWait
  \/ ResumeSleep
  \/ forkret
  \/ trapret

Fairness ==
  /\ SF_vars(Irq)
  /\ SF_vars(Yield)
  /\ SF_vars(IrqReturn)
  /\ \A l \in Lock : SF_vars(EndCrit(l)) /\ SF_vars(held[Running] = {l} /\ EndCrit(l))
  /\ SF_vars(SchedulerStep)
  /\ SF_vars(KernelStep)

FairSpec == Spec /\ Fairness

-----------------------------------------------------------------------------
TypeOK ==
  /\ CpuTypeOK
  /\ cur \in Ctx
  /\ kind \in [Ctx -> {"thr", "irq"}]
  /\ at \in [Frame -> {"run", "pushcli", "relock", "yield", "sleep", "sched", "off",
                       "resume", "forkret", "trapret", "loop", "sti", "scan", "swtch"}]
  /\ want \in [Frame -> Lock \cup {NoLock}]
  /\ why \in [Frame -> {"crit", "yield", "sleep", "wait"}]
  /\ enabled \in [Frame -> BOOLEAN]
  /\ held \in [Frame -> SUBSET Lock]
  /\ saved \in [Proc -> BOOLEAN]
  /\ state \in [Proc -> {"RUNNABLE", "RUNNING", "SLEEPING"}]
  /\ chan \in [Proc -> Lock \cup {NoLock}]
  /\ scan \in 1 .. NPROC + 1

\* The nesting count is exact: cpu->ncli is the number of locks held, all of
\* them by the frame on the CPU, and lk->locked says which.
NcliCountsLocks ==
  /\ ncli = Cardinality(held[Running])
  /\ \A l \in Lock : locked[l] = 1 <=> l \in held[Running]

\* spinlock.c:18: on one CPU no spinning is needed.  A lock never has two
\* holders, although acquire() does not look at lk->locked: neither an
\* interrupt handler nor another process runs while a lock is held.
MutualExclusion ==
  /\ TypeOK
  /\ NcliCountsLocks
  /\ \A l \in Lock : \A f, g \in Frame :
       l \in held[f] /\ l \in held[g] => f = g

\* arm.c:74-76, and intena in sched(): outside its critical sections a process
\* has interrupts on, and an interrupt handler has them off, whatever the
\* contexts that ran in between did to cpu->intena; and no panic() of
\* acquire, release, popcli or sched is reached.
RestoresInterrupts ==
  /\ ~panicked
  /\ cur \in Proc /\ ncli = 0 /\ at[Running] # "trapret" => (intOn <=> kind[cur] = "thr")

\* The scheduler's scan starves nobody: a process made RUNNABLE, by yield(),
\* wakeup() or kill(), eventually gets the CPU.
RunnableRuns ==
  \A p \in Proc : state[p] = "RUNNABLE" ~> state[p] = "RUNNING"
=============================================================================
