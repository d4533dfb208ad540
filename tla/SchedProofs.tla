---------------------------- MODULE SchedProofs -----------------------------
(***************************************************************************)
(* Proofs about Sched, for any number of processes and any locks: that     *)
(* masking interrupts is enough for mutual exclusion on one CPU, that no   *)
(* check of acquire(), release() or sched() fails, and that every frame    *)
(* gets back the interrupt flag it had.                                    *)
(***************************************************************************)
EXTENDS Sched, FiniteSetTheorems, TLAPS

\* The control points of each frame: the scheduler's and a process's thread,
\* and the handlers on top of them.
SchedPoint == {"loop", "sti", "pushcli", "scan", "swtch"}
ThrPoint == {"run", "pushcli", "relock", "sleep", "sched", "off", "resume", "forkret", "trapret"}
IrqPoint == {"run", "pushcli", "yield", "sched", "off", "resume"}
\* Those where a thread can be interrupted.
Open == {"run", "pushcli", "relock", "trapret", "loop", "sti"}
\* Those where a frame of kind k of context c can be while it has the CPU.
PointOf(c, k) ==
  IF c = Scheduler THEN IF k = "thr" THEN SchedPoint \ {"swtch"} ELSE {"run", "pushcli"}
                   ELSE (IF k = "thr" THEN ThrPoint ELSE IrqPoint) \ {"off"}
\* Who may have called an acquire() of that frame.
WhyOf(c, k) ==
  IF c = Scheduler THEN {"crit"}
                   ELSE IF k = "thr" THEN {"crit", "sleep", "wait"} ELSE {"crit", "yield"}

\* Where the frames are.  Only cur is between two control points of its own:
\* every other process is inside its swtch(), or has not run yet.
CtlInv ==
  /\ at[Running] \in PointOf(cur, kind[cur])
  /\ at[ThrOf(Scheduler)] \in SchedPoint /\ at[IrqOf(Scheduler)] \in {"run", "pushcli"}
  /\ \A p \in Proc : at[ThrOf(p)] \in ThrPoint /\ at[IrqOf(p)] \in IrqPoint
  /\ \A t \in Ctx : kind[t] = "thr" => at[IrqOf(t)] = "run"
  /\ \A t \in Ctx : kind[t] = "irq" => at[ThrOf(t)] \in Open
  /\ cur # Scheduler =>
       at[ThrOf(Scheduler)] = "swtch" /\ kind[Scheduler] = "thr" /\ scan = cur
  /\ \A p \in Proc \ {cur} : at[Resumed(p)] \in {"off", "forkret"}

\* The locks h that the frame on the CPU holds at control point a.
HeldAt(a, h) ==
  /\ a \in {"yield", "sched", "resume", "forkret", "scan"} => h = {PtableLock}
  /\ a = "sleep" => \E lk \in Lock \ {PtableLock} : h = {lk, PtableLock}
  /\ a \in {"relock", "trapret", "loop", "sti"} => h = {}

\* Who holds what: only the frame on the CPU, with interrupts off, and exactly
\* ptable.lock whenever the CPU changes hands.
HeldInv ==
  /\ \A f \in Frame \ {Running} : held[f] = {}
  /\ intOn => held[Running] = {}
  /\ HeldAt(at[Running], held[Running])

\* A frame f that holds h may call acquire(w) for the reason y.
MayAsk(f, w, y, h) ==
  /\ w \in Lock \ h
  /\ y \in {"crit", "yield", "sleep"}
  /\ f = ThrOf(Scheduler) \/ y = "yield" => w = PtableLock /\ h = {}
  /\ y = "sleep" => w = PtableLock /\ \E lk \in Lock \ {PtableLock} : h = {lk}

\* What the acquire() of each frame is for.
AskInv ==
  /\ \A f \in Frame : at[f] = "pushcli" => MayAsk(f, want[f], why[f], held[f])
  /\ \A t \in Ctx : why[ThrOf(t)] \in WhyOf(t, "thr") /\ why[IrqOf(t)] \in WhyOf(t, "irq")
  /\ \A f \in Frame : at[f] = "relock" => want[f] \in Lock
  /\ \A p \in Proc : at[ThrOf(p)] \in {"sched", "off", "resume"} /\ why[ThrOf(p)] = "sleep" =>
       chan[p] \in Lock

\* lk->locked, lk->cpu and cpu->ncli say what is held; the checks of acquire(),
\* release() and sched() pass when lk->cpu is recorded.
CountInv ==
  /\ NcliCountsLocks
  /\ \A l \in Lock : lkcpu[l] = (RecordCpu /\ l \in held[Running])
  /\ RecordCpu => ~panicked

\* The flag `on' and its copy `ie' in cpu->intena, while a frame of kind k of
\* context c is at a and holds h: a thread of a process has interrupts on
\* outside its critical sections, a handler has them off.
FlagAt(c, k, a, h, on, ie) ==
  /\ on => k = "thr"
  /\ c # Scheduler /\ k = "thr" /\ h = {} /\ a # "trapret" => on
  /\ h # {} /\ k = "irq" => ~ie
  /\ h # {} /\ c # Scheduler /\ k = "thr" /\ a # "forkret" => ie

\* That flag is also what pushcli() and sched() have in their local variables.
FlagInv ==
  ~panicked =>
    /\ FlagAt(cur, kind[cur], at[Running], held[Running], intOn, intena)
    /\ \A t \in Ctx : at[IrqOf(t)] = "pushcli" => enabled[IrqOf(t)] = FALSE
    /\ \A p \in Proc : at[ThrOf(p)] = "pushcli" /\ held[ThrOf(p)] = {} => enabled[ThrOf(p)] = TRUE
    /\ \A p \in Proc : at[Resumed(p)] = "off" => saved[p] = (kind[p] = "thr")
    /\ at[Running] = "sched" => state[cur] # "RUNNING"

SInv ==
  /\ TypeOK
  /\ CtlInv
  /\ HeldInv
  /\ AskInv
  /\ CountInv
  /\ FlagInv

-----------------------------------------------------------------------------
(* Frames.                                                                 *)

\* A frame is the thread or the handler of one context.
LEMMA Frames ==
  /\ Scheduler \in Ctx /\ Proc \subseteq Ctx /\ Scheduler \notin Proc
  /\ Ctx = {Scheduler} \cup Proc
  /\ \A t \in Ctx : ThrOf(t) \in Frame /\ IrqOf(t) \in Frame
  /\ \A t, u \in Ctx : /\ ThrOf(t) # IrqOf(u)
                       /\ ThrOf(t) = ThrOf(u) => t = u
                       /\ IrqOf(t) = IrqOf(u) => t = u
  /\ \A f \in Frame : \E t \in Ctx : f = ThrOf(t) \/ f = IrqOf(t)
<1>1. Scheduler \in Ctx /\ Proc \subseteq Ctx /\ Scheduler \notin Proc /\ Ctx = {Scheduler} \cup Proc
  BY NPROCAssumption DEF Ctx, Scheduler, Proc
<1>2. \A t \in Ctx : ThrOf(t) \in Frame /\ IrqOf(t) \in Frame
  BY DEF Frame, ThrOf, IrqOf
<1>3. \A t, u \in Ctx : /\ ThrOf(t) # IrqOf(u)
                        /\ ThrOf(t) = ThrOf(u) => t = u
                        /\ IrqOf(t) = IrqOf(u) => t = u
  BY DEF ThrOf, IrqOf
<1>4. \A f \in Frame : \E t \in Ctx : f = ThrOf(t) \/ f = IrqOf(t)
  BY DEF Frame, ThrOf, IrqOf
<1> QED
  BY <1>1, <1>2, <1>3, <1>4

\* The topmost frame of each context, and the one on the CPU.
LEMMA Topmost ==
  ASSUME TypeOK
  PROVE  /\ cur \in Ctx /\ Running \in Frame /\ Running = Resumed(cur)
         /\ kind[cur] = "thr" \/ kind[cur] = "irq"
         /\ \A t \in Ctx : /\ kind[t] = "thr" => Resumed(t) = ThrOf(t)
                           /\ kind[t] = "irq" => Resumed(t) = IrqOf(t)
                           /\ kind[t] \in {"thr", "irq"} /\ Resumed(t) \in Frame
BY DEF TypeOK, Running, Resumed, ThrOf, IrqOf, Frame

\* The first state.
LEMMA InitSInv == Init => SInv
<1> SUFFICES ASSUME Init PROVE SInv
  OBVIOUS
<1> USE DEF Init, init_lock
<1>1. TypeOK
  <2>1. CpuTypeOK
    BY Zenon DEF CpuTypeOK
  <2>2. scan \in 1 .. NPROC + 1 /\ cur \in Ctx
    BY Frames, NPROCAssumption
  <2>3. at \in [Frame -> {"run", "pushcli", "relock", "yield", "sleep", "sched", "off",
                        "resume", "forkret", "trapret", "loop", "sti", "scan", "swtch"}]
    OBVIOUS
  <2> QED
    BY <2>1, <2>2, <2>3 DEF TypeOK
<1>2. Running = ThrOf(Scheduler) /\ cur = Scheduler
  BY Frames DEF Running, ThrOf
<1>3. /\ \A t \in Ctx : at[IrqOf(t)] = "run"
      /\ \A p \in Proc : at[ThrOf(p)] = "forkret" /\ Resumed(p) = ThrOf(p)
      /\ at[ThrOf(Scheduler)] = "loop"
  BY Zenon, Frames DEF ThrOf, IrqOf, Resumed
<1>4. CtlInv
  BY ZenonT(30), <1>2, <1>3, Frames DEF CtlInv, PointOf, SchedPoint, ThrPoint, IrqPoint
<1>5. HeldInv
  BY <1>2, <1>3, Frames DEF HeldInv, HeldAt
<1>6. AskInv
  BY <1>3, Frames DEF AskInv, WhyOf
<1>7. CountInv
  <2>1. held[Running] = {}
    BY <1>2, Frames
  <2>2. ncli = Cardinality(held[Running])
    BY Zenon, <2>1, FS_EmptySet
  <2>3. \A l \in Lock : lkcpu[l] = FALSE /\ locked[l] = 0 /\ l \notin held[Running]
    BY Zenon, <2>1
  <2>4. ~panicked
    OBVIOUS
  <2> HIDE DEF Init, init_lock
  <2>5. \A l \in Lock : lkcpu[l] = (RecordCpu /\ l \in held[Running])
    BY Zenon, <2>3
  <2>6. \A l \in Lock : locked[l] = 1 <=> l \in held[Running]
    BY <2>3
  <2> QED
    BY <2>2, <2>4, <2>5, <2>6 DEF CountInv, NcliCountsLocks
<1>8. FlagInv
  BY Zenon, <1>2, <1>3, Frames DEF FlagInv, FlagAt
<1> QED
  BY <1>1, <1>4, <1>5, <1>6, <1>7, <1>8 DEF SInv

-----------------------------------------------------------------------------
(* A step of the frame on the CPU that keeps the CPU.                      *)

\* It leaves every other frame alone, and its own is as the invariant says.
LocalMove ==
  /\ ~panicked /\ TypeOK' /\ CountInv'
  /\ UNCHANGED <<cur, kind, saved, panicked>>
  /\ \A f \in Frame \ {Running} :
       /\ at'[f] = at[f] /\ want'[f] = want[f] /\ why'[f] = why[f]
       /\ enabled'[f] = enabled[f] /\ held'[f] = held[f]
  /\ \A p \in Proc \ {cur} : chan'[p] = chan[p]
  /\ cur # Scheduler => scan' = scan
  /\ at'[Running] \in PointOf(cur, kind[cur])
  /\ HeldAt(at'[Running], held'[Running])
  /\ intOn' => held'[Running] = {}
  /\ at'[Running] = "pushcli" =>
       MayAsk(Running, want'[Running], why'[Running], held'[Running])
  /\ why'[Running] \in WhyOf(cur, kind[cur])
  /\ at'[Running] = "relock" => want'[Running] \in Lock
  /\ kind[cur] = "thr" /\ cur # Scheduler /\ at'[Running] \in {"sched", "resume"}
       /\ why'[Running] = "sleep" => chan'[cur] \in Lock
  /\ FlagAt(cur, kind[cur], at'[Running], held'[Running], intOn', intena')
  /\ at'[Running] = "pushcli" =>
       /\ kind[cur] = "irq" => enabled'[Running] = FALSE
       /\ kind[cur] = "thr" /\ cur # Scheduler /\ held'[Running] = {} => enabled'[Running] = TRUE
  /\ at'[Running] = "sched" => state'[cur] # "RUNNING"

\* Such a step keeps the invariant: nothing else has to be shown of a handler
\* that does not switch to another context.
LEMMA LocalStep ==
  ASSUME SInv, LocalMove
  PROVE  SInv'
<1> DEFINE R == Running
<1>1. /\ cur \in Ctx /\ R \in Frame /\ R = Resumed(cur) /\ kind[cur] \in {"thr", "irq"}
      /\ \A t \in Ctx : /\ kind[t] = "thr" => Resumed(t) = ThrOf(t)
                        /\ kind[t] = "irq" => Resumed(t) = IrqOf(t)
                        /\ kind[t] \in {"thr", "irq"} /\ Resumed(t) \in Frame
  BY Topmost DEF SInv
<1>same. ~panicked /\ TypeOK' /\ CountInv' /\ UNCHANGED <<cur, kind, saved, panicked>>
  BY Zenon DEF LocalMove
<1>2. R' = R /\ \A t \in Ctx : Resumed(t)' = Resumed(t)
  BY Zenon, <1>same DEF Running, Resumed
<1>3. /\ \A t \in Ctx : ThrOf(t) = R <=> t = cur /\ kind[cur] = "thr"
      /\ \A t \in Ctx : IrqOf(t) = R <=> t = cur /\ kind[cur] = "irq"
      /\ \A t \in Ctx : Resumed(t) = R <=> t = cur
  BY <1>1, Frames
<1>4. cur # Scheduler <=> cur \in Proc
  BY Zenon, <1>1, Frames
<1>there. \A f \in Frame \ {R} :
            /\ at'[f] = at[f] /\ want'[f] = want[f] /\ why'[f] = why[f]
            /\ enabled'[f] = enabled[f] /\ held'[f] = held[f]
  BY Zenon DEF LocalMove
<1>point. at'[R] \in PointOf(cur, kind[cur]) /\ HeldAt(at'[R], held'[R]) /\ (intOn' => held'[R] = {})
  BY Zenon DEF LocalMove
<1>5. at[R] # "swtch" /\ at'[R] # "swtch" /\ at'[R] # "off"
  BY Zenon, <1>point DEF SInv, CtlInv, PointOf, SchedPoint, ThrPoint, IrqPoint
<1>frame. \A t \in Ctx :
            /\ ThrOf(t) # R => ThrOf(t) \in Frame \ {R}
            /\ IrqOf(t) # R => IrqOf(t) \in Frame \ {R}
            /\ t # cur => ThrOf(t) \in Frame \ {R} /\ IrqOf(t) \in Frame \ {R} /\ Resumed(t) \in Frame \ {R}
  BY Zenon, <1>1, <1>3, Frames
<1> HIDE DEF R
<1>6. CtlInv'
  <2>old. CtlInv
    BY DEF SInv
  <2>0. \A t \in Ctx :
          /\ at'[ThrOf(t)] = at[ThrOf(t)] \/ at'[ThrOf(t)] \in PointOf(t, "thr")
          /\ at'[IrqOf(t)] = at[IrqOf(t)] \/ at'[IrqOf(t)] \in PointOf(t, "irq")
    BY Zenon, <1>3, <1>point, <1>there, <1>frame
  <2>points. /\ PointOf(Scheduler, "thr") \subseteq SchedPoint
             /\ PointOf(Scheduler, "irq") = {"run", "pushcli"}
             /\ \A p \in Proc : PointOf(p, "thr") \subseteq ThrPoint /\ PointOf(p, "irq") \subseteq IrqPoint
    BY Frames DEF PointOf
  <2>ctx. Scheduler \in Ctx /\ Proc \subseteq Ctx
    BY Frames
  <2>was. /\ at[ThrOf(Scheduler)] \in SchedPoint /\ at[IrqOf(Scheduler)] \in {"run", "pushcli"}
          /\ \A p \in Proc : at[ThrOf(p)] \in ThrPoint /\ at[IrqOf(p)] \in IrqPoint
    BY Zenon, <2>old DEF CtlInv
  <2>1. at'[ThrOf(Scheduler)] \in SchedPoint /\ at'[IrqOf(Scheduler)] \in {"run", "pushcli"}
    BY Zenon, <2>0, <2>points, <2>ctx, <2>was
  <2>2. \A p \in Proc : at'[ThrOf(p)] \in ThrPoint /\ at'[IrqOf(p)] \in IrqPoint
    BY Zenon, <2>0, <2>points, <2>ctx, <2>was
  <2>3. \A t \in Ctx : kind[t] = "thr" => at'[IrqOf(t)] = "run"
    BY <2>old, <1>3, <1>there, <1>frame DEF CtlInv
  <2>4. \A t \in Ctx : kind[t] = "irq" => at'[ThrOf(t)] \in Open
    BY <2>old, <1>3, <1>there, <1>frame DEF CtlInv
  <2>5. cur # Scheduler => at'[ThrOf(Scheduler)] = "swtch" /\ kind[Scheduler] = "thr" /\ scan' = cur
    <3>1. cur # Scheduler => scan' = scan
      BY Zenon DEF LocalMove
    <3> QED
      BY Zenon, <2>old, <1>there, <1>frame, <3>1, Frames DEF CtlInv
  <2>6. \A p \in Proc \ {cur} : at'[Resumed(p)] \in {"off", "forkret"}
    BY Zenon, <2>old, <1>there, <1>frame, Frames DEF CtlInv
  <2> QED
    BY Zenon, <1>same, <1>2, <1>point, <2>1, <2>2, <2>3, <2>4, <2>5, <2>6, Frames DEF CtlInv, R
<1>7. HeldInv'
  BY Zenon, <1>2, <1>there, <1>point DEF SInv, HeldInv, R
<1>8. AskInv'
  <2>old. AskInv
    BY DEF SInv
  <2>new. /\ at'[R] = "pushcli" => MayAsk(R, want'[R], why'[R], held'[R])
          /\ why'[R] \in WhyOf(cur, kind[cur])
          /\ at'[R] = "relock" => want'[R] \in Lock
          /\ kind[cur] = "thr" /\ cur # Scheduler /\ at'[R] \in {"sched", "resume"}
               /\ why'[R] = "sleep" => chan'[cur] \in Lock
          /\ \A p \in Proc \ {cur} : chan'[p] = chan[p]
    BY Zenon DEF LocalMove, R
  <2>1. \A f \in Frame : at'[f] = "pushcli" => MayAsk(f, want'[f], why'[f], held'[f])
    BY Zenon, <2>old, <2>new, <1>there DEF AskInv
  <2>2. \A t \in Ctx : why'[ThrOf(t)] \in WhyOf(t, "thr") /\ why'[IrqOf(t)] \in WhyOf(t, "irq")
    BY Zenon, <2>old, <2>new, <1>3, <1>there, <1>frame DEF AskInv
  <2>3. \A f \in Frame : at'[f] = "relock" => want'[f] \in Lock
    BY Zenon, <2>old, <2>new, <1>there DEF AskInv
  <2>4. ASSUME NEW p \in Proc, at'[ThrOf(p)] \in {"sched", "off", "resume"},
               why'[ThrOf(p)] = "sleep"
        PROVE  chan'[p] \in Lock
    <3>1. CASE p # cur
      <4>1. ThrOf(p) \in Frame \ {R}
        BY Zenon, <1>frame, <3>1, Frames
      <4>2. at[ThrOf(p)] = at'[ThrOf(p)] /\ why[ThrOf(p)] = "sleep" /\ chan'[p] = chan[p]
        BY Zenon, <1>there, <2>new, <2>4, <3>1, <4>1
      <4> QED
        BY Zenon, <2>old, <2>4, <4>2 DEF AskInv
    <3>2. CASE p = cur /\ kind[cur] = "thr"
      <4>1. ThrOf(p) = R
        BY Zenon, <1>3, <3>2, Frames
      <4> QED
        BY Zenon, <1>4, <1>5, <2>new, <2>4, <3>2, <4>1
    <3>3. CASE p = cur /\ kind[cur] = "irq"
      <4>1. at'[ThrOf(p)] = at[ThrOf(p)] /\ at[ThrOf(p)] \in Open
        BY Zenon, <1>3, <1>there, <1>frame, <3>3, Frames DEF SInv, CtlInv
      <4> QED
        BY Zenon, <2>4, <4>1 DEF Open
    <3> QED
      BY Zenon, <1>1, <3>1, <3>2, <3>3
  <2> QED
    BY Zenon, <2>1, <2>2, <2>3, <2>4 DEF AskInv, MayAsk
<1>9. FlagInv'
  <2>old. /\ \A t \in Ctx : at[IrqOf(t)] = "pushcli" => enabled[IrqOf(t)] = FALSE
          /\ \A p \in Proc : at[ThrOf(p)] = "pushcli" /\ held[ThrOf(p)] = {} => enabled[ThrOf(p)] = TRUE
          /\ \A p \in Proc : at[Resumed(p)] = "off" => saved[p] = (kind[p] = "thr")
    BY Zenon, <1>same DEF SInv, FlagInv
  <2>new. /\ at'[R] = "pushcli" =>
               /\ kind[cur] = "irq" => enabled'[R] = FALSE
               /\ kind[cur] = "thr" /\ cur # Scheduler /\ held'[R] = {} => enabled'[R] = TRUE
          /\ at'[R] = "sched" => state'[cur] # "RUNNING"
          /\ FlagAt(cur, kind[cur], at'[R], held'[R], intOn', intena')
    BY Zenon DEF LocalMove, R
  <2>1. \A t \in Ctx : at'[IrqOf(t)] = "pushcli" => enabled'[IrqOf(t)] = FALSE
    BY Zenon, <1>3, <1>there, <1>frame, <2>old, <2>new
  <2>2. \A p \in Proc : at'[ThrOf(p)] = "pushcli" /\ held'[ThrOf(p)] = {} => enabled'[ThrOf(p)] = TRUE
    BY Zenon, <1>3, <1>4, <1>there, <1>frame, <2>old, <2>new, Frames
  <2>3. \A p \in Proc : at'[Resumed(p)] = "off" => saved[p] = (kind[p] = "thr")
    BY Zenon, <1>1, <1>5, <1>there, <1>frame, <2>old, Frames
  <2> QED
    BY Zenon, <1>same, <1>2, <2>1, <2>2, <2>3, <2>new, Frames DEF FlagInv, R
<1> QED
  BY Zenon, <1>same, <1>6, <1>7, <1>8, <1>9 DEF SInv

\* A step that takes and releases no lock.
LEMMA CountSame ==
  ASSUME SInv, UNCHANGED <<cur, kind, ncli, locked, lkcpu, panicked>>,
         held'[Running] = held[Running]
  PROVE  CountInv'
<1>1. Running' = Running
  BY DEF Running
<1> QED
  BY <1>1 DEF SInv, CountInv, NcliCountsLocks

\* A call of acquire(), up to the reading of the flag in pushcli().
LEMMA CallStep ==
  ASSUME SInv, ~panicked, NEW l \in Lock, NEW reason \in {"crit", "yield", "sleep"},
         CallAcquire(l, reason), at[Running] \in {"run", "relock", "sti"},
         MayAsk(Running, l, reason, held[Running]), reason \in WhyOf(cur, kind[cur])
  PROVE  SInv'
<1> USE DEF SInv
<1> DEFINE R == Running
<1>1. cur \in Ctx /\ R \in Frame /\ kind[cur] \in {"thr", "irq"}
  BY Topmost
<1>2. /\ at' = [at EXCEPT ![R] = "pushcli"] /\ want' = [want EXCEPT ![R] = l]
      /\ why' = [why EXCEPT ![R] = reason] /\ enabled' = [enabled EXCEPT ![R] = intOn]
      /\ UNCHANGED <<cur, kind, held, saved, state, chan, scan>>
      /\ UNCHANGED <<intOn, ncli, intena, locked, lkcpu, panicked>>
  BY DEF CallAcquire, cpuVars
<1> HIDE DEF R
<1>3. TypeOK'
  BY <1>1, <1>2 DEF TypeOK, CpuTypeOK
<1>4. CountInv'
  BY <1>2, CountSame DEF R
<1>5. /\ at'[R] = "pushcli" /\ want'[R] = l /\ why'[R] = reason /\ enabled'[R] = intOn
      /\ held'[R] = held[R]
      /\ \A f \in Frame \ {R} : /\ at'[f] = at[f] /\ want'[f] = want[f] /\ why'[f] = why[f]
                                /\ enabled'[f] = enabled[f] /\ held'[f] = held[f]
  BY <1>1, <1>2 DEF TypeOK
<1>6. "pushcli" \in PointOf(cur, kind[cur])
  BY <1>1 DEF PointOf, SchedPoint, ThrPoint, IrqPoint
<1>7. HeldAt("pushcli", held[R])
  BY DEF HeldAt
<1>8. FlagAt(cur, kind[cur], at[R], held[R], intOn, intena)
  BY DEF FlagInv, R
<1>9. FlagAt(cur, kind[cur], "pushcli", held[R], intOn, intena)
  BY <1>8 DEF FlagAt, R
<1>10. /\ kind[cur] = "irq" => intOn = FALSE
       /\ kind[cur] = "thr" /\ cur # Scheduler /\ held[R] = {} => intOn = TRUE
  BY <1>8 DEF FlagAt, TypeOK, CpuTypeOK, R
<1>11. intOn => held[R] = {}
  BY DEF HeldInv, R
<1> QED
  BY Zenon, <1>2, <1>3, <1>4, <1>5, <1>6, <1>7, <1>9, <1>10, <1>11, LocalStep DEF LocalMove, R

\* The five callers of acquire().
LEMMA CallersStep ==
  ASSUME SInv,
         \/ \E l \in Lock : BeginCrit(l) \/ Sleep(l)
         \/ Reacquire \/ Yield \/ SchedulerAcquire
  PROVE  SInv'
<1> USE DEF SInv
<1>1. /\ cur \in Ctx /\ Running \in Frame /\ kind[cur] \in {"thr", "irq"}
      /\ kind[cur] = "thr" => Running = ThrOf(cur)
      /\ kind[cur] = "irq" => Running = IrqOf(cur)
  BY Topmost
<1>2. Running = ThrOf(Scheduler) => cur = Scheduler /\ kind[cur] = "thr"
  BY <1>1, Frames
<1>3. \A c, k : "crit" \in WhyOf(c, k)
  BY DEF WhyOf
<1>4. cur # Scheduler => (kind[cur] = "thr" => "sleep" \in WhyOf(cur, kind[cur]))
                         /\ (kind[cur] = "irq" => "yield" \in WhyOf(cur, kind[cur]))
  BY DEF WhyOf
<1>5. ASSUME NEW l \in Lock, BeginCrit(l) PROVE SInv'
  <2>1. MayAsk(Running, l, "crit", held[Running])
    BY <1>2, <1>5 DEF MayAsk, BeginCrit
  <2> QED
    BY <1>3, <1>5, <2>1, CallStep DEF BeginCrit
<1>6. ASSUME NEW l \in Lock, Sleep(l) PROVE SInv'
  <2>1. cur # Scheduler
    BY <1>6, Frames DEF Sleep
  <2>2. MayAsk(Running, PtableLock, "sleep", held[Running])
    BY <1>2, <1>6, <2>1, PtableAssumption DEF MayAsk, Sleep
  <2> QED
    BY <1>4, <1>6, <2>1, <2>2, CallStep, PtableAssumption DEF Sleep
<1>7. CASE Reacquire
  <2>1. want[Running] \in Lock /\ held[Running] = {}
    BY <1>1, <1>7 DEF Reacquire, AskInv, HeldInv, HeldAt
  <2>2. Running # ThrOf(Scheduler)
    BY <1>7 DEF Reacquire, CtlInv, SchedPoint
  <2>3. MayAsk(Running, want[Running], "crit", held[Running])
    BY <2>1, <2>2 DEF MayAsk
  <2> QED
    BY <1>3, <1>7, <2>1, <2>3, CallStep DEF Reacquire
<1>8. CASE Yield
  <2>1. cur # Scheduler /\ kind[cur] = "irq" /\ held[Running] = {}
    BY <1>8, Frames DEF Yield
  <2>2. MayAsk(Running, PtableLock, "yield", held[Running])
    BY <2>1, PtableAssumption DEF MayAsk
  <2> QED
    BY <1>4, <1>8, <2>1, <2>2, CallStep, PtableAssumption DEF Yield
<1>9. CASE SchedulerAcquire
  <2>1. at[Running] = "sti" /\ held[Running] = {} /\ ~panicked
    BY <1>9 DEF SchedulerAcquire, SchedulerRuns, HeldInv, HeldAt
  <2>2. MayAsk(Running, PtableLock, "crit", held[Running])
    BY <2>1, PtableAssumption DEF MayAsk
  <2> QED
    BY <1>3, <1>9, <2>1, <2>2, CallStep, PtableAssumption DEF SchedulerAcquire
<1> QED
  BY <1>5, <1>6, <1>7, <1>8, <1>9

-----------------------------------------------------------------------------
(* The locks.                                                              *)

\* The rest of acquire(): the lock was free, and interrupts are now masked.
LEMMA AcquireStep ==
  ASSUME SInv, EndAcquire
  PROVE  SInv'
<1> USE DEF SInv
<1> DEFINE R == Running
           l == want[R]
           a == IF cur = Scheduler /\ kind[cur] = "thr" THEN "scan"
                ELSE IF why[R] = "crit" THEN "run" ELSE why[R]
<1>1. /\ cur \in Ctx /\ R \in Frame /\ kind[cur] \in {"thr", "irq"}
      /\ kind[cur] = "thr" => R = ThrOf(cur)
      /\ kind[cur] = "irq" => R = IrqOf(cur)
  BY Topmost
<1>2. ~panicked /\ at[R] = "pushcli" /\ MayAsk(R, l, why[R], held[R])
  BY <1>1 DEF EndAcquire, AskInv
<1>3. l \in Lock /\ l \notin held[R] /\ locked[l] = 0
  BY <1>2 DEF MayAsk, CountInv, NcliCountsLocks, TypeOK, CpuTypeOK
<1>4. /\ intOn' = FALSE /\ ncli' = ncli + 1
      /\ intena' = (IF ncli = 0 THEN enabled[R] ELSE intena)
      /\ locked' = [locked EXCEPT ![l] = 1]
      /\ lkcpu' = [lkcpu EXCEPT ![l] = @ \/ RecordCpu]
      /\ UNCHANGED panicked
      /\ held' = [held EXCEPT ![R] = @ \cup {l}]
      /\ at' = [at EXCEPT ![R] = a]
      /\ scan' = (IF cur = Scheduler /\ kind[cur] = "thr" THEN 1 ELSE scan)
      /\ UNCHANGED <<cur, kind, want, why, enabled, saved, state, chan>>
  BY <1>3 DEF EndAcquire, acquirePanics, holding, acquire, pushcli
<1>5. why[R] \in WhyOf(cur, kind[cur]) /\ why[R] \in {"crit", "yield", "sleep"}
  BY <1>1, <1>2 DEF AskInv, MayAsk
<1>6. /\ a \in {"scan", "run", "yield", "sleep"} /\ a \in PointOf(cur, kind[cur])
      /\ a = "scan" <=> cur = Scheduler /\ kind[cur] = "thr"
      /\ a \in {"yield", "sleep"} => a = why[R]
  <2> HIDE DEF R
  <2>1. CASE cur = Scheduler /\ kind[cur] = "thr"
    <3>1. a = "scan"
      BY <2>1
    <3> QED
      BY <2>1, <3>1 DEF PointOf, SchedPoint
  <2>2. CASE ~(cur = Scheduler /\ kind[cur] = "thr") /\ why[R] = "crit"
    <3>1. a = "run"
      BY <2>2
    <3> QED
      BY <1>1, <2>2, <3>1 DEF PointOf, ThrPoint, IrqPoint
  <2>3. CASE ~(cur = Scheduler /\ kind[cur] = "thr") /\ why[R] # "crit"
    <3>1. a = why[R]
      BY <2>3
    <3>2. cur # Scheduler
      BY <1>5, <2>3 DEF WhyOf
    <3> QED
      BY <1>1, <1>5, <2>3, <3>1, <3>2 DEF PointOf, WhyOf, ThrPoint, IrqPoint
  <2> QED
    BY <2>1, <2>2, <2>3
<1> HIDE DEF R, l, a
<1>7. held'[R] = held[R] \cup {l} /\ at'[R] = a
  BY <1>1, <1>4 DEF TypeOK
<1>8. TypeOK'
  <2>1. intena' \in BOOLEAN
    BY <1>1, <1>4 DEF TypeOK, CpuTypeOK
  <2>2. lkcpu' \in [Lock -> BOOLEAN]
    BY <1>3, <1>4 DEF TypeOK, CpuTypeOK
  <2>3. CpuTypeOK'
    <3>1. ncli' \in Nat /\ locked' \in [Lock -> {0, 1}]
      BY <1>3, <1>4 DEF TypeOK, CpuTypeOK
    <3>2. intOn' \in BOOLEAN /\ panicked' \in BOOLEAN
      BY Zenon, <1>4 DEF TypeOK, CpuTypeOK
    <3> QED
      BY <2>1, <2>2, <3>1, <3>2 DEF CpuTypeOK
  <2>4. scan' \in 1 .. NPROC + 1
    BY <1>4, NPROCAssumption DEF TypeOK
  <2>5. held' \in [Frame -> SUBSET Lock]
    BY <1>1, <1>3, <1>4 DEF TypeOK
  <2>6. at' \in [Frame -> {"run", "pushcli", "relock", "yield", "sleep", "sched", "off",
                           "resume", "forkret", "trapret", "loop", "sti", "scan", "swtch"}]
    BY <1>1, <1>4, <1>6 DEF TypeOK
  <2> QED
    BY <1>4, <2>3, <2>4, <2>5, <2>6 DEF TypeOK
<1>9. CountInv'
  <2>1. Running' = R
    BY <1>4 DEF Running, R
  <2>2. IsFiniteSet(held[R])
    BY <1>1, LockAssumption, FS_Subset DEF TypeOK
  <2>3. Cardinality(held[R] \cup {l}) = Cardinality(held[R]) + 1
    BY Zenon, <1>3, <2>2, FS_AddElement
  <2>4. ncli' = Cardinality(held'[R])
    BY Zenon, <1>4, <1>7, <2>3 DEF CountInv, NcliCountsLocks, R
  <2>5. \A x \in Lock : locked'[x] = 1 <=> x \in held'[R]
    BY <1>3, <1>4, <1>7 DEF CountInv, NcliCountsLocks, R, TypeOK, CpuTypeOK
  <2>6. \A x \in Lock : lkcpu'[x] = (RecordCpu /\ x \in held'[R])
    <3>1. ASSUME NEW x \in Lock, x # l PROVE lkcpu'[x] = (RecordCpu /\ x \in held'[R])
      BY <1>4, <1>7, <3>1 DEF CountInv, R, TypeOK, CpuTypeOK
    <3>2. lkcpu'[l] = (lkcpu[l] \/ RecordCpu) /\ lkcpu[l] = FALSE
      BY <1>3, <1>4 DEF CountInv, R, TypeOK, CpuTypeOK
    <3>3. lkcpu'[l] = (RecordCpu /\ l \in held'[R])
      BY <1>7, <3>2, RecordCpuAssumption
    <3> QED
      BY <3>1, <3>3
  <2>7. NcliCountsLocks'
    BY <2>1, <2>4, <2>5 DEF NcliCountsLocks
  <2>8. \A x \in Lock : lkcpu'[x] = (RecordCpu /\ x \in held'[Running'])
    BY <2>1, <2>6
  <2>9. RecordCpu => ~panicked'
    BY <1>4 DEF CountInv
  <2> QED
    BY <2>7, <2>8, <2>9 DEF CountInv
<1>10. HeldAt(a, held'[R])
  BY <1>1, <1>2, <1>6, <1>7 DEF HeldAt, MayAsk, R
<1>11. FlagAt(cur, kind[cur], a, held'[R], intOn', intena')
  <2>1. FlagAt(cur, kind[cur], at[R], held[R], intOn, intena)
    BY <1>2 DEF FlagInv, R
  <2>2. ncli = 0 <=> held[R] = {}
    <3>1. IsFiniteSet(held[R])
      BY <1>1, LockAssumption, FS_Subset DEF TypeOK
    <3> QED
      BY <3>1, FS_EmptySet DEF CountInv, NcliCountsLocks, R
  <2>3. held'[R] # {}
    BY <1>7
  <2>4. CASE held[R] # {}
    BY Zenon, <1>2, <1>4, <1>6, <2>1, <2>2, <2>3, <2>4 DEF FlagAt
  <2>5. CASE held[R] = {}
    <3>0. /\ \A t \in Ctx : at[IrqOf(t)] = "pushcli" => enabled[IrqOf(t)] = FALSE
          /\ \A p \in Proc : at[ThrOf(p)] = "pushcli" /\ held[ThrOf(p)] = {} => enabled[ThrOf(p)] = TRUE
          /\ cur # Scheduler => cur \in Proc
      BY Zenon, <1>1, <1>2, Frames DEF FlagInv
    <3>1. kind[cur] = "irq" => enabled[R] = FALSE
      BY Zenon, <1>1, <1>2, <3>0
    <3>2. kind[cur] = "thr" /\ cur # Scheduler => enabled[R] = TRUE
      BY Zenon, <1>1, <1>2, <2>5, <3>0
    <3>3. intena' = enabled[R] /\ intOn' = FALSE
      BY <1>4, <2>2, <2>5
    <3> QED
      BY Zenon, <1>1, <2>3, <3>1, <3>2, <3>3 DEF FlagAt
  <2> QED
    BY <2>4, <2>5
<1>12. \A f \in Frame \ {R} :
         /\ at'[f] = at[f] /\ want'[f] = want[f] /\ why'[f] = why[f]
         /\ enabled'[f] = enabled[f] /\ held'[f] = held[f]
  BY <1>4 DEF TypeOK
<1>13. cur # Scheduler => scan' = scan
  BY <1>4
<1> QED
  BY Zenon, <1>2, <1>4, <1>5, <1>6, <1>7, <1>8, <1>9, <1>10, <1>11, <1>12, <1>13, LocalStep DEF LocalMove, R

\* release(): a frame releases what it holds, so no check fails, and what is
\* left is counted.
LEMMA Release ==
  ASSUME SInv, NEW l \in held[Running],
         release(l), held' = [held EXCEPT ![Running] = @ \ {l}], UNCHANGED <<cur, kind>>
  PROVE  /\ l \in Lock /\ CpuTypeOK' /\ CountInv'
         /\ held'[Running] = held[Running] \ {l} /\ held' \in [Frame -> SUBSET Lock]
         /\ UNCHANGED <<intena, panicked>>
         /\ intOn' <=> held'[Running] = {} /\ intena
<1> USE DEF SInv
<1> DEFINE R == Running
<1>1. R \in Frame /\ R' = R /\ held[R] \subseteq Lock
  BY Zenon, Topmost DEF TypeOK, Running
<1>2. /\ locked' = [locked EXCEPT ![l] = 0] /\ ncli' = ncli - 1
      /\ lkcpu' = [lkcpu EXCEPT ![l] = @ /\ ~RecordCpu]
      /\ intOn' = (intOn \/ (ncli - 1 = 0 /\ intena))
      /\ UNCHANGED <<intena, panicked>>
  BY DEF release, popcli
<1>3. l \in held[R] /\ intOn = FALSE
  BY DEF HeldInv, TypeOK, CpuTypeOK
<1> HIDE DEF R
<1>4. held'[R] = held[R] \ {l} /\ held' \in [Frame -> SUBSET Lock]
  BY <1>1 DEF TypeOK, R
<1>5. /\ IsFiniteSet(held[R]) /\ IsFiniteSet(held'[R])
      /\ Cardinality(held'[R]) = Cardinality(held[R]) - 1
      /\ Cardinality(held'[R]) = 0 <=> held'[R] = {}
      /\ Cardinality(held'[R]) \in Nat
  <2>1. IsFiniteSet(held[R])
    BY <1>1, LockAssumption, FS_Subset
  <2>2. IsFiniteSet(held[R] \ {l}) /\ Cardinality(held[R] \ {l}) = Cardinality(held[R]) - 1
    BY Zenon, <1>3, <2>1, FS_RemoveElement
  <2>3. Cardinality(held[R] \ {l}) \in Nat /\ (Cardinality(held[R] \ {l}) = 0 <=> held[R] \ {l} = {})
    BY Zenon, <2>2, FS_EmptySet, FS_CardinalityType
  <2> QED
    BY Zenon, <1>4, <2>1, <2>2, <2>3
<1>6. ncli = Cardinality(held[R])
  BY DEF CountInv, NcliCountsLocks, R
<1>7. \A x \in Lock : locked'[x] = 1 <=> x \in held'[R]
  BY <1>1, <1>2, <1>3, <1>4 DEF CountInv, NcliCountsLocks, R, TypeOK, CpuTypeOK
<1>8. \A x \in Lock : lkcpu'[x] = (RecordCpu /\ x \in held'[R])
  <2>1. ASSUME NEW x \in Lock, x # l PROVE lkcpu'[x] = (RecordCpu /\ x \in held'[R])
    BY <1>2, <1>4, <2>1 DEF CountInv, R, TypeOK, CpuTypeOK
  <2>2. lkcpu'[l] = (lkcpu[l] /\ ~RecordCpu) /\ lkcpu[l] = (RecordCpu /\ l \in held[R])
    BY <1>1, <1>2, <1>3 DEF CountInv, R, TypeOK, CpuTypeOK
  <2>3. lkcpu'[l] = (RecordCpu /\ l \in held'[R])
    BY <1>4, <2>2, RecordCpuAssumption
  <2> QED
    BY <2>1, <2>3
<1>9. CountInv'
  BY <1>1, <1>2, <1>5, <1>6, <1>7, <1>8 DEF CountInv, NcliCountsLocks, R
<1>10. CpuTypeOK'
  <2>1. ncli' \in Nat
    BY <1>2, <1>5, <1>6
  <2>2. locked' \in [Lock -> {0, 1}]
    BY Zenon, <1>2 DEF TypeOK, CpuTypeOK
  <2>3. lkcpu' \in [Lock -> BOOLEAN]
    BY <1>2, <1>3, <1>1 DEF TypeOK, CpuTypeOK
  <2>4. intOn' \in BOOLEAN /\ intena' \in BOOLEAN /\ panicked' \in BOOLEAN
    BY <1>2 DEF TypeOK, CpuTypeOK
  <2> QED
    BY <2>1, <2>2, <2>3, <2>4 DEF CpuTypeOK
<1>11. intOn' <=> held'[R] = {} /\ intena
  BY Zenon, <1>2, <1>3, <1>5, <1>6
<1> QED
  BY <1>1, <1>2, <1>3, <1>4, <1>9, <1>10, <1>11 DEF R

\* No check of release() fails on a lock that the frame on the CPU holds.
LEMMA ReleaseChecks ==
  ASSUME SInv, NEW l \in held[Running]
  PROVE  ~releasePanics(l)
<1> USE DEF SInv
<1>1. Running \in Frame /\ held[Running] \subseteq Lock
  BY Topmost DEF TypeOK
<1>2. ~intOn
  BY DEF HeldInv
<1>3. IsFiniteSet(held[Running])
  BY <1>1, LockAssumption, FS_Subset
<1>4. ncli \in Nat /\ ncli # 0
  <2>1. ncli = Cardinality(held[Running])
    BY DEF CountInv, NcliCountsLocks
  <2>2. Cardinality(held[Running]) # 0
    BY <1>3, FS_EmptySet
  <2> QED
    BY <2>1, <2>2 DEF TypeOK, CpuTypeOK
<1>5. RecordCpu => holding(l)
  <2>1. locked[l] = 1 /\ lkcpu[l] = (RecordCpu /\ l \in held[Running])
    BY <1>1 DEF CountInv, NcliCountsLocks
  <2> QED
    BY Zenon, <2>1, RecordCpuAssumption DEF holding
<1> QED
  BY <1>2, <1>4, <1>5 DEF releasePanics, popcliPanics

\* A step in which the frame on the CPU releases l and goes on at a.
LEMMA ReleaseStep ==
  ASSUME SInv, ~panicked, NEW l \in held[Running], NEW a, NEW w \in Lock \cup {NoLock},
         release(l), held' = [held EXCEPT ![Running] = @ \ {l}],
         at' = [at EXCEPT ![Running] = a],
         want' = [want EXCEPT ![Running] = w],
         UNCHANGED <<cur, kind, why, enabled, saved, scan>>,
         chan' \in [Proc -> Lock \cup {NoLock}],
         state' \in [Proc -> {"RUNNABLE", "RUNNING", "SLEEPING"}],
         \A p \in Proc \ {cur} : chan'[p] = chan[p],
         a \in PointOf(cur, kind[cur]) \ {"pushcli"},
         HeldAt(a, held[Running] \ {l}),
         a = "relock" => w \in Lock,
         a = "trapret" \/ (at[Running] # "forkret" /\ a # "forkret"),
         kind[cur] = "thr" /\ cur # Scheduler /\ a \in {"sched", "resume"}
           /\ why[Running] = "sleep" => chan'[cur] \in Lock,
         a = "sched" => state'[cur] # "RUNNING"
  PROVE  SInv'
<1> USE DEF SInv
<1> DEFINE R == Running
<1>1. /\ cur \in Ctx /\ R \in Frame /\ kind[cur] \in {"thr", "irq"}
      /\ kind[cur] = "thr" => R = ThrOf(cur)
      /\ kind[cur] = "irq" => R = IrqOf(cur)
  BY Topmost
<1>2. /\ l \in Lock /\ CpuTypeOK' /\ CountInv'
      /\ held'[R] = held[R] \ {l} /\ held' \in [Frame -> SUBSET Lock]
      /\ UNCHANGED <<intena, panicked>>
      /\ intOn' <=> held'[R] = {} /\ intena
  BY Zenon, Release
<1> HIDE DEF R
<1>3. a \in {"run", "relock", "yield", "sleep", "sched", "resume", "forkret", "trapret",
             "loop", "sti", "scan"}
  BY DEF PointOf, SchedPoint, ThrPoint, IrqPoint
<1>4. TypeOK'
  <2>1. at' \in [Frame -> {"run", "pushcli", "relock", "yield", "sleep", "sched", "off",
                           "resume", "forkret", "trapret", "loop", "sti", "scan", "swtch"}]
    BY Zenon, <1>3 DEF TypeOK
  <2>2. want' \in [Frame -> Lock \cup {NoLock}]
    BY Zenon DEF TypeOK
  <2> QED
    BY Zenon, <1>2, <2>1, <2>2 DEF TypeOK
<1>5. /\ at'[R] = a /\ want'[R] = w /\ why'[R] = why[R]
      /\ \A f \in Frame \ {R} : /\ at'[f] = at[f] /\ want'[f] = want[f] /\ why'[f] = why[f]
                                /\ enabled'[f] = enabled[f] /\ held'[f] = held[f]
  BY <1>1 DEF TypeOK, R
<1>6. FlagAt(cur, kind[cur], a, held'[R], intOn', intena')
  <2>1. FlagAt(cur, kind[cur], at[R], held[R], intOn, intena) /\ held[R] # {}
    BY Zenon DEF FlagInv, R
  <2>2. CASE a = "trapret"
    <3>1. held'[R] = {} /\ cur # Scheduler /\ kind[cur] = "thr"
      BY Zenon, <1>1, <1>2, <2>2 DEF HeldAt, PointOf, SchedPoint, IrqPoint, R
    <3> QED
      BY <2>2, <3>1 DEF FlagAt
  <2>3. CASE at[R] # "forkret" /\ a # "forkret" /\ a # "trapret"
    BY Zenon, <1>1, <1>2, <2>1, <2>3 DEF FlagAt
  <2> QED
    BY <2>2, <2>3 DEF R
<1>7. why[R] \in WhyOf(cur, kind[cur])
  BY Zenon, <1>1 DEF AskInv
<1> QED
  BY Zenon, <1>1, <1>2, <1>3, <1>4, <1>5, <1>6, <1>7, LocalStep DEF LocalMove, R

\* The callers of release().
LEMMA ReleasersStep ==
  ASSUME SInv,
         \/ \E l \in Lock : EndCrit(l) \/ SleepRelease(l)
         \/ ResumeYield \/ ResumeSleep \/ forkret \/ SchedulerRelease
  PROVE  SInv'
<1> USE DEF SInv
<1> DEFINE R == Running
<1>1. /\ cur \in Ctx /\ R \in Frame /\ kind[cur] \in {"thr", "irq"}
      /\ kind[cur] = "thr" => R = ThrOf(cur)
      /\ kind[cur] = "irq" => R = IrqOf(cur)
  BY Topmost
<1>2. /\ at[R] \in PointOf(cur, kind[cur]) /\ HeldAt(at[R], held[R])
      /\ want[R] \in Lock \cup {NoLock} /\ want = [want EXCEPT ![R] = want[R]]
      /\ at = [at EXCEPT ![R] = at[R]]
      /\ chan \in [Proc -> Lock \cup {NoLock}]
      /\ state \in [Proc -> {"RUNNABLE", "RUNNING", "SLEEPING"}]
  BY <1>1 DEF CtlInv, HeldInv, TypeOK
<1>3. PtableLock \in Lock
  BY PtableAssumption
<1> HIDE DEF R
<1>4. ASSUME NEW l \in Lock, EndCrit(l) PROVE SInv'
  <2>1. ~panicked /\ at[R] = "run" /\ l \in held[R]
    BY <1>4 DEF EndCrit, R
  <2>2. /\ release(l) /\ held' = [held EXCEPT ![R] = @ \ {l}]
        /\ UNCHANGED <<cur, kind, at, want, why, enabled, saved, state, chan, scan>>
    BY <1>4, <2>1, ReleaseChecks DEF EndCrit, R
  <2>3. HeldAt("run", held[R] \ {l})
    BY DEF HeldAt
  <2> QED
    BY Zenon, <1>2, <2>1, <2>2, <2>3, ReleaseStep DEF R
<1>5. ASSUME NEW l \in Lock, SleepRelease(l) PROVE SInv'
  <2>1. ~panicked /\ at[R] = "sleep" /\ l \in held[R] /\ l # PtableLock
    BY <1>5 DEF SleepRelease, R
  <2>2. /\ release(l) /\ held' = [held EXCEPT ![R] = @ \ {l}]
        /\ chan' = [chan EXCEPT ![cur] = l]
        /\ state' = [state EXCEPT ![cur] = "SLEEPING"]
        /\ at' = [at EXCEPT ![R] = "sched"]
        /\ UNCHANGED <<cur, kind, want, why, enabled, saved, scan>>
    BY Zenon, <1>5, <2>1, ReleaseChecks DEF SleepRelease, R
  <2>3. cur \in Proc /\ kind[cur] = "thr" /\ "sched" \in PointOf(cur, kind[cur])
    BY <1>1, <1>2, <2>1, Frames DEF PointOf, SchedPoint, ThrPoint, IrqPoint
  <2>4. held[R] \ {l} = {PtableLock}
    BY <1>2, <2>1 DEF HeldAt
  <2>5. HeldAt("sched", held[R] \ {l})
    BY <2>4 DEF HeldAt
  <2>6. /\ chan' \in [Proc -> Lock \cup {NoLock}] /\ chan'[cur] = l
        /\ \A p \in Proc \ {cur} : chan'[p] = chan[p]
        /\ state' \in [Proc -> {"RUNNABLE", "RUNNING", "SLEEPING"}] /\ state'[cur] = "SLEEPING"
    BY <1>2, <2>2, <2>3
  <2> QED
    BY Zenon, <1>2, <2>1, <2>2, <2>3, <2>5, <2>6, ReleaseStep DEF R
<1>6. CASE ResumeYield
  <2>1. ~panicked /\ at[R] = "resume"
    BY <1>6 DEF ResumeYield, R
  <2>2. held[R] = {PtableLock} /\ PtableLock \in held[R]
    BY <1>2, <2>1 DEF HeldAt
  <2>3. /\ release(PtableLock) /\ held' = [held EXCEPT ![R] = @ \ {PtableLock}]
        /\ at' = [at EXCEPT ![R] = "run"]
        /\ UNCHANGED <<cur, kind, want, why, enabled, saved, state, chan, scan>>
    BY <1>6, <2>2, ReleaseChecks DEF ResumeYield, R
  <2>4. "run" \in PointOf(cur, kind[cur])
    BY <1>1, <1>2, <2>1 DEF PointOf, SchedPoint, ThrPoint, IrqPoint
  <2>5. HeldAt("run", held[R] \ {PtableLock})
    BY DEF HeldAt
  <2> QED
    BY Zenon, <1>2, <2>1, <2>2, <2>3, <2>4, <2>5, ReleaseStep DEF R
<1>7. CASE ResumeSleep
  <2>1. ~panicked /\ at[R] = "resume" /\ why[R] = "sleep"
    BY <1>7 DEF ResumeSleep, R
  <2>2. held[R] = {PtableLock} /\ PtableLock \in held[R]
    BY <1>2, <2>1 DEF HeldAt
  <2>3. /\ release(PtableLock) /\ held' = [held EXCEPT ![R] = @ \ {PtableLock}]
        /\ chan' = [chan EXCEPT ![cur] = NoLock]
        /\ want' = [want EXCEPT ![R] = chan[cur]]
        /\ at' = [at EXCEPT ![R] = "relock"]
        /\ UNCHANGED <<cur, kind, why, enabled, saved, state, scan>>
    BY <1>7, <2>2, ReleaseChecks DEF ResumeSleep, R
  <2>4. cur # Scheduler /\ cur \in Proc
    BY <1>1, <1>2, <2>1, Frames DEF PointOf, SchedPoint
  <2>5. kind[cur] = "thr" /\ R = ThrOf(cur)
    BY <1>1, <2>1, <2>4 DEF AskInv, WhyOf
  <2>6. chan[cur] \in Lock
    BY <2>1, <2>4, <2>5 DEF AskInv
  <2>7. "relock" \in PointOf(cur, kind[cur])
    BY <2>4, <2>5 DEF PointOf, ThrPoint
  <2>8. HeldAt("relock", held[R] \ {PtableLock})
    BY <2>2 DEF HeldAt
  <2>9. /\ chan' \in [Proc -> Lock \cup {NoLock}]
        /\ \A p \in Proc \ {cur} : chan'[p] = chan[p]
    BY Zenon, <1>2, <2>3
  <2> QED
    BY Zenon, <1>2, <2>1, <2>2, <2>3, <2>6, <2>7, <2>8, <2>9, ReleaseStep DEF R
<1>8. CASE forkret
  <2>1. ~panicked /\ at[R] = "forkret"
    BY <1>8 DEF forkret, R
  <2>2. held[R] = {PtableLock} /\ PtableLock \in held[R]
    BY <1>2, <2>1 DEF HeldAt
  <2>3. /\ release(PtableLock) /\ held' = [held EXCEPT ![R] = @ \ {PtableLock}]
        /\ at' = [at EXCEPT ![R] = "trapret"]
        /\ UNCHANGED <<cur, kind, want, why, enabled, saved, state, chan, scan>>
    BY <1>8, <2>2, ReleaseChecks DEF forkret, R
  <2>4. "trapret" \in PointOf(cur, kind[cur])
    BY <1>1, <1>2, <2>1 DEF PointOf, SchedPoint, ThrPoint, IrqPoint
  <2>5. HeldAt("trapret", held[R] \ {PtableLock})
    BY <2>2 DEF HeldAt
  <2> QED
    BY Zenon, <1>2, <2>1, <2>2, <2>3, <2>4, <2>5, ReleaseStep DEF R
<1>9. CASE SchedulerRelease
  <2>1. ~panicked /\ at[R] = "scan" /\ cur = Scheduler /\ kind[cur] = "thr"
    BY <1>9 DEF SchedulerRelease, SchedulerRuns, R
  <2>2. held[R] = {PtableLock} /\ PtableLock \in held[R]
    BY <1>2, <2>1 DEF HeldAt
  <2>3. /\ release(PtableLock) /\ held' = [held EXCEPT ![R] = @ \ {PtableLock}]
        /\ at' = [at EXCEPT ![R] = "loop"]
        /\ UNCHANGED <<cur, kind, want, why, enabled, saved, state, chan, scan>>
    BY <1>9, <2>2, ReleaseChecks DEF SchedulerRelease, R
  <2>4. "loop" \in PointOf(cur, kind[cur])
    BY <2>1 DEF PointOf, SchedPoint
  <2>5. HeldAt("loop", held[R] \ {PtableLock})
    BY <2>2 DEF HeldAt
  <2> QED
    BY Zenon, <1>2, <2>1, <2>2, <2>3, <2>4, <2>5, ReleaseStep DEF R
<1> QED
  BY <1>4, <1>5, <1>6, <1>7, <1>8, <1>9

-----------------------------------------------------------------------------
(* The steps of the frame on the CPU that take and release nothing.        *)

\* It goes on at a, and may turn interrupts on where it holds nothing.
LEMMA PlainStep ==
  ASSUME SInv, ~panicked, NEW a, NEW y \in {"crit", "yield", "sleep", "wait"},
         at' = [at EXCEPT ![Running] = a],
         why' = [why EXCEPT ![Running] = y],
         UNCHANGED <<cur, kind, want, enabled, held, saved, ncli, intena, locked, lkcpu, panicked>>,
         intOn' \in BOOLEAN,
         chan' \in [Proc -> Lock \cup {NoLock}],
         state' \in [Proc -> {"RUNNABLE", "RUNNING", "SLEEPING"}],
         scan' \in 1 .. NPROC + 1,
         \A p \in Proc \ {cur} : chan'[p] = chan[p],
         cur # Scheduler => scan' = scan,
         a \in PointOf(cur, kind[cur]) \ {"pushcli", "relock"},
         y \in WhyOf(cur, kind[cur]),
         HeldAt(a, held[Running]),
         intOn' = intOn \/ (intOn' = TRUE /\ held[Running] = {} /\ kind[cur] = "thr"),
         at[Running] = "forkret" => a = "forkret",
         at[Running] = "trapret" => a = "trapret" \/ intOn' = TRUE,
         kind[cur] = "thr" /\ cur # Scheduler /\ a \in {"sched", "resume"} /\ y = "sleep" =>
           chan'[cur] \in Lock,
         a = "sched" => state'[cur] # "RUNNING"
  PROVE  SInv'
<1> USE DEF SInv
<1> DEFINE R == Running
<1>1. /\ cur \in Ctx /\ R \in Frame /\ kind[cur] \in {"thr", "irq"}
  BY Topmost
<1>2. FlagAt(cur, kind[cur], at[R], held[R], intOn, intena) /\ (intOn => held[R] = {})
  BY Zenon DEF FlagInv, HeldInv
<1> HIDE DEF R
<1>3. a \in {"run", "yield", "sleep", "sched", "resume", "forkret", "trapret", "loop", "sti", "scan"}
  BY DEF PointOf, SchedPoint, ThrPoint, IrqPoint
<1>4. TypeOK'
  <2>1. at' \in [Frame -> {"run", "pushcli", "relock", "yield", "sleep", "sched", "off",
                           "resume", "forkret", "trapret", "loop", "sti", "scan", "swtch"}]
    BY Zenon, <1>3 DEF TypeOK
  <2>2. why' \in [Frame -> {"crit", "yield", "sleep", "wait"}]
    BY Zenon DEF TypeOK
  <2>3. CpuTypeOK'
    BY DEF TypeOK, CpuTypeOK
  <2> QED
    BY Zenon, <2>1, <2>2, <2>3 DEF TypeOK
<1>5. /\ at'[R] = a /\ why'[R] = y
      /\ \A f \in Frame \ {R} : at'[f] = at[f] /\ why'[f] = why[f]
  BY <1>1 DEF TypeOK, R
<1>6. CountInv'
  BY CountSame
<1>7. FlagAt(cur, kind[cur], a, held[R], intOn', intena)
  BY Zenon, <1>1, <1>2 DEF FlagAt, R
<1>8. intOn' => held[R] = {}
  BY Zenon, <1>2 DEF R
<1> QED
  BY Zenon, <1>3, <1>4, <1>5, <1>6, <1>7, <1>8, LocalStep DEF LocalMove, R

\* yield() and wait() mark the process, sleep() of wait() returns, wakeup() and
\* kill() mark others, the scheduler looks at the next entry, sti and trapret.
LEMMA PlainersStep ==
  ASSUME SInv,
         \/ YieldRunnable \/ WaitSleep \/ ResumeWait \/ trapret
         \/ (\E c \in Lock : wakeup1(c)) \/ (\E p \in Proc : kill(p))
         \/ SchedulerSti \/ SchedulerSkip
  PROVE  SInv'
<1> USE DEF SInv
<1> DEFINE R == Running
<1>1. /\ cur \in Ctx /\ R \in Frame /\ kind[cur] \in {"thr", "irq"}
      /\ kind[cur] = "thr" => R = ThrOf(cur)
      /\ kind[cur] = "irq" => R = IrqOf(cur)
  BY Topmost
<1>2. /\ at[R] \in PointOf(cur, kind[cur]) /\ HeldAt(at[R], held[R])
      /\ at = [at EXCEPT ![R] = at[R]]
      /\ why[R] \in {"crit", "yield", "sleep", "wait"} /\ why = [why EXCEPT ![R] = why[R]]
      /\ intOn \in BOOLEAN
      /\ chan \in [Proc -> Lock \cup {NoLock}]
      /\ state \in [Proc -> {"RUNNABLE", "RUNNING", "SLEEPING"}]
      /\ scan \in 1 .. NPROC + 1
  BY <1>1 DEF CtlInv, HeldInv, TypeOK, CpuTypeOK
<1>3. why[R] \in WhyOf(cur, kind[cur])
  BY <1>1 DEF AskInv
<1>4. PtableLock \in Lock
  BY PtableAssumption
<1> HIDE DEF R
<1>5. CASE YieldRunnable
  <2>1. /\ ~panicked /\ at[R] = "yield" /\ state' = [state EXCEPT ![cur] = "RUNNABLE"]
        /\ at' = [at EXCEPT ![R] = "sched"]
        /\ UNCHANGED <<cur, kind, want, why, enabled, held, saved, chan, scan>>
        /\ UNCHANGED <<intOn, ncli, intena, locked, lkcpu, panicked>>
    BY <1>5 DEF YieldRunnable, cpuVars, R
  <2>2. cur \in Proc /\ kind[cur] = "irq"
    BY <1>1, <1>2, <2>1, Frames DEF PointOf, SchedPoint, ThrPoint
  <2>3. "sched" \in PointOf(cur, kind[cur]) \ {"pushcli", "relock"}
    BY <2>2, Frames DEF PointOf, IrqPoint
  <2>4. HeldAt("sched", held[R])
    BY <1>2, <2>1 DEF HeldAt
  <2>5. state'[cur] = "RUNNABLE" /\ state' \in [Proc -> {"RUNNABLE", "RUNNING", "SLEEPING"}]
    BY <1>2, <2>1, <2>2
  <2> QED
    BY Zenon, <1>2, <1>3, <2>1, <2>2, <2>3, <2>4, <2>5, PlainStep DEF R
<1>6. CASE WaitSleep
  <2>1. /\ ~panicked /\ cur \in Proc /\ kind[cur] = "thr" /\ at[R] = "run"
        /\ held[R] = {PtableLock}
        /\ chan' = [chan EXCEPT ![cur] = PtableLock]
        /\ state' = [state EXCEPT ![cur] = "SLEEPING"]
        /\ why' = [why EXCEPT ![R] = "wait"] /\ at' = [at EXCEPT ![R] = "sched"]
        /\ UNCHANGED <<cur, kind, want, enabled, held, saved, scan>>
        /\ UNCHANGED <<intOn, ncli, intena, locked, lkcpu, panicked>>
    BY <1>6 DEF WaitSleep, cpuVars, R
  <2>2. /\ "sched" \in PointOf(cur, kind[cur]) \ {"pushcli", "relock"}
        /\ "wait" \in WhyOf(cur, kind[cur])
    BY <2>1, Frames DEF PointOf, ThrPoint, WhyOf
  <2>3. HeldAt("sched", held[R])
    BY <2>1 DEF HeldAt
  <2>4. /\ state'[cur] = "SLEEPING" /\ state' \in [Proc -> {"RUNNABLE", "RUNNING", "SLEEPING"}]
        /\ chan' \in [Proc -> Lock \cup {NoLock}]
        /\ \A p \in Proc \ {cur} : chan'[p] = chan[p]
    BY <1>2, <1>4, <2>1
  <2> QED
    BY Zenon, <1>2, <2>1, <2>2, <2>3, <2>4, PlainStep DEF R
<1>7. CASE ResumeWait
  <2>1. /\ ~panicked /\ at[R] = "resume"
        /\ chan' = [chan EXCEPT ![cur] = NoLock]
        /\ at' = [at EXCEPT ![R] = "run"]
        /\ UNCHANGED <<cur, kind, want, why, enabled, held, saved, state, scan>>
        /\ UNCHANGED <<intOn, ncli, intena, locked, lkcpu, panicked>>
    BY <1>7 DEF ResumeWait, cpuVars, R
  <2>2. "run" \in PointOf(cur, kind[cur]) \ {"pushcli", "relock"}
    BY <1>1, <1>2, <2>1 DEF PointOf, SchedPoint, ThrPoint, IrqPoint
  <2>3. HeldAt("run", held[R])
    BY DEF HeldAt
  <2>4. /\ chan' \in [Proc -> Lock \cup {NoLock}]
        /\ \A p \in Proc \ {cur} : chan'[p] = chan[p]
    BY Zenon, <1>2, <2>1
  <2> QED
    BY Zenon, <1>2, <1>3, <2>1, <2>2, <2>3, <2>4, PlainStep DEF R
<1>8. CASE trapret
  <2>1. /\ ~panicked /\ at[R] = "trapret" /\ intOn' = TRUE
        /\ at' = [at EXCEPT ![R] = "run"]
        /\ UNCHANGED <<cur, kind, want, why, enabled, held, saved, state, chan, scan>>
        /\ UNCHANGED <<ncli, intena, locked, lkcpu, panicked>>
    BY <1>8 DEF trapret, R
  <2>2. /\ "run" \in PointOf(cur, kind[cur]) \ {"pushcli", "relock"}
        /\ kind[cur] = "thr"
    BY <1>1, <1>2, <2>1 DEF PointOf, SchedPoint, ThrPoint, IrqPoint
  <2>3. HeldAt("run", held[R]) /\ held[R] = {}
    BY <1>2, <2>1 DEF HeldAt
  <2> QED
    BY Zenon, <1>2, <1>3, <2>1, <2>2, <2>3, PlainStep DEF R
<1>9. CASE (\E c \in Lock : wakeup1(c)) \/ (\E p \in Proc : kill(p))
  <2>1. /\ ~panicked /\ at[R] = "run"
        /\ UNCHANGED <<cur, kind, at, want, why, enabled, held, saved, chan, scan>>
        /\ UNCHANGED <<intOn, ncli, intena, locked, lkcpu, panicked>>
    BY Zenon, <1>9 DEF wakeup1, kill, cpuVars, R
  <2>2. state' \in [Proc -> {"RUNNABLE", "RUNNING", "SLEEPING"}]
    BY Zenon, <1>2, <1>9 DEF wakeup1, kill
  <2>3. HeldAt("run", held[R])
    BY DEF HeldAt
  <2>4. "run" \in PointOf(cur, kind[cur]) \ {"pushcli", "relock"}
    BY <1>2, <2>1
  <2> QED
    BY Zenon, <1>2, <1>3, <2>1, <2>2, <2>3, <2>4, PlainStep DEF R
<1>10. CASE SchedulerSti
  <2>1. /\ ~panicked /\ cur = Scheduler /\ kind[cur] = "thr" /\ at[R] = "loop" /\ intOn' = TRUE
        /\ at' = [at EXCEPT ![R] = "sti"]
        /\ UNCHANGED <<cur, kind, want, why, enabled, held, saved, state, chan, scan>>
        /\ UNCHANGED <<ncli, intena, locked, lkcpu, panicked>>
    BY <1>10 DEF SchedulerSti, SchedulerRuns, R
  <2>2. "sti" \in PointOf(cur, kind[cur]) \ {"pushcli", "relock"}
    BY <2>1 DEF PointOf, SchedPoint
  <2>3. HeldAt("sti", held[R]) /\ held[R] = {}
    BY Zenon, <1>2, <2>1 DEF HeldAt
  <2> QED
    BY Zenon, <1>2, <1>3, <2>1, <2>2, <2>3, PlainStep DEF R
<1>11. CASE SchedulerSkip
  <2>1. /\ ~panicked /\ cur = Scheduler /\ at[R] = "scan" /\ scan \in Proc /\ scan' = scan + 1
        /\ UNCHANGED <<cur, kind, at, want, why, enabled, held, saved, state, chan>>
        /\ UNCHANGED <<intOn, ncli, intena, locked, lkcpu, panicked>>
    BY Zenon, <1>11 DEF SchedulerSkip, SchedulerRuns, cpuVars, R
  <2>2. scan' \in 1 .. NPROC + 1
    BY <2>1, NPROCAssumption DEF Proc
  <2>3. "scan" \in PointOf(cur, kind[cur]) \ {"pushcli", "relock"}
    BY Zenon, <1>2, <2>1
  <2> QED
    BY Zenon, <1>2, <1>3, <2>1, <2>2, <2>3, PlainStep DEF R
<1> QED
  BY <1>5, <1>6, <1>7, <1>8, <1>9, <1>10, <1>11

-----------------------------------------------------------------------------
(* The steps that change the frame on the CPU.                             *)

\* As built, lk->cpu is not recorded and a check may panic; nothing else moves.
LEMMA PanicStep ==
  ASSUME SInv, ~RecordCpu, panic, UNCHANGED schedVars
  PROVE  SInv'
<1> USE DEF SInv
<1>1. /\ panicked' = TRUE /\ intOn' = FALSE
      /\ UNCHANGED <<ncli, intena, locked, lkcpu>>
      /\ UNCHANGED <<cur, kind, at, want, why, enabled, held, saved, state, chan, scan>>
  BY DEF panic, schedVars
<1>2. Running' = Running /\ \A p \in Proc : Resumed(p)' = Resumed(p)
  BY <1>1 DEF Running, Resumed
<1>3. TypeOK'
  BY Zenon, <1>1 DEF TypeOK, CpuTypeOK
<1>4. CtlInv'
  BY <1>1, <1>2 DEF CtlInv
<1>5. HeldInv'
  BY Zenon, <1>1, <1>2 DEF HeldInv
<1>6. AskInv'
  BY Zenon, <1>1, <1>2 DEF AskInv, MayAsk
<1>7. CountInv'
  BY Zenon, <1>1, <1>2 DEF CountInv, NcliCountsLocks
<1>8. FlagInv'
  BY Zenon, <1>1 DEF FlagInv
<1> QED
  BY <1>3, <1>4, <1>5, <1>6, <1>7, <1>8

\* An interrupt is taken, or its handler returns: neither frame holds a lock.
LEMMA IrqStep ==
  ASSUME SInv, Irq \/ IrqReturn
  PROVE  SInv'
<1> USE DEF SInv
<1> DEFINE k == IF kind[cur] = "thr" THEN "irq" ELSE "thr"
           S == <<cur, k>>
<1>1. /\ cur \in Ctx /\ kind[cur] \in {"thr", "irq"}
      /\ \A t \in Ctx : /\ kind[t] = "thr" => Resumed(t) = ThrOf(t)
                        /\ kind[t] = "irq" => Resumed(t) = IrqOf(t)
                        /\ kind[t] \in {"thr", "irq"}
      /\ Running = Resumed(cur)
  BY Topmost
<1>2. /\ ~panicked /\ kind' = [kind EXCEPT ![cur] = k] /\ intOn' = (k = "thr")
      /\ UNCHANGED <<ncli, intena, locked, lkcpu, panicked>>
      /\ UNCHANGED <<cur, at, want, why, enabled, held, saved, state, chan, scan>>
      /\ kind[cur] = "irq" => at[Running] = "run"
      /\ held[Running] = {}
  BY Zenon, <1>1 DEF Irq, IrqReturn, HeldInv
<1>3. /\ k \in {"thr", "irq"} /\ k # kind[cur]
      /\ k = "thr" => S = ThrOf(cur)
      /\ k = "irq" => S = IrqOf(cur)
  BY <1>1 DEF ThrOf, IrqOf
<1>4. /\ kind'[cur] = k /\ \A t \in Ctx \ {cur} : kind'[t] = kind[t]
      /\ kind' \in [Ctx -> {"thr", "irq"}]
  BY Zenon, <1>1, <1>2, <1>3 DEF TypeOK
<1>5. /\ Running' = S
      /\ Resumed(cur)' = S
      /\ \A t \in Ctx \ {cur} : Resumed(t)' = Resumed(t)
  BY <1>2, <1>4 DEF Running, Resumed
<1> HIDE DEF k, S
<1>6. S \in Frame \ {Running} /\ Running \in Frame
  BY <1>1, <1>3, Frames
<1>7. held[S] = {} /\ \A f \in Frame : held[f] = {}
  BY <1>2, <1>6 DEF HeldInv
<1>8. k = "irq" => at[S] = "run" /\ at[ThrOf(cur)] \in Open
  <2> SUFFICES ASSUME k = "irq" PROVE at[S] = "run" /\ at[ThrOf(cur)] \in Open
    OBVIOUS
  <2>1. kind[cur] = "thr" /\ S = IrqOf(cur) /\ Running = ThrOf(cur)
    BY <1>1, <1>3
  <2>2. at[Running] \in PointOf(cur, "thr") /\ HeldAt(at[Running], {})
    BY Zenon, <1>2, <2>1 DEF CtlInv, HeldInv
  <2>3. at[Running] \in Open
    BY <2>2 DEF PointOf, SchedPoint, ThrPoint, HeldAt, Open
  <2> QED
    BY <1>1, <2>1, <2>3 DEF CtlInv
<1>9. k = "thr" => at[S] \in Open /\ at[S] \in PointOf(cur, "thr") /\ at[IrqOf(cur)] = "run"
  <2> SUFFICES ASSUME k = "thr"
               PROVE  at[S] \in Open /\ at[S] \in PointOf(cur, "thr") /\ at[IrqOf(cur)] = "run"
    OBVIOUS
  <2>1. kind[cur] = "irq" /\ S = ThrOf(cur) /\ Running = IrqOf(cur)
    BY <1>1, <1>3
  <2>2. at[S] \in Open /\ at[IrqOf(cur)] = "run"
    BY Zenon, <1>1, <1>2, <2>1 DEF CtlInv
  <2>3. cur = Scheduler => at[S] \in SchedPoint
    BY <2>1 DEF CtlInv
  <2>4. cur # Scheduler => at[S] \in ThrPoint
    BY Zenon, <1>1, <2>1, Frames DEF CtlInv
  <2> QED
    BY <2>2, <2>3, <2>4 DEF PointOf, SchedPoint, ThrPoint, Open
<1>10. at[S] \in PointOf(cur, k) /\ at[S] \in Open
  BY <1>3, <1>8, <1>9 DEF PointOf, IrqPoint, Open
<1>11. TypeOK'
  BY Zenon, <1>2, <1>4 DEF TypeOK, CpuTypeOK
<1>12. CtlInv'
  <2>1. \A t \in Ctx : kind'[t] = "thr" => at[IrqOf(t)] = "run"
    BY <1>4, <1>9 DEF CtlInv
  <2>2. \A t \in Ctx : kind'[t] = "irq" => at[ThrOf(t)] \in Open
    BY <1>4, <1>8 DEF CtlInv
  <2>3. cur # Scheduler =>
          at[ThrOf(Scheduler)] = "swtch" /\ kind'[Scheduler] = "thr" /\ scan = cur
    BY <1>4, Frames DEF CtlInv
  <2>4. \A p \in Proc \ {cur} : at[Resumed(p)'] \in {"off", "forkret"}
    BY <1>5, Frames DEF CtlInv
  <2> QED
    BY <1>2, <1>4, <1>5, <1>10, <2>1, <2>2, <2>3, <2>4 DEF CtlInv
<1>13. HeldInv'
  <2>1. HeldAt(at[S], {})
    BY <1>10 DEF HeldAt, Open
  <2> QED
    BY <1>2, <1>5, <1>7, <2>1 DEF HeldInv
<1>14. AskInv'
  BY Zenon, <1>2 DEF AskInv, MayAsk
<1>15. CountInv'
  BY Zenon, <1>2, <1>5, <1>7 DEF CountInv, NcliCountsLocks
<1>16. FlagInv'
  <2>1. FlagAt(cur, k, at[S], {}, k = "thr", intena)
    BY <1>3 DEF FlagAt
  <2>2. at[S] # "off" /\ at[S] # "sched"
    BY <1>10 DEF Open
  <2>3. ASSUME NEW p \in Proc, at[Resumed(p)'] = "off" PROVE saved[p] = (kind'[p] = "thr")
    <3>0. p = cur => Resumed(p)' = S
      BY <1>4 DEF Resumed, S
    <3>1. p # cur /\ p \in Ctx
      BY <2>2, <2>3, <3>0, Frames
    <3>2. Resumed(p)' = Resumed(p) /\ kind'[p] = kind[p]
      BY <1>4, <1>5, <3>1
    <3> QED
      BY Zenon, <1>2, <2>3, <3>2 DEF FlagInv
  <2> QED
    BY Zenon, <1>2, <1>4, <1>5, <1>7, <2>1, <2>2, <2>3 DEF FlagInv
<1> QED
  BY Zenon, <1>11, <1>12, <1>13, <1>14, <1>15, <1>16

\* sched() finds ptable.lock, one level of pushcli(), a process that is not
\* RUNNING and interrupts off: only holding(), as built, can fail.
LEMMA SchedChecks ==
  ASSUME SInv, ~panicked, at[Running] = "sched", schedPanics
  PROVE  ~RecordCpu
<1> USE DEF SInv
<1>1. held[Running] = {PtableLock} /\ ~intOn
  BY DEF HeldInv, HeldAt
<1>2. ncli = 1
  BY Zenon, <1>1, FS_Singleton DEF CountInv, NcliCountsLocks
<1>3. state[cur] # "RUNNING"
  BY DEF FlagInv
<1>4. locked[PtableLock] = 1 /\ lkcpu[PtableLock] = (RecordCpu /\ PtableLock \in held[Running])
  BY <1>1, PtableAssumption DEF CountInv, NcliCountsLocks
<1>5. ~holding(PtableLock)
  BY <1>1, <1>2, <1>3 DEF schedPanics
<1> QED
  BY <1>1, <1>4, <1>5, RecordCpuAssumption DEF holding

\* A process gives ptable.lock and the CPU to the scheduler.
LEMMA SwtchStep ==
  ASSUME SInv, Swtch
  PROVE  SInv'
<1> USE DEF SInv
<1> DEFINE R == Running
           S == ThrOf(Scheduler)
<1>1. /\ cur \in Ctx /\ kind[cur] \in {"thr", "irq"} /\ R \in Frame /\ R = Resumed(cur)
      /\ \A t \in Ctx : /\ kind[t] = "thr" => Resumed(t) = ThrOf(t)
                        /\ kind[t] = "irq" => Resumed(t) = IrqOf(t)
                        /\ kind[t] \in {"thr", "irq"} /\ Resumed(t) \in Frame
  BY Topmost
<1>2. ~panicked /\ at[R] = "sched"
  BY DEF Swtch
<1>3. CASE schedPanics
  BY <1>2, <1>3, SchedChecks, PanicStep DEF Swtch
<1>4. CASE ~schedPanics
  <2>1. /\ saved' = [saved EXCEPT ![cur] = intena] /\ cur' = Scheduler
        /\ at' = [at EXCEPT ![R] = "off", ![S] = "scan"]
        /\ held' = [held EXCEPT ![R] = @ \ {PtableLock}, ![S] = {PtableLock}]
        /\ scan' = scan + 1
        /\ UNCHANGED <<kind, want, why, enabled, state, chan>>
        /\ UNCHANGED <<intOn, ncli, intena, locked, lkcpu, panicked>>
    BY <1>4 DEF Swtch, cpuVars
  <2>2. cur \in Proc /\ cur # Scheduler
    BY <1>1, <1>2, Frames DEF CtlInv, PointOf, SchedPoint
  <2>3. kind[Scheduler] = "thr" /\ scan = cur /\ at[S] = "swtch"
    BY <2>2 DEF CtlInv
  <2>4. held[R] = {PtableLock} /\ ~intOn
    BY <1>2 DEF HeldInv, HeldAt
  <2>5. S \in Frame /\ S # R
    BY <1>1, <2>2, Frames
  <2>6. Running' = S /\ \A t \in Ctx : Resumed(t)' = Resumed(t)
    BY <2>1, <2>3 DEF Running, Resumed, ThrOf
  <2>7. /\ \A t \in Ctx : ThrOf(t) = R <=> t = cur /\ kind[cur] = "thr"
        /\ \A t \in Ctx : IrqOf(t) = R <=> t = cur /\ kind[cur] = "irq"
        /\ \A t \in Ctx : ThrOf(t) = S <=> t = Scheduler
        /\ \A t \in Ctx : IrqOf(t) # S
        /\ \A t \in Ctx : Resumed(t) = R <=> t = cur
        /\ \A t \in Proc : Resumed(t) # S
    BY <1>1, Frames
  <2> HIDE DEF R, S
  <2>8. /\ at'[R] = "off" /\ at'[S] = "scan"
        /\ \A f \in Frame \ {R, S} : at'[f] = at[f]
    BY <1>1, <2>1, <2>5 DEF TypeOK
  <2>9. /\ held'[R] = {} /\ held'[S] = {PtableLock}
        /\ \A f \in Frame \ {R, S} : held'[f] = held[f]
    BY <1>1, <2>1, <2>4, <2>5 DEF TypeOK
  <2>10. saved'[cur] = intena /\ \A p \in Proc \ {cur} : saved'[p] = saved[p]
    BY <2>1, <2>2 DEF TypeOK
  <2>11. TypeOK'
    <3>1. at' \in [Frame -> {"run", "pushcli", "relock", "yield", "sleep", "sched", "off",
                             "resume", "forkret", "trapret", "loop", "sti", "scan", "swtch"}]
      BY Zenon, <2>1 DEF TypeOK
    <3>2. held' \in [Frame -> SUBSET Lock]
      <4>1. held \in [Frame -> SUBSET Lock] /\ held[R] \ {PtableLock} \in SUBSET Lock
        BY <1>1 DEF TypeOK
      <4> QED
        BY Zenon, <2>1, <4>1, PtableAssumption
    <3>3. saved' \in [Proc -> BOOLEAN]
      BY Zenon, <2>1 DEF TypeOK, CpuTypeOK
    <3>4. scan' \in 1 .. NPROC + 1
      BY <2>1, <2>2, <2>3, NPROCAssumption DEF Proc
    <3> QED
      BY Zenon, <2>1, <3>1, <3>2, <3>3, <3>4, Frames DEF TypeOK, CpuTypeOK
  <2>12. CtlInv'
    <3>1. at'[S] \in PointOf(Scheduler, kind[Scheduler])
      BY <2>3, <2>8 DEF PointOf, SchedPoint
    <3>2. at'[ThrOf(Scheduler)] \in SchedPoint /\ at'[IrqOf(Scheduler)] \in {"run", "pushcli"}
      BY Zenon, <2>2, <2>7, <2>8, Frames DEF CtlInv, S, SchedPoint
    <3>3. \A p \in Proc : at'[ThrOf(p)] \in ThrPoint /\ at'[IrqOf(p)] \in IrqPoint
      BY <2>2, <2>7, <2>8, Frames DEF CtlInv, ThrPoint, IrqPoint
    <3>4. \A t \in Ctx : kind[t] = "thr" => at'[IrqOf(t)] = "run"
      BY <2>7, <2>8, Frames DEF CtlInv
    <3>5. \A t \in Ctx : kind[t] = "irq" => at'[ThrOf(t)] \in Open
      BY <2>3, <2>7, <2>8, Frames DEF CtlInv
    <3>6. \A p \in Proc : at'[Resumed(p)] \in {"off", "forkret"}
      BY <1>1, <2>7, <2>8, Frames DEF CtlInv
    <3> QED
      BY Zenon, <2>1, <2>6, <3>1, <3>2, <3>3, <3>4, <3>5, <3>6, Frames DEF CtlInv
  <2>13. HeldInv'
    <3>1. \A f \in Frame \ {S} : held'[f] = {}
      BY <2>9 DEF HeldInv, R
    <3>2. HeldAt("scan", {PtableLock})
      BY DEF HeldAt
    <3> QED
      BY Zenon, <2>1, <2>4, <2>6, <2>8, <2>9, <3>1, <3>2 DEF HeldInv
  <2>14. AskInv'
    <3>1. \A f \in Frame : at'[f] = "pushcli" => MayAsk(f, want[f], why[f], held'[f])
      BY Zenon, <2>8, <2>9 DEF AskInv
    <3>2. \A f \in Frame : at'[f] = "relock" => want[f] \in Lock
      BY Zenon, <2>8 DEF AskInv
    <3>3. \A p \in Proc : at'[ThrOf(p)] \in {"sched", "off", "resume"} /\ why[ThrOf(p)] = "sleep" =>
            chan[p] \in Lock
      BY Zenon, <1>2, <2>7, <2>8, Frames DEF AskInv
    <3> QED
      BY Zenon, <2>1, <3>1, <3>2, <3>3 DEF AskInv, MayAsk
  <2>15. CountInv'
    BY Zenon, <2>1, <2>4, <2>6, <2>9 DEF CountInv, NcliCountsLocks, R
  <2>16. FlagInv'
    <3>1. FlagAt(cur, kind[cur], "sched", {PtableLock}, intOn, intena)
      BY Zenon, <1>2, <2>4 DEF FlagInv, R
    <3>2. intena = (kind[cur] = "thr")
      BY Zenon, <1>1, <2>2, <3>1 DEF FlagAt, TypeOK, CpuTypeOK
    <3>3. FlagAt(Scheduler, "thr", "scan", {PtableLock}, intOn, intena)
      BY Zenon DEF FlagAt
    <3>4. \A t \in Ctx : at'[IrqOf(t)] = "pushcli" => enabled[IrqOf(t)] = FALSE
      BY <1>2, <2>7, <2>8, Frames DEF FlagInv
    <3>5. \A p \in Proc : at'[ThrOf(p)] = "pushcli" /\ held'[ThrOf(p)] = {} => enabled[ThrOf(p)] = TRUE
      BY Zenon, <1>2, <2>7, <2>8, <2>9, Frames DEF FlagInv
    <3>6. ASSUME NEW p \in Proc, at'[Resumed(p)] = "off" PROVE saved'[p] = (kind[p] = "thr")
      <4>1. CASE p = cur
        BY <2>10, <3>2, <4>1
      <4>2. CASE p # cur
        <5>1. Resumed(p) \in Frame \ {R, S}
          BY <1>1, <2>7, <4>2, Frames
        <5>2. at[Resumed(p)] = "off" /\ saved'[p] = saved[p]
          BY Zenon, <2>8, <2>10, <3>6, <4>2, <5>1
        <5> QED
          BY Zenon, <1>2, <5>2 DEF FlagInv
      <4> QED
        BY <4>1, <4>2
    <3>7. /\ at'[S] # "sched" /\ Running' = S /\ cur' = Scheduler /\ kind'[cur'] = "thr"
          /\ \A p \in Proc : Resumed(p)' = Resumed(p)
      BY Zenon, <2>1, <2>3, <2>6, <2>8, Frames
    <3> QED
      BY ZenonT(30), <2>1, <2>8, <2>9, <3>3, <3>4, <3>5, <3>6, <3>7 DEF FlagInv
  <2> QED
    BY <2>11, <2>12, <2>13, <2>14, <2>15, <2>16
<1> QED
  BY <1>3, <1>4

\* The scheduler gives both to the process it found, which goes on behind its
\* own swtch(), with its own cpu->intena, or enters at forkret().
LEMMA SchedulerSwtchStep ==
  ASSUME SInv, SchedulerSwtch
  PROVE  SInv'
<1> USE DEF SInv
<1> DEFINE R == Running
           S == Resumed(scan)
<1>1. /\ cur \in Ctx /\ R \in Frame
      /\ \A t \in Ctx : /\ kind[t] = "thr" => Resumed(t) = ThrOf(t)
                        /\ kind[t] = "irq" => Resumed(t) = IrqOf(t)
                        /\ kind[t] \in {"thr", "irq"} /\ Resumed(t) \in Frame
  BY Topmost
<1>2. /\ ~panicked /\ cur = Scheduler /\ kind[Scheduler] = "thr" /\ at[R] = "scan" /\ scan \in Proc
      /\ cur' = scan /\ state' = [state EXCEPT ![scan] = "RUNNING"]
      /\ at' = [at EXCEPT ![R] = "swtch", ![S] = IF @ = "off" THEN "resume" ELSE @]
      /\ intena' = IF at[S] = "off" THEN saved[scan] ELSE intena
      /\ held' = [held EXCEPT ![R] = @ \ {PtableLock}, ![S] = @ \cup {PtableLock}]
      /\ UNCHANGED <<kind, want, why, enabled, saved, chan, scan>>
      /\ UNCHANGED <<intOn, ncli, locked, lkcpu, panicked>>
  BY DEF SchedulerSwtch, SchedulerRuns
<1>3. held[R] = {PtableLock} /\ ~intOn
  BY <1>2 DEF HeldInv, HeldAt
<1>4. at[S] \in {"off", "forkret"} /\ scan # Scheduler
  BY Zenon, <1>2, Frames DEF CtlInv
<1>5. S \in Frame /\ S # R /\ R = ThrOf(Scheduler)
  <2>1. R = ThrOf(Scheduler)
    BY <1>2 DEF Running, ThrOf
  <2>2. scan \in Ctx /\ scan # Scheduler
    BY <1>2, Frames
  <2>3. S \in Frame /\ (S = ThrOf(scan) \/ S = IrqOf(scan))
    BY <1>1, <2>2
  <2> HIDE DEF R, S
  <2> QED
    BY <2>1, <2>2, <2>3, Frames
<1>6. Running' = S /\ \A t \in Ctx : Resumed(t)' = Resumed(t)
  BY <1>2 DEF Running, Resumed
<1>7. /\ \A t \in Ctx : ThrOf(t) = S <=> t = scan /\ kind[scan] = "thr"
      /\ \A t \in Ctx : IrqOf(t) = S <=> t = scan /\ kind[scan] = "irq"
      /\ \A t \in Ctx : ThrOf(t) = R <=> t = Scheduler
      /\ \A t \in Ctx : IrqOf(t) # R
      /\ \A t \in Proc : Resumed(t) = S <=> t = scan
      /\ \A t \in Proc : Resumed(t) # R
  <2>1. scan \in Ctx /\ (kind[scan] = "thr" => S = ThrOf(scan)) /\ (kind[scan] = "irq" => S = IrqOf(scan))
        /\ kind[scan] \in {"thr", "irq"}
    BY <1>1, <1>2, Frames
  <2>2. \A t \in Proc : t \in Ctx /\ t # Scheduler /\ (Resumed(t) = ThrOf(t) \/ Resumed(t) = IrqOf(t))
    BY <1>1, Frames
  <2>3. Resumed(scan) = S
    OBVIOUS
  <2> HIDE DEF R, S
  <2>4. /\ \A t \in Ctx : ThrOf(t) = S <=> t = scan /\ kind[scan] = "thr"
        /\ \A t \in Ctx : IrqOf(t) = S <=> t = scan /\ kind[scan] = "irq"
    BY <2>1, Frames
  <2>5. /\ \A t \in Ctx : ThrOf(t) = R <=> t = Scheduler
        /\ \A t \in Ctx : IrqOf(t) # R
    BY <1>5, Frames
  <2> QED
    BY <2>1, <2>2, <2>3, <2>4, <2>5
<1> HIDE DEF R, S
<1>8. /\ at'[R] = "swtch"
      /\ at'[S] = IF at[S] = "off" THEN "resume" ELSE "forkret"
      /\ \A f \in Frame \ {R, S} : at'[f] = at[f]
  BY <1>1, <1>2, <1>4, <1>5 DEF TypeOK
<1>9. /\ held'[R] = {} /\ held'[S] = {PtableLock}
      /\ \A f \in Frame \ {R, S} : held'[f] = held[f]
  <2>1. held[S] = {}
    BY <1>5 DEF HeldInv, R
  <2> QED
    BY <1>1, <1>2, <1>3, <1>5, <2>1 DEF TypeOK
<1>10. TypeOK'
  <2>1. at' \in [Frame -> {"run", "pushcli", "relock", "yield", "sleep", "sched", "off",
                           "resume", "forkret", "trapret", "loop", "sti", "scan", "swtch"}]
    BY Zenon, <1>1, <1>2, <1>4, <1>5 DEF TypeOK
  <2>2. held' \in [Frame -> SUBSET Lock]
    <3>1. /\ held \in [Frame -> SUBSET Lock] /\ held[R] \ {PtableLock} \in SUBSET Lock
          /\ held[S] \cup {PtableLock} \in SUBSET Lock
      BY <1>1, <1>5, PtableAssumption DEF TypeOK
    <3> QED
      BY <1>2, <1>5, <3>1
  <2>3. state' \in [Proc -> {"RUNNABLE", "RUNNING", "SLEEPING"}]
    BY Zenon, <1>2 DEF TypeOK
  <2>4. intena' \in BOOLEAN
    BY <1>2 DEF TypeOK, CpuTypeOK
  <2> QED
    BY Zenon, <1>2, <2>1, <2>2, <2>3, <2>4, Frames DEF TypeOK, CpuTypeOK
<1>11. kind[scan] = "irq" => at[S] = "off"
  BY <1>1, <1>2, <1>4, Frames DEF CtlInv, IrqPoint, S
<1>12. CtlInv'
  <2>1. at'[S] \in PointOf(scan, kind[scan])
    <3>1. at'[S] \in {"resume", "forkret"} /\ (kind[scan] = "irq" => at'[S] = "resume")
      BY <1>8, <1>11
    <3>2. kind[scan] \in {"thr", "irq"}
      BY Zenon, <1>1, <1>2, Frames
    <3> QED
      BY <1>4, <3>1, <3>2 DEF PointOf, ThrPoint, IrqPoint
  <2>2. at'[ThrOf(Scheduler)] = "swtch" /\ at'[IrqOf(Scheduler)] \in {"run", "pushcli"}
    BY Zenon, <1>4, <1>5, <1>7, <1>8, Frames DEF CtlInv
  <2>3. ASSUME NEW p \in Proc PROVE at'[ThrOf(p)] \in ThrPoint /\ at'[IrqOf(p)] \in IrqPoint
    <3>1. p \in Ctx /\ ThrOf(p) \in Frame \ {R} /\ IrqOf(p) \in Frame \ {R}
      BY <1>7, Frames
    <3>2. at[ThrOf(p)] \in ThrPoint /\ at[IrqOf(p)] \in IrqPoint
      BY DEF CtlInv
    <3>3. ThrOf(p) = S => at'[ThrOf(p)] \in ThrPoint
      BY <1>8 DEF ThrPoint
    <3>4. IrqOf(p) = S => at'[IrqOf(p)] \in IrqPoint
      BY <1>7, <1>8, <1>11, <3>1 DEF IrqPoint
    <3> QED
      BY <1>8, <3>1, <3>2, <3>3, <3>4
  <2>4. \A t \in Ctx : kind[t] = "thr" => at'[IrqOf(t)] = "run"
    BY <1>7, <1>8, Frames DEF CtlInv
  <2>5. \A t \in Ctx : kind[t] = "irq" => at'[ThrOf(t)] \in Open
    BY Zenon, <1>2, <1>7, <1>8, Frames DEF CtlInv
  <2>6. \A p \in Proc \ {scan} : at'[Resumed(p)] \in {"off", "forkret"}
    BY ZenonT(30), <1>1, <1>2, <1>7, <1>8, Frames DEF CtlInv
  <2> QED
    BY Zenon, <1>2, <1>6, <2>1, <2>2, <2>3, <2>4, <2>5, <2>6, Frames DEF CtlInv, SchedPoint
<1>13. HeldInv'
  <2>1. \A f \in Frame \ {S} : held'[f] = {}
    BY <1>9 DEF HeldInv, R
  <2>2. HeldAt(at'[S], {PtableLock})
    BY <1>8 DEF HeldAt
  <2> QED
    BY Zenon, <1>2, <1>3, <1>6, <1>9, <2>1, <2>2 DEF HeldInv
<1>14. AskInv'
  <2>1. \A f \in Frame : at'[f] = "pushcli" => MayAsk(f, want[f], why[f], held'[f])
    BY Zenon, <1>8, <1>9 DEF AskInv
  <2>2. \A f \in Frame : at'[f] = "relock" => want[f] \in Lock
    BY Zenon, <1>8 DEF AskInv
  <2>3. \A p \in Proc : at'[ThrOf(p)] \in {"sched", "off", "resume"} /\ why[ThrOf(p)] = "sleep" =>
          chan[p] \in Lock
    BY Zenon, <1>7, <1>8, Frames DEF AskInv
  <2> QED
    BY Zenon, <1>2, <2>1, <2>2, <2>3 DEF AskInv, MayAsk
<1>15. CountInv'
  BY Zenon, <1>2, <1>3, <1>6, <1>9 DEF CountInv, NcliCountsLocks, R
<1>16. FlagInv'
  <2>1. at[S] = "off" => intena' = (kind[scan] = "thr")
    BY Zenon, <1>2 DEF FlagInv, S
  <2>2. FlagAt(scan, kind[scan], at'[S], {PtableLock}, intOn, intena')
    BY Zenon, <1>1, <1>2, <1>3, <1>8, <1>11, <2>1, Frames DEF FlagAt
  <2>3. ASSUME NEW t \in Ctx, at'[IrqOf(t)] = "pushcli" PROVE enabled[IrqOf(t)] = FALSE
    <3>1. IrqOf(t) \in Frame \ {R, S}
      BY Zenon, <1>7, <1>8, <2>3, Frames
    <3>2. at[IrqOf(t)] = "pushcli"
      BY <1>8, <2>3, <3>1
    <3> QED
      BY Zenon, <1>2, <3>2 DEF FlagInv
  <2>4. \A p \in Proc : at'[ThrOf(p)] = "pushcli" /\ held'[ThrOf(p)] = {} => enabled[ThrOf(p)] = TRUE
    BY Zenon, <1>2, <1>7, <1>8, <1>9, Frames DEF FlagInv
  <2>5. ASSUME NEW p \in Proc, at'[Resumed(p)] = "off" PROVE saved[p] = (kind[p] = "thr")
    <3>1. Resumed(p) \in Frame \ {R, S}
      BY Zenon, <1>1, <1>7, <1>8, <2>5, Frames
    <3>2. at[Resumed(p)] = "off"
      BY <1>8, <2>5, <3>1
    <3> QED
      BY Zenon, <1>2, <3>2 DEF FlagInv
  <2>6. at'[S] # "sched" /\ \A p \in Proc : Resumed(p)' = Resumed(p)
    BY Zenon, <1>6, <1>8, Frames
  <2> QED
    BY ZenonT(30), <1>2, <1>6, <1>9, <2>2, <2>3, <2>4, <2>5, <2>6 DEF FlagInv
<1> QED
  BY <1>10, <1>12, <1>13, <1>14, <1>15, <1>16

-----------------------------------------------------------------------------
\* Every step keeps the invariant.
LEMMA SInvStep == SInv /\ [Next]_vars => SInv'
<1> SUFFICES ASSUME SInv, [Next]_vars PROVE SInv'
  OBVIOUS
<1>1. CASE Irq \/ IrqReturn
  BY <1>1, IrqStep
<1>2. CASE \/ (\E l \in Lock : BeginCrit(l)) \/ Reacquire \/ Yield
           \/ (\E l \in Lock : Sleep(l)) \/ SchedulerAcquire
  BY <1>2, CallersStep
<1>3. CASE EndAcquire
  BY <1>3, AcquireStep
<1>4. CASE \/ (\E l \in Lock : EndCrit(l)) \/ (\E l \in Lock : SleepRelease(l))
           \/ ResumeYield \/ ResumeSleep \/ forkret \/ SchedulerRelease
  BY <1>4, ReleasersStep
<1>5. CASE \/ YieldRunnable \/ WaitSleep \/ ResumeWait \/ trapret
           \/ (\E c \in Lock : wakeup1(c)) \/ (\E p \in Proc : kill(p))
           \/ SchedulerSti \/ SchedulerSkip
  BY <1>5, PlainersStep
<1>6. CASE Swtch
  BY <1>6, SwtchStep
<1>7. CASE SchedulerSwtch
  BY <1>7, SchedulerSwtchStep
<1>8. CASE UNCHANGED vars
  <2>1. /\ UNCHANGED <<intOn, ncli, intena, locked, lkcpu, panicked>>
        /\ UNCHANGED <<cur, kind, at, want, why, enabled, held, saved, state, chan, scan>>
    BY <1>8 DEF vars, cpuVars, schedVars
  <2>2. Running' = Running /\ \A p \in Proc : Resumed(p)' = Resumed(p)
    BY <2>1 DEF Running, Resumed
  <2>3. TypeOK' /\ CtlInv' /\ HeldInv'
    BY Zenon, <2>1, <2>2 DEF SInv, TypeOK, CpuTypeOK, CtlInv, HeldInv
  <2>4. AskInv'
    BY Zenon, <2>1 DEF SInv, AskInv, MayAsk
  <2>5. CountInv'
    BY Zenon, <2>1, <2>2 DEF SInv, CountInv, NcliCountsLocks
  <2>6. FlagInv'
    BY Zenon, <2>1, <2>2 DEF SInv, FlagInv
  <2> QED
    BY <2>3, <2>4, <2>5, <2>6 DEF SInv
<1> QED
  BY Zenon, <1>1, <1>2, <1>3, <1>4, <1>5, <1>6, <1>7, <1>8 DEF Next

\* The inductive invariant holds in every reachable state, for any number of
\* processes, any locks, and with or without the `#if 0' blocks.
THEOREM SInvHolds == Spec => []SInv
BY InitSInv, SInvStep, PTL DEF Spec

\* spinlock.c:18, "on one CPU": acquire() never looks at lk->locked, and still
\* no lock has two holders and cpu->ncli counts the locks held exactly, since
\* pushcli() keeps handlers out and swtch() is only entered with ptable.lock.
THEOREM MutualExclusionHolds == Spec => []MutualExclusion
<1>1. SInv => MutualExclusion
  BY DEF SInv, MutualExclusion, HeldInv, CountInv
<1> QED
  BY <1>1, SInvHolds, PTL

\* With lk->cpu recorded no check of acquire(), release(), popcli() or sched()
\* fails, and every process gets its interrupts back after its critical
\* sections although cpu->intena is shared by all contexts.
THEOREM RestoresInterruptsHolds ==
  ASSUME RecordCpu
  PROVE  Spec => []RestoresInterrupts
<1>1. SInv => RestoresInterrupts
  <2> SUFFICES ASSUME SInv PROVE RestoresInterrupts
    OBVIOUS
  <2> USE DEF SInv
  <2>1. ~panicked
    BY DEF CountInv
  <2>2. ASSUME cur \in Proc, ncli = 0, at[Running] # "trapret" PROVE intOn <=> kind[cur] = "thr"
    <3>1. Running \in Frame /\ IsFiniteSet(held[Running])
      BY Topmost, LockAssumption, FS_Subset DEF TypeOK
    <3>2. held[Running] = {}
      BY Zenon, <2>2, <3>1, FS_EmptySet DEF CountInv, NcliCountsLocks
    <3> QED
      BY <2>1, <2>2, <3>2, Frames DEF FlagInv, FlagAt
  <2> QED
    BY <2>1, <2>2 DEF RestoresInterrupts
<1> QED
  BY <1>1, SInvHolds, PTL
=============================================================================
