----------------------------- MODULE IrqProofs ------------------------------
(***************************************************************************)
(* InterruptsHandled, for any number of interrupt sources.  The invariant  *)
(* that is inductive also says what the half-done calls of pic_enable()    *)
(* and pic_disable() have written so far, and that nothing is enabled and  *)
(* no call is made before main() gets to timer_init().                     *)
(***************************************************************************)
EXTENDS Irq, TLAPS

Ops == {"none", "panic", "install", "enable", "mask", "remove"}

IrqInv ==
  /\ InterruptsHandled
  /\ isrs \in [Src -> {"null", "default", "isr"}]
  /\ enabled \subseteq Src
  /\ call \in [op : Ops, n : Int]
  /\ call.op \in {"install", "enable", "mask", "remove"} => call.n \in Src /\ booted = 3
  /\ call.op = "enable" => isrs[call.n] = "isr"
  /\ call.op = "remove" => call.n \notin enabled
  /\ booted \in 0 .. 3
  /\ booted < 3 => enabled = {} /\ call.op = "none"

\* Before trap_init() no source is enabled and no routine has been called.
LEMMA IrqInitInv == IrqInit => IrqInv
BY DEF IrqInit, IrqInv, InterruptsHandled, Idle, Ops

\* Every step of main(), of a driver call, of a device and of pic_dispatch()
\* keeps the invariant; the writes of a call are apart, and interrupts come
\* between them.
LEMMA IrqStepInv ==
  ASSUME IrqAssumption, IrqInv, [IrqNext]_irqvars
  PROVE  IrqInv'
<1> USE DEF IrqInv, InterruptsHandled, Ops
<1>1. CASE trap_init
  BY <1>1 DEF trap_init
<1>2. CASE execute
  BY <1>2 DEF execute
<1>3. CASE pic_init
  BY <1>3 DEF pic_init, Runs, Masked
<1>4. CASE timer_init
  BY <1>4 DEF timer_init, IrqAssumption, Src
<1>5. CASE \E e \in 0 .. 7 : exception(e)
  BY <1>5 DEF exception
<1>6. ASSUME NEW op \in {"install", "mask"}, NEW n \in -1 .. NUM_INTSRC, driver(op, n)
      PROVE  IrqInv'
  BY <1>6 DEF driver, Idle
<1>7. CASE pic_enable
  <2>1. CASE call.op = "install"
    BY <1>7, <2>1 DEF pic_enable, Runs, Masked
  <2>2. CASE call.op = "enable"
    BY <1>7, <2>2 DEF pic_enable, Runs, Masked, Idle
  <2> QED
    BY <1>7, <2>1, <2>2 DEF pic_enable
<1>8. CASE pic_disable
  <2>1. CASE call.op = "mask"
    BY <1>8, <2>1 DEF pic_disable, Runs, Masked
  <2>2. CASE call.op = "remove"
    BY <1>8, <2>2 DEF pic_disable, Runs, Masked, Idle
  <2> QED
    BY <1>8, <2>1, <2>2 DEF pic_disable
<1>9. CASE irq
  BY <1>9 DEF irq
<1>10. CASE pic_dispatch
  BY Zenon, <1>10 DEF pic_dispatch
<1>11. CASE \E n \in Src : device(n)
  BY <1>11 DEF device
<1>12. CASE UNCHANGED irqvars
  BY <1>12 DEF irqvars
<1> QED
  BY <1>1, <1>2, <1>3, <1>4, <1>5, <1>6, <1>7, <1>8, <1>9, <1>10, <1>11, <1>12 DEF IrqNext

\* However pic_enable(), pic_disable() and interrupts interleave,
\* pic_dispatch() never calls default_isr() or a null pointer: whatever
\* NUM_INTSRC is, as long as it covers the timer's source.
THEOREM InterruptsHandledHolds ==
  ASSUME IrqAssumption
  PROVE  IrqSpec => []InterruptsHandled
<1>1. IrqInv => InterruptsHandled
  BY DEF IrqInv
<1>2. IrqInv /\ [IrqNext]_irqvars => IrqInv'
  BY IrqStepInv
<1> QED
  BY IrqInitInv, <1>1, <1>2, PTL DEF IrqSpec
=============================================================================
