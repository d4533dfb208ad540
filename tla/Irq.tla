-------------------------------- MODULE Irq ---------------------------------
(***************************************************************************)
(* Exceptions and interrupts: the vector table trap_init() writes          *)
(* (trap.c), what the processor does with it when an exception is taken,   *)
(* and the interrupt controller driver (picirq.c) with its one client,     *)
(* timer_init() (timer.c), in the order main() calls them.                 *)
(*                                                                         *)
(* The driver's calls are two register or table writes each, and an IRQ    *)
(* can come between them.  pic_dispatch() runs with IRQs masked.  As built *)
(* irq_handler() only prints: its call of pic_dispatch() is a comment      *)
(* (trap.c:35), modelled as `irq'.                                         *)
(***************************************************************************)
EXTENDS Integers, FiniteSets

CONSTANTS
  NUM_INTSRC,   \* number of interrupt sources, NUM_ISR as well
  PIC_TIMER01   \* the timer's source

IrqAssumption == PIC_TIMER01 \in 0 .. NUM_INTSRC - 1

VARIABLES
  vec_tbl,   \* the sixteen words at VEC_TBL
  taken,     \* the exception being taken, 0 .. 7
  at,        \* where it leads: no exception, a word of the table, a stub, lost
  isrs,      \* isrs[n]: the routine called for source n
  enabled,   \* the controller's enable register
  raw,       \* the sources whose device asserts its line
  call,      \* the driver call being made by the kernel, and its step
  status,    \* pic_dispatch(): sources of intstatus not called yet
  unhandled, \* default_isr(), or no routine at all, has been called
  booted     \* main(): 1 trap_init(), 2 pic_init(), 3 timer_init() called

irqvars ==
  <<vec_tbl, taken, at, isrs, enabled, raw, call, status, unhandled, booted>>

Src == 0 .. NUM_INTSRC - 1

Running == [in |-> "kernel", i |-> 0]
Idle == [op |-> "none", n |-> -1]

IrqInit ==
  /\ vec_tbl = [i \in 0 .. 15 |-> <<0, 0>>]
  /\ taken = 0 /\ at = Running
  /\ isrs = [n \in Src |-> "null"]     \* static, so zero
  /\ enabled = {} /\ raw = {}
  /\ call = Idle
  /\ status = {}
  /\ unhandled = FALSE
  /\ booted = 0

Masked == status # {}
Runs == ~Masked /\ at = Running /\ call.op # "panic"

-----------------------------------------------------------------------------
(* The vector table.  A word is its two halves; the address of stub i of   *)
(* trap_asm.S is <<Address, i>>.                                           *)

Address == -1

\* ldr pc, [pc, #imm] is e59ff000 + imm; pc reads as two words further on.
LdrPc(imm) == <<\he59f, \hf000 + imm>>

LDR_PCPC == <<\h0e59, \hff00>>
Or(word, imm) == <<word[1], word[2] + imm>>

trap_init ==
  /\ Runs /\ booted = 0
  /\ booted' = 1
  /\ vec_tbl' = [i \in 0 .. 15 |-> IF i < 8 THEN Or(LDR_PCPC, \h18) ELSE <<Address, i - 8>>]
  /\ UNCHANGED <<taken, at, isrs, enabled, raw, call, status, unhandled>>

\* The processor takes exception e: it executes the word at vector e.
exception(e) ==
  /\ Runs /\ booted > 0
  /\ taken' = e
  /\ at' = [in |-> "table", i |-> e]
  /\ UNCHANGED <<vec_tbl, isrs, enabled, raw, call, status, unhandled, booted>>

\* Where the word at vec_tbl[i] leads.  An instruction whose condition field
\* (the top four bits) is EQ is skipped when the Z flag is clear, and one of
\* coprocessor 15 that is none of its own is undefined: exception 1.  An
\* address is executed as whatever its bits say.
Leads(i) ==
  LET word == vec_tbl[i]
      target == i + 2 + (\h18 \div 4)
  IN CASE word = LdrPc(\h18) -> {[in |-> "stub", i |-> vec_tbl[target][2]]}
       [] word[1] = Address -> {[in |-> "lost", i |-> 0]}
       [] OTHER -> {[in |-> "table", i |-> i + 1], [in |-> "table", i |-> 1]}

execute ==
  /\ at.in = "table"
  /\ at' \in Leads(at.i)
  /\ UNCHANGED <<vec_tbl, taken, isrs, enabled, raw, call, status, unhandled, booted>>

-----------------------------------------------------------------------------
(* The interrupt controller. *)

pic_init ==
  /\ Runs /\ booted = 1
  /\ booted' = 2
  /\ enabled' = {}
  /\ isrs' = [n \in Src |-> "default"]
  /\ UNCHANGED <<vec_tbl, taken, at, raw, call, status, unhandled>>

timer_init ==
  /\ Runs /\ booted = 2
  /\ booted' = 3
  /\ call' = [op |-> "install", n |-> PIC_TIMER01]
  /\ UNCHANGED <<vec_tbl, taken, at, isrs, enabled, raw, status, unhandled>>

\* A driver calls pic_enable(n, isr) or pic_disable(n).
driver(op, n) ==
  /\ Runs /\ booted = 3 /\ call = Idle
  /\ call' = [op |-> IF n \in Src THEN op ELSE "panic", n |-> n]
  /\ UNCHANGED <<vec_tbl, taken, at, isrs, enabled, raw, status, unhandled, booted>>

\* Mutant: the source is enabled before its routine is installed.
pic_enable_first ==
  /\ Runs
  /\ \/ /\ call.op = "install"
        /\ enabled' = enabled \cup {call.n}
        /\ call' = [call EXCEPT !.op = "enable"] /\ UNCHANGED isrs
     \/ /\ call.op = "enable"
        /\ isrs' = [isrs EXCEPT ![call.n] = "isr"]
        /\ call' = Idle /\ UNCHANGED enabled
  /\ UNCHANGED <<vec_tbl, taken, at, raw, status, unhandled, booted>>

pic_enable ==
  /\ Runs
  /\ \/ /\ call.op = "install"
        /\ isrs' = [isrs EXCEPT ![call.n] = "isr"]
        /\ call' = [call EXCEPT !.op = "enable"] /\ UNCHANGED enabled
     \/ /\ call.op = "enable"
        /\ enabled' = enabled \cup {call.n}
        /\ call' = Idle /\ UNCHANGED isrs
  /\ UNCHANGED <<vec_tbl, taken, at, raw, status, unhandled, booted>>

pic_disable ==
  /\ Runs
  /\ \/ /\ call.op = "mask"
        /\ enabled' = enabled \ {call.n}
        /\ call' = [call EXCEPT !.op = "remove"] /\ UNCHANGED isrs
     \/ /\ call.op = "remove"
        /\ isrs' = [isrs EXCEPT ![call.n] = "default"]
        /\ call' = Idle /\ UNCHANGED enabled
  /\ UNCHANGED <<vec_tbl, taken, at, raw, status, unhandled, booted>>

\* A device asserts its line, or withdraws it by itself.
device(n) ==
  /\ booted > 0
  /\ raw' = IF n \in raw THEN raw \ {n} ELSE raw \cup {n}
  /\ UNCHANGED <<vec_tbl, taken, at, isrs, enabled, call, status, unhandled, booted>>

\* An enabled source interrupts the kernel: pic_dispatch() reads the status.
irq ==
  /\ Runs /\ raw \cap enabled # {}
  /\ status' = raw \cap enabled
  /\ UNCHANGED <<vec_tbl, taken, at, isrs, enabled, raw, call, unhandled, booted>>

\* One turn of pic_dispatch()'s loop.  A routine may or may not have its
\* device withdraw the interrupt; isr_timer()'s ack_timer() is a comment.
pic_dispatch ==
  /\ Masked
  /\ \E n \in status :
       /\ \A k \in status : n <= k
       /\ status' = status \ {n}
       /\ unhandled' = (unhandled \/ isrs[n] # "isr")
       /\ raw' \in {raw, raw \ {n}}
  /\ UNCHANGED <<vec_tbl, taken, at, isrs, enabled, call, booted>>

IrqNext ==
  \/ trap_init \/ execute \/ pic_init \/ timer_init
  \/ \E e \in 0 .. 7 : exception(e)
  \/ \E op \in {"install", "mask"}, n \in -1 .. NUM_INTSRC : driver(op, n)
  \/ pic_enable \/ pic_disable \/ irq \/ pic_dispatch
  \/ \E n \in Src : device(n)

IrqSpec == IrqInit /\ [][IrqNext]_irqvars

-----------------------------------------------------------------------------
\* pic_enable() installs the routine before it enables the source and
\* pic_disable() masks the source before it removes the routine, so whenever
\* the interrupt comes, between the two writes too, pic_dispatch() finds the
\* routine of each source it calls for: never default_isr(), which prints
\* "unhandled interrupt", and never the null pointers of before pic_init().
InterruptsHandled ==
  /\ ~unhandled
  /\ status \subseteq {n \in Src : isrs[n] = "isr"}
  /\ \A n \in enabled : isrs[n] = "isr"

\* What trap.c:131-148 and picirq.c:11 say of the table: the word an
\* exception executes branches to the stub of that exception.
VectorsReachHandlers ==
  at = Running \/ at \in {[in |-> p, i |-> taken] : p \in {"table", "stub"}}
=============================================================================
