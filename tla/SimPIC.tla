------------------------------- MODULE SimPIC --------------------------------
(***************************************************************************)
(* sim/PIC.h: the simulator's interrupt controller as the BIOS programs it *)
(* (initialised, no specific end of interrupt), and pending_irq of the CPU *)
(* it raises interrupts into.  The 8-bit registers are sets of lines, line *)
(* 0 has the highest priority, and a vector stands for its line.           *)
(***************************************************************************)
EXTENDS Naturals, FiniteSetsExt

VARIABLES mask, irr, isr,
          pending     \* pending_irq of the CPU, or NoIRQ

pic_vars == <<mask, irr, isr, pending>>

NoIRQ == 8

(* After bios.c's irq_init, and irq_enable for timer and keyboard.  The    *)
(* keyboard raised its line when it was constructed, before all that, and  *)
(* nothing clears irr.                                                     *)
PICReady ==
  /\ mask = (0 .. 7) \ {0, 1}
  /\ irr = {1} /\ isr = {}
  /\ pending = NoIRQ

(* Mutant of raise_irq: a request that is recorded already is ignored. *)
raise_irq_once(i) ==
  IF i \in mask \cup irr THEN UNCHANGED pic_vars
  ELSE /\ irr' = irr \cup {i}
       /\ pending' = LET first == Min(isr \cup irr')
                     IN  IF first \in isr THEN pending ELSE first
       /\ UNCHANGED <<mask, isr>>

(* A request of a line that is not masked is recorded.  It is passed on to *)
(* the CPU here or never: neither an end of interrupt nor a new mask looks *)
(* at irr again.                                                           *)
raise_irq(i) ==
  IF i \in mask THEN UNCHANGED pic_vars
  ELSE /\ irr' = irr \cup {i}
       /\ pending' = LET first == Min(isr \cup irr')
                     IN  IF first \in isr THEN pending ELSE first
       /\ UNCHANGED <<mask, isr>>

(* The CPU acknowledges what is pending: inta_handler. *)
ack_int ==
  /\ isr' = isr \cup {pending} /\ irr' = irr \ {pending}
  /\ pending' = NoIRQ
  /\ UNCHANGED mask

(* Non-specific end of interrupt: ocw2, irq_ack. *)
ocw2 ==
  /\ isr' = {i \in isr : \E j \in isr : j < i}
  /\ UNCHANGED <<mask, irr, pending>>

set_mask(lines) == mask' = lines /\ UNCHANGED <<irr, isr, pending>>
irq_enable(i) == set_mask(mask \ {i})
irq_disable(i) == set_mask(mask \cup {i})
=============================================================================
