------------------------------ MODULE Emulator ------------------------------
(***************************************************************************)
(* The C++ emulator as a machine (sim/cppmodel/Emulate.cpp, SoftwareCPU.h):*)
(* EmulatorPimpl::step with its interrupt, NMI and single-step entry, and  *)
(* the devices that raise interrupts between two steps.  The environment   *)
(* raises at most MaxRaises interrupts and NMIs each.                      *)
(***************************************************************************)
EXTENDS InstructionSet

CONSTANTS IrqNumbers,    \* the vectors a device raises; zero is "none"
          MaxRaises

ASSUME RaisesAssumption == MaxRaises \in Nat /\ IrqNumbers \subseteq 1 .. 255

VARIABLES reg_file, flags, mem, io, modrm_width, ext_int_inhibit, nmi_pending,
          pending_irq, acked, raised

machine == <<reg_file, flags, mem, io, modrm_width, ext_int_inhibit>>
vars == <<machine, nmi_pending, pending_irq, acked, raised>>

(* The state as the record that the handlers work on, and back. *)
Machine ==
  [reg |-> reg_file, fl |-> flags, mem |-> mem, io |-> io, width |-> modrm_width,
   inh |-> ext_int_inhibit, nmi |-> nmi_pending, irq |-> pending_irq,
   ack |-> acked, len |-> 0, jump |-> FALSE, rm |-> NoModRM, seg |-> "none",
   rep |-> "none"]

Becomes(s) ==
  /\ reg_file' = s.reg
  /\ flags' = s.fl
  /\ mem' = s.mem
  /\ io' = s.io
  /\ modrm_width' = s.width
  /\ ext_int_inhibit' = s.inh
  /\ nmi_pending' = s.nmi
  /\ pending_irq' = s.irq
  /\ acked' = s.ack

-----------------------------------------------------------------------------
(* Interrupt entry.  tf is tf_was_set, TF as it was before the step.       *)

(* Mutant of single_step: a load of SS is trapped. *)
single_step_always(s, tf) == IF tf THEN Vector(s, 1, s.reg.IP) ELSE s

single_step(s, tf) == IF tf /\ ~s.inh THEN Vector(s, 1, s.reg.IP) ELSE s

(* Mutant of handle_nmi: a pending interrupt is forgotten. *)
handle_nmi_drops_irq(s, tf) ==
  single_step(Vector([s EXCEPT !.nmi = FALSE, !.irq = 0], 2, s.reg.IP), tf)

handle_nmi(s, tf) ==
  single_step(Vector([s EXCEPT !.nmi = FALSE], 2, s.reg.IP), tf)

handle_irq(s, tf) ==
  single_step(Vector([s EXCEPT !.irq = 0, !.ack = Append(@, s.irq)],
                     s.irq, s.reg.IP), tf)

NmiReady(s) == s.nmi /\ ~s.inh
IrqReady(s) == s.irq # 0 /\ ~s.inh /\ "IF" \in s.fl

(* An interrupt that is ready is taken, NMI first; otherwise as given. *)
TakeReady(s, tf, otherwise) ==
  CASE NmiReady(s) -> handle_nmi(s, tf)
    [] ~NmiReady(s) /\ IrqReady(s) -> handle_irq(s, tf)
    [] OTHER -> otherwise
Finish(s, tf) == TakeReady(s, tf, single_step(s, tf))

(* Interrupts are taken before an instruction or at its tail. *)
step(s) ==
  LET tf == "TF" \in s.fl IN TakeReady(s, tf, Finish(emulate_insn(s), tf))

(* RegisterFile::reset and EmulatorPimpl::reset. *)
reset(s) ==
  [s EXCEPT !.reg = [r \in Registers |-> 0], !.fl = {}, !.inh = FALSE,
            !.nmi = FALSE, !.irq = 0]

-----------------------------------------------------------------------------
Step ==
  /\ \E t \in {step(Machine)} : Becomes(t)
  /\ UNCHANGED raised

(* raise_irq overwrites a number that is still pending. *)
raise_irq(n) ==
  /\ raised.irq < MaxRaises
  /\ pending_irq' = n
  /\ raised' = [raised EXCEPT !.irq = @ + 1]
  /\ UNCHANGED <<machine, nmi_pending, acked>>

raise_nmi ==
  /\ raised.nmi < MaxRaises
  /\ nmi_pending' = TRUE
  /\ raised' = [raised EXCEPT !.nmi = @ + 1]
  /\ UNCHANGED <<machine, pending_irq, acked>>
=============================================================================
