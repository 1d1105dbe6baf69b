--------------------------- MODULE Microsequencer ----------------------------
(***************************************************************************)
(* The sequencing logic of rtl/microcode/Microcode.sv.templ: which         *)
(* microinstruction runs next, and when an interrupt, a single-step trap   *)
(* or the debugger cuts in.  The microprograms are reduced to the places   *)
(* that this logic tells apart:                                            *)
(*   fetch, modrm      opcode_fetch and modrm_decode                       *)
(*   op                the first microinstruction of an instruction        *)
(*   done, done_hold   a last one, without and with ext_int_inhibit        *)
(*   loop, iter, rep   the loop of a string instruction, its body and the  *)
(*                     microinstruction with ext_int_yield                 *)
(*   hlt               the loop of HLT                                     *)
(*   irq, nmi, step,   entries that put the vector in TEMP and go on to    *)
(*   zero, bad         do_int                                              *)
(*   int, int_flags,   do_int: saving flags and CS:IP, clearing IF and TF, *)
(*   int_load          loading the handler's CS:IP                         *)
(*   debug             debug_wait                                          *)
(***************************************************************************)
EXTENDS Naturals

VARIABLES addr, insn,       \* microcode address, kind of cur_instruction
          inta, nmi_pending, ext_int_inhibit, trap_flag_set, seized

seq_vars == <<addr, insn, inta, nmi_pending, ext_int_inhibit, trap_flag_set, seized>>

(* Kinds of instructions: hold ends with ext_int_inhibit (MOV SS, CLI, STI, *)
(* POPF), as iret does; scan is a string instruction that may stop early    *)
(* (CMPS, SCAS), move one that may not; trap is a software interrupt; long  *)
(* has too many prefixes.                                                   *)
Strings == {"move", "scan"}
Instructions == {"plain", "divide", "hold", "iret", "trap", "long", "hlt"} \cup Strings
NoInsn == "none"

Vectored == {"irq", "nmi", "step", "zero", "bad"}
Entry == {"int", "int_flags", "int_load"}
Addresses == {"fetch", "modrm", "op", "done", "done_hold", "loop", "iter", "rep", "hlt", "debug"}
               \cup Vectored \cup Entry

yields(a) == a \in {"fetch", "rep", "hlt"}
ends(a) == a \in {"done", "done_hold", "int_load"}
inhibits(a) == a = "done_hold"

(* Microinstructions with a jump_type other than UNCONDITIONAL. *)
Conditional == addr \in {"fetch", "modrm", "loop"} \/ (addr = "rep" /\ insn = "scan")

debug_stopped == addr = "debug"
is_hlt == insn = "hlt"

take_nmi(nmi_pulse) == (nmi_pending \/ nmi_pulse) /\ ~ext_int_inhibit /\ ~inhibits(addr)
take_irq(intr, int_enabled) == intr /\ int_enabled /\ ~ext_int_inhibit /\ ~inhibits(addr)
do_single_step == ends(addr) /\ ~ext_int_inhibit /\ trap_flag_set /\ ~inhibits(addr)

(* current.next of the places, for an instruction of kind insn. *)
Successor ==
  CASE addr = "op" -> (CASE insn \in Strings -> "loop"
                         [] insn = "hlt" -> "hlt"
                         [] insn \in {"hold", "iret"} -> "done_hold"
                         [] insn = "trap" -> "int"
                         [] OTHER -> "done")
    [] addr = "iter" -> "rep"
    [] addr = "rep" -> "loop"
    [] addr \in Vectored -> "int"
    [] addr = "int" -> "int_flags"
    [] addr = "int_flags" -> "int_load"
    [] OTHER -> addr

(* jump_target; taken is the condition of loop (CX is zero) and of rep     *)
(* (rep_complete).                                                         *)
jump_target(head, taken) ==
  IF addr \in {"fetch", "modrm"} THEN IF head # NoInsn THEN "op" ELSE addr
  ELSE IF taken THEN "done"
  ELSE IF addr = "loop" THEN "iter" ELSE "loop"

(* Where next_instruction goes: modrm_decode first if there is a ModR/M.   *)
(* MOV SS, the hold with a ModR/M, is not told from the other ones.        *)
has_modrm(kind) == kind = "divide"
Dispatch(head) == IF head = NoInsn THEN "fetch" ELSE IF has_modrm(head) THEN "modrm" ELSE "op"

(* The pins of one cycle are the record in: stall, head (the next decoded  *)
(* instruction, NoInsn when fifo_empty or fifo_resetting), taken, error    *)
(* (divide_error), intr, nmi (nmi_pulse), iflag, tflag, seize, run.        *)
next_addr(in) ==
  IF debug_stopped /\ in.run THEN "fetch"
  ELSE IF in.stall THEN addr
  ELSE IF yields(addr) /\ in.seize /\ ~seized THEN "debug"
  ELSE IF yields(addr) /\ take_nmi(in.nmi) THEN "nmi"
  ELSE IF yields(addr) /\ take_irq(in.intr, in.iflag) THEN "irq"
  ELSE IF addr = "fetch" /\ in.head = "long" THEN "bad"
  ELSE IF Conditional THEN jump_target(in.head, in.taken)
  ELSE IF in.error THEN "zero"
  ELSE IF ends(addr) /\ take_nmi(in.nmi) THEN "nmi"
  ELSE IF ends(addr) /\ take_irq(in.intr, in.iflag) THEN "irq"
  ELSE IF do_single_step \/ (is_hlt /\ trap_flag_set) THEN "step"
  ELSE IF ends(addr) /\ in.seize THEN "debug"
  ELSE IF ends(addr) \/ (is_hlt /\ in.intr) THEN Dispatch(in.head)
  ELSE Successor

starting_instruction(in) == next_addr(in) = "op" /\ ~in.stall
start_interrupt(in) == next_addr(in) \in {"nmi", "irq"}

(* Mutant of ip_rollback: an NMI does not restart the instruction. *)
ip_rollback_irq(in) == next_addr(in) = "irq" /\ yields(addr) /\ ~is_hlt

ip_rollback(in) == start_interrupt(in) /\ yields(addr) /\ ~is_hlt

SeqInit ==
  /\ addr = "fetch" /\ insn = "plain"
  /\ inta = FALSE /\ nmi_pending = FALSE /\ ext_int_inhibit = FALSE
  /\ trap_flag_set = FALSE /\ seized = FALSE

ClockPending(in) == nmi_pending' = (next_addr(in) # "nmi" /\ (nmi_pending \/ in.nmi))

(* Mutant of ClockInhibit: it is never cleared. *)
ClockInhibitSticky(in) == ext_int_inhibit' = (inhibits(addr) \/ ext_int_inhibit)

ClockInhibit(in) ==
  ext_int_inhibit' = (inhibits(addr) \/ (ext_int_inhibit /\ ~starting_instruction(in)))

SeqClock(in) ==
  LET next == next_addr(in)
  IN  /\ addr' = next
      /\ insn' = IF starting_instruction(in) THEN in.head ELSE insn
      /\ inta' = (next = "irq" /\ addr # "irq")
      /\ ClockPending(in)
      /\ ClockInhibit(in)
      /\ trap_flag_set' = IF next = "step" THEN FALSE
                          ELSE IF starting_instruction(in) THEN in.tflag ELSE trap_flag_set
      /\ seized' = (debug_stopped \/ (seized /\ in.seize))
=============================================================================
