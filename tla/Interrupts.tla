----------------------------- MODULE Interrupts ------------------------------
(***************************************************************************)
(* The microsequencer and the interrupt controller as wired in Core.sv and *)
(* Top.sv, running any program made of the instructions of a session.      *)
(* Interrupt handlers, nested to any depth, return with IRET and hold no   *)
(* string instruction of their own: at most one, of the main program, is   *)
(* in progress.                                                            *)
(***************************************************************************)
EXTENDS PIC, Microsequencer

CONSTANTS Sessions,   \* instructions of the program, lines in use, debugger present
          MaxCount    \* bound on the count of a string instruction

ASSUME SessionsAssumption ==
  Sessions \subseteq [kinds : SUBSET Instructions, lines : SUBSET Line, debugger : BOOLEAN]
ASSUME BoundsAssumption == MaxCount \in Nat

VARIABLES session,    \* the session that runs
          iflag, tflag,
          mdr,        \* memory data register, as far as it holds a vector
          handling,   \* some interrupt is entered and not returned from
          string,     \* kind of the string instruction in progress, or NoInsn
          left,       \* CX
          matched,    \* the compare of its last iteration ends it
          due         \* it was rolled back and restarts after the return

vars == <<pic_vars, seq_vars, session, iflag, tflag, mdr, handling, string, left, matched, due>>

Kinds == session.kinds
Debugger == session.debugger

NoVector == [base |-> 0, line |-> 0]

Init ==
  /\ PICInit /\ SeqInit
  /\ session \in Sessions
  /\ iflag = FALSE /\ tflag = FALSE
  /\ mdr = NoVector
  /\ handling = FALSE
  /\ string = NoInsn /\ left = 0 /\ matched = FALSE /\ due = FALSE

(* What the decoder may have next, in a handler and outside. *)
Heads(in_handler) ==
  {NoInsn} \cup (IF in_handler THEN (Kinds \cup {"iret"}) \ Strings
                 ELSE IF due THEN {string} ELSE Kinds \ {"iret"})

(* The last microinstruction of IRET.  CS:IP were loaded earlier: the next *)
(* instruction may be there already.                                       *)
Returns == addr = "done_hold" /\ insn = "iret"

(* Microinstructions that look at the next decoded instruction; the last   *)
(* one of do_int loads CS, which empties the queues.                       *)
Dispatches == addr \in {"fetch", "modrm", "done", "done_hold"} \/ (is_hlt /\ addr # "int_load")

(* The pins in a cycle, where they matter: a stalled cycle dispatches      *)
(* nothing, and an NMI pulse is always used as nmi_pending \/ nmi.         *)
Cycles(stalled) ==
  [stall : {stalled},
   head : IF stalled \/ ~Dispatches THEN {NoInsn}
          ELSE IF addr = "modrm" THEN {k \in Heads(handling) : has_modrm(k)}
          ELSE IF Returns THEN Heads(TRUE) \cup Heads(FALSE) ELSE Heads(handling),
   taken : {IF addr = "loop" THEN left = 0 ELSE matched},
   error : IF addr = "op" /\ insn = "divide" THEN BOOLEAN ELSE {FALSE},
   intr : {intr(inta)},
   nmi : IF nmi_pending THEN {FALSE} ELSE BOOLEAN,
   iflag : {iflag}, tflag : {tflag},
   seize : IF Debugger /\ (yields(addr) \/ ends(addr) \/ seized) THEN BOOLEAN ELSE {FALSE},
   run : IF debug_stopped THEN BOOLEAN ELSE {FALSE}]

(* Microinstructions that access memory or wait for the divider. *)
Stalls == IF addr \in {"op", "done", "iter", "int", "int_load"} THEN BOOLEAN ELSE {FALSE}

Inputs == UNION {Cycles(stalled) : stalled \in Stalls}

(* The last microinstruction of OUT makes the access, and is stalled until *)
(* after its acknowledge.                                                  *)
IOAccesses(in) == IF addr = "done" /\ insn = "plain" /\ in.stall THEN Accesses ELSE {NoAccess}

(* POPF, CLI, STI and IRET load the flags, do_int clears them. *)
ClockFlags ==
  CASE addr = "done_hold" -> iflag' \in BOOLEAN /\ tflag' \in BOOLEAN
    [] addr = "int_flags" -> iflag' = FALSE /\ tflag' = FALSE
    [] OTHER -> UNCHANGED <<iflag, tflag>>

(* Core.sv: irq_to_mdr; do_int writes what it pushes to MDR. *)
ClockMDR(in) ==
  mdr' = IF next_addr(in) = "irq" THEN irq(inta) ELSE IF addr = "int" THEN NoVector ELSE mdr

(* A handler returns to the main program or to another handler. *)
ClockHandling(in) ==
  IF addr = "int_load" /\ ~in.stall THEN handling' = TRUE
  ELSE IF Returns THEN handling' \in BOOLEAN /\ in.head \in Heads(handling')
  ELSE UNCHANGED handling

ClockString(in) ==
  \/ /\ starting_instruction(in) /\ ~handling' /\ in.head \in Strings /\ ~due
     /\ string' = in.head /\ left' \in 0 .. MaxCount /\ matched' = FALSE
     /\ UNCHANGED due
  \/ /\ starting_instruction(in) /\ ~handling' /\ due
     /\ due' = FALSE
     /\ UNCHANGED <<string, left, matched>>
  \/ /\ addr = "iter" /\ ~in.stall
     /\ left' = left - 1
     /\ matched' \in IF insn = "scan" THEN BOOLEAN ELSE {FALSE}
     /\ UNCHANGED <<string, due>>
  \/ /\ addr = "rep"
     /\ due' = ip_rollback(in)
     /\ UNCHANGED <<string, left, matched>>
  \/ /\ addr = "done" /\ insn \in Strings /\ ~(starting_instruction(in) /\ in.head \in Strings)
     /\ string' = NoInsn /\ left' = 0 /\ matched' = FALSE
     /\ UNCHANGED due
  \/ /\ ~(starting_instruction(in) /\ ~handling' /\ (in.head \in Strings \/ due))
     /\ ~(addr = "iter" /\ ~in.stall) /\ addr # "rep" /\ ~(addr = "done" /\ insn \in Strings)
     /\ UNCHANGED <<string, left, matched, due>>

Step(in) ==
  /\ SeqClock(in)
  /\ ClockFlags
  /\ ClockMDR(in)
  /\ ClockHandling(in)
  /\ ClockString(in)
  /\ \E io \in IOAccesses(in), intr_in \in SUBSET Line :
       intr_in \subseteq session.lines /\ PICClock(io, intr_in, inta)
  /\ UNCHANGED session

Clock == \E in \in Inputs : Step(in)

Spec == Init /\ [][Clock]_vars

-----------------------------------------------------------------------------
(* The vector the CPU has taken into MDR is the one of the line that the   *)
(* PIC moves from irr to isr in the acknowledge a cycle later, and no line *)
(* of the same or a higher priority is in service then.                    *)
VectorInService ==
  inta => /\ mdr = [base |-> vector_address, line |-> delivered]
          /\ delivered \in irr
          /\ \A j \in isr : delivered < j

(* An interrupt entry leaves its microprogram before its end. *)
EntryAbandoned ==
  addr \in (Vectored \cup Entry) \ {"int_load"} /\ addr' # addr /\ addr' \notin Entry

(* An interrupt entry, once begun, runs through do_int to its end, in a    *)
(* program with HLT too: rtl/microcode/int.us:43 "Process an interrupt",   *)
(* :47 "Start by storing the flags + CS:IP to the stack, clear TF+IF and   *)
(* then load the new CS:IP".                                               *)
EntriesComplete == [][~EntryAbandoned]_vars

(* A string instruction is not left before its count or its condition ends *)
(* it: whoever cuts in (ext_int_yield) restarts it before the program goes *)
(* on.  A debugger that seizes the core there drops the other iterations.  *)
StringsFinish ==
  addr = "op" /\ ~handling /\ insn \notin Strings => left = 0 \/ matched \/ Debugger

(* REPE and REPNE stop at the element that ends them: no iteration runs    *)
(* after it, also when an interrupt is taken right there.                  *)
ScanStops == addr = "iter" => ~matched

(* A non-maskable interrupt is taken in the end, if again and again two    *)
(* instructions in a row are not ones that inhibit interrupts.             *)
NMITaken ==
  []<><<addr # "op" /\ addr' = "op" /\ {insn, insn'} \cap {"hold", "iret"} = {}>>_vars
    => (nmi_pending ~> addr = "nmi")
=============================================================================
