-------------------------- MODULE InterruptProofs ---------------------------
(***************************************************************************)
(* The handshake between the microsequencer and the PIC, for any number of *)
(* interrupt lines and any program: the CPU takes the vector one cycle     *)
(* before the PIC is told (inta), and the two must agree on the line.      *)
(***************************************************************************)
EXTENDS Interrupts, WellFoundedInduction, TLAPS

(* The registers that the handshake rests on have their types. *)
PICTypeOK == /\ irr \subseteq Line /\ isr \subseteq Line
             /\ delivered \in Line /\ inta \in BOOLEAN

HandshakeInv == PICTypeOK /\ VectorInService

(* The least-number principle for sets of natural numbers. *)
LEMMA LeastNumber ==
  ASSUME NEW S \in SUBSET Nat, S # {}
  PROVE  \E x \in S : \A y \in S : x <= y
<1> DEFINE R == OpToRel(<, Nat)
<1>1. \A x, y \in Nat : y < x => <<y, x>> \in R
  BY DEF OpToRel
<1> HIDE DEF R
<1>2. IsWellFoundedOn(R, Nat)
  BY NatLessThanWellFounded DEF R
<1>3. PICK x \in S : \A y \in S : <<y, x>> \notin R
  BY <1>2, WFMin, Zenon
<1>4. ASSUME NEW y \in S PROVE x <= y
  <2>1. x \in Nat /\ y \in Nat
    OBVIOUS
  <2>2. ~(y < x)
    BY <1>1, <1>3, <2>1, Zenon
  <2> QED BY <2>1, <2>2
<1> QED BY <1>4, Zenon

(* A request that can be delivered has a least line, and that is Min. *)
LEMMA LeastLine ==
  ASSUME PICTypeOK, Deliverable # {}
  PROVE  Min(Deliverable) \in Deliverable
<1>1. Line \subseteq Nat
  BY LinesAssumption DEF Line
<1>2. Deliverable \in SUBSET Nat
  BY <1>1 DEF PICTypeOK, Deliverable
<1> QED BY <1>2, LeastNumber, Zenon DEF Min

(* The line on irq is one of Line, whether or not intr is raised. *)
LEMMA IrqLineType ==
  ASSUME PICTypeOK
  PROVE  irq_line(inta) \in Line
<1>1. CASE intr(inta)
  BY <1>1, LeastLine DEF PICTypeOK, irq_line, intr, Deliverable
<1>2. CASE ~intr(inta)
  BY <1>2, LinesAssumption DEF irq_line, Line
<1> QED BY <1>1, <1>2

(* What the pins may show, whether the cycle is stalled or not. *)
LEMMA InputFields ==
  ASSUME NEW in \in Inputs
  PROVE  /\ in.intr = intr(inta)
         /\ addr # "op" => in.error = FALSE
         /\ in.head \in Heads(TRUE) \cup Heads(FALSE) \cup Heads(handling) \cup {NoInsn}
<1>1. PICK stalled \in Stalls : in \in Cycles(stalled)
  BY DEF Inputs
<1>2. in.intr \in {intr(inta)}
  BY <1>1, Zenon DEF Cycles
<1>3. in.error \in IF addr = "op" /\ insn = "divide" THEN BOOLEAN ELSE {FALSE}
  BY <1>1, Zenon DEF Cycles
<1>4. in.head \in Heads(TRUE) \cup Heads(FALSE) \cup Heads(handling) \cup {NoInsn}
  <2>1. in.head \in IF stalled \/ ~Dispatches THEN {NoInsn}
                    ELSE IF addr = "modrm" THEN {k \in Heads(handling) : has_modrm(k)}
                    ELSE IF Returns THEN Heads(TRUE) \cup Heads(FALSE) ELSE Heads(handling)
    BY <1>1, Zenon DEF Cycles
  <2> QED BY <2>1
<1> QED BY <1>2, <1>3, <1>4

(* The irq microinstruction is only reached by taking an interrupt, in a   *)
(* cycle that is not stalled and so makes no I/O access.                   *)
LEMMA OnlyTakenAtBoundary ==
  ASSUME NEW in \in Inputs, next_addr(in) = "irq", addr # "irq"
  PROVE  intr(inta) /\ ~in.stall
<1>1. in.intr = intr(inta)
  BY InputFields
<1>2. ~in.stall /\ take_irq(in.intr, in.iflag)
  BY DEF next_addr, jump_target, Dispatch, Successor, Conditional
<1>3. in.intr
  BY <1>2, Zenon DEF take_irq
<1> QED BY <1>1, <1>2, <1>3, Zenon

(* The handshake invariant holds of every behaviour. *)
THEOREM HandshakeInvariant == Spec => []HandshakeInv
<1>1. Init => HandshakeInv
  <2> SUFFICES ASSUME Init PROVE HandshakeInv
    OBVIOUS
  <2>1. inta = FALSE
    BY DEF Init, SeqInit
  <2>2. irr = {} /\ isr = {} /\ delivered \in Line
    BY DEF Init, PICInit
  <2> QED BY <2>1, <2>2, Zenon DEF HandshakeInv, PICTypeOK, VectorInService
<1>2. HandshakeInv /\ [Clock]_vars => HandshakeInv'
  <2> SUFFICES ASSUME HandshakeInv, [Clock]_vars PROVE HandshakeInv'
    OBVIOUS
  <2>1. CASE UNCHANGED vars
    BY <2>1 DEF HandshakeInv, PICTypeOK, VectorInService, vars, pic_vars, seq_vars
  <2>2. CASE Clock
    <3>1. PICK in \in Inputs : Step(in)
      BY <2>2 DEF Clock
    <3>2. PICK io \in IOAccesses(in), intr_in \in SUBSET Line : PICClock(io, intr_in, inta)
      BY <3>1 DEF Step
    <3>3. /\ delivered' = irq_line(inta)
          /\ isr' = (isr \ Ended(io)) \cup (IF inta THEN {delivered} ELSE {})
          /\ irr' = IF inta THEN irr \ {delivered} ELSE irr \cup ((intr_in \ intr_last) \ mask)
      BY <3>2 DEF PICClock, NextIRR
    <3>4. inta' = (next_addr(in) = "irq" /\ addr # "irq")
      BY <3>1 DEF Step, SeqClock
    <3>5. PICTypeOK'
      <4>1. irr' \subseteq Line /\ isr' \subseteq Line
        BY <3>3 DEF HandshakeInv, PICTypeOK
      <4>2. delivered' \in Line
        BY <3>3, IrqLineType DEF HandshakeInv
      <4>3. inta' \in BOOLEAN
        BY <3>4
      <4> QED BY <4>1, <4>2, <4>3 DEF PICTypeOK
    <3>6. VectorInService'
      <4> SUFFICES ASSUME inta' PROVE VectorInService'
        BY Zenon DEF VectorInService
      <4>1. next_addr(in) = "irq" /\ intr(inta) /\ ~in.stall
        BY <3>4, OnlyTakenAtBoundary
      <4>2. ~inta /\ Deliverable # {}
        BY <4>1 DEF intr
      <4>3. delivered' = Min(Deliverable) /\ Min(Deliverable) \in Deliverable
        BY <3>3, <4>1, <4>2, LeastLine DEF HandshakeInv, irq_line
      <4>4. mdr' = [base |-> vector_address, line |-> delivered']
        BY <3>1, <3>3, <4>1, Zenon DEF Step, ClockMDR, irq
      <4>5. vector_address' = vector_address
        BY <3>2, <4>1 DEF IOAccesses, NoAccess, PICClock, ClockSetup
      <4>6. delivered' \in irr'
        BY <3>3, <4>2, <4>3 DEF Deliverable
      <4>7. ASSUME NEW j \in isr' PROVE delivered' < j
        <5>1. j \in isr /\ isr \subseteq Line
          BY <3>3, <4>2 DEF HandshakeInv, PICTypeOK
        <5>2. delivered' \in Line /\ \A k \in 0 .. delivered' : k \notin isr
          BY <4>3 DEF HandshakeInv, PICTypeOK, Deliverable
        <5> QED BY <5>1, <5>2, LinesAssumption DEF Line
      <4> QED BY <4>4, <4>5, <4>6, <4>7, Zenon DEF VectorInService
    <3> QED BY <3>5, <3>6 DEF HandshakeInv
  <2> QED BY <2>1, <2>2
<1> QED BY <1>1, <1>2, PTL DEF Spec

(* The vector the CPU runs is the one of the line that the PIC puts in     *)
(* service, and no line of the same or a higher priority was in service:   *)
(* Microcode.sv.templ and PIC.sv agree, although irq is sampled a cycle    *)
(* before inta and the lines may change in between.                        *)
THEOREM VectorAlwaysInService == Spec => []VectorInService
BY HandshakeInvariant, PTL DEF HandshakeInv

(* An interrupt entry is abandoned (Microcode.sv.templ:250 and :254) only  *)
(* while HLT is the current instruction, and then only because the PIC     *)
(* requests an interrupt or a trap is due: in every program, HLT included, *)
(* all other entries run do_int to its last microinstruction, whatever     *)
(* comes in meanwhile.                                                     *)
THEOREM OnlyHaltAbandons ==
  Spec => [][EntryAbandoned => is_hlt /\ (intr(inta) \/ trap_flag_set)]_vars
<1>1. [Clock]_vars => [EntryAbandoned => is_hlt /\ (intr(inta) \/ trap_flag_set)]_vars
  <2> SUFFICES ASSUME Clock, EntryAbandoned, ~(is_hlt /\ (intr(inta) \/ trap_flag_set))
               PROVE  FALSE
    OBVIOUS
  <2>1. PICK in \in Inputs : Step(in)
    BY DEF Clock
  <2>2. addr' = next_addr(in)
    BY <2>1 DEF Step, SeqClock
  <2>3. /\ ~yields(addr) /\ ~ends(addr) /\ ~Conditional /\ ~debug_stopped
        /\ addr # "fetch" /\ addr # "op"
    BY DEF EntryAbandoned, Vectored, Entry, yields, ends, Conditional, debug_stopped
  <2>4. in.error = FALSE /\ in.intr = intr(inta)
    BY <2>3, InputFields
  <2>5. ~(is_hlt /\ trap_flag_set) /\ ~(is_hlt /\ in.intr) /\ ~do_single_step
    BY <2>3, <2>4 DEF do_single_step
  <2>6. next_addr(in) = addr \/ next_addr(in) = Successor
    BY <2>3, <2>4, <2>5, Zenon DEF next_addr
  <2>7. Successor \in Entry
    BY DEF EntryAbandoned, Successor, Vectored, Entry
  <2> QED BY <2>2, <2>6, <2>7 DEF EntryAbandoned
<1> QED BY <1>1, PTL DEF Spec

-----------------------------------------------------------------------------
(***************************************************************************)
(* String instructions that interrupts cut into, in any program, HLT,      *)
(* software interrupts and faults included, but without a debugger: one    *)
(* that seizes the core at ext_int_yield drops the rest of the iterations. *)
(***************************************************************************)

(* A string instruction runs, between its dispatch and its end. *)
InString == addr \in {"loop", "iter", "rep"} \/ (addr = "op" /\ insn \in Strings)

StringTypeOK == /\ string \in Strings \cup {NoInsn} /\ left \in Nat
                /\ due \in BOOLEAN /\ handling \in BOOLEAN

(* The one that runs is the one in progress, and not one that waits to be  *)
(* restarted; its count does not run below zero.                           *)
RunningInv ==
  /\ InString => insn = string /\ string \in Strings /\ ~handling /\ ~due
  /\ addr = "iter" => left > 0
  /\ addr = "done" /\ insn \in Strings => ~handling /\ ~due

(* After the roll-back nothing else of the main program runs: until the    *)
(* handler is entered, and after it returned, the core is on its way to    *)
(* the handler or fetches.                                                 *)
RestartInv ==
  due => /\ string \in Strings
         /\ ~handling => /\ addr \in {"fetch"} \cup Vectored \cup Entry
                         /\ insn \in Strings \cup {"iret"}

(* Iterations are left only if the instruction runs or will be restarted. *)
LeftInv == ~due /\ ~InString => left = 0 \/ matched

StringInv == StringTypeOK /\ RunningInv /\ RestartInv /\ LeftInv

(* The pins that the loop of a string instruction looks at. *)
LEMMA LoopPins ==
  ASSUME NEW in \in Inputs, ~Debugger
  PROVE  /\ in.seize = FALSE
         /\ in.error => addr = "op" /\ insn = "divide"
         /\ in.taken = (IF addr = "loop" THEN left = 0 ELSE matched)
         /\ in.stall \in BOOLEAN
         /\ in.stall => addr \in {"op", "done", "iter", "int", "int_load"}
<1>1. PICK stalled \in Stalls : in \in Cycles(stalled)
  BY DEF Inputs
<1>2. in.seize \in IF Debugger /\ (yields(addr) \/ ends(addr) \/ seized) THEN BOOLEAN ELSE {FALSE}
  BY <1>1, Zenon DEF Cycles
<1>3. in.error \in IF addr = "op" /\ insn = "divide" THEN BOOLEAN ELSE {FALSE}
  BY <1>1, Zenon DEF Cycles
<1>4. in.taken \in {IF addr = "loop" THEN left = 0 ELSE matched}
  BY <1>1, Zenon DEF Cycles
<1>5. in.stall \in {stalled}
  BY <1>1, Zenon DEF Cycles
<1>6. stalled \in IF addr \in {"op", "done", "iter", "int", "int_load"} THEN BOOLEAN ELSE {FALSE}
  BY <1>1, Zenon DEF Stalls
<1>7. in.stall \in BOOLEAN /\ (in.stall => addr \in {"op", "done", "iter", "int", "int_load"})
  BY <1>5, <1>6, Zenon
<1>8. in.taken = (IF addr = "loop" THEN left = 0 ELSE matched)
  BY <1>4, Zenon
<1>9. in.seize = FALSE
  BY <1>2, Zenon
<1>10. in.error => addr = "op" /\ insn = "divide"
  BY <1>3, Zenon
<1> QED BY <1>7, <1>8, <1>9, <1>10, Zenon

(* What the decoder has next is code of the level, main program or         *)
(* handler, that the core is at after the cycle.                           *)
LEMMA HeadOfLevel ==
  ASSUME NEW in \in Inputs, Step(in)
  PROVE  in.head \in Heads(handling')
<1>1. PICK stalled \in Stalls : in \in Cycles(stalled)
  BY DEF Inputs
<1>2. in.head \in IF stalled \/ ~Dispatches THEN {NoInsn}
                  ELSE IF addr = "modrm" THEN {k \in Heads(handling) : has_modrm(k)}
                  ELSE IF Returns THEN Heads(TRUE) \cup Heads(FALSE) ELSE Heads(handling)
  BY <1>1, Zenon DEF Cycles
<1>3. ClockHandling(in)
  BY DEF Step
<1>4. NoInsn \in Heads(handling')
  BY DEF Heads
<1>5. CASE addr = "int_load"
  <2>1. in.head = NoInsn
    BY <1>2, <1>5 DEF Dispatches
  <2> QED BY <2>1, <1>4
<1>6. CASE Returns
  <2>1. in.head \in Heads(handling')
    BY <1>3, <1>6 DEF ClockHandling, Returns
  <2> QED BY <2>1
<1>7. CASE addr # "int_load" /\ ~Returns
  <2>1. handling' = handling
    BY <1>3, <1>7 DEF ClockHandling
  <2>2. in.head \in {NoInsn} \cup Heads(handling)
    BY <1>2, <1>7
  <2> QED BY <2>1, <2>2, <1>4
<1> QED BY <1>5, <1>6, <1>7

(* An instruction that starts is one that the decoder has. *)
LEMMA StartHasHead ==
  ASSUME NEW in, starting_instruction(in)
  PROVE  in.head # NoInsn
BY DEF starting_instruction, next_addr, jump_target, Dispatch, Successor, Conditional

(* Where the core goes from the microinstructions of a string instruction. *)
LEMMA LoopFlow ==
  ASSUME StringInv, NEW in \in Inputs, ~Debugger
  PROVE  /\ addr = "op" /\ insn \in Strings =>
              next_addr(in) = IF in.stall THEN "op" ELSE "loop"
         /\ addr = "loop" => ~in.stall /\ next_addr(in) = IF left = 0 THEN "done" ELSE "iter"
         /\ addr = "iter" => next_addr(in) = IF in.stall THEN "iter" ELSE "rep"
         /\ addr = "rep" => /\ ~in.stall
                           /\ \/ next_addr(in) \in {"nmi", "irq", "loop"}
                              \/ next_addr(in) = "done" /\ matched
<1>1. /\ in.seize = FALSE
      /\ in.error => addr = "op" /\ insn = "divide"
      /\ in.taken = (IF addr = "loop" THEN left = 0 ELSE matched)
      /\ in.stall \in BOOLEAN
      /\ in.stall => addr \in {"op", "done", "iter", "int", "int_load"}
  BY LoopPins
<1>2. InString => insn \in Strings
  BY Zenon DEF StringInv, RunningInv
<1>3. InString => ~is_hlt /\ insn # "divide"
  BY <1>2 DEF is_hlt, Strings
<1>4. CASE addr = "op" /\ insn \in Strings
  <2>1. ~is_hlt /\ ~in.error
    BY <1>1, <1>3, <1>4, Zenon DEF InString
  <2>2. ~debug_stopped /\ ~yields(addr) /\ ~ends(addr) /\ ~Conditional /\ addr # "fetch"
    BY <1>4 DEF debug_stopped, yields, ends, Conditional
  <2>3. Successor = "loop"
    BY <1>4 DEF Successor, Strings, Vectored
  <2> QED BY <1>4, <2>1, <2>2, <2>3, Zenon DEF next_addr, do_single_step
<1>5. CASE addr = "loop"
  BY <1>1, <1>5 DEF next_addr, debug_stopped, yields, ends, Conditional, jump_target
<1>6. CASE addr = "iter"
  <2>1. ~is_hlt /\ ~in.error
    <3>1. addr # "op"
      BY <1>6
    <3> QED BY <1>1, <1>3, <1>6, <3>1, Zenon DEF InString
  <2>2. ~debug_stopped /\ ~yields(addr) /\ ~ends(addr) /\ ~Conditional /\ addr # "fetch"
    BY <1>6 DEF debug_stopped, yields, ends, Conditional
  <2>3. Successor = "rep"
    BY <1>6 DEF Successor, Strings, Vectored
  <2> QED BY <1>6, <2>1, <2>2, <2>3, Zenon DEF next_addr, do_single_step
<1>7. CASE addr = "rep"
  <2>1. ~is_hlt /\ ~in.error
    <3>1. addr # "op"
      BY <1>7
    <3> QED BY <1>1, <1>3, <1>7, <3>1, Zenon DEF InString
  <2>2. ~debug_stopped /\ ~ends(addr) /\ addr # "fetch" /\ ~in.stall /\ ~in.seize
    BY <1>1, <1>7 DEF debug_stopped, ends
  <2>3. Successor = "loop"
    BY <1>7 DEF Successor, Strings, Vectored
  <2>4. jump_target(in.head, in.taken) \in {"done", "loop"}
        /\ (jump_target(in.head, in.taken) = "done" => matched)
    BY <1>1, <1>7 DEF jump_target
  <2>5. next_addr(in) \in {"nmi", "irq", "loop", jump_target(in.head, in.taken)}
    BY <2>1, <2>2, <2>3, Zenon DEF next_addr, do_single_step
  <2> QED BY <1>7, <2>2, <2>4, <2>5
<1> QED BY <1>4, <1>5, <1>6, <1>7

(* The places of a string instruction are only reached along its loop, and *)
(* the first microinstruction of any instruction by starting it.           *)
LEMMA LoopEntry ==
  ASSUME NEW in \in Inputs, ~Debugger
  PROVE  /\ next_addr(in) \in {"loop", "iter", "rep"} => InString
         /\ next_addr(in) = "op" /\ in.stall => addr = "op"
         /\ next_addr(in) = "done" =>
              \/ addr \in {"loop", "rep"}
              \/ addr = "op" /\ insn \notin Strings
              \/ addr = "done" /\ in.stall
<1>1. /\ in.stall \in BOOLEAN
      /\ in.stall => addr \in {"op", "done", "iter", "int", "int_load"}
  BY LoopPins
<1>2. next_addr(in) \in {"loop", "iter", "rep"} => InString
  BY <1>1 DEF InString, next_addr, debug_stopped, yields, ends, Conditional, jump_target,
              Dispatch, Successor
<1>3. next_addr(in) = "op" /\ in.stall => addr = "op"
  BY <1>1 DEF next_addr, debug_stopped
<1>4. next_addr(in) = "done" =>
        \/ addr \in {"loop", "rep"}
        \/ addr = "op" /\ insn \notin Strings
        \/ addr = "done" /\ in.stall
  BY <1>1 DEF next_addr, debug_stopped, yields, ends, Conditional, jump_target,
              Dispatch, Successor
<1> QED BY <1>2, <1>3, <1>4

(* Every clock cycle keeps StringInv, by the cases of ClockString. *)
LEMMA StringStep ==
  ASSUME StringInv, Clock, ~Debugger
  PROVE  StringInv'
<1>1. PICK in \in Inputs : Step(in)
  BY DEF Clock
<1>2. /\ addr' = next_addr(in)
      /\ insn' = IF starting_instruction(in) THEN in.head ELSE insn
      /\ ClockHandling(in)
      /\ ClockString(in)
  BY <1>1, Zenon DEF Step, SeqClock
<1>3. in.head \in Heads(handling')
  BY <1>1, HeadOfLevel
<1>4. handling' \in BOOLEAN
  BY <1>2 DEF ClockHandling, StringInv, StringTypeOK
<1>5. ~handling' /\ due => in.head \in {NoInsn, string}
  BY <1>3, Zenon DEF Heads
<1>6. handling' => in.head \notin Strings
  BY <1>3 DEF Heads, NoInsn, Strings
<1>7. starting_instruction(in) => addr' = "op" /\ insn' = in.head /\ in.head # NoInsn
  BY <1>2, StartHasHead, Zenon DEF starting_instruction
<1>8. addr' = "op" /\ insn' \in Strings => starting_instruction(in) \/ (addr = "op" /\ insn' = insn)
  BY <1>2, LoopEntry, Zenon DEF starting_instruction
<1>9. addr # "done_hold" /\ addr # "int_load" => handling' = handling
  BY <1>2, Zenon DEF ClockHandling, Returns
(* The string instruction is dispatched for the first time. *)
<1>10. CASE /\ starting_instruction(in) /\ ~handling' /\ in.head \in Strings /\ ~due
            /\ string' = in.head /\ left' \in 0 .. MaxCount /\ matched' = FALSE
            /\ UNCHANGED due
  <2>1. addr' = "op" /\ insn' = string' /\ string' \in Strings
    BY <1>7, <1>10, Zenon
  <2>2. InString'
    BY <2>1, Zenon DEF InString
  <2>3. StringTypeOK'
    BY <1>4, <1>10, BoundsAssumption DEF StringTypeOK, StringInv
  <2>4. RunningInv'
    BY <1>10, <2>1 DEF RunningInv
  <2>5. RestartInv' /\ LeftInv'
    BY <1>10, <2>2, Zenon DEF RestartInv, LeftInv
  <2> QED BY <2>3, <2>4, <2>5, Zenon DEF StringInv
(* It is dispatched again, after the return. *)
<1>11. CASE /\ starting_instruction(in) /\ ~handling' /\ due
            /\ due' = FALSE
            /\ UNCHANGED <<string, left, matched>>
  <2>1. addr' = "op" /\ insn' = string' /\ string' \in Strings
    BY <1>5, <1>7, <1>11, Zenon DEF StringInv, RestartInv
  <2>2. InString'
    BY <2>1, Zenon DEF InString
  <2>3. StringTypeOK'
    BY <1>4, <1>11 DEF StringTypeOK, StringInv
  <2>4. RunningInv'
    BY <1>11, <2>1 DEF RunningInv
  <2>5. RestartInv' /\ LeftInv'
    BY <1>11, <2>2, Zenon DEF RestartInv, LeftInv
  <2> QED BY <2>3, <2>4, <2>5, Zenon DEF StringInv
(* An iteration ends. *)
<1>12. CASE /\ addr = "iter" /\ ~in.stall
            /\ left' = left - 1
            /\ matched' \in IF insn = "scan" THEN BOOLEAN ELSE {FALSE}
            /\ UNCHANGED <<string, due>>
  <2>1. addr' = "rep"
    BY <1>2, <1>12, LoopFlow, Zenon
  <2>2. ~starting_instruction(in)
    BY <1>7, <2>1
  <2>3. insn' = insn
    BY <1>2, <2>2, Zenon
  <2>4. handling' = handling
    BY <1>9, <1>12
  <2>5. InString
    BY <1>12 DEF InString
  <2>6. InString'
    BY <2>1 DEF InString
  <2>7. insn = string /\ string \in Strings /\ ~handling /\ ~due /\ left > 0
    BY <1>12, <2>5, Zenon DEF StringInv, RunningInv
  <2>8. StringTypeOK'
    BY <1>4, <1>12, <2>7 DEF StringTypeOK, StringInv
  <2>9. RunningInv'
    BY <1>12, <2>1, <2>3, <2>4, <2>7 DEF RunningInv
  <2>10. RestartInv' /\ LeftInv'
    BY <1>12, <2>6, <2>7, Zenon DEF RestartInv, LeftInv
  <2> QED BY <2>8, <2>9, <2>10, Zenon DEF StringInv
(* ext_int_yield: an interrupt is taken, or the loop goes on or ends. *)
<1>13. CASE /\ addr = "rep"
            /\ due' = ip_rollback(in)
            /\ UNCHANGED <<string, left, matched>>
  <2>1. addr' \in {"nmi", "irq", "loop"} \/ (addr' = "done" /\ matched)
    BY <1>2, <1>13, LoopFlow, Zenon
  <2>2. ~starting_instruction(in)
    BY <1>7, <2>1
  <2>3. insn' = insn
    BY <1>2, <2>2, Zenon
  <2>4. handling' = handling
    BY <1>9, <1>13
  <2>5. insn = string /\ string \in Strings /\ ~handling /\ ~due
    <3>1. InString
      BY <1>13 DEF InString
    <3> QED BY <3>1, Zenon DEF StringInv, RunningInv
  <2>6. due' = (addr' \in {"nmi", "irq"})
    <3>1. ~is_hlt /\ yields(addr)
      BY <1>13, <2>5 DEF is_hlt, Strings, yields
    <3> QED BY <1>2, <1>13, <3>1 DEF ip_rollback, start_interrupt
  <2>7. StringTypeOK'
    BY <1>4, <1>13, <2>6 DEF StringTypeOK, StringInv
  <2>8. RunningInv'
    <3>1. addr' \in {"nmi", "irq", "loop", "done"} /\ string' = string
      BY <1>13, <2>1
    <3>2. (InString' \/ addr' = "done") => ~due'
      BY <2>3, <2>6, <3>1 DEF InString
    <3>3. addr' # "iter"
      BY <3>1
    <3> QED BY <2>3, <2>4, <2>5, <3>1, <3>2, <3>3, Zenon DEF RunningInv
  <2>9. RestartInv'
    <3>1. due' => addr' \in {"fetch"} \cup Vectored \cup Entry
      BY <2>6 DEF Vectored
    <3>2. insn' \in Strings \cup {"iret"} /\ string' \in Strings
      BY <1>13, <2>3, <2>5
    <3> QED BY <3>1, <3>2, Zenon DEF RestartInv
  <2>10. LeftInv'
    BY <1>13, <2>1, <2>6 DEF LeftInv, InString
  <2> QED BY <2>7, <2>8, <2>9, <2>10, Zenon DEF StringInv
(* Its last microinstruction runs. *)
<1>14. CASE /\ addr = "done" /\ insn \in Strings
            /\ ~(starting_instruction(in) /\ in.head \in Strings)
            /\ string' = NoInsn /\ left' = 0 /\ matched' = FALSE
            /\ UNCHANGED due
  <2>1. ~handling' /\ ~due'
    <3>1. ~handling /\ ~due
      BY <1>14, Zenon DEF StringInv, RunningInv
    <3> QED BY <1>9, <1>14, <3>1
  <2>2. ~InString'
    <3>1. ~InString
      BY <1>14 DEF InString
    <3>2. addr' \notin {"loop", "iter", "rep"}
      BY <1>2, <3>1, LoopEntry, Zenon
    <3>3. ~(addr' = "op" /\ insn' \in Strings)
      <4>1. addr # "op"
        BY <1>14
      <4> QED BY <1>7, <1>8, <1>14, <4>1, Zenon
    <3> QED BY <3>2, <3>3, Zenon DEF InString
  <2>3. StringTypeOK'
    BY <1>4, <1>14 DEF StringTypeOK, StringInv
  <2>4. RunningInv'
    <3>1. addr' # "iter"
      BY <2>2 DEF InString
    <3> QED BY <2>1, <2>2, <3>1, Zenon DEF RunningInv
  <2>5. RestartInv' /\ LeftInv'
    BY <1>14, <2>1, Zenon DEF RestartInv, LeftInv
  <2> QED BY <2>3, <2>4, <2>5, Zenon DEF StringInv
(* Any other cycle. *)
<1>15. CASE /\ ~(starting_instruction(in) /\ ~handling' /\ (in.head \in Strings \/ due))
            /\ ~(addr = "iter" /\ ~in.stall) /\ addr # "rep"
            /\ ~(addr = "done" /\ insn \in Strings)
            /\ UNCHANGED <<string, left, matched, due>>
  <2>1. ~(starting_instruction(in) /\ in.head \in Strings)
    BY <1>6, <1>15, Zenon
  <2>2. InString' => InString /\ insn' = insn /\ handling' = handling
    <3>1. CASE addr' \in {"loop", "iter", "rep"}
      <4>1. InString
        BY <1>2, <3>1, LoopEntry, Zenon
      <4>2. ~starting_instruction(in)
        BY <1>7, <3>1
      <4>3. addr # "done_hold" /\ addr # "int_load"
        BY <4>1 DEF InString
      <4> QED BY <1>2, <1>9, <4>1, <4>2, <4>3, Zenon
    <3>2. CASE addr' = "op" /\ insn' \in Strings
      <4>1. addr = "op" /\ insn' = insn
        BY <1>7, <1>8, <2>1, <3>2, Zenon
      <4>2. InString
        BY <3>2, <4>1, Zenon DEF InString
      <4> QED BY <1>9, <4>1, <4>2
    <3> QED BY <3>1, <3>2, Zenon DEF InString
  <2>3. InString => insn = string /\ string \in Strings /\ ~handling /\ ~due
    BY Zenon DEF StringInv, RunningInv
  <2>4. addr' = "iter" => left > 0
    <3> SUFFICES ASSUME addr' = "iter" PROVE left > 0
      OBVIOUS
    <3>1. InString
      BY <1>2, LoopEntry, Zenon
    <3>2. addr \in {"op", "loop", "iter"} /\ (addr = "op" => insn \in Strings)
      BY <1>15, <3>1 DEF InString
    <3>3. CASE addr = "op"
      BY <1>2, <3>2, <3>3, LoopFlow
    <3>4. CASE addr = "loop"
      <4>1. left # 0
        BY <1>2, <3>4, LoopFlow
      <4> QED BY <4>1 DEF StringInv, StringTypeOK
    <3>5. CASE addr = "iter"
      BY <3>5, Zenon DEF StringInv, RunningInv
    <3> QED BY <3>2, <3>3, <3>4, <3>5
  <2>5. addr' = "done" /\ insn' \in Strings => InString /\ handling' = handling
    <3> SUFFICES ASSUME addr' = "done", insn' \in Strings PROVE InString /\ handling' = handling
      OBVIOUS
    <3>1. insn' = insn
      <4>1. ~starting_instruction(in)
        BY <1>7
      <4> QED BY <1>2, <4>1, Zenon
    <3>2. addr = "loop"
      BY <1>2, <1>15, <3>1, LoopEntry
    <3>3. addr # "done_hold" /\ addr # "int_load"
      BY <3>2
    <3> QED BY <1>9, <3>2, <3>3 DEF InString
  <2>6. StringTypeOK'
    BY <1>4, <1>15 DEF StringTypeOK, StringInv
  <2>7. RunningInv'
    BY <1>15, <2>2, <2>3, <2>4, <2>5 DEF RunningInv
  <2>8. LeftInv'
    <3> SUFFICES ASSUME ~due, ~InString' PROVE left = 0 \/ matched
      BY <1>15, Zenon DEF LeftInv
    <3>1. CASE ~InString
      BY <3>1, Zenon DEF StringInv, LeftInv
    <3>2. CASE InString
      <4>1. addr \in {"op", "loop", "iter"} /\ (addr = "op" => insn \in Strings)
        BY <1>15, <3>2 DEF InString
      <4>2. addr = "op" => addr' = "loop" \/ (addr' = "op" /\ in.stall)
        BY <1>2, <4>1, LoopFlow
      <4>3. addr' = "op" /\ in.stall => insn' = insn
        BY <1>2, Zenon DEF starting_instruction
      <4>4. addr # "op"
        BY <4>1, <4>2, <4>3 DEF InString
      <4>5. addr = "iter" => addr' = "iter"
        BY <1>2, <1>15, LoopFlow
      <4>6. addr = "loop" /\ left # 0 => addr' = "iter"
        BY <1>2, LoopFlow
      <4> QED BY <4>1, <4>4, <4>5, <4>6 DEF InString
    <3> QED BY <3>1, <3>2
  <2>9. RestartInv'
    <3> SUFFICES ASSUME due, ~handling'
                 PROVE  addr' \in {"fetch"} \cup Vectored \cup Entry /\ insn' \in Strings \cup {"iret"}
      BY <1>15, Zenon DEF RestartInv, StringInv
    <3>1. ~starting_instruction(in)
      BY <1>15
    <3>2. insn' = insn
      BY <1>2, <3>1, Zenon
    <3>3. in.head = NoInsn \/ in.head = string
      BY <1>5
    <3>4. in.head \notin {"long", "divide"}
      BY <3>3 DEF StringInv, StringTypeOK, Strings, NoInsn
    <3>5. /\ in.seize = FALSE
          /\ in.error => addr = "op" /\ insn = "divide"
          /\ in.stall => addr \in {"op", "done", "iter", "int", "int_load"}
      BY LoopPins, Zenon
    <3>6. CASE ~handling
      <4>1. addr \in {"fetch"} \cup Vectored \cup Entry /\ insn \in Strings \cup {"iret"}
        BY <3>6, Zenon DEF StringInv, RestartInv
      <4>2. ~(addr = "int_load" /\ ~in.stall)
        BY <1>2, <3>6 DEF ClockHandling
      <4>3. ~is_hlt
        BY <4>1 DEF is_hlt, Strings
      <4>4. CASE addr = "fetch"
        <5>1. next_addr(in) \in {"nmi", "irq", jump_target(in.head, in.taken)}
          BY <3>4, <3>5, <4>4 DEF next_addr, debug_stopped, yields, Conditional
        <5>2. jump_target(in.head, in.taken) \in {"fetch", "op"}
          BY <4>4 DEF jump_target
        <5>3. next_addr(in) # "op"
          BY <3>1, <3>5, <4>4 DEF starting_instruction
        <5> QED BY <1>2, <3>2, <4>1, <5>1, <5>2, <5>3 DEF Vectored
      <4>5. CASE addr \in Vectored \cup Entry /\ in.stall
        BY <1>2, <3>2, <4>1, <4>5 DEF next_addr, debug_stopped, Vectored, Entry
      <4>6. CASE addr \in Vectored \cup Entry /\ ~in.stall
        <5>1. addr \in Vectored \cup {"int", "int_flags"}
          BY <4>2, <4>6 DEF Entry
        <5>2. /\ ~yields(addr) /\ ~ends(addr) /\ ~Conditional /\ ~debug_stopped
              /\ addr # "fetch" /\ addr # "op"
          BY <5>1 DEF Vectored, Entry, yields, ends, Conditional, debug_stopped
        <5>3. next_addr(in) = Successor
          BY <3>5, <4>3, <4>6, <5>2, Zenon DEF next_addr, do_single_step
        <5>4. Successor \in Entry
          BY <5>1 DEF Successor, Vectored, Entry
        <5> QED BY <1>2, <3>2, <4>1, <5>3, <5>4
      <4> QED BY <4>1, <4>4, <4>5, <4>6
    <3>7. CASE handling
      <4>1. Returns
        BY <1>2, <3>7 DEF ClockHandling
      <4>2. next_addr(in) = Dispatch(in.head)
        BY <3>5, <4>1 DEF Returns, next_addr, debug_stopped, yields, ends, Conditional, is_hlt,
                          inhibits, take_nmi, take_irq, do_single_step
      <4>3. Dispatch(in.head) \in {"fetch", "op"}
        BY <3>4 DEF Dispatch, has_modrm
      <4>4. next_addr(in) # "op"
        BY <3>1, <3>5, <4>1 DEF starting_instruction, Returns
      <4> QED BY <1>2, <3>2, <4>1, <4>2, <4>3, <4>4 DEF Returns
    <3> QED BY <3>6, <3>7
  <2> QED BY <2>6, <2>7, <2>8, <2>9, Zenon DEF StringInv
<1> QED BY <1>2, <1>10, <1>11, <1>12, <1>13, <1>14, <1>15, Zenon DEF ClockString

(* A string instruction that waits is restarted before the main program    *)
(* goes on.                                                                *)
LEMMA StringInvariant == Spec => [](Debugger \/ StringInv)
<1>1. Init => StringInv
  <2> SUFFICES ASSUME Init PROVE StringInv
    OBVIOUS
  <2>1. addr = "fetch" /\ insn = "plain"
    BY DEF Init, SeqInit
  <2>2. string = NoInsn /\ left = 0 /\ due = FALSE /\ handling = FALSE
    BY DEF Init
  <2>3. ~InString /\ addr # "iter" /\ addr # "done"
    BY <2>1 DEF InString
  <2>4. StringTypeOK
    BY <2>2 DEF StringTypeOK
  <2>5. RunningInv /\ RestartInv /\ LeftInv
    BY <2>2, <2>3, Zenon DEF RunningInv, RestartInv, LeftInv
  <2> QED BY <2>4, <2>5 DEF StringInv
<1>2. (Debugger \/ StringInv) /\ [Clock]_vars => (Debugger \/ StringInv)'
  <2> SUFFICES ASSUME Debugger \/ StringInv, [Clock]_vars PROVE (Debugger \/ StringInv)'
    OBVIOUS
  <2>1. Debugger' = Debugger
    BY DEF Debugger, Clock, Step, vars
  <2>2. CASE Debugger
    BY <2>1, <2>2, Zenon
  <2>3. CASE ~Debugger /\ UNCHANGED vars
    BY <2>3 DEF StringInv, StringTypeOK, RunningInv, RestartInv, LeftInv, InString, vars, seq_vars
  <2>4. CASE ~Debugger /\ Clock
    BY <2>4, StringStep
  <2> QED BY <2>2, <2>3, <2>4
<1> QED BY <1>1, <1>2, PTL DEF Spec

(* Without a debugger, no string instruction is left before its count or   *)
(* its condition ends it: whatever is taken at its ext_int_yield, nested   *)
(* to any depth, by faults, HLT or software interrupts in the handlers,    *)
(* the next instruction of the main program is the string instruction      *)
(* itself (Microcode.sv.templ, ip_rollback).                               *)
THEOREM StringsAlwaysFinish == Spec => []StringsFinish
<1>1. Debugger \/ StringInv => StringsFinish
  BY DEF StringInv, RestartInv, LeftInv, StringsFinish, InString, Vectored, Entry
<1> QED BY <1>1, StringInvariant, PTL
=============================================================================
