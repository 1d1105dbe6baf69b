-------------------------------- MODULE PIC ----------------------------------
(***************************************************************************)
(* fpga/pic/PIC.sv: a single edge-triggered 8259-like controller.  The     *)
(* 8-bit registers are sets of lines; line 0 has the highest priority.  An *)
(* access io of the CPU is a record of op and, where it has one, a value:  *)
(* "icw1" and "eoi" write the command port, "data" the data port, "none"   *)
(* is no access.  Reading the registers back (reg_latch) is left out.      *)
(***************************************************************************)
EXTENDS Integers, FiniteSetsExt

CONSTANTS Lines,     \* 8: number of interrupt lines
          Vectors,   \* values of vector_address besides 0
          Masks      \* values of mask that are written, besides none

ASSUME LinesAssumption == Lines \in Nat \ {0}
ASSUME VectorsAssumption == Vectors \subseteq Nat
ASSUME MasksAssumption == \A m \in Masks : m \subseteq 0 .. Lines - 1

VARIABLES init_state, vector_address, mask, isr, irr, delivered, intr_last

pic_vars == <<init_state, vector_address, mask, isr, irr, delivered, intr_last>>

Line == 0 .. Lines - 1

NoAccess == [op |-> "none"]
EOI == [op |-> "eoi"]
SpecificEOI(i) == [op |-> "eoi", line |-> i]
DataWrite(lines, vector) == [op |-> "data", lines |-> lines, vector |-> vector]

(* Accesses with the part of a data write that init_state looks at. *)
Accesses ==
  {NoAccess, [op |-> "icw1"], EOI} \cup {SpecificEOI(i) : i \in Line}
    \cup {DataWrite(m, v) : m \in IF init_state = "IDLE" THEN Masks \cup {{}} ELSE {{}},
                            v \in IF init_state = "ICW2" THEN Vectors ELSE {0}}

(* Mutant of Deliverable: a request is compared with its own line only. *)
DeliverableAny == irr \ isr

(* Requests with no line of the same or a higher priority in service. *)
Deliverable == {i \in irr : \A j \in 0 .. i : j \notin isr}

intr(inta) == ~inta /\ Deliverable # {}
irq_line(inta) == IF intr(inta) THEN Min(Deliverable) ELSE 0
irq(inta) == [base |-> IF intr(inta) THEN vector_address ELSE 0, line |-> irq_line(inta)]

PICInit ==
  /\ init_state = "ICW1"
  /\ vector_address = 0
  /\ mask = {} /\ isr = {} /\ irr = {}
  /\ delivered \in Line /\ intr_last \in SUBSET Line

ClockSetup(io) ==
  /\ init_state' = CASE init_state = "ICW1" /\ io.op = "icw1" -> "ICW2"
                     [] init_state = "ICW2" /\ io.op = "data" -> "ICW4"
                     [] init_state = "ICW4" /\ io.op = "data" -> "IDLE"
                     [] OTHER -> init_state
  /\ vector_address' = IF init_state = "ICW2" /\ io.op = "data" THEN io.vector ELSE vector_address
  /\ mask' = IF init_state = "IDLE" /\ io.op = "data" THEN io.lines ELSE mask

(* In the cycle of an acknowledge no edge is recorded. *)
NextIRR(intr_in, inta) ==
  irr' = IF inta THEN irr \ {delivered} ELSE irr \cup ((intr_in \ intr_last) \ mask)

(* The line an EOI ends: the one it names, else the highest in service. *)
Ended(io) ==
  IF io.op # "eoi" THEN {}
  ELSE IF "line" \in DOMAIN io THEN {io.line}
  ELSE {i \in isr : \A j \in isr : i <= j}

PICClock(io, intr_in, inta) ==
  /\ ClockSetup(io)
  /\ NextIRR(intr_in, inta)
  /\ isr' = (isr \ Ended(io)) \cup (IF inta THEN {delivered} ELSE {})
  /\ delivered' = irq_line(inta)
  /\ intr_last' = intr_in
=============================================================================
