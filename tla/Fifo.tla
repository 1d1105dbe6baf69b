-------------------------------- MODULE Fifo --------------------------------
(***************************************************************************)
(* rtl/Fifo.sv: the synchronous FIFO used as prefetch queue (depth 6),     *)
(* decoded-instruction queue (depth 4), keyboard queue (depth 8) and mouse *)
(* queue (depth 32).  One step is one rising clock edge; the parameters of *)
(* Clock are the input pins as sampled by that edge.                       *)
(***************************************************************************)
EXTENDS Naturals, Sequences

CONSTANTS Data,           \* values of wr_data / rd_data
          Depth,          \* parameter depth
          FullThreshold   \* parameter full_threshold

ASSUME DepthAssumption == Depth \in Nat \ {0}
ASSUME FullThresholdAssumption == FullThreshold \in Nat /\ FullThreshold <= Depth

VARIABLES mem, rd_ptr, wr_ptr, count

fifo_vars == <<mem, rd_ptr, wr_ptr, count>>

Slots == 0 .. Depth - 1

(* The status outputs. *)
empty == count = 0
full == count = Depth
nearly_full == count >= Depth - FullThreshold

(* The read port shows the entry under the read pointer at all times. *)
rd_data == mem[rd_ptr]

(* Mutant of NextPtr: no wrap before the natural width of the pointer. *)
NextPtrLate(p) == IF p = Depth THEN 0 ELSE p + 1

(* Pointer increment with the explicit wrap at the last slot. *)
NextPtr(p) == IF p = Depth - 1 THEN 0 ELSE p + 1

(* Power-up after reset: the pointers are clear, the RAM holds anything.   *)
Init ==
  /\ mem \in [Slots -> Data]
  /\ rd_ptr = 0
  /\ wr_ptr = 0
  /\ count = 0

(* An asynchronous reset clears pointers and count and keeps the RAM. *)
Reset ==
  /\ rd_ptr' = 0
  /\ wr_ptr' = 0
  /\ count' = 0
  /\ UNCHANGED mem

NextCount(do_wr, do_rd) ==
  CASE do_wr /\ ~do_rd -> count + 1
    [] do_rd /\ ~do_wr -> count - 1
    [] OTHER -> count

(* One clock edge. *)
Clock(flush, wr_en, wr_data, rd_en) ==
  LET do_wr == wr_en /\ ~full
      do_rd == rd_en /\ ~empty
  IN  /\ mem' = IF do_wr /\ ~flush THEN [mem EXCEPT ![wr_ptr] = wr_data] ELSE mem
      /\ wr_ptr' = IF flush THEN 0 ELSE IF do_wr THEN NextPtr(wr_ptr) ELSE wr_ptr
      /\ rd_ptr' = IF flush THEN 0 ELSE IF do_rd THEN NextPtr(rd_ptr) ELSE rd_ptr
      /\ count' = IF flush THEN 0 ELSE NextCount(do_wr, do_rd)

Next ==
  \/ Reset
  \/ \E flush, wr_en, rd_en \in BOOLEAN, d \in Data : Clock(flush, wr_en, d, rd_en)

Spec == Init /\ [][Next]_fifo_vars

-----------------------------------------------------------------------------
(* Registers stay within the widths the module gives them. *)
TypeOK ==
  /\ mem \in [Slots -> Data]
  /\ rd_ptr \in Slots
  /\ wr_ptr \in Slots
  /\ count \in 0 .. Depth

(* Slot of the i-th oldest entry. *)
SlotOf(i) == IF rd_ptr + i - 1 >= Depth THEN rd_ptr + i - 1 - Depth ELSE rd_ptr + i - 1

(* The write pointer is where the entry after the newest one goes: pointers *)
(* and count are separate registers, updated by separate always blocks, and *)
(* must still agree whatever mix of write, read, flush and reset they see.  *)
PtrInv == wr_ptr = SlotOf(count + 1)

(* The entries between the pointers, oldest first. *)
Contents == [i \in 1 .. count |-> mem[SlotOf(i)]]

Queue == INSTANCE BoundedQueue WITH queue <- Contents

(* The circular buffer implements the bounded queue: every clock edge,     *)
(* whatever the ports and flush do together, is one queue operation.       *)
ImplementsQueue == Queue!QueueSpec
=============================================================================
