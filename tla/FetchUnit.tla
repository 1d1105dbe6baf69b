----------------------------- MODULE FetchUnit ------------------------------
(***************************************************************************)
(* The instruction fetch path of rtl/Core.sv in its surroundings: the      *)
(* prefetcher, the prefetch queue, the core that consumes bytes, branches  *)
(* and takes interrupts, its data accesses, and memory of any latency.     *)
(* With SharedBus the instruction and data ports meet in the MemArbiter as *)
(* in fpga/common/Top.sv and sim/RTLCPU/RTLCPU.sv; without it each port of *)
(* the core has a memory of its own.  One step is one clock edge.          *)
(***************************************************************************)
EXTENDS Prefetch, MemArbiter, Sequences

CONSTANTS Byte,            \* values of a byte
          Mem,             \* contents of memory
          QueueDepth,      \* 6: PrefetchFifo of Core.sv
          QueueThreshold,  \* 2: its full_threshold
          IntAccesses,     \* 5: data accesses of the do_int microcode
          SharedBus        \* instruction and data ports share a bus

ASSUME MemContents == Mem \in [Words -> [lo : Byte, hi : Byte]]
ASSUME QueueAssumption ==
  /\ QueueDepth \in Nat
  /\ QueueThreshold \in Nat
  /\ QueueThreshold > 0
  /\ QueueThreshold <= QueueDepth
  /\ QueueDepth <= IPSize
ASSUME IntAccessesAssumption == IntAccesses \in Nat \ {0}
ASSUME SharedBusAssumption == SharedBus \in BOOLEAN

VARIABLES queue,         \* the prefetch queue, oldest byte first
          pending,       \* memory ports that have seen a request
          data_state,    \* LoadStore: "idle", "access", "second", "complete"
          executing,     \* the core has consumed a byte since the last branch
          int_left,      \* interrupt entry: 1 + data accesses to go, 0 when none
          arch_cs,       \* what the program counter asks for: CS ...
          next_ip        \* ... and the offset of the next byte the core consumes

core_vars == <<data_state, executing, int_left>>
ghost_vars == <<arch_cs, next_ip>>
vars == <<prefetch_vars, arbiter_vars, queue, pending, core_vars, ghost_vars>>

Q == INSTANCE BoundedQueue WITH Data <- Byte, Depth <- QueueDepth

Ports == IF SharedBus THEN {"q"} ELSE {"a", "b"}

(* The byte at segment:offset. *)
ByteAt(c, a) ==
  LET word == Mem[WordAddress(c, a)]
  IN  IF Odd(a) THEN word.hi ELSE word.lo

(* Mutant of fifo_full: the prefetcher waits for full instead. *)
fifo_full_late == Len(queue) >= QueueDepth

(* Core.sv feeds nearly_full of the queue into the prefetcher's fifo_full. *)
fifo_full == Len(queue) >= QueueDepth - QueueThreshold

(* Acknowledgements seen by the instruction and the data port. *)
instr_ack(acks) == IF SharedBus THEN a_m_ack("q" \in acks) ELSE "a" \in acks
data_ack(acks) == IF SharedBus THEN b_m_ack("q" \in acks) ELSE "b" \in acks

(* LoadStore drops its request in the cycle of the acknowledgement. *)
busy == data_state \in {"access", "second"}
data_access(acks) == busy /\ ~data_ack(acks)

Init ==
  /\ PrefetchInit(Byte)
  /\ ArbiterInit
  /\ Q!QueueInit
  /\ pending = {}
  /\ data_state = "idle"
  /\ executing = FALSE
  /\ int_left = 0
  /\ arch_cs = ResetCS
  /\ next_ip = 0

(* A memory answers no earlier than the cycle after it has seen a request. *)
ClockBus(acks) ==
  LET a == mem_access(instr_ack(acks))
      b == data_access(acks)
  IN  /\ IF SharedBus THEN ArbiterClock(a, b, "q" \in acks) ELSE UNCHANGED arbiter_vars
      /\ pending' = IF SharedBus
                    THEN {p \in Ports : q_m_access(a, b, "q" \in acks)}
                    ELSE {p \in Ports : (p = "a" /\ a) \/ (p = "b" /\ b)}

(* LoadStore: an unaligned word needs a second access straight after the   *)
(* first acknowledgement; completion is registered and lasts one cycle.    *)
ClockData(start, second, acks) ==
  data_state' =
    CASE busy /\ ~data_ack(acks) -> data_state
      [] busy /\ data_ack(acks) -> IF data_state = "access" /\ second THEN "second" ELSE "complete"
      [] OTHER -> IF start THEN "access" ELSE "idle"

(* The microcode starts a data access for an instruction that is being     *)
(* executed or for the interrupt entry sequence.                           *)
MayAccess == ~busy /\ (int_left > 1 \/ (int_left = 0 /\ executing))

(* An instruction that has begun may branch, an interrupt entry branches   *)
(* when its accesses are done; neither while LoadStore stalls the core.    *)
MayLoad == ~busy /\ (int_left = 1 \/ (int_left = 0 /\ executing))

(* do_int and the microinstruction that accepts an interrupt, at any       *)
(* instruction boundary and while waiting for the queue.                   *)
ClockCore(load, interrupt, rd_en) ==
  /\ executing' = (~load /\ (executing \/ (rd_en /\ queue # << >>)))
  /\ int_left' = IF interrupt THEN IntAccesses + 1
                 ELSE IF load THEN 0
                 ELSE IF data_state = "complete" /\ int_left > 1 THEN int_left - 1
                 ELSE int_left

(* The program counter as the program sees it. *)
ClockGhost(load, new_cs, new_ip, rd_en) ==
  /\ arch_cs' = IF load THEN new_cs ELSE arch_cs
  /\ next_ip' = IF load THEN new_ip
                ELSE IF rd_en /\ queue # << >> THEN Inc(next_ip)
                ELSE next_ip

Clock(acks, load, new_cs, new_ip, rd_en, start, second, interrupt) ==
  LET ack == instr_ack(acks)
      data == Mem[mem_address]
  IN  /\ load => MayLoad
      /\ start => MayAccess /\ ~load
      /\ interrupt => ~busy /\ ~start /\ (int_left = 0 \/ load)
      /\ PrefetchClock(load, new_cs, new_ip, fifo_full, ack, data)
      /\ Q!QueueClock(fifo_reset(ack, load), fifo_wr_en(ack, load), fifo_wr_data(ack, data), rd_en)
      /\ ClockBus(acks)
      /\ ClockData(start, second, acks)
      /\ ClockCore(load, interrupt, rd_en)
      /\ ClockGhost(load, new_cs, new_ip, rd_en)

(* A cycle in which the core takes no branch. *)
Fetch ==
  \E acks \in SUBSET pending, rd_en, start, second, interrupt \in BOOLEAN :
    Clock(acks, FALSE, arch_cs, next_ip, rd_en, start, second, interrupt)

(* A cycle in which a branch or an interrupt entry delivers a new CS:IP.   *)
Branch ==
  \E acks \in SUBSET pending, new_cs \in Segments, new_ip \in Offsets,
     rd_en, second, interrupt \in BOOLEAN :
    Clock(acks, TRUE, new_cs, new_ip, rd_en, FALSE, second, interrupt)

Next == Fetch \/ Branch

Spec == Init /\ [][Next]_vars

-----------------------------------------------------------------------------
(* The data registers: offsets, segments, words and the queue's bytes. *)
DataTypeOK ==
  /\ cs \in Segments /\ next_cs \in Segments /\ arch_cs \in Segments
  /\ fetch_address \in Offsets /\ next_fetch_address \in Offsets
  /\ next_sequential_fetch \in Offsets /\ next_ip \in Offsets
  /\ fetched_high_byte \in Byte
  /\ mem_address \in Words
  /\ queue \in Seq(Byte) /\ Len(queue) <= QueueDepth
  /\ int_left \in 0 .. IntAccesses + 1

(* The control registers of prefetcher, arbiter, load/store unit and core. *)
ControlTypeOK ==
  /\ abort_cur \in BOOLEAN /\ write_second \in BOOLEAN /\ mem_access2 \in BOOLEAN
  /\ grant_active \in BOOLEAN /\ grant_to_b \in BOOLEAN
  /\ pending \subseteq Ports
  /\ data_state \in {"idle", "access", "second", "complete"}
  /\ executing \in BOOLEAN

(* Every register of the fetch path keeps to its type, and the prefetch    *)
(* queue to its depth.                                                     *)
TypeOK == DataTypeOK /\ ControlTypeOK

(* Offset of the byte k places behind the front of the queue. *)
Ahead(k) == IF next_ip + k >= IPSize THEN next_ip + k - IPSize ELSE next_ip + k

(* What the decoder reads is the program: the byte at the front of the     *)
(* queue, and every byte behind it, is the one memory holds at the         *)
(* program's CS:IP, whatever latency the memory has and whenever a branch  *)
(* or an interrupt overtakes the fetches in flight.                        *)
StreamMatchesProgram == \A k \in 1 .. Len(queue) : queue[k] = ByteAt(arch_cs, Ahead(k - 1))

(* The queue always has room for the bytes of the word in flight, so that  *)
(* Fifo never drops a write: the threshold leaves room for both bytes.     *)
NoByteDropped ==
  \/ Len(queue) + 2 <= QueueDepth
  \/ ~mem_access2 /\ (write_second => Len(queue) < QueueDepth)

(* A stale fetch is out: nothing has been queued since the branch, the     *)
(* branch target is held in next_*, the bus belongs to the prefetcher, so  *)
(* that the interrupt entry that follows cannot get at its vector and      *)
(* cannot deliver another CS:IP before the stale fetch has been answered.  *)
AbortInv ==
  abort_cur =>
    /\ mem_access2 /\ ~write_second /\ queue = << >>
    /\ next_cs = arch_cs /\ next_fetch_address = next_ip
    /\ SharedBus => /\ grant_active /\ ~grant_to_b
                    /\ data_state \in {"idle", "access"}
                    /\ ~executing
                    /\ int_left # 1

(* Otherwise the prefetcher is right behind the end of the queue. *)
FollowInv ==
  ~abort_cur => cs = arch_cs /\ fetch_address = Ahead(Len(queue))

(* The word in flight and the high byte due are those at fetch_address. *)
WordInv ==
  /\ mem_access2 => ~write_second /\ mem_address = WordAddress(cs, fetch_address)
  /\ write_second => Odd(fetch_address) /\ fetched_high_byte = ByteAt(cs, fetch_address)

(* A request is only out while both of its bytes have room. *)
RoomInv ==
  /\ mem_access2 => ~fifo_full
  /\ write_second => Len(queue) <= QueueDepth - QueueThreshold

(* A grant belongs to a master that is still waiting for it. *)
GrantInv ==
  /\ grant_active => IF grant_to_b THEN busy ELSE mem_access2
  /\ "q" \in pending => grant_active

(* The inductive invariant behind the properties above. *)
FetchInv ==
  /\ TypeOK
  /\ StreamMatchesProgram
  /\ AbortInv
  /\ FollowInv
  /\ WordInv
  /\ RoomInv
  /\ GrantInv

(* The bus is working on a request of the prefetcher. *)
InFlight == IF SharedBus THEN grant_active /\ ~grant_to_b ELSE "a" \in pending

(* A request on the instruction bus is neither withdrawn nor moved before  *)
(* it is acknowledged, branches notwithstanding: a memory with several     *)
(* cycles of latency samples it more than once.                            *)
RequestStable == [][InFlight' => mem_access2' /\ mem_address' = mem_address]_vars

-----------------------------------------------------------------------------
(* A memory that has seen a request answers it, and the clock runs.        *)
Answer ==
  \E rd_en, start, second, interrupt \in BOOLEAN :
    Clock(pending, FALSE, arch_cs, next_ip, rd_en, start, second, interrupt)
Fairness == WF_vars(Fetch) /\ WF_vars(pending # {} /\ Answer)

FairSpec == Spec /\ Fairness

(* A core that stops branching is given bytes again and again: no          *)
(* combination of stale fetch, high byte due and full queue leaves the     *)
(* prefetcher waiting for good.                                            *)
StreamFlows == <>[][~Branch]_vars => []<>(queue # << >>)
=============================================================================
