---------------------------- MODULE CachedMemory ----------------------------
(***************************************************************************)
(* The cache between the CPU's memory bus and the SDRAM, as wired in       *)
(* fpga/common/Top.sv.  One byte, at Tracked, is followed: it is written   *)
(* with the values Fresh, everything else with the value Other, so that a  *)
(* wrong, stale or lost word shows at Tracked.  The master keeps a request *)
(* up until it is acknowledged, unless the CPU is reset (button, debugger) *)
(* which the cache does not see.                                           *)
(***************************************************************************)
EXTENDS Cache, FiniteSets

CONSTANTS Fresh,      \* values written to the tracked byte
          Other,      \* what every other byte holds
          Tracked,    \* addresses the tracked byte may have
          ResetHold,  \* cycles the CPU's reset is held at least
          MaxResets   \* bound on the number of resets

ASSUME TrackedAssumption == Tracked \subseteq Address
ASSUME ValueAssumption == Fresh # {} /\ Fresh \cup {Other} \subseteq Value
ASSUME ResetAssumption == ResetHold \in Nat /\ MaxResets \in Nat

VARIABLES memory,     \* SDRAM contents
          pending,    \* the SDRAM has seen the cache's request
          request,    \* the master's request, or Idle
          bus_addr,   \* the address on the bus
          tracked,    \* address of the tracked byte
          expected,   \* values a read of it may return
          resets,     \* number of CPU resets
          hold        \* cycles the current reset is still held

vars == <<cache_vars, memory, pending, request, bus_addr, tracked, expected, resets, hold>>

Idle == [kind |-> "idle"]
Requests ==
  [kind : {"read"}] \cup [kind : {"write"}, be : BOOLEAN, value : {Other} \cup Fresh]

c_wr_en == request.kind = "write"

(* q_m_access of the arbiter drops in the cycle of the acknowledgement. *)
c_access == request # Idle /\ ~c_ack

Init ==
  /\ tracked \in Tracked
  /\ expected = {CHOOSE v \in Fresh : TRUE}
  /\ memory = [a \in Address |-> IF a = tracked THEN CHOOSE v \in Fresh : TRUE ELSE Other]
  /\ pending = FALSE
  /\ request = Idle
  /\ CacheInit(Other)
  /\ bus_addr = c_m_addr
  /\ resets = 0
  /\ hold = 0

(* The tracked byte is written with fresh values or not at all, when only  *)
(* the other lane of its word is; the rest is written with Other.          *)
Writable(a, r) ==
  r.kind = "write" => IF a = tracked THEN r.be <=> r.value \in Fresh ELSE r.be /\ r.value = Other

(* SDRAM: a request seen earlier is performed in the cycle of its answer;  *)
(* the controller shares the CPU's reset and starts over after it.         *)
ClockMemory(m_ack) ==
  /\ m_ack => pending /\ hold = 0
  /\ pending' = m_access(m_ack)
  /\ memory' = IF m_ack /\ flushing THEN [memory EXCEPT ![c_m_addr] = c_m_data_out] ELSE memory

ClockCache(m_ack) ==
  CacheClock(c_access, bus_addr, c_wr_en, c_wr_en /\ request.be,
             IF c_wr_en THEN request.value ELSE Other, m_ack, memory[c_m_addr])

(* A request stays until it is acknowledged; then the bus is free for a    *)
(* new one, and its address lines follow the prefetcher when it is idle.   *)
ClockMaster ==
  /\ \/ c_access /\ UNCHANGED <<request, bus_addr>>
     \/ ~c_access /\ request' = Idle /\ bus_addr' \in Address
     \/ ~c_access /\ hold = 0 /\ request' \in Requests /\ bus_addr' \in Address
        /\ Writable(bus_addr', request')
  /\ expected' = IF c_ack /\ c_wr_en /\ request.be /\ bus_addr = tracked
                 THEN {request.value} ELSE expected
  /\ hold' = IF hold > 0 THEN hold - 1 ELSE 0
  /\ UNCHANGED <<tracked, resets>>

Clock == \E m_ack \in BOOLEAN : ClockMemory(m_ack) /\ ClockCache(m_ack) /\ ClockMaster

(* The CPU is reset: its request vanishes; a write in progress may or may  *)
(* not have happened.                                                      *)
ResetCPU ==
  /\ resets < MaxResets
  /\ resets' = resets + 1
  /\ hold' = ResetHold
  /\ request' = Idle
  /\ bus_addr' \in Address
  /\ expected' = IF c_wr_en /\ request.be /\ bus_addr = tracked
                 THEN expected \cup {request.value} ELSE expected
  /\ UNCHANGED tracked
  /\ \E m_ack \in BOOLEAN : ClockMemory(m_ack) /\ ClockCache(m_ack)

(* Without resets, and with them. *)
Spec == Init /\ [][Clock]_vars
ResetSpec == Init /\ [][Clock \/ ResetCPU]_vars

(* While a request waits, the clock runs and the SDRAM answers. *)
Answer == pending /\ ClockMemory(TRUE) /\ ClockCache(TRUE) /\ ClockMaster
FairSpec == Spec /\ WF_vars(c_access /\ Clock) /\ WF_vars(c_access /\ Answer)

-----------------------------------------------------------------------------
(* The cache is invisible: a read acknowledged to the CPU returns what was *)
(* last written there, through any sequence of hits, fills that are read   *)
(* while they run, write-backs and evictions.                              *)
ReadsReturnLastWrite ==
  c_ack /\ request.kind = "read" /\ bus_addr = tracked => c_q \in expected

(* Line a.idx holds the word at a. *)
LineHolds(a) == tag_ram[a.idx] = a.tag /\ valid_ram[a.idx]

(* A valid line without the dirty mark may be dropped by do_fill without a *)
(* write-back, so every word of it is the SDRAM's, also when a hit writes  *)
(* into the line in the cycle in which its fill ends.                      *)
CleanLinesMatchMemory ==
  \A a \in Address :
    LineHolds(a) /\ ~dirty_ram[a.idx] => line_ram[<<a.idx, a.off>>] = memory[a]

(* While m_access is up the SDRAM controller may sample the request in any *)
(* cycle: address, direction and, for a write-back, the data word stay.    *)
TransferStable ==
  [][pending' => c_m_addr' = c_m_addr /\ flushing' = flushing
                 /\ (flushing => c_m_data_out' = c_m_data_out)]_vars

(* Every request is answered: a miss that evicts a dirty line goes on from *)
(* the write-back (flush_line) to the fill, and the fill reaches the word. *)
RequestsAnswered == (request # Idle) ~> c_ack
=============================================================================
