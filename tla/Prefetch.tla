------------------------------ MODULE Prefetch ------------------------------
(***************************************************************************)
(* rtl/Prefetch.sv: fetches the words at CS:IP and pushes their bytes into *)
(* the prefetch queue.  The operators' parameters are the input pins as    *)
(* sampled by the clock edge: ack / data (instruction bus), load / new_cs  *)
(* / new_ip (branch), full (nearly_full of the prefetch queue).            *)
(***************************************************************************)
EXTENDS Integers

CONSTANTS IPSize,     \* 2^16: number of offsets in a segment
          Segments,   \* values CS can take
          ResetCS,    \* 16'hffff
          ParaWords,  \* 8: words per paragraph
          MemWords    \* 2^19: words of memory

ASSUME IPSizeAssumption == IPSize \in Nat /\ IPSize > 1 /\ IPSize % 2 = 0
ASSUME SegmentsAssumption == Segments \subseteq Nat /\ ResetCS \in Segments
ASSUME MemAssumption == ParaWords \in Nat /\ MemWords \in Nat \ {0}

VARIABLES cs, fetch_address,            \* where the stream is being fetched
          next_cs, next_fetch_address,  \* latest branch target
          abort_cur,                    \* the outstanding fetch is stale
          write_second,                 \* the high byte of the last word is due
          fetched_high_byte,
          next_sequential_fetch,
          mem_access2, mem_address      \* registered request

prefetch_vars == <<cs, fetch_address, next_cs, next_fetch_address, abort_cur, write_second,
                   fetched_high_byte, next_sequential_fetch, mem_access2, mem_address>>

Offsets == 0 .. IPSize - 1
Words == 0 .. MemWords - 1

(* 16-bit increment: the offset wraps inside the segment. *)
Inc(a) == IF a = IPSize - 1 THEN 0 ELSE a + 1

Odd(a) == a % 2 = 1

(* The word that holds segment:offset. *)
WordAddress(c, a) == (c * ParaWords + a \div 2) % MemWords

(* Outputs. *)
mem_access(ack) == mem_access2 /\ ~ack
fifo_reset(ack, load) == load \/ (abort_cur /\ ack)
fifo_wr_en(ack, load) == ~abort_cur /\ ~load /\ (ack \/ write_second)
fifo_wr_data(ack, data) ==
  IF ack THEN (IF Odd(fetch_address) THEN data.hi ELSE data.lo) ELSE fetched_high_byte

(* State after reset; the registers without a reset hold anything. *)
PrefetchInit(Byte) ==
  /\ cs = ResetCS
  /\ next_cs = ResetCS
  /\ fetch_address = 0
  /\ next_fetch_address = 0
  /\ abort_cur = FALSE
  /\ write_second = FALSE
  /\ fetched_high_byte \in Byte
  /\ next_sequential_fetch \in Offsets
  /\ mem_access2 = FALSE
  /\ mem_address \in Words

(* The request presented from the next cycle on. *)
ClockRequest(load, full, ack) ==
  LET next_address == IF ack THEN next_sequential_fetch ELSE fetch_address
  IN  /\ mem_address' = WordAddress(cs, next_address)
      /\ mem_access2' = (/\ ~full
                         /\ ~ack
                         /\ ~write_second
                         /\ (mem_access(ack) \/ ~load))

(* Mutant of ClockAbort: the mark is not cleared by the acknowledgement. *)
ClockAbortSticky(load, ack) ==
  abort_cur' = (abort_cur \/ (mem_access(ack) /\ load))

(* A branch while a request is out only marks the request stale. *)
ClockAbort(load, ack) ==
  abort_cur' = IF abort_cur /\ ack THEN FALSE
               ELSE IF mem_access(ack) /\ load THEN TRUE
               ELSE abort_cur

(* Mutant of ClockTarget: the branch target is not held back while the     *)
(* stale fetch is out.                                                     *)
ClockTargetAtOnce(load, new_cs, new_ip, ack) ==
  /\ cs' = IF load THEN new_cs ELSE cs
  /\ fetch_address' =
       IF load THEN new_ip
       ELSE IF fifo_wr_en(ack, load) THEN Inc(fetch_address) ELSE fetch_address
  /\ next_cs' = IF load THEN new_cs ELSE next_cs
  /\ next_fetch_address' = IF load THEN new_ip ELSE next_fetch_address

(* cs:fetch_address follows the stream; the target of a branch that met an *)
(* outstanding request waits in next_* until the request has been acked.   *)
ClockTarget(load, new_cs, new_ip, ack) ==
  /\ cs' = IF abort_cur /\ ack THEN next_cs
           ELSE IF load /\ ~mem_access(ack) THEN new_cs
           ELSE cs
  /\ fetch_address' =
       IF abort_cur /\ ack THEN next_fetch_address
       ELSE IF load /\ ~mem_access(ack) THEN new_ip
       ELSE IF fifo_wr_en(ack, load) THEN Inc(fetch_address)
       ELSE fetch_address
  /\ next_cs' = IF load THEN new_cs ELSE next_cs
  /\ next_fetch_address' = IF load THEN new_ip ELSE next_fetch_address

(* Mutant of ClockSecond: the high byte is kept although a branch arrives  *)
(* together with the word.                                                 *)
ClockSecondKept(load, ack, data) ==
  /\ write_second' = (ack /\ ~abort_cur /\ ~Odd(fetch_address))
  /\ fetched_high_byte' = IF ack THEN data.hi ELSE fetched_high_byte
  /\ next_sequential_fetch' = Inc(fetch_address)

(* The high byte of an even word is written one cycle after the low byte. *)
ClockSecond(load, ack, data) ==
  /\ write_second' = (ack /\ ~abort_cur /\ ~Odd(fetch_address) /\ ~fifo_reset(ack, load))
  /\ fetched_high_byte' = IF ack THEN data.hi ELSE fetched_high_byte
  /\ next_sequential_fetch' = Inc(fetch_address)

PrefetchClock(load, new_cs, new_ip, full, ack, data) ==
  /\ ClockRequest(load, full, ack)
  /\ ClockAbort(load, ack)
  /\ ClockTarget(load, new_cs, new_ip, ack)
  /\ ClockSecond(load, ack, data)
=============================================================================
