------------------------------- MODULE Cache --------------------------------
(***************************************************************************)
(* fpga/common/Cache.sv with its block RAMs (DPRam.sv, BlockRam.sv): a     *)
(* direct-mapped write-back cache that fills critical word first and       *)
(* serves hits while it fills.  An address is a record of tag, idx and off *)
(* (bits 19:tag_start, index_end:4 and 3:1).  Only one byte lane of a word *)
(* is modelled; be says whether the byte enables of a write include it.    *)
(***************************************************************************)
EXTENDS Naturals

CONSTANTS Tags,        \* values of the tag
          Lines,       \* 512: number of lines
          LineWords,   \* 8: words per line
          Value        \* values of the byte lane

ASSUME CacheSizes == Lines \in Nat \ {0} /\ LineWords \in Nat /\ LineWords >= 2

VARIABLES tag_ram, valid_ram, dirty_ram, line_ram,  \* block RAM contents
          tag, valid, dirty, c_q, c_m_data_out,     \* their registered outputs
          c_m_addr, line_idx, line_valid,           \* progress of a fill or flush
          busy, flushing, updating, accessing,
          latched_address, fetch_address

cache_vars == <<tag_ram, valid_ram, dirty_ram, line_ram, tag, valid, dirty, c_q, c_m_data_out,
                c_m_addr, line_idx, line_valid, busy, flushing, updating, accessing,
                latched_address, fetch_address>>

Index == 0 .. Lines - 1
Offset == 0 .. LineWords - 1
Address == [tag : Tags, idx : Index, off : Offset]
LineSlot == Index \X Offset

SameLine(a, b) == a.tag = b.tag /\ a.idx = b.idx

NextOff(o) == IF o = LineWords - 1 THEN 0 ELSE o + 1

(* The block RAMs: what a port reads when the other port writes in the same *)
(* cycle is the value written (the bypass), whatever the byte enables.      *)
Bypass(ram, addr, other_addr, other_wr, other_data) ==
  IF addr = other_addr /\ other_wr THEN other_data ELSE ram[addr]

Write(ram, wr, addr, data) == IF wr THEN [ram EXCEPT ![addr] = data] ELSE ram

(* Mutant of hit: every word of the line being filled counts as present. *)
hit_early ==
  /\ accessing
  /\ \/ valid /\ tag = fetch_address.tag
     \/ busy /\ SameLine(fetch_address, latched_address)

hit ==
  /\ accessing
  /\ \/ valid /\ tag = fetch_address.tag
     \/ busy /\ SameLine(fetch_address, latched_address) /\ line_valid[fetch_address.off]

c_ack == accessing /\ ~flushing /\ hit

do_flush == updating /\ ~hit /\ ~busy /\ ~flushing /\ dirty
do_fill == updating /\ ~hit /\ ~busy /\ ~flushing /\ ~dirty

m_access(m_ack) == busy /\ ~m_ack
LastWord == line_idx = LineWords - 1

(* The FPGA's registers and RAMs power up cleared, there is no reset. *)
CacheInit(v) ==
  /\ tag \in Tags /\ tag_ram = [i \in Index |-> tag]
  /\ valid_ram = [i \in Index |-> FALSE] /\ valid = FALSE
  /\ dirty_ram = [i \in Index |-> FALSE] /\ dirty = FALSE
  /\ line_ram = [s \in LineSlot |-> v] /\ c_q = v /\ c_m_data_out = v
  /\ c_m_addr \in Address
  /\ latched_address = c_m_addr /\ fetch_address = c_m_addr
  /\ line_idx = 0
  /\ line_valid = [o \in Offset |-> FALSE]
  /\ busy = FALSE /\ flushing = FALSE /\ updating = FALSE /\ accessing = FALSE

(* TagRam and ValidRam: port a looks up c_addr, port b belongs to the fill  *)
(* and flush of latched_address.                                            *)
ClockTags(c_addr, m_ack) ==
  LET i == c_addr.idx
      j == latched_address.idx
      fill_done == ~flushing /\ LastWord /\ m_ack
      write_valid == do_flush \/ do_fill \/ fill_done
      now_valid == ~do_flush /\ ~flushing /\ LastWord
  IN  /\ tag_ram' = Write(tag_ram, do_fill, j, latched_address.tag)
      /\ tag' = Bypass(tag_ram, i, j, do_fill, latched_address.tag)
      /\ valid_ram' = Write(valid_ram, write_valid, j, now_valid)
      /\ valid' = Bypass(valid_ram, i, j, write_valid, now_valid)

(* Mutant of ClockDirty: a flush leaves the line dirty. *)
ClockDirtyStays(i, c_wr_en) ==
  /\ dirty_ram' = Write(dirty_ram, c_ack /\ c_wr_en, i, TRUE)
  /\ dirty' = dirty_ram[i]

(* Mutant of ClockDirty: a write into a line that is being filled does not *)
(* mark it.                                                                *)
ClockDirtyNotFilling(i, c_wr_en) ==
  LET j == latched_address.idx
  IN  /\ dirty_ram' = Write(Write(dirty_ram, do_flush, j, FALSE), c_ack /\ c_wr_en /\ ~busy, i, TRUE)
      /\ dirty' = Bypass(dirty_ram, i, j, do_flush, FALSE)

(* DirtyRam: port a marks a line that a hit writes to, port b clears the   *)
(* mark of one that is written back.                                       *)
ClockDirty(i, c_wr_en) ==
  LET j == latched_address.idx
  IN  /\ dirty_ram' = Write(Write(dirty_ram, do_flush, j, FALSE), c_ack /\ c_wr_en, i, TRUE)
      /\ dirty' = Bypass(dirty_ram, i, j, do_flush, FALSE)

(* Mutant of line_address: the flush does not fetch the next word ahead. *)
line_address_late(m_ack) == <<latched_address.idx, c_m_addr.off>>

(* The word that port b of the line RAM works on. *)
line_address(m_ack) ==
  <<latched_address.idx,
    IF m_ack /\ flushing THEN NextOff(c_m_addr.off)
    ELSE IF ~hit /\ ~flushing /\ ~busy /\ dirty THEN 0
    ELSE c_m_addr.off>>

ClockLines(c_addr, c_wr_en, be, c_data_out, m_ack, m_data_in) ==
  LET a == <<c_addr.idx, c_addr.off>>
      b == line_address(m_ack)
      wr_a == c_ack /\ c_wr_en
      wr_b == m_ack /\ ~flushing
  IN  /\ line_ram' = Write(Write(line_ram, wr_b, b, m_data_in), wr_a /\ be, a, c_data_out)
      /\ c_q' = Bypass(line_ram, a, b, wr_b, m_data_in)
      /\ c_m_data_out' = Bypass(line_ram, b, a, wr_a, c_data_out)

(* A lookup may start a fill or flush only when none is going on; a flush  *)
(* is followed by the fill it made room for.                               *)
ClockUpdating(c_access) ==
  updating' = IF updating /\ ~(do_flush \/ flushing) THEN FALSE
              ELSE updating \/ (~busy /\ ~flushing /\ c_access)

(* Word by word progress, then flush_line or fill_line. *)
ClockTransfer(c_addr, m_ack) ==
  \/ /\ m_ack
     /\ c_m_addr' = [c_m_addr EXCEPT !.off = NextOff(c_m_addr.off)]
     /\ line_idx' = NextOff(line_idx)
     /\ line_valid' = IF flushing THEN line_valid ELSE [line_valid EXCEPT ![c_m_addr.off] = TRUE]
     /\ busy' = (busy /\ ~LastWord)
     /\ flushing' = (flushing /\ ~LastWord)
  \/ /\ ~m_ack /\ do_flush
     /\ c_m_addr' = [tag |-> tag, idx |-> latched_address.idx, off |-> 0]
     /\ busy' = TRUE
     /\ flushing' = TRUE
     /\ UNCHANGED <<line_idx, line_valid>>
  \/ /\ ~m_ack /\ do_fill
     /\ c_m_addr' = c_addr
     /\ busy' = TRUE
     /\ line_valid' = [o \in Offset |-> FALSE]
     /\ UNCHANGED <<line_idx, flushing>>
  \/ /\ ~m_ack /\ ~do_flush /\ ~do_fill
     /\ UNCHANGED <<c_m_addr, line_idx, line_valid, busy, flushing>>

ClockLatch(c_access, c_addr) ==
  /\ accessing' = c_access
  /\ latched_address' = IF ~busy /\ ~flushing THEN c_addr ELSE latched_address
  /\ fetch_address' = c_addr

CacheClock(c_access, c_addr, c_wr_en, be, c_data_out, m_ack, m_data_in) ==
  /\ ClockTags(c_addr, m_ack)
  /\ ClockDirty(c_addr.idx, c_wr_en)
  /\ ClockLines(c_addr, c_wr_en, be, c_data_out, m_ack, m_data_in)
  /\ ClockUpdating(c_access)
  /\ ClockTransfer(c_addr, m_ack)
  /\ ClockLatch(c_access, c_addr)
=============================================================================
