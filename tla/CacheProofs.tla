---------------------------- MODULE CacheProofs -----------------------------
(***************************************************************************)
(* The cache is invisible to the CPU, for every number of lines and tags,  *)
(* every line size, every memory latency and every sequence of requests.   *)
(* The proofs are about Spec: the CPU is not reset while it has a request. *)
(***************************************************************************)
EXTENDS CachedMemory, TLAPS

Slot(a) == <<a.idx, a.off>>
Filling == busy /\ ~flushing

TypeInv ==
  /\ tag_ram \in [Index -> Tags] /\ valid_ram \in [Index -> BOOLEAN]
  /\ dirty_ram \in [Index -> BOOLEAN]
  /\ line_ram \in [LineSlot -> Value] /\ memory \in [Address -> Value]
  /\ c_m_addr \in Address /\ latched_address \in Address /\ fetch_address \in Address
  /\ bus_addr \in Address /\ tracked \in Address
  /\ line_idx \in Offset /\ line_valid \in [Offset -> BOOLEAN]
  /\ busy \in BOOLEAN /\ flushing \in BOOLEAN /\ updating \in BOOLEAN
  /\ accessing \in BOOLEAN /\ pending \in BOOLEAN
  /\ valid \in BOOLEAN /\ dirty \in BOOLEAN
  /\ request \in Requests \cup {Idle}
  /\ c_m_data_out \in Value

(* The registered outputs of the RAMs show the line of the request on the  *)
(* bus, which has not moved since the lookup.                              *)
LookupInv ==
  /\ tag = tag_ram[fetch_address.idx]
  /\ valid = valid_ram[fetch_address.idx]
  /\ accessing => /\ request # Idle /\ fetch_address = bus_addr
                  /\ dirty = dirty_ram[bus_addr.idx]
                  /\ c_q = line_ram[Slot(bus_addr)]
  /\ updating => accessing /\ latched_address = fetch_address

(* How far behind the word in transfer word o was transferred. *)
Behind(o) == IF o < c_m_addr.off THEN c_m_addr.off - o ELSE c_m_addr.off + LineWords - o

(* The line in transfer belongs to nobody else: it is neither valid nor,   *)
(* while it is written back, dirty.  A write-back has put the words before *)
(* line_idx into memory and holds the next one at the pins; a fill has     *)
(* marked the line_idx words before the one it waits for.                  *)
TransferInv ==
  /\ pending => busy
  /\ ~busy => line_idx = 0 /\ ~flushing
  /\ busy => c_m_addr.idx = latched_address.idx /\ ~valid_ram[latched_address.idx]
             /\ c_m_addr.tag = tag_ram[latched_address.idx]
  /\ flushing => /\ updating /\ ~dirty_ram[latched_address.idx]
                 /\ c_m_addr.off = line_idx
                 /\ c_m_data_out = line_ram[Slot(c_m_addr)]
  /\ Filling => /\ ~updating /\ c_m_addr.tag = latched_address.tag
                /\ \A o \in Offset : line_valid[o] <=> Behind(o) <= line_idx

(* The word at a is in the cache. *)
InCache(a) ==
  /\ tag_ram[a.idx] = a.tag
  /\ \/ valid_ram[a.idx]
     \/ flushing /\ a.idx = latched_address.idx
     \/ Filling /\ a.idx = latched_address.idx /\ line_valid[a.off]

(* A dirty line is valid or being filled; a word in the cache differs from *)
(* memory only in a dirty line, or while its write-back is under way.      *)
DirtyInv ==
  /\ \A i \in Index : dirty_ram[i] => valid_ram[i] \/ (Filling /\ i = latched_address.idx)
  /\ \A a \in Address :
       InCache(a) /\ ~dirty_ram[a.idx]
         /\ (flushing /\ a.idx = latched_address.idx => a.off < line_idx)
         => line_ram[Slot(a)] = memory[a]

(* What the system of cache and memory holds at a. *)
Current(a) == IF InCache(a) THEN line_ram[Slot(a)] ELSE memory[a]

CacheInv ==
  /\ TypeInv /\ LookupInv /\ TransferInv /\ DirtyInv
  /\ Current(tracked) \in expected

-----------------------------------------------------------------------------
USE DEF Index, Offset, LineSlot, Address

LEMMA NextOffType ==
  ASSUME NEW o \in Offset
  PROVE  NextOff(o) \in Offset
  BY CacheSizes DEF NextOff

LEMMA RequestTypes ==
  /\ \A r \in Requests : r # Idle => r.kind \in {"read", "write"}
  /\ \A r \in Requests : r.kind = "write" => r.value \in Value /\ r.be \in BOOLEAN
  /\ Idle.kind # "write"
  BY ValueAssumption DEF Requests, Idle

LEMMA InitInv == Init => CacheInv
<1> SUFFICES ASSUME Init PROVE CacheInv
  OBVIOUS
<1> USE CacheSizes, TrackedAssumption, ValueAssumption DEF Init, CacheInit
<1>1. TypeInv
  <2>1. /\ tag_ram \in [Index -> Tags] /\ valid_ram \in [Index -> BOOLEAN]
        /\ dirty_ram \in [Index -> BOOLEAN] /\ line_valid \in [Offset -> BOOLEAN]
        /\ line_idx \in Offset
    OBVIOUS
  <2>2. line_ram \in [LineSlot -> Value] /\ c_m_data_out \in Value
    OBVIOUS
  <2>3. memory \in [Address -> Value]
    <3>1. (CHOOSE v \in Fresh : TRUE) \in Value
      OBVIOUS
    <3>2. Other \in Value
      OBVIOUS
    <3> HIDE DEF Address
    <3> QED BY <3>1, <3>2
  <2>4. /\ c_m_addr \in Address /\ latched_address \in Address /\ fetch_address \in Address
        /\ bus_addr \in Address /\ tracked \in Address
    OBVIOUS
  <2> QED BY <2>1, <2>2, <2>3, <2>4 DEF TypeInv
<1>2. LookupInv
  BY DEF LookupInv
<1>3. TransferInv
  BY DEF TransferInv, Filling
<1>4. DirtyInv /\ Current(tracked) \in expected
  BY DEF DirtyInv, Current, InCache, Filling
<1> QED BY <1>1, <1>2, <1>3, <1>4 DEF CacheInv

(* A word that is acknowledged is in the cache. *)
LEMMA AckInCache ==
  ASSUME CacheInv, c_ack
  PROVE  /\ accessing /\ ~flushing /\ request # Idle
         /\ fetch_address = bus_addr /\ InCache(bus_addr)
         /\ c_q = line_ram[Slot(bus_addr)]
<1> USE DEF CacheInv
<1>1. accessing /\ ~flushing /\ hit
  BY DEF c_ack
<1>2. /\ request # Idle /\ fetch_address = bus_addr /\ c_q = line_ram[Slot(bus_addr)]
      /\ tag = tag_ram[bus_addr.idx] /\ valid = valid_ram[bus_addr.idx]
  BY <1>1 DEF LookupInv
<1>3. CASE valid /\ tag = fetch_address.tag
  BY <1>1, <1>2, <1>3 DEF InCache
<1>4. CASE busy /\ SameLine(fetch_address, latched_address) /\ line_valid[fetch_address.off]
  BY <1>1, <1>2, <1>4 DEF InCache, SameLine, TransferInv, Filling
<1> QED BY <1>1, <1>2, <1>3, <1>4 DEF hit

(* What one clock cycle does to each word of the RAMs and of memory. *)
LEMMA RamStep ==
  ASSUME TypeInv, NEW m_ack \in BOOLEAN,
         ClockMemory(m_ack), ClockCache(m_ack)
  PROVE  LET j == latched_address.idx
             fill_done == ~flushing /\ LastWord /\ m_ack
             now_valid == ~do_flush /\ ~flushing /\ LastWord
             wr == c_ack /\ c_wr_en
         IN  /\ tag_ram' \in [Index -> Tags]
             /\ valid_ram' \in [Index -> BOOLEAN]
             /\ dirty_ram' \in [Index -> BOOLEAN]
             /\ line_ram' \in [LineSlot -> Value]
             /\ memory' \in [Address -> Value]
             /\ line_address(m_ack) \in LineSlot
             /\ \A k \in Index :
                  /\ tag_ram'[k] = IF do_fill /\ k = j THEN latched_address.tag ELSE tag_ram[k]
                  /\ valid_ram'[k] = IF (do_flush \/ do_fill \/ fill_done) /\ k = j
                                    THEN now_valid ELSE valid_ram[k]
                  /\ dirty_ram'[k] = IF wr /\ k = bus_addr.idx THEN TRUE
                                    ELSE IF do_flush /\ k = j THEN FALSE ELSE dirty_ram[k]
             /\ \A s \in LineSlot :
                  line_ram'[s] = IF wr /\ request.be /\ s = Slot(bus_addr) THEN request.value
                                 ELSE IF m_ack /\ ~flushing /\ s = line_address(m_ack)
                                 THEN memory[c_m_addr] ELSE line_ram[s]
             /\ \A a \in Address :
                  memory'[a] = IF m_ack /\ flushing /\ a = c_m_addr
                               THEN c_m_data_out ELSE memory[a]
<1> DEFINE j == latched_address.idx
           now_valid == ~do_flush /\ ~flushing /\ LastWord
           fill_done == ~flushing /\ LastWord /\ m_ack
           wr == c_ack /\ c_wr_en
<1>1. /\ j \in Index /\ latched_address.tag \in Tags /\ bus_addr.idx \in Index
      /\ now_valid \in BOOLEAN /\ Slot(bus_addr) \in LineSlot /\ c_m_addr.off \in Offset
      /\ memory[c_m_addr] \in Value
  BY DEF TypeInv, Slot
<1>2. /\ tag_ram' = Write(tag_ram, do_fill, j, latched_address.tag)
      /\ valid_ram' = Write(valid_ram, do_flush \/ do_fill \/ fill_done, j, now_valid)
      /\ dirty_ram' = Write(Write(dirty_ram, do_flush, j, FALSE), wr, bus_addr.idx, TRUE)
  BY DEF ClockCache, CacheClock, ClockTags, ClockDirty
<1>3. line_address(m_ack) \in LineSlot
  <2>1. NextOff(c_m_addr.off) \in Offset /\ 0 \in Offset
    BY <1>1, NextOffType, CacheSizes
  <2> QED BY <1>1, <2>1 DEF line_address
<1>4. tag_ram' \in [Index -> Tags] /\ \A k \in Index :
        tag_ram'[k] = IF do_fill /\ k = j THEN latched_address.tag ELSE tag_ram[k]
  BY <1>1, <1>2 DEF TypeInv, Write
<1>5. valid_ram' \in [Index -> BOOLEAN] /\ \A k \in Index :
        valid_ram'[k] = IF (do_flush \/ do_fill \/ fill_done) /\ k = j
                        THEN now_valid ELSE valid_ram[k]
  <2> HIDE DEF now_valid, fill_done
  <2> QED BY <1>1, <1>2 DEF TypeInv, Write
<1>6. dirty_ram' \in [Index -> BOOLEAN] /\ \A k \in Index :
        dirty_ram'[k] = IF wr /\ k = bus_addr.idx THEN TRUE
                        ELSE IF do_flush /\ k = j THEN FALSE ELSE dirty_ram[k]
  <2> HIDE DEF wr
  <2> DEFINE d == Write(dirty_ram, do_flush, j, FALSE)
  <2>1. d \in [Index -> BOOLEAN] /\ \A k \in Index :
          d[k] = IF do_flush /\ k = j THEN FALSE ELSE dirty_ram[k]
    BY <1>1 DEF TypeInv, Write
  <2>2. dirty_ram' = Write(d, wr, bus_addr.idx, TRUE)
    BY <1>2
  <2> HIDE DEF d
  <2> QED BY <1>1, <2>1, <2>2 DEF Write
<1>7. line_ram' \in [LineSlot -> Value] /\ \A s \in LineSlot :
        line_ram'[s] = IF wr /\ request.be /\ s = Slot(bus_addr) THEN request.value
                       ELSE IF m_ack /\ ~flushing /\ s = line_address(m_ack)
                       THEN memory[c_m_addr] ELSE line_ram[s]
  <2> DEFINE l == Write(line_ram, m_ack /\ ~flushing, line_address(m_ack), memory[c_m_addr])
             v == IF c_wr_en THEN request.value ELSE Other
  <2>1. l \in [LineSlot -> Value] /\ \A s \in LineSlot :
          l[s] = IF m_ack /\ ~flushing /\ s = line_address(m_ack)
                 THEN memory[c_m_addr] ELSE line_ram[s]
    <3> HIDE DEF LineSlot
    <3> QED BY <1>1, <1>3 DEF TypeInv, Write
  <2>2. line_ram' = Write(l, wr /\ (c_wr_en /\ request.be), Slot(bus_addr), v)
    BY DEF ClockCache, CacheClock, ClockLines, Slot
  <2>3. v \in Value /\ (wr => v = request.value)
    BY RequestTypes, ValueAssumption DEF TypeInv, c_wr_en
  <2> HIDE DEF l, v, LineSlot
  <2>4. line_ram' \in [LineSlot -> Value] /\ \A s \in LineSlot :
          line_ram'[s] = IF (wr /\ (c_wr_en /\ request.be)) /\ s = Slot(bus_addr) THEN v ELSE l[s]
    BY <1>1, <2>1, <2>2, <2>3 DEF Write
  <2> QED BY <2>1, <2>3, <2>4
<1>8. memory' \in [Address -> Value] /\ \A a \in Address :
        memory'[a] = IF m_ack /\ flushing /\ a = c_m_addr THEN c_m_data_out ELSE memory[a]
  <2> HIDE DEF Address
  <2> QED BY DEF ClockMemory, TypeInv
<1> HIDE DEF LineSlot, Address
<1> QED BY <1>3, <1>4, <1>5, <1>6, <1>7, <1>8
(* A transfer is started only between transfers, for the request whose     *)
(* lookup missed; the line it evicts is valid when it is dirty.            *)
LEMMA StartFacts ==
  ASSUME CacheInv, do_flush \/ do_fill
  PROVE  /\ ~busy /\ ~flushing /\ ~pending /\ ~c_ack /\ ~hit /\ line_idx = 0
         /\ updating /\ accessing /\ request # Idle
         /\ latched_address = bus_addr /\ fetch_address = bus_addr
         /\ tag = tag_ram[bus_addr.idx] /\ dirty = dirty_ram[bus_addr.idx]
         /\ do_flush <=> dirty
         /\ do_fill <=> ~dirty
         /\ dirty => valid_ram[bus_addr.idx]
<1> USE DEF CacheInv, do_flush, do_fill
<1>1. ~busy /\ ~flushing /\ ~c_ack /\ ~hit /\ updating
  BY DEF c_ack
<1>2. ~pending /\ line_idx = 0
  BY <1>1 DEF TransferInv
<1>3. /\ accessing /\ request # Idle /\ latched_address = bus_addr /\ fetch_address = bus_addr
      /\ tag = tag_ram[bus_addr.idx] /\ dirty = dirty_ram[bus_addr.idx]
  BY <1>1 DEF LookupInv
<1>4. do_flush <=> dirty
  BY <1>1
<1>5. do_fill <=> ~dirty
  BY <1>1
<1>6. dirty => valid_ram[bus_addr.idx]
  <2>1. bus_addr.idx \in Index
    BY DEF TypeInv
  <2> QED BY <1>1, <1>3, <2>1 DEF DirtyInv, Filling
<1> QED BY <1>1, <1>2, <1>3, <1>4, <1>5, <1>6

LEMMA AckBusy ==
  ASSUME CacheInv, NEW m_ack \in BOOLEAN, ClockMemory(m_ack), m_ack
  PROVE  busy /\ ~do_flush /\ ~do_fill
BY DEF CacheInv, TransferInv, ClockMemory, do_flush, do_fill

LEMMA TypeStep ==
  ASSUME CacheInv, NEW m_ack \in BOOLEAN, ClockMemory(m_ack), ClockCache(m_ack), ClockMaster
  PROVE  TypeInv'
<1> USE DEF CacheInv
<1>0. TypeInv
  OBVIOUS
<1>1. /\ tag_ram' \in [Index -> Tags] /\ valid_ram' \in [Index -> BOOLEAN]
      /\ dirty_ram' \in [Index -> BOOLEAN]
      /\ line_ram' \in [LineSlot -> Value] /\ memory' \in [Address -> Value]
  BY <1>0, RamStep
<1>2. bus_addr' \in Address /\ tracked' \in Address /\ request' \in Requests \cup {Idle}
  BY <1>0 DEF ClockMaster, TypeInv
<1>3. latched_address' \in Address /\ fetch_address' \in Address /\ accessing' \in BOOLEAN
  BY <1>0 DEF ClockCache, CacheClock, ClockLatch, TypeInv, c_access, c_ack
<1>4. /\ c_m_addr' \in Address /\ line_idx' \in Offset
      /\ line_valid' \in [Offset -> BOOLEAN] /\ busy' \in BOOLEAN /\ flushing' \in BOOLEAN
  <2>1. ClockTransfer(bus_addr, m_ack)
    BY DEF ClockCache, CacheClock
  <2>2. CASE m_ack
    <3>1. NextOff(c_m_addr.off) \in Offset /\ NextOff(line_idx) \in Offset
      BY <1>0, NextOffType DEF TypeInv
    <3> QED BY <1>0, <2>1, <2>2, <3>1 DEF ClockTransfer, TypeInv
  <2>3. CASE ~m_ack /\ do_flush
    <3>1. tag \in Tags /\ 0 \in Offset
      BY <1>0, <2>3, StartFacts, CacheSizes DEF TypeInv
    <3> QED BY <1>0, <2>1, <2>3, <3>1 DEF ClockTransfer, TypeInv, do_flush, do_fill
  <2>4. CASE ~m_ack /\ ~do_flush
    BY <1>0, <2>1, <2>4 DEF ClockTransfer, TypeInv
  <2> QED BY <2>2, <2>3, <2>4
<1>5. pending' \in BOOLEAN /\ updating' \in BOOLEAN
  BY <1>0 DEF ClockMemory, m_access, ClockCache, CacheClock, ClockUpdating, TypeInv, c_access, c_ack
<1>6. valid' \in BOOLEAN /\ dirty' \in BOOLEAN
  BY <1>0 DEF ClockCache, CacheClock, ClockTags, ClockDirty, Bypass, TypeInv
<1>7. c_m_data_out' \in Value
  <2>1. line_address(m_ack) \in LineSlot
    BY <1>0, RamStep
  <2>2. c_wr_en => request.value \in Value
    BY <1>0, RequestTypes DEF TypeInv, c_wr_en
  <2> QED BY <1>0, <2>1, <2>2 DEF ClockCache, CacheClock, ClockLines, Bypass, TypeInv
<1> QED BY <1>1, <1>2, <1>3, <1>4, <1>5, <1>6, <1>7 DEF TypeInv

(* The request stays on the bus, and no word changes, between its lookup   *)
(* and its acknowledgement other than those the RAMs' bypass shows.        *)
LEMMA LookupStep ==
  ASSUME CacheInv, NEW m_ack \in BOOLEAN, ClockMemory(m_ack), ClockCache(m_ack), ClockMaster
  PROVE  LookupInv'
<1> USE DEF CacheInv
<1>0. TypeInv /\ bus_addr.idx \in Index /\ Slot(bus_addr) \in LineSlot
  BY DEF TypeInv, Slot
<1>1. fetch_address' = bus_addr /\ accessing' = c_access
  BY DEF ClockCache, CacheClock, ClockLatch
<1>2. tag' = tag_ram'[bus_addr.idx] /\ valid' = valid_ram'[bus_addr.idx]
  BY <1>0, RamStep DEF ClockCache, CacheClock, ClockTags, Bypass
<1>3. ASSUME c_access
      PROVE  /\ request' # Idle /\ bus_addr' = bus_addr
             /\ dirty' = dirty_ram'[bus_addr.idx]
             /\ c_q' = line_ram'[Slot(bus_addr)]
  <2>1. request # Idle /\ ~c_ack
    BY <1>3 DEF c_access
  <2>2. request' # Idle /\ bus_addr' = bus_addr
    BY <1>3, <2>1 DEF ClockMaster
  <2>3. dirty' = dirty_ram'[bus_addr.idx]
    BY <1>0, <2>1, RamStep DEF ClockCache, CacheClock, ClockDirty, Bypass
  <2>4. c_q' = line_ram'[Slot(bus_addr)]
    BY <1>0, <2>1, RamStep DEF ClockCache, CacheClock, ClockLines, Bypass, Slot
  <2> QED BY <2>2, <2>3, <2>4
<1>4. ASSUME updating' PROVE accessing' /\ latched_address' = fetch_address'
  <2>1. updating' = IF updating /\ ~(do_flush \/ flushing) THEN FALSE
                    ELSE updating \/ (~busy /\ ~flushing /\ c_access)
    BY DEF ClockCache, CacheClock, ClockUpdating
  <2>2. latched_address' = IF ~busy /\ ~flushing THEN bus_addr ELSE latched_address
    BY DEF ClockCache, CacheClock, ClockLatch
  <2>3. CASE updating
    <3>1. do_flush \/ flushing
      BY <1>4, <2>1, <2>3
    <3>2. ~c_ack /\ c_access /\ latched_address = bus_addr
      BY <2>3, <3>1 DEF LookupInv, c_ack, c_access, do_flush
    <3> QED BY <1>1, <2>2, <3>2
  <2>4. CASE ~updating
    BY <1>1, <1>4, <2>1, <2>2, <2>4
  <2> QED BY <2>3, <2>4
<1> QED BY <1>1, <1>2, <1>3, <1>4 DEF LookupInv, Slot
LEMMA SameAddress ==
  ASSUME NEW a \in Address, NEW b \in Address
  PROVE  /\ Slot(a) = Slot(b) <=> a.idx = b.idx /\ a.off = b.off
         /\ a.tag = b.tag /\ Slot(a) = Slot(b) => a = b
         /\ Slot(a) \in LineSlot
BY DEF Slot

(* When the fill moves on, the words behind it are those that were behind  *)
(* it and the one it leaves; after a whole line that is every word.        *)
LEMMA BehindStep ==
  ASSUME NEW c \in Offset, NEW o \in Offset, NEW n \in Offset
  PROVE  LET B(x) == IF o < x THEN x - o ELSE x + LineWords - o
         IN  /\ n # LineWords - 1 => (B(NextOff(c)) <= n + 1 <=> o = c \/ B(c) <= n)
             /\ n = LineWords - 1 => o = c \/ B(c) <= n
             /\ ~ (B(c) <= 0)
             /\ ~ (B(o) <= n)
BY CacheSizes DEF NextOff

(* The word that a fill waits for is not in the cache. *)
LEMMA AwaitedWord ==
  ASSUME CacheInv, Filling
  PROVE  ~InCache(c_m_addr) /\ ~line_valid[c_m_addr.off]
<1> USE DEF CacheInv
<1>1. /\ c_m_addr.off \in Offset /\ line_idx \in Offset /\ c_m_addr.idx = latched_address.idx
      /\ ~valid_ram[latched_address.idx] /\ ~flushing
  BY DEF TypeInv, TransferInv, Filling
<1>2. ~line_valid[c_m_addr.off]
  BY <1>1, BehindStep DEF TransferInv, Behind
<1> QED BY <1>1, <1>2 DEF InCache

LEMMA TransferStep ==
  ASSUME CacheInv, NEW m_ack \in BOOLEAN, ClockMemory(m_ack), ClockCache(m_ack), ClockMaster
  PROVE  TransferInv'
<1> USE DEF CacheInv
<1> DEFINE j == latched_address.idx
<1>0. /\ TypeInv /\ j \in Index /\ j = latched_address.idx /\ TransferInv
      /\ c_m_addr.off \in Offset /\ line_idx \in Offset
  BY DEF TypeInv
<1>1. /\ ClockTransfer(bus_addr, m_ack)
      /\ latched_address' = IF ~busy /\ ~flushing THEN bus_addr ELSE latched_address
      /\ updating' = IF updating /\ ~(do_flush \/ flushing) THEN FALSE
                     ELSE updating \/ (~busy /\ ~flushing /\ c_access)
      /\ pending' = (busy /\ ~m_ack)
      /\ c_m_data_out' = Bypass(line_ram, line_address(m_ack), Slot(bus_addr), c_ack /\ c_wr_en,
                                IF c_wr_en THEN request.value ELSE Other)
  BY DEF ClockCache, CacheClock, ClockLatch, ClockUpdating, ClockLines, ClockMemory, m_access, Slot
<1>2. CASE do_flush
  <2>1. /\ ~busy /\ ~flushing /\ ~m_ack /\ ~c_ack /\ ~hit /\ updating /\ dirty /\ line_idx = 0
        /\ latched_address = bus_addr /\ tag = tag_ram[j] /\ ~do_fill
    BY <1>2, StartFacts, AckBusy
  <2>2. /\ c_m_addr' = [tag |-> tag, idx |-> j, off |-> 0] /\ busy' = TRUE /\ flushing' = TRUE
        /\ line_idx' = 0 /\ latched_address' = latched_address /\ pending' = FALSE
    BY <1>1, <1>2, <2>1 DEF ClockTransfer
  <2>3. tag_ram'[j] = tag_ram[j] /\ ~valid_ram'[j] /\ ~dirty_ram'[j]
    BY <1>0, <1>2, <2>1, RamStep
  <2>4. updating'
    BY <1>1, <1>2, <2>1
  <2>5. c_m_data_out' = line_ram'[Slot(c_m_addr)']
    <3>1. line_address(m_ack) = <<j, 0>> /\ <<j, 0>> \in LineSlot
      BY <1>0, <2>1, CacheSizes DEF line_address
    <3>2. c_m_data_out' = line_ram[<<j, 0>>]
      BY <1>1, <2>1, <3>1 DEF Bypass
    <3>3. line_ram'[<<j, 0>>] = line_ram[<<j, 0>>]
      BY <1>0, <2>1, <3>1, RamStep
    <3> QED BY <2>2, <3>2, <3>3 DEF Slot
  <2> QED BY <2>1, <2>2, <2>3, <2>4, <2>5 DEF TransferInv, Filling
<1>3. CASE do_fill
  <2>1. /\ ~busy /\ ~flushing /\ ~m_ack /\ ~c_ack /\ updating /\ line_idx = 0
        /\ latched_address = bus_addr /\ ~do_flush
    BY <1>3, StartFacts, AckBusy
  <2>2. /\ c_m_addr' = bus_addr /\ busy' = TRUE /\ flushing' = FALSE
        /\ line_valid' = [o \in Offset |-> FALSE]
        /\ line_idx' = 0 /\ latched_address' = latched_address /\ pending' = FALSE
    BY <1>0, <1>1, <1>3, <2>1 DEF ClockTransfer, TypeInv
  <2>3. tag_ram'[j] = latched_address.tag /\ ~valid_ram'[j]
    BY <1>0, <1>3, <2>1, RamStep, CacheSizes DEF LastWord
  <2>4. ~updating'
    BY <1>1, <2>1
  <2>5. \A o \in Offset : line_valid'[o] <=> Behind(o)' <= line_idx'
    <3>1. bus_addr.off \in Offset
      BY <1>0 DEF TypeInv
    <3> QED BY <1>0, <2>2, <3>1, BehindStep DEF Behind
  <2> QED BY <2>1, <2>2, <2>3, <2>4, <2>5 DEF TransferInv, Filling
<1>4. CASE ~m_ack /\ ~do_flush /\ ~do_fill
  <2>1. UNCHANGED <<c_m_addr, line_idx, line_valid, busy, flushing>> /\ pending' = busy
    BY <1>0, <1>1, <1>4 DEF ClockTransfer, TypeInv
  <2>2. CASE ~busy
    BY <1>0, <2>1, <2>2 DEF TransferInv, Filling
  <2>3. CASE busy
    <3>1. latched_address' = latched_address /\ (updating' <=> flushing)
      BY <1>0, <1>1, <1>4, <2>3 DEF TransferInv, Filling
    <3>2. tag_ram'[j] = tag_ram[j] /\ valid_ram'[j] = valid_ram[j]
      BY <1>0, <1>4, RamStep
    <3>3. ASSUME flushing PROVE ~dirty_ram'[j] /\ c_m_data_out' = line_ram'[Slot(c_m_addr)]
      <4>1. ~c_ack /\ ~dirty_ram[j] /\ c_m_data_out = line_ram[Slot(c_m_addr)]
        BY <1>0, <3>3 DEF c_ack, TransferInv
      <4>2. ~dirty_ram'[j]
        BY <1>0, <1>4, <4>1, RamStep
      <4>3. line_address(m_ack) = Slot(c_m_addr) /\ Slot(c_m_addr) \in LineSlot
        BY <1>0, <1>4, <2>3, SameAddress DEF line_address, TransferInv, Slot, TypeInv
      <4>4. c_m_data_out' = line_ram[Slot(c_m_addr)]
        BY <1>1, <4>1, <4>3 DEF Bypass
      <4>5. line_ram'[Slot(c_m_addr)] = line_ram[Slot(c_m_addr)]
        BY <1>0, <1>4, <4>1, <4>3, RamStep
      <4> QED BY <4>2, <4>4, <4>5
    <3> QED BY <1>0, <2>1, <2>3, <3>1, <3>2, <3>3 DEF TransferInv, Filling, Slot, Behind
  <2> QED BY <2>2, <2>3
<1>5. CASE m_ack
  <2>1. /\ busy /\ ~do_flush /\ ~do_fill /\ latched_address' = latched_address
        /\ c_m_addr.idx = j /\ c_m_addr.tag = tag_ram[j] /\ ~valid_ram[j] /\ pending' = FALSE
        /\ c_m_addr' = [c_m_addr EXCEPT !.off = NextOff(c_m_addr.off)]
        /\ line_idx' = NextOff(line_idx)
        /\ line_valid' = IF flushing THEN line_valid ELSE [line_valid EXCEPT ![c_m_addr.off] = TRUE]
        /\ busy' = (busy /\ ~LastWord)
        /\ flushing' = (flushing /\ ~LastWord)
    BY <1>0, <1>1, <1>5, AckBusy DEF ClockTransfer, TransferInv
  <2>2. CASE LastWord
    BY <1>0, <2>1, <2>2 DEF TransferInv, Filling, LastWord, NextOff
  <2>3. CASE ~LastWord
    <3>1. line_idx' = line_idx + 1 /\ line_idx # LineWords - 1
      BY <2>1, <2>3 DEF LastWord, NextOff
    <3>2. tag_ram'[j] = tag_ram[j] /\ valid_ram'[j] = valid_ram[j]
      BY <1>0, <2>1, <2>3, RamStep
    <3>3. /\ c_m_addr'.idx = c_m_addr.idx /\ c_m_addr'.tag = c_m_addr.tag
          /\ c_m_addr'.off = NextOff(c_m_addr.off) /\ NextOff(c_m_addr.off) \in Offset
      BY <1>0, <2>1, NextOffType DEF TypeInv
    <3>4. updating' <=> flushing
      BY <1>0, <1>1, <2>1 DEF TransferInv, Filling
    <3>5. CASE flushing
      <4>1. ~c_ack /\ ~dirty_ram[j] /\ c_m_addr.off = line_idx
        BY <1>0, <3>5 DEF c_ack, TransferInv
      <4>2. ~dirty_ram'[j]
        BY <1>0, <2>1, <4>1, RamStep
      <4>3. line_address(m_ack) = Slot(c_m_addr)' /\ Slot(c_m_addr)' \in LineSlot
        BY <1>0, <1>5, <2>1, <3>3, <3>5 DEF line_address, Slot
      <4>4. c_m_data_out' = line_ram[Slot(c_m_addr)']
        BY <1>1, <4>1, <4>3 DEF Bypass
      <4>5. line_ram'[Slot(c_m_addr)'] = line_ram[Slot(c_m_addr)']
        BY <1>0, <3>5, <4>1, <4>3, RamStep
      <4>6. c_m_addr'.off = line_idx'
        BY <3>1, <3>3, <4>1 DEF NextOff
      <4> QED BY <2>1, <2>3, <3>2, <3>3, <3>4, <3>5, <4>2, <4>4, <4>5, <4>6 DEF TransferInv, Filling
    <3>6. CASE ~flushing
      <4>1. \A o \in Offset : line_valid[o] <=> Behind(o) <= line_idx
        BY <1>0, <2>1, <3>6 DEF TransferInv, Filling
      <4>2. line_valid \in [Offset -> BOOLEAN]
        BY <1>0 DEF TypeInv
      <4>3. ASSUME NEW o \in Offset PROVE line_valid'[o] <=> Behind(o)' <= line_idx'
        <5>1. line_valid'[o] <=> o = c_m_addr.off \/ line_valid[o]
          BY <1>0, <2>1, <3>6, <4>2
        <5>2. Behind(o)' <= line_idx + 1 <=> o = c_m_addr.off \/ Behind(o) <= line_idx
          BY <1>0, <3>1, <3>3, BehindStep DEF Behind
        <5> QED BY <3>1, <4>1, <5>1, <5>2
      <4>4. c_m_addr'.tag = latched_address.tag
        BY <1>0, <2>1, <3>3, <3>6 DEF TransferInv, Filling
      <4> QED BY <2>1, <2>3, <3>2, <3>3, <3>4, <3>6, <4>3, <4>4 DEF TransferInv, Filling
    <3> QED BY <3>5, <3>6
  <2> QED BY <2>2, <2>3
<1> QED BY <1>2, <1>3, <1>4, <1>5
(* Which words are in the cache after a cycle: a fill that starts and a    *)
(* write-back that ends give up their line, a word that arrives is added.  *)
LEMMA InCacheStep ==
  ASSUME CacheInv, NEW m_ack \in BOOLEAN, ClockMemory(m_ack), ClockCache(m_ack), ClockMaster,
         NEW a \in Address
  PROVE  InCache(a)' <=>
           \/ InCache(a) /\ ~(a.idx = latched_address.idx
                              /\ (do_fill \/ (flushing /\ m_ack /\ LastWord)))
           \/ Filling /\ m_ack /\ a = c_m_addr
<1> USE DEF CacheInv
<1> DEFINE j == latched_address.idx
<1>0. /\ TypeInv /\ j \in Index /\ j = latched_address.idx /\ TransferInv
      /\ c_m_addr.off \in Offset /\ line_idx \in Offset
      /\ a.idx \in Index /\ a.off \in Offset /\ line_valid \in [Offset -> BOOLEAN]
  BY DEF TypeInv
<1>1. /\ ClockTransfer(bus_addr, m_ack)
      /\ latched_address' = IF ~busy /\ ~flushing THEN bus_addr ELSE latched_address
  BY DEF ClockCache, CacheClock, ClockLatch
<1>2. CASE do_flush
  <2>1. /\ ~busy /\ ~flushing /\ ~m_ack /\ latched_address = bus_addr /\ valid_ram[j] /\ ~do_fill
    BY <1>2, StartFacts, AckBusy
  <2>2. busy' = TRUE /\ flushing' = TRUE /\ latched_address' = latched_address
    BY <1>1, <1>2, <2>1 DEF ClockTransfer
  <2>3. tag_ram'[a.idx] = tag_ram[a.idx] /\ valid_ram'[a.idx] = IF a.idx = j THEN FALSE ELSE valid_ram[a.idx]
    BY <1>0, <1>2, <2>1, RamStep
  <2> QED BY <2>1, <2>2, <2>3 DEF InCache, Filling
<1>3. CASE do_fill
  <2>1. /\ ~busy /\ ~flushing /\ ~m_ack /\ line_idx = 0 /\ latched_address = bus_addr /\ ~do_flush
    BY <1>3, StartFacts, AckBusy
  <2>2. /\ busy' = TRUE /\ flushing' = FALSE /\ latched_address' = latched_address
        /\ line_valid' = [o \in Offset |-> FALSE]
    BY <1>0, <1>1, <1>3, <2>1 DEF ClockTransfer, TypeInv
  <2>3. a.idx # j => tag_ram'[a.idx] = tag_ram[a.idx] /\ valid_ram'[a.idx] = valid_ram[a.idx]
    BY <1>0, <2>1, RamStep
  <2>4. ~valid_ram'[j]
    <3>1. ~LastWord
      BY <2>1, CacheSizes DEF LastWord
    <3> QED BY <1>0, <1>3, <2>1, <3>1, RamStep
  <2> QED BY <1>0, <1>3, <2>1, <2>2, <2>3, <2>4 DEF InCache, Filling
<1>4. CASE ~m_ack /\ ~do_flush /\ ~do_fill
  <2>1. UNCHANGED <<line_valid, busy, flushing>>
    BY <1>0, <1>1, <1>4 DEF ClockTransfer
  <2>2. tag_ram'[a.idx] = tag_ram[a.idx] /\ valid_ram'[a.idx] = valid_ram[a.idx]
    BY <1>0, <1>4, RamStep
  <2>3. busy => latched_address' = latched_address
    BY <1>1
  <2>4. ~busy => ~flushing
    BY <1>0 DEF TransferInv
  <2> QED BY <1>4, <2>1, <2>2, <2>3, <2>4 DEF InCache, Filling
<1>5. CASE m_ack
  <2>1. /\ busy /\ ~do_flush /\ ~do_fill /\ latched_address' = latched_address
        /\ c_m_addr.idx = j /\ c_m_addr.tag = tag_ram[j] /\ ~valid_ram[j]
        /\ line_valid' = IF flushing THEN line_valid ELSE [line_valid EXCEPT ![c_m_addr.off] = TRUE]
        /\ busy' = (busy /\ ~LastWord)
        /\ flushing' = (flushing /\ ~LastWord)
    BY <1>0, <1>1, <1>5, AckBusy DEF ClockTransfer, TransferInv
  <2>2. /\ tag_ram'[a.idx] = tag_ram[a.idx]
        /\ valid_ram'[a.idx] = IF ~flushing /\ LastWord /\ a.idx = j THEN TRUE ELSE valid_ram[a.idx]
    BY <1>0, <1>5, <2>1, RamStep
  <2>3. CASE flushing
    BY <1>5, <2>1, <2>2, <2>3 DEF InCache, Filling
  <2>4. CASE ~flushing
    <3>1. line_valid'[a.off] <=> a.off = c_m_addr.off \/ line_valid[a.off]
      BY <1>0, <2>1, <2>4
    <3>2. LastWord => a.off = c_m_addr.off \/ line_valid[a.off]
      BY <1>0, <2>1, <2>4, BehindStep DEF LastWord, TransferInv, Filling, Behind
    <3>3. a = c_m_addr <=> a.tag = c_m_addr.tag /\ a.idx = c_m_addr.idx /\ a.off = c_m_addr.off
      BY <1>0, SameAddress DEF TypeInv
    <3>4. CASE a.idx = j
      BY <1>5, <2>1, <2>2, <2>4, <3>1, <3>2, <3>3, <3>4 DEF InCache, Filling
    <3>5. CASE a.idx # j
      BY <1>5, <2>1, <2>2, <2>4, <3>3, <3>5 DEF InCache, Filling
    <3> QED BY <3>4, <3>5
  <2> QED BY <2>3, <2>4
<1> QED BY <1>2, <1>3, <1>4, <1>5

(* A word in the cache changes only when the request on the bus writes it; *)
(* the word that arrives is what memory holds.                             *)
LEMMA WordStep ==
  ASSUME CacheInv, NEW m_ack \in BOOLEAN, ClockMemory(m_ack), ClockCache(m_ack), ClockMaster
  PROVE  /\ \A a \in Address : InCache(a) =>
              line_ram'[Slot(a)] = IF c_ack /\ c_wr_en /\ request.be /\ a = bus_addr
                                   THEN request.value ELSE line_ram[Slot(a)]
         /\ Filling /\ m_ack => line_ram'[Slot(c_m_addr)] = memory[c_m_addr]
<1> USE DEF CacheInv
<1>0. TypeInv /\ TransferInv /\ bus_addr \in Address /\ c_m_addr \in Address
  BY DEF TypeInv
<1>1. c_ack => InCache(bus_addr)
  BY AckInCache
<1>2. ASSUME m_ack, ~flushing
      PROVE  /\ line_address(m_ack) = Slot(c_m_addr) /\ ~InCache(c_m_addr)
             /\ c_m_addr.tag = tag_ram[c_m_addr.idx]
  <2>1. busy
    BY <1>2, AckBusy
  <2>2. c_m_addr.idx = latched_address.idx /\ c_m_addr.tag = tag_ram[latched_address.idx]
    BY <1>0, <2>1 DEF TransferInv
  <2> QED BY <1>2, <2>1, <2>2, AwaitedWord DEF line_address, Filling, Slot
<1>3. ASSUME NEW a \in Address, InCache(a)
      PROVE  line_ram'[Slot(a)] = IF c_ack /\ c_wr_en /\ request.be /\ a = bus_addr
                                  THEN request.value ELSE line_ram[Slot(a)]
  <2>1. Slot(a) \in LineSlot /\ a.tag = tag_ram[a.idx]
    BY <1>3, SameAddress DEF InCache
  <2>2. c_ack /\ Slot(a) = Slot(bus_addr) => a = bus_addr
    BY <1>0, <1>1, <2>1, SameAddress DEF InCache
  <2>3. ~(m_ack /\ ~flushing /\ Slot(a) = line_address(m_ack))
    <3> SUFFICES ASSUME m_ack, ~flushing, Slot(a) = Slot(c_m_addr) PROVE FALSE
      BY <1>2
    <3>1. a.idx = c_m_addr.idx
      BY <1>0, SameAddress
    <3>2. a = c_m_addr
      BY <1>0, <1>2, <2>1, <3>1, SameAddress
    <3> QED BY <1>2, <1>3, <3>2
  <2> QED BY <1>0, <2>1, <2>2, <2>3, RamStep
<1>4. ASSUME Filling, m_ack PROVE line_ram'[Slot(c_m_addr)] = memory[c_m_addr]
  <2>1. ~flushing
    BY <1>4 DEF Filling
  <2>2. ~(c_ack /\ Slot(c_m_addr) = Slot(bus_addr))
    <3> SUFFICES ASSUME c_ack, Slot(c_m_addr) = Slot(bus_addr) PROVE FALSE
      OBVIOUS
    <3>1. bus_addr.idx = c_m_addr.idx /\ bus_addr.tag = tag_ram[bus_addr.idx]
      BY <1>0, <1>1, SameAddress DEF InCache
    <3>2. bus_addr = c_m_addr
      BY <1>0, <1>2, <1>4, <2>1, <3>1, SameAddress
    <3> QED BY <1>1, <1>2, <1>4, <2>1, <3>2
  <2>3. Slot(c_m_addr) \in LineSlot
    BY <1>0, SameAddress
  <2> QED BY <1>0, <1>2, <1>4, <2>1, <2>2, <2>3, RamStep
<1> QED BY <1>3, <1>4
(* Who may own a dirty line keeps it, unless its write-back or a fill over *)
(* it starts.                                                              *)
LEMMA OwnerStep ==
  ASSUME CacheInv, NEW m_ack \in BOOLEAN, ClockMemory(m_ack), ClockCache(m_ack), ClockMaster,
         NEW i \in Index,
         valid_ram[i] \/ (Filling /\ i = latched_address.idx),
         ~((do_flush \/ do_fill) /\ i = latched_address.idx)
  PROVE  valid_ram'[i] \/ (Filling' /\ i = latched_address'.idx)
<1> USE DEF CacheInv
<1>0. TypeInv /\ TransferInv
  OBVIOUS
<1>1. /\ ClockTransfer(bus_addr, m_ack)
      /\ latched_address' = IF ~busy /\ ~flushing THEN bus_addr ELSE latched_address
  BY DEF ClockCache, CacheClock, ClockLatch
<1>2. CASE m_ack /\ ~flushing /\ LastWord /\ i = latched_address.idx
  BY <1>0, <1>2, RamStep, AckBusy
<1>3. CASE ~(m_ack /\ ~flushing /\ LastWord /\ i = latched_address.idx)
  <2>1. valid_ram'[i] = valid_ram[i]
    BY <1>0, <1>3, RamStep
  <2>2. CASE Filling /\ i = latched_address.idx
    BY <1>1, <1>3, <2>2 DEF ClockTransfer, Filling, do_flush, do_fill
  <2> QED BY <2>1, <2>2
<1> QED BY <1>2, <1>3

LEMMA DirtyStep ==
  ASSUME CacheInv, NEW m_ack \in BOOLEAN, ClockMemory(m_ack), ClockCache(m_ack), ClockMaster
  PROVE  DirtyInv'
<1> USE DEF CacheInv
<1> DEFINE j == latched_address.idx
<1>0. /\ TypeInv /\ TransferInv /\ DirtyInv /\ bus_addr.idx \in Index /\ j \in Index
      /\ j = latched_address.idx
  BY DEF TypeInv
<1>1. ASSUME NEW i \in Index, dirty_ram'[i]
      PROVE  valid_ram'[i] \/ (Filling' /\ i = latched_address'.idx)
  <2>1. CASE c_ack /\ i = bus_addr.idx
    <3>1. valid_ram[i] \/ (Filling /\ i = j)
      BY <2>1, AckInCache DEF InCache
    <3>2. ~do_flush /\ ~do_fill
      BY <2>1, StartFacts
    <3> QED BY <3>1, <3>2, OwnerStep
  <2>2. CASE ~(c_ack /\ i = bus_addr.idx)
    <3>1. dirty_ram[i] /\ ~(do_flush /\ i = j)
      BY <1>0, <1>1, <2>2, RamStep
    <3>2. ~(do_fill /\ i = j)
      BY <3>1, StartFacts
    <3>3. valid_ram[i] \/ (Filling /\ i = j)
      BY <1>0, <3>1 DEF DirtyInv
    <3> QED BY <3>1, <3>2, <3>3, OwnerStep
  <2> QED BY <2>1, <2>2
<1>2. ASSUME NEW a \in Address, InCache(a)', ~dirty_ram'[a.idx],
             flushing' /\ a.idx = latched_address'.idx => a.off < line_idx'
      PROVE  line_ram'[Slot(a)] = memory'[a]
  <2>0. a.idx \in Index /\ a.off \in Offset /\ c_m_addr \in Address /\ c_m_addr.off \in Offset
    BY <1>0 DEF TypeInv
  <2>1. CASE Filling /\ m_ack /\ a = c_m_addr
    BY <1>0, <2>1, WordStep, RamStep DEF Filling
  <2>2. CASE InCache(a) /\ ~(a.idx = j /\ (do_fill \/ (flushing /\ m_ack /\ LastWord)))
    <3>1. ~(c_ack /\ c_wr_en /\ a = bus_addr)
      BY <1>0, <1>2, <2>0, RamStep
    <3>2. line_ram'[Slot(a)] = line_ram[Slot(a)]
      BY <2>2, <3>1, WordStep
    <3>3. ~(do_flush /\ a.idx = j)
      <4> SUFFICES ASSUME do_flush, a.idx = j PROVE FALSE
        OBVIOUS
      <4>1. ~busy /\ ~flushing /\ ~m_ack /\ line_idx = 0 /\ latched_address = bus_addr /\ ~do_fill
        BY StartFacts, AckBusy
      <4>2. flushing' = TRUE /\ line_idx' = 0 /\ latched_address' = bus_addr
        BY <4>1 DEF ClockCache, CacheClock, ClockTransfer, ClockLatch
      <4> QED BY <1>2, <2>0, <4>1, <4>2
    <3>4. ~dirty_ram[a.idx]
      BY <1>0, <1>2, <2>0, <3>3, RamStep
    <3>5. CASE flushing /\ a.idx = j
      <4>1. /\ busy /\ latched_address' = latched_address /\ ~do_flush /\ ~do_fill
            /\ c_m_addr.idx = j /\ c_m_addr.tag = tag_ram[j] /\ c_m_addr.off = line_idx
            /\ c_m_data_out = line_ram[Slot(c_m_addr)]
        BY <1>0, <3>5 DEF TransferInv, ClockCache, CacheClock, ClockLatch, do_flush, do_fill
      <4>2. ClockTransfer(bus_addr, m_ack)
        BY DEF ClockCache, CacheClock
      <4>3. CASE a = c_m_addr /\ m_ack
        BY <1>0, <3>2, <3>5, <4>1, <4>3, RamStep
      <4>4. CASE a # c_m_addr \/ ~m_ack
        <5>1. a.off < line_idx
          <6>1. CASE ~m_ack
            <7>1. flushing' = flushing /\ line_idx' = line_idx
              BY <4>1, <4>2, <6>1 DEF ClockTransfer
            <7> QED BY <1>2, <3>5, <4>1, <7>1
          <6>2. CASE m_ack
            <7>1. ~LastWord
              BY <2>2, <3>5, <6>2
            <7>2. flushing' = TRUE /\ line_idx' = line_idx + 1
              BY <3>5, <4>2, <6>2, <7>1, AckBusy DEF ClockTransfer, NextOff, LastWord
            <7>3. a.off # c_m_addr.off
              BY <2>0, <2>2, <3>5, <4>1, <4>4, <6>2, SameAddress DEF InCache
            <7>4. a.off < line_idx + 1
              BY <1>2, <3>5, <4>1, <7>2
            <7> QED BY <2>0, <4>1, <7>3, <7>4
          <6> QED BY <6>1, <6>2
        <5>2. line_ram[Slot(a)] = memory[a]
          BY <1>0, <2>2, <3>4, <5>1 DEF DirtyInv
        <5> QED BY <1>0, <3>2, <4>4, <5>2, RamStep
      <4> QED BY <4>3, <4>4
    <3>6. CASE ~(flushing /\ a.idx = j)
      <4>1. line_ram[Slot(a)] = memory[a]
        BY <1>0, <2>2, <3>4, <3>6 DEF DirtyInv
      <4>2. ~(m_ack /\ flushing /\ a = c_m_addr)
        BY <1>0, <3>6, AckBusy DEF TransferInv
      <4> QED BY <1>0, <3>2, <4>1, <4>2, RamStep
    <3> QED BY <3>5, <3>6
  <2> QED BY <1>2, <2>1, <2>2, InCacheStep
<1> QED BY <1>1, <1>2 DEF DirtyInv, Slot

(* What the CPU last wrote is what cache and memory hold between them. *)
LEMMA CurrentStep ==
  ASSUME CacheInv, NEW m_ack \in BOOLEAN, ClockMemory(m_ack), ClockCache(m_ack), ClockMaster
  PROVE  Current(tracked)' \in expected'
<1> USE DEF CacheInv
<1>a. PICK t \in Address : t = tracked
  BY DEF TypeInv
<1> DEFINE j == latched_address.idx
           written == c_ack /\ c_wr_en /\ request.be /\ bus_addr = t
<1>0. /\ TypeInv /\ TransferInv /\ DirtyInv /\ t.off \in Offset
      /\ c_m_addr \in Address /\ line_idx \in Offset /\ Current(t) \in expected
  BY <1>a DEF TypeInv
<1>1. tracked' = t /\ expected' = IF written THEN {request.value} ELSE expected
  BY <1>a DEF ClockMaster
<1>2. Current(tracked)' = IF InCache(t)' THEN line_ram'[Slot(t)] ELSE memory'[t]
  BY <1>1 DEF Current, InCache, Slot
<1>3. written => InCache(t)
  BY AckInCache
<1>4. CASE InCache(t) /\ ~(t.idx = j /\ (do_fill \/ (flushing /\ m_ack /\ LastWord)))
  <2>1. InCache(t)' /\ line_ram'[Slot(t)] = IF written THEN request.value ELSE line_ram[Slot(t)]
    BY <1>0, <1>4, InCacheStep, WordStep
  <2> QED BY <1>0, <1>1, <1>2, <1>4, <2>1 DEF Current
<1>5. CASE Filling /\ m_ack /\ t = c_m_addr
  <2>1. ~InCache(t) /\ InCache(t)' /\ line_ram'[Slot(t)] = memory[t]
    BY <1>0, <1>5, InCacheStep, WordStep, AwaitedWord
  <2> QED BY <1>0, <1>1, <1>2, <1>3, <2>1 DEF Current
<1>6. CASE ~InCache(t) /\ ~(Filling /\ m_ack /\ t = c_m_addr)
  <2>1. ~InCache(t)'
    BY <1>0, <1>6, InCacheStep
  <2>2. ~(m_ack /\ flushing /\ t = c_m_addr)
    BY <1>0, <1>6, AckBusy DEF TransferInv, InCache
  <2>3. memory'[t] = memory[t]
    BY <1>0, <2>2, RamStep
  <2> QED BY <1>0, <1>1, <1>2, <1>3, <1>6, <2>1, <2>3 DEF Current
<1>7. CASE InCache(t) /\ t.idx = j /\ do_fill
  <2>1. ~busy /\ ~flushing /\ ~c_ack /\ ~m_ack /\ ~dirty_ram[j]
    BY <1>7, StartFacts, AckBusy
  <2>2. ~InCache(t)'
    BY <1>0, <1>7, <2>1, InCacheStep DEF Filling
  <2>3. line_ram[Slot(t)] = memory[t]
    BY <1>0, <1>7, <2>1 DEF DirtyInv
  <2>4. memory'[t] = memory[t]
    BY <1>0, <2>1, RamStep
  <2> QED BY <1>0, <1>1, <1>2, <1>7, <2>1, <2>2, <2>3, <2>4 DEF Current
<1>8. CASE InCache(t) /\ t.idx = j /\ flushing /\ m_ack /\ LastWord
  <2>1. /\ ~c_ack /\ ~dirty_ram[j] /\ busy /\ c_m_addr.idx = j /\ c_m_addr.tag = tag_ram[j]
        /\ c_m_addr.off = line_idx /\ c_m_data_out = line_ram[Slot(c_m_addr)]
    BY <1>0, <1>8 DEF TransferInv, c_ack
  <2>2. ~InCache(t)'
    BY <1>0, <1>8, InCacheStep DEF Filling
  <2>3. memory'[t] = line_ram[Slot(t)]
    <3>1. CASE t = c_m_addr
      BY <1>0, <1>8, <2>1, <3>1, RamStep
    <3>2. CASE t # c_m_addr
      <4>1. t.off # line_idx
        BY <1>0, <1>8, <2>1, <3>2, SameAddress DEF InCache
      <4>2. t.off < line_idx
        BY <1>0, <1>8, <4>1, CacheSizes DEF LastWord
      <4>3. line_ram[Slot(t)] = memory[t]
        BY <1>0, <1>8, <2>1, <4>2 DEF DirtyInv
      <4> QED BY <1>0, <3>2, <4>3, RamStep
    <3> QED BY <3>1, <3>2
  <2> QED BY <1>0, <1>1, <1>2, <1>8, <2>1, <2>2, <2>3 DEF Current
<1> QED BY <1>4, <1>5, <1>6, <1>7, <1>8

LEMMA CacheStep == CacheInv /\ [Clock]_vars => CacheInv'
<1> SUFFICES ASSUME CacheInv, [Clock]_vars PROVE CacheInv'
  OBVIOUS
<1>1. CASE Clock
  <2>1. PICK m_ack \in BOOLEAN : ClockMemory(m_ack) /\ ClockCache(m_ack) /\ ClockMaster
    BY <1>1 DEF Clock
  <2> QED BY <2>1, TypeStep, LookupStep, TransferStep, DirtyStep, CurrentStep DEF CacheInv
<1>2. CASE UNCHANGED vars
  <2> USE <1>2 DEF vars, cache_vars
  <2>1. TypeInv' /\ LookupInv'
    BY DEF CacheInv, TypeInv, LookupInv, Slot
  <2>2. TransferInv'
    BY DEF CacheInv, TransferInv, Filling, Slot, Behind
  <2>3. DirtyInv' /\ Current(tracked)' \in expected'
    BY DEF CacheInv, DirtyInv, Current, InCache, Filling, Slot
  <2> QED BY <2>1, <2>2, <2>3 DEF CacheInv
<1> QED BY <1>1, <1>2

(* In every reachable state what the CPU last wrote to a byte is in the    *)
(* cache or, when it is not there, in memory, and only dirty lines and the *)
(* line under write-back may differ from memory.                           *)
THEOREM CacheInvariant == Spec => []CacheInv
BY InitInv, CacheStep, PTL DEF Spec

(* A read that Cache.sv acknowledges returns what was last written there:  *)
(* hits on valid lines, hits on words of a running fill, fills, write-backs*)
(* and evictions cannot be told from a memory.                             *)
THEOREM CacheTransparent == Spec => []ReadsReturnLastWrite
<1>1. CacheInv => ReadsReturnLastWrite
  <2> SUFFICES ASSUME CacheInv, c_ack, bus_addr = tracked PROVE c_q \in expected
    BY DEF ReadsReturnLastWrite
  <2> QED BY AckInCache DEF CacheInv, Current
<1> QED BY <1>1, CacheInvariant, PTL

(* do_fill may drop a line without the dirty mark: all its words are the   *)
(* SDRAM's, also after a write hit on a word of a line still being filled. *)
THEOREM CleanLinesDroppable == Spec => []CleanLinesMatchMemory
<1>1. CacheInv => CleanLinesMatchMemory
  <2> SUFFICES ASSUME CacheInv, NEW a \in Address, LineHolds(a), ~dirty_ram[a.idx]
               PROVE  line_ram[<<a.idx, a.off>>] = memory[a]
    BY DEF CleanLinesMatchMemory
  <2>1. InCache(a) /\ ~(flushing /\ a.idx = latched_address.idx)
    BY DEF LineHolds, InCache, CacheInv, TransferInv
  <2> QED BY <2>1 DEF CacheInv, DirtyInv, Slot
<1> QED BY <1>1, CacheInvariant, PTL

(* While a transfer waits for its acknowledgement the SDRAM controller may *)
(* sample the cache's pins in any cycle: they do not move.                 *)
THEOREM PinsHeld == Spec => TransferStable
<1>1. CacheInv /\ [Clock]_vars =>
        [pending' => c_m_addr' = c_m_addr /\ flushing' = flushing
                     /\ (flushing => c_m_data_out' = c_m_data_out)]_vars
  <2> SUFFICES ASSUME CacheInv, Clock, pending'
               PROVE  c_m_addr' = c_m_addr /\ flushing' = flushing
                      /\ (flushing => c_m_data_out' = c_m_data_out)
    OBVIOUS
  <2>1. PICK m_ack \in BOOLEAN : ClockMemory(m_ack) /\ ClockCache(m_ack) /\ ClockMaster
    BY DEF Clock
  <2>2. busy /\ ~m_ack
    BY <2>1 DEF ClockMemory, m_access
  <2>3. c_m_addr' = c_m_addr /\ flushing' = flushing
    BY <2>1, <2>2 DEF ClockCache, CacheClock, ClockTransfer, do_flush, do_fill
  <2>4. ASSUME flushing PROVE c_m_data_out' = c_m_data_out
    <3>1. ~c_ack /\ c_m_data_out = line_ram[Slot(c_m_addr)] /\ c_m_addr.idx = latched_address.idx
      BY <2>2, <2>4 DEF CacheInv, TransferInv, c_ack
    <3>2. line_address(m_ack) = Slot(c_m_addr)
      BY <2>2, <3>1 DEF line_address, Slot
    <3> QED BY <2>1, <3>1, <3>2 DEF ClockCache, CacheClock, ClockLines, Bypass
  <2> QED BY <2>3, <2>4
<1> QED BY <1>1, CacheInvariant, PTL DEF Spec, TransferStable
=============================================================================
