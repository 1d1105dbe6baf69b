---------------------------- MODULE FetchProofs -----------------------------
(***************************************************************************)
(* The instruction fetch path delivers the program's bytes for every queue *)
(* depth, segment size, memory contents and memory latency, when the       *)
(* instruction and the data port share a bus.                              *)
(***************************************************************************)
EXTENDS FetchUnit, SequenceTheorems, TLAPS

USE DEF Offsets, Words, TypeOK, DataTypeOK, ControlTypeOK

(* The two bytes of a word lie side by side: an even offset has an odd     *)
(* successor in the same word, because the segment size is even.           *)
LEMMA SameWord ==
  ASSUME NEW c \in Segments, NEW a \in Offsets, ~Odd(a)
  PROVE  /\ Inc(a) \in Offsets
         /\ Odd(Inc(a))
         /\ WordAddress(c, Inc(a)) = WordAddress(c, a)
<1>1. a % 2 = 0 /\ a # IPSize - 1
  BY IPSizeAssumption DEF Odd
<1>2. Inc(a) = a + 1
  BY <1>1 DEF Inc
<1>3. (a + 1) % 2 = 1 /\ (a + 1) \div 2 = a \div 2
  BY <1>1, IPSizeAssumption
<1>4. a + 1 \in Offsets
  BY <1>1, IPSizeAssumption
<1> QED BY <1>2, <1>3, <1>4 DEF Odd, WordAddress

LEMMA WordAddressType ==
  ASSUME NEW c \in Segments, NEW a \in Offsets
  PROVE  WordAddress(c, a) \in Words
<1>1. c \in Nat /\ ParaWords \in Nat /\ MemWords \in Nat /\ MemWords > 0
  BY SegmentsAssumption, MemAssumption
<1>2. a \div 2 \in Nat
  BY IPSizeAssumption
<1>3. c * ParaWords \in Nat
  BY <1>1, SMT
<1> DEFINE x == c * ParaWords + a \div 2
<1>4. x \in Nat
  BY <1>2, <1>3
<1> HIDE DEF x
<1>5. x % MemWords \in 0 .. MemWords - 1
  BY <1>1, <1>4
<1> QED BY <1>5 DEF WordAddress, x

LEMMA ByteAtType ==
  ASSUME NEW c \in Segments, NEW a \in Offsets
  PROVE  ByteAt(c, a) \in Byte
<1>1. Mem[WordAddress(c, a)] \in [lo : Byte, hi : Byte]
  BY WordAddressType, MemContents
<1> QED BY <1>1 DEF ByteAt

LEMMA IncType ==
  ASSUME NEW a \in Offsets
  PROVE  Inc(a) \in Offsets
  BY IPSizeAssumption DEF Inc

(* Offsets along the queue. *)
LEMMA AheadFacts ==
  ASSUME next_ip \in Offsets
  PROVE  /\ Ahead(0) = next_ip
         /\ \A k \in 0 .. IPSize : Ahead(k) \in Offsets
         /\ \A k \in 0 .. IPSize - 1 : Ahead(k + 1) = Inc(Ahead(k))
  BY IPSizeAssumption DEF Ahead, Inc

(* The queue keeps matching the program when the byte written, if any, is  *)
(* the one after the newest and the byte read, if any, advances next_ip.   *)
LEMMA QueueStep ==
  ASSUME next_ip \in Offsets, queue \in Seq(Byte), Len(queue) <= QueueDepth,
         StreamMatchesProgram,
         NEW wr \in BOOLEAN, NEW rd \in BOOLEAN, NEW d \in Byte,
         wr => Len(queue) < QueueDepth /\ d = ByteAt(arch_cs, Ahead(Len(queue))),
         Q!QueueClock(FALSE, wr, d, rd),
         arch_cs' = arch_cs,
         next_ip' = IF rd /\ queue # << >> THEN Inc(next_ip) ELSE next_ip
  PROVE  /\ queue' \in Seq(Byte)
         /\ Len(queue)' <= QueueDepth
         /\ Len(queue)' <= Len(queue) + (IF wr THEN 1 ELSE 0)
         /\ next_ip' \in Offsets
         /\ Ahead(Len(queue))' = IF wr THEN Inc(Ahead(Len(queue))) ELSE Ahead(Len(queue))
         /\ StreamMatchesProgram'
<1> USE QueueAssumption, IPSizeAssumption
<1> DEFINE n == Len(queue)
           re == rd /\ queue # << >>
<1>0. n \in Nat /\ next_ip' \in Offsets
  BY IncType
<1>1. \A k \in 0 .. IPSize - 1 : Ahead(k)' = IF re THEN Ahead(k + 1) ELSE Ahead(k)
  BY DEF Ahead, Inc
<1>2. \A k \in 1 .. n : queue[k] = ByteAt(arch_cs, Ahead(k - 1))
  BY DEF StreamMatchesProgram
<1>3. CASE wr /\ ~re
  <2>1. queue' = Append(queue, d)
    BY <1>3 DEF Q!QueueClock, Q!Enqueue
  <2>2. /\ queue' \in Seq(Byte)
        /\ Len(queue') = n + 1
        /\ \A k \in 1 .. n : queue'[k] = queue[k]
        /\ queue'[n + 1] = d
    BY <2>1, AppendProperties
  <2>3. \A k \in 1 .. n + 1 : queue'[k] = ByteAt(arch_cs, Ahead(k - 1))
    BY <1>0, <1>2, <1>3, <2>2
  <2>4. \A k \in 1 .. n + 1 : Ahead(k - 1)' = Ahead(k - 1)
    BY <1>0, <1>1, <1>3
  <2>5. StreamMatchesProgram'
    BY <2>2, <2>3, <2>4 DEF StreamMatchesProgram, ByteAt
  <2>6. Ahead(Len(queue))' = Inc(Ahead(n))
    BY <1>0, <1>3, <2>2, AheadFacts DEF Ahead, Inc
  <2> QED BY <1>0, <1>3, <2>2, <2>5, <2>6
<1>4. CASE wr /\ re
  <2>1. queue' = Append(Tail(queue), d) /\ queue # << >>
    BY <1>4 DEF Q!QueueClock, Q!Pass
  <2>2. /\ Tail(queue) \in Seq(Byte)
        /\ Len(Tail(queue)) = n - 1
        /\ \A k \in 1 .. n - 1 : Tail(queue)[k] = queue[k + 1]
    BY <2>1
  <2>3. /\ queue' \in Seq(Byte)
        /\ Len(queue') = n
        /\ \A k \in 1 .. n - 1 : queue'[k] = queue[k + 1]
        /\ queue'[n] = d
    <3> DEFINE t == Tail(queue)
    <3>1. t \in Seq(Byte) /\ Len(t) = n - 1 /\ \A k \in 1 .. n - 1 : t[k] = queue[k + 1]
      BY <2>2
    <3>2. queue' = Append(t, d)
      BY <2>1
    <3> HIDE DEF t
    <3> QED BY <1>0, <3>1, <3>2, AppendProperties
  <2>4. \A k \in 1 .. n : queue'[k] = ByteAt(arch_cs, Ahead(k))
    BY <1>0, <1>2, <1>4, <2>3
  <2>5. \A k \in 1 .. n : Ahead(k - 1)' = Ahead(k)
    BY <1>0, <1>1, <1>4
  <2>6. StreamMatchesProgram'
    BY <2>3, <2>4, <2>5 DEF StreamMatchesProgram, ByteAt
  <2>7. Ahead(Len(queue))' = Inc(Ahead(n))
    <3>1. next_ip' = Inc(next_ip) /\ n < IPSize /\ Len(queue') = n
      BY <1>0, <1>4, <2>3
    <3> QED BY <1>0, <3>1 DEF Ahead, Inc
  <2> QED BY <1>0, <1>4, <2>3, <2>6, <2>7
<1>5. CASE ~wr /\ re
  <2>1. queue' = Tail(queue) /\ queue # << >>
    BY <1>5 DEF Q!QueueClock, Q!Dequeue
  <2>2. /\ queue' \in Seq(Byte)
        /\ Len(queue') = n - 1
        /\ \A k \in 1 .. n - 1 : queue'[k] = queue[k + 1]
    BY <2>1
  <2>4. \A k \in 1 .. n - 1 : queue'[k] = ByteAt(arch_cs, Ahead(k))
    BY <1>0, <1>2, <1>5, <2>2
  <2>5. \A k \in 1 .. n - 1 : Ahead(k - 1)' = Ahead(k)
    BY <1>0, <1>1, <1>5
  <2>6. StreamMatchesProgram'
    BY <2>2, <2>4, <2>5 DEF StreamMatchesProgram, ByteAt
  <2>7. Ahead(Len(queue))' = Ahead(n)
    BY <1>0, <1>5, <2>1, <2>2 DEF Ahead, Inc
  <2> QED BY <1>0, <1>5, <2>2, <2>6, <2>7
<1>6. CASE ~wr /\ ~re
  <2>1. queue' = queue /\ next_ip' = next_ip
    BY <1>6 DEF Q!QueueClock
  <2> QED BY <1>0, <1>6, <2>1 DEF StreamMatchesProgram, ByteAt, Ahead
<1> QED BY <1>3, <1>4, <1>5, <1>6

-----------------------------------------------------------------------------
LEMMA InitFetchInv == Init => FetchInv
<1> SUFFICES ASSUME Init PROVE FetchInv
  OBVIOUS
<1> USE IPSizeAssumption, SegmentsAssumption, QueueAssumption, IntAccessesAssumption
        DEF Init, PrefetchInit, ArbiterInit, Q!QueueInit
<1>1. DataTypeOK
  OBVIOUS
<1>2. ControlTypeOK
  OBVIOUS
<1>3. StreamMatchesProgram
  BY DEF StreamMatchesProgram
<1>4. AbortInv /\ FollowInv /\ WordInv /\ RoomInv /\ GrantInv
  BY DEF AbortInv, FollowInv, WordInv, RoomInv, GrantInv, Ahead
<1> QED BY <1>1, <1>2, <1>3, <1>4 DEF FetchInv

(* The shared bus: who may be acknowledged, and who holds it afterwards. *)
LEMMA BusStep ==
  ASSUME SharedBus, FetchInv, NEW acks \in SUBSET pending, ClockBus(acks)
  PROVE  /\ instr_ack(acks) => mem_access2 /\ grant_active /\ ~grant_to_b
         /\ data_ack(acks) => busy /\ grant_active /\ grant_to_b
         /\ instr_ack(acks) => ~grant_active'
         /\ grant_active' \in BOOLEAN /\ grant_to_b' \in BOOLEAN
         /\ pending' \subseteq Ports
         /\ "q" \in pending' => grant_active'
         /\ grant_active' /\ grant_to_b' => busy /\ ~data_ack(acks)
         /\ grant_active' /\ ~grant_to_b' => mem_access2 /\ ~instr_ack(acks)
         /\ mem_access2 /\ ~instr_ack(acks) /\ ~busy => grant_active' /\ ~grant_to_b'
         /\ grant_active /\ ~grant_to_b /\ ~instr_ack(acks) => grant_active' /\ ~grant_to_b'
<1> DEFINE q == "q" \in acks
           a == mem_access2 /\ ~instr_ack(acks)
           b == busy /\ ~data_ack(acks)
<1>1. /\ instr_ack(acks) = (grant_active /\ ~grant_to_b /\ q)
      /\ data_ack(acks) = (grant_active /\ grant_to_b /\ q)
  BY DEF instr_ack, data_ack, a_m_ack, b_m_ack
<1>2. /\ grant_active' = (~q /\ (grant_active \/ (~q /\ ~grant_active /\ (a \/ b))))
      /\ grant_to_b' = IF ~q /\ ~grant_active /\ (a \/ b) THEN b ELSE grant_to_b
      /\ pending' \subseteq Ports
      /\ "q" \in pending' => ~q /\ (a \/ b)
  BY DEF ClockBus, ArbiterClock, mem_access, data_access, q_m_access
<1>3. /\ grant_active \in BOOLEAN /\ grant_to_b \in BOOLEAN /\ mem_access2 \in BOOLEAN
      /\ busy \in BOOLEAN
      /\ grant_active /\ grant_to_b => busy
      /\ grant_active /\ ~grant_to_b => mem_access2
      /\ q => grant_active
  BY DEF FetchInv, GrantInv, busy
<1> HIDE DEF q, a, b
<1>4. /\ instr_ack(acks) => mem_access2 /\ grant_active /\ ~grant_to_b
      /\ data_ack(acks) => busy /\ grant_active /\ grant_to_b
  BY <1>1, <1>3
<1>5. a \in BOOLEAN /\ b \in BOOLEAN /\ q \in BOOLEAN
  BY <1>3 DEF a, b, q
<1>6. grant_active' \in BOOLEAN /\ grant_to_b' \in BOOLEAN
  BY <1>2, <1>3, <1>5
<1>7. grant_active' /\ grant_to_b' => b
  BY <1>1, <1>2, <1>3 DEF b
<1>8. grant_active' /\ ~grant_to_b' => a
  BY <1>1, <1>2, <1>3, <1>5 DEF a
<1>9. a /\ ~busy => grant_active' /\ ~grant_to_b'
  BY <1>1, <1>2, <1>3 DEF a, b
<1>10. grant_active /\ ~grant_to_b /\ ~instr_ack(acks) => grant_active' /\ ~grant_to_b'
  BY <1>1, <1>2
<1>11. instr_ack(acks) => ~grant_active'
  BY <1>1, <1>2
<1> QED BY <1>2, <1>4, <1>6, <1>7, <1>8, <1>9, <1>10, <1>11 DEF a, b

(* A branch.  No stale fetch is out, because the core could not have got   *)
(* this far: either it consumed a byte or it was granted the bus since.    *)
LEMMA BranchStep ==
  ASSUME SharedBus, FetchInv, NEW acks \in SUBSET pending, NEW new_cs \in Segments, NEW new_ip \in Offsets,
         NEW rd_en \in BOOLEAN, NEW second \in BOOLEAN, NEW interrupt \in BOOLEAN,
         Clock(acks, TRUE, new_cs, new_ip, rd_en, FALSE, second, interrupt)
  PROVE  FetchInv'
<1> USE QueueAssumption, IPSizeAssumption, IntAccessesAssumption
<1> DEFINE ack == instr_ack(acks)
           data == Mem[mem_address]
<1>1. ~busy /\ ~abort_cur
  BY DEF Clock, MayLoad, FetchInv, AbortInv
<1>2. PrefetchClock(TRUE, new_cs, new_ip, fifo_full, ack, data) /\ ClockBus(acks)
  BY DEF Clock
<1>3. queue' = << >> /\ arch_cs' = new_cs /\ next_ip' = new_ip /\ executing' = FALSE
  BY DEF Clock, Q!QueueClock, Q!Drop, fifo_reset, ClockGhost, ClockCore
<1>4. data_state' = "idle" /\ (int_left' = 0 \/ int_left' = IntAccesses + 1)
  BY <1>1 DEF Clock, ClockData, ClockCore, busy
<1>5. write_second' = FALSE /\ abort_cur' = (mem_access2 /\ ~ack)
  BY <1>1, <1>2 DEF PrefetchClock, ClockSecond, ClockAbort, fifo_reset, mem_access, FetchInv
<1>6. next_cs' = new_cs /\ next_fetch_address' = new_ip
  BY <1>2 DEF PrefetchClock, ClockTarget
<1>7. /\ next_sequential_fetch' \in Offsets
      /\ mem_address' \in Words
      /\ fetched_high_byte' \in Byte
  <2>1. next_sequential_fetch' \in Offsets
    BY <1>2, IncType DEF PrefetchClock, ClockSecond, FetchInv
  <2>2. mem_address' \in Words
    BY <1>2, WordAddressType DEF PrefetchClock, ClockRequest, FetchInv
  <2>3. data.hi \in Byte
    BY MemContents DEF FetchInv
  <2>4. fetched_high_byte' \in Byte
    BY <1>2, <2>3 DEF PrefetchClock, ClockSecond, FetchInv
  <2> QED BY <2>1, <2>2, <2>4
<1>8. CASE mem_access2 /\ ~ack
  <2>1. /\ mem_access2' = TRUE
        /\ mem_address' = WordAddress(cs, fetch_address)
        /\ cs' = cs
        /\ fetch_address' = fetch_address
    BY <1>1, <1>2, <1>8 DEF PrefetchClock, ClockRequest, ClockTarget, mem_access, fifo_wr_en,
       FetchInv, RoomInv, WordInv
  <2>2. grant_active' /\ ~grant_to_b' /\ pending' \subseteq Ports
    BY <1>1, <1>2, <1>8, BusStep
  <2>3. TypeOK'
    <3>1. DataTypeOK'
      BY <1>3, <1>4, <1>6, <1>7, <2>1 DEF FetchInv
    <3>2. ControlTypeOK'
      BY <1>2, <1>3, <1>4, <1>5, <1>8, <2>1, BusStep
    <3> QED BY <3>1, <3>2
  <2>4. StreamMatchesProgram'
    BY <1>3 DEF StreamMatchesProgram
  <2>5. AbortInv' /\ FollowInv' /\ GrantInv'
    <3>1. int_left' # 1
      BY <1>4
    <3>2. data_state' \in {"idle", "access"} /\ ~executing'
      BY <1>3, <1>4
    <3>3. abort_cur'
      BY <1>5, <1>8
    <3> QED BY <1>3, <1>5, <1>6, <2>1, <2>2, <3>1, <3>2, <3>3 DEF AbortInv, FollowInv, GrantInv
  <2>6. WordInv' /\ RoomInv'
    <3>1. Len(queue') = 0 /\ QueueDepth - QueueThreshold > 0
      BY <1>3, <1>8 DEF FetchInv, RoomInv, fifo_full
    <3> QED BY <1>5, <2>1, <3>1 DEF WordInv, RoomInv, fifo_full, WordAddress
  <2> QED BY <2>3, <2>4, <2>5, <2>6 DEF FetchInv
<1>9. CASE ~(mem_access2 /\ ~ack)
  <2>1. /\ mem_access2' = FALSE
        /\ cs' = new_cs
        /\ fetch_address' = new_ip
    BY <1>1, <1>2, <1>9 DEF PrefetchClock, ClockRequest, ClockTarget, mem_access, FetchInv
  <2>2. ~grant_active' /\ ~("q" \in pending') /\ pending' \subseteq Ports
    BY <1>1, <1>2, <1>9, BusStep
  <2>3. TypeOK'
    <3>1. DataTypeOK'
      BY <1>3, <1>4, <1>6, <1>7, <2>1
    <3>2. ControlTypeOK'
      BY <1>2, <1>3, <1>4, <1>5, <1>9, <2>1, BusStep
    <3> QED BY <3>1, <3>2
  <2>4. StreamMatchesProgram'
    BY <1>3 DEF StreamMatchesProgram
  <2>5. Ahead(Len(queue))' = new_ip
    BY <1>3 DEF Ahead
  <2>6. AbortInv' /\ FollowInv' /\ GrantInv' /\ WordInv' /\ RoomInv'
    BY <1>3, <1>5, <1>9, <2>1, <2>2, <2>5 DEF AbortInv, FollowInv, GrantInv, WordInv, RoomInv
  <2> QED BY <2>3, <2>4, <2>6 DEF FetchInv
<1> QED BY <1>8, <1>9

(* A cycle without a branch: the prefetcher writes at most one byte, the   *)
(* one at fetch_address, and the core reads at most one.                   *)
LEMMA FetchStep ==
  ASSUME SharedBus, FetchInv, NEW acks \in SUBSET pending, NEW rd_en \in BOOLEAN,
         NEW start \in BOOLEAN, NEW second \in BOOLEAN, NEW interrupt \in BOOLEAN,
         Clock(acks, FALSE, arch_cs, next_ip, rd_en, start, second, interrupt)
  PROVE  FetchInv'
<1> USE QueueAssumption, IPSizeAssumption, IntAccessesAssumption
<1> DEFINE ack == instr_ack(acks)
           data == Mem[mem_address]
           wr == ~abort_cur /\ (ack \/ write_second)
           d == fifo_wr_data(ack, data)
<1>1. /\ PrefetchClock(FALSE, arch_cs, next_ip, fifo_full, ack, data)
      /\ ClockBus(acks)
      /\ Q!QueueClock(abort_cur /\ ack, wr, d, rd_en)
      /\ ClockData(start, second, acks)
      /\ ClockCore(FALSE, interrupt, rd_en)
      /\ start => ~busy /\ (int_left > 1 \/ (int_left = 0 /\ executing))
      /\ arch_cs' = arch_cs
      /\ next_ip' = IF rd_en /\ queue # << >> THEN Inc(next_ip) ELSE next_ip
  BY DEF Clock, MayAccess, ClockGhost, fifo_reset, fifo_wr_en
<1>2. /\ ack => mem_access2 /\ grant_active /\ ~grant_to_b /\ ~grant_active'
      /\ data_ack(acks) => grant_active /\ grant_to_b
      /\ grant_active' \in BOOLEAN /\ grant_to_b' \in BOOLEAN
      /\ pending' \subseteq Ports
      /\ "q" \in pending' => grant_active'
      /\ grant_active' /\ grant_to_b' => busy /\ ~data_ack(acks)
      /\ grant_active' /\ ~grant_to_b' => mem_access2 /\ ~ack
      /\ grant_active /\ ~grant_to_b /\ ~ack => grant_active' /\ ~grant_to_b'
  BY <1>1, BusStep
<1>3. data.lo \in Byte /\ data.hi \in Byte /\ d \in Byte
  BY MemContents DEF FetchInv, fifo_wr_data
<1>4. /\ next_sequential_fetch' \in Offsets
      /\ mem_address' \in Words
      /\ fetched_high_byte' \in Byte
      /\ next_cs' = next_cs
      /\ next_fetch_address' = next_fetch_address
  <2>1. next_sequential_fetch' \in Offsets /\ fetched_high_byte' \in Byte
    BY <1>1, <1>3, IncType DEF PrefetchClock, ClockSecond, FetchInv
  <2>2. mem_address' \in Words
    BY <1>1, WordAddressType DEF PrefetchClock, ClockRequest, FetchInv
  <2>3. next_cs' = next_cs /\ next_fetch_address' = next_fetch_address
    BY <1>1 DEF PrefetchClock, ClockTarget
  <2> QED BY <2>1, <2>2, <2>3
<1>5. /\ int_left' \in 0 .. IntAccesses + 1
      /\ executing' \in BOOLEAN
      /\ executing' = (executing \/ (rd_en /\ queue # << >>))
      /\ data_state' \in {"idle", "access", "second", "complete"}
      /\ data_state # "complete" /\ int_left # 1 => int_left' # 1
      /\ ~data_ack(acks) /\ data_state \in {"idle", "access"} => data_state' \in {"idle", "access"}
      /\ busy /\ ~data_ack(acks) => data_state' = data_state
  BY <1>1 DEF ClockCore, ClockData, FetchInv, busy
<1>6. /\ abort_cur' = (abort_cur /\ ~ack)
      /\ mem_access2' = (~fifo_full /\ ~ack /\ ~write_second)
      /\ ~ack => mem_address' = WordAddress(cs, fetch_address)
      /\ write_second' = (ack /\ ~abort_cur /\ ~Odd(fetch_address))
      /\ ack => fetched_high_byte' = data.hi
  BY <1>1 DEF PrefetchClock, ClockAbort, ClockRequest, ClockSecond, mem_access, fifo_reset,
     FetchInv
<1>7. ControlTypeOK'
  BY <1>2, <1>5, <1>6
<1>8. CASE abort_cur /\ ack
  <2>1. queue = << >> /\ next_ip' = next_ip /\ queue' = << >>
    BY <1>1, <1>8 DEF FetchInv, AbortInv, Q!QueueClock, Q!Drop
  <2>2. cs' = arch_cs /\ fetch_address' = next_ip
    BY <1>1, <1>8 DEF PrefetchClock, ClockTarget, FetchInv, AbortInv
  <2>3. ~abort_cur' /\ ~mem_access2' /\ ~write_second'
    BY <1>6, <1>8
  <2>4. DataTypeOK'
    BY <1>1, <1>4, <1>5, <2>1, <2>2 DEF FetchInv
  <2>5. StreamMatchesProgram'
    BY <2>1 DEF StreamMatchesProgram
  <2>6. Ahead(Len(queue))' = next_ip
    BY <2>1 DEF Ahead, FetchInv
  <2>7. ~grant_active' /\ ~("q" \in pending')
    BY <1>2, <1>8
  <2>8. AbortInv' /\ FollowInv' /\ WordInv' /\ RoomInv' /\ GrantInv'
    BY <1>1, <2>2, <2>3, <2>6, <2>7 DEF AbortInv, FollowInv, WordInv, RoomInv, GrantInv
  <2> QED BY <1>7, <2>4, <2>5, <2>8 DEF FetchInv
<1>9. CASE abort_cur /\ ~ack
  <2>1. /\ queue = << >> /\ ~write_second /\ mem_access2 /\ ~fifo_full
        /\ grant_active /\ ~grant_to_b
        /\ data_state \in {"idle", "access"} /\ ~executing /\ int_left # 1
        /\ next_cs = arch_cs /\ next_fetch_address = next_ip
    BY <1>9 DEF FetchInv, AbortInv, RoomInv
  <2>2. queue' = << >> /\ next_ip' = next_ip
    BY <1>1, <1>9, <2>1 DEF Q!QueueClock
  <2>3. cs' = cs /\ fetch_address' = fetch_address
    BY <1>1, <1>9 DEF PrefetchClock, ClockTarget, fifo_wr_en
  <2>4. /\ abort_cur' /\ mem_access2' /\ ~write_second'
        /\ mem_address' = WordAddress(cs, fetch_address)
    BY <1>6, <1>9, <2>1
  <2>5. grant_active' /\ ~grant_to_b'
    BY <1>2, <1>9, <2>1
  <2>6. DataTypeOK'
    BY <1>1, <1>4, <1>5, <2>2, <2>3 DEF FetchInv
  <2>7. StreamMatchesProgram'
    BY <2>2 DEF StreamMatchesProgram
  <2>8. AbortInv'
    <3>1. ~data_ack(acks)
      BY <1>2, <2>1
    <3>2. data_state' \in {"idle", "access"} /\ ~executing' /\ int_left' # 1
      BY <1>5, <2>1, <3>1
    <3> QED BY <1>1, <1>4, <2>1, <2>2, <2>4, <2>5, <3>2 DEF AbortInv
  <2>9. WordInv' /\ RoomInv' /\ FollowInv' /\ GrantInv'
    BY <1>2, <2>1, <2>2, <2>3, <2>4, <2>5
       DEF WordInv, RoomInv, FollowInv, GrantInv, fifo_full, WordAddress
  <2> QED BY <1>7, <2>6, <2>7, <2>8, <2>9 DEF FetchInv
<1>10. CASE ~abort_cur
  <2>1. cs = arch_cs /\ fetch_address = Ahead(Len(queue)) /\ ~abort_cur'
    BY <1>6, <1>10 DEF FetchInv, FollowInv
  <2>2. cs' = cs /\ fetch_address' = IF wr THEN Inc(fetch_address) ELSE fetch_address
    BY <1>1, <1>10 DEF PrefetchClock, ClockTarget, fifo_wr_en
  <2>3. ack => mem_access2 /\ ~write_second /\ mem_address = WordAddress(cs, fetch_address)
    BY <1>2 DEF FetchInv, WordInv
  <2>4. wr => Len(queue) < QueueDepth /\ d = ByteAt(arch_cs, fetch_address)
    <3>1. CASE ack
      BY <2>1, <2>3, <3>1 DEF FetchInv, RoomInv, fifo_full, fifo_wr_data, ByteAt
    <3>2. CASE ~ack /\ write_second
      BY <2>1, <3>2 DEF FetchInv, RoomInv, WordInv, fifo_wr_data
    <3> QED BY <3>1, <3>2
  <2>5. /\ queue' \in Seq(Byte)
        /\ Len(queue)' <= QueueDepth
        /\ Len(queue)' <= Len(queue) + (IF wr THEN 1 ELSE 0)
        /\ next_ip' \in Offsets
        /\ Ahead(Len(queue))' = IF wr THEN Inc(Ahead(Len(queue))) ELSE Ahead(Len(queue))
        /\ StreamMatchesProgram'
    <3>1. Q!QueueClock(FALSE, wr, d, rd_en)
      BY <1>1, <1>10
    <3>2. wr \in BOOLEAN
      BY <1>10
    <3>3. next_ip \in Offsets /\ queue \in Seq(Byte) /\ Len(queue) <= QueueDepth /\ StreamMatchesProgram
      BY DEF FetchInv
    <3>4. wr => Len(queue) < QueueDepth /\ d = ByteAt(arch_cs, Ahead(Len(queue)))
      BY <2>1, <2>4
    <3> HIDE DEF wr, d
    <3> QED BY <1>1, <1>3, <3>1, <3>2, <3>3, <3>4, QueueStep
  <2>6. DataTypeOK'
    BY <1>1, <1>4, <1>5, <2>2, <2>5, IncType DEF FetchInv
  <2>7. FollowInv' /\ AbortInv'
    BY <1>1, <2>1, <2>2, <2>5 DEF FollowInv, AbortInv
  <2>8. WordInv'
    <3>1. mem_access2' => ~wr /\ ~write_second' /\ mem_address' = WordAddress(cs, fetch_address)
      BY <1>6
    <3>2. ASSUME write_second'
          PROVE  Odd(fetch_address') /\ fetched_high_byte' = ByteAt(cs', fetch_address')
      <4>1. ack /\ ~Odd(fetch_address) /\ fetched_high_byte' = data.hi
        BY <1>6, <3>2
      <4>2. fetch_address' = Inc(fetch_address) /\ mem_address = WordAddress(cs, fetch_address)
        BY <1>10, <2>2, <2>3, <4>1
      <4>3. Odd(Inc(fetch_address)) /\ WordAddress(cs, Inc(fetch_address)) = WordAddress(cs, fetch_address)
        BY <4>1, SameWord DEF FetchInv
      <4> QED BY <2>2, <4>1, <4>2, <4>3 DEF ByteAt
    <3>3. ByteAt(cs', fetch_address') = ByteAt(cs, fetch_address)' /\ Odd(fetch_address') = Odd(fetch_address)'
      BY DEF ByteAt, WordAddress, Odd
    <3> HIDE DEF wr
    <3> QED BY <2>2, <3>1, <3>2, <3>3 DEF WordInv, WordAddress
  <2>9. RoomInv'
    <3>1. mem_access2' => ~fifo_full /\ ~wr
      BY <1>6
    <3>2. write_second' => ack
      BY <1>6
    <3>3. ack => ~fifo_full
      BY <2>3 DEF FetchInv, RoomInv
    <3>4. Len(queue) \in Nat /\ Len(queue') \in Nat
      BY <2>5 DEF FetchInv
    <3> HIDE DEF wr
    <3>5. mem_access2' => Len(queue') < QueueDepth - QueueThreshold
      BY <2>5, <3>1, <3>4 DEF fifo_full
    <3>6. write_second' => Len(queue') <= QueueDepth - QueueThreshold
      BY <2>5, <3>2, <3>3, <3>4 DEF fifo_full
    <3> QED BY <3>4, <3>5, <3>6 DEF RoomInv, fifo_full
  <2>10. GrantInv'
    <3>1. grant_active' /\ grant_to_b' => busy'
      BY <1>2, <1>5 DEF busy
    <3>2. grant_active' /\ ~grant_to_b' => mem_access2'
      BY <1>2, <1>6 DEF FetchInv, RoomInv, WordInv
    <3> QED BY <1>2, <3>1, <3>2 DEF GrantInv
  <2> QED BY <1>7, <2>5, <2>6, <2>7, <2>8, <2>9, <2>10 DEF FetchInv
<1> QED BY <1>8, <1>9, <1>10

LEMMA NextFetchInv == SharedBus /\ FetchInv /\ [Next]_vars => FetchInv'
<1> SUFFICES ASSUME SharedBus, FetchInv, [Next]_vars PROVE FetchInv'
  OBVIOUS
<1>1. CASE Fetch
  <2>1. PICK acks \in SUBSET pending, rd_en \in BOOLEAN, start \in BOOLEAN,
             second \in BOOLEAN, interrupt \in BOOLEAN :
          Clock(acks, FALSE, arch_cs, next_ip, rd_en, start, second, interrupt)
    BY <1>1 DEF Fetch
  <2> QED BY <2>1, FetchStep
<1>2. CASE Branch
  <2>1. PICK acks \in SUBSET pending, new_cs \in Segments, new_ip \in Offsets,
             rd_en \in BOOLEAN, second \in BOOLEAN, interrupt \in BOOLEAN :
          Clock(acks, TRUE, new_cs, new_ip, rd_en, FALSE, second, interrupt)
    BY <1>2 DEF Branch
  <2> QED BY <2>1, BranchStep
<1>3. CASE UNCHANGED vars
  <2> USE <1>3 DEF vars, prefetch_vars, arbiter_vars, core_vars, ghost_vars, FetchInv
  <2>1. DataTypeOK' /\ ControlTypeOK'
    BY DEF Ports
  <2>2. StreamMatchesProgram' /\ FollowInv'
    BY DEF StreamMatchesProgram, FollowInv, Ahead, ByteAt, WordAddress, Odd
  <2>3. AbortInv' /\ WordInv' /\ RoomInv' /\ GrantInv'
    BY DEF AbortInv, WordInv, RoomInv, GrantInv, ByteAt, WordAddress, Odd, busy, fifo_full
  <2> QED BY <2>1, <2>2, <2>3
<1> QED BY <1>1, <1>2, <1>3 DEF Next

(* The inductive invariant of the fetch path, for every queue depth,       *)
(* segment size, memory and latency, when both ports share a bus.          *)
THEOREM FetchInvariant == SharedBus /\ Spec => []FetchInv
<1> SUFFICES ASSUME SharedBus PROVE Spec => []FetchInv
  OBVIOUS
<1>1. FetchInv /\ [Next]_vars => FetchInv'
  BY NextFetchInv
<1> QED BY <1>1, InitFetchInv, PTL DEF Spec

(* Prefetch.sv with its queue, behind the MemArbiter of Top.sv, hands the  *)
(* decoder exactly the bytes of the program at CS:IP.                      *)
THEOREM StreamCorrect == SharedBus /\ Spec => []StreamMatchesProgram
<1>1. FetchInv => StreamMatchesProgram
  BY DEF FetchInv
<1> QED BY <1>1, FetchInvariant, PTL

(* nearly_full stops Prefetch.sv early enough that Fifo.sv never has to    *)
(* drop a byte, for every depth and every threshold of at least one.       *)
THEOREM QueueNeverOverflows == SharedBus /\ Spec => []NoByteDropped
<1>1. FetchInv => NoByteDropped
  BY QueueAssumption DEF FetchInv, RoomInv, NoByteDropped, fifo_full
<1> QED BY <1>1, FetchInvariant, PTL

(* A request of Prefetch.sv that the bus is working on stays on the bus,   *)
(* at the same address, whatever branches meanwhile.                       *)
THEOREM RequestNeverMoves == SharedBus /\ Spec => RequestStable
<1> SUFFICES ASSUME SharedBus PROVE Spec => RequestStable
  OBVIOUS
<1>1. ASSUME FetchInv, [Next]_vars
      PROVE  [InFlight' => mem_access2' /\ mem_address' = mem_address]_vars
  <2>1. FetchInv'
    BY <1>1, NextFetchInv
  <2>2. ASSUME NEW acks \in SUBSET pending, NEW load \in BOOLEAN, NEW new_cs, NEW new_ip,
               NEW rd_en, NEW start, NEW second, NEW interrupt,
               Clock(acks, load, new_cs, new_ip, rd_en, start, second, interrupt), InFlight'
        PROVE  mem_access2' /\ mem_address' = mem_address
    <3>1. ClockBus(acks) /\ ClockRequest(load, fifo_full, instr_ack(acks))
      BY <2>2 DEF Clock, PrefetchClock
    <3>2. grant_active' /\ ~grant_to_b'
      BY <2>2 DEF InFlight
    <3>3. mem_access2 /\ ~instr_ack(acks)
      BY <1>1, <3>1, <3>2, BusStep
    <3>4. mem_address' = WordAddress(cs, fetch_address)
      BY <3>1, <3>3 DEF ClockRequest
    <3>5. mem_address = WordAddress(cs, fetch_address)
      BY <1>1, <3>3 DEF FetchInv, WordInv
    <3>6. mem_access2'
      BY <2>1, <3>2 DEF FetchInv, GrantInv
    <3> QED BY <3>4, <3>5, <3>6
  <2>3. CASE Fetch
    BY <2>2, <2>3 DEF Fetch
  <2>4. CASE Branch
    BY <2>2, <2>4 DEF Branch
  <2> QED BY <1>1, <2>3, <2>4 DEF Next
<1> QED BY <1>1, FetchInvariant, PTL DEF Spec, RequestStable
=============================================================================
