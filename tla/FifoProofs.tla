----------------------------- MODULE FifoProofs -----------------------------
(***************************************************************************)
(* rtl/Fifo.sv implements the bounded queue for every depth and data set.  *)
(* The hardware keeps three redundant registers (both pointers and the     *)
(* count); nothing but the invariant PtrInv ties them together, and each   *)
(* is updated by an always block of its own.                               *)
(***************************************************************************)
EXTENDS Fifo, SequenceTheorems, TLAPS

Inv == TypeOK /\ PtrInv

(* What the registers do when the write port and / or the read port act.   *)
WriteEdge(d) ==
  /\ count < Depth
  /\ mem' = [mem EXCEPT ![wr_ptr] = d]
  /\ wr_ptr' = NextPtr(wr_ptr)
  /\ rd_ptr' = rd_ptr
  /\ count' = count + 1

ReadEdge ==
  /\ count > 0
  /\ mem' = mem
  /\ wr_ptr' = wr_ptr
  /\ rd_ptr' = NextPtr(rd_ptr)
  /\ count' = count - 1

BothEdge(d) ==
  /\ count > 0
  /\ count < Depth
  /\ mem' = [mem EXCEPT ![wr_ptr] = d]
  /\ wr_ptr' = NextPtr(wr_ptr)
  /\ rd_ptr' = NextPtr(rd_ptr)
  /\ count' = count

ClearEdge == mem' = mem /\ wr_ptr' = 0 /\ rd_ptr' = 0 /\ count' = 0

(* Every step of the FIFO is one of these four, or leaves it as it is.     *)
LEMMA EdgeCases ==
  ASSUME Inv, [Next]_fifo_vars
  PROVE  \/ ClearEdge
         \/ \E d \in Data : WriteEdge(d) \/ BothEdge(d)
         \/ ReadEdge
         \/ UNCHANGED fifo_vars
<1>1. CASE Reset
  BY <1>1 DEF Reset, ClearEdge
<1>2. ASSUME NEW flush \in BOOLEAN, NEW wr_en \in BOOLEAN, NEW rd_en \in BOOLEAN,
             NEW d \in Data, Clock(flush, wr_en, d, rd_en)
      PROVE  ClearEdge \/ WriteEdge(d) \/ BothEdge(d) \/ ReadEdge \/ UNCHANGED fifo_vars
  <2>1. CASE flush
    BY <1>2, <2>1 DEF Clock, ClearEdge
  <2>2. CASE ~flush /\ wr_en /\ ~full /\ rd_en /\ ~empty
    BY <1>2, <2>2, DepthAssumption DEF Clock, NextCount, BothEdge, Inv, TypeOK, full, empty
  <2>3. CASE ~flush /\ wr_en /\ ~full /\ ~(rd_en /\ ~empty)
    BY <1>2, <2>3, DepthAssumption DEF Clock, NextCount, WriteEdge, Inv, TypeOK, full, empty
  <2>4. CASE ~flush /\ ~(wr_en /\ ~full) /\ rd_en /\ ~empty
    BY <1>2, <2>4, DepthAssumption DEF Clock, NextCount, ReadEdge, Inv, TypeOK, full, empty
  <2>5. CASE ~flush /\ ~(wr_en /\ ~full) /\ ~(rd_en /\ ~empty)
    BY <1>2, <2>5 DEF Clock, NextCount, fifo_vars
  <2> QED BY <2>1, <2>2, <2>3, <2>4, <2>5
<1> QED BY <1>1, <1>2 DEF Next

LEMMA InitInv == Init => Inv
  BY DepthAssumption DEF Init, Inv, TypeOK, PtrInv, SlotOf, Slots

LEMMA NextInv == Inv /\ [Next]_fifo_vars => Inv'
<1> SUFFICES ASSUME Inv, [Next]_fifo_vars PROVE Inv'
  OBVIOUS
<1> USE DepthAssumption DEF Inv, TypeOK, PtrInv, SlotOf, Slots, NextPtr
<1>1. CASE ClearEdge
  BY <1>1 DEF ClearEdge
<1>2. ASSUME NEW d \in Data, WriteEdge(d) PROVE Inv'
  BY <1>2 DEF WriteEdge
<1>3. ASSUME NEW d \in Data, BothEdge(d) PROVE Inv'
  BY <1>3 DEF BothEdge
<1>4. CASE ReadEdge
  BY <1>4 DEF ReadEdge
<1>5. CASE UNCHANGED fifo_vars
  BY <1>5 DEF fifo_vars
<1> QED BY <1>1, <1>2, <1>3, <1>4, <1>5, EdgeCases

(* The registers of rtl/Fifo.sv never leave their ranges: the pointers     *)
(* stay below depth although their width could hold more.                  *)
THEOREM FifoTypeCorrect == Spec => []TypeOK
<1>1. Inv => TypeOK
  BY DEF Inv
<1> QED BY <1>1, InitInv, NextInv, PTL DEF Spec

-----------------------------------------------------------------------------
(* Append, entry by entry. *)
LEMMA AppendEntries ==
  ASSUME NEW S, NEW s \in Seq(S), NEW e \in S
  PROVE  Append(s, e) = [i \in 1 .. Len(s) + 1 |-> IF i <= Len(s) THEN s[i] ELSE e]
<1> DEFINE a == Append(s, e)
<1>1. /\ a \in Seq(S)
      /\ Len(a) = Len(s) + 1
      /\ \A i \in 1 .. Len(s) : a[i] = s[i]
      /\ a[Len(s) + 1] = e
  BY AppendProperties
<1> HIDE DEF a
<1>2. a = [i \in 1 .. Len(a) |-> a[i]]
  BY <1>1
<1>3. \A i \in 1 .. Len(s) + 1 : a[i] = IF i <= Len(s) THEN s[i] ELSE e
  BY <1>1
<1>4. a = [i \in 1 .. Len(s) + 1 |-> IF i <= Len(s) THEN s[i] ELSE e]
  BY <1>1, <1>2, <1>3
<1> QED BY <1>4 DEF a

(* The entries form a sequence no longer than the depth.                   *)
LEMMA ContentsType ==
  ASSUME Inv
  PROVE  /\ Contents \in Seq(Data)
         /\ Len(Contents) = count
<1> USE DepthAssumption DEF Inv, TypeOK, PtrInv, SlotOf, Slots
<1>1. \A i \in 1 .. count : SlotOf(i) \in Slots
  OBVIOUS
<1>2. Contents \in [1 .. count -> Data]
  BY <1>1 DEF Contents
<1> QED BY <1>2

(* Each kind of clock edge is the queue operation of the same name.        *)
LEMMA StepRefines == Inv /\ [Next]_fifo_vars => [Queue!QueueNext]_Contents
<1> SUFFICES ASSUME Inv, [Next]_fifo_vars PROVE [Queue!QueueNext]_Contents
  OBVIOUS
<1>0. Inv'
  BY NextInv
<1>a. /\ Contents \in Seq(Data)
      /\ Len(Contents) = count
      /\ Contents = [i \in 1 .. count |-> mem[SlotOf(i)]]
  BY ContentsType DEF Contents
<1>b. Contents' = [i \in 1 .. count' |-> mem'[SlotOf(i)']]
  BY DEF Contents
<1> USE DepthAssumption
<1>1. CASE ClearEdge
  <2>1. Contents' = << >>
    BY <1>1, <1>b DEF ClearEdge
  <2> QED BY <2>1 DEF Queue!QueueNext, Queue!Drop
<1>2. ASSUME NEW d \in Data, WriteEdge(d) PROVE Queue!QueueNext
  <2>1. \A i \in 1 .. count : SlotOf(i)' = SlotOf(i) /\ mem'[SlotOf(i)'] = mem[SlotOf(i)]
    BY <1>2 DEF WriteEdge, Inv, TypeOK, PtrInv, SlotOf, Slots
  <2>2. \A i \in 1 .. count' : i = count + 1 => mem'[SlotOf(i)'] = d
    BY <1>2 DEF WriteEdge, Inv, TypeOK, PtrInv, SlotOf, Slots
  <2>3. count \in Nat /\ count < Depth /\ count' = count + 1
    BY <1>2 DEF WriteEdge, Inv, TypeOK
  <2>4. Contents' = Append(Contents, d)
    <3>1. Append(Contents, d) = [i \in 1 .. count + 1 |-> IF i <= count THEN Contents[i] ELSE d]
      BY <1>a, <2>3
    <3>2. \A i \in 1 .. count + 1 : Contents'[i] = IF i <= count THEN Contents[i] ELSE d
      BY <1>a, <1>b, <2>1, <2>2, <2>3
    <3> QED BY <3>1, <3>2, <1>b, <2>3
  <2> QED BY <1>a, <2>3, <2>4 DEF Queue!QueueNext, Queue!Enqueue
<1>3. ASSUME NEW d \in Data, BothEdge(d) PROVE Queue!QueueNext
  <2>1. \A i \in 1 .. count - 1 : SlotOf(i)' = SlotOf(i + 1) /\ mem'[SlotOf(i)'] = mem[SlotOf(i + 1)]
    BY <1>3 DEF BothEdge, Inv, TypeOK, PtrInv, SlotOf, Slots, NextPtr
  <2>2. \A i \in 1 .. count' : i = count => mem'[SlotOf(i)'] = d
    BY <1>3 DEF BothEdge, Inv, TypeOK, PtrInv, SlotOf, Slots, NextPtr
  <2>3. count \in Nat /\ count > 0 /\ count < Depth /\ count' = count
    BY <1>3 DEF BothEdge, Inv, TypeOK
  <2>4. Contents' = Append(Tail(Contents), d)
    <3>1. /\ Tail(Contents) \in Seq(Data)
          /\ Len(Tail(Contents)) = count - 1
          /\ \A i \in 1 .. count - 1 : Tail(Contents)[i] = Contents[i + 1]
      BY <1>a, <2>3
    <3>2. Append(Tail(Contents), d)
            = [i \in 1 .. count |-> IF i <= count - 1 THEN Contents[i + 1] ELSE d]
      <4> DEFINE t == Tail(Contents)
      <4>1. t \in Seq(Data) /\ Len(t) = count - 1
        BY <3>1
      <4> HIDE DEF t
      <4>2. Append(t, d) = [i \in 1 .. Len(t) + 1 |-> IF i <= Len(t) THEN t[i] ELSE d]
        BY <4>1, AppendEntries
      <4>3. Len(t) + 1 = count
        BY <4>1, <2>3
      <4>4. \A i \in 1 .. count : i <= count - 1 => t[i] = Contents[i + 1]
        BY <3>1, <2>3 DEF t
      <4>5. Append(t, d) = [i \in 1 .. count |-> IF i <= count - 1 THEN Contents[i + 1] ELSE d]
        BY <4>1, <4>2, <4>3, <4>4
      <4> QED BY <4>5 DEF t
    <3>3. \A i \in 1 .. count : Contents'[i] = IF i <= count - 1 THEN Contents[i + 1] ELSE d
      BY <1>a, <1>b, <2>1, <2>2, <2>3
    <3> QED BY <3>2, <3>3, <1>b, <2>3
  <2>5. Contents # << >> /\ Len(Contents) < Depth
    BY <1>a, <2>3
  <2> QED BY <2>4, <2>5 DEF Queue!QueueNext, Queue!Pass
<1>4. CASE ReadEdge
  <2>1. \A i \in 1 .. count - 1 : SlotOf(i)' = SlotOf(i + 1)
    BY <1>4 DEF ReadEdge, Inv, TypeOK, SlotOf, Slots, NextPtr
  <2>2. count \in Nat /\ count > 0 /\ count' = count - 1 /\ mem' = mem
    BY <1>4 DEF ReadEdge, Inv, TypeOK
  <2>3. Contents' = Tail(Contents)
    BY <1>a, <1>b, <2>1, <2>2
  <2> QED BY <1>a, <2>2, <2>3 DEF Queue!QueueNext, Queue!Dequeue
<1>5. CASE UNCHANGED fifo_vars
  BY <1>5 DEF fifo_vars, Contents, SlotOf
<1> QED BY <1>1, <1>2, <1>3, <1>4, <1>5, EdgeCases

(* The circular buffer of rtl/Fifo.sv implements the bounded queue, for    *)
(* every depth: each clock edge, with any mix of write, read and flush, is *)
(* one queue operation or changes nothing that the ports can see.          *)
THEOREM FifoImplementsQueue == Spec => ImplementsQueue
<1>1. Init => Queue!QueueInit
  BY DEF Init, Queue!QueueInit, Contents
<1> QED BY <1>1, InitInv, NextInv, StepRefines, PTL
        DEF Spec, ImplementsQueue, Queue!QueueSpec
=============================================================================
