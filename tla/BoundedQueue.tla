---------------------------- MODULE BoundedQueue ----------------------------
(***************************************************************************)
(* What rtl/Fifo.sv promises the modules that instantiate it: a bounded    *)
(* first-in first-out queue with a simultaneous write and read port and a  *)
(* flush.  A write to a full queue and a read from an empty one are        *)
(* ignored, and a write is judged against the occupancy BEFORE the read of *)
(* the same cycle frees an entry.  FifoProofs shows that Fifo implements   *)
(* it; the modules that use a FIFO are composed with this queue instead.   *)
(***************************************************************************)
EXTENDS Naturals, Sequences

CONSTANTS Data,     \* what an entry holds
          Depth     \* number of entries

VARIABLE queue

QueueInit == queue = << >>

(* Everything in the queue is dropped. *)
Drop == queue' = << >>

(* Only the write port acts. *)
Enqueue(d) ==
  /\ Len(queue) < Depth
  /\ queue' = Append(queue, d)

(* Only the read port acts. *)
Dequeue ==
  /\ queue # << >>
  /\ queue' = Tail(queue)

(* Both ports act in one cycle. *)
Pass(d) ==
  /\ queue # << >>
  /\ Len(queue) < Depth
  /\ queue' = Append(Tail(queue), d)

QueueNext ==
  \/ Drop
  \/ Dequeue
  \/ \E d \in Data : Enqueue(d) \/ Pass(d)

QueueSpec == QueueInit /\ [][QueueNext]_queue

(* One clock edge with the given pins, for a module composed with the queue. *)
QueueClock(flush, wr_en, d, rd_en) ==
  LET wr == wr_en /\ Len(queue) < Depth
      rd == rd_en /\ queue # << >>
  IN  \/ flush /\ Drop
      \/ ~flush /\ wr /\ ~rd /\ Enqueue(d)
      \/ ~flush /\ ~wr /\ rd /\ Dequeue
      \/ ~flush /\ wr /\ rd /\ Pass(d)
      \/ ~flush /\ ~wr /\ ~rd /\ UNCHANGED queue
=============================================================================
