------------------------------- MODULE MCFifo -------------------------------
(* Model-checking instance of Fifo: a depth that is not a power of two, so  *)
(* that the explicit pointer wrap is exercised.                             *)
EXTENDS Fifo
=============================================================================
