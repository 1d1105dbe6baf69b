------------------------------ MODULE MCSDRAM --------------------------------
(* Model-checking instance of SDRAM: two banks of two rows, the tracked byte *)
(* in one of them.                                                           *)
EXTENDS SDRAM

MCValue == Fresh \cup {0}
MCTracked == <<0, 1, 0>>
=============================================================================
