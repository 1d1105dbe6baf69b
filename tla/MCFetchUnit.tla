---------------------------- MODULE MCFetchUnit -----------------------------
(* Model-checking instance of FetchUnit: every byte of memory is distinct,  *)
(* one segment wraps around the end of memory.                              *)
EXTENDS FetchUnit

MCByte == 0 .. 2 * MemWords - 1
MCMem == [w \in Words |-> [lo |-> 2 * w, hi |-> 2 * w + 1]]
=============================================================================
