-------------------------- MODULE MCCachedMemory ----------------------------
(* Model-checking instance of CachedMemory.  The tracked byte is in either  *)
(* word of a line; tags and lines are interchangeable.                      *)
EXTENDS CachedMemory

MCValue == {Other} \cup Fresh
MCTracked == {[tag |-> CHOOSE t \in Tags : TRUE, idx |-> 0, off |-> o] : o \in Offset}
=============================================================================
