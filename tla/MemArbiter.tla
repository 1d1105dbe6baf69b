----------------------------- MODULE MemArbiter -----------------------------
(***************************************************************************)
(* rtl/MemArbiter.sv: two masters, a and b, share the bus q.  b wins when  *)
(* the bus is free; a grant is held until the bus acknowledges.            *)
(***************************************************************************)
VARIABLES grant_active, grant_to_b

arbiter_vars == <<grant_active, grant_to_b>>

(* The master whose request is on the bus. *)
q_b(b_access) == (grant_active /\ grant_to_b) \/ (~grant_active /\ b_access)

q_m_access(a_access, b_access, q_ack) == ~q_ack /\ (a_access \/ b_access)

a_m_ack(q_ack) == grant_active /\ ~grant_to_b /\ q_ack
b_m_ack(q_ack) == grant_active /\ grant_to_b /\ q_ack

(* grant_to_b has no reset. *)
ArbiterInit == grant_active = FALSE /\ grant_to_b \in BOOLEAN

(* Mutant of ArbiterClock: b takes the bus over while a's request is out. *)
ArbiterClockPreempt(a_access, b_access, q_ack) ==
  /\ grant_active' = (~q_ack /\ (grant_active \/ a_access \/ b_access))
  /\ grant_to_b' = IF ~q_ack /\ (a_access \/ b_access) THEN b_access ELSE grant_to_b

ArbiterClock(a_access, b_access, q_ack) ==
  LET granting == ~q_ack /\ ~grant_active /\ (a_access \/ b_access)
  IN  /\ grant_active' = (~q_ack /\ (grant_active \/ granting))
      /\ grant_to_b' = IF granting THEN b_access ELSE grant_to_b
=============================================================================
