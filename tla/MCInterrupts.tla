---------------------------- MODULE MCInterrupts -----------------------------
(* Model-checking instances of Interrupts. *)
EXTENDS Interrupts

Session(kinds, lines, debugger) == [kinds |-> kinds, lines |-> lines, debugger |-> debugger]

(* Two lines that preempt each other; string instructions and faults; a    *)
(* debugger that seizes the core.                                          *)
MCSessions == {Session({"plain", "hold"}, {0, 1}, FALSE),
               Session({"plain", "hold", "move", "divide"}, {0}, FALSE),
               Session({"plain", "hold"}, {0}, TRUE)}

HaltSessions == {Session({"plain", "hold", "hlt"}, {0, 1}, FALSE)}

ScanSessions == {Session({"plain", "hold", "scan"}, {0}, FALSE)}
=============================================================================
