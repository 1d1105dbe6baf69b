------------------------------ MODULE MCConsole ------------------------------
(* Model-checking instance of Console: long sessions with one device and   *)
(* shorter ones with several.                                              *)
EXTENDS Console

MCKeymap == [a |-> {"normal", "shift", "ctrl", "alt"}, gap |-> {}]
MCPresses == {<<"a", FALSE>>, <<"a", TRUE>>, <<"gap", FALSE>>, <<"shift", FALSE>>, <<"shift", TRUE>>}
MCSessions ==
  {[uses |-> {"keys"}, inputs |-> 4, backends |-> {"SoftwareCPU"}],
   [uses |-> {"mouse", "interrupts"}, inputs |-> 3, backends |-> Backends],
   [uses |-> {"mouse", "timer", "interrupts"}, inputs |-> 2, backends |-> {"RTLCPU"}],
   [uses |-> {"keys", "timer", "interrupts"}, inputs |-> 1, backends |-> {"SoftwareCPU"}]}
=============================================================================
