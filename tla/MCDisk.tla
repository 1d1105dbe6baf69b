------------------------------- MODULE MCDisk -------------------------------
EXTENDS Disk

(* Boot sector 0, and sectors 255 and 256 (head 4, sectors 4 and 5), whose *)
(* addresses differ in more than one byte of the argument, with data that  *)
(* look like tokens and like an idle bus.                                  *)
MCDiskImage == 0 :> 85 @@ 1 :> 254 @@ 510 :> 255 @@ 511 :> 254 @@ 512 :> 0 @@ 513 :> 255
MCPayloads == {<<254, 5>>, <<255, 0>>}

Call(ah, al, cl, dl) ==
  [ah |-> ah, al |-> al, ch |-> 0, cl |-> cl, dh |-> 4, dl |-> dl, bx |-> 0]
MCCalls == {Call(2, 1, 5, 128), Call(2, 2, 4, 128), Call(3, 1, 4, 128), Call(3, 2, 4, 128),
            Call(2, 1, 4, 0)}
             \cup {Call(ah, 1, 4, dl) : ah \in {0, 1, 5, 8, 21}, dl \in {0, 128}}
=============================================================================
