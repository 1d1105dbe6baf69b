-------------------------------- MODULE SDRAM --------------------------------
(***************************************************************************)
(* The controller with an SDR SDRAM device on its pins and a host (cache   *)
(* or VGA, through the arbiter of Top.sv) that keeps a request up until it *)
(* is completed.  The device knows the open row of each bank and how long  *)
(* a bank may take no command; it samples the pins at every clock edge.    *)
(* One byte, at Tracked, is written with the values Fresh, every other one *)
(* with 0.                                                                 *)
(***************************************************************************)
EXTENDS SDRAMController

CONSTANTS NoRow,         \* a bank without an open row
          Fresh,         \* values written to the tracked byte
          Tracked,       \* its cell
          MaxResets      \* bound on the number of resets

ASSUME NoRowAssumption == NoRow \notin Rows
ASSUME TrackedAssumption == Tracked \in Banks \X Rows \X Cols /\ 0 \notin Fresh /\ MaxResets \in Nat

VARIABLES contents,   \* the device: cells,
          dev_row,    \*   the open row of each bank or NoRow,
          dev_wait,   \*   cycles until the bank takes a command,
          dq,         \*   read data on its way to the pins, oldest last
          access, request,
          expected,   \* what a read of the tracked byte may return
          age,        \* cycles since the last refresh command
          resets

vars == <<controller_vars, contents, dev_row, dev_wait, dq, access, request, expected, age, resets>>

Cells == Banks \X Rows \X Cols
CellOf(r) == <<r.bank, r.row, r.col>>

(* Requests with the lines a read does not use at rest. *)
Requests ==
  {r \in [wr : BOOLEAN, bank : Banks, row : Rows, col : Cols, data : Fresh \cup {0}, be : BOOLEAN] :
     IF r.wr THEN r.data \in Fresh <=> (r.be /\ CellOf(r) = Tracked) ELSE r.data = 0 /\ r.be}

(* Longest time between two refresh commands: the refresh itself and the    *)
(* timer; an access that has just begun, with a row to activate and the     *)
(* cycle of its completion; then the decision to refresh and the precharge. *)
AccessTime == IF cas > tRP THEN cas + 1 ELSE tRP + 1
WorstRefreshGap == tRC + (tRef - max_cmd_period) + tRCD + AccessTime + 1 + 1 + tRP
AgeLimit == WorstRefreshGap + 1

Init ==
  /\ ControllerInit
  /\ contents = [c \in Cells |-> 0]
  /\ dev_row \in [Banks -> Rows \cup {NoRow}]
  /\ dev_wait = [b \in Banks |-> 0]
  /\ dq = [i \in 1 .. cas |-> 0]
  /\ access = FALSE /\ request \in {r \in Requests : ~r.wr}
  /\ expected = {0}
  /\ age = 0 /\ resets = 0

(* What the device makes of the command c on the pins. *)
Device(c) ==
  LET touched == IF c \in {"REF", "MRS"} \/ (c = "PRE" /\ s_addr.a10) THEN Banks
                 ELSE IF c \in {"ACT", "PRE"} THEN {s_banksel} ELSE {}
      time == CASE c = "REF" -> tRC [] c = "MRS" -> tMRD [] c = "PRE" -> tRP [] OTHER -> tRCD
      cell == <<s_banksel, dev_row[s_banksel], s_addr.bits>>
  IN  /\ dev_wait' = [b \in Banks |-> IF b \in touched THEN time - 1
                                      ELSE IF dev_wait[b] = 0 THEN 0 ELSE dev_wait[b] - 1]
      /\ dev_row' = [b \in Banks |-> IF b \notin touched THEN dev_row[b]
                                     ELSE CASE c = "PRE" -> NoRow
                                            [] c = "ACT" -> s_addr.bits
                                            [] OTHER -> dev_row[b]]
      /\ contents' = IF c = "WRITE" /\ oe /\ ~outmask /\ cell \in Cells
                     THEN [contents EXCEPT ![cell] = outdata] ELSE contents
      /\ dq' = [i \in 1 .. cas |-> IF i > 1 THEN dq[i - 1]
                                   ELSE IF c = "READ" /\ cell \in Cells THEN contents[cell] ELSE 0]
      /\ age' = IF ~h_config_done' THEN 0
                ELSE IF c = "REF" THEN 1
                ELSE IF age = AgeLimit THEN age ELSE age + 1

(* The host's next request; its address lines move freely when it has none. *)
NewRequest == access' \in BOOLEAN /\ request' \in {r \in Requests : access' \/ ~r.wr}
KeepRequest == UNCHANGED <<access, request>>
WritesTracked == access /\ request.wr /\ request.be /\ CellOf(request) = Tracked

Clock ==
  /\ ControllerClock(access /\ ~h_compl, request, dq[cas])
  /\ Device(cmd)
  /\ IF access /\ ~h_compl THEN KeepRequest ELSE NewRequest
  /\ expected' = IF WritesTracked /\ h_compl THEN {request.data} ELSE expected
  /\ UNCHANGED resets

(* Reset cuts the command on the pins short or not; the host withdraws its *)
(* request (the VGA's) or keeps it up (the cache's).                       *)
Reset ==
  /\ resets < MaxResets
  /\ resets' = resets + 1
  /\ ControllerReset
  /\ Device(cmd) \/ Device("NOP")
  /\ KeepRequest \/ (NewRequest /\ ~access')
  /\ expected' = IF WritesTracked THEN expected \cup {request.data} ELSE expected

Next == Clock \/ Reset

Spec == Init /\ [][Next]_vars

(* The clock runs. *)
FairSpec == Spec /\ WF_vars(Clock)

-----------------------------------------------------------------------------
(* The device accepts every command it is given: rows are activated in     *)
(* closed banks, read and written only while open, refreshed only with all *)
(* banks precharged, and no command comes before the last one's time.      *)
(* Relates the controller's open-row table and timec to the device.        *)
CommandsLegal ==
  LET Ready(B) == \A b \in B : dev_wait[b] = 0
      Closed(B) == \A b \in B : dev_row[b] = NoRow
  IN  CASE cmd = "ACT" -> Ready({s_banksel}) /\ Closed({s_banksel})
        [] cmd \in {"READ", "WRITE"} -> Ready({s_banksel}) /\ dev_row[s_banksel] = request.row
        [] cmd = "PRE" -> Ready(IF s_addr.a10 THEN Banks ELSE {s_banksel})
        [] cmd \in {"REF", "MRS"} -> Ready(Banks) /\ Closed(Banks)
        [] OTHER -> TRUE

(* A completed read returns what was last written to its cell, with row    *)
(* changes, refreshes and resets in between.                               *)
ReadsReturnLastWrite ==
  access /\ h_compl /\ ~request.wr /\ CellOf(request) = Tracked => h_rdata \in expected

(* The refresh period is kept: the next refresh command is due tRef cycles *)
(* after the last.  SDRAMController.sv:61 "Need to refresh 8192 times every *)
(* tRef" (tRef of the code is that period divided by 8192) and :142 "Make  *)
(* sure that we refresh the correct number of times per refresh period and *)
(* have sufficient time to complete any transaction in progress".          *)
RefreshInTime == age <= tRef

(* How late the code can be: however the host's requests fall, two refresh *)
(* commands are never farther apart than WorstRefreshGap.                  *)
RefreshGapBounded == age <= WorstRefreshGap

(* Every request is completed: refreshes do not starve the host.           *)
RequestsCompleted == access ~> (h_compl \/ ~access)
=============================================================================
