--------------------------- MODULE SDRAMController ---------------------------
(***************************************************************************)
(* fpga/sdram/SDRAMController.sv with its two Counters: the command state  *)
(* machine, the open-row table and the refresh timer.  A request r of the  *)
(* host is a record of wr, bank, row, col, data and be (the byte enable of *)
(* the one byte lane that is modelled).                                    *)
(***************************************************************************)
EXTENDS Naturals

CONSTANTS NBanks,                              \* 4: number of banks
          Rows, Cols,
          Value,                               \* of the byte lane, 0 among them
          tReset, tRC, tRP, tMRD, tRCD, cas,   \* in clock cycles
          tRef                                 \* cycles from one refresh to the next

Banks == 0 .. NBanks - 1
max_cmd_period == tRCD + tRP + 1

ASSUME TimingAssumption ==
  /\ {tReset, tRC, tRP, tMRD, tRCD, cas, tRef} \subseteq Nat \ {0}
  /\ \A t \in {tRC, tRP + 1, tMRD, tRCD, cas + 1} : tReset >= t
  /\ tRef > max_cmd_period
  /\ NBanks \in Nat \ {0} /\ 0 \in Value

VARIABLES state, timec, refresh_count,
          cmd, s_addr, s_banksel, oe, outdata, outmask,  \* pins of the SDRAM
          h_rdata, h_compl, h_config_done,               \* answer to the host
          row_is_open, open_row

controller_vars == <<state, timec, refresh_count, cmd, s_addr, s_banksel, oe, outdata, outmask,
                     h_rdata, h_compl, h_config_done, row_is_open, open_row>>

States == {"RESET", "RESET_PCH", "RESET_REF1", "RESET_REF2", "MRS", "IDLE",
           "ACT", "READ", "WRITE", "PCH", "AUTOREF"}
Commands == {"NOP", "READ", "WRITE", "ACT", "PRE", "REF", "MRS"}

(* s_addr: a row, a column or a mode; a10 asks PRE for all banks. *)
Pins(a10, bits) == [a10 |-> a10, bits |-> bits]

autorefresh_pending == refresh_count = tRef - max_cmd_period
autorefresh_counter_clr == state = "AUTOREF" /\ timec = tRC - 1

Reading == state = "READ" /\ timec = cas
Writing == state = "WRITE" /\ timec = tRP

(* The value of timec with which each state other than IDLE is left. *)
LastCycle ==
  [RESET |-> tReset - 1, RESET_PCH |-> tRP - 1, RESET_REF1 |-> tRC - 1, RESET_REF2 |-> tRC - 1,
   MRS |-> tMRD - 1, ACT |-> tRCD - 1, WRITE |-> tRP, READ |-> cas, PCH |-> tRP - 1,
   AUTOREF |-> tRC - 1]

Access(r) == IF r.wr THEN "WRITE" ELSE "READ"
RowHit(r) == row_is_open[r.bank] /\ open_row[r.bank] = r.row

(* Mutant of IdleNext: any open row counts as the row of the request. *)
IdleNextAnyRow(access, r) ==
  IF h_compl THEN "IDLE"
  ELSE IF autorefresh_pending THEN "PCH"
  ELSE IF ~access THEN "IDLE"
  ELSE IF row_is_open[r.bank] THEN Access(r) ELSE "ACT"

IdleNext(access, r) ==
  IF h_compl THEN "IDLE"
  ELSE IF autorefresh_pending THEN "PCH"
  ELSE IF ~access THEN "IDLE"
  ELSE IF RowHit(r) THEN Access(r)
  ELSE IF row_is_open[r.bank] THEN "PCH" ELSE "ACT"

next_state(access, r) ==
  IF state = "IDLE" THEN IdleNext(access, r)
  ELSE IF timec # LastCycle[state] THEN state
  ELSE CASE state = "RESET" -> "RESET_PCH"
         [] state = "RESET_PCH" -> "RESET_REF1"
         [] state = "RESET_REF1" -> "RESET_REF2"
         [] state = "RESET_REF2" -> "MRS"
         [] state = "ACT" -> Access(r)
         [] state = "PCH" /\ s_addr.a10 -> "AUTOREF"
         [] OTHER -> "IDLE"

(* Counter.sv saturates. *)
Count(c, max) == IF c = max THEN c ELSE c + 1

ControllerInit ==
  /\ state = "RESET" /\ timec = 0 /\ refresh_count = 0
  /\ cmd = "NOP" /\ s_addr = Pins(FALSE, 0) /\ s_banksel = 0 /\ oe = FALSE
  /\ outdata \in Value /\ outmask \in BOOLEAN
  /\ h_rdata = 0 /\ h_compl = FALSE /\ h_config_done = FALSE
  /\ row_is_open = [b \in Banks |-> FALSE]
  /\ open_row \in [Banks -> Rows]

(* The command of a new state goes out with it; NOPs follow. *)
ClockPins(next, r) ==
  /\ cmd' = IF next = state THEN "NOP"
            ELSE CASE next \in {"RESET_PCH", "PCH"} -> "PRE"
                   [] next \in {"RESET_REF1", "RESET_REF2", "AUTOREF"} -> "REF"
                   [] next \in {"ACT", "READ", "WRITE", "MRS"} -> next
                   [] OTHER -> "NOP"
  /\ s_addr' = IF next = state THEN s_addr
               ELSE CASE next = "RESET_PCH" -> Pins(TRUE, 0)
                      [] next = "PCH" -> Pins(autorefresh_pending, 0)
                      [] next = "ACT" -> Pins(FALSE, r.row)
                      [] next \in {"READ", "WRITE"} -> Pins(FALSE, r.col)
                      [] next = "MRS" -> Pins(FALSE, cas)
                      [] OTHER -> s_addr
  /\ s_banksel' = IF next = state THEN s_banksel
                  ELSE CASE next \in {"ACT", "READ", "WRITE", "PCH"} -> r.bank
                         [] next = "RESET_PCH" -> NBanks - 1
                         [] next = "MRS" -> 0
                         [] OTHER -> s_banksel
  /\ oe' = IF next = state THEN oe ELSE (next = "WRITE" \/ (oe /\ next # "IDLE"))

(* Mutant of NextRows: the table is not cleared by the auto refresh. *)
NextRowsKept(r) ==
  /\ row_is_open' = CASE state = "ACT" -> [row_is_open EXCEPT ![r.bank] = TRUE]
                      [] state = "PCH" -> [row_is_open EXCEPT ![r.bank] = FALSE]
                      [] OTHER -> row_is_open
  /\ open_row' = IF state = "ACT" THEN [open_row EXCEPT ![r.bank] = r.row] ELSE open_row

NextRows(r) ==
  /\ row_is_open' = CASE state = "ACT" -> [row_is_open EXCEPT ![r.bank] = TRUE]
                      [] state = "PCH" -> [row_is_open EXCEPT ![r.bank] = FALSE]
                      [] state = "AUTOREF" -> [b \in Banks |-> FALSE]
                      [] OTHER -> row_is_open
  /\ open_row' = IF state = "ACT" THEN [open_row EXCEPT ![r.bank] = r.row] ELSE open_row

(* Mutant of NextRefreshCount: the refresh does not restart the timer. *)
NextRefreshCountStuck == refresh_count' = Count(refresh_count, tRef - max_cmd_period)

NextRefreshCount ==
  refresh_count' = IF autorefresh_counter_clr THEN 0
                   ELSE Count(refresh_count, tRef - max_cmd_period)

(* One clock edge out of reset: access and r are the host's request, s_data *)
(* what the SDRAM drives.                                                   *)
ControllerClock(access, r, s_data) ==
  LET next == next_state(access, r)
  IN  /\ state' = next
      /\ timec' = IF next # state THEN 0 ELSE Count(timec, tReset)
      /\ NextRefreshCount
      /\ ClockPins(next, r)
      /\ NextRows(r)
      /\ h_rdata' = IF Reading THEN s_data ELSE 0
      /\ h_compl' = (Reading \/ Writing)
      /\ h_config_done' = (h_config_done \/ state = "IDLE")
      /\ outdata' = IF state = "IDLE" THEN r.data ELSE outdata
      /\ outmask' = IF state = "IDLE" THEN r.wr /\ ~r.be ELSE outmask

ControllerReset ==
  /\ state' = "RESET" /\ timec' = 0 /\ refresh_count' = 0
  /\ cmd' = "NOP" /\ s_addr' = Pins(FALSE, 0) /\ s_banksel' = 0 /\ oe' = FALSE
  /\ h_rdata' = 0 /\ h_compl' = FALSE /\ h_config_done' = FALSE
  /\ row_is_open' = [b \in Banks |-> FALSE]
  /\ UNCHANGED <<outdata, outmask, open_row>>
=============================================================================
