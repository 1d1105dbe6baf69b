----------------------------- MODULE SDRAMProofs -----------------------------
(***************************************************************************)
(* The controller keeps to the SDRAM's protocol, loses no data and is never*)
(* late with a refresh, for every number of banks, rows and columns and    *)
(* all timings that TimingAssumption admits, with resets at any time.      *)
(***************************************************************************)
EXTENDS SDRAM, TLAPS

Setup == {"RESET", "RESET_PCH", "RESET_REF1", "RESET_REF2", "MRS"}
Pending == tRef - max_cmd_period

TypeInv ==
  /\ state \in States /\ timec \in 0 .. tReset /\ refresh_count \in 0 .. Pending
  /\ state # "IDLE" => timec <= LastCycle[state]
  /\ request \in Requests /\ access \in BOOLEAN
  /\ h_compl \in BOOLEAN /\ h_config_done \in BOOLEAN
  /\ row_is_open \in [Banks -> BOOLEAN] /\ open_row \in [Banks -> Rows]
  /\ dev_wait \in [Banks -> Nat] /\ contents \in [Cells -> Fresh \cup {0}]
  /\ age \in Nat

(* Command that goes out in the first cycle of a state. *)
FirstCommand ==
  [RESET |-> "NOP", RESET_PCH |-> "PRE", RESET_REF1 |-> "REF", RESET_REF2 |-> "REF",
   MRS |-> "MRS", IDLE |-> "NOP", ACT |-> "ACT", READ |-> "READ", WRITE |-> "WRITE",
   PCH |-> "PRE", AUTOREF |-> "REF"]

(* The request is served: its bank is the one on the pins, and it stays. *)
Serving == state \in {"ACT", "READ", "WRITE"} \/ (state = "PCH" /\ ~s_addr.a10)

PinsInv ==
  /\ cmd = IF timec = 0 THEN FirstCommand[state] ELSE "NOP"
  /\ state = "RESET_PCH" => s_addr.a10
  /\ Serving => access /\ s_banksel = request.bank
  /\ state = "ACT" => s_addr.bits = request.row
  /\ state \in {"READ", "WRITE"} => s_addr.bits = request.col /\ state = Access(request)
  /\ state \in {"ACT", "WRITE"} => outdata = request.data /\ outmask = (request.wr /\ ~request.be)
  /\ state = "WRITE" => oe
  /\ h_compl => state = "IDLE" /\ access

(* How long a bank may still refuse commands. *)
WaitLimit ==
  IF state \in {"IDLE", "READ", "WRITE"} \/ (timec = 0 /\ state # "RESET") THEN 0
  ELSE LastCycle[state] + 1 - timec

WaitInv == \A b \in Banks : dev_wait[b] <= WaitLimit

AllClosed ==
  \/ state \in {"RESET_REF1", "RESET_REF2", "MRS", "AUTOREF"}
  \/ state \in {"RESET_PCH", "PCH"} /\ s_addr.a10 /\ timec > 0

(* The table of open rows is the device's, except while all of its banks   *)
(* are being closed.                                                       *)
RowsInv ==
  /\ AllClosed => \A b \in Banks : dev_row[b] = NoRow
  /\ state \in Setup => \A b \in Banks : ~row_is_open[b]
  /\ state = "IDLE" \/ Serving =>
       \A b \in Banks : dev_row[b] = IF row_is_open[b] THEN open_row[b] ELSE NoRow
  /\ state = "ACT" => IF timec = 0 THEN ~row_is_open[request.bank] ELSE RowHit(request)
  /\ state \in {"READ", "WRITE"} => RowHit(request)
  /\ state = "PCH" /\ ~s_addr.a10 /\ timec > 0 => ~row_is_open[request.bank]

(* The write to the tracked byte has reached the device. *)
Written == WritesTracked /\ (h_compl \/ (state = "WRITE" /\ timec > 0))

DataInv ==
  /\ IF Written THEN contents[Tracked] = request.data ELSE contents[Tracked] \in expected
  /\ state = "READ" /\ timec > 0 => dq[timec] = contents[CellOf(request)]
  /\ h_compl /\ ~request.wr => h_rdata = contents[CellOf(request)]

(* How long a refresh has been due at most when the timer has run out. *)
Lag ==
  CASE state \in {"ACT", "PCH"} /\ ~(state = "PCH" /\ s_addr.a10) -> timec
    [] state \in {"READ", "WRITE"} -> tRCD + timec
    [] state = "IDLE" -> IF h_compl THEN tRCD + AccessTime ELSE tRCD + AccessTime + 1
    [] OTHER -> tRCD + AccessTime + 2 + timec

RefreshInv ==
  /\ state \in Setup => ~h_config_done
  /\ ~h_config_done => age = 0
  /\ state = "PCH" /\ s_addr.a10 => refresh_count = Pending
  /\ state = "AUTOREF" => age <= IF timec = 0 THEN WorstRefreshGap ELSE timec
  /\ state # "AUTOREF" =>
       age <= tRC + refresh_count + (IF refresh_count = Pending THEN Lag ELSE 0)

SDRAMInv == TypeInv /\ PinsInv /\ WaitInv /\ RowsInv /\ DataInv /\ RefreshInv
-----------------------------------------------------------------------------
LEMMA Timing ==
  /\ tReset \in Nat /\ tRC \in Nat /\ tRP \in Nat /\ tMRD \in Nat /\ tRCD \in Nat
  /\ cas \in Nat /\ tRef \in Nat
  /\ tReset >= 1 /\ tRC >= 1 /\ tRP >= 1 /\ tMRD >= 1 /\ tRCD >= 1 /\ cas >= 1
  /\ tReset >= tRC /\ tReset >= tRP + 1 /\ tReset >= tMRD /\ tReset >= tRCD
  /\ tReset >= cas + 1
  /\ Pending \in Nat /\ Pending >= 1
BY TimingAssumption DEF Pending, max_cmd_period

LEMMA LastCycles ==
  /\ LastCycle["RESET"] = tReset - 1 /\ LastCycle["RESET_PCH"] = tRP - 1
  /\ LastCycle["RESET_REF1"] = tRC - 1 /\ LastCycle["RESET_REF2"] = tRC - 1
  /\ LastCycle["MRS"] = tMRD - 1 /\ LastCycle["ACT"] = tRCD - 1
  /\ LastCycle["WRITE"] = tRP /\ LastCycle["READ"] = cas /\ LastCycle["PCH"] = tRP - 1
  /\ LastCycle["AUTOREF"] = tRC - 1
  /\ \A s \in States \ {"IDLE"} : LastCycle[s] \in 0 .. (tReset - 1)
<1>1. /\ LastCycle["RESET"] = tReset - 1 /\ LastCycle["RESET_PCH"] = tRP - 1
      /\ LastCycle["RESET_REF1"] = tRC - 1 /\ LastCycle["RESET_REF2"] = tRC - 1
      /\ LastCycle["MRS"] = tMRD - 1 /\ LastCycle["ACT"] = tRCD - 1
      /\ LastCycle["WRITE"] = tRP /\ LastCycle["READ"] = cas /\ LastCycle["PCH"] = tRP - 1
      /\ LastCycle["AUTOREF"] = tRC - 1
  BY DEF LastCycle
<1> QED BY <1>1, Timing DEF States

LEMMA FirstCommands ==
  /\ FirstCommand["RESET"] = "NOP" /\ FirstCommand["RESET_PCH"] = "PRE"
  /\ FirstCommand["RESET_REF1"] = "REF" /\ FirstCommand["RESET_REF2"] = "REF"
  /\ FirstCommand["MRS"] = "MRS" /\ FirstCommand["IDLE"] = "NOP" /\ FirstCommand["ACT"] = "ACT"
  /\ FirstCommand["READ"] = "READ" /\ FirstCommand["WRITE"] = "WRITE"
  /\ FirstCommand["PCH"] = "PRE" /\ FirstCommand["AUTOREF"] = "REF"
BY DEF FirstCommand

LEMMA RequestType ==
  ASSUME NEW r \in Requests
  PROVE  /\ r.wr \in BOOLEAN /\ r.be \in BOOLEAN /\ r.bank \in Banks /\ r.row \in Rows
         /\ r.data \in Fresh \cup {0} /\ CellOf(r) \in Cells
         /\ Access(r) = "WRITE" <=> r.wr
         /\ Access(r) = "READ" <=> ~r.wr
         /\ Access(r) \in {"READ", "WRITE"}
BY DEF Requests, CellOf, Cells, Access

LEMMA InitInv == Init => SDRAMInv
<1> SUFFICES ASSUME Init PROVE SDRAMInv
  OBVIOUS
<1> USE DEF Init, ControllerInit
<1>1. TypeInv
  <2>1. contents \in [Cells -> Fresh \cup {0}]
    <3> HIDE DEF Cells
    <3> QED OBVIOUS
  <2>2. /\ state \in States /\ timec \in 0 .. tReset /\ refresh_count \in 0 .. Pending
        /\ timec <= LastCycle[state] /\ age \in Nat
    BY Timing, LastCycles DEF States
  <2>3. row_is_open \in [Banks -> BOOLEAN] /\ dev_wait \in [Banks -> Nat]
    OBVIOUS
  <2> QED BY <2>1, <2>2, <2>3 DEF TypeInv
<1>2. PinsInv
  BY FirstCommands DEF PinsInv, Serving
<1>3. WaitInv
  BY Timing, LastCycles DEF WaitInv, WaitLimit
<1>4. RowsInv
  BY DEF RowsInv, AllClosed, Serving, Setup
<1>5. DataInv
  BY TrackedAssumption DEF DataInv, Written, WritesTracked, Cells
<1>6. RefreshInv
  BY Timing DEF RefreshInv, Setup
<1> QED BY <1>1, <1>2, <1>3, <1>4, <1>5, <1>6 DEF SDRAMInv

(* The state machine in terms of the states that follow one another. *)
LEMMA Moves ==
  ASSUME SDRAMInv, Clock
  PROVE  /\ state = "IDLE" => state' = IdleNext(access /\ ~h_compl, request)
         /\ state # "IDLE" /\ timec # LastCycle[state] =>
              /\ state' = state /\ timec' = timec + 1 /\ timec' <= LastCycle[state]
              /\ s_addr' = s_addr /\ s_banksel' = s_banksel /\ oe' = oe
         /\ state # "IDLE" /\ timec = LastCycle[state] =>
              /\ state = "RESET" => state' = "RESET_PCH"
              /\ state = "RESET_PCH" => state' = "RESET_REF1"
              /\ state = "RESET_REF1" => state' = "RESET_REF2"
              /\ state = "RESET_REF2" => state' = "MRS"
              /\ state \in {"MRS", "READ", "WRITE", "AUTOREF"} => state' = "IDLE"
              /\ state = "ACT" => state' = Access(request)
              /\ state = "PCH" => state' = IF s_addr.a10 THEN "AUTOREF" ELSE "IDLE"
         /\ state' \in States
         /\ state' # state => timec' = 0
         /\ state' = "IDLE" => timec' \in 0 .. tReset
         /\ cmd' = IF timec' = 0 THEN FirstCommand[state'] ELSE "NOP"
         /\ access /\ ~h_compl => access' = access /\ request' = request
         /\ request' \in Requests /\ access' \in BOOLEAN
<1> USE DEF SDRAMInv
<1> DEFINE next == next_state(access /\ ~h_compl, request)
<1>0. /\ TypeInv /\ request \in Requests /\ state \in States /\ timec \in 0 .. tReset
      /\ access \in BOOLEAN /\ h_compl \in BOOLEAN
  BY DEF TypeInv
<1>1. /\ state' = next /\ timec' = IF next # state THEN 0 ELSE Count(timec, tReset)
      /\ ClockPins(next, request)
  BY DEF Clock, ControllerClock
<1>2. state = "IDLE" => next = IdleNext(access /\ ~h_compl, request) /\ next \in States
  BY <1>0, RequestType DEF next_state, IdleNext, States
<1>3. state # "IDLE" /\ timec # LastCycle[state] => next = state
  BY DEF next_state
<1>4. ASSUME state # "IDLE", timec = LastCycle[state]
      PROVE  /\ state = "RESET" => next = "RESET_PCH"
             /\ state = "RESET_PCH" => next = "RESET_REF1"
             /\ state = "RESET_REF1" => next = "RESET_REF2"
             /\ state = "RESET_REF2" => next = "MRS"
             /\ state \in {"MRS", "READ", "WRITE", "AUTOREF"} => next = "IDLE"
             /\ state = "ACT" => next = Access(request)
             /\ state = "PCH" => next = IF s_addr.a10 THEN "AUTOREF" ELSE "IDLE"
  BY <1>0, <1>4 DEF next_state
<1>5. next \in States /\ (state # "IDLE" /\ timec = LastCycle[state] => next # state)
  <2>1. CASE state # "IDLE" /\ timec = LastCycle[state]
    BY <1>0, <1>4, <2>1, RequestType DEF States
  <2> QED BY <1>0, <1>2, <1>3, <2>1
<1> HIDE DEF next
<1>6. state # "IDLE" /\ timec # LastCycle[state] =>
        /\ timec' = timec + 1 /\ timec' <= LastCycle[state]
        /\ s_addr' = s_addr /\ s_banksel' = s_banksel /\ oe' = oe
  <2> SUFFICES ASSUME state # "IDLE", timec # LastCycle[state]
               PROVE  /\ timec' = timec + 1 /\ timec' <= LastCycle[state]
                      /\ s_addr' = s_addr /\ s_banksel' = s_banksel /\ oe' = oe
    OBVIOUS
  <2>1. LastCycle[state] \in 0 .. (tReset - 1) /\ timec <= LastCycle[state]
    BY <1>0, LastCycles DEF TypeInv
  <2>2. timec' = Count(timec, tReset) /\ timec # tReset
    BY <1>0, <1>1, <1>3, <2>1, Timing
  <2> QED BY <1>0, <1>1, <1>3, <2>1, <2>2 DEF Count, ClockPins
<1>7. timec' \in 0 .. tReset /\ (next # state => timec' = 0)
      /\ (next = state /\ state # "IDLE" => timec' # 0)
  BY <1>0, <1>1, <1>5, <1>6, Timing DEF Count
<1>8. cmd' = IF timec' = 0 THEN FirstCommand[state'] ELSE "NOP"
  <2>1. CASE next = state
    <3>1. cmd' = "NOP"
      BY <1>1, <2>1 DEF ClockPins
    <3> QED BY <1>1, <1>7, <2>1, <3>1, FirstCommands
  <2>2. CASE next # state
    <3>1. next \in States
      BY <1>5
    <3>2. next # "RESET"
      BY <1>0, <1>2, <1>3, <1>4, <2>2, RequestType DEF States, IdleNext
    <3> QED BY <1>1, <1>7, <2>2, <3>1, <3>2, FirstCommands DEF ClockPins, States
  <2> QED BY <2>1, <2>2
<1>9. /\ access /\ ~h_compl => access' = access /\ request' = request
      /\ request' \in Requests /\ access' \in BOOLEAN
  BY <1>0 DEF Clock, KeepRequest, NewRequest
<1> QED BY <1>1, <1>2, <1>3, <1>4, <1>5, <1>6, <1>7, <1>8, <1>9
(* What a state that is entered puts on the pins, and where it comes from. *)
LEMMA Enters ==
  ASSUME SDRAMInv, Clock, state' # state
  PROVE  /\ state' = "RESET_PCH" => s_addr' = Pins(TRUE, 0)
         /\ state' = "ACT" =>
              /\ state = "IDLE" /\ access /\ ~h_compl /\ ~row_is_open[request.bank]
              /\ s_addr' = Pins(FALSE, request.row) /\ s_banksel' = request.bank
         /\ state' \in {"READ", "WRITE"} =>
              /\ state = "ACT" \/ (state = "IDLE" /\ RowHit(request))
              /\ access /\ ~h_compl /\ state' = Access(request)
              /\ s_addr' = Pins(FALSE, request.col) /\ s_banksel' = request.bank
         /\ state' = "WRITE" => oe'
         /\ state' = "PCH" =>
              /\ state = "IDLE" /\ s_addr' = Pins(autorefresh_pending, 0)
              /\ s_banksel' = request.bank
              /\ ~autorefresh_pending => access /\ ~h_compl
         /\ state' = "AUTOREF" => state = "PCH" /\ s_addr.a10
<1> USE DEF SDRAMInv
<1>0. /\ request \in Requests /\ state \in States /\ ClockPins(state', request)
      /\ Access(request) \in {"READ", "WRITE"}
  BY RequestType DEF TypeInv, Clock, ControllerClock
<1>1. state' = "RESET_PCH" => s_addr' = Pins(TRUE, 0)
  BY <1>0 DEF ClockPins
<1>2. ASSUME state' = "ACT"
      PROVE  /\ state = "IDLE" /\ access /\ ~h_compl /\ ~row_is_open[request.bank]
             /\ s_addr' = Pins(FALSE, request.row) /\ s_banksel' = request.bank
  <2>1. state = "IDLE" /\ access /\ ~h_compl /\ ~row_is_open[request.bank]
    BY <1>0, <1>2, Moves DEF States, IdleNext
  <2> QED BY <1>0, <1>2, <2>1 DEF ClockPins
<1>3. ASSUME state' \in {"READ", "WRITE"}
      PROVE  /\ state = "ACT" \/ (state = "IDLE" /\ RowHit(request))
             /\ access /\ ~h_compl /\ state' = Access(request)
             /\ s_addr' = Pins(FALSE, request.col) /\ s_banksel' = request.bank
             /\ state' = "WRITE" => oe'
  <2>1. state = "ACT" \/ state = "IDLE"
    BY <1>0, <1>3, Moves DEF States
  <2>2. CASE state = "ACT"
    BY <1>0, <1>3, <2>2, Moves DEF ClockPins, PinsInv, Serving
  <2>3. CASE state = "IDLE"
    <3>1. RowHit(request) /\ access /\ ~h_compl /\ state' = Access(request)
      BY <1>3, <2>3, Moves DEF IdleNext
    <3> QED BY <1>0, <1>3, <2>3, <3>1 DEF ClockPins
  <2> QED BY <2>1, <2>2, <2>3
<1>4. ASSUME state' = "PCH"
      PROVE  /\ state = "IDLE" /\ s_addr' = Pins(autorefresh_pending, 0)
             /\ s_banksel' = request.bank
             /\ ~autorefresh_pending => access /\ ~h_compl
  <2>1. state = "IDLE" /\ (~autorefresh_pending => access /\ ~h_compl)
    BY <1>0, <1>4, Moves DEF States, IdleNext
  <2> QED BY <1>0, <1>4, <2>1 DEF ClockPins
<1>5. state' = "AUTOREF" => state = "PCH" /\ s_addr.a10
  BY <1>0, Moves DEF States, IdleNext
<1> QED BY <1>1, <1>2, <1>3, <1>4, <1>5

LEMMA PinsStep ==
  ASSUME SDRAMInv, Clock
  PROVE  PinsInv'
<1> USE DEF SDRAMInv
<1>0. /\ request \in Requests /\ state \in States /\ PinsInv /\ timec \in 0 .. tReset
      /\ h_compl' = (Reading \/ Writing)
      /\ outdata' = IF state = "IDLE" THEN request.data ELSE outdata
      /\ outmask' = IF state = "IDLE" THEN request.wr /\ ~request.be ELSE outmask
  BY DEF TypeInv, Clock, ControllerClock
<1>2. cmd' = IF timec' = 0 THEN FirstCommand[state'] ELSE "NOP"
  BY Moves
<1>3. h_compl' => state' = "IDLE" /\ access'
  <2> SUFFICES ASSUME Reading \/ Writing PROVE state' = "IDLE" /\ access'
    BY <1>0
  <2>1. state \in {"READ", "WRITE"} /\ timec = LastCycle[state]
    BY LastCycles DEF Reading, Writing
  <2> QED BY <1>0, <2>1, Moves DEF PinsInv, Serving
<1>4. CASE state' = state
  <2>1. CASE state = "IDLE"
    BY <1>2, <1>3, <1>4, <2>1 DEF PinsInv, Serving
  <2>2. CASE state # "IDLE"
    <3>1. ~h_compl /\ s_addr' = s_addr /\ s_banksel' = s_banksel /\ oe' = oe
      BY <1>0, <1>4, <2>2, Moves, Enters, RequestType DEF PinsInv, States
    <3>2. Serving => access' = access /\ request' = request
      BY <1>0, <3>1, Moves DEF PinsInv
    <3> QED BY <1>0, <1>2, <1>3, <1>4, <2>2, <3>1, <3>2 DEF PinsInv, Serving, Access
  <2> QED BY <2>1, <2>2
<1>5. CASE state' # state
  <2>1. state' = "RESET_PCH" => s_addr'.a10
    BY <1>5, Enters DEF Pins
  <2>2. CASE state' = "ACT"
    BY <1>0, <1>2, <1>3, <1>5, <2>2, Enters, Moves DEF PinsInv, Serving, Pins
  <2>3. CASE state' \in {"READ", "WRITE"}
    <3>1. /\ access' /\ request' = request /\ state' = Access(request)
          /\ s_banksel' = request.bank /\ s_addr' = Pins(FALSE, request.col)
          /\ state' = "WRITE" => oe'
      BY <1>5, <2>3, Enters, Moves
    <3>2. outdata' = request.data /\ outmask' = (request.wr /\ ~request.be)
      BY <1>0, <1>5, <2>3, Enters DEF PinsInv
    <3> QED BY <1>0, <1>2, <1>3, <1>5, <2>3, <3>1, <3>2 DEF PinsInv, Serving, Pins, Access
  <2>4. CASE state' = "PCH"
    <3>1. s_addr'.a10 = autorefresh_pending /\ s_banksel' = request.bank
          /\ (~autorefresh_pending => access /\ access' /\ request' = request)
      BY <1>5, <2>4, Enters, Moves DEF Pins
    <3> QED BY <1>2, <1>3, <2>4, <3>1 DEF PinsInv, Serving
  <2>5. CASE state' \notin {"ACT", "READ", "WRITE", "PCH"}
    BY <1>2, <1>3, <2>1, <2>5 DEF PinsInv, Serving
  <2> QED BY <2>2, <2>3, <2>4, <2>5
<1> QED BY <1>4, <1>5
(* The device bank by bank. *)
Touched(c) ==
  IF c \in {"REF", "MRS"} \/ (c = "PRE" /\ s_addr.a10) THEN Banks
  ELSE IF c \in {"ACT", "PRE"} THEN {s_banksel} ELSE {}

LEMMA DeviceStep ==
  ASSUME TypeInv, NEW c, Device(c)
  PROVE  /\ dev_wait' \in [Banks -> Nat] /\ age' \in Nat
         /\ \A b \in Banks :
              /\ b \notin Touched(c) =>
                   /\ dev_wait'[b] = IF dev_wait[b] = 0 THEN 0 ELSE dev_wait[b] - 1
                   /\ dev_row'[b] = dev_row[b]
              /\ b \in Touched(c) =>
                   /\ c = "REF" => dev_wait'[b] = tRC - 1 /\ dev_row'[b] = dev_row[b]
                   /\ c = "MRS" => dev_wait'[b] = tMRD - 1 /\ dev_row'[b] = dev_row[b]
                   /\ c = "PRE" => dev_wait'[b] = tRP - 1 /\ dev_row'[b] = NoRow
                   /\ c = "ACT" => dev_wait'[b] = tRCD - 1 /\ dev_row'[b] = s_addr.bits
         /\ c # "WRITE" => contents' = contents
<1> DEFINE time == CASE c = "REF" -> tRC [] c = "MRS" -> tMRD [] c = "PRE" -> tRP [] OTHER -> tRCD
<1>1. /\ dev_wait' = [b \in Banks |-> IF b \in Touched(c) THEN time - 1
                                      ELSE IF dev_wait[b] = 0 THEN 0 ELSE dev_wait[b] - 1]
      /\ dev_row' = [b \in Banks |-> IF b \notin Touched(c) THEN dev_row[b]
                                     ELSE CASE c = "PRE" -> NoRow
                                            [] c = "ACT" -> s_addr.bits
                                            [] OTHER -> dev_row[b]]
  BY DEF Device, Touched
<1>2. /\ time - 1 \in Nat
      /\ c = "REF" => time = tRC
      /\ c = "MRS" => time = tMRD
      /\ c = "PRE" => time = tRP
      /\ c = "ACT" => time = tRCD
  BY Timing
<1>3. age' \in Nat
  <2>1. age + 1 \in Nat /\ age \in Nat
    BY DEF TypeInv
  <2> QED BY <2>1 DEF Device
<1>4. c # "WRITE" => contents' = contents
  BY DEF Device
<1> HIDE DEF time
<1>5. \A b \in Banks : dev_wait[b] \in Nat
  BY DEF TypeInv
<1>6. dev_wait' \in [Banks -> Nat]
  BY <1>1, <1>2, <1>5 DEF TypeInv
<1> QED BY <1>1, <1>2, <1>3, <1>4, <1>6

(* What is left of the wait after the coming clock edge. *)
LEMMA WaitLeft ==
  ASSUME SDRAMInv, Device(cmd), NEW b \in Banks
  PROVE  /\ dev_wait'[b] \in Nat
         /\ state \in {"IDLE", "READ", "WRITE"} => dev_wait'[b] = 0
         /\ state # "IDLE" => dev_wait'[b] <= LastCycle[state] - timec
<1> USE DEF SDRAMInv
<1>0. /\ TypeInv /\ state \in States /\ timec \in 0 .. tReset /\ dev_wait[b] \in Nat
      /\ cmd = IF timec = 0 THEN FirstCommand[state] ELSE "NOP"
      /\ state # "IDLE" => timec <= LastCycle[state] /\ LastCycle[state] \in 0 .. (tReset - 1)
      /\ dev_wait[b] <= WaitLimit
  BY LastCycles DEF TypeInv, PinsInv, WaitInv
<1>1. dev_wait'[b] \in Nat
  BY <1>0, DeviceStep
<1>2. CASE timec > 0 \/ state \in {"IDLE", "READ", "WRITE", "RESET"}
  <2>1. Touched(cmd) = {}
    BY <1>0, <1>2, FirstCommands DEF Touched
  <2>2. dev_wait'[b] = IF dev_wait[b] = 0 THEN 0 ELSE dev_wait[b] - 1
    BY <1>0, <2>1, DeviceStep
  <2>3. CASE state \in {"IDLE", "READ", "WRITE"}
    BY <1>0, <1>1, <2>2, <2>3 DEF WaitLimit
  <2>4. CASE state \notin {"IDLE", "READ", "WRITE"}
    <3>1. dev_wait[b] <= LastCycle[state] + 1 - timec
      BY <1>0, <1>2, <2>4 DEF WaitLimit
    <3> QED BY <1>0, <2>2, <2>4, <3>1
  <2> QED BY <2>3, <2>4
<1>3. CASE timec = 0 /\ state \notin {"IDLE", "READ", "WRITE", "RESET"}
  <2>1. dev_wait[b] = 0
    BY <1>0, <1>3 DEF WaitLimit
  <2>2. cmd \in {"PRE", "REF", "MRS", "ACT"}
    BY <1>0, <1>3, FirstCommands DEF States
  <2>3. /\ cmd = "PRE" => LastCycle[state] = tRP - 1
        /\ cmd = "REF" => LastCycle[state] = tRC - 1
        /\ cmd = "MRS" => LastCycle[state] = tMRD - 1
        /\ cmd = "ACT" => LastCycle[state] = tRCD - 1
    BY <1>0, <1>3, FirstCommands, LastCycles DEF States
  <2>4. CASE b \notin Touched(cmd)
    BY <1>0, <1>3, <2>1, <2>4, DeviceStep
  <2>5. CASE b \in Touched(cmd)
    BY <1>0, <1>3, <2>2, <2>3, <2>5, DeviceStep
  <2> QED BY <2>4, <2>5
<1> QED BY <1>0, <1>1, <1>2, <1>3

LEMMA WaitStep ==
  ASSUME SDRAMInv, Clock
  PROVE  WaitInv'
<1> USE DEF SDRAMInv
<1> SUFFICES ASSUME NEW b \in Banks PROVE dev_wait'[b] <= WaitLimit'
  BY DEF WaitInv
<1>0. Device(cmd) /\ state \in States /\ timec \in 0 .. tReset /\ request \in Requests
  BY DEF Clock, TypeInv
<1>1. CASE state # "IDLE" /\ timec # LastCycle[state]
  <2>1. state' = state /\ timec' = timec + 1 /\ LastCycle[state] \in Nat
    BY <1>0, <1>1, Moves, LastCycles, Timing
  <2>2. WaitLimit' = IF state \in {"READ", "WRITE"} THEN 0 ELSE LastCycle[state] - timec
    BY <1>0, <1>1, <2>1 DEF WaitLimit
  <2> QED BY <1>0, <1>1, <2>2, WaitLeft
<1>2. CASE state = "IDLE" \/ timec = LastCycle[state]
  <2>1. dev_wait'[b] = 0
    BY <1>0, <1>2, WaitLeft
  <2>2. state' = "IDLE" \/ (timec' = 0 /\ state' # "RESET")
    BY <1>0, <1>2, Moves, RequestType DEF IdleNext, States
  <2> QED BY <2>1, <2>2 DEF WaitLimit
<1> QED BY <1>1, <1>2
LEMMA RowsStep ==
  ASSUME SDRAMInv, Clock
  PROVE  RowsInv'
<1> USE DEF SDRAMInv
<1>0. /\ TypeInv /\ PinsInv /\ RowsInv /\ Device(cmd) /\ NextRows(request)
      /\ state \in States /\ timec \in 0 .. tReset
      /\ request \in Requests /\ request.bank \in Banks /\ request.row \in Rows
      /\ row_is_open \in [Banks -> BOOLEAN] /\ open_row \in [Banks -> Rows]
      /\ cmd = IF timec = 0 THEN FirstCommand[state] ELSE "NOP"
  BY RequestType DEF Clock, ControllerClock, TypeInv, PinsInv
<1>1. state \notin {"ACT", "PCH", "AUTOREF"} => row_is_open' = row_is_open /\ open_row' = open_row
  BY <1>0 DEF NextRows
<1>2. CASE state = "RESET"
  <2>1. state' = "RESET" \/ (state' = "RESET_PCH" /\ timec' = 0)
    BY <1>2, Moves
  <2> QED BY <1>0, <1>1, <1>2, <2>1 DEF RowsInv, AllClosed, Serving, Setup
<1>3. CASE state \in {"RESET_PCH", "RESET_REF1", "RESET_REF2", "MRS"}
  <2>1. ASSUME NEW b \in Banks PROVE dev_row'[b] = NoRow
    <3>1. CASE timec = 0 /\ state = "RESET_PCH"
      <4>1. cmd = "PRE" /\ b \in Touched(cmd)
        BY <1>0, <3>1, FirstCommands DEF Touched, PinsInv
      <4> QED BY <1>0, <4>1, DeviceStep
    <3>2. CASE ~(timec = 0 /\ state = "RESET_PCH")
      <4>1. dev_row[b] = NoRow
        BY <1>0, <1>3, <3>2 DEF RowsInv, AllClosed, PinsInv
      <4>2. cmd \in {"NOP", "REF", "MRS"}
        BY <1>0, <1>3, <3>2, FirstCommands
      <4> QED BY <1>0, <4>1, <4>2, DeviceStep DEF Touched
    <3> QED BY <3>1, <3>2
  <2>2. state' \in {"RESET_PCH", "RESET_REF1", "RESET_REF2", "MRS", "IDLE"}
    BY <1>3, Moves
  <2>3. \A b \in Banks : ~row_is_open'[b]
    BY <1>0, <1>1, <1>3 DEF RowsInv, Setup
  <2> QED BY <2>1, <2>2, <2>3 DEF RowsInv, Serving
<1>4. CASE state \in {"IDLE", "READ", "WRITE"}
  <2>1. \A b \in Banks : dev_row'[b] = dev_row[b]
    <3>1. Touched(cmd) = {}
      BY <1>0, <1>4, FirstCommands DEF Touched
    <3> QED BY <1>0, <3>1, DeviceStep
  <2>2. /\ \A b \in Banks : dev_row'[b] = IF row_is_open'[b] THEN open_row'[b] ELSE NoRow
        /\ row_is_open' = row_is_open /\ open_row' = open_row
    BY <1>0, <1>1, <1>4, <2>1 DEF RowsInv, Serving
  <2>3. CASE state' = state
    <3>1. state # "IDLE" => request' = request
      BY <1>0, <1>4, <2>3, Moves DEF PinsInv, Serving
    <3> QED BY <1>0, <1>4, <2>2, <2>3, <3>1 DEF RowsInv, AllClosed, Setup, RowHit
  <2>4. CASE state' # state
    <3>1. state' \in {"IDLE", "ACT", "READ", "WRITE", "PCH"} /\ timec' = 0
      BY <1>0, <1>4, <2>4, Moves, RequestType DEF IdleNext
    <3>2. state' = "ACT" => ~row_is_open'[request'.bank]
      BY <2>2, <2>4, Enters, Moves
    <3>3. state' \in {"READ", "WRITE"} => RowHit(request)'
      <4> SUFFICES ASSUME state' \in {"READ", "WRITE"} PROVE RowHit(request)'
        OBVIOUS
      <4>1. request' = request /\ RowHit(request)
        BY <1>0, <1>4, <2>4, Enters, Moves DEF RowsInv
      <4> QED BY <2>2, <4>1 DEF RowHit
    <3> QED BY <2>2, <3>1, <3>2, <3>3 DEF RowsInv, AllClosed, Setup
  <2> QED BY <2>3, <2>4
<1>5. CASE state = "ACT"
  <2>1. /\ row_is_open' = [row_is_open EXCEPT ![request.bank] = TRUE]
        /\ open_row' = [open_row EXCEPT ![request.bank] = request.row]
    BY <1>0, <1>5 DEF NextRows
  <2>2. s_banksel = request.bank /\ s_addr.bits = request.row /\ request' = request
    BY <1>0, <1>5, Moves DEF PinsInv, Serving
  <2>3. RowHit(request)'
    BY <1>0, <2>1, <2>2 DEF RowHit
  <2>4. ASSUME NEW b \in Banks PROVE dev_row'[b] = IF row_is_open'[b] THEN open_row'[b] ELSE NoRow
    <3>1. dev_row[b] = IF row_is_open[b] THEN open_row[b] ELSE NoRow
      BY <1>0, <1>5 DEF RowsInv, Serving
    <3>2. CASE timec = 0
      <4>1. cmd = "ACT" /\ Touched(cmd) = {request.bank}
        BY <1>0, <1>5, <2>2, <3>2, FirstCommands DEF Touched
      <4>2. CASE b = request.bank
        BY <1>0, <2>1, <2>2, <4>1, <4>2, DeviceStep
      <4>3. CASE b # request.bank
        BY <1>0, <2>1, <3>1, <4>1, <4>3, DeviceStep
      <4> QED BY <4>2, <4>3
    <3>3. CASE timec # 0
      <4>1. Touched(cmd) = {}
        BY <1>0, <3>3 DEF Touched
      <4>2. dev_row'[b] = dev_row[b]
        BY <1>0, <4>1, DeviceStep
      <4>3. row_is_open[request.bank] /\ open_row[request.bank] = request.row
        BY <1>0, <1>5, <3>3 DEF RowsInv, RowHit
      <4> QED BY <1>0, <2>1, <3>1, <4>2, <4>3
    <3> QED BY <3>2, <3>3
  <2>5. (state' = "ACT" /\ timec' > 0) \/ state' \in {"READ", "WRITE"}
    BY <1>0, <1>5, Moves, RequestType, LastCycles, Timing
  <2>6. timec' > 0 => timec' # 0
    OBVIOUS
  <2> QED BY <2>3, <2>4, <2>5, <2>6 DEF RowsInv, AllClosed, Setup
<1>6. CASE state = "PCH" /\ ~s_addr.a10
  <2>1. row_is_open' = [row_is_open EXCEPT ![request.bank] = FALSE] /\ open_row' = open_row
    BY <1>0, <1>6 DEF NextRows
  <2>2. s_banksel = request.bank /\ request' = request
    BY <1>0, <1>6, Moves DEF PinsInv, Serving
  <2>3. ASSUME NEW b \in Banks PROVE dev_row'[b] = IF row_is_open'[b] THEN open_row'[b] ELSE NoRow
    <3>1. dev_row[b] = IF row_is_open[b] THEN open_row[b] ELSE NoRow
      BY <1>0, <1>6 DEF RowsInv, Serving
    <3>2. CASE timec = 0
      <4>1. cmd = "PRE" /\ Touched(cmd) = {request.bank}
        BY <1>0, <1>6, <2>2, <3>2, FirstCommands DEF Touched
      <4>2. CASE b = request.bank
        BY <1>0, <2>1, <2>2, <4>1, <4>2, DeviceStep
      <4>3. CASE b # request.bank
        BY <1>0, <2>1, <3>1, <4>1, <4>3, DeviceStep
      <4> QED BY <4>2, <4>3
    <3>3. CASE timec # 0
      <4>1. Touched(cmd) = {}
        BY <1>0, <3>3 DEF Touched
      <4>2. dev_row'[b] = dev_row[b]
        BY <1>0, <4>1, DeviceStep
      <4>3. ~row_is_open[request.bank]
        BY <1>0, <1>6, <3>3 DEF RowsInv
      <4> QED BY <1>0, <2>1, <3>1, <4>2, <4>3
    <3> QED BY <3>2, <3>3
  <2>4. state' = "IDLE" \/ (state' = "PCH" /\ s_addr' = s_addr)
    BY <1>0, <1>6, Moves
  <2>5. ~row_is_open'[request'.bank]
    BY <1>0, <2>1, <2>2
  <2> QED BY <1>6, <2>3, <2>4, <2>5 DEF RowsInv, AllClosed, Setup
<1>7. CASE (state = "PCH" /\ s_addr.a10) \/ state = "AUTOREF"
  <2>1. ASSUME NEW b \in Banks PROVE dev_row'[b] = NoRow
    <3>1. CASE timec = 0 /\ state = "PCH"
      <4>1. cmd = "PRE" /\ b \in Touched(cmd)
        BY <1>0, <1>7, <3>1, FirstCommands DEF Touched
      <4> QED BY <1>0, <4>1, DeviceStep
    <3>2. CASE ~(timec = 0 /\ state = "PCH")
      <4>1. dev_row[b] = NoRow
        BY <1>0, <1>7, <3>2 DEF RowsInv, AllClosed
      <4>2. cmd \in {"NOP", "REF"}
        BY <1>0, <1>7, <3>2, FirstCommands
      <4> QED BY <1>0, <4>1, <4>2, DeviceStep DEF Touched
    <3> QED BY <3>1, <3>2
  <2>2. CASE state = "PCH" /\ s_addr.a10
    <3>1. state' = "AUTOREF" \/ (state' = "PCH" /\ s_addr' = s_addr)
      BY <2>2, Moves
    <3> QED BY <2>1, <2>2, <3>1 DEF RowsInv, Serving, Setup
  <2>3. CASE state = "AUTOREF"
    <3>1. \A b \in Banks : ~row_is_open'[b]
      BY <1>0, <2>3 DEF NextRows
    <3>2. state' \in {"AUTOREF", "IDLE"}
      BY <2>3, Moves
    <3> QED BY <2>1, <3>1, <3>2 DEF RowsInv, Serving, Setup
  <2> QED BY <1>7, <2>2, <2>3
<1> QED BY <1>0, <1>2, <1>3, <1>4, <1>5, <1>6, <1>7 DEF States
(* The command of an access is for the cell of the request. *)
LEMMA AccessCell ==
  ASSUME SDRAMInv, Device(cmd), cmd \in {"READ", "WRITE"}
  PROVE  /\ state = cmd /\ timec = 0 /\ access /\ ~h_compl /\ cmd = Access(request)
         /\ cmd = "READ" => dq'[1] = contents[CellOf(request)] /\ contents' = contents
         /\ cmd = "WRITE" =>
              contents' = IF request.be THEN [contents EXCEPT ![CellOf(request)] = request.data]
                          ELSE contents
<1> USE DEF SDRAMInv
<1>0. /\ state \in States /\ timec \in 0 .. tReset /\ request \in Requests
      /\ CellOf(request) \in Cells /\ request.bank \in Banks /\ request.wr \in BOOLEAN
  BY RequestType DEF TypeInv
<1>1. timec = 0 /\ state = cmd
  BY <1>0, FirstCommands DEF PinsInv, States
<1>2. /\ access /\ ~h_compl /\ cmd = Access(request)
      /\ s_banksel = request.bank /\ s_addr.bits = request.col
      /\ cmd = "WRITE" => oe /\ outdata = request.data /\ outmask = (request.wr /\ ~request.be)
  BY <1>1 DEF PinsInv, Serving
<1>3. dev_row[request.bank] = request.row
  BY <1>0, <1>1 DEF RowsInv, Serving, RowHit
<1>4. <<s_banksel, dev_row[s_banksel], s_addr.bits>> = CellOf(request)
  BY <1>2, <1>3 DEF CellOf
<1>5. ASSUME cmd = "READ" PROVE dq'[1] = contents[CellOf(request)] /\ contents' = contents
  <2>1. 1 \in 1 .. cas
    BY Timing
  <2> HIDE DEF Cells, CellOf
  <2> QED BY <1>0, <1>4, <1>5, <2>1 DEF Device
<1>6. ASSUME cmd = "WRITE"
      PROVE  contents' = IF request.be THEN [contents EXCEPT ![CellOf(request)] = request.data]
                         ELSE contents
  <2>1. request.wr
    BY <1>0, <1>2, <1>6 DEF Access
  <2> HIDE DEF Cells, CellOf
  <2> QED BY <1>0, <1>2, <1>4, <1>6, <2>1 DEF Device
<1> QED BY <1>1, <1>2, <1>5, <1>6

(* What a clock edge does to the tracked byte. *)
LEMMA TrackedStep ==
  ASSUME SDRAMInv, Device(cmd)
  PROVE  /\ contents' \in [Cells -> Fresh \cup {0}]
         /\ contents'[Tracked] = IF cmd = "WRITE" /\ WritesTracked
                                 THEN request.data ELSE contents[Tracked]
<1> USE DEF SDRAMInv
<1>0. /\ TypeInv /\ request \in Requests /\ CellOf(request) \in Cells /\ Tracked \in Cells
      /\ request.data \in Fresh \cup {0} /\ contents \in [Cells -> Fresh \cup {0}]
  BY RequestType, TrackedAssumption DEF TypeInv, Cells
<1>1. CASE cmd = "WRITE"
  <2>1. access /\ request.wr
    BY <1>0, <1>1, AccessCell, RequestType
  <2>2. contents' = IF request.be THEN [contents EXCEPT ![CellOf(request)] = request.data]
                    ELSE contents
    BY <1>1, AccessCell
  <2> HIDE DEF Cells, CellOf
  <2> QED BY <1>0, <1>1, <2>1, <2>2 DEF WritesTracked
<1>2. CASE cmd # "WRITE"
  BY <1>0, <1>2, DeviceStep
<1> QED BY <1>1, <1>2

LEMMA DataStep ==
  ASSUME SDRAMInv, Clock
  PROVE  DataInv'
<1> USE DEF SDRAMInv
<1>0. /\ TypeInv /\ PinsInv /\ DataInv /\ Device(cmd) /\ state \in States /\ timec \in 0 .. tReset
      /\ request \in Requests /\ h_compl' = (Reading \/ Writing)
      /\ h_rdata' = IF Reading THEN dq[cas] ELSE 0
      /\ expected' = IF WritesTracked /\ h_compl THEN {request.data} ELSE expected
      /\ cmd = IF timec = 0 THEN FirstCommand[state] ELSE "NOP"
  BY DEF Clock, ControllerClock, TypeInv, PinsInv
<1>1. cmd = "WRITE" <=> state = "WRITE" /\ timec = 0
  BY <1>0, FirstCommands DEF States
<1>2. state \in {"READ", "WRITE"} =>
        access' = access /\ request' = request /\ ~h_compl /\ access /\ state = Access(request)
  BY <1>0, Moves DEF PinsInv, Serving
<1>3. IF Written' THEN contents'[Tracked] = request'.data ELSE contents'[Tracked] \in expected'
  <2>1. CASE state = "WRITE"
    <3>1. Written' <=> WritesTracked
      <4>1. WritesTracked' <=> WritesTracked
        BY <1>2, <2>1 DEF WritesTracked
      <4>2. h_compl' \/ (state' = "WRITE" /\ timec' > 0)
        <5>1. CASE timec = LastCycle[state]
          BY <1>0, <2>1, <5>1, LastCycles DEF Writing
        <5>2. CASE timec # LastCycle[state]
          BY <1>0, <2>1, <5>2, Moves
        <5> QED BY <5>1, <5>2
      <4> QED BY <4>1, <4>2 DEF Written
    <3>2. contents'[Tracked] = IF timec = 0 /\ WritesTracked THEN request.data ELSE contents[Tracked]
      BY <1>0, <1>1, <2>1, TrackedStep
    <3>3. Written <=> WritesTracked /\ timec > 0
      BY <1>2, <2>1 DEF Written
    <3> QED BY <1>0, <1>2, <2>1, <3>1, <3>2, <3>3 DEF DataInv
  <2>2. CASE state # "WRITE"
    <3>1. contents'[Tracked] = contents[Tracked]
      BY <1>1, <1>0, <2>2, TrackedStep
    <3>2. ~Written'
      <4>1. h_compl' => ~WritesTracked'
        BY <1>0, <1>2, <2>2, RequestType DEF Reading, Writing, WritesTracked
      <4>2. ~(state' = "WRITE" /\ timec' > 0)
        BY <2>2, Moves
      <4> QED BY <4>1, <4>2 DEF Written
    <3> QED BY <1>0, <2>2, <3>1, <3>2 DEF DataInv, Written
  <2> QED BY <2>1, <2>2
<1>4. ASSUME state' = "READ", timec' > 0 PROVE dq'[timec'] = contents'[CellOf(request)']
  <2>1. state = "READ" /\ timec # cas
    BY <1>0, <1>4, Moves, LastCycles, RequestType DEF States
  <2>2. timec' = timec + 1 /\ timec + 1 <= cas
    BY <2>1, Moves, LastCycles
  <2>3. contents' = contents /\ request' = request
    BY <1>0, <1>1, <1>2, <2>1, DeviceStep
  <2>4. CASE timec = 0
    <3>1. cmd = "READ"
      BY <1>0, <2>1, <2>4, FirstCommands
    <3> QED BY <1>0, <2>2, <2>3, <2>4, <3>1, AccessCell DEF CellOf
  <2>5. CASE timec # 0
    <3>1. dq'[timec + 1] = dq[timec]
      BY <1>0, <2>2, <2>5, Timing DEF Device
    <3>2. dq[timec] = contents[CellOf(request)]
      BY <1>0, <2>1, <2>5 DEF DataInv
    <3> QED BY <2>2, <2>3, <3>1, <3>2 DEF CellOf
  <2> QED BY <2>4, <2>5
<1>5. ASSUME h_compl', ~request'.wr PROVE h_rdata' = contents'[CellOf(request)']
  <2>1. Reading /\ request' = request
    BY <1>0, <1>2, <1>5, RequestType DEF Reading, Writing
  <2>2. h_rdata' = contents[CellOf(request)]
    BY <1>0, <2>1, Timing DEF DataInv, Reading
  <2>3. contents' = contents
    BY <1>0, <1>1, <2>1, DeviceStep DEF Reading
  <2> QED BY <2>1, <2>2, <2>3 DEF CellOf
<1> QED BY <1>3, <1>4, <1>5 DEF DataInv

LEMMA TypeStep ==
  ASSUME SDRAMInv, Clock
  PROVE  TypeInv'
<1> USE DEF SDRAMInv
<1>0. TypeInv /\ Device(cmd) /\ state \in States /\ timec \in 0 .. tReset /\ request \in Requests
  BY DEF Clock, TypeInv
<1>1. state' \in States /\ request' \in Requests /\ access' \in BOOLEAN
  BY Moves
<1>2. timec' \in 0 .. tReset /\ (state' # "IDLE" => timec' <= LastCycle[state'])
  <2>1. CASE state' # state
    BY <1>1, <2>1, Moves, LastCycles, Timing
  <2>2. CASE state' = state /\ state # "IDLE"
    <3>1. timec # LastCycle[state]
      BY <1>0, <2>2, Moves, RequestType DEF States
    <3> QED BY <1>0, <2>2, <3>1, Moves, LastCycles, Timing
  <2>3. CASE state' = state /\ state = "IDLE"
    BY <2>3, Moves
  <2> QED BY <2>1, <2>2, <2>3
<1>3. refresh_count' \in 0 .. Pending
  BY <1>0, Timing DEF Clock, ControllerClock, NextRefreshCount, Count, TypeInv, Pending
<1>4. h_compl' \in BOOLEAN /\ h_config_done' \in BOOLEAN
  BY <1>0 DEF Clock, ControllerClock, Reading, Writing, TypeInv
<1>5. row_is_open' \in [Banks -> BOOLEAN] /\ open_row' \in [Banks -> Rows]
  <2>1. request.bank \in Banks /\ request.row \in Rows
    BY <1>0, RequestType
  <2>2. NextRows(request)
    BY DEF Clock, ControllerClock
  <2> QED BY <1>0, <2>1, <2>2 DEF NextRows, TypeInv
<1>6. dev_wait' \in [Banks -> Nat] /\ age' \in Nat
  BY <1>0, DeviceStep
<1>7. contents' \in [Cells -> Fresh \cup {0}]
  BY <1>0, TrackedStep
<1> QED BY <1>1, <1>2, <1>3, <1>4, <1>5, <1>6, <1>7 DEF TypeInv
LEMMA AccessTimes ==
  /\ AccessTime \in Nat /\ AccessTime >= cas + 1 /\ AccessTime >= tRP + 1
  /\ WorstRefreshGap = tRC + Pending + tRCD + AccessTime + 2 + tRP /\ WorstRefreshGap \in Nat
BY Timing DEF AccessTime, WorstRefreshGap, Pending

(* While a refresh is due the lag grows with every cycle, up to the        *)
(* precharge that goes before the refresh.                                 *)
LEMMA LagStep ==
  ASSUME SDRAMInv, Clock, state \notin Setup, state # "AUTOREF", state' # "AUTOREF",
         refresh_count = Pending
  PROVE  Lag + 1 <= Lag'
<1> USE DEF SDRAMInv
<1>0. /\ state \in States /\ timec \in 0 .. tReset /\ request \in Requests /\ h_compl \in BOOLEAN
      /\ h_compl' = (Reading \/ Writing) /\ autorefresh_pending
  BY DEF TypeInv, Clock, ControllerClock, autorefresh_pending, Pending
<1>1. CASE state = "ACT" \/ (state = "PCH" /\ ~s_addr.a10)
  <2>0. Lag = timec
    BY <1>1 DEF Lag
  <2>1. CASE timec # LastCycle[state]
    <3>1. state' = state /\ timec' = timec + 1 /\ s_addr' = s_addr
      BY <1>1, <2>1, Moves
    <3>2. Lag' = timec + 1
      BY <1>1, <3>1 DEF Lag
    <3> QED BY <1>0, <2>0, <3>2
  <2>2. CASE state = "ACT" /\ timec = LastCycle[state]
    <3>1. state' \in {"READ", "WRITE"} /\ timec' = 0 /\ timec = tRCD - 1
      BY <1>0, <2>2, Moves, RequestType, LastCycles
    <3>2. Lag' = tRCD + 0
      BY <3>1 DEF Lag
    <3> QED BY <2>0, <3>1, <3>2, Timing
  <2>3. CASE state = "PCH" /\ timec = LastCycle[state]
    <3>1. state' = "IDLE" /\ ~h_compl' /\ timec = tRP - 1
      BY <1>0, <1>1, <2>3, Moves, LastCycles DEF Reading, Writing
    <3>2. Lag' = tRCD + AccessTime + 1
      BY <3>1 DEF Lag
    <3> QED BY <2>0, <3>1, <3>2, Timing, AccessTimes
  <2> QED BY <1>1, <2>1, <2>2, <2>3
<1>2. CASE state \in {"READ", "WRITE"}
  <2>0. Lag = tRCD + timec
    BY <1>2 DEF Lag
  <2>1. CASE timec # LastCycle[state]
    <3>1. state' = state /\ timec' = timec + 1
      BY <1>2, <2>1, Moves
    <3>2. Lag' = tRCD + (timec + 1)
      BY <1>2, <3>1 DEF Lag
    <3> QED BY <1>0, <2>0, <3>2, Timing
  <2>2. CASE timec = LastCycle[state]
    <3>1. state' = "IDLE" /\ h_compl' /\ timec <= AccessTime - 1
      <4>1. state' = "IDLE"
        BY <1>2, <2>2, Moves
      <4>2. h_compl'
        BY <1>0, <1>2, <2>2, LastCycles DEF Reading, Writing
      <4>3. timec <= AccessTime - 1
        BY <1>0, <1>2, <2>2, LastCycles, AccessTimes, Timing
      <4> QED BY <4>1, <4>2, <4>3
    <3>2. Lag' = tRCD + AccessTime
      BY <3>1 DEF Lag
    <3> QED BY <1>0, <2>0, <3>1, <3>2, Timing, AccessTimes
  <2> QED BY <2>1, <2>2
<1>3. CASE state = "IDLE"
  <2>0. ~h_compl' /\ Lag = IF h_compl THEN tRCD + AccessTime ELSE tRCD + AccessTime + 1
    BY <1>0, <1>3 DEF Lag, Reading, Writing
  <2>1. CASE h_compl
    <3>1. state' = "IDLE"
      BY <1>3, <2>1, Moves DEF IdleNext
    <3>2. Lag' = tRCD + AccessTime + 1
      BY <2>0, <3>1 DEF Lag
    <3> QED BY <2>0, <2>1, <3>2, Timing, AccessTimes
  <2>2. CASE ~h_compl
    <3>1. state' = "PCH" /\ timec' = 0
      BY <1>0, <1>3, <2>2, Moves DEF IdleNext
    <3>2. s_addr'.a10
      BY <1>0, <1>3, <3>1, Enters DEF Pins
    <3>3. Lag' = tRCD + AccessTime + 2 + 0
      BY <3>1, <3>2 DEF Lag
    <3> QED BY <2>0, <2>2, <3>3, Timing, AccessTimes
  <2> QED BY <2>1, <2>2
<1>4. CASE state = "PCH" /\ s_addr.a10
  <2>1. timec # LastCycle[state]
    BY <1>4, Moves
  <2>2. state' = state /\ timec' = timec + 1 /\ s_addr' = s_addr
    BY <1>4, <2>1, Moves
  <2>3. Lag = tRCD + AccessTime + 2 + timec /\ Lag' = tRCD + AccessTime + 2 + (timec + 1)
    BY <1>4, <2>2 DEF Lag
  <2> QED BY <1>0, <2>3, Timing, AccessTimes
<1> QED BY <1>0, <1>1, <1>2, <1>3, <1>4 DEF States, Setup

LEMMA LagType ==
  ASSUME timec \in Nat PROVE Lag \in Nat
BY Timing, AccessTimes DEF Lag

LEMMA RefreshStep ==
  ASSUME SDRAMInv, Clock
  PROVE  RefreshInv'
<1> USE DEF SDRAMInv
<1>0. /\ TypeInv /\ PinsInv /\ RefreshInv /\ Device(cmd) /\ state \in States /\ request \in Requests
      /\ timec \in 0 .. tReset /\ refresh_count \in 0 .. Pending /\ age \in Nat
      /\ h_config_done \in BOOLEAN
      /\ h_config_done' = (h_config_done \/ state = "IDLE") /\ NextRefreshCount
      /\ cmd = IF timec = 0 THEN FirstCommand[state] ELSE "NOP"
  BY DEF TypeInv, Clock, ControllerClock, PinsInv
<1>1. /\ TypeInv' /\ timec' \in Nat /\ refresh_count' \in Nat /\ refresh_count \in Nat
      /\ timec \in Nat /\ age' \in Nat /\ h_config_done' \in BOOLEAN
  BY <1>0, TypeStep, Timing DEF TypeInv
<1>2. /\ ~h_config_done' => age' = 0
      /\ h_config_done' /\ cmd = "REF" => age' = 1
      /\ h_config_done' /\ cmd # "REF" => age' <= age + 1
  BY <1>0 DEF Device
<1>3. state' \in Setup => ~h_config_done'
  <2>1. state' \in Setup => state \in Setup
    BY <1>0, Moves, RequestType DEF Setup, States, IdleNext
  <2> QED BY <1>0, <2>1 DEF RefreshInv, Setup
<1>4. state # "AUTOREF" =>
        refresh_count' = IF refresh_count = Pending THEN Pending ELSE refresh_count + 1
  BY <1>0 DEF NextRefreshCount, autorefresh_counter_clr, Count, Pending
<1>5. state' = "PCH" /\ s_addr'.a10 => refresh_count' = Pending
  <2> SUFFICES ASSUME state' = "PCH", s_addr'.a10 PROVE refresh_count' = Pending
    OBVIOUS
  <2>1. CASE state = "PCH"
    <3>1. s_addr' = s_addr
      BY <2>1, Moves
    <3> QED BY <1>0, <1>4, <2>1, <3>1 DEF RefreshInv
  <2>2. CASE state # "PCH"
    <3>1. state = "IDLE" /\ autorefresh_pending
      BY <2>2, Enters DEF Pins
    <3> QED BY <1>4, <3>1 DEF autorefresh_pending, Pending
  <2> QED BY <2>1, <2>2
<1>6. ASSUME state' = "AUTOREF"
      PROVE  age' <= IF timec' = 0 THEN WorstRefreshGap ELSE timec'
  <2>1. CASE state = "AUTOREF"
    <3>1. timec' = timec + 1
      BY <1>0, <1>6, <2>1, Moves
    <3>2. cmd = IF timec = 0 THEN "REF" ELSE "NOP"
      BY <1>0, <2>1, FirstCommands
    <3>3. CASE timec = 0
      BY <1>1, <1>2, <3>1, <3>2, <3>3
    <3>4. CASE timec # 0
      <4>1. age <= timec /\ cmd # "REF"
        BY <1>0, <2>1, <3>2, <3>4 DEF RefreshInv
      <4> QED BY <1>0, <1>1, <1>2, <3>1, <4>1
    <3> QED BY <3>3, <3>4
  <2>2. CASE state # "AUTOREF"
    <3>1. state = "PCH" /\ s_addr.a10 /\ timec' = 0 /\ timec = tRP - 1
      BY <1>0, <1>6, <2>2, Enters, Moves, LastCycles
    <3>2. Lag = tRCD + AccessTime + 2 + timec
      BY <3>1 DEF Lag
    <3>3. age <= tRC + Pending + (tRCD + AccessTime + 2 + timec)
      BY <1>0, <3>1, <3>2 DEF RefreshInv
    <3>4. age + 1 <= WorstRefreshGap
      BY <1>0, <3>1, <3>3, Timing, AccessTimes
    <3>5. cmd # "REF"
      BY <1>0, <3>1, FirstCommands
    <3> QED BY <1>0, <1>1, <1>2, <3>1, <3>4, <3>5, AccessTimes
  <2> QED BY <2>1, <2>2
<1>7. ASSUME state' # "AUTOREF"
      PROVE  age' <= tRC + refresh_count' + (IF refresh_count' = Pending THEN Lag' ELSE 0)
  <2>0. Lag' \in Nat
    BY <1>1, Timing, AccessTimes DEF Lag
  <2>a. PICK late \in Nat : late = IF refresh_count' = Pending THEN Lag' ELSE 0
    BY <2>0
  <2>b. PICK count \in Nat : count = refresh_count'
    BY <1>1
  <2>c. tRC \in Nat /\ late \in Nat /\ count \in Nat
    BY <2>a, <2>b, Timing
  <2> SUFFICES age' <= tRC + count + late
    BY <2>a, <2>b
  <2>1. CASE ~h_config_done'
    <3>1. age' = 0
      BY <1>2, <2>1
    <3> QED BY <2>c, <3>1
  <2>2. CASE h_config_done' /\ state = "AUTOREF"
    <3>1. timec = tRC - 1 /\ refresh_count' = 0
      BY <1>0, <1>7, <2>2, Moves, LastCycles DEF NextRefreshCount, autorefresh_counter_clr
    <3>2. age' <= tRC
      <4>1. cmd = IF timec = 0 THEN "REF" ELSE "NOP"
        BY <1>0, <2>2, FirstCommands
      <4>2. CASE timec = 0
        BY <1>2, <2>2, <4>1, <4>2, Timing
      <4>3. CASE timec # 0
        <5>1. age <= timec /\ cmd # "REF"
          BY <1>0, <2>2, <4>1, <4>3 DEF RefreshInv
        <5> QED BY <1>0, <1>1, <1>2, <2>2, <3>1, <5>1, Timing
      <4> QED BY <4>2, <4>3
    <3>3. age' \in Nat
      BY <1>1
    <3> QED BY <2>c, <3>2, <3>3
  <2>3. CASE h_config_done' /\ state # "AUTOREF"
    <3>1. state \notin Setup
      BY <1>0, <2>3 DEF RefreshInv, Setup
    <3>2. cmd # "REF"
      BY <1>0, <2>3, <3>1, FirstCommands DEF States, Setup
    <3>3. age' <= age + 1 /\ age' \in Nat
      BY <1>1, <1>2, <2>3, <3>2 DEF TypeInv
    <3>4. CASE refresh_count # Pending
      <4>1. age <= tRC + refresh_count /\ refresh_count' = refresh_count + 1
        BY <1>0, <1>4, <2>3, <3>4, Timing DEF RefreshInv
      <4>2. count = refresh_count + 1 /\ refresh_count \in Nat /\ age \in Nat
        BY <1>0, <1>1, <2>b, <4>1
      <4> QED BY <2>c, <3>3, <4>1, <4>2
    <3>5. CASE refresh_count = Pending
      <4>1. Lag + 1 <= Lag' /\ Lag \in Nat
        BY <1>0, <1>7, <2>3, <3>1, <3>5, LagStep, LagType
      <4>2. age <= tRC + Pending + Lag /\ refresh_count' = Pending
        BY <1>0, <1>4, <2>3, <3>5 DEF RefreshInv
      <4>3. late = Lag'
        BY <2>a, <4>2
      <4>4. tRC \in Nat /\ Pending \in Nat /\ age \in Nat
        BY <1>0, Timing
      <4>5. late \in Nat /\ count = Pending /\ Lag + 1 <= late
        BY <2>a, <2>b, <4>1, <4>2, <4>3
      <4> QED BY <3>3, <4>1, <4>2, <4>4, <4>5
    <3> QED BY <3>4, <3>5
  <2> QED BY <2>1, <2>2, <2>3
<1> QED BY <1>2, <1>3, <1>5, <1>6, <1>7 DEF RefreshInv
(* A reset in any cycle: the device is given time for whatever command it  *)
(* has seen, and a write it may have seen is among the expected values.    *)
LEMMA ResetStep ==
  ASSUME SDRAMInv, Reset
  PROVE  SDRAMInv'
<1> USE DEF SDRAMInv
<1>0. /\ TypeInv /\ request \in Requests /\ state \in States /\ timec \in 0 .. tReset
      /\ state' = "RESET" /\ timec' = 0 /\ refresh_count' = 0 /\ cmd' = "NOP"
      /\ h_compl' = FALSE /\ h_config_done' = FALSE
      /\ row_is_open' = [b \in Banks |-> FALSE] /\ open_row' = open_row
      /\ expected' = IF WritesTracked THEN expected \cup {request.data} ELSE expected
  BY DEF Reset, ControllerReset, TypeInv
<1>1. PICK c \in {cmd, "NOP"} : Device(c)
  BY DEF Reset
<1>2. contents' \in [Cells -> Fresh \cup {0}] /\ contents'[Tracked] \in expected'
  <2>1. contents[Tracked] \in expected'
    BY <1>0 DEF DataInv, Written
  <2>2. CASE c = cmd
    BY <1>0, <1>1, <2>1, <2>2, TrackedStep
  <2>3. CASE c = "NOP"
    BY <1>0, <1>1, <2>1, <2>3, DeviceStep DEF TypeInv
  <2> QED BY <1>1, <2>2, <2>3
<1>3. TypeInv'
  <2>1. request' \in Requests /\ access' \in BOOLEAN
    BY <1>0 DEF Reset, KeepRequest, NewRequest, TypeInv
  <2>2. dev_wait' \in [Banks -> Nat] /\ age' \in Nat
    BY <1>0, <1>1, DeviceStep
  <2>3. state' \in States /\ timec' \in 0 .. tReset /\ refresh_count' \in 0 .. Pending
        /\ timec' <= LastCycle[state']
    BY <1>0, Timing, LastCycles DEF States
  <2>4. row_is_open' \in [Banks -> BOOLEAN] /\ open_row' \in [Banks -> Rows]
    BY <1>0 DEF TypeInv
  <2>5. h_compl' \in BOOLEAN /\ h_config_done' \in BOOLEAN
    BY <1>0
  <2> QED BY <1>2, <2>1, <2>2, <2>3, <2>4, <2>5 DEF TypeInv
<1>4. PinsInv'
  BY <1>0, FirstCommands DEF PinsInv, Serving
<1>5. WaitInv'
  <2> SUFFICES ASSUME NEW b \in Banks PROVE dev_wait'[b] <= WaitLimit'
    BY DEF WaitInv
  <2>1. WaitLimit' = tReset
    <3>1. WaitLimit' = (tReset - 1) + 1 - 0
      BY <1>0, LastCycles DEF WaitLimit
    <3> QED BY <3>1, Timing
  <2>2. CASE c = cmd
    <3>1. /\ dev_wait'[b] \in Nat
          /\ state = "IDLE" => dev_wait'[b] = 0
          /\ state # "IDLE" => dev_wait'[b] <= LastCycle[state] - timec
      BY <1>1, <2>2, WaitLeft
    <3>2. state # "IDLE" => LastCycle[state] \in 0 .. (tReset - 1)
      BY <1>0, LastCycles
    <3> QED BY <1>0, <2>1, <3>1, <3>2, Timing
  <2>3. CASE c = "NOP"
    <3>1. dev_wait[b] \in Nat /\ dev_wait[b] <= WaitLimit
      BY DEF TypeInv, WaitInv
    <3>2. dev_wait'[b] = IF dev_wait[b] = 0 THEN 0 ELSE dev_wait[b] - 1
      BY <1>0, <1>1, <2>3, DeviceStep DEF Touched
    <3>3. WaitLimit \in Nat /\ WaitLimit <= tReset
      <4>1. state # "IDLE" => LastCycle[state] \in 0 .. (tReset - 1) /\ timec <= LastCycle[state]
        BY <1>0, LastCycles DEF TypeInv
      <4> QED BY <1>0, <4>1, Timing DEF WaitLimit
    <3> QED BY <2>1, <3>1, <3>2, <3>3, Timing
  <2> QED BY <1>1, <2>2, <2>3
<1>6. RowsInv'
  BY <1>0 DEF RowsInv, AllClosed, Serving, Setup
<1>7. DataInv'
  BY <1>0, <1>2 DEF DataInv, Written
<1>8. RefreshInv'
  <2>1. age' = 0
    BY <1>0, <1>1 DEF Device
  <2> QED BY <1>0, <2>1, Timing DEF RefreshInv, Setup
<1> QED BY <1>3, <1>4, <1>5, <1>6, <1>7, <1>8

LEMMA SDRAMStep == SDRAMInv /\ [Next]_vars => SDRAMInv'
<1> SUFFICES ASSUME SDRAMInv, [Next]_vars PROVE SDRAMInv'
  OBVIOUS
<1>1. CASE Clock
  BY <1>1, TypeStep, PinsStep, WaitStep, RowsStep, DataStep, RefreshStep DEF SDRAMInv
<1>2. CASE Reset
  BY <1>2, ResetStep
<1>3. CASE UNCHANGED vars
  <2> USE <1>3 DEF SDRAMInv, vars, controller_vars
  <2>1. TypeInv' /\ PinsInv'
    BY DEF TypeInv, PinsInv, Serving
  <2>2. WaitInv' /\ RowsInv'
    BY DEF WaitInv, WaitLimit, RowsInv, AllClosed, Serving, RowHit
  <2>3. DataInv'
    BY DEF DataInv, Written, WritesTracked, CellOf
  <2>4. RefreshInv'
    BY DEF RefreshInv, Lag
  <2> QED BY <2>1, <2>2, <2>3, <2>4
<1> QED BY <1>1, <1>2, <1>3 DEF Next

(* The controller's state, timers and open-row table agree with the device *)
(* in every reachable state.                                               *)
THEOREM SDRAMInvariant == Spec => []SDRAMInv
BY InitInv, SDRAMStep, PTL DEF Spec

(* SDRAMController.sv never issues a command the device may not take: no   *)
(* activation of an open bank, no access to a closed or other row, no      *)
(* refresh with a bank open, and none before the last command's time.      *)
THEOREM ProtocolKept == Spec => []CommandsLegal
<1>1. SDRAMInv => CommandsLegal
  <2> SUFFICES ASSUME SDRAMInv PROVE CommandsLegal
    OBVIOUS
  <2> USE DEF SDRAMInv
  <2>0. /\ state \in States /\ timec \in 0 .. tReset /\ request \in Requests
        /\ request.bank \in Banks
        /\ cmd = IF timec = 0 THEN FirstCommand[state] ELSE "NOP"
        /\ \A b \in Banks : dev_wait[b] \in Nat /\ dev_wait[b] <= WaitLimit
    BY RequestType DEF TypeInv, PinsInv, WaitInv
  <2>1. cmd # "NOP" => timec = 0 /\ \A b \in Banks : dev_wait[b] = 0
    BY <2>0, FirstCommands DEF WaitLimit
  <2>2. CASE cmd = "ACT"
    <3>1. state = "ACT" /\ timec = 0
      BY <2>0, <2>2, FirstCommands DEF States
    <3>2. s_banksel = request.bank /\ ~row_is_open[request.bank]
      BY <3>1 DEF PinsInv, RowsInv, Serving
    <3>3. dev_row[request.bank] = NoRow
      BY <2>0, <3>1, <3>2 DEF RowsInv, Serving
    <3> QED BY <2>0, <2>1, <2>2, <3>2, <3>3 DEF CommandsLegal
  <2>3. CASE cmd \in {"READ", "WRITE"}
    <3>1. state = cmd
      BY <2>0, <2>3, FirstCommands DEF States
    <3>2. s_banksel = request.bank /\ RowHit(request)
      BY <2>3, <3>1 DEF PinsInv, RowsInv, Serving
    <3>3. dev_row[request.bank] = request.row
      BY <2>0, <2>3, <3>1, <3>2 DEF RowsInv, Serving, RowHit
    <3> QED BY <2>0, <2>1, <2>3, <3>2, <3>3 DEF CommandsLegal
  <2>4. CASE cmd = "PRE"
    <3>1. state \in {"RESET_PCH", "PCH"}
      BY <2>0, <2>4, FirstCommands DEF States
    <3>2. ~s_addr.a10 => s_banksel \in Banks
      BY <2>0, <3>1 DEF PinsInv, Serving
    <3> QED BY <2>1, <2>4, <3>2 DEF CommandsLegal
  <2>5. CASE cmd \in {"REF", "MRS"}
    <3>1. state \in {"RESET_REF1", "RESET_REF2", "MRS", "AUTOREF"}
      BY <2>0, <2>5, FirstCommands DEF States
    <3>2. \A b \in Banks : dev_row[b] = NoRow
      BY <3>1 DEF RowsInv, AllClosed
    <3> QED BY <2>1, <2>5, <3>2 DEF CommandsLegal
  <2>6. CASE cmd = "NOP"
    BY <2>6 DEF CommandsLegal
  <2> QED BY <2>0, <2>2, <2>3, <2>4, <2>5, <2>6, FirstCommands DEF States
<1> QED BY <1>1, SDRAMInvariant, PTL

(* A completed read returns what was last written to its cell, through row *)
(* changes, refreshes and resets.                                          *)
THEOREM DataKept == Spec => []ReadsReturnLastWrite
<1>1. SDRAMInv => ReadsReturnLastWrite
  BY DEF SDRAMInv, DataInv, Written, WritesTracked, ReadsReturnLastWrite
<1> QED BY <1>1, SDRAMInvariant, PTL

(* The refresh period itself is not kept (RefreshInTime of SDRAM), but it  *)
(* is missed by no more than a fixed time: however the host's requests     *)
(* fall, the refresh that the timer asks for waits for the access and the  *)
(* precharge before it and for nothing else.                               *)
THEOREM RefreshLateness == Spec => []RefreshGapBounded
<1>1. SDRAMInv => RefreshGapBounded
  <2> SUFFICES ASSUME SDRAMInv PROVE age <= WorstRefreshGap
    BY DEF RefreshGapBounded
  <2> USE DEF SDRAMInv
  <2>0. /\ state \in States /\ timec \in Nat /\ refresh_count \in Nat /\ age \in Nat
        /\ refresh_count <= Pending /\ (state # "IDLE" => timec <= LastCycle[state])
    BY Timing DEF TypeInv
  <2>1. CASE state = "AUTOREF"
    BY <2>0, <2>1, Timing, AccessTimes, LastCycles DEF RefreshInv
  <2>2. CASE state \in Setup
    BY <2>2, AccessTimes DEF RefreshInv
  <2>3. CASE state # "AUTOREF" /\ state \notin Setup
    <3>1. Lag \in Nat /\ Lag <= tRCD + AccessTime + 2 + tRP
      <4>1. CASE state = "ACT" \/ (state = "PCH" /\ ~s_addr.a10)
        <5>1. Lag = timec
          BY <4>1 DEF Lag
        <5> QED BY <2>0, <4>1, <5>1, Timing, AccessTimes, LastCycles
      <4>2. CASE state \in {"READ", "WRITE"}
        <5>1. Lag = tRCD + timec
          BY <4>2 DEF Lag
        <5> QED BY <2>0, <4>2, <5>1, Timing, AccessTimes, LastCycles
      <4>3. CASE state = "IDLE"
        BY <4>3, Timing, AccessTimes DEF Lag
      <4>4. CASE state = "PCH" /\ s_addr.a10
        <5>1. Lag = tRCD + AccessTime + 2 + timec
          BY <4>4 DEF Lag
        <5> QED BY <2>0, <4>4, <5>1, Timing, AccessTimes, LastCycles
      <4> QED BY <2>0, <2>3, <4>1, <4>2, <4>3, <4>4 DEF States, Setup
    <3>2. age <= tRC + Pending + Lag
      BY <2>0, <2>3, <3>1, Timing DEF RefreshInv
    <3> QED BY <2>0, <3>1, <3>2, Timing, AccessTimes
  <2> QED BY <2>1, <2>2, <2>3
<1> QED BY <1>1, SDRAMInvariant, PTL
=============================================================================
