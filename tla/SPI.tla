-------------------------------- MODULE SPI --------------------------------
(***************************************************************************)
(* SD cards behind the SPI port, as records.  The card of kind "sim" is    *)
(* the simulator's (sim/SPI.cpp).  "sdsc" and "sdhc" are real cards, with  *)
(* byte and with block addresses, as the driver's comments and constants   *)
(* expect them: they choose how long they take, may refuse a command or a  *)
(* block, and are busy after a write.                                      *)
(***************************************************************************)
EXTENDS Naturals, Sequences, FiniteSets

CONSTANTS BLOCK_SIZE,
          Delays,       \* high bytes a real card may send before the data
          BusyTimes,    \* bytes for which it may be busy after a block
          MaxIdle       \* polls for which it may stay in its idle state

ASSUME CardAssumption ==
  /\ BLOCK_SIZE \in 1 .. 512
  /\ Delays \subseteq Nat /\ BusyTimes \subseteq Nat /\ MaxIdle \in Nat \ {0}

FF == 255
DATA_START_TOKEN == 254

(* Command bytes. *)
GO_IDLE == 64
IF_COND == 72
SET_BLOCKLEN == 80
READ_BLOCK == 81
WRITE_BLOCK == 88
OP_COND == 105
APP_CMD == 119
READ_OCR == 122
Commands == {GO_IDLE, IF_COND, SET_BLOCKLEN, READ_BLOCK, WRITE_BLOCK, OP_COND,
             APP_CMD, READ_OCR}

Address(frame) == ((frame[2] * 256 + frame[3]) * 256 + frame[4]) * 256 + frame[5]
High(n) == [i \in 1 .. n |-> FF]
Zeros(n) == [i \in 1 .. n |-> 0]

(* The byte position a command frame addresses, and a block of the disk. *)
Position(c) ==
  IF c.kind = "sdhc" THEN BLOCK_SIZE * Address(c.mosi) ELSE Address(c.mosi)
ByteAt(disk, pos) == IF pos \in DOMAIN disk THEN disk[pos] ELSE FF
Block(disk, pos) == [i \in 1 .. BLOCK_SIZE |-> ByteAt(disk, pos + i - 1)]
Positions(pos) == pos .. pos + BLOCK_SIZE - 1

read_block(c) ==
  [c EXCEPT !.miso = <<FF, FF, 0, FF, DATA_START_TOKEN>>
                     \o Block(c.disk, Position(c)) \o <<119, 119>>]
write_block(c) ==
  [c EXCEPT !.miso = <<FF, 0, FF, FF, 5>>, !.do_write = TRUE, !.write_count = 0,
            !.pos = Position(c)]

(* SPI::transmit_ready: when it answers, and what. *)
transmit_ready(c) ==
  Len(c.mosi) >= 7 \/ (c.kind = "sim" /\ c.mosi[1] \notin Commands)

SimResponse(c) ==
  LET cmd == c.mosi[1]
  IN CASE cmd \in {APP_CMD, GO_IDLE, IF_COND, SET_BLOCKLEN} -> [c EXCEPT !.miso = <<1>>]
       [] cmd = OP_COND -> [c EXCEPT !.miso = <<0>>]
       [] cmd = READ_BLOCK -> read_block(c)
       [] cmd = WRITE_BLOCK -> write_block(c)
       [] cmd = READ_OCR -> [c EXCEPT !.miso = <<1, 0, 0, 0, 0>>]
       [] OTHER -> [c EXCEPT !.miso = <<254>>]

(* What a real card may answer: R1 with the idle bit, or with an error.    *)
(* It takes no block that it has no place for.                             *)
R1(c) == IF c.idle > 0 THEN 1 ELSE 0
ERROR == 4
RealResponses(c) ==
  LET cmd == c.mosi[1]
      failed == [c EXCEPT !.miso = <<ERROR>>]
      ocr == IF c.idle = 0 /\ c.kind = "sdhc" THEN 192 ELSE 128 * (1 - R1(c))
  IN CASE cmd = GO_IDLE -> {[c EXCEPT !.miso = <<1>>, !.idle = k] : k \in 1 .. MaxIdle}
       [] cmd = OP_COND -> {[c EXCEPT !.miso = <<IF c.idle > 1 THEN 1 ELSE 0>>,
                                      !.idle = IF @ > 1 THEN @ - 1 ELSE 0]}
       [] cmd = READ_OCR -> {[c EXCEPT !.miso = <<R1(c), ocr, FF, 128, 0>>], failed}
       [] cmd = READ_BLOCK ->
            {[c EXCEPT !.miso = <<0>> \o High(d) \o <<DATA_START_TOKEN>>
                                \o Block(c.disk, Position(c)) \o <<119, 119>>]
               : d \in Delays} \cup {failed, [c EXCEPT !.miso = <<FF, 0, FF, 8>>]}
       [] cmd = WRITE_BLOCK ->
            {failed} \cup (IF Positions(Position(c)) \subseteq DOMAIN c.disk
                           THEN {[c EXCEPT !.miso = <<0>>, !.do_write = TRUE, !.write_count = 0,
                                           !.pos = Position(c)]} ELSE {})
       [] cmd = IF_COND -> {[c EXCEPT !.miso = <<1, 0, 0, 1, 170>>]}
       [] cmd \in {APP_CMD, SET_BLOCKLEN} -> {[c EXCEPT !.miso = <<R1(c)>>]}
       [] OTHER -> {failed}

Responses(c) == IF c.kind = "sim" THEN {SimResponse(c)} ELSE RealResponses(c)

(* The byte after the block and its CRC: the simulated card has stored     *)
(* each byte as it came; a real one accepts the block and is busy, until   *)
(* the middle of a byte or until the end of one, or refuses it.            *)
Put(c, mosi) ==
  IF c.kind = "sim"
  THEN [c EXCEPT !.disk[c.pos + c.write_count] = mosi, !.rx = FF]
  ELSE [c EXCEPT !.data = Append(@, mosi), !.rx = FF]
Stored(c) ==
  [a \in DOMAIN c.disk |-> IF a \in Positions(c.pos)
                           THEN c.data[a - c.pos + 1] ELSE c.disk[a]]
Taken(c, busy) ==
  [c EXCEPT !.rx = 229, !.state = "TRANSMITTING", !.do_write = FALSE, !.disk = Stored(c),
            !.data = << >>, !.miso = busy]
NotTaken(c) == [c EXCEPT !.rx = 235, !.state = "IDLE", !.do_write = FALSE, !.data = << >>]
DataResponses(c) ==
  IF c.kind = "sim" THEN {[c EXCEPT !.rx = 5, !.state = "IDLE"]}
  ELSE {Taken(c, Zeros(n) \o last) : n \in BusyTimes, last \in {<< >>, <<15>>}}
       \cup {NotTaken(c)}

(* A byte of the block, of its CRC, or behind it. *)
DO_WRITE_BLOCK(c, mosi) ==
  CASE c.write_count < BLOCK_SIZE -> {Put(c, mosi)}
    [] c.write_count \in BLOCK_SIZE .. BLOCK_SIZE + 1 ->
         {[c EXCEPT !.rx = IF c.kind = "sim" THEN 170 ELSE FF]}
    [] OTHER -> DataResponses(c)

(* One byte out and one byte in: the cards that may result, rx included.   *)
transfer(c, mosi) ==
  CASE c.state = "IDLE" ->
         LET start == mosi # FF /\ c.selected
         IN {[c EXCEPT !.do_write = FALSE, !.rx = FF,
                       !.state = IF start THEN "RECEIVING" ELSE @,
                       !.mosi = IF start THEN Append(@, mosi) ELSE @]}
    [] c.state = "RECEIVING" ->
         LET d == [c EXCEPT !.mosi = Append(@, mosi), !.rx = FF]
         IN IF transmit_ready(d)
            THEN {[r EXCEPT !.state = "TRANSMITTING"] : r \in Responses(d)}
            ELSE {d}
    [] c.state = "TRANSMITTING" ->
         {IF c.miso = << >>
          THEN [c EXCEPT !.rx = FF, !.mosi = << >>,
                         !.state = IF c.do_write THEN "WAIT_FOR_DATA" ELSE "IDLE"]
          ELSE [c EXCEPT !.rx = Head(c.miso), !.miso = Tail(@)]}
    [] c.state = "WAIT_FOR_DATA" ->
         {[c EXCEPT !.rx = FF,
                    !.state = IF mosi = DATA_START_TOKEN THEN "DO_WRITE_BLOCK" ELSE @]}
    [] c.state = "DO_WRITE_BLOCK" ->
         {[d EXCEPT !.write_count = @ + 1] : d \in DO_WRITE_BLOCK(c, mosi)}

NewCard(kind, disk) ==
  [kind |-> kind, state |-> "IDLE", mosi |-> << >>, miso |-> << >>, rx |-> 0,
   do_write |-> FALSE, write_count |-> 0, pos |-> 0, data |-> << >>,
   selected |-> TRUE, idle |-> IF kind = "sim" THEN 0 ELSE 1, disk |-> disk]
=============================================================================
