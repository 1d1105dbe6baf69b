----------------------------- MODULE DiskProofs ------------------------------
(***************************************************************************)
(* The SD card driver and INT 13h, whatever a card answers and for every   *)
(* size of blocks, delays and buffer that the assumptions of SPI and Disk  *)
(* admit: the transfers stay inside their buffer, the mouse is never left  *)
(* suspended, sectors are read as they are on the card and written where   *)
(* the caller says.  The first part needs only the shape of the transfers  *)
(* (DriverInv); the second follows each byte between driver and card       *)
(* (DiskInv).                                                              *)
(***************************************************************************)
EXTENDS Disk, TLAPS

(* What runs when spi_xfer is through. *)
At == IF pc = "xfer" THEN xfer.then ELSE pc

(* Places between mouse_suspend and mouse_resume. *)
Suspended == {"booted", "read", "write_block", "written", "poll", "polled"}

Places ==
  {"flush", "reset", "if_cond", "ocr", "wait_ready", "poll_again", "op_cond", "blocklen", "boot"}
    \cup Suspended

XferType ==
  [len : Nat, wait : BOOLEAN, src : Nat, dst : Nat, got : BOOLEAN, then : Places]

(* The loop of spi_xfer runs only while a byte of the answer is missing. *)
DriverInv ==
  /\ xfer \in XferType
  /\ TransfersFit
  /\ pc = "xfer" => xfer.dst < xfer.len
  /\ At \notin Suspended => mouse_on = have_mouse

(* The sizes that the buffer is laid out for. *)
LEMMA Sizes ==
  /\ BUF_SIZE \in Nat /\ SD_NCR \in Nat /\ MAX_DATA_START_OFFS \in Nat /\ BLOCK_SIZE \in Nat
  /\ BLOCK_SIZE >= 1 /\ BUF_SIZE >= 7 + (4 + BLOCK_SIZE + MAX_DATA_START_OFFS) + SD_NCR
BY DriverAssumption, BufferAssumption, CardAssumption

(* A transfer that starts begins at the start of the buffer and fits. *)
LEMMA StartFits ==
  ASSUME NEW len \in Nat, len > 0, len <= BUF_SIZE, NEW wait \in BOOLEAN, NEW then \in Places,
         pc' = "xfer",
         xfer' = [len |-> len, wait |-> wait, src |-> 0, dst |-> 0, got |-> FALSE, then |-> then],
         DOMAIN buf' = 0 .. BUF_SIZE - 1,
         then \in Suspended \/ mouse_on' = have_mouse'
  PROVE  DriverInv'
<1>1. xfer' \in XferType
  BY DEF XferType
<1>2. TransfersFit'
  BY DEF TransfersFit
<1>3. At' = then
  BY DEF At
<1> QED BY <1>1, <1>2, <1>3 DEF DriverInv

(* Filling the buffer does not make it larger. *)
LEMMA FillDomain ==
  ASSUME NEW bs, NEW n PROVE DOMAIN Fill(bs, n) = 0 .. BUF_SIZE - 1
BY DEF Fill

(* A command and its answer fit into the buffer. *)
LEMMA CommandFits ==
  ASSUME NEW cmd, NEW arg, NEW rx_datalen \in Nat, NEW then \in Places,
         rx_datalen <= 4 + BLOCK_SIZE + MAX_DATA_START_OFFS,
         spi_do_command(cmd, arg, rx_datalen, then),
         then \in Suspended \/ mouse_on' = have_mouse'
  PROVE  DriverInv'
<1> DEFINE len == spi_command_len(rx_datalen)
<1>1. len \in Nat /\ len > 0 /\ len <= BUF_SIZE
  BY Sizes DEF spi_command_len
<1>2. /\ pc' = "xfer"
      /\ xfer' = [len |-> len, wait |-> TRUE, src |-> 0, dst |-> 0, got |-> FALSE, then |-> then]
  BY DEF spi_do_command, Start
<1>3. DOMAIN buf' = 0 .. BUF_SIZE - 1
  BY FillDomain, Zenon DEF spi_do_command
<1> HIDE DEF len
<1> QED BY <1>1, <1>2, <1>3, StartFits

(* A step that leaves the transfer alone and moves on to another place. *)
LEMMA MoveFits ==
  ASSUME DriverInv, xfer' = xfer, buf' = buf, pc' # "xfer",
         pc' \in Suspended \/ mouse_on' = have_mouse'
  PROVE  DriverInv'
BY DEF DriverInv, TransfersFit, At

(* A byte on the bus. *)
LEMMA XferStep ==
  ASSUME DriverInv, spi_xfer
  PROVE  DriverInv'
<1> DEFINE out == IF xfer.src < xfer.len THEN buf[xfer.src] ELSE FF
           src == IF xfer.src < xfer.len THEN xfer.src + 1 ELSE xfer.src
<1>1. PICK c \in transfer(card, out) :
        LET sent == ~xfer.wait /\ src = xfer.len
            keep == ~sent /\ (xfer.got \/ c.rx # FF)
            dst == IF keep THEN xfer.dst + 1 ELSE xfer.dst
        IN /\ xfer' = [xfer EXCEPT !.src = src, !.dst = dst, !.got = @ \/ keep]
           /\ buf' = IF keep THEN [buf EXCEPT ![xfer.dst] = c.rx] ELSE buf
           /\ pc' = IF sent \/ dst = xfer.len THEN xfer.then ELSE pc
  BY DEF spi_xfer
<1> DEFINE sent == ~xfer.wait /\ src = xfer.len
           keep == ~sent /\ (xfer.got \/ c.rx # FF)
           dst == IF keep THEN xfer.dst + 1 ELSE xfer.dst
<1>2. /\ pc = "xfer" /\ mouse_on' = mouse_on /\ have_mouse' = have_mouse
      /\ xfer \in XferType /\ xfer.dst < xfer.len /\ DOMAIN buf = 0 .. BUF_SIZE - 1
      /\ xfer.dst <= xfer.src /\ xfer.src <= xfer.len /\ xfer.len <= BUF_SIZE
  BY DEF spi_xfer, DriverInv, TransfersFit, mouse
<1>3. src \in Nat /\ xfer.src <= src /\ src <= xfer.len
  BY <1>2 DEF XferType
<1>4. dst \in Nat /\ dst <= src
  BY <1>2, <1>3 DEF XferType
<1>5. (xfer.got \/ keep) \in BOOLEAN
  BY <1>2 DEF XferType
<1>6. xfer' = [xfer EXCEPT !.src = src, !.dst = dst, !.got = xfer.got \/ keep]
      /\ DOMAIN buf' = DOMAIN buf /\ pc' = IF sent \/ dst = xfer.len THEN xfer.then ELSE pc
  BY <1>1
<1> HIDE DEF src, dst, keep, sent
<1>7. /\ xfer' \in XferType /\ xfer'.src = src /\ xfer'.dst = dst /\ xfer'.len = xfer.len
      /\ xfer'.then = xfer.then
  BY <1>2, <1>3, <1>4, <1>5, <1>6 DEF XferType
<1>8. TransfersFit'
  BY <1>2, <1>3, <1>4, <1>6, <1>7 DEF TransfersFit
<1>9. pc' = "xfer" => dst < xfer.len
  <2>1. xfer.then # "xfer" /\ xfer.len \in Nat
    BY <1>2 DEF XferType, Places, Suspended
  <2> QED BY <1>2, <1>3, <1>4, <1>6, <2>1
<1>10. At' = At
  BY <1>2, <1>6, <1>7 DEF At, XferType, Places, Suspended
<1> QED BY <1>2, <1>7, <1>8, <1>9, <1>10 DEF DriverInv

(* A step of sd_init and sd_boot. *)
LEMMA BootStep ==
  ASSUME DriverInv, Boot
  PROVE  DriverInv'
<1> USE DEF panic, OrPanic, mouse
<1>0. ASSUME pc \notin Suspended, pc # "xfer", UNCHANGED mouse
      PROVE  mouse_on' = have_mouse'
  BY <1>0 DEF DriverInv, At
<1>s. {1, 5, 1 + 1 + BLOCK_SIZE + 2 + MAX_DATA_START_OFFS} \subseteq Nat
      /\ 5 <= 4 + BLOCK_SIZE + MAX_DATA_START_OFFS /\ 1 <= 4 + BLOCK_SIZE + MAX_DATA_START_OFFS
      /\ 1 + 1 + BLOCK_SIZE + 2 + MAX_DATA_START_OFFS <= 4 + BLOCK_SIZE + MAX_DATA_START_OFFS
      /\ 8 \in Nat /\ 8 > 0 /\ 8 <= BUF_SIZE
  BY Sizes
<1>1. CASE sd_send_initial_clock
  <2>1. /\ pc' = "xfer" /\ mouse_on' = have_mouse'
        /\ xfer' = [len |-> 8, wait |-> FALSE, src |-> 0, dst |-> 0, got |-> FALSE, then |-> "flush"]
    BY <1>0, <1>1 DEF sd_send_initial_clock, Suspended, Start
  <2>2. DOMAIN buf' = 0 .. BUF_SIZE - 1
    BY <1>1, FillDomain, Zenon DEF sd_send_initial_clock
  <2> QED BY <1>s, <2>1, <2>2, StartFits DEF Places
<1>2. CASE sd_flush_fifo
  <2>1. /\ pc' = "xfer" /\ mouse_on' = have_mouse'
        /\ xfer' = [len |-> 8, wait |-> FALSE, src |-> 0, dst |-> 0, got |-> FALSE, then |-> "reset"]
    BY <1>0, <1>2 DEF sd_flush_fifo, Suspended, Start
  <2>2. DOMAIN buf' = 0 .. BUF_SIZE - 1
    BY <1>2, FillDomain, Zenon DEF sd_flush_fifo
  <2> QED BY <1>s, <2>1, <2>2, StartFits DEF Places
<1>3. CASE sd_send_reset
  BY <1>0, <1>3, <1>s, CommandFits DEF sd_send_reset, Places, Suspended
<1>4. CASE sd_send_if_cond
  BY <1>0, <1>4, <1>s, CommandFits, MoveFits DEF sd_send_if_cond, Places, Suspended
<1>5. CASE sd_send_read_ocr
  BY <1>0, <1>5, <1>s, CommandFits, MoveFits DEF sd_send_read_ocr, Places, Suspended
<1>6. CASE send_acmd
  BY <1>0, <1>6, <1>s, CommandFits, MoveFits DEF send_acmd, Places, Suspended
<1>7. CASE sd_wait_ready
  BY <1>0, <1>7, <1>s, CommandFits, MoveFits DEF sd_wait_ready, Places, Suspended
<1>8. CASE sd_set_blocklen
  BY <1>0, <1>8, <1>s, CommandFits, MoveFits DEF sd_set_blocklen, Places, Suspended
<1>9. CASE sd_boot
  <2>1. CASE Failed
    BY <1>0, <1>9, <2>1, MoveFits DEF sd_boot, Suspended
  <2>2. CASE ~Failed
    <3>1. read_sector(0, "booted")
      BY <1>9, <2>2 DEF sd_boot
    <3> QED BY <1>s, <3>1, CommandFits DEF read_sector, Places, Suspended
  <2> QED BY <2>1, <2>2
<1>10. CASE Booted
  BY <1>10, MoveFits DEF Booted, Resume, driver
<1> QED BY <1>1, <1>2, <1>3, <1>4, <1>5, <1>6, <1>7, <1>8, <1>9, <1>10 DEF Boot

(* A step of INT 13h. *)
LEMMA ServiceStep ==
  ASSUME DriverInv, Service
  PROVE  DriverInv'
<1> USE DEF mouse, driver
<1>s. /\ 1 \in Nat /\ 1 > 0 /\ 1 <= 4 + BLOCK_SIZE + MAX_DATA_START_OFFS /\ 1 <= BUF_SIZE
      /\ 1 + 1 + BLOCK_SIZE + 2 + MAX_DATA_START_OFFS \in Nat
      /\ 1 + 1 + BLOCK_SIZE + 2 + MAX_DATA_START_OFFS <= 4 + BLOCK_SIZE + MAX_DATA_START_OFFS
      /\ 5 + BLOCK_SIZE \in Nat /\ 5 + BLOCK_SIZE > 0 /\ 5 + BLOCK_SIZE <= BUF_SIZE
  BY Sizes
<1>1. CASE NextSector
  <2>1. CASE regs.fn = 2
    <3>1. read_sector(regs.lba + regs.i, "read")
      BY <1>1, <2>1 DEF NextSector
    <3> QED BY <1>s, <3>1, CommandFits DEF read_sector, Places, Suspended
  <2>2. CASE regs.fn # 2
    <3>1. sd_make_write_request(regs.lba + regs.i)
      BY <1>1, <2>2 DEF NextSector
    <3> QED BY <1>s, <3>1, CommandFits DEF sd_make_write_request, Places, Suspended
  <2> QED BY <2>1, <2>2
<1>2. CASE LastSector
  BY <1>2, MoveFits DEF LastSector, DriverInv, At, Suspended
<1>3. CASE SectorRead
  BY <1>3, MoveFits DEF SectorRead, Resume
<1>4. CASE Refused
  BY <1>4, MoveFits DEF Refused, SectorWritten, Resume
<1>5. CASE Accepted
  <2>1. /\ pc' = "xfer"
        /\ xfer' = [len |-> 5 + BLOCK_SIZE, wait |-> TRUE, src |-> 0, dst |-> 0, got |-> FALSE,
                    then |-> "written"]
    BY <1>5 DEF Accepted, sd_write_block, Start
  <2>2. DOMAIN buf' = 0 .. BUF_SIZE - 1
    BY <1>5, FillDomain, Zenon DEF Accepted, sd_write_block
  <2> QED BY <1>s, <2>1, <2>2, StartFits DEF Places, Suspended
<1>6. CASE Received
  BY <1>6, MoveFits DEF Received, Suspended
<1>7. CASE PollWrite
  <2>1. /\ pc' = "xfer"
        /\ xfer' = [len |-> 1, wait |-> TRUE, src |-> 0, dst |-> 0, got |-> FALSE,
                    then |-> "polled"]
    BY <1>7 DEF PollWrite, Start
  <2>2. DOMAIN buf' = 0 .. BUF_SIZE - 1
    BY <1>7, FillDomain, Zenon DEF PollWrite
  <2> QED BY <1>s, <2>1, <2>2, StartFits DEF Places, Suspended
<1>8. CASE Polled
  BY <1>8, MoveFits DEF Polled, Suspended
<1>9. CASE wait_for_write_completion
  BY <1>9, MoveFits DEF wait_for_write_completion, SectorWritten, Resume
<1> QED BY <1>1, <1>2, <1>3, <1>4, <1>5, <1>6, <1>7, <1>8, <1>9 DEF Service

(* A call of INT 13h. *)
LEMMA CallStep ==
  ASSUME DriverInv, NEW call \in Calls, disk_transfer(call) \/ disk_other(call)
  PROVE  DriverInv'
<1>1. pc = "idle" /\ UNCHANGED <<driver, mouse>> /\ pc' \in {"idle", "sector"}
  BY DEF disk_transfer, disk_other, Called
<1> QED BY <1>1, MoveFits DEF driver, mouse, DriverInv, At, Suspended

(* The driver before sd_init. *)
LEMMA InitDriver ==
  ASSUME Init
  PROVE  DriverInv
<1>1. xfer \in XferType
  BY DEF Init, NoXfer, XferType, Places
<1>2. TransfersFit
  BY Sizes DEF Init, NoXfer, TransfersFit
<1> QED BY <1>1, <1>2 DEF Init, DriverInv, At

(* The driver's transfers and the mouse in every reachable state. *)
THEOREM DriverInvariant == Spec => []DriverInv
<1>1. Init => DriverInv
  BY InitDriver
<1>2. DriverInv /\ [Next]_vars => DriverInv'
  <2> SUFFICES ASSUME DriverInv, [Next]_vars PROVE DriverInv'
    OBVIOUS
  <2>1. CASE UNCHANGED vars
    BY <2>1 DEF vars, driver, mouse, DriverInv, TransfersFit, At
  <2> QED BY <2>1, XferStep, BootStep, ServiceStep, CallStep DEF Next
<1> QED BY <1>1, <1>2, PTL DEF Spec

(* spi_xfer stays inside spi_xfer_buf and never overwrites a byte it has   *)
(* still to send, whatever and whenever the card answers.                  *)
THEOREM BufferNeverOverrun == Spec => []TransfersFit
<1>1. DriverInv => TransfersFit
  BY DEF DriverInv
<1> QED BY <1>1, DriverInvariant, PTL

(* Every INT 13h call, and the boot, returns with the mouse reporting      *)
(* again, on every error path of read_sector and write_sector.             *)
THEOREM MouseNeverLost == Spec => []MouseResumed
<1>1. DriverInv => MouseResumed
  BY DEF DriverInv, MouseResumed, At, Suspended
<1> QED BY <1>1, DriverInvariant, PTL
-----------------------------------------------------------------------------
(* What the sectors of a card go through: the card's answers, how they     *)
(* come in, and what the caller is told.  The definitions take the card c, *)
(* the transfer x and the buffer b as parameters, so that the lemmas about *)
(* them speak of both ends of a step.                                      *)

Bytes == 0 .. 255

CardType ==
  [kind : {"sim", "sdsc", "sdhc"},
   state : {"IDLE", "RECEIVING", "TRANSMITTING", "WAIT_FOR_DATA", "DO_WRITE_BLOCK"},
   mosi : Seq(Bytes), miso : Seq(Bytes), rx : Bytes, do_write : BOOLEAN,
   write_count : Nat, pos : Nat, data : Seq(Bytes), selected : BOOLEAN, idle : Nat,
   disk : [DOMAIN DiskImage -> Bytes]]

CardOk(c) ==
  /\ c \in CardType /\ (c.kind = "sim" => c.idle = 0)
  /\ c.kind = "sim" \/ c.state # "DO_WRITE_BLOCK" => c.data = << >>
CardInv == CardOk(card)

(* The longest transfer; the buffer behind it is never written. *)
Longest == spi_command_len(4 + BLOCK_SIZE + MAX_DATA_START_OFFS)
BufInv ==
  /\ buf \in [0 .. BUF_SIZE - 1 -> Bytes]
  /\ \A i \in Longest .. BUF_SIZE - 1 : buf[i] = 0
  /\ xfer.len <= Longest

(* Places after a command, and that command. *)
CommandPlaces ==
  {"if_cond", "ocr", "wait_ready", "blocklen", "op_cond", "poll_again", "boot", "booted", "read",
   "write_block"}
Sent(place) ==
  CASE place = "if_cond" -> GO_IDLE
    [] place = "ocr" -> IF_COND
    [] place \in {"wait_ready", "blocklen"} -> READ_OCR
    [] place = "op_cond" -> APP_CMD
    [] place = "poll_again" -> OP_COND
    [] place = "boot" -> SET_BLOCKLEN
    [] place \in {"booted", "read"} -> READ_BLOCK
    [] OTHER -> WRITE_BLOCK

(* The sector that a call is at. *)
Target == regs.lba + regs.i

(* The card takes a command, now or after the next byte. *)
Resting(c) == c.state = "IDLE" /\ c.mosi = << >>
Ready(c) == Resting(c) \/ (c.state = "TRANSMITTING" /\ c.miso = << >> /\ ~c.do_write)

(* The card waits for the block of sector s. *)
Room(c, s) == c.pos = BLOCK_SIZE * s /\ (c.kind # "sim" => Positions(c.pos) \subseteq DOMAIN DiskImage)
WriteOpen(c, s) == c.write_count = 0 /\ c.data = << >> /\ Room(c, s)

(* A card's answer f of len bytes to a read has no start token, or sector  *)
(* s behind its first one.                                                 *)
StartsAt(f, t) == f[t] = DATA_START_TOKEN /\ \A i \in 1 .. t - 1 : f[i] # DATA_START_TOKEN
Holds(f, t, s) == \A i \in 1 .. BLOCK_SIZE : f[t + i] = s[i]
GoodRead(f, len, s) ==
  \/ \A i \in 1 .. len - 1 : f[i] # DATA_START_TOKEN
  \/ \E t \in 1 .. len - 1 : t + BLOCK_SIZE < len /\ StartsAt(f, t) /\ Holds(f, t, s)

(* What the driver may rely on in the answer f that it stores for place. *)
Good(c, place, f, len, s) ==
  /\ f[0] # FF
  /\ place = "poll_again" /\ f[0] = 0 => c.idle = 0
  /\ place = "blocklen" /\ f[0] <= 1 => ((f[1] \div 64) % 2 = 1 <=> c.kind = "sdhc")
  /\ place = "read" /\ f[0] <= 1 => GoodRead(f, len, Sector(c.disk, s))
  /\ c.do_write <=> place = "write_block" /\ f[0] <= 1
  /\ c.do_write => WriteOpen(c, s)

(* The j-th byte from now on the wire, and all the driver will have stored *)
(* when it skips k high bytes first.                                       *)
Wire(c, j) == IF c.state = "TRANSMITTING" /\ j \in 1 .. Len(c.miso) THEN c.miso[j] ELSE FF
Answer(c, x, b, k) ==
  [i \in 0 .. x.len - 1 |-> IF i < x.dst THEN b[i] ELSE Wire(c, k + i - x.dst + 1)]

(* The card has answered. *)
Done(c) == c.mosi = << >> /\ c.state = IF c.do_write THEN "WAIT_FOR_DATA" ELSE "IDLE"

(* Transfer of a command, up to the byte after which the card answers. *)
Frame(b) == [i \in 1 .. 7 |-> b[i]]
Sending(c, x, b, addr) ==
  /\ ~x.got /\ x.dst = 0 /\ b[0] = FF /\ b[1] = Sent(x.then)
  /\ \A i \in 7 .. x.len - 1 : b[i] = FF
  /\ x.then \in {"read", "write_block"} => Address(Frame(b)) = addr
  /\ x.src = 0 => Ready(c)
  /\ x.src >= 1 => ~c.do_write
  /\ x.src = 1 => Resting(c)
  /\ x.src >= 2 => /\ c.state = "RECEIVING" /\ Len(c.mosi) = x.src - 1
                   /\ \A i \in 1 .. x.src - 1 : c.mosi[i] = b[i]

(* The rest of it: the answer arrives behind at most two high bytes. *)
Answering(c, x, b, s, k) ==
  /\ IF x.got THEN k = 0 ELSE x.dst = 0
  /\ \A i \in x.src .. x.len - 1 : b[i] = FF
  /\ \A j \in 1 .. k : Wire(c, j) = FF
  /\ IF c.state = "TRANSMITTING" THEN k <= Len(c.miso) /\ (Len(c.miso) - k) + x.dst < x.len
     ELSE k = 0 /\ Done(c)
  /\ Good(c, x.then, Answer(c, x, b, k), x.len, s)
Answered(c, x, b, s) == \E k \in 0 .. 2 : Answering(c, x, b, s, k)

CommandInv ==
  /\ pc = "xfer" /\ xfer.then \in CommandPlaces =>
       /\ xfer.wait /\ xfer.len >= 8 /\ card.selected
       /\ xfer.then \in {"booted", "read"} => xfer.len = Longest
       /\ IF xfer.src < 8
          THEN Sending(card, xfer, buf, IF sd_is_sdhc THEN Target ELSE Target * BLOCK_SIZE)
          ELSE Answered(card, xfer, buf, Target)
  /\ pc \in CommandPlaces => Done(card) /\ Good(card, pc, buf, xfer.len, Target)
  /\ pc = "read" => xfer.len = Longest
  /\ pc \in CommandPlaces => xfer.len >= 8

ClockInv ==
  /\ At \in {"sd_init", "flush", "reset"} => Resting(card)
  /\ pc = "xfer" /\ xfer.then \in {"flush", "reset"} =>
       ~xfer.wait /\ ~xfer.got /\ xfer.len = 8 /\ \A i \in 0 .. 7 : buf[i] = FF

(* A real card after a block: at most m bytes busy, zeroes but the last. *)
BusyBytes(s) == \A i \in 1 .. Len(s) : s[i] # FF /\ (i < Len(s) => s[i] = 0)
Busy(c, m) ==
  /\ c.mosi = << >>
  /\ \/ c.state = "IDLE"
     \/ c.state = "TRANSMITTING" /\ ~c.do_write /\ Len(c.miso) <= m /\ BusyBytes(c.miso)

(* The driver has the card's answer to a block: stored, or refused. *)
Outcome(c, b, s, block, m) ==
  \/ b[0] = 229 /\ Sector(c.disk, s) = block /\ Busy(c, m)
  \/ b[0] \in {170, 235} /\ Resting(c)

(* The block is on its way.  The simulated card answers its CRC. *)
Poured(x) == IF x.src <= 1 THEN 0 ELSE x.src - 2
Pouring(c, x, b, s, block) ==
  /\ c.mosi = << >> /\ c.do_write /\ Room(c, s)
  /\ c.state = IF x.src <= 1 THEN "WAIT_FOR_DATA" ELSE "DO_WRITE_BLOCK"
  /\ c.write_count = Poured(x)
  /\ IF c.kind = "sim" /\ x.src > 2 + BLOCK_SIZE
     THEN x.got /\ x.dst >= 1 /\ b[0] = 170 /\ x.dst = x.src - 2 - BLOCK_SIZE
     ELSE /\ ~x.got /\ x.dst = 0 /\ b[0] = FF /\ b[1] = DATA_START_TOKEN
          /\ \A i \in 1 .. BLOCK_SIZE : b[i + 1] = block[i]
  /\ c.kind # "sim" =>
       /\ Len(c.data) = IF Poured(x) < BLOCK_SIZE THEN Poured(x) ELSE BLOCK_SIZE
       /\ \A i \in 1 .. Len(c.data) : c.data[i] = block[i]

Given == mem[regs.at + regs.i]
Landed == Sector(card.disk, Target) = Given
WriteInv ==
  /\ pc = "xfer" => xfer.then # "poll"
  /\ pc = "xfer" /\ xfer.then = "written" =>
       /\ xfer.wait /\ xfer.len = 5 + BLOCK_SIZE
       /\ IF xfer.src < xfer.len THEN Pouring(card, xfer, buf, Target, Given)
          ELSE xfer.got /\ xfer.dst >= 1
               /\ Outcome(card, buf, Target, Given, POLLS + (xfer.len - xfer.dst))
  /\ pc = "written" => Outcome(card, buf, Target, Given, POLLS)
  /\ pc = "poll" => polls \in 0 .. POLLS /\ Landed /\ Busy(card, POLLS - polls)
  /\ pc = "xfer" /\ xfer.then = "polled" =>
       /\ xfer.wait /\ xfer.len = 1 /\ xfer.dst = 0 /\ (xfer.src = 0 => buf[0] = FF) /\ ~xfer.got
       /\ polls \in 0 .. POLLS - 1 /\ Landed /\ Busy(card, POLLS - polls)
  /\ pc = "polled" =>
       /\ polls \in 0 .. POLLS - 1 /\ Landed /\ Busy(card, POLLS - polls - 1)
       /\ buf[0] # 0 => Ready(card)

(* From the second reading of the OCR on, the driver knows the card. *)
Early == {"sd_init", "flush", "reset", "if_cond", "ocr", "wait_ready", "op_cond", "poll_again",
          "panic"}
AddressInv ==
  /\ At \notin Early => card.idle = 0
  /\ At \notin Early \cup {"blocklen"} => (sd_is_sdhc <=> card.kind = "sdhc")

Serving == {"sector", "read", "write_block", "written", "poll", "polled"}
LastLBA == 2078495
RegsType == [fn : Nat, ah : Nat, lba : Nat, count : Bytes, i : Nat, at : Nat, al : Nat,
             cf : BOOLEAN, status : Nat]
CallInv ==
  /\ regs \in RegsType /\ regs.lba <= LastLBA /\ regs.at + regs.count <= MemBlocks
  /\ mem \in [0 .. MemBlocks - 1 -> Seq(Bytes)] /\ \A a \in 0 .. MemBlocks - 1 : Len(mem[a]) = BLOCK_SIZE
  /\ rcs \in Seq({0, -1}) /\ before \in [DOMAIN DiskImage -> Bytes]
  /\ At \in {"idle", "sector"} => Ready(card)
  /\ At \notin Serving \cup {"idle"} => regs = NoCall
  /\ At \in Serving => regs.fn \in {2, 3} /\ regs.i <= regs.count
  /\ At \in Serving \ {"sector"} => regs.i < regs.count
  /\ At = "read" => regs.fn = 2
  /\ At \in Serving \ {"sector", "read"} => regs.fn = 3

ReadInv ==
  regs.fn = 2 =>
    /\ At \in Serving => Len(rcs) = regs.i
    /\ Len(rcs) <= regs.count
    /\ \A k \in 1 .. Len(rcs) :
         rcs[k] = 0 => mem[regs.at + k - 1] = Sector(card.disk, regs.lba + k - 1)

WrittenInv ==
  /\ regs.fn = 3 /\ regs.count > 0 =>
       /\ regs.al <= regs.count
       /\ \A k \in 0 .. regs.al - 1 : Sector(card.disk, regs.lba + k) = mem[regs.at + k]
       /\ At = "idle" => (~regs.cf => regs.al = regs.count)
       /\ At \in Serving => IF At # "sector" \/ regs.i < regs.count
                            THEN regs.al = regs.i /\ Len(rcs) = regs.i
                            ELSE Len(rcs) \in {regs.al, regs.al + 1}
  /\ \A pos \in DOMAIN before :
       card.disk[pos] # before[pos] =>
         /\ regs.fn = 3
         /\ \/ pos \div BLOCK_SIZE - regs.lba \in 0 .. Len(rcs) - 1
            \/ At \in {"written", "poll", "polled"} /\ pos \div BLOCK_SIZE - regs.lba = Len(rcs)
-----------------------------------------------------------------------------
(* One byte on the bus, by the state of the card. *)

(* What no byte of a command or of its answer changes. *)
Kept(c, d) ==
  /\ d.kind = c.kind /\ d.selected = c.selected /\ d.idle = c.idle /\ d.disk = c.disk
  /\ d.write_count = c.write_count /\ d.pos = c.pos /\ d.data = c.data

(* Members of Bytes that the proofs meet everywhere. *)
LEMMA ByteFacts == FF \in Bytes /\ 0 \in Bytes /\ << >> \in Seq(Bytes)
BY DEF FF, Bytes

(* A byte more. *)
LEMMA Grown ==
  ASSUME NEW s \in Seq(Bytes), NEW e \in Bytes
  PROVE  /\ Append(s, e) \in Seq(Bytes) /\ Len(Append(s, e)) = Len(s) + 1
         /\ \A i \in 1 .. Len(s) : Append(s, e)[i] = s[i]
         /\ Append(s, e)[Len(s) + 1] = e
OBVIOUS

(* An idle card waits for the first byte that is not high. *)
LEMMA IdleByte ==
  ASSUME NEW c \in CardType, c.state = "IDLE", NEW b \in Bytes, NEW d \in transfer(c, b)
  PROVE  /\ d \in CardType /\ Kept(c, d) /\ d.rx = FF /\ ~d.do_write
         /\ b = FF => d.state = "IDLE" /\ d.mosi = c.mosi
         /\ b # FF /\ c.selected => d.state = "RECEIVING" /\ d.mosi = Append(c.mosi, b)
<1> DEFINE start == b # FF /\ c.selected
<1>1. d = [c EXCEPT !.do_write = FALSE, !.rx = FF,
                    !.state = IF start THEN "RECEIVING" ELSE c.state,
                    !.mosi = IF start THEN Append(c.mosi, b) ELSE c.mosi]
  BY DEF transfer
<1>2. Append(c.mosi, b) \in Seq(Bytes)
  BY DEF CardType
<1> QED BY <1>1, <1>2, ByteFacts DEF CardType, Kept

(* A byte of a frame before its last. *)
LEMMA ReceivingByte ==
  ASSUME NEW c \in CardType, c.state = "RECEIVING", NEW b \in Bytes, NEW d \in transfer(c, b),
         Len(c.mosi) \in 1 .. 5, c.mosi[1] \in Commands
  PROVE  /\ d \in CardType /\ Kept(c, d) /\ d.rx = FF /\ d.do_write = c.do_write
         /\ d.state = "RECEIVING" /\ d.mosi = Append(c.mosi, b)
<1> DEFINE e == [c EXCEPT !.mosi = Append(c.mosi, b), !.rx = FF]
<1>1. /\ c.mosi \in Seq(Bytes) /\ Append(c.mosi, b) \in Seq(Bytes)
      /\ Len(Append(c.mosi, b)) = Len(c.mosi) + 1 /\ Append(c.mosi, b)[1] = c.mosi[1]
  BY DEF CardType
<1>2. e \in CardType /\ e.mosi = Append(c.mosi, b) /\ e.rx = FF /\ e.state = "RECEIVING"
      /\ Kept(c, e) /\ e.do_write = c.do_write
  BY <1>1, ByteFacts DEF CardType, Kept
<1>3. ~transmit_ready(e)
  BY <1>1, <1>2 DEF transmit_ready
<1>4. transfer(c, b) = IF transmit_ready(e) THEN {[r EXCEPT !.state = "TRANSMITTING"] : r \in Responses(e)}
                       ELSE {e}
  BY DEF transfer
<1> HIDE DEF e
<1>5. d = e
  BY <1>3, <1>4
<1> QED BY <1>2, <1>5

(* The seventh byte of a command: the card answers. *)
LEMMA RespondByte ==
  ASSUME NEW c \in CardType, c.state = "RECEIVING", NEW b \in Bytes, NEW d \in transfer(c, b),
         Len(c.mosi) = 6
  PROVE  \E e \in CardType : \E r \in Responses(e) :
           /\ Kept(c, e) /\ e.rx = FF /\ e.do_write = c.do_write /\ e.mosi = Append(c.mosi, b)
           /\ d = [r EXCEPT !.state = "TRANSMITTING"]
<1> DEFINE e == [c EXCEPT !.mosi = Append(c.mosi, b), !.rx = FF]
<1>0. c.mosi \in Seq(Bytes)
  BY DEF CardType
<1>a. Append(c.mosi, b) \in Seq(Bytes)
  BY <1>0, Grown
<1>b. Len(Append(c.mosi, b)) = Len(c.mosi) + 1
  BY <1>0, Grown
<1>1. Append(c.mosi, b) \in Seq(Bytes) /\ Len(Append(c.mosi, b)) = 7
  BY <1>a, <1>b
<1>2. e \in CardType /\ e.mosi = Append(c.mosi, b) /\ e.rx = FF
      /\ Kept(c, e) /\ e.do_write = c.do_write
  BY <1>1, ByteFacts DEF CardType, Kept
<1>3. transmit_ready(e)
  BY <1>1, <1>2 DEF transmit_ready
<1>4. transfer(c, b) = IF transmit_ready(e) THEN {[r EXCEPT !.state = "TRANSMITTING"] : r \in Responses(e)}
                       ELSE {e}
  BY DEF transfer
<1> HIDE DEF e
<1>5. PICK r \in Responses(e) : d = [r EXCEPT !.state = "TRANSMITTING"]
  BY <1>3, <1>4
<1> QED BY <1>2, <1>5

(* A byte of the answer, or the high byte behind it. *)
LEMMA TransmittingByte ==
  ASSUME NEW c \in CardType, c.state = "TRANSMITTING", NEW b \in Bytes, NEW d \in transfer(c, b)
  PROVE  /\ d \in CardType /\ Kept(c, d) /\ d.do_write = c.do_write
         /\ c.miso = << >> =>
              /\ d.rx = FF /\ d.mosi = << >> /\ d.miso = << >>
              /\ d.state = IF c.do_write THEN "WAIT_FOR_DATA" ELSE "IDLE"
         /\ c.miso # << >> =>
              /\ d.rx = Head(c.miso) /\ d.mosi = c.mosi /\ d.miso = Tail(c.miso)
              /\ d.state = "TRANSMITTING"
<1>1. c.miso \in Seq(Bytes) /\ << >> \in Seq(Bytes)
  BY DEF CardType
<1>2. CASE c.miso = << >>
  <2>1. d = [c EXCEPT !.rx = FF, !.mosi = << >>,
                      !.state = IF c.do_write THEN "WAIT_FOR_DATA" ELSE "IDLE"]
    BY <1>2 DEF transfer
  <2> QED BY <1>1, <1>2, <2>1, ByteFacts DEF CardType, Kept
<1>3. CASE c.miso # << >>
  <2>1. d = [c EXCEPT !.rx = Head(c.miso), !.miso = Tail(c.miso)]
    BY <1>3 DEF transfer
  <2>2. Head(c.miso) \in Bytes /\ Tail(c.miso) \in Seq(Bytes)
    BY <1>1, <1>3
  <2> QED BY <1>1, <1>3, <2>1, <2>2 DEF CardType, Kept
<1> QED BY <1>2, <1>3

(* A card that waits for a block waits for its token. *)
LEMMA WaitingByte ==
  ASSUME NEW c \in CardType, c.state = "WAIT_FOR_DATA", NEW b \in Bytes, NEW d \in transfer(c, b)
  PROVE  /\ d \in CardType /\ Kept(c, d) /\ d.rx = FF /\ d.do_write = c.do_write
         /\ d.mosi = c.mosi
         /\ d.state = IF b = DATA_START_TOKEN THEN "DO_WRITE_BLOCK" ELSE "WAIT_FOR_DATA"
<1>1. d = [c EXCEPT !.rx = FF,
                    !.state = IF b = DATA_START_TOKEN THEN "DO_WRITE_BLOCK" ELSE c.state]
  BY DEF transfer
<1> QED BY <1>1, ByteFacts DEF CardType, Kept
-----------------------------------------------------------------------------
(* The answers to the commands. *)

(* The sizes, and the longest transfer. *)
LEMMA MoreSizes ==
  /\ BLOCK_SIZE \in Nat /\ BLOCK_SIZE >= 1 /\ BLOCK_SIZE <= 512 /\ SD_NCR \in Nat
  /\ MAX_DATA_START_OFFS \in Nat /\ POLLS \in Nat /\ Longest \in Nat
  /\ Longest = 11 + BLOCK_SIZE + MAX_DATA_START_OFFS + SD_NCR /\ Longest <= BUF_SIZE
  /\ BUF_SIZE \in Nat /\ MemBlocks \in Nat
BY DriverAssumption, BufferAssumption, CardAssumption, CallsAssumption DEF Longest, spi_command_len

(* Two sequences, one behind the other. *)
LEMMA Joined ==
  ASSUME NEW s \in Seq(Bytes), NEW t \in Seq(Bytes)
  PROVE  /\ s \o t \in Seq(Bytes) /\ Len(s \o t) = Len(s) + Len(t)
         /\ \A i \in 1 .. Len(s) : (s \o t)[i] = s[i]
         /\ \A i \in 1 .. Len(t) : (s \o t)[Len(s) + i] = t[i]
OBVIOUS

(* A block of a disk. *)
LEMMA BlockFacts ==
  ASSUME NEW disk \in [DOMAIN DiskImage -> Bytes], NEW pos
  PROVE  Block(disk, pos) \in Seq(Bytes) /\ Len(Block(disk, pos)) = BLOCK_SIZE
<1>1. \A p : ByteAt(disk, p) \in Bytes
  BY ByteFacts DEF ByteAt
<1> QED BY <1>1, MoreSizes DEF Block

(* f is what a driver stores of m when it skips k bytes and reads on. *)
Skips(m, k, len, f) ==
  \A i \in 0 .. len - 1 : f[i] = IF k + i + 1 <= Len(m) THEN m[k + i + 1] ELSE FF

(* A sector between a start token and a CRC, as it comes in behind k high  *)
(* bytes.                                                                  *)
LEMMA SectorIn ==
  ASSUME NEW q \in Seq(Bytes), NEW block \in Seq(Bytes), Len(block) = BLOCK_SIZE,
         NEW k \in Nat, k + 1 < Len(q), q[Len(q)] = DATA_START_TOKEN,
         \A j \in 1 .. Len(q) - 1 : q[j] # DATA_START_TOKEN,
         NEW m, m = q \o block \o <<119, 119>>,
         NEW len \in Nat, (Len(m) - k) < len, NEW f, Skips(m, k, len, f)
  PROVE  GoodRead(f, len, block)
<1> DEFINE t == Len(q) - k - 1
<1>0. BLOCK_SIZE \in Nat /\ BLOCK_SIZE >= 1 /\ Len(q) \in Nat
  BY MoreSizes
<1>1. <<119, 119>> \in Seq(Bytes) /\ Len(<<119, 119>>) = 2
  BY DEF Bytes
<1>2. /\ q \o block \in Seq(Bytes) /\ Len(q \o block) = Len(q) + BLOCK_SIZE
      /\ \A i \in 1 .. Len(q) : (q \o block)[i] = q[i]
      /\ \A i \in 1 .. BLOCK_SIZE : (q \o block)[Len(q) + i] = block[i]
  BY Joined
<1>3. /\ Len(m) = Len(q) + BLOCK_SIZE + 2
      /\ \A i \in 1 .. Len(q) + BLOCK_SIZE : m[i] = (q \o block)[i]
  BY <1>1, <1>2, Joined
<1>4. t \in 1 .. len - 1 /\ t + BLOCK_SIZE < len /\ k + t + 1 = Len(q)
  BY <1>0, <1>3
<1> HIDE DEF t
<1>5. ASSUME NEW i \in 0 .. t PROVE f[i] = q[k + i + 1]
  <2>1. i \in 0 .. len - 1 /\ k + i + 1 \in 1 .. Len(q) /\ k + i + 1 <= Len(m)
    BY <1>0, <1>3, <1>4
  <2>2. f[i] = m[k + i + 1]
    BY <2>1 DEF Skips
  <2>3. m[k + i + 1] = (q \o block)[k + i + 1]
    BY <1>0, <1>3, <2>1
  <2> QED BY <1>2, <2>1, <2>2, <2>3
<1>6. StartsAt(f, t)
  <2>1. t \in 0 .. t
    BY <1>4
  <2>2. f[t] = DATA_START_TOKEN
    BY <1>4, <1>5, <2>1
  <2>3. ASSUME NEW i \in 1 .. t - 1 PROVE f[i] # DATA_START_TOKEN
    <3>1. i \in 0 .. t /\ k + i + 1 \in 1 .. Len(q) - 1
      BY <1>0, <1>4
    <3> QED BY <1>5, <3>1
  <2> QED BY <2>2, <2>3 DEF StartsAt
<1>7. Holds(f, t, block)
  <2> SUFFICES ASSUME NEW i \in 1 .. BLOCK_SIZE PROVE f[t + i] = block[i]
    BY DEF Holds
  <2>a. t \in Nat /\ i \in Nat /\ i <= BLOCK_SIZE /\ t + BLOCK_SIZE < len
    BY <1>0, <1>4
  <2>b. t + i \in 0 .. len - 1
    BY <1>0, <2>a
  <2>0. k + (t + i) + 1 = Len(q) + i
    <3>1. ASSUME NEW n \in Nat, k + t + 1 = n PROVE k + (t + i) + 1 = n + i
      BY <2>a, <3>1
    <3> QED BY <1>0, <1>4, <3>1
  <2>1. Len(q) + i <= Len(m) /\ Len(q) + i \in 1 .. Len(q) + BLOCK_SIZE
    BY <1>0, <1>3
  <2>2. f[t + i] = m[Len(q) + i]
    BY <2>0, <2>1, <2>b DEF Skips
  <2>3. m[Len(q) + i] = (q \o block)[Len(q) + i]
    BY <1>3, <2>1
  <2> QED BY <1>2, <2>2, <2>3
<1> QED BY <1>4, <1>6, <1>7 DEF GoodRead

(* The bytes of an answer that begins behind k high bytes. *)
Behind(m, k) == k < Len(m) /\ m[k + 1] # FF /\ \A j \in 1 .. k : m[j] = FF
Starts(c, k) == c.state = "TRANSMITTING" /\ Behind(c.miso, k)
Fresh(x) == x.dst = 0 /\ ~x.got /\ x.src = 8
Clear(x, b) == \A i \in x.src .. x.len - 1 : b[i] = FF

(* The driver stores an answer from its first byte that is not high. *)
LEMMA FreshAnswer ==
  ASSUME NEW c \in CardType, NEW x, NEW b, NEW k \in 0 .. 2, x.len \in Nat, x.len >= 8,
         Fresh(x), Starts(c, k)
  PROVE  Skips(c.miso, k, x.len, Answer(c, x, b, k)) /\ Answer(c, x, b, k)[0] = c.miso[k + 1]
<1>1. c.miso \in Seq(Bytes) /\ Len(c.miso) \in Nat
  BY DEF CardType
<1>2. ASSUME NEW i \in 0 .. x.len - 1
      PROVE  Answer(c, x, b, k)[i] = IF k + i + 1 <= Len(c.miso) THEN c.miso[k + i + 1] ELSE FF
  BY <1>1, <1>2 DEF Answer, Wire, Fresh, Starts, Behind
<1>3. Answer(c, x, b, k)[0] = c.miso[k + 1]
  BY <1>1, <1>2 DEF Starts, Behind
<1> QED BY <1>2, <1>3 DEF Skips

(* An answer that is good begins to come in. *)
LEMMA Begins ==
  ASSUME NEW c \in CardType, NEW x, NEW b, NEW s, NEW k \in 0 .. 2,
         Fresh(x), Clear(x, b), Starts(c, k), x.len \in Nat, (Len(c.miso) - k) < x.len,
         Good(c, x.then, Answer(c, x, b, k), x.len, s)
  PROVE  Answered(c, x, b, s)
<1>1. c.miso \in Seq(Bytes) /\ Len(c.miso) \in Nat
  BY DEF CardType
<1>2. Answering(c, x, b, s, k)
  BY <1>1 DEF Answering, Fresh, Clear, Starts, Behind, Wire
<1> QED BY <1>2 DEF Answered

(* d is the card e with its answer m. *)
Reply(e, d, m) ==
  /\ d \in CardType /\ d.state = "TRANSMITTING" /\ d.miso = m /\ d.rx = e.rx
  /\ d.kind = e.kind /\ d.selected = e.selected /\ d.disk = e.disk /\ d.data = e.data

WithAnswer(e, m) == [e EXCEPT !.miso = m]
WithIdle(e, m, n) == [e EXCEPT !.miso = m, !.idle = n]
WithWrite(e, m, p) == [e EXCEPT !.miso = m, !.do_write = TRUE, !.write_count = 0, !.pos = p]
Transmits(r) == [r EXCEPT !.state = "TRANSMITTING"]

(* An answer that changes nothing else of the card. *)
LEMMA PlainReply ==
  ASSUME NEW e \in CardType, NEW m \in Seq(Bytes), NEW r, r = WithAnswer(e, m),
         NEW d, d = Transmits(r)
  PROVE  Reply(e, d, m) /\ d.idle = e.idle /\ d.do_write = e.do_write
<1>1. r \in CardType /\ r.miso = m /\ r.rx = e.rx /\ r.kind = e.kind /\ r.selected = e.selected
      /\ r.disk = e.disk /\ r.idle = e.idle /\ r.do_write = e.do_write /\ r.data = e.data
  BY DEF CardType, WithAnswer, WithIdle, WithWrite
<1>2. d \in CardType /\ d.state = "TRANSMITTING" /\ d.miso = r.miso /\ d.rx = r.rx /\ d.kind = r.kind
      /\ d.selected = r.selected /\ d.disk = r.disk /\ d.idle = r.idle /\ d.do_write = r.do_write
      /\ d.data = r.data
  BY <1>1 DEF CardType, Transmits
<1> QED BY <1>1, <1>2 DEF Reply

(* An answer with which the card enters or leaves its idle state. *)
LEMMA IdleReply ==
  ASSUME NEW e \in CardType, NEW m \in Seq(Bytes), NEW n \in Nat,
         NEW r, r = WithIdle(e, m, n),
         NEW d, d = Transmits(r)
  PROVE  Reply(e, d, m) /\ d.idle = n /\ d.do_write = e.do_write
<1>1. r \in CardType /\ r.miso = m /\ r.rx = e.rx /\ r.kind = e.kind /\ r.selected = e.selected
      /\ r.disk = e.disk /\ r.idle = n /\ r.do_write = e.do_write /\ r.data = e.data
  BY DEF CardType, WithAnswer, WithIdle, WithWrite
<1>2. d \in CardType /\ d.state = "TRANSMITTING" /\ d.miso = r.miso /\ d.rx = r.rx /\ d.kind = r.kind
      /\ d.selected = r.selected /\ d.disk = r.disk /\ d.idle = r.idle /\ d.do_write = r.do_write
      /\ d.data = r.data
  BY <1>1 DEF CardType, Transmits
<1> QED BY <1>1, <1>2 DEF Reply

(* An answer after which the card waits for a block. *)
LEMMA WriteReply ==
  ASSUME NEW e \in CardType, NEW m \in Seq(Bytes), NEW p \in Nat,
         NEW r, r = WithWrite(e, m, p),
         NEW d, d = Transmits(r)
  PROVE  /\ Reply(e, d, m) /\ d.idle = e.idle /\ d.do_write /\ d.write_count = 0 /\ d.pos = p
<1>1. r \in CardType /\ r.miso = m /\ r.rx = e.rx /\ r.kind = e.kind /\ r.selected = e.selected
      /\ r.disk = e.disk /\ r.idle = e.idle /\ r.do_write /\ r.write_count = 0 /\ r.pos = p
      /\ r.data = e.data
  BY DEF CardType, WithAnswer, WithIdle, WithWrite
<1>2. d \in CardType /\ d.state = "TRANSMITTING" /\ d.miso = r.miso /\ d.rx = r.rx /\ d.kind = r.kind
      /\ d.selected = r.selected /\ d.disk = r.disk /\ d.idle = r.idle /\ d.do_write = r.do_write
      /\ d.write_count = r.write_count /\ d.pos = r.pos /\ d.data = r.data
  BY <1>1 DEF CardType, Transmits
<1> QED BY <1>1, <1>2 DEF Reply

(* An answer that says no more than its first two bytes. *)
LEMMA ShortAnswer ==
  ASSUME NEW e \in CardType, NEW d, NEW m \in Seq(Bytes), Len(m) \in 1 .. 5, m[1] # FF,
         Reply(e, d, m), ~d.do_write, NEW x, NEW b, NEW s,
         x.len \in Nat, x.len >= 8, Fresh(x), Clear(x, b),
         x.then \in {"read", "write_block"} => m[1] > 1,
         x.then = "poll_again" /\ m[1] = 0 => d.idle = 0,
         x.then = "blocklen" /\ m[1] <= 1 =>
           Len(m) >= 2 /\ ((m[2] \div 64) % 2 = 1 <=> e.kind = "sdhc")
  PROVE  Answered(d, x, b, s)
<1> DEFINE f == Answer(d, x, b, 0)
<1>1. d \in CardType /\ d.miso = m /\ d.kind = e.kind /\ Starts(d, 0) /\ 0 \in 0 .. 2 /\ Len(m) \in Nat
  BY DEF Reply, Starts, Behind
<1>2. Skips(d.miso, 0, x.len, f) /\ f[0] = d.miso[0 + 1]
  BY <1>1, FreshAnswer
<1> HIDE DEF f
<1>3. f[0] = m[1]
  BY <1>1, <1>2
<1>4. Len(m) >= 2 => f[1] = m[2]
  <2>1. 1 \in 0 .. x.len - 1
    OBVIOUS
  <2> QED BY <1>1, <1>2, <2>1 DEF Skips
<1>5. ~(m[1] <= 1 /\ m[1] > 1)
  <2>1. m[1] \in Bytes
    BY <1>1
  <2>2. ASSUME NEW y \in Bytes PROVE ~(y <= 1 /\ y > 1)
    BY DEF Bytes
  <2> QED BY <2>1, <2>2
<1>6. Good(d, x.then, f, x.len, s)
  BY <1>1, <1>3, <1>4, <1>5 DEF Good
<1>7. (Len(d.miso) - 0) < x.len
  <2>1. ASSUME NEW n \in 1 .. 5, NEW len \in Nat, len >= 8 PROVE (n - 0) < len
    BY <2>1
  <2> QED BY <1>1, <2>1
<1> QED BY <1>1, <1>6, <1>7, Begins DEF f

(* The answer to a request to write, behind k high bytes. *)
LEMMA WriteAnswer ==
  ASSUME NEW e \in CardType, NEW d, NEW m \in Seq(Bytes), NEW k \in 0 .. 1, Len(m) \in k + 1 .. 5,
         \A j \in 1 .. k : m[j] = FF, m[k + 1] = 0,
         Reply(e, d, m), d.do_write, NEW x, NEW b, NEW s, WriteOpen(d, s),
         x.len \in Nat, x.len >= 8, Fresh(x), Clear(x, b), x.then = "write_block"
  PROVE  Answered(d, x, b, s)
<1> DEFINE f == Answer(d, x, b, k)
<1>1. d \in CardType /\ d.miso = m /\ d.kind = e.kind /\ Starts(d, k) /\ k \in 0 .. 2 /\ Len(m) \in Nat
  BY DEF Reply, Starts, Behind, FF
<1>2. f[0] = d.miso[k + 1]
  BY <1>1, FreshAnswer
<1> HIDE DEF f
<1>3. f[0] = 0
  BY <1>1, <1>2
<1>6. Good(d, x.then, f, x.len, s)
  BY <1>3 DEF Good, FF
<1>7. (Len(d.miso) - k) < x.len
  BY <1>1
<1> QED BY <1>1, <1>6, <1>7, Begins DEF f

(* k high bytes, R1, and the first start token at the end. *)
Leads(q, k) ==
  /\ k + 1 < Len(q) /\ \A j \in 1 .. k : q[j] = FF
  /\ q[k + 1] = 0 /\ q[Len(q)] = DATA_START_TOKEN
  /\ \A j \in 1 .. Len(q) - 1 : q[j] # DATA_START_TOKEN
  /\ (Len(q) - k) <= MAX_DATA_START_OFFS + 3

(* The answer to a request to read that has the sector in it. *)
LEMMA ReadAnswer ==
  ASSUME NEW e \in CardType, NEW d, NEW q \in Seq(Bytes), NEW block \in Seq(Bytes),
         Len(block) = BLOCK_SIZE, NEW k \in 0 .. 2, Leads(q, k),
         NEW m, m = q \o block \o <<119, 119>>, Reply(e, d, m), ~d.do_write,
         NEW x, NEW b, NEW s, x.len = Longest, Fresh(x), Clear(x, b),
         x.then \in {"booted", "read"}, x.then = "read" => block = Sector(d.disk, s)
  PROVE  Answered(d, x, b, s)
<1> DEFINE f == Answer(d, x, b, k)
<1>0. x.len \in Nat /\ x.len >= 8 /\ Len(q) \in Nat /\ MAX_DATA_START_OFFS \in Nat
  BY MoreSizes
<1>1. <<119, 119>> \in Seq(Bytes) /\ Len(<<119, 119>>) = 2
  BY DEF Bytes
<1>2. /\ q \o block \in Seq(Bytes) /\ Len(q \o block) = Len(q) + BLOCK_SIZE
      /\ \A i \in 1 .. Len(q) : (q \o block)[i] = q[i]
  BY Joined
<1>3. /\ m \in Seq(Bytes) /\ Len(m) = Len(q) + BLOCK_SIZE + 2
      /\ \A i \in 1 .. Len(q) + BLOCK_SIZE : m[i] = (q \o block)[i]
  BY <1>1, <1>2, Joined
<1>4. \A i \in 1 .. Len(q) : m[i] = q[i]
  BY <1>0, <1>2, <1>3, MoreSizes
<1>5. d \in CardType /\ d.miso = m
  BY DEF Reply
<1>6. Starts(d, k)
  <2>1. k < Len(m) /\ m[k + 1] = 0 /\ \A j \in 1 .. k : m[j] = q[j]
    BY <1>0, <1>3, <1>4, MoreSizes DEF Leads
  <2> QED BY <1>5, <2>1 DEF Starts, Behind, Reply, FF, Leads
<1>7. (Len(m) - k) < x.len
  BY <1>0, <1>3, MoreSizes DEF Leads
<1>a. Skips(d.miso, k, x.len, f) /\ f[0] = d.miso[k + 1]
  BY <1>0, <1>5, <1>6, FreshAnswer, Zenon
<1> HIDE DEF f
<1>8. Skips(m, k, x.len, f) /\ f[0] = m[k + 1]
  BY <1>5, <1>a
<1>9. GoodRead(f, x.len, block)
  <2>1. k \in Nat
    OBVIOUS
  <2> QED BY <1>0, <1>7, <1>8, <2>1, SectorIn, Zenon DEF Leads
<1>10. f[0] = 0
  BY <1>0, <1>4, <1>8 DEF Leads
<1>11. Good(d, x.then, f, x.len, s)
  BY <1>9, <1>10 DEF Good, FF
<1> QED BY <1>0, <1>5, <1>6, <1>7, <1>11, Begins DEF f

(* An error token instead of the sector. *)
LEMMA TokenlessAnswer ==
  ASSUME NEW e \in CardType, NEW d, NEW m \in Seq(Bytes), Len(m) = 4,
         m[1] = FF, m[2] = 0, m[3] = FF, m[4] = 8,
         Reply(e, d, m), ~d.do_write, NEW x, NEW b, NEW s,
         x.len \in Nat, x.len >= 8, Fresh(x), Clear(x, b), x.then \in {"booted", "read"}
  PROVE  Answered(d, x, b, s)
<1> DEFINE f == Answer(d, x, b, 1)
<1>0. d \in CardType /\ d.miso = m /\ d.state = "TRANSMITTING"
  BY DEF Reply
<1>1. Starts(d, 1) /\ 1 \in 0 .. 2
  <2>1. Behind(m, 1)
    BY DEF FF, Behind
  <2> QED BY <1>0, <2>1 DEF Starts
<1>2. Skips(d.miso, 1, x.len, f) /\ f[0] = d.miso[1 + 1]
  BY <1>0, <1>1, FreshAnswer, Zenon
<1> HIDE DEF f
<1>3. Skips(m, 1, x.len, f) /\ f[0] = 0
  BY <1>0, <1>2
<1>4. ASSUME NEW i \in 1 .. x.len - 1 PROVE f[i] # DATA_START_TOKEN
  <2>1. i \in 0 .. x.len - 1 /\ (1 + i + 1 <= 4 => 1 + i + 1 = 3 \/ 1 + i + 1 = 4)
    OBVIOUS
  <2>2. f[i] = IF 1 + i + 1 <= Len(m) THEN m[1 + i + 1] ELSE FF
    BY <1>3, <2>1 DEF Skips
  <2> QED BY <2>1, <2>2 DEF FF, DATA_START_TOKEN
<1>5. GoodRead(f, x.len, Sector(d.disk, s))
  BY <1>4 DEF GoodRead
<1>6. Good(d, x.then, f, x.len, s)
  BY <1>3, <1>5 DEF Good, FF
<1>7. (Len(d.miso) - 1) < x.len
  <2>1. ASSUME NEW len \in Nat, len >= 8 PROVE (4 - 1) < len
    BY <2>1
  <2> QED BY <1>0, <2>1
<1> QED BY <1>0, <1>1, <1>6, <1>7, Begins DEF f

(* What is known when the card has the last byte of a command. *)
Asked(e, x, b, s) ==
  /\ x.then \in CommandPlaces /\ e.mosi[1] = Sent(x.then)
  /\ ~e.do_write /\ e.data = << >> /\ (e.kind = "sim" => e.idle = 0)
  /\ x.len \in Nat /\ x.len >= 8 /\ Fresh(x) /\ Clear(x, b)
  /\ x.then \in {"booted", "read"} => x.len = Longest
  /\ x.then \in {"read", "write_block"} => Position(e) = BLOCK_SIZE * s
  /\ x.then = "blocklen" => e.idle = 0
  /\ Position(e) \in Nat
Replied(e, d, x, b, s) ==
  /\ Reply(e, d, d.miso) /\ Answered(d, x, b, s)
  /\ x.then \notin {"if_cond", "poll_again"} \/ e.kind = "sim" => d.idle = e.idle

(* The place that runs after a command tells which one it was. *)
LEMMA PlaceOf ==
  ASSUME NEW place \in CommandPlaces
  PROVE  /\ Sent(place) \in Commands
         /\ Sent(place) = GO_IDLE <=> place = "if_cond"
         /\ Sent(place) = READ_BLOCK <=> place \in {"booted", "read"}
         /\ Sent(place) = WRITE_BLOCK <=> place = "write_block"
         /\ Sent(place) = OP_COND <=> place = "poll_again"
         /\ Sent(place) = READ_OCR <=> place \in {"wait_ready", "blocklen"}
BY DEF CommandPlaces, Sent, Commands, GO_IDLE, IF_COND, SET_BLOCKLEN, READ_BLOCK, WRITE_BLOCK,
       OP_COND, APP_CMD, READ_OCR

(* One byte or five, without data. *)
LEMMA PlainAnswer ==
  ASSUME NEW e \in CardType, NEW x, NEW b, NEW s, Asked(e, x, b, s),
         NEW m \in Seq(Bytes), Len(m) \in 1 .. 5, m[1] # FF,
         NEW r, r = WithAnswer(e, m), NEW d, d = Transmits(r),
         x.then \in {"read", "write_block"} => m[1] > 1,
         x.then = "poll_again" /\ m[1] = 0 => e.idle = 0,
         x.then = "blocklen" /\ m[1] <= 1 =>
           Len(m) >= 2 /\ ((m[2] \div 64) % 2 = 1 <=> e.kind = "sdhc")
  PROVE  Replied(e, d, x, b, s)
<1>1. Reply(e, d, m) /\ d.idle = e.idle /\ d.do_write = e.do_write
  BY PlainReply
<1>2. Answered(d, x, b, s)
  BY <1>1, ShortAnswer DEF Asked
<1> QED BY <1>1, <1>2 DEF Replied, Reply

(* A request to read, answered with the sector. *)
LEMMA SectorSent ==
  ASSUME NEW e \in CardType, NEW x, NEW b, NEW s, Asked(e, x, b, s), x.then \in {"booted", "read"},
         NEW q \in Seq(Bytes), NEW k \in 0 .. 2, Leads(q, k),
         NEW r, r = WithAnswer(e, q \o Block(e.disk, Position(e)) \o <<119, 119>>),
         NEW d, d = Transmits(r)
  PROVE  Replied(e, d, x, b, s)
<1> DEFINE block == Block(e.disk, Position(e))
           m == q \o block \o <<119, 119>>
<1>1. block \in Seq(Bytes) /\ Len(block) = BLOCK_SIZE
  BY BlockFacts DEF CardType
<1>2. x.then = "read" => block = Sector(e.disk, s)
  BY DEF Asked, Sector
<1>3. <<119, 119>> \in Seq(Bytes)
  BY DEF Bytes
<1> HIDE DEF block
<1>4. m \in Seq(Bytes)
  BY <1>1, <1>3, Joined
<1>5. r = WithAnswer(e, m)
  BY DEF block
<1>6. Reply(e, d, m) /\ d.idle = e.idle /\ d.do_write = e.do_write /\ d.disk = e.disk
  <2> HIDE DEF m
  <2> QED BY <1>4, <1>5, PlainReply DEF Reply
<1>7. Answered(d, x, b, s)
  <2>1. ~d.do_write /\ x.len = Longest /\ Fresh(x) /\ Clear(x, b)
    BY <1>6 DEF Asked
  <2>2. x.then = "read" => block = Sector(d.disk, s)
    BY <1>2, <1>6
  <2>3. m = q \o block \o <<119, 119>>
    OBVIOUS
  <2> HIDE DEF m
  <2> QED BY <1>1, <1>6, <2>1, <2>2, <2>3, ReadAnswer, ZenonT(60)
<1> QED BY <1>6, <1>7 DEF Replied, Reply

(* A request to write, answered with consent. *)
LEMMA BlockAsked ==
  ASSUME NEW e \in CardType, NEW x, NEW b, NEW s, Asked(e, x, b, s), x.then = "write_block",
         NEW m \in Seq(Bytes), NEW k \in 0 .. 1, Len(m) \in k + 1 .. 5,
         \A j \in 1 .. k : m[j] = FF, m[k + 1] = 0,
         e.kind # "sim" => Positions(Position(e)) \subseteq DOMAIN DiskImage,
         NEW r, r = WithWrite(e, m, Position(e)),
         NEW d, d = Transmits(r)
  PROVE  Replied(e, d, x, b, s)
<1>1. Position(e) \in Nat /\ Position(e) = BLOCK_SIZE * s
  BY DEF Asked
<1>2. Reply(e, d, m) /\ d.idle = e.idle /\ d.do_write /\ d.write_count = 0 /\ d.pos = Position(e)
  BY <1>1, WriteReply
<1>3. WriteOpen(d, s)
  BY <1>1, <1>2 DEF WriteOpen, Room, Reply, Asked
<1>4. Answered(d, x, b, s)
  BY <1>2, <1>3, WriteAnswer DEF Asked
<1> QED BY <1>2, <1>4 DEF Replied, Reply

(* Every answer of the simulator's card. *)
LEMMA SimReplies ==
  ASSUME NEW e \in CardType, NEW x, NEW b, NEW s, Asked(e, x, b, s), e.kind = "sim",
         NEW r, r = SimResponse(e), NEW d, d = Transmits(r)
  PROVE  Replied(e, d, x, b, s)
<1> DEFINE cmd == e.mosi[1]
<1> USE DEF GO_IDLE, IF_COND, SET_BLOCKLEN, READ_BLOCK, WRITE_BLOCK, OP_COND, APP_CMD, READ_OCR
<1>0. /\ x.then \in CommandPlaces /\ cmd = Sent(x.then) /\ e.idle = 0
      /\ {0, 1, 5, FF} \subseteq Bytes
  BY DEF Asked, FF, Bytes
<1>1. CASE x.then \in {"booted", "read"}
  <2> DEFINE q == <<FF, FF, 0, FF, DATA_START_TOKEN>>
  <2>1. cmd = READ_BLOCK
    BY <1>0, <1>1, PlaceOf
  <2>2. r = WithAnswer(e, q \o Block(e.disk, Position(e)) \o <<119, 119>>)
    BY <2>1 DEF SimResponse, read_block, WithAnswer
  <2>3. q \in Seq(Bytes) /\ Leads(q, 2)
    <3>1. q \in Seq(Bytes) /\ Len(q) = 5
      BY DEF FF, DATA_START_TOKEN, Bytes
    <3>2. q[1] = FF /\ q[2] = FF /\ q[3] = 0 /\ q[4] = FF /\ q[5] = DATA_START_TOKEN
      OBVIOUS
    <3> HIDE DEF q
    <3> QED BY <3>1, <3>2, MoreSizes DEF Leads, FF, DATA_START_TOKEN
  <2> HIDE DEF q
  <2>4. 2 \in 0 .. 2
    OBVIOUS
  <2> QED BY <1>1, <2>2, <2>3, <2>4, SectorSent
<1>2. CASE x.then = "write_block"
  <2> DEFINE m == <<FF, 0, FF, FF, 5>>
  <2>1. cmd = WRITE_BLOCK
    BY <1>0, <1>2, PlaceOf
  <2>2. r = WithWrite(e, m, Position(e))
    BY <2>1 DEF SimResponse, write_block, WithWrite
  <2>3. m \in Seq(Bytes) /\ Len(m) = 5 /\ m[1] = FF /\ m[2] = 0
    BY <1>0
  <2> HIDE DEF m
  <2>4. Len(m) \in 1 + 1 .. 5 /\ m[1 + 1] = 0 /\ 1 \in 0 .. 1 /\ \A j \in 1 .. 1 : m[j] = FF
    BY <2>3
  <2> QED BY <1>2, <2>2, <2>3, <2>4, BlockAsked
<1>3. CASE x.then \in {"wait_ready", "blocklen"}
  <2> DEFINE m == <<1, 0, 0, 0, 0>>
  <2>1. cmd = READ_OCR
    BY <1>0, <1>3, PlaceOf
  <2>2. r = WithAnswer(e, m)
    BY <2>1 DEF SimResponse, WithAnswer
  <2>3. m \in Seq(Bytes) /\ Len(m) = 5 /\ m[1] = 1 /\ m[2] = 0
    BY <1>0
  <2> HIDE DEF m
  <2>4. Len(m) \in 1 .. 5 /\ m[1] # FF
        /\ Len(m) >= 2 /\ ((m[2] \div 64) % 2 = 1 <=> e.kind = "sdhc")
    BY <2>3 DEF FF
  <2> QED BY <1>3, <2>2, <2>3, <2>4, PlainAnswer
<1>4. CASE x.then = "poll_again"
  <2>1. cmd = OP_COND
    BY <1>0, <1>4, PlaceOf
  <2>2. r = WithAnswer(e, << 0 >>)
    BY <2>1 DEF SimResponse, WithAnswer
  <2>3. << 0 >> \in Seq(Bytes) /\ Len(<< 0 >>) \in 1 .. 5 /\ << 0 >>[1] # FF
    BY <1>0 DEF FF
  <2> QED BY <1>0, <1>4, <2>2, <2>3, PlainAnswer
<1>5. CASE x.then \in {"if_cond", "ocr", "op_cond", "boot"}
  <2>1. cmd \in {APP_CMD, GO_IDLE, IF_COND, SET_BLOCKLEN}
    BY <1>0, <1>5 DEF Sent
  <2>2. r = WithAnswer(e, << 1 >>)
    BY <2>1 DEF SimResponse, WithAnswer
  <2>3. << 1 >> \in Seq(Bytes) /\ Len(<< 1 >>) \in 1 .. 5 /\ << 1 >>[1] # FF
    BY <1>0 DEF FF
  <2> QED BY <1>5, <2>2, <2>3, PlainAnswer
<1> QED BY <1>0, <1>1, <1>2, <1>3, <1>4, <1>5 DEF CommandPlaces

(* What a real card may answer to a reset. *)
LEMMA ResetResponses ==
  ASSUME NEW e, e.mosi[1] = GO_IDLE
  PROVE  RealResponses(e) = {[e EXCEPT !.miso = << 1 >>, !.idle = k] : k \in 1 .. MaxIdle}
BY DEF RealResponses, GO_IDLE, IF_COND, SET_BLOCKLEN, READ_BLOCK, WRITE_BLOCK, OP_COND, APP_CMD,
       READ_OCR

(* Every answer of a real card. *)
LEMMA RealReplies ==
  ASSUME NEW e \in CardType, NEW x, NEW b, NEW s, Asked(e, x, b, s), e.kind # "sim",
         NEW r \in RealResponses(e), NEW d, d = Transmits(r)
  PROVE  Replied(e, d, x, b, s)
<1> DEFINE cmd == e.mosi[1]
<1> USE DEF GO_IDLE, IF_COND, SET_BLOCKLEN, READ_BLOCK, WRITE_BLOCK, OP_COND, APP_CMD, READ_OCR
<1>0. /\ x.then \in CommandPlaces /\ cmd = Sent(x.then) /\ e.idle \in Nat /\ R1(e) \in {0, 1}
      /\ {0, 1, 4, 8, 128, 170, 192, FF, R1(e)} \subseteq Bytes
  BY DEF Asked, FF, Bytes, CardType, R1
<1>f. ASSUME r = WithAnswer(e, <<ERROR>>) PROVE Replied(e, d, x, b, s)
  <2>1. <<ERROR>> \in Seq(Bytes) /\ Len(<<ERROR>>) \in 1 .. 5 /\ <<ERROR>>[1] = 4 /\ 4 # FF /\ 4 > 1
        /\ ~(4 <= 1) /\ 4 # 0
    BY <1>0 DEF FF, ERROR
  <2> QED BY <1>f, <2>1, PlainAnswer
<1>o. ASSUME r = WithAnswer(e, <<R1(e)>>), x.then \in {"op_cond", "boot"}
      PROVE  Replied(e, d, x, b, s)
  <2>1. <<R1(e)>> \in Seq(Bytes) /\ Len(<<R1(e)>>) \in 1 .. 5 /\ <<R1(e)>>[1] # FF
    BY <1>0 DEF FF
  <2> QED BY <1>o, <2>1, PlainAnswer
<1>1. CASE x.then \in {"booted", "read"}
  <2>0. cmd = READ_BLOCK
    BY <1>0, <1>1, PlaceOf
  <2>1. \/ \E n \in Delays : r = WithAnswer(e, << 0 >> \o High(n) \o <<DATA_START_TOKEN>>
                                             \o Block(e.disk, Position(e)) \o <<119, 119>>)
        \/ r = WithAnswer(e, <<ERROR>>) \/ r = WithAnswer(e, <<FF, 0, FF, 8>>)
    BY <2>0 DEF RealResponses, WithAnswer
  <2>2. ASSUME NEW n \in Delays, r = WithAnswer(e, << 0 >> \o High(n) \o <<DATA_START_TOKEN>>
                                                   \o Block(e.disk, Position(e)) \o <<119, 119>>)
        PROVE  Replied(e, d, x, b, s)
    <3> DEFINE q == << 0 >> \o High(n) \o <<DATA_START_TOKEN>>
    <3>1. n \in Nat /\ n <= MAX_DATA_START_OFFS
      BY CardAssumption, ImageAssumption
    <3>2. q \in Seq(Bytes) /\ Leads(q, 0)
      <4>0. High(n) \in Seq(Bytes) /\ Len(High(n)) = n /\ \A i \in 1 .. n : High(n)[i] = FF
        BY <3>1, ByteFacts DEF High
      <4>1. /\ << 0 >> \in Seq(Bytes) /\ Len(<< 0 >>) = 1 /\ << 0 >>[1] = 0
            /\ <<DATA_START_TOKEN>> \in Seq(Bytes) /\ Len(<<DATA_START_TOKEN>>) = 1
            /\ <<DATA_START_TOKEN>>[1] = DATA_START_TOKEN
        BY DEF DATA_START_TOKEN, Bytes
      <4> DEFINE p == << 0 >> \o High(n)
      <4>2. /\ p \in Seq(Bytes) /\ Len(p) = n + 1 /\ p[1] = 0
            /\ \A i \in 1 .. n : p[1 + i] = FF
        BY <3>1, <4>0, <4>1, Joined
      <4> HIDE DEF p
      <4>3. /\ q \in Seq(Bytes) /\ Len(q) = n + 2 /\ \A i \in 1 .. n + 1 : q[i] = p[i]
            /\ q[n + 2] = DATA_START_TOKEN
        BY <3>1, <4>1, <4>2, Joined DEF p
      <4> HIDE DEF q
      <4>4. ASSUME NEW j \in 1 .. n + 1 PROVE q[j] # DATA_START_TOKEN
        <5>1. CASE j = 1
          BY <3>1, <4>2, <4>3, <5>1 DEF DATA_START_TOKEN
        <5>2. CASE j # 1
          <6>1. (j - 1) \in 1 .. n /\ 1 + (j - 1) = j
            BY <3>1, <5>2
          <6> QED BY <4>2, <4>3, <6>1 DEF DATA_START_TOKEN, FF
        <5> QED BY <5>1, <5>2
      <4>5. q[1] = 0
        BY <3>1, <4>2, <4>3
      <4> QED BY <3>1, <4>3, <4>4, <4>5, MoreSizes DEF Leads
    <3> HIDE DEF q
    <3>3. r = WithAnswer(e, q \o Block(e.disk, Position(e)) \o <<119, 119>>) /\ 0 \in 0 .. 2
      BY <2>2 DEF q
    <3> QED BY <1>1, <3>2, <3>3, SectorSent
  <2>3. ASSUME r = WithAnswer(e, <<FF, 0, FF, 8>>) PROVE Replied(e, d, x, b, s)
    <3> DEFINE m == <<FF, 0, FF, 8>>
    <3>1. m \in Seq(Bytes) /\ Len(m) = 4 /\ m[1] = FF /\ m[2] = 0 /\ m[3] = FF /\ m[4] = 8
      BY <1>0
    <3> HIDE DEF m
    <3>2. Reply(e, d, m) /\ d.idle = e.idle /\ d.do_write = e.do_write
      BY <2>3, <3>1, PlainReply DEF m
    <3>3. Answered(d, x, b, s)
      BY <1>1, <3>1, <3>2, TokenlessAnswer DEF Asked
    <3> QED BY <3>2, <3>3 DEF Replied, Reply
  <2> QED BY <1>f, <2>1, <2>2, <2>3
<1>2. CASE x.then = "write_block"
  <2>0. cmd = WRITE_BLOCK
    BY <1>0, <1>2, PlaceOf
  <2>1. \/ r = WithAnswer(e, <<ERROR>>)
        \/ Positions(Position(e)) \subseteq DOMAIN e.disk /\ r = WithWrite(e, << 0 >>, Position(e))
    BY <2>0 DEF RealResponses, WithAnswer, WithWrite
  <2>2. << 0 >> \in Seq(Bytes) /\ Len(<< 0 >>) \in 0 + 1 .. 5 /\ << 0 >>[0 + 1] = 0 /\ 0 \in 0 .. 1
        /\ \A j \in 1 .. 0 : << 0 >>[j] = FF
    BY <1>0
  <2>3. DOMAIN e.disk = DOMAIN DiskImage
    BY DEF CardType
  <2> QED BY <1>2, <1>f, <2>1, <2>2, <2>3, BlockAsked
<1>3. CASE x.then \in {"wait_ready", "blocklen"}
  <2> DEFINE ocr == IF e.idle = 0 /\ e.kind = "sdhc" THEN 192 ELSE 128 * (1 - R1(e))
             m == <<R1(e), ocr, FF, 128, 0>>
  <2>0. cmd = READ_OCR
    BY <1>0, <1>3, PlaceOf
  <2>1. r = WithAnswer(e, <<ERROR>>) \/ r = WithAnswer(e, m)
    BY <2>0 DEF RealResponses, WithAnswer
  <2>2. ocr \in {0, 128, 192} /\ (e.idle = 0 => (ocr = 192 <=> e.kind = "sdhc"))
    BY <1>0
  <2> HIDE DEF ocr
  <2>3. ((ocr \div 64) % 2 = 1 <=> ocr = 192) /\ ocr \in Bytes
    BY <1>0, <2>2
  <2>4. m \in Seq(Bytes) /\ Len(m) = 5 /\ m[1] = R1(e) /\ m[2] = ocr
    BY <1>0, <2>3
  <2> HIDE DEF m
  <2>5. Len(m) \in 1 .. 5 /\ m[1] # FF
    BY <1>0, <2>4 DEF FF
  <2>6. x.then = "blocklen" => e.idle = 0
    BY DEF Asked
  <2> QED BY <1>3, <1>f, <2>1, <2>2, <2>3, <2>4, <2>5, <2>6, PlainAnswer
<1>4. CASE x.then = "poll_again"
  <2> DEFINE m == <<IF e.idle > 1 THEN 1 ELSE 0>>
             n == IF e.idle > 1 THEN e.idle - 1 ELSE 0
  <2>0. cmd = OP_COND
    BY <1>0, <1>4, PlaceOf
  <2>1. r = WithIdle(e, m, n)
    BY <2>0 DEF RealResponses, WithIdle
  <2>2. m \in Seq(Bytes) /\ Len(m) \in 1 .. 5 /\ m[1] # FF /\ n \in Nat /\ (m[1] = 0 => n = 0)
    BY <1>0 DEF FF
  <2> HIDE DEF m, n
  <2>3. Reply(e, d, m) /\ d.idle = n /\ d.do_write = e.do_write
    BY <2>1, <2>2, IdleReply
  <2>4. Answered(d, x, b, s)
    BY <1>4, <2>2, <2>3, ShortAnswer DEF Asked
  <2> QED BY <1>4, <2>3, <2>4 DEF Replied, Reply
<1>5. CASE x.then = "if_cond"
  <2>0. cmd = GO_IDLE
    BY <1>0, <1>5, PlaceOf
  <2> DEFINE m == << 1 >>
  <2>d. RealResponses(e) = {[e EXCEPT !.miso = << 1 >>, !.idle = k] : k \in 1 .. MaxIdle}
    BY <2>0, ResetResponses, ZenonT(60)
  <2>c. r \in {[e EXCEPT !.miso = << 1 >>, !.idle = k] : k \in 1 .. MaxIdle}
    BY <2>d
  <2>a. \E n \in 1 .. MaxIdle : r = WithIdle(e, m, n)
    BY <2>c DEF WithIdle
  <2>2. m \in Seq(Bytes) /\ Len(m) \in 1 .. 5 /\ m[1] # FF
    BY <1>0 DEF FF
  <2> HIDE DEF m
  <2>1. PICK n \in 1 .. MaxIdle : r = WithIdle(e, m, n)
    BY <2>a
  <2>b. n \in Nat
    BY CardAssumption
  <2>3. Reply(e, d, m) /\ d.idle = n /\ d.do_write = e.do_write
    BY <2>1, <2>2, <2>b, IdleReply
  <2>4. Answered(d, x, b, s)
    BY <1>5, <2>2, <2>3, ShortAnswer DEF Asked
  <2> QED BY <1>5, <2>3, <2>4 DEF Replied, Reply
<1>6. CASE x.then = "ocr"
  <2>0. cmd = IF_COND
    BY <1>0, <1>6 DEF Sent
  <2> DEFINE m == <<1, 0, 0, 1, 170>>
  <2>1. r = WithAnswer(e, m)
    BY <2>0 DEF RealResponses, WithAnswer
  <2>2. m \in Seq(Bytes) /\ Len(m) \in 1 .. 5 /\ m[1] # FF
    BY <1>0 DEF FF
  <2> HIDE DEF m
  <2> QED BY <1>6, <2>1, <2>2, PlainAnswer
<1>7. CASE x.then \in {"op_cond", "boot"}
  <2>0. cmd \in {APP_CMD, SET_BLOCKLEN}
    BY <1>0, <1>7 DEF Sent
  <2>1. r = WithAnswer(e, <<R1(e)>>)
    BY <2>0 DEF RealResponses, WithAnswer
  <2> QED BY <1>7, <1>o, <2>1
<1> QED BY <1>0, <1>1, <1>2, <1>3, <1>4, <1>5, <1>6, <1>7 DEF CommandPlaces

(* Every answer to a command is one that the driver reads rightly. *)
LEMMA Replies ==
  ASSUME NEW e \in CardType, NEW x, NEW b, NEW s, Asked(e, x, b, s), NEW r \in Responses(e),
         NEW d, d = [r EXCEPT !.state = "TRANSMITTING"]
  PROVE  Replied(e, d, x, b, s)
<1>1. d = Transmits(r)
  BY DEF Transmits
<1>2. CASE e.kind = "sim"
  BY <1>1, <1>2, SimReplies DEF Responses
<1>3. CASE e.kind # "sim"
  BY <1>1, <1>3, RealReplies DEF Responses
<1> QED BY <1>2, <1>3
-----------------------------------------------------------------------------
(* One round of spi_xfer. *)

(* The byte that goes out, and what happens to the one that comes in when  *)
(* the transfer waits for an answer.                                       *)
Out(x, b) == IF x.src < x.len THEN b[x.src] ELSE FF
Moves(x, b, rx, x2, b2) ==
  /\ x2.len = x.len /\ x2.wait = x.wait /\ x2.then = x.then
  /\ x2.src = IF x.src < x.len THEN x.src + 1 ELSE x.src
  /\ IF x.got \/ rx # FF
     THEN x2.dst = x.dst + 1 /\ x2.got /\ b2 = [b EXCEPT ![x.dst] = rx]
     ELSE x2.dst = x.dst /\ ~x2.got /\ b2 = b
XferOk(x) ==
  /\ x \in XferType /\ x.dst < x.len /\ x.dst <= x.src /\ x.src <= x.len /\ x.len <= BUF_SIZE
BufType == [0 .. BUF_SIZE - 1 -> Bytes]

(* What goes out is a byte. *)
LEMMA OutByte ==
  ASSUME NEW x, XferOk(x), NEW b \in BufType
  PROVE  Out(x, b) \in Bytes
<1>1. x.src < x.len => x.src \in 0 .. BUF_SIZE - 1
  BY MoreSizes DEF XferOk, XferType
<1> QED BY <1>1, ByteFacts DEF Out, BufType

(* One round of the loop, field by field. *)
LEMMA Round ==
  ASSUME DriverInv, BufInv, spi_xfer
  PROVE  /\ pc = "xfer" /\ XferOk(xfer) /\ buf \in BufType /\ xfer' \in XferType
         /\ card' \in transfer(card, Out(xfer, buf))
         /\ xfer.wait =>
              /\ Moves(xfer, buf, card'.rx, xfer', buf')
              /\ pc' = IF xfer'.dst = xfer.len THEN xfer.then ELSE "xfer"
         /\ ~xfer.wait /\ ~xfer.got /\ card'.rx = FF =>
              /\ buf' = buf /\ ~xfer'.got /\ xfer'.then = xfer.then /\ xfer'.len = xfer.len
              /\ ~xfer'.wait
              /\ pc' \in {"xfer", xfer.then}
         /\ At' = At /\ At \in Places /\ xfer.then = At /\ xfer'.len = xfer.len
         /\ sd_is_sdhc' = sd_is_sdhc /\ polls' = polls /\ mem' = mem /\ regs' = regs /\ rcs' = rcs
         /\ before' = before
<1> DEFINE out == IF xfer.src < xfer.len THEN buf[xfer.src] ELSE FF
           src == IF xfer.src < xfer.len THEN xfer.src + 1 ELSE xfer.src
<1>1. PICK c \in transfer(card, out) :
        LET sent == ~xfer.wait /\ src = xfer.len
            keep == ~sent /\ (xfer.got \/ c.rx # FF)
            dst == IF keep THEN xfer.dst + 1 ELSE xfer.dst
        IN /\ card' = c
           /\ xfer' = [xfer EXCEPT !.src = src, !.dst = dst, !.got = @ \/ keep]
           /\ buf' = IF keep THEN [buf EXCEPT ![xfer.dst] = c.rx] ELSE buf
           /\ pc' = IF sent \/ dst = xfer.len THEN xfer.then ELSE pc
  BY DEF spi_xfer
<1> DEFINE sent == ~xfer.wait /\ src = xfer.len
           keep == ~sent /\ (xfer.got \/ c.rx # FF)
           dst == IF keep THEN xfer.dst + 1 ELSE xfer.dst
<1>2. /\ pc = "xfer" /\ xfer \in XferType /\ xfer.dst < xfer.len
      /\ sd_is_sdhc' = sd_is_sdhc /\ polls' = polls /\ mem' = mem /\ regs' = regs /\ rcs' = rcs
      /\ before' = before
  BY DEF spi_xfer, DriverInv, caller
<1>3. XferOk(xfer) /\ buf \in BufType
  BY <1>2 DEF DriverInv, TransfersFit, XferOk, BufInv, BufType
<1>4. src \in Nat /\ dst \in Nat /\ (xfer.got \/ keep) \in BOOLEAN
  BY <1>2 DEF XferType
<1>5. /\ xfer' = [xfer EXCEPT !.src = src, !.dst = dst, !.got = xfer.got \/ keep] /\ card' = c
      /\ buf' = (IF keep THEN [buf EXCEPT ![xfer.dst] = c.rx] ELSE buf)
      /\ pc' = IF sent \/ dst = xfer.len THEN xfer.then ELSE pc
  BY <1>1
<1> HIDE DEF src, dst, keep, sent
<1>6. /\ xfer' \in XferType /\ xfer'.src = src /\ xfer'.dst = dst /\ xfer'.len = xfer.len
      /\ xfer'.then = xfer.then /\ xfer'.wait = xfer.wait /\ (xfer'.got <=> xfer.got \/ keep)
  BY <1>2, <1>4, <1>5 DEF XferType
<1>7. xfer.then \in Places /\ xfer.then # "xfer"
  BY <1>2 DEF XferType, Places, Suspended
<1>8. At' = At /\ At \in Places /\ xfer.then = At
  BY <1>2, <1>5, <1>6, <1>7 DEF At
<1>9. ASSUME xfer.wait
      PROVE  /\ Moves(xfer, buf, card'.rx, xfer', buf')
             /\ pc' = IF xfer'.dst = xfer.len THEN xfer.then ELSE "xfer"
  <2>1. ~sent /\ (keep <=> xfer.got \/ c.rx # FF)
    BY <1>9 DEF sent, keep
  <2> QED BY <1>2, <1>5, <1>6, <2>1 DEF Moves, src, dst
<1>10. ASSUME ~xfer.wait, ~xfer.got, card'.rx = FF
       PROVE  buf' = buf /\ ~xfer'.got /\ ~xfer'.wait /\ pc' \in {"xfer", xfer.then}
  <2>1. ~keep
    BY <1>5, <1>10 DEF keep
  <2> QED BY <1>2, <1>5, <1>6, <1>10, <2>1
<1> QED BY <1>1, <1>2, <1>3, <1>5, <1>6, <1>8, <1>9, <1>10 DEF Out

(* A byte of a command goes out; after the eighth the card answers. *)
LEMMA AddressFacts ==
  ASSUME NEW f, NEW g, \A i \in 2 .. 5 : f[i] \in Bytes /\ g[i] = f[i]
  PROVE  Address(f) \in Nat /\ Address(g) = Address(f)
<1>1. /\ f[2] \in Nat /\ f[3] \in Nat /\ f[4] \in Nat /\ f[5] \in Nat
      /\ g[2] = f[2] /\ g[3] = f[3] /\ g[4] = f[4] /\ g[5] = f[5]
  BY SMTT(30) DEF Bytes
<1> QED BY <1>1 DEF Address

(* The card has the whole command, with the address of the sector. *)
LEMMA AskedNow ==
  ASSUME NEW c, CardOk(c), NEW x, XferOk(x), NEW b \in BufType, NEW addr, NEW s \in Nat,
         NEW x2 \in XferType, NEW e \in CardType,
         Sending(c, x, b, addr), x.src = 7, x.len >= 8, x.then \in CommandPlaces,
         x.then \in {"booted", "read"} => x.len = Longest,
         x.then \in {"read", "write_block"} =>
           addr = IF c.kind = "sdhc" THEN s ELSE s * BLOCK_SIZE,
         x.then = "blocklen" => c.idle = 0,
         Moves(x, b, FF, x2, b),
         Kept(c, e), e.do_write = c.do_write, e.mosi = Append(c.mosi, b[7])
  PROVE  Asked(e, x2, b, s)
<1>1. /\ x.len \in Nat /\ BUF_SIZE \in Nat /\ BLOCK_SIZE \in Nat /\ x.len <= BUF_SIZE
  BY MoreSizes DEF XferOk, XferType
<1>2. /\ ~x.got /\ x.dst = 0 /\ b[1] = Sent(x.then) /\ ~c.do_write /\ c.state = "RECEIVING"
      /\ Len(c.mosi) = 6 /\ \A i \in 1 .. 6 : c.mosi[i] = b[i]
  BY DEF Sending
<1>3. \A i \in 0 .. 7 : b[i] \in Bytes
  BY <1>1, SMTT(30) DEF BufType
<1>4. c.mosi \in Seq(Bytes)
  BY DEF CardOk, CardType
<1>5. \A i \in 1 .. 6 : e.mosi[i] = b[i]
  <2>1. b[7] \in Bytes
    BY <1>3
  <2>2. \A i \in 1 .. Len(c.mosi) : e.mosi[i] = c.mosi[i]
    BY <1>4, <2>1, Grown
  <2> QED BY <1>2, <2>2
<1>6. e.mosi[1] = Sent(x.then)
  BY <1>2, <1>5
<1>7. /\ x2.len = x.len /\ x2.then = x.then /\ x2.src = 8 /\ x2.dst = 0 /\ ~x2.got
  BY <1>1, <1>2 DEF Moves
<1>8. Clear(x2, b) /\ Fresh(x2)
  <2>1. \A i \in 7 .. x.len - 1 : b[i] = FF
    BY DEF Sending
  <2> QED BY <1>1, <1>7, <2>1 DEF Clear, Fresh
<1>9. Address(Frame(b)) \in Nat /\ Address(e.mosi) = Address(Frame(b))
  <2>1. \A i \in 2 .. 5 : Frame(b)[i] \in Bytes /\ e.mosi[i] = Frame(b)[i]
    <3>1. \A i \in 2 .. 5 : Frame(b)[i] = b[i] /\ i \in 0 .. 7 /\ i \in 1 .. 6
      BY DEF Frame
    <3> QED BY <1>3, <1>5, <3>1
  <2> QED BY <2>1, AddressFacts
<1>10. Position(e) \in Nat
  BY <1>1, <1>9 DEF Position
<1>11. x.then \in {"read", "write_block"} => Position(e) = BLOCK_SIZE * s
  <2> SUFFICES ASSUME x.then \in {"read", "write_block"} PROVE Position(e) = BLOCK_SIZE * s
    OBVIOUS
  <2>1. Address(e.mosi) = IF c.kind = "sdhc" THEN s ELSE s * BLOCK_SIZE
    BY <1>9 DEF Sending
  <2>2. s * BLOCK_SIZE = BLOCK_SIZE * s
    BY <1>1
  <2> QED BY <2>1, <2>2 DEF Position, Kept
<1>12. e.data = << >> /\ (e.kind = "sim" => e.idle = 0) /\ e.idle = c.idle /\ ~e.do_write
  BY <1>2 DEF Kept, CardOk
<1> QED BY <1>1, <1>6, <1>7, <1>8, <1>10, <1>11, <1>12 DEF Asked

(* What a step of a command leaves as it was. *)
Steady(c, d, place) ==
  /\ CardOk(d) /\ d.kind = c.kind /\ d.selected = c.selected /\ d.disk = c.disk
  /\ place \notin {"if_cond", "poll_again"} => d.idle = c.idle

(* One round while the command goes out. *)
LEMMA SendStep ==
  ASSUME NEW c, CardOk(c), NEW x, XferOk(x), NEW b \in BufType, NEW addr, NEW s \in Nat,
         NEW d \in transfer(c, Out(x, b)), NEW x2 \in XferType, NEW b2, Moves(x, b, d.rx, x2, b2),
         Sending(c, x, b, addr), x.src < 8, x.len >= 8, x.then \in CommandPlaces, c.selected,
         x.then \in {"booted", "read"} => x.len = Longest,
         x.then \in {"read", "write_block"} =>
           addr = IF c.kind = "sdhc" THEN s ELSE s * BLOCK_SIZE,
         x.then = "blocklen" => c.idle = 0
  PROVE  /\ Steady(c, d, x.then) /\ b2 = b /\ x2.dst = 0
         /\ IF x2.src < 8 THEN Sending(d, x2, b2, addr) ELSE Answered(d, x2, b2, s)
<1>1. /\ x.len \in Nat /\ x.src \in 0 .. 7 /\ x.src < x.len /\ BUF_SIZE \in Nat /\ x.len <= BUF_SIZE
      /\ c \in CardType
  BY MoreSizes DEF XferOk, XferType, CardOk
<1>2. Out(x, b) = b[x.src] /\ Out(x, b) \in Bytes
  BY <1>1, OutByte DEF Out
<1>3. ASSUME d.rx = FF
      PROVE  /\ b2 = b /\ x2.dst = 0 /\ ~x2.got /\ x2.src = x.src + 1 /\ x2.len = x.len
             /\ x2.then = x.then
  BY <1>1, <1>3 DEF Moves, Sending
<1>4. ASSUME d \in CardType, Kept(c, d), d.state # "DO_WRITE_BLOCK", c.state # "DO_WRITE_BLOCK"
      PROVE  Steady(c, d, x.then)
  BY <1>4 DEF Steady, Kept, CardOk
<1>5. CASE x.src = 0
  <2>1. Ready(c) /\ Out(x, b) = FF
    BY <1>2, <1>5 DEF Sending
  <2>2. d \in CardType /\ Kept(c, d) /\ d.rx = FF /\ ~d.do_write /\ Resting(d)
    <3>1. CASE c.state = "IDLE"
      BY <1>1, <1>2, <2>1, <3>1, IdleByte DEF Resting, Ready
    <3>2. CASE c.state = "TRANSMITTING"
      BY <1>1, <1>2, <2>1, <3>2, TransmittingByte DEF Resting, Ready
    <3> QED BY <2>1, <3>1, <3>2 DEF Ready, Resting
  <2>3. Steady(c, d, x.then)
    BY <1>4, <2>1, <2>2 DEF Resting, Ready
  <2>4. Sending(d, x2, b2, addr)
    BY <1>1, <1>3, <1>5, <2>2 DEF Sending
  <2> QED BY <1>3, <1>5, <2>2, <2>3, <2>4
<1>6. CASE x.src = 1
  <2>1. Resting(c) /\ Out(x, b) = Sent(x.then)
    BY <1>2, <1>6 DEF Sending
  <2>2. Sent(x.then) # FF
    BY PlaceOf DEF Commands, FF, GO_IDLE, IF_COND, SET_BLOCKLEN, READ_BLOCK, WRITE_BLOCK,
                   OP_COND, APP_CMD, READ_OCR
  <2>3. /\ d \in CardType /\ Kept(c, d) /\ d.rx = FF /\ ~d.do_write /\ d.state = "RECEIVING"
        /\ d.mosi = Append(<< >>, Out(x, b))
    BY <1>1, <1>2, <2>1, <2>2, IdleByte DEF Resting
  <2>4. Len(d.mosi) = 1 /\ d.mosi[1] = b[1]
    BY <1>2, <1>6, <2>3, ByteFacts
  <2>5. Steady(c, d, x.then)
    BY <1>4, <2>1, <2>3 DEF Resting
  <2>6. Sending(d, x2, b2, addr)
    BY <1>1, <1>3, <1>6, <2>3, <2>4 DEF Sending
  <2> QED BY <1>3, <1>6, <2>3, <2>5, <2>6
<1>7. CASE x.src \in 2 .. 6
  <2>1. /\ c.state = "RECEIVING" /\ Len(c.mosi) = x.src - 1 /\ ~c.do_write
        /\ \A i \in 1 .. x.src - 1 : c.mosi[i] = b[i]
    BY <1>7 DEF Sending
  <2>2. c.mosi[1] \in Commands
    BY <1>7, <2>1, PlaceOf DEF Sending
  <2>3. /\ d \in CardType /\ Kept(c, d) /\ d.rx = FF /\ ~d.do_write /\ d.state = "RECEIVING"
        /\ d.mosi = Append(c.mosi, Out(x, b))
    <3>1. Len(c.mosi) \in 1 .. 5
      BY <1>7, <2>1
    <3>2. d \in CardType /\ Kept(c, d) /\ d.rx = FF /\ d.do_write = c.do_write
          /\ d.state = "RECEIVING" /\ d.mosi = Append(c.mosi, Out(x, b))
      BY <1>1, <1>2, <2>1, <2>2, <3>1, ReceivingByte, Zenon
    <3> QED BY <2>1, <3>2
  <2>4. c.mosi \in Seq(Bytes)
    BY <1>1 DEF CardType
  <2>5. Len(d.mosi) = x.src /\ \A i \in 1 .. x.src : d.mosi[i] = b[i]
    <3>1. /\ Len(d.mosi) = Len(c.mosi) + 1 /\ d.mosi[Len(c.mosi) + 1] = Out(x, b)
          /\ \A i \in 1 .. Len(c.mosi) : d.mosi[i] = c.mosi[i]
      BY <1>2, <2>3, <2>4, Grown
    <3> QED BY <1>2, <1>7, <2>1, <3>1
  <2>6. Steady(c, d, x.then)
    BY <1>4, <2>1, <2>3
  <2>7. Sending(d, x2, b2, addr)
    <3>1. x2.src = x.src + 1 /\ x2.src # 0 /\ x2.src # 1 /\ x2.src - 1 = x.src
      BY <1>3, <1>7, <2>3
    <3>2. Len(d.mosi) = x2.src - 1 /\ \A i \in 1 .. x2.src - 1 : d.mosi[i] = b2[i]
      BY <1>3, <2>3, <2>5, <3>1
    <3>3. /\ ~x2.got /\ x2.dst = 0 /\ b2 = b /\ x2.then = x.then /\ x2.len = x.len
      BY <1>3, <2>3
    <3>4. /\ b2[0] = FF /\ b2[1] = Sent(x2.then) /\ \A i \in 7 .. x2.len - 1 : b2[i] = FF
          /\ x2.then \in {"read", "write_block"} => Address(Frame(b2)) = addr
      BY <3>3 DEF Sending
    <3> QED BY <2>3, <3>1, <3>2, <3>3, <3>4 DEF Sending
  <2> QED BY <1>3, <1>7, <2>3, <2>6, <2>7
<1>8. CASE x.src = 7
  <2>1. c.state = "RECEIVING" /\ Len(c.mosi) = 6 /\ Out(x, b) = b[7]
    BY <1>2, <1>8 DEF Sending
  <2>2. PICK e \in CardType : \E r \in Responses(e) :
           /\ Kept(c, e) /\ e.rx = FF /\ e.do_write = c.do_write /\ e.mosi = Append(c.mosi, b[7])
           /\ d = [r EXCEPT !.state = "TRANSMITTING"]
    BY <1>1, <1>2, <2>1, RespondByte
  <2>3. ASSUME NEW y \in XferType, Moves(x, b, FF, y, b) PROVE Asked(e, y, b, s)
    BY <1>8, <2>2, <2>3, AskedNow
  <2>4. ASSUME NEW y \in XferType, Moves(x, b, FF, y, b) PROVE Replied(e, d, y, b, s)
    BY <2>2, <2>3, <2>4, Replies
  <2>5. d.rx = FF
    <3> DEFINE y == [x EXCEPT !.src = 8]
    <3>1. y \in XferType /\ Moves(x, b, FF, y, b)
      BY <1>1, <1>8 DEF Moves, XferOk, XferType, Sending
    <3> QED BY <2>2, <2>4, <3>1 DEF Replied, Reply
  <2>6. b2 = b /\ Moves(x, b, FF, x2, b)
    BY <1>3, <2>5
  <2>7. Replied(e, d, x2, b, s)
    BY <2>4, <2>6
  <2>8. Steady(c, d, x.then)
    <3>1. /\ d \in CardType /\ d.state = "TRANSMITTING" /\ d.kind = e.kind /\ d.selected = e.selected
          /\ d.disk = e.disk /\ d.data = e.data
          /\ x2.then \notin {"if_cond", "poll_again"} \/ e.kind = "sim" => d.idle = e.idle
      BY <2>7 DEF Replied, Reply
    <3> QED BY <1>3, <2>1, <2>2, <2>5, <3>1 DEF Steady, Kept, CardOk
  <2> QED BY <1>3, <1>8, <2>5, <2>6, <2>7, <2>8 DEF Replied
<1> QED BY <1>1, <1>5, <1>6, <1>7, <1>8

(* A byte of the answer comes in. *)
LEMMA WireStep ==
  ASSUME NEW c, CardOk(c), c.state = "TRANSMITTING" \/ Done(c), NEW d \in transfer(c, FF)
  PROVE  /\ CardOk(d) /\ Kept(c, d) /\ d.do_write = c.do_write /\ d.rx = Wire(c, 1)
         /\ \A j \in Nat \ {0} : Wire(d, j) = Wire(c, j + 1)
         /\ IF c.state = "TRANSMITTING" /\ Len(c.miso) >= 1
            THEN d.state = "TRANSMITTING" /\ Len(d.miso) = Len(c.miso) - 1
            ELSE d.state # "TRANSMITTING" /\ Done(d)
<1>1. c \in CardType /\ FF \in Bytes /\ c.miso \in Seq(Bytes) /\ Len(c.miso) \in Nat
  BY ByteFacts DEF CardOk, CardType
<1>2. CASE c.state = "TRANSMITTING" /\ c.miso # << >>
  <2>1. /\ d \in CardType /\ Kept(c, d) /\ d.do_write = c.do_write
        /\ d.rx = Head(c.miso) /\ d.miso = Tail(c.miso) /\ d.state = "TRANSMITTING"
    BY <1>1, <1>2, TransmittingByte
  <2>2. CardOk(d)
    BY <1>2, <2>1 DEF CardOk, Kept
  <2>3. /\ Len(c.miso) >= 1 /\ Head(c.miso) = c.miso[1] /\ Len(Tail(c.miso)) = Len(c.miso) - 1
        /\ \A j \in 1 .. Len(c.miso) - 1 : Tail(c.miso)[j] = c.miso[j + 1]
    BY <1>1, <1>2
  <2>4. d.rx = Wire(c, 1)
    BY <1>1, <1>2, <2>1, <2>3 DEF Wire
  <2>5. ASSUME NEW j \in Nat \ {0} PROVE Wire(d, j) = Wire(c, j + 1)
    <3>1. j \in 1 .. Len(d.miso) <=> j + 1 \in 1 .. Len(c.miso)
      BY <1>1, <2>1, <2>3
    <3>2. j \in 1 .. Len(d.miso) => d.miso[j] = c.miso[j + 1]
      BY <1>1, <2>1, <2>3
    <3> QED BY <1>2, <2>1, <3>1, <3>2 DEF Wire
  <2> QED BY <1>2, <2>1, <2>2, <2>3, <2>4, <2>5
<1>3. CASE ~(c.state = "TRANSMITTING" /\ c.miso # << >>)
  <2>1. /\ d \in CardType /\ Kept(c, d) /\ d.do_write = c.do_write /\ d.rx = FF
        /\ d.state # "TRANSMITTING" /\ Done(d)
    <3>1. CASE c.state = "TRANSMITTING"
      BY <1>1, <1>3, <3>1, TransmittingByte DEF Done
    <3>2. CASE c.state = "IDLE"
      <4>1. ~c.do_write /\ c.mosi = << >>
        BY <3>2 DEF Done
      <4>2. /\ d \in CardType /\ Kept(c, d) /\ d.rx = FF /\ ~d.do_write /\ d.state = "IDLE"
            /\ d.mosi = c.mosi
        BY <1>1, <3>2, IdleByte
      <4>3. c.do_write \in BOOLEAN /\ d.do_write \in BOOLEAN
        BY <1>1, <4>2 DEF CardType
      <4> QED BY <4>1, <4>2, <4>3 DEF Done
    <3>3. CASE c.state = "WAIT_FOR_DATA"
      <4>1. FF # DATA_START_TOKEN
        BY DEF FF, DATA_START_TOKEN
      <4> QED BY <1>1, <3>3, <4>1, WaitingByte DEF Done
    <3> QED BY <3>1, <3>2, <3>3 DEF Done
  <2>2. CardOk(d)
    BY <2>1 DEF CardOk, Kept, Done
  <2>3. ~(c.state = "TRANSMITTING" /\ Len(c.miso) >= 1)
    BY <1>1, <1>3
  <2>4. \A j \in Nat \ {0} : Wire(d, j) = FF /\ Wire(c, j) = FF
    BY <1>1, <2>1, <2>3 DEF Wire
  <2>5. ASSUME NEW j \in Nat \ {0} PROVE Wire(d, j) = Wire(c, j + 1)
    BY <2>4
  <2>6. Wire(c, 1) = FF
    BY <2>4
  <2> QED BY <2>1, <2>2, <2>3, <2>5, <2>6
<1> QED BY <1>2, <1>3

(* Whether a sector was read rightly is a matter of the bytes stored. *)
LEMMA GoodReadKept ==
  ASSUME NEW f, NEW g, NEW len \in Nat, \A i \in 0 .. len - 1 : g[i] = f[i], NEW s,
         GoodRead(f, len, s)
  PROVE  GoodRead(g, len, s)
<1>1. CASE \A i \in 1 .. len - 1 : f[i] # DATA_START_TOKEN
  BY <1>1 DEF GoodRead
<1>2. ASSUME NEW t \in 1 .. len - 1, t + BLOCK_SIZE < len, StartsAt(f, t), Holds(f, t, s)
      PROVE  GoodRead(g, len, s)
  <2>1. StartsAt(g, t)
    BY <1>2 DEF StartsAt
  <2>2. Holds(g, t, s)
    <3> SUFFICES ASSUME NEW i \in 1 .. BLOCK_SIZE PROVE g[t + i] = s[i]
      BY DEF Holds
    <3>1. t + i \in 0 .. len - 1
      BY <1>2, MoreSizes
    <3> QED BY <1>2, <3>1 DEF Holds
  <2> QED BY <1>2, <2>1, <2>2 DEF GoodRead
<1> QED BY <1>1, <1>2 DEF GoodRead

(* So is whether the answer is good. *)
LEMMA GoodKept ==
  ASSUME NEW c, NEW d, Kept(c, d), d.do_write = c.do_write, NEW place, NEW f, NEW g,
         NEW len \in Nat, len >= 8, \A i \in 0 .. len - 1 : g[i] = f[i], NEW s,
         Good(c, place, f, len, s)
  PROVE  Good(d, place, g, len, s)
<1>1. g[0] = f[0] /\ g[1] = f[1]
  OBVIOUS
<1>2. place = "read" /\ f[0] <= 1 => GoodRead(g, len, Sector(d.disk, s))
  BY GoodReadKept DEF Good, Kept
<1>3. WriteOpen(c, s) => WriteOpen(d, s)
  BY DEF WriteOpen, Room, Kept
<1> QED BY <1>1, <1>2, <1>3 DEF Good, Kept

(* One round while the answer comes in. *)
LEMMA AnswerStep ==
  ASSUME NEW c, CardOk(c), NEW x, XferOk(x), NEW b \in BufType, NEW s,
         NEW d \in transfer(c, Out(x, b)), NEW x2 \in XferType, NEW b2, Moves(x, b, d.rx, x2, b2),
         Answered(c, x, b, s), x.src >= 8, x.len >= 8
  PROVE  /\ Steady(c, d, x.then) /\ x2.src >= 8
         /\ x2.dst # x.len => Answered(d, x2, b2, s)
         /\ x2.dst = x.len => Done(d) /\ Good(d, x.then, b2, x.len, s)
<1>0. /\ x.len \in Nat /\ x.src \in Nat /\ x.dst \in Nat /\ x.dst < x.len /\ x.dst <= x.src
      /\ x.src <= x.len /\ x.len <= BUF_SIZE /\ BUF_SIZE \in Nat
  BY MoreSizes DEF XferOk, XferType
<1>1. PICK k \in 0 .. 2 : Answering(c, x, b, s, k)
  BY DEF Answered
<1> DEFINE f == Answer(c, x, b, k)
<1>2. /\ IF x.got THEN k = 0 ELSE x.dst = 0
      /\ \A i \in x.src .. x.len - 1 : b[i] = FF
      /\ \A j \in 1 .. k : Wire(c, j) = FF
      /\ IF c.state = "TRANSMITTING" THEN k <= Len(c.miso) /\ (Len(c.miso) - k) + x.dst < x.len
         ELSE k = 0 /\ Done(c)
      /\ Good(c, x.then, f, x.len, s)
  BY <1>1 DEF Answering
<1>3. Out(x, b) = FF
  BY <1>0, <1>2 DEF Out
<1>4. /\ CardOk(d) /\ Kept(c, d) /\ d.do_write = c.do_write /\ d.rx = Wire(c, 1)
      /\ \A j \in Nat \ {0} : Wire(d, j) = Wire(c, j + 1)
      /\ IF c.state = "TRANSMITTING" /\ Len(c.miso) >= 1
         THEN d.state = "TRANSMITTING" /\ Len(d.miso) = Len(c.miso) - 1
         ELSE d.state # "TRANSMITTING" /\ Done(d)
  BY <1>2, <1>3, WireStep
<1>5. Steady(c, d, x.then)
  BY <1>4 DEF Steady, Kept
<1>6. /\ x2.len = x.len /\ x2.then = x.then
      /\ x2.src = (IF x.src < x.len THEN x.src + 1 ELSE x.src) /\ x2.src \in Nat /\ x2.src >= 8
  BY <1>0 DEF Moves
<1>7. c.miso \in Seq(Bytes) /\ Len(c.miso) \in Nat
  BY DEF CardOk, CardType
<1>8. \A i \in 0 .. x.len - 1 : f[i] = IF i < x.dst THEN b[i] ELSE Wire(c, k + i - x.dst + 1)
  BY DEF Answer
<1>9. f[0] # FF
  BY <1>2 DEF Good
<1> HIDE DEF f
<1>10. CASE x.got \/ d.rx # FF
  <2>1. x2.dst = x.dst + 1 /\ x2.got /\ b2 = [b EXCEPT ![x.dst] = d.rx]
    BY <1>10 DEF Moves
  <2>2. k = 0
    <3>1. CASE d.rx # FF
      <4>1. k # 0 => 1 \in 1 .. k
        OBVIOUS
      <4> QED BY <1>2, <1>4, <3>1, <4>1
    <3> QED BY <1>2, <1>10, <3>1
  <2>3. /\ b2[x.dst] = d.rx /\ \A i \in 0 .. BUF_SIZE - 1 : i # x.dst => b2[i] = b[i]
    BY <1>0, <2>1 DEF BufType
  <2>4. \A i \in x2.src .. x.len - 1 : b2[i] = FF
    BY <1>0, <1>2, <1>6, <2>3
  <2>5. \A i \in 0 .. x.dst : b2[i] = f[i]
    <3>1. f[x.dst] = Wire(c, 1)
      BY <1>0, <1>8, <2>2
    <3>2. ASSUME NEW i \in 0 .. x.dst, i # x.dst PROVE b2[i] = f[i]
      BY <1>0, <1>8, <2>3, <3>2
    <3> QED BY <1>4, <2>3, <3>1, <3>2
  <2>6. CASE x2.dst = x.len
    <3>1. \A i \in 0 .. x.len - 1 : b2[i] = f[i]
      BY <1>0, <2>1, <2>5, <2>6
    <3>2. Good(d, x.then, b2, x.len, s)
      BY <1>0, <1>2, <1>4, <3>1, GoodKept
    <3>3. ~(c.state = "TRANSMITTING" /\ Len(c.miso) >= 1)
      BY <1>0, <1>2, <1>7, <2>1, <2>2, <2>6
    <3> QED BY <1>4, <1>5, <1>6, <2>6, <3>2, <3>3
  <2>7. CASE x2.dst # x.len
    <3> DEFINE g == Answer(d, x2, b2, 0)
    <3>1. \A i \in 0 .. x.len - 1 : g[i] = IF i < x2.dst THEN b2[i] ELSE Wire(d, 0 + i - x2.dst + 1)
      BY <1>6 DEF Answer
    <3> HIDE DEF g
    <3>2. ASSUME NEW i \in 0 .. x.len - 1 PROVE g[i] = f[i]
      <4>1. CASE i <= x.dst
        BY <1>0, <2>1, <2>5, <3>1, <4>1
      <4>2. CASE i > x.dst
        <5>1. i - x.dst \in Nat \ {0} /\ ~(i < x2.dst) /\ ~(i < x.dst)
              /\ 0 + i - x2.dst + 1 = i - x.dst /\ 0 + i - x.dst + 1 = (i - x.dst) + 1
          BY <1>0, <2>1, <4>2
        <5>2. g[i] = Wire(d, i - x.dst) /\ f[i] = Wire(c, (i - x.dst) + 1)
          BY <1>8, <2>2, <3>1, <5>1
        <5> QED BY <1>4, <5>1, <5>2
      <4> QED BY <1>0, <4>1, <4>2
    <3>3. Good(d, x2.then, g, x2.len, s)
      BY <1>0, <1>2, <1>4, <1>6, <3>2, GoodKept
    <3>4. IF d.state = "TRANSMITTING" THEN 0 <= Len(d.miso) /\ (Len(d.miso) - 0) + x2.dst < x2.len
          ELSE Done(d)
      <4>1. CASE d.state = "TRANSMITTING"
        <5>1. /\ Len(c.miso) >= 1 /\ Len(d.miso) = Len(c.miso) - 1 /\ Len(c.miso) + x.dst < x.len
          BY <1>0, <1>2, <1>4, <1>7, <2>2, <4>1
        <5> QED BY <1>0, <1>6, <1>7, <2>1, <4>1, <5>1
      <4> QED BY <1>4, <4>1
    <3>5. Answering(d, x2, b2, s, 0)
      BY <1>6, <2>1, <2>4, <3>3, <3>4 DEF Answering, g
    <3> QED BY <1>5, <1>6, <2>7, <3>5 DEF Answered
  <2> QED BY <2>6, <2>7
<1>11. CASE ~(x.got \/ d.rx # FF)
  <2>1. x2.dst = 0 /\ ~x2.got /\ b2 = b /\ x.dst = 0 /\ Wire(c, 1) = FF
    BY <1>2, <1>4, <1>11 DEF Moves
  <2>2. k # 0
    <3>1. f[0] = Wire(c, k + 1)
      BY <1>0, <1>8, <2>1
    <3> QED BY <1>9, <2>1, <3>1
  <2>3. c.state = "TRANSMITTING" /\ k \in 1 .. 2 /\ Len(c.miso) >= 1 /\ k - 1 \in 0 .. 2
    BY <1>2, <1>7, <2>2
  <2> DEFINE g == Answer(d, x2, b2, k - 1)
  <2>4. \A i \in 0 .. x.len - 1 : g[i] = IF i < x2.dst THEN b2[i] ELSE Wire(d, (k - 1) + i - x2.dst + 1)
    BY <1>6 DEF Answer
  <2> HIDE DEF g
  <2>5. ASSUME NEW i \in 0 .. x.len - 1 PROVE g[i] = f[i]
    <3>1. k + i \in Nat \ {0} /\ ~(i < 0) /\ (k - 1) + i - 0 + 1 = k + i /\ k + i - 0 + 1 = (k + i) + 1
      BY <1>0, <2>3
    <3>2. g[i] = Wire(d, k + i) /\ f[i] = Wire(c, (k + i) + 1)
      BY <1>8, <2>1, <2>4, <3>1
    <3> QED BY <1>4, <3>1, <3>2
  <2>6. Good(d, x2.then, g, x2.len, s)
    BY <1>0, <1>2, <1>4, <1>6, <2>5, GoodKept
  <2>7. ASSUME NEW j \in 1 .. k - 1 PROVE Wire(d, j) = FF
    <3>1. j \in Nat \ {0} /\ j + 1 \in 1 .. k
      BY <2>3
    <3> QED BY <1>2, <1>4, <3>1
  <2>8. d.state = "TRANSMITTING" /\ k - 1 <= Len(d.miso) /\ (Len(d.miso) - (k - 1)) + x2.dst < x2.len
    <3>1. d.state = "TRANSMITTING" /\ Len(d.miso) = Len(c.miso) - 1 /\ k <= Len(c.miso)
          /\ (Len(c.miso) - k) + x.dst < x.len
      BY <1>2, <1>4, <2>3
    <3>2. ASSUME NEW n \in Nat, NEW m, m = n - 1, k <= n, (n - k) + 0 < x.len
          PROVE  k - 1 <= m /\ (m - (k - 1)) + 0 < x.len
      BY <1>0, <3>2
    <3> QED BY <1>6, <1>7, <2>1, <3>1, <3>2
  <2>9. \A i \in x2.src .. x2.len - 1 : b2[i] = FF
    BY <1>0, <1>2, <1>6, <2>1
  <2>10. Answering(d, x2, b2, s, k - 1)
    BY <2>1, <2>6, <2>7, <2>8, <2>9 DEF Answering, g
  <2>11. Answered(d, x2, b2, s)
    BY <2>3, <2>10 DEF Answered
  <2> QED BY <1>0, <1>5, <1>6, <2>1, <2>11
<1> QED BY <1>10, <1>11
-----------------------------------------------------------------------------
(* A block goes out. *)

(* A byte for a card that takes a block. *)
LEMMA BlockByte ==
  ASSUME NEW c, NEW b, c.state = "DO_WRITE_BLOCK", NEW d \in transfer(c, b)
  PROVE  \E e \in DO_WRITE_BLOCK(c, b) : d = [e EXCEPT !.write_count = @ + 1]
BY DEF transfer

(* It is counted. *)
LEMMA Bumped ==
  ASSUME NEW c \in CardType, NEW d, d = [c EXCEPT !.write_count = @ + 1]
  PROVE  /\ d \in CardType /\ d.kind = c.kind /\ d.selected = c.selected /\ d.idle = c.idle
         /\ d.disk = c.disk /\ d.pos = c.pos /\ d.data = c.data /\ d.do_write = c.do_write
         /\ d.state = c.state /\ d.mosi = c.mosi /\ d.miso = c.miso /\ d.rx = c.rx
         /\ d.write_count = c.write_count + 1
<1>1. c.write_count + 1 \in Nat /\ d = [c EXCEPT !.write_count = c.write_count + 1]
  BY DEF CardType
<1> QED BY <1>1 DEF CardType

(* A byte changes only positions of the block. *)
Inside(c, d) == \A p \in DOMAIN DiskImage : d.disk[p] # c.disk[p] => p \in Positions(c.pos)
Writes(c, d) ==
  /\ d \in CardType /\ d.kind = c.kind /\ d.selected = c.selected /\ d.idle = c.idle
  /\ d.pos = c.pos /\ d.mosi = c.mosi /\ Inside(c, d)

(* A byte of the block. *)
LEMMA PutByte ==
  ASSUME NEW c \in CardType, c.state = "DO_WRITE_BLOCK", NEW b \in Bytes, NEW d \in transfer(c, b),
         c.write_count < BLOCK_SIZE
  PROVE  /\ Writes(c, d) /\ d.rx = FF /\ d.state = c.state /\ d.do_write = c.do_write
         /\ d.write_count = c.write_count + 1
         /\ d.data = IF c.kind = "sim" THEN c.data ELSE Append(c.data, b)
<1>a. c.write_count \notin BLOCK_SIZE .. BLOCK_SIZE + 1
  BY MoreSizes DEF CardType
<1>0. DO_WRITE_BLOCK(c, b) = {Put(c, b)}
  BY <1>a DEF DO_WRITE_BLOCK
<1>1. d = [Put(c, b) EXCEPT !.write_count = @ + 1]
  BY <1>0, BlockByte
<1>2. /\ c.write_count \in Nat /\ c.pos \in Nat /\ c.data \in Seq(Bytes)
      /\ c.disk \in [DOMAIN DiskImage -> Bytes]
  BY DEF CardType
<1>3. CASE c.kind = "sim"
  <2> DEFINE disk == [c.disk EXCEPT ![c.pos + c.write_count] = b]
             e == [c EXCEPT !.disk = disk, !.rx = FF]
  <2>1. disk \in [DOMAIN DiskImage -> Bytes]
    BY <1>2
  <2>2. \A p \in DOMAIN DiskImage : disk[p] # c.disk[p] => p = c.pos + c.write_count
    BY <1>2
  <2>3. c.pos + c.write_count \in Positions(c.pos)
    BY <1>2, MoreSizes DEF Positions
  <2> HIDE DEF disk
  <2>4. Put(c, b) = e
    BY <1>3 DEF Put, disk
  <2>5. /\ e \in CardType /\ e.disk = disk /\ e.rx = FF /\ e.kind = c.kind /\ e.selected = c.selected
        /\ e.idle = c.idle /\ e.pos = c.pos /\ e.data = c.data /\ e.do_write = c.do_write
        /\ e.state = c.state /\ e.mosi = c.mosi /\ e.write_count = c.write_count
    BY <2>1, ByteFacts DEF CardType
  <2> HIDE DEF e
  <2>6. Inside(c, d)
    BY <1>1, <2>2, <2>3, <2>4, <2>5, Bumped DEF Inside
  <2> QED BY <1>1, <1>3, <2>4, <2>5, <2>6, Bumped DEF Writes
<1>4. CASE c.kind # "sim"
  <2> DEFINE data == Append(c.data, b)
             e == [c EXCEPT !.data = data, !.rx = FF]
  <2>1. data \in Seq(Bytes)
    BY <1>2
  <2>4. Put(c, b) = e
    BY <1>4 DEF Put
  <2> HIDE DEF data
  <2>5. /\ e \in CardType /\ e.data = data /\ e.rx = FF /\ e.kind = c.kind /\ e.selected = c.selected
        /\ e.idle = c.idle /\ e.pos = c.pos /\ e.disk = c.disk /\ e.do_write = c.do_write
        /\ e.state = c.state /\ e.mosi = c.mosi /\ e.write_count = c.write_count
    BY <2>1, ByteFacts DEF CardType
  <2> HIDE DEF e
  <2>6. Inside(c, d)
    BY <1>1, <2>4, <2>5, Bumped DEF Inside
  <2> QED BY <1>1, <1>4, <2>4, <2>5, <2>6, Bumped DEF Writes, data
<1> QED BY <1>3, <1>4

(* A byte of the CRC. *)
LEMMA CrcByte ==
  ASSUME NEW c \in CardType, c.state = "DO_WRITE_BLOCK", NEW b \in Bytes, NEW d \in transfer(c, b),
         c.write_count \in BLOCK_SIZE .. BLOCK_SIZE + 1
  PROVE  /\ Writes(c, d) /\ d.state = c.state /\ d.do_write = c.do_write /\ d.data = c.data
         /\ d.write_count = c.write_count + 1 /\ d.rx = IF c.kind = "sim" THEN 170 ELSE FF
<1> DEFINE rx == IF c.kind = "sim" THEN 170 ELSE FF
           e == [c EXCEPT !.rx = rx]
<1>1. ~(c.write_count < BLOCK_SIZE)
  BY MoreSizes
<1>0. DO_WRITE_BLOCK(c, b) = {e}
  BY <1>1 DEF DO_WRITE_BLOCK
<1>2. d = [e EXCEPT !.write_count = @ + 1]
  <2> HIDE DEF e
  <2> QED BY <1>0, BlockByte
<1>3. rx \in Bytes
  BY DEF Bytes, FF
<1> HIDE DEF rx
<1>4. /\ e \in CardType /\ e.data = c.data /\ e.rx = rx /\ e.kind = c.kind /\ e.selected = c.selected
      /\ e.idle = c.idle /\ e.pos = c.pos /\ e.disk = c.disk /\ e.do_write = c.do_write
      /\ e.state = c.state /\ e.mosi = c.mosi /\ e.write_count = c.write_count
  BY <1>3 DEF CardType
<1> HIDE DEF e
<1> QED BY <1>2, <1>4, Bumped DEF Writes, Inside, rx

(* The byte after the CRC, on the simulator's card. *)
LEMMA SimEnd ==
  ASSUME NEW c \in CardType, c.state = "DO_WRITE_BLOCK", NEW b \in Bytes, NEW d \in transfer(c, b),
         c.write_count = BLOCK_SIZE + 2, c.kind = "sim"
  PROVE  Writes(c, d) /\ d.state = "IDLE" /\ d.data = c.data /\ d.rx = 5
<1> DEFINE e == [c EXCEPT !.rx = 5, !.state = "IDLE"]
<1>1. ~(c.write_count < BLOCK_SIZE) /\ c.write_count \notin BLOCK_SIZE .. BLOCK_SIZE + 1
  BY MoreSizes
<1>0. DO_WRITE_BLOCK(c, b) = {e}
  BY <1>1 DEF DO_WRITE_BLOCK, DataResponses
<1>2. d = [e EXCEPT !.write_count = @ + 1]
  <2> HIDE DEF e
  <2> QED BY <1>0, BlockByte
<1>3. 5 \in Bytes
  BY DEF Bytes
<1>4. /\ e \in CardType /\ e.data = c.data /\ e.rx = 5 /\ e.kind = c.kind /\ e.selected = c.selected
      /\ e.idle = c.idle /\ e.pos = c.pos /\ e.disk = c.disk /\ e.state = "IDLE" /\ e.mosi = c.mosi
  BY <1>3 DEF CardType
<1> HIDE DEF e
<1> QED BY <1>2, <1>4, Bumped DEF Writes, Inside

Filled(data, block) == Len(data) = BLOCK_SIZE /\ \A i \in 1 .. BLOCK_SIZE : data[i] = block[i]

(* A real card stores the block where it belongs. *)
LEMMA StoredFacts ==
  ASSUME NEW c \in CardType, NEW s \in Nat, Room(c, s), c.kind # "sim",
         NEW block \in Seq(Bytes), Len(block) = BLOCK_SIZE, Filled(c.data, block)
  PROVE  /\ Stored(c) \in [DOMAIN DiskImage -> Bytes]
         /\ \A p \in DOMAIN DiskImage : Stored(c)[p] # c.disk[p] => p \in Positions(c.pos)
         /\ Sector(Stored(c), s) = block
<1>1. /\ c.disk \in [DOMAIN DiskImage -> Bytes] /\ c.pos \in Nat /\ c.data \in Seq(Bytes)
      /\ Positions(c.pos) \subseteq DOMAIN DiskImage /\ c.pos = BLOCK_SIZE * s /\ BLOCK_SIZE \in Nat
  BY MoreSizes DEF CardType, Room
<1>2. ASSUME NEW a \in Positions(c.pos)
      PROVE  c.data[a - c.pos + 1] \in Bytes /\ a - c.pos + 1 \in 1 .. BLOCK_SIZE
  <2>1. a - c.pos + 1 \in 1 .. BLOCK_SIZE
    BY <1>1 DEF Positions
  <2> QED BY <1>1, <2>1 DEF Filled
<1>3. Stored(c) \in [DOMAIN DiskImage -> Bytes]
  BY <1>1, <1>2 DEF Stored
<1>4. /\ \A p \in DOMAIN DiskImage :
           Stored(c)[p] = IF p \in Positions(c.pos) THEN c.data[p - c.pos + 1] ELSE c.disk[p]
      /\ DOMAIN Stored(c) = DOMAIN DiskImage
  BY <1>1 DEF Stored
<1>5. ASSUME NEW i \in 1 .. BLOCK_SIZE PROVE ByteAt(Stored(c), BLOCK_SIZE * s + i - 1) = block[i]
  <2>1. c.pos + i - 1 \in Positions(c.pos) /\ (c.pos + i - 1) - c.pos + 1 = i
    BY <1>1 DEF Positions
  <2>2. Stored(c)[c.pos + i - 1] = c.data[i]
    BY <1>1, <1>4, <2>1
  <2> QED BY <1>1, <1>4, <2>1, <2>2 DEF ByteAt, Filled
<1>6. Sector(Stored(c), s) = [i \in 1 .. BLOCK_SIZE |-> block[i]]
  BY <1>5 DEF Sector, Block
<1>7. block = [i \in 1 .. BLOCK_SIZE |-> block[i]]
  BY <1>1
<1> QED BY <1>3, <1>4, <1>6, <1>7

(* A card is busy no longer than the driver waits: until the answer to the *)
(* block is complete, and for POLLS polls.  One that is busy longer        *)
(* swallows the start of the next command.                                 *)
PollsSuffice == \A n \in BusyTimes : n <= BLOCK_SIZE + 3 + POLLS

(* It is busy no longer than the driver waits. *)
LEMMA BusyAnswer ==
  ASSUME PollsSuffice, NEW n \in BusyTimes, NEW last \in {<< >>, << 15 >>}, NEW m, m = Zeros(n) \o last
  PROVE  m \in Seq(Bytes) /\ Len(m) <= BLOCK_SIZE + 4 + POLLS /\ BusyBytes(m)
<1>1. n \in Nat /\ n <= BLOCK_SIZE + 3 + POLLS /\ BLOCK_SIZE \in Nat /\ POLLS \in Nat
  BY CardAssumption, MoreSizes DEF PollsSuffice
<1>2. Zeros(n) \in Seq(Bytes) /\ Len(Zeros(n)) = n /\ \A i \in 1 .. n : Zeros(n)[i] = 0
  BY <1>1, ByteFacts DEF Zeros
<1>3. last \in Seq(Bytes) /\ Len(last) \in {0, 1} /\ \A i \in 1 .. Len(last) : last[i] = 15
  <2>1. CASE last = << >>
    BY <2>1
  <2>2. CASE last = << 15 >>
    <3>1. 15 \in Bytes
      BY DEF Bytes
    <3> QED BY <2>2, <3>1
  <2> QED BY <2>1, <2>2
<1>4. /\ m \in Seq(Bytes) /\ Len(m) = n + Len(last) /\ \A i \in 1 .. n : m[i] = 0
      /\ \A i \in 1 .. Len(last) : m[n + i] = 15
  BY <1>2, <1>3, Joined
<1>5. ASSUME NEW i \in 1 .. Len(m) PROVE m[i] # FF /\ (i < Len(m) => m[i] = 0)
  <2>1. CASE i \in 1 .. n
    BY <1>4, <2>1 DEF FF
  <2>2. CASE i \notin 1 .. n
    <3>1. Len(last) = 1 /\ i = n + 1 /\ i = Len(m)
      BY <1>1, <1>3, <1>4, <2>2
    <3>2. m[n + 1] = 15
      BY <1>4, <3>1
    <3> QED BY <1>1, <3>1, <3>2 DEF FF
  <2> QED BY <2>1, <2>2
<1> QED BY <1>1, <1>3, <1>4, <1>5, SMTT(30) DEF BusyBytes

(* A real card that takes the block. *)
LEMMA TakenFacts ==
  ASSUME NEW c \in CardType, NEW m \in Seq(Bytes), NEW e, e = Taken(c, m),
         Stored(c) \in [DOMAIN DiskImage -> Bytes], 229 \in Bytes, << >> \in Seq(Bytes)
  PROVE  /\ e \in CardType /\ e.data = << >> /\ e.rx = 229 /\ e.kind = c.kind
         /\ e.selected = c.selected /\ e.idle = c.idle /\ e.pos = c.pos /\ e.disk = Stored(c)
         /\ ~e.do_write /\ e.state = "TRANSMITTING" /\ e.mosi = c.mosi /\ e.miso = m
<1>1. e \in CardType
  BY ZenonT(60) DEF CardType, Taken
<1>2. /\ e.data = << >> /\ e.rx = 229 /\ e.kind = c.kind
      /\ e.selected = c.selected /\ e.idle = c.idle /\ e.pos = c.pos /\ e.disk = Stored(c)
      /\ ~e.do_write /\ e.state = "TRANSMITTING" /\ e.mosi = c.mosi /\ e.miso = m
  BY DEF CardType, Taken
<1> QED BY <1>1, <1>2

(* A real card that refuses the block. *)
LEMMA NotTakenFacts ==
  ASSUME NEW c \in CardType, NEW e, e = NotTaken(c), 235 \in Bytes, << >> \in Seq(Bytes)
  PROVE  /\ e \in CardType /\ e.data = << >> /\ e.rx = 235 /\ e.kind = c.kind
         /\ e.selected = c.selected /\ e.idle = c.idle /\ e.pos = c.pos /\ e.disk = c.disk
         /\ ~e.do_write /\ e.state = "IDLE" /\ e.mosi = c.mosi
<1>1. e \in CardType
  BY ZenonT(60) DEF CardType, NotTaken
<1>2. /\ e.data = << >> /\ e.rx = 235 /\ e.kind = c.kind
      /\ e.selected = c.selected /\ e.idle = c.idle /\ e.pos = c.pos /\ e.disk = c.disk
      /\ ~e.do_write /\ e.state = "IDLE" /\ e.mosi = c.mosi
  BY DEF CardType, NotTaken
<1> QED BY <1>1, <1>2

(* The byte after the CRC, on a real card. *)
LEMMA RealEnd ==
  ASSUME PollsSuffice,
         NEW c \in CardType, c.state = "DO_WRITE_BLOCK", NEW b \in Bytes, NEW d \in transfer(c, b),
         c.write_count = BLOCK_SIZE + 2, c.kind # "sim", NEW s \in Nat, Room(c, s),
         NEW block \in Seq(Bytes), Len(block) = BLOCK_SIZE, Filled(c.data, block)
  PROVE  /\ Writes(c, d) /\ d.data = << >> /\ ~d.do_write
         /\ \/ /\ d.rx = 229 /\ Sector(d.disk, s) = block /\ d.state = "TRANSMITTING"
               /\ Len(d.miso) <= BLOCK_SIZE + 4 + POLLS /\ BusyBytes(d.miso)
            \/ d.rx = 235 /\ d.state = "IDLE"
<1>1. ~(c.write_count < BLOCK_SIZE) /\ c.write_count \notin BLOCK_SIZE .. BLOCK_SIZE + 1
  BY MoreSizes
<1>2. DO_WRITE_BLOCK(c, b) = DataResponses(c)
  BY <1>1 DEF DO_WRITE_BLOCK
<1>3. PICK e \in DataResponses(c) : d = [e EXCEPT !.write_count = @ + 1]
  BY <1>2, BlockByte
<1>4. 229 \in Bytes /\ 235 \in Bytes
  BY DEF Bytes
<1>5. ASSUME NEW n \in BusyTimes, NEW last \in {<< >>, << 15 >>},
             e = Taken(c, Zeros(n) \o last)
      PROVE  /\ Writes(c, d) /\ d.data = << >> /\ ~d.do_write
             /\ d.rx = 229 /\ Sector(d.disk, s) = block /\ d.state = "TRANSMITTING"
             /\ Len(d.miso) <= BLOCK_SIZE + 4 + POLLS /\ BusyBytes(d.miso)
  <2> DEFINE m == Zeros(n) \o last
  <2>1. /\ Stored(c) \in [DOMAIN DiskImage -> Bytes] /\ Sector(Stored(c), s) = block
        /\ \A p \in DOMAIN DiskImage : Stored(c)[p] # c.disk[p] => p \in Positions(c.pos)
    BY StoredFacts
  <2>2. m \in Seq(Bytes) /\ Len(m) <= BLOCK_SIZE + 4 + POLLS /\ BusyBytes(m)
    BY BusyAnswer
  <2> HIDE DEF m
  <2>4. /\ e \in CardType /\ e.data = << >> /\ e.rx = 229 /\ e.kind = c.kind
        /\ e.selected = c.selected /\ e.idle = c.idle /\ e.pos = c.pos /\ e.disk = Stored(c)
        /\ ~e.do_write /\ e.state = "TRANSMITTING" /\ e.mosi = c.mosi /\ e.miso = m
    <3>1. e = Taken(c, m)
      BY <1>5 DEF m
    <3> QED BY <1>4, <2>1, <2>2, <3>1, ByteFacts, TakenFacts
  <2>5. /\ d \in CardType /\ d.data = << >> /\ d.rx = 229 /\ d.kind = c.kind
        /\ d.selected = c.selected /\ d.idle = c.idle /\ d.pos = c.pos /\ d.disk = Stored(c)
        /\ ~d.do_write /\ d.state = "TRANSMITTING" /\ d.mosi = c.mosi /\ d.miso = m
    BY <1>3, <2>4, Bumped
  <2> QED BY <2>1, <2>2, <2>5 DEF Writes, Inside
<1>6. ASSUME e = NotTaken(c)
      PROVE  /\ Writes(c, d) /\ d.data = << >> /\ ~d.do_write /\ d.rx = 235 /\ d.state = "IDLE"
  <2>4. /\ e \in CardType /\ e.data = << >> /\ e.rx = 235 /\ e.kind = c.kind
        /\ e.selected = c.selected /\ e.idle = c.idle /\ e.pos = c.pos /\ e.disk = c.disk
        /\ ~e.do_write /\ e.state = "IDLE" /\ e.mosi = c.mosi
    BY <1>4, <1>6, ByteFacts, NotTakenFacts
  <2>5. /\ d \in CardType /\ d.data = << >> /\ d.rx = 235 /\ d.kind = c.kind
        /\ d.selected = c.selected /\ d.idle = c.idle /\ d.pos = c.pos /\ d.disk = c.disk
        /\ ~d.do_write /\ d.state = "IDLE" /\ d.mosi = c.mosi
    BY <1>3, <2>4, Bumped
  <2> QED BY <2>5 DEF Writes, Inside
<1>7. \/ \E n \in BusyTimes, last \in {<< >>, << 15 >>} : e = Taken(c, Zeros(n) \o last)
      \/ e = NotTaken(c)
  BY <1>3 DEF DataResponses
<1> QED BY <1>5, <1>6, <1>7

(* One round while the block goes out. *)
LEMMA PourStep ==
  ASSUME PollsSuffice, NEW c, CardOk(c), NEW x, XferOk(x), NEW b \in BufType, NEW s \in Nat,
         NEW block \in Seq(Bytes), Len(block) = BLOCK_SIZE,
         NEW d \in transfer(c, Out(x, b)), NEW x2 \in XferType, NEW b2, Moves(x, b, d.rx, x2, b2),
         Pouring(c, x, b, s, block), x.len = 5 + BLOCK_SIZE, x.src < x.len
  PROVE  /\ CardOk(d) /\ Writes(c, d) /\ x2.dst # x.len
         /\ IF x2.src < x.len THEN Pouring(d, x2, b2, s, block)
            ELSE x2.got /\ x2.dst >= 1 /\ Outcome(d, b2, s, block, POLLS + (x.len - x2.dst))
<1>0. /\ BLOCK_SIZE \in Nat /\ BLOCK_SIZE >= 1 /\ x.src \in Nat /\ x.dst \in Nat /\ x.dst <= x.src
      /\ BUF_SIZE \in Nat /\ x.len <= BUF_SIZE /\ POLLS \in Nat
  BY MoreSizes DEF XferOk, XferType
<1>1. /\ c \in CardType /\ (c.kind = "sim" => c.idle = 0)
      /\ c.kind = "sim" \/ c.state # "DO_WRITE_BLOCK" => c.data = << >>
  BY DEF CardOk
<1>2. Out(x, b) = b[x.src] /\ Out(x, b) \in Bytes
  BY OutByte DEF Out
<1>3. /\ x2.src = x.src + 1 /\ x2.len = x.len /\ x2.then = x.then
      /\ IF x.got \/ d.rx # FF
         THEN x2.dst = x.dst + 1 /\ x2.got /\ b2 = [b EXCEPT ![x.dst] = d.rx]
         ELSE x2.dst = x.dst /\ ~x2.got /\ b2 = b
  BY DEF Moves
<1>13. ASSUME x.got \/ d.rx # FF
       PROVE  b2[x.dst] = d.rx /\ \A i \in 0 .. BUF_SIZE - 1 : i # x.dst => b2[i] = b[i]
  <2>1. b2 = [b EXCEPT ![x.dst] = d.rx] /\ x.dst \in 0 .. BUF_SIZE - 1
    BY <1>0, <1>3, <1>13
  <2> QED BY <2>1 DEF BufType
<1>4. /\ c.mosi = << >> /\ c.do_write /\ Room(c, s)
      /\ c.state = (IF x.src <= 1 THEN "WAIT_FOR_DATA" ELSE "DO_WRITE_BLOCK")
      /\ c.write_count = IF x.src <= 1 THEN 0 ELSE x.src - 2
  BY DEF Pouring, Poured
<1>5. c.kind # "sim" \/ x.src <= 2 + BLOCK_SIZE =>
        /\ ~x.got /\ x.dst = 0 /\ b[0] = FF /\ b[1] = DATA_START_TOKEN
        /\ \A i \in 1 .. BLOCK_SIZE : b[i + 1] = block[i]
  BY <1>0 DEF Pouring
<1>6. c.kind = "sim" /\ x.src > 2 + BLOCK_SIZE =>
        x.got /\ x.dst >= 1 /\ b[0] = 170 /\ x.dst = x.src - 2 - BLOCK_SIZE
  BY DEF Pouring
<1>7. c.kind # "sim" =>
        /\ Len(c.data) = IF c.write_count < BLOCK_SIZE THEN c.write_count ELSE BLOCK_SIZE
        /\ \A i \in 1 .. Len(c.data) : c.data[i] = block[i]
  BY <1>4 DEF Pouring, Poured
<1>8. ASSUME Writes(c, d) PROVE Room(d, s) /\ d.mosi = << >>
  BY <1>4, <1>8 DEF Writes, Room
<1>9. CASE x.src <= 1
  <2>1. Out(x, b) = IF x.src = 0 THEN FF ELSE DATA_START_TOKEN
    BY <1>0, <1>2, <1>5, <1>9
  <2>2. /\ d \in CardType /\ Kept(c, d) /\ d.rx = FF /\ d.do_write = c.do_write
        /\ d.mosi = c.mosi
        /\ d.state = IF Out(x, b) = DATA_START_TOKEN THEN "DO_WRITE_BLOCK" ELSE "WAIT_FOR_DATA"
    BY <1>1, <1>2, <1>4, <1>9, WaitingByte
  <2>3. d.state = IF x2.src <= 1 THEN "WAIT_FOR_DATA" ELSE "DO_WRITE_BLOCK"
    BY <1>0, <1>3, <1>9, <2>1, <2>2 DEF FF, DATA_START_TOKEN
  <2>4. Writes(c, d) /\ CardOk(d)
    BY <1>1, <1>4, <1>9, <2>2 DEF Writes, Inside, Kept, CardOk
  <2>5. x2.dst = 0 /\ ~x2.got /\ b2 = b
    BY <1>0, <1>3, <1>5, <1>9, <2>2
  <2>6. /\ d.write_count = 0 /\ d.data = << >> /\ x2.src <= 2 /\ ~(x2.src > 2 + BLOCK_SIZE)
        /\ x2.src \in Nat /\ x2.src < x.len
    BY <1>0, <1>1, <1>3, <1>4, <1>9, <2>2 DEF Kept
  <2>7. Poured(x2) = 0
    BY <1>0, <1>3, <1>9 DEF Poured
  <2>8. Pouring(d, x2, b2, s, block)
    BY <1>0, <1>4, <1>5, <1>8, <1>9, <2>2, <2>3, <2>4, <2>5, <2>6, <2>7 DEF Pouring
  <2> QED BY <1>0, <2>4, <2>5, <2>6, <2>8
<1>10. CASE x.src \in 2 .. 1 + BLOCK_SIZE
  <2> DEFINE n == x.src - 2
  <2>1. /\ c.state = "DO_WRITE_BLOCK" /\ c.write_count = n /\ n \in Nat /\ n < BLOCK_SIZE
        /\ n + 1 \in 1 .. BLOCK_SIZE /\ x.src = (n + 1) + 1 /\ x.src <= 2 + BLOCK_SIZE
    BY <1>0, <1>4, <1>10
  <2> HIDE DEF n
  <2>2. Out(x, b) = block[n + 1]
    BY <1>2, <1>5, <2>1
  <2>3. /\ Writes(c, d) /\ d.rx = FF /\ d.state = c.state /\ d.do_write = c.do_write
        /\ d.write_count = n + 1
        /\ d.data = IF c.kind = "sim" THEN c.data ELSE Append(c.data, Out(x, b))
    BY <1>1, <1>2, <2>1, PutByte
  <2>4. CardOk(d)
    BY <1>1, <2>1, <2>3 DEF Writes, CardOk
  <2>5. x2.dst = 0 /\ ~x2.got /\ b2 = b
    BY <1>3, <1>5, <2>1, <2>3
  <2>6. Poured(x2) = n + 1 /\ ~(x2.src <= 1) /\ ~(x2.src > 2 + BLOCK_SIZE) /\ x2.src < x.len
    BY <1>0, <1>3, <2>1 DEF Poured
  <2>7. ASSUME c.kind # "sim"
        PROVE  Len(d.data) = n + 1 /\ \A i \in 1 .. n + 1 : d.data[i] = block[i]
    <3>1. c.data \in Seq(Bytes) /\ Len(c.data) = n /\ \A i \in 1 .. n : c.data[i] = block[i]
      BY <1>1, <1>7, <2>1, <2>7 DEF CardType
    <3>2. /\ Len(d.data) = Len(c.data) + 1 /\ d.data[Len(c.data) + 1] = Out(x, b)
          /\ \A i \in 1 .. Len(c.data) : d.data[i] = c.data[i]
      BY <1>2, <2>3, <2>7, <3>1, Grown
    <3> QED BY <2>1, <2>2, <3>1, <3>2
  <2>8. ASSUME c.kind # "sim"
        PROVE  /\ Len(d.data) = (IF Poured(x2) < BLOCK_SIZE THEN Poured(x2) ELSE BLOCK_SIZE)
               /\ \A i \in 1 .. Len(d.data) : d.data[i] = block[i]
    BY <1>0, <2>1, <2>6, <2>7, <2>8
  <2>9. d.kind = c.kind
    BY <2>3 DEF Writes
  <2>10. /\ b2[0] = FF /\ b2[1] = DATA_START_TOKEN
         /\ \A i \in 1 .. BLOCK_SIZE : b2[i + 1] = block[i]
    BY <1>5, <2>1, <2>5
  <2>11. Pouring(d, x2, b2, s, block)
    BY <1>4, <1>8, <2>1, <2>3, <2>5, <2>6, <2>8, <2>9, <2>10 DEF Pouring
  <2> QED BY <1>0, <2>3, <2>4, <2>5, <2>6, <2>11
<1>11. CASE x.src \in {2 + BLOCK_SIZE, 3 + BLOCK_SIZE}
  <2>1. /\ c.state = "DO_WRITE_BLOCK" /\ c.write_count = x.src - 2
        /\ c.write_count \in BLOCK_SIZE .. BLOCK_SIZE + 1 /\ ~(c.write_count < BLOCK_SIZE)
    BY <1>0, <1>4, <1>11
  <2>2. /\ Writes(c, d) /\ d.state = c.state /\ d.do_write = c.do_write /\ d.data = c.data
        /\ d.write_count = c.write_count + 1 /\ d.rx = IF c.kind = "sim" THEN 170 ELSE FF
    BY <1>1, <1>2, <2>1, CrcByte
  <2>3. CardOk(d)
    BY <1>1, <2>1, <2>2 DEF Writes, CardOk
  <2>4. /\ Poured(x2) = x.src - 1 /\ ~(Poured(x2) < BLOCK_SIZE) /\ ~(x2.src <= 1)
        /\ d.write_count = Poured(x2) /\ x2.src > 2 + BLOCK_SIZE /\ x2.src < x.len
    BY <1>0, <1>3, <1>11, <2>1, <2>2 DEF Poured
  <2>5. d.kind = c.kind
    BY <2>2 DEF Writes
  <2>6. CASE c.kind = "sim"
    <3>1. x2.dst = x.dst + 1 /\ x2.got /\ d.rx = 170 /\ d.rx # FF
      BY <1>3, <2>2, <2>6 DEF FF
    <3>2. /\ x.dst = x.src - 2 - BLOCK_SIZE /\ x.dst \in {0, 1} /\ (x.dst # 0 => b[0] = 170)
      BY <1>0, <1>5, <1>6, <1>11, <2>6
    <3>3. b2[0] = 170 /\ x2.dst = x2.src - 2 - BLOCK_SIZE /\ x2.dst >= 1 /\ x2.dst # x.len
      <4>1. 0 \in 0 .. BUF_SIZE - 1 /\ x.dst \in 0 .. BUF_SIZE - 1
        BY <1>0, <3>2
      <4>2. b2[0] = 170
        BY <1>13, <3>1, <3>2, <4>1
      <4>3. x2.dst = x2.src - 2 - BLOCK_SIZE
        BY <1>0, <1>3, <3>1, <3>2
      <4> QED BY <1>0, <3>1, <3>2, <4>2, <4>3
    <3>4. Pouring(d, x2, b2, s, block)
      BY <1>4, <1>8, <2>1, <2>2, <2>4, <2>5, <2>6, <3>1, <3>3 DEF Pouring
    <3> QED BY <2>2, <2>3, <2>4, <3>3, <3>4
  <2>7. CASE c.kind # "sim"
    <3>1. x2.dst = 0 /\ ~x2.got /\ b2 = b
      BY <1>3, <1>5, <2>2, <2>7
    <3>2. /\ b2[0] = FF /\ b2[1] = DATA_START_TOKEN
          /\ \A i \in 1 .. BLOCK_SIZE : b2[i + 1] = block[i]
      BY <1>5, <2>7, <3>1
    <3>3. Len(d.data) = BLOCK_SIZE /\ \A i \in 1 .. Len(d.data) : d.data[i] = block[i]
      BY <1>7, <2>1, <2>2, <2>7
    <3>4. Pouring(d, x2, b2, s, block)
      BY <1>4, <1>8, <2>1, <2>2, <2>4, <2>5, <2>7, <3>1, <3>2, <3>3 DEF Pouring
    <3> QED BY <1>0, <2>2, <2>3, <2>4, <3>1, <3>4
  <2> QED BY <2>6, <2>7
<1>12. CASE x.src = 4 + BLOCK_SIZE
  <2>1. c.state = "DO_WRITE_BLOCK" /\ c.write_count = BLOCK_SIZE + 2 /\ ~(c.write_count < BLOCK_SIZE)
        /\ ~(x2.src < x.len)
    BY <1>0, <1>3, <1>4, <1>12
  <2>2. CASE c.kind = "sim"
    <3>1. Writes(c, d) /\ d.state = "IDLE" /\ d.data = c.data /\ d.rx = 5
      BY <1>1, <1>2, <2>1, <2>2, SimEnd
    <3>2. x.got /\ x.dst = 2 /\ b[0] = 170
      BY <1>0, <1>6, <1>12, <2>2
    <3>3. x2.dst = 3 /\ x2.got /\ b2[0] = 170
      <4>1. 0 \in 0 .. BUF_SIZE - 1 /\ x.dst \in 0 .. BUF_SIZE - 1 /\ x.dst # 0
        BY <1>0, <3>2
      <4>2. b2[0] = 170
        BY <1>13, <3>2, <4>1
      <4> QED BY <1>3, <3>2, <4>2
    <3>4. Resting(d) /\ CardOk(d)
      BY <1>1, <1>8, <2>2, <3>1 DEF Resting, CardOk, Writes
    <3>5. Outcome(d, b2, s, block, POLLS + (x.len - x2.dst))
      BY <3>3, <3>4 DEF Outcome
    <3> QED BY <1>0, <2>1, <3>1, <3>3, <3>4, <3>5
  <2>3. CASE c.kind # "sim"
    <3>1. Filled(c.data, block)
      BY <1>7, <2>1, <2>3 DEF Filled
    <3>2. /\ Writes(c, d) /\ d.data = << >> /\ ~d.do_write
          /\ \/ /\ d.rx = 229 /\ Sector(d.disk, s) = block /\ d.state = "TRANSMITTING"
                /\ Len(d.miso) <= BLOCK_SIZE + 4 + POLLS /\ BusyBytes(d.miso)
             \/ d.rx = 235 /\ d.state = "IDLE"
      BY <1>1, <1>2, <1>4, <2>1, <2>3, <3>1, RealEnd
    <3>3. x2.dst = 1 /\ x2.got /\ b2[0] = d.rx
      <4>1. 0 \in 0 .. BUF_SIZE - 1 /\ d.rx # FF /\ x.dst = 0
        BY <1>0, <1>5, <2>3, <3>2 DEF FF
      <4> QED BY <1>3, <1>13, <4>1
    <3>4. CardOk(d)
      BY <1>1, <2>3, <3>2 DEF CardOk, Writes
    <3>5. POLLS + (x.len - x2.dst) = BLOCK_SIZE + 4 + POLLS
      BY <1>0, <3>3
    <3>6. Outcome(d, b2, s, block, POLLS + (x.len - x2.dst))
      BY <1>8, <3>2, <3>3, <3>5 DEF Outcome, Busy, Resting
    <3> QED BY <1>0, <2>1, <3>2, <3>3, <3>4, <3>6
  <2> QED BY <2>2, <2>3
<1> QED BY <1>0, <1>9, <1>10, <1>11, <1>12

(* A sequence without bytes. *)
LEMMA NoBytes ==
  ASSUME NEW s \in Seq(Bytes), Len(s) = 0
  PROVE  s = << >>
OBVIOUS

(* The card after the block: it is done, or busy for one byte less. *)
LEMMA BusyStep ==
  ASSUME NEW c, CardOk(c), NEW m \in Int, Busy(c, m), NEW d \in transfer(c, FF)
  PROVE  /\ CardOk(d) /\ Kept(c, d) /\ Busy(d, m - 1)
         /\ c.state = "IDLE" => d.state = "IDLE"
         /\ d.rx # FF /\ d.rx # 0 => Ready(d)
<1>1. c \in CardType /\ FF \in Bytes /\ c.miso \in Seq(Bytes) /\ Len(c.miso) \in Nat /\ c.mosi = << >>
  BY ByteFacts DEF CardOk, CardType, Busy
<1>2. CASE c.state = "IDLE"
  <2>1. d \in CardType /\ Kept(c, d) /\ d.rx = FF /\ d.state = "IDLE" /\ d.mosi = << >>
    BY <1>1, <1>2, IdleByte
  <2> QED BY <1>2, <2>1 DEF CardOk, Kept, Busy
<1>3. CASE c.state = "TRANSMITTING" /\ c.miso = << >>
  <2>1. d \in CardType /\ Kept(c, d) /\ d.rx = FF /\ d.state = "IDLE" /\ d.mosi = << >>
    BY <1>1, <1>3, TransmittingByte DEF Busy
  <2> QED BY <1>3, <2>1 DEF CardOk, Kept, Busy
<1>4. CASE c.state = "TRANSMITTING" /\ c.miso # << >>
  <2>1. /\ d \in CardType /\ Kept(c, d) /\ d.do_write = c.do_write /\ d.mosi = << >>
        /\ d.rx = Head(c.miso) /\ d.miso = Tail(c.miso) /\ d.state = "TRANSMITTING"
    BY <1>1, <1>4, TransmittingByte
  <2>2. /\ ~c.do_write /\ Len(c.miso) <= m
        /\ \A i \in 1 .. Len(c.miso) : c.miso[i] # FF /\ (i < Len(c.miso) => c.miso[i] = 0)
    BY <1>4 DEF Busy, BusyBytes
  <2>3. /\ Len(c.miso) >= 1 /\ Head(c.miso) = c.miso[1] /\ Len(Tail(c.miso)) = Len(c.miso) - 1
        /\ \A j \in 1 .. Len(c.miso) - 1 : Tail(c.miso)[j] = c.miso[j + 1]
    BY <1>1, <1>4
  <2>4. ASSUME NEW i \in 1 .. Len(d.miso)
        PROVE  d.miso[i] # FF /\ (i < Len(d.miso) => d.miso[i] = 0)
    <3>1. i \in 1 .. Len(c.miso) - 1 /\ i + 1 \in 1 .. Len(c.miso)
          /\ (i < Len(d.miso) => i + 1 < Len(c.miso))
      BY <1>1, <2>1, <2>3
    <3> QED BY <2>1, <2>2, <2>3, <3>1
  <2>5. Len(d.miso) <= m - 1
    BY <1>1, <2>1, <2>2, <2>3
  <2>6. Busy(d, m - 1)
    BY <2>1, <2>2, <2>4, <2>5 DEF Busy, BusyBytes
  <2>7. ASSUME d.rx # 0 PROVE Ready(d)
    <3>1. 1 \in 1 .. Len(c.miso) /\ ~(1 < Len(c.miso))
      BY <1>1, <2>1, <2>2, <2>3, <2>7
    <3>2. Len(c.miso) = 1
      <4>1. \A n \in Nat : 1 \in 1 .. n /\ ~(1 < n) => n = 1
        OBVIOUS
      <4> QED BY <1>1, <3>1, <4>1, Zenon
    <3>3. d.miso = << >>
      <4>1. d.miso \in Seq(Bytes)
        BY <2>1 DEF CardType
      <4>2. Len(d.miso) = 0
        BY <2>1, <2>3, <3>2
      <4> QED BY <4>1, <4>2, NoBytes
    <3> QED BY <2>1, <2>2, <3>3 DEF Ready
  <2> QED BY <1>4, <2>1, <2>6, <2>7 DEF CardOk, Kept
<1> QED BY <1>2, <1>3, <1>4 DEF Busy

(* One round after the block, until the answer is complete. *)
LEMMA PouredStep ==
  ASSUME NEW c, CardOk(c), NEW x, XferOk(x), NEW b \in BufType, NEW s, NEW block,
         NEW d \in transfer(c, Out(x, b)), NEW x2 \in XferType, NEW b2, Moves(x, b, d.rx, x2, b2),
         ~(x.src < x.len), x.got, x.dst >= 1, Outcome(c, b, s, block, POLLS + (x.len - x.dst))
  PROVE  /\ CardOk(d) /\ Kept(c, d) /\ x2.got /\ x2.dst = x.dst + 1 /\ x2.src = x2.len
         /\ Outcome(d, b2, s, block, POLLS + (x.len - x2.dst))
<1>0. /\ x.dst \in Nat /\ x.len \in Nat /\ x.dst < x.len /\ x.len <= BUF_SIZE /\ BUF_SIZE \in Nat
      /\ POLLS \in Nat /\ x.src = x.len
  BY MoreSizes DEF XferOk, XferType
<1>1. Out(x, b) = FF
  BY <1>0 DEF Out
<1>2. /\ x2.got /\ x2.dst = x.dst + 1 /\ x2.src = x2.len /\ b2 = [b EXCEPT ![x.dst] = d.rx]
  BY <1>0 DEF Moves
<1>3. b2[0] = b[0]
  <2>1. x.dst \in 0 .. BUF_SIZE - 1 /\ 0 \in 0 .. BUF_SIZE - 1 /\ x.dst # 0
    BY <1>0
  <2> QED BY <1>2, <2>1 DEF BufType
<1> DEFINE m == POLLS + (x.len - x.dst)
<1>4. m \in Int /\ m - 1 = POLLS + (x.len - x2.dst)
  BY <1>0, <1>2
<1>5. Busy(c, m)
  BY DEF Outcome, Busy, Resting
<1>6. Outcome(c, b, s, block, m)
  OBVIOUS
<1> HIDE DEF m
<1>7. CardOk(d) /\ Kept(c, d) /\ Busy(d, m - 1) /\ (c.state = "IDLE" => d.state = "IDLE")
  BY <1>1, <1>4, <1>5, BusyStep
<1>8. Outcome(d, b2, s, block, m - 1)
  BY <1>3, <1>6, <1>7 DEF Outcome, Kept, Busy, Resting
<1> QED BY <1>2, <1>4, <1>7, <1>8

(* One round of a poll. *)
LEMMA PollStep ==
  ASSUME NEW c, CardOk(c), NEW x, XferOk(x), NEW b \in BufType, NEW m \in Int, Busy(c, m),
         NEW d \in transfer(c, Out(x, b)), NEW x2 \in XferType, NEW b2, Moves(x, b, d.rx, x2, b2),
         x.len = 1, ~x.got, x.dst = 0, x.src = 0 => b[0] = FF
  PROVE  /\ CardOk(d) /\ Kept(c, d)
         /\ IF x2.dst = x.len THEN Busy(d, m - 1) /\ (b2[0] # 0 => Ready(d))
            ELSE Busy(d, m) /\ x2.dst = 0 /\ ~x2.got /\ x2.src # 0
<1>0. x.src \in Nat /\ x.src <= 1 /\ BUF_SIZE \in Nat /\ BUF_SIZE >= 1
  BY MoreSizes DEF XferOk, XferType
<1>1. Out(x, b) = FF
  BY <1>0 DEF Out
<1>2. /\ CardOk(d) /\ Kept(c, d) /\ Busy(d, m - 1) /\ (d.rx # FF /\ d.rx # 0 => Ready(d))
  BY <1>1, BusyStep
<1>3. Busy(d, m)
  <2>1. d.miso \in Seq(Bytes) /\ Len(d.miso) \in Nat
    BY <1>2 DEF CardOk, CardType
  <2>2. Len(d.miso) <= m - 1 => Len(d.miso) <= m
    BY <2>1
  <2> QED BY <1>2, <2>2 DEF Busy
<1>4. CASE d.rx # FF
  <2>1. x2.dst = 1 /\ b2 = [b EXCEPT ![0] = d.rx]
    BY <1>4 DEF Moves
  <2>2. b2[0] = d.rx
    BY <1>0, <2>1 DEF BufType
  <2> QED BY <1>2, <1>4, <2>1, <2>2
<1>5. CASE d.rx = FF
  <2>1. x2.dst = 0 /\ ~x2.got /\ x2.src # 0
    BY <1>0, <1>5 DEF Moves
  <2> QED BY <1>2, <1>3, <2>1
<1> QED BY <1>4, <1>5
-----------------------------------------------------------------------------
(* Addresses and sectors. *)

(* Products grow with their factors. *)
LEMMA Product ==
  ASSUME NEW a \in Nat, NEW b \in Nat, NEW m \in Nat, NEW n \in Nat, a <= m, b <= n
  PROVE  a * b \in Nat /\ a * b <= m * n
<1>1. a * b <= m * b
  <2>1. (m - a) * b >= 0
    OBVIOUS
  <2>2. (m - a) * b = m * b - a * b
    OBVIOUS
  <2> QED BY <2>1, <2>2
<1>2. m * b <= m * n
  <2>1. m * (n - b) >= 0
    OBVIOUS
  <2>2. m * (n - b) = m * n - m * b
    OBVIOUS
  <2> QED BY <2>1, <2>2
<1> QED BY <1>1, <1>2

ArgRange == {a \in Nat : a < 4294967296}

(* The four bytes of a command's argument give the address back. *)
LEMMA RoundTrip ==
  ASSUME NEW a \in Nat, a < 4294967296, NEW f,
         f[2] = (a \div 16777216) % 256, f[3] = (a \div 65536) % 256, f[4] = (a \div 256) % 256,
         f[5] = a % 256
  PROVE  Address(f) = a
<1>1. a \div 16777216 \in 0 .. 255
  BY SMT
<1>2. f[2] = a \div 16777216
  BY <1>1, SMT
<1>3. f[2] * 256 + f[3] = a \div 65536
  BY <1>2, SMT
<1>4. (f[2] * 256 + f[3]) * 256 + f[4] = a \div 256
  BY <1>3, SMT
<1> QED BY <1>3, <1>4, SMT DEF Address

(* An argument is four bytes. *)
LEMMA ArgFacts ==
  ASSUME NEW a \in Nat
  PROVE  /\ ArgOf(a) \in Seq(Bytes) /\ Len(ArgOf(a)) = 4
         /\ ArgOf(a)[1] = (a \div 16777216) % 256 /\ ArgOf(a)[2] = (a \div 65536) % 256
         /\ ArgOf(a)[3] = (a \div 256) % 256 /\ ArgOf(a)[4] = a % 256
<1>1. /\ (a \div 16777216) % 256 \in Bytes /\ (a \div 65536) % 256 \in Bytes
      /\ (a \div 256) % 256 \in Bytes /\ a % 256 \in Bytes
  BY SMT DEF Bytes
<1> QED BY <1>1, SMT DEF ArgOf

(* A sector's positions are its own. *)
LEMMA OwnPositions ==
  ASSUME NEW s \in Nat, NEW p \in Positions(BLOCK_SIZE * s)
  PROVE  p \in Nat /\ p \div BLOCK_SIZE = s
<1>0. BLOCK_SIZE \in Nat /\ BLOCK_SIZE >= 1
  BY MoreSizes
<1>1. BLOCK_SIZE * s \in Nat
  BY <1>0
<1>2. p \in Nat /\ p >= BLOCK_SIZE * s /\ p < BLOCK_SIZE * s + BLOCK_SIZE
  BY <1>0, <1>1 DEF Positions
<1> DEFINE q == p \div BLOCK_SIZE
<1>3. q \in Nat /\ BLOCK_SIZE * q <= p /\ p < BLOCK_SIZE * q + BLOCK_SIZE
  BY <1>0, <1>2
<1> HIDE DEF q
<1>4. ~(q < s)
  <2> SUFFICES ASSUME q + 1 <= s PROVE FALSE
    BY <1>3
  <2>1. BLOCK_SIZE * (q + 1) <= BLOCK_SIZE * s
    BY <1>0, <1>3, Product
  <2>2. BLOCK_SIZE * (q + 1) = BLOCK_SIZE * q + BLOCK_SIZE
    BY <1>0, <1>3
  <2> QED BY <1>0, <1>1, <1>2, <1>3, <2>1, <2>2
<1>5. ~(s < q)
  <2> SUFFICES ASSUME s + 1 <= q PROVE FALSE
    BY <1>3
  <2>1. BLOCK_SIZE * (s + 1) <= BLOCK_SIZE * q
    BY <1>0, <1>3, Product
  <2>2. BLOCK_SIZE * (s + 1) = BLOCK_SIZE * s + BLOCK_SIZE
    BY <1>0
  <2> QED BY <1>0, <1>1, <1>2, <1>3, <2>1, <2>2
<1> QED BY <1>2, <1>3, <1>4, <1>5 DEF q

(* Writing to one sector leaves the others. *)
LEMMA OtherSector ==
  ASSUME NEW c \in CardType, NEW d \in CardType, Inside(c, d), NEW s \in Nat, NEW k \in Nat,
         c.pos = BLOCK_SIZE * s, k # s
  PROVE  Sector(d.disk, k) = Sector(c.disk, k)
<1>1. /\ c.disk \in [DOMAIN DiskImage -> Bytes] /\ d.disk \in [DOMAIN DiskImage -> Bytes]
  BY DEF CardType
<1>2. ASSUME NEW i \in 1 .. BLOCK_SIZE
      PROVE  ByteAt(d.disk, BLOCK_SIZE * k + i - 1) = ByteAt(c.disk, BLOCK_SIZE * k + i - 1)
  <2> DEFINE p == BLOCK_SIZE * k + i - 1
  <2>1. BLOCK_SIZE \in Nat /\ BLOCK_SIZE * k \in Nat
    BY MoreSizes
  <2>2. p \in Positions(BLOCK_SIZE * k)
    BY <2>1 DEF Positions
  <2>3. p \notin Positions(BLOCK_SIZE * s)
    <3> HIDE DEF p
    <3> QED BY <2>2, OwnPositions
  <2> HIDE DEF p
  <2>4. p \in DOMAIN DiskImage => d.disk[p] = c.disk[p]
    BY <2>3 DEF Inside
  <2>5. ByteAt(d.disk, p) = ByteAt(c.disk, p)
    BY <1>1, <2>4 DEF ByteAt
  <2> QED BY <2>5 DEF p
<1> QED BY <1>2 DEF Sector, Block

(* The sectors that a call names. *)
Flat(ch, q, dh, m) == ((ch + 256 * q) * 32 + dh) * 63 + (m - 1)

(* The last sector that cylinder, head and sector can name. *)
LEMMA FlatBound ==
  ASSUME NEW ch \in 0 .. 255, NEW q \in 0 .. 3, NEW dh \in 0 .. 255, NEW m \in 1 .. 63
  PROVE  Flat(ch, q, dh, m) \in Nat /\ Flat(ch, q, dh, m) <= LastLBA
BY SMT DEF Flat, LastLBA

(* What the registers of a call can name. *)
LEMMA CallAddress ==
  ASSUME NEW call \in Calls
  PROVE  /\ call.ah \in Nat /\ call.al \in Nat
         /\ call.ah \in {2, 3} =>
              /\ LBA(call) \in Nat /\ LBA(call) <= LastLBA /\ call.al \in Bytes /\ call.bx \in Nat
              /\ call.bx + call.al <= MemBlocks
<1>1. /\ call.al \in 0 .. 255 /\ call.ch \in 0 .. 255 /\ call.cl \in 0 .. 255
      /\ call.dh \in 0 .. 255 /\ call.bx \in Nat /\ call.ah \in 0 .. 255
      /\ call.ah \in {2, 3} => call.cl % 64 >= 1 /\ call.bx + call.al <= MemBlocks
  BY CallsAssumption
<1>2. ASSUME call.ah \in {2, 3} PROVE LBA(call) \in Nat /\ LBA(call) <= LastLBA
  <2>1. call.cl \div 64 \in 0 .. 3 /\ call.cl % 64 \in 1 .. 63
    BY <1>1, <1>2
  <2>2. LBA(call) = Flat(call.ch, call.cl \div 64, call.dh, call.cl % 64)
    BY DEF LBA, Flat
  <2> DEFINE q == call.cl \div 64
             m == call.cl % 64
  <2>3. Flat(call.ch, q, call.dh, m) \in Nat /\ Flat(call.ch, q, call.dh, m) <= LastLBA
    <3>1. q \in 0 .. 3 /\ m \in 1 .. 63
      BY <2>1
    <3> HIDE DEF q, m
    <3> QED BY <1>1, <3>1, FlatBound, Zenon
  <2> QED BY <2>2, <2>3
<1> QED BY <1>1, <1>2 DEF Bytes

(* The address of a sector fits the argument of its command. *)
LEMMA AddressFits ==
  ASSUME NEW s \in Nat, NEW i \in Nat, s <= LastLBA, i <= 255, NEW sdhc \in BOOLEAN
  PROVE  (IF sdhc THEN s + i ELSE (s + i) * BLOCK_SIZE) \in ArgRange
<1>1. s + i \in Nat /\ s + i <= 2078750
  BY SMT DEF LastLBA
<1>2. BLOCK_SIZE \in Nat /\ BLOCK_SIZE <= 512
  BY MoreSizes
<1>3. (s + i) * BLOCK_SIZE \in Nat /\ (s + i) * BLOCK_SIZE <= 2078750 * 512
  BY <1>1, <1>2, Product, SMT
<1> QED BY <1>1, <1>3, SMT DEF ArgRange

(* The card finds the address that the driver put into the frame. *)
LEMMA Addressed ==
  ASSUME NEW a \in ArgRange, NEW f, \A i \in 1 .. 4 : f[1 + i] = ArgOf(a)[i]
  PROVE  /\ Address(f) = a /\ ArgOf(a) \in Seq(Bytes) /\ Len(ArgOf(a)) = 4
<1>1. a \in Nat /\ a < 4294967296
  BY SMT DEF ArgRange
<1>2. f[2] = ArgOf(a)[1] /\ f[3] = ArgOf(a)[2] /\ f[4] = ArgOf(a)[3] /\ f[5] = ArgOf(a)[4]
  OBVIOUS
<1> QED BY <1>1, <1>2, ArgFacts, RoundTrip, SMT
-----------------------------------------------------------------------------
(* What the driver puts into its buffer, and what it makes of an answer. *)

(* What the buffer holds before a transfer. *)
LEMMA FillBytes ==
  ASSUME BufInv, NEW bs \in Seq(Bytes), Len(bs) <= Longest, NEW n \in Nat, n <= Longest,
         buf' = Fill(bs, n)
  PROVE  /\ buf' \in BufType /\ \A i \in Longest .. BUF_SIZE - 1 : buf'[i] = 0
         /\ \A i \in 1 .. Len(bs) : buf'[i - 1] = bs[i]
         /\ \A i \in Len(bs) .. n - 1 : buf'[i] = FF
<1>1. /\ BUF_SIZE \in Nat /\ Longest \in Nat /\ Longest <= BUF_SIZE /\ Len(bs) \in Nat
      /\ buf \in [0 .. BUF_SIZE - 1 -> Bytes] /\ \A i \in Longest .. BUF_SIZE - 1 : buf[i] = 0
  BY MoreSizes DEF BufInv
<1>2. ASSUME NEW i \in 0 .. BUF_SIZE - 1
      PROVE  buf'[i] = IF i < Len(bs) THEN bs[i + 1] ELSE IF i < n THEN FF ELSE buf[i]
  BY <1>2 DEF Fill
<1>3. ASSUME NEW i \in 0 .. BUF_SIZE - 1 PROVE buf'[i] \in Bytes
  <2>1. i < Len(bs) => bs[i + 1] \in Bytes
    BY <1>1
  <2> QED BY <1>1, <1>2, <2>1, ByteFacts
<1>4. buf' \in BufType
  BY <1>3 DEF Fill, BufType
<1>5. ASSUME NEW i \in Longest .. BUF_SIZE - 1 PROVE buf'[i] = 0
  BY <1>1, <1>2
<1>6. ASSUME NEW i \in 1 .. Len(bs) PROVE buf'[i - 1] = bs[i]
  <2>1. i - 1 \in 0 .. BUF_SIZE - 1 /\ i - 1 < Len(bs) /\ (i - 1) + 1 = i
    BY <1>1
  <2> QED BY <1>2, <2>1
<1>7. ASSUME NEW i \in Len(bs) .. n - 1 PROVE buf'[i] = FF
  <2>1. i \in 0 .. BUF_SIZE - 1 /\ ~(i < Len(bs)) /\ i < n
    BY <1>1
  <2> QED BY <1>2, <2>1
<1> QED BY <1>4, <1>5, <1>6, <1>7

CommandFrame(cmd, arg) == <<FF, cmd>> \o arg \o << 149 >>

Framed(bs, cmd, arg) ==
  /\ bs \in Seq(Bytes) /\ Len(bs) = 7 /\ bs[1] = FF /\ bs[2] = cmd
  /\ \A i \in 1 .. 4 : bs[2 + i] = arg[i]

(* The bytes of a command. *)
LEMMA CommandBytes ==
  ASSUME NEW cmd \in Bytes, NEW arg \in Seq(Bytes), Len(arg) = 4
  PROVE  Framed(CommandFrame(cmd, arg), cmd, arg)
<1> DEFINE bs == CommandFrame(cmd, arg)
<1>1. <<FF, cmd>> \in Seq(Bytes) /\ << 149 >> \in Seq(Bytes)
  <2>1. FF \in Bytes /\ 149 \in Bytes
    BY DEF Bytes, FF
  <2> QED BY <2>1
<1>2. Len(<<FF, cmd>>) = 2 /\ <<FF, cmd>>[1] = FF /\ <<FF, cmd>>[2] = cmd /\ Len(<< 149 >>) = 1
  OBVIOUS
<1> DEFINE h == <<FF, cmd>>
           t == << 149 >>
<1>3. h \in Seq(Bytes) /\ t \in Seq(Bytes) /\ Len(h) = 2 /\ Len(t) = 1 /\ h[1] = FF /\ h[2] = cmd
      /\ bs = (h \o arg) \o t
  BY <1>1, <1>2 DEF CommandFrame
<1> HIDE DEF h, t, bs
<1>4. /\ h \o arg \in Seq(Bytes) /\ Len(h \o arg) = 6
      /\ \A i \in 1 .. 2 : (h \o arg)[i] = h[i]
      /\ \A i \in 1 .. 4 : (h \o arg)[2 + i] = arg[i]
  <2>1. /\ h \o arg \in Seq(Bytes) /\ Len(h \o arg) = Len(h) + Len(arg)
        /\ \A i \in 1 .. Len(h) : (h \o arg)[i] = h[i]
        /\ \A i \in 1 .. Len(arg) : (h \o arg)[Len(h) + i] = arg[i]
    BY <1>3, Joined, Zenon
  <2> QED BY <1>3, <2>1
<1>5. /\ bs \in Seq(Bytes) /\ Len(bs) = 7 /\ \A i \in 1 .. 6 : bs[i] = (h \o arg)[i]
  <2> DEFINE g == h \o arg
  <2>1. g \in Seq(Bytes) /\ Len(g) = 6 /\ bs = g \o t
    BY <1>3, <1>4
  <2> HIDE DEF g
  <2>2. /\ g \o t \in Seq(Bytes) /\ Len(g \o t) = Len(g) + Len(t)
        /\ \A i \in 1 .. Len(g) : (g \o t)[i] = g[i]
    BY <1>3, <2>1, Joined, Zenon
  <2>3. /\ bs \in Seq(Bytes) /\ Len(bs) = 7 /\ \A i \in 1 .. 6 : bs[i] = g[i]
    <3>1. bs \in Seq(Bytes) /\ \A i \in 1 .. Len(g) : bs[i] = g[i]
      BY <2>1, <2>2
    <3>2. Len(bs) = Len(g) + Len(t)
      BY <2>1, <2>2
    <3> QED BY <1>3, <2>1, <3>1, <3>2
  <2> QED BY <2>3 DEF g
<1>6. Framed(bs, cmd, arg)
  BY <1>3, <1>4, <1>5 DEF Framed
<1> QED BY <1>6 DEF bs

(* A command starts. *)
CommandStart(place, arg, rx_datalen) ==
  /\ rx_datalen \in Nat /\ rx_datalen >= 1 /\ rx_datalen <= 4 + BLOCK_SIZE + MAX_DATA_START_OFFS
  /\ place \in {"booted", "read"} => rx_datalen = 4 + BLOCK_SIZE + MAX_DATA_START_OFFS
  /\ arg \in Seq(Bytes) /\ Len(arg) = 4
Moved(c, d) ==
  /\ d.kind = c.kind /\ d.idle = c.idle /\ d.disk = c.disk /\ CardOk(d) /\ Ready(d)

(* Chip select changes nothing else. *)
LEMMA Selected ==
  ASSUME NEW c, CardOk(c), NEW sel \in BOOLEAN, NEW d, d = [c EXCEPT !.selected = sel]
  PROVE  /\ CardOk(d) /\ d.kind = c.kind /\ d.idle = c.idle /\ d.disk = c.disk /\ d.selected = sel
         /\ (Ready(c) => Ready(d)) /\ (Resting(c) => Resting(d))
<1>1. /\ d \in CardType /\ d.selected = sel
      /\ d.kind = c.kind /\ d.idle = c.idle /\ d.disk = c.disk /\ d.state = c.state
      /\ d.mosi = c.mosi /\ d.miso = c.miso /\ d.do_write = c.do_write /\ d.data = c.data
  BY DEF CardOk, CardType
<1> QED BY <1>1 DEF CardOk, Ready, Resting

(* A command that begins on a card that takes one. *)
LEMMA CommandStarts ==
  ASSUME CardInv, BufInv, Ready(card), NEW place \in CommandPlaces, NEW arg, NEW rx_datalen,
         CommandStart(place, arg, rx_datalen), spi_do_command(Sent(place), arg, rx_datalen, place),
         place \in {"read", "write_block"} =>
           \A f : (\A i \in 1 .. 4 : f[1 + i] = arg[i]) =>
                    Address(f) = (IF sd_is_sdhc THEN Target ELSE Target * BLOCK_SIZE)'
  PROVE  Moved(card, card') /\ BufInv' /\ CommandInv' /\ pc' = "xfer" /\ xfer'.then = place
<1> DEFINE len == spi_command_len(rx_datalen)
           bs == CommandFrame(Sent(place), arg)
<1>1. /\ len \in Nat /\ len >= 8 /\ len <= Longest /\ 7 <= Longest /\ 7 <= len
      /\ place \in {"booted", "read"} => len = Longest
  BY MoreSizes DEF CommandStart, Longest, spi_command_len
<1>2. /\ card' = [card EXCEPT !.selected = TRUE] /\ pc' = "xfer" /\ buf' = Fill(bs, len)
      /\ xfer' = [len |-> len, wait |-> TRUE, src |-> 0, dst |-> 0, got |-> FALSE, then |-> place]
  BY DEF spi_do_command, Start, CommandFrame
<1>3. Sent(place) \in Bytes
  BY PlaceOf DEF Bytes, Commands, GO_IDLE, IF_COND, SET_BLOCKLEN, READ_BLOCK, WRITE_BLOCK,
                 OP_COND, APP_CMD, READ_OCR
<1>4. /\ bs \in Seq(Bytes) /\ Len(bs) = 7 /\ bs[1] = FF /\ bs[2] = Sent(place)
      /\ \A i \in 1 .. 4 : bs[2 + i] = arg[i]
  <2>1. arg \in Seq(Bytes) /\ Len(arg) = 4
    BY DEF CommandStart
  <2>2. Framed(CommandFrame(Sent(place), arg), Sent(place), arg)
    BY <1>3, <2>1, CommandBytes
  <2> QED BY <2>2 DEF Framed
<1> HIDE DEF len, bs
<1>5. CardOk(card') /\ Moved(card, card') /\ card'.selected /\ Ready(card')
  BY <1>2, Selected DEF CardInv, Moved
<1>6. /\ buf' \in BufType /\ \A i \in Longest .. BUF_SIZE - 1 : buf'[i] = 0
      /\ \A i \in 1 .. Len(bs) : buf'[i - 1] = bs[i]
      /\ \A i \in Len(bs) .. len - 1 : buf'[i] = FF
  BY <1>1, <1>2, <1>4, FillBytes
<1>7. /\ buf'[0] = FF /\ buf'[1] = Sent(place) /\ \A i \in 7 .. len - 1 : buf'[i] = FF
      /\ \A i \in 1 .. 4 : buf'[1 + i] = arg[i]
  <2>1. 1 \in 1 .. Len(bs) /\ 2 \in 1 .. Len(bs) /\ 1 - 1 = 0 /\ 2 - 1 = 1
    BY <1>4
  <2>2. ASSUME NEW i \in 1 .. 4 PROVE buf'[1 + i] = arg[i]
    <3>1. 2 + i \in 1 .. Len(bs) /\ (2 + i) - 1 = 1 + i
      BY <1>4
    <3> QED BY <1>4, <1>6, <3>1
  <2> QED BY <1>4, <1>6, <2>1, <2>2
<1>8. /\ xfer'.len = len /\ xfer'.wait /\ xfer'.src = 0 /\ xfer'.dst = 0 /\ ~xfer'.got
      /\ xfer'.then = place
  BY <1>2
<1>9. BufInv'
  BY <1>1, <1>6, <1>8 DEF BufInv, BufType
<1> DEFINE addr == IF sd_is_sdhc THEN Target ELSE Target * BLOCK_SIZE
<1>10. place \in {"read", "write_block"} => Address(Frame(buf')) = addr'
  <2>1. \A i \in 1 .. 4 : Frame(buf')[1 + i] = buf'[1 + i]
    BY DEF Frame
  <2> QED BY <1>7, <2>1
<1>11. Sending(card', xfer', buf', addr')
  BY <1>5, <1>7, <1>8, <1>10 DEF Sending
<1>12. CommandInv'
  <2>1. "xfer" \notin CommandPlaces
    BY DEF CommandPlaces
  <2>2. pc' \notin CommandPlaces /\ pc' # "read"
    BY <1>2, <2>1
  <2> QED BY <1>1, <1>2, <1>5, <1>8, <1>11, <2>2 DEF CommandInv
<1> QED BY <1>2, <1>5, <1>8, <1>9, <1>12

(* The first byte of an answer is its R1. *)
LEMMA AnswerRead ==
  ASSUME BufInv, buf[0] # FF
  PROVE  /\ R1Offs = 0 /\ (Failed <=> buf[0] > 1) /\ buf[0] \in Nat
         /\ HighCapacity = ((buf[1] \div 64) % 2 = 1)
<1> DEFINE at == {i \in 0 .. BUF_SIZE - 1 : buf[i] # FF}
<1>1. 0 \in at /\ \A i \in at : i \in Nat /\ 0 <= i
  BY MoreSizes
<1>2. Min(at) = 0
  <2> HIDE DEF at
  <2>1. \A x \in at : (\A y \in at : x <= y) => x = 0
    BY <1>1
  <2> QED BY <1>1, <2>1 DEF Min
<1>3. R1Offs = 0
  BY <1>1, <1>2 DEF R1Offs
<1>4. buf[0] \in Nat
  <2>1. 0 \in 0 .. BUF_SIZE - 1
    BY MoreSizes
  <2>2. buf[0] \in Bytes
    BY <2>1 DEF BufInv
  <2> QED BY <2>2 DEF Bytes
<1>5. Failed <=> buf[0] > 1
  BY <1>3, <1>4 DEF Failed
<1>6. HighCapacity = ((buf[1] \div 64) % 2 = 1)
  BY <1>3 DEF HighCapacity
<1> QED BY <1>3, <1>4, <1>5, <1>6

(* A block that the driver copies is the sector that the card sent. *)
LEMMA SectorCopied ==
  ASSUME BufInv, buf[0] # FF, ReadOk, NEW sec, DOMAIN sec = 1 .. BLOCK_SIZE,
         sec = [i \in 1 .. BLOCK_SIZE |-> sec[i]], GoodRead(buf, Longest, sec)
  PROVE  Copied = sec
<1>0. /\ BUF_SIZE \in Nat /\ Longest \in Nat /\ Longest <= BUF_SIZE /\ BLOCK_SIZE \in Nat
      /\ \A i \in Longest .. BUF_SIZE - 1 : buf[i] = 0
  BY MoreSizes DEF BufInv
<1> DEFINE at == {i \in 1 .. BUF_SIZE - 1 : buf[i] = DATA_START_TOKEN}
<1>1. find_data_start = IF at = {} THEN -1 ELSE Min(at) + 1
  BY AnswerRead DEF find_data_start
<1>2. find_data_start >= 0
  BY DEF ReadOk
<1>3. at # {}
  BY <1>1, <1>2
<1>4. \A i \in at : i \in 1 .. Longest - 1 /\ buf[i] = DATA_START_TOKEN
  BY <1>0 DEF DATA_START_TOKEN
<1>5. PICK t \in 1 .. Longest - 1 :
             t + BLOCK_SIZE < Longest /\ StartsAt(buf, t) /\ Holds(buf, t, sec)
  BY <1>3, <1>4 DEF GoodRead
<1>6. t \in at /\ \A i \in at : t <= i
  BY <1>0, <1>4, <1>5 DEF StartsAt
<1>7. Min(at) = t
  <2> HIDE DEF at
  <2>1. at \subseteq Nat
    BY <1>4
  <2>2. \A x \in at : (\A y \in at : x <= y) => x = t
    BY <1>5, <1>6, <2>1
  <2> QED BY <1>6, <2>2 DEF Min
<1>8. find_data_start = t + 1
  BY <1>1, <1>3, <1>7
<1>9. ASSUME NEW i \in 1 .. BLOCK_SIZE
      PROVE  (IF find_data_start + i - 1 < BUF_SIZE THEN buf[find_data_start + i - 1] ELSE 0) = sec[i]
  <2>0. t \in Nat /\ i \in Nat /\ i <= BLOCK_SIZE /\ t + BLOCK_SIZE < Longest
    BY <1>0, <1>5
  <2>a. t + i < BUF_SIZE
    BY <1>0, <2>0
  <2>b. (t + 1) + i - 1 = t + i
    BY <2>0
  <2>1. find_data_start + i - 1 = t + i /\ t + i < BUF_SIZE
    BY <1>8, <2>a, <2>b
  <2>2. buf[t + i] = sec[i]
    BY <1>5 DEF Holds
  <2> QED BY <2>1, <2>2
<1>10. Copied = [i \in 1 .. BLOCK_SIZE |-> sec[i]]
  BY <1>9 DEF Copied
<1> QED BY <1>10
-----------------------------------------------------------------------------
(* Steps of spi_xfer. *)

DiskInv ==
  /\ DriverInv /\ CardInv /\ BufInv /\ CommandInv /\ ClockInv /\ WriteInv /\ AddressInv
  /\ CallInv /\ ReadInv /\ WrittenInv
CallerInv == CallInv /\ ReadInv /\ WrittenInv

(* One round keeps the unused end of the buffer unused. *)
LEMMA XferBuf ==
  ASSUME DriverInv, BufInv, spi_xfer, card' \in CardType,
         xfer.wait \/ (~xfer.got /\ card'.rx = FF)
  PROVE  BufInv'
<1>1. /\ XferOk(xfer) /\ buf \in BufType /\ xfer'.len = xfer.len
      /\ xfer.wait => Moves(xfer, buf, card'.rx, xfer', buf')
      /\ ~xfer.wait /\ ~xfer.got /\ card'.rx = FF => buf' = buf
  BY Round
<1>2. buf' = buf \/ buf' = [buf EXCEPT ![xfer.dst] = card'.rx]
  BY <1>1 DEF Moves
<1>3. card'.rx \in Bytes
  BY DEF CardType
<1>4. /\ xfer.dst \in Nat /\ xfer.len \in Nat /\ xfer.dst < xfer.len /\ xfer.len <= Longest
      /\ Longest \in Nat /\ BUF_SIZE \in Nat /\ \A i \in Longest .. BUF_SIZE - 1 : buf[i] = 0
  BY <1>1, MoreSizes DEF XferOk, XferType, BufInv
<1>5. buf' \in BufType
  BY <1>1, <1>2, <1>3 DEF BufType
<1>6. ASSUME NEW i \in Longest .. BUF_SIZE - 1 PROVE buf'[i] = 0
  <2>1. i # xfer.dst /\ i \in 0 .. BUF_SIZE - 1
    BY <1>4
  <2>2. buf'[i] = buf[i]
    BY <1>1, <1>2, <2>1 DEF BufType
  <2> QED BY <1>4, <2>2
<1> QED BY <1>1, <1>4, <1>5, <1>6 DEF BufInv, BufType

(* The caller waits, and the disk stays as it is. *)
LEMMA CallerWaits ==
  ASSUME CallerInv, UNCHANGED <<mem, regs, rcs, before>>, card'.disk = card.disk, At' = At,
         At \notin {"idle", "sector"}
  PROVE  CallerInv'
<1>1. CallInv'
  BY DEF CallerInv, CallInv
<1>2. ReadInv'
  BY DEF CallerInv, ReadInv
<1>3. WrittenInv'
  BY DEF CallerInv, WrittenInv
<1> QED BY <1>1, <1>2, <1>3 DEF CallerInv

(* A byte of clock before the first command. *)
LEMMA ClockXfer ==
  ASSUME DiskInv, spi_xfer, At \in {"flush", "reset"}
  PROVE  DiskInv'
<1>1. /\ pc = "xfer" /\ XferOk(xfer) /\ buf \in BufType
      /\ card' \in transfer(card, Out(xfer, buf))
      /\ ~xfer.wait /\ ~xfer.got /\ card'.rx = FF =>
              /\ buf' = buf /\ ~xfer'.got /\ xfer'.then = xfer.then /\ xfer'.len = xfer.len
              /\ ~xfer'.wait /\ pc' \in {"xfer", xfer.then}
      /\ At' = At /\ xfer.then = At
      /\ sd_is_sdhc' = sd_is_sdhc /\ UNCHANGED <<mem, regs, rcs, before>>
  BY Round DEF DiskInv
<1>2. Resting(card) /\ CardOk(card) /\ card \in CardType
  BY DEF DiskInv, ClockInv, CardInv, CardOk
<1>3. ~xfer.wait /\ ~xfer.got /\ xfer.len = 8 /\ \A i \in 0 .. 7 : buf[i] = FF
  BY <1>1 DEF DiskInv, ClockInv
<1>4. Out(xfer, buf) = FF
  BY <1>1, <1>3 DEF Out, XferOk, XferType
<1>5. /\ card' \in CardType /\ Kept(card, card') /\ card'.rx = FF /\ card'.state = "IDLE"
      /\ card'.mosi = card.mosi
  BY <1>1, <1>2, <1>4, IdleByte, ByteFacts DEF Resting
<1>6. DriverInv' /\ BufInv'
  BY <1>3, <1>5, XferStep, XferBuf DEF DiskInv
<1>7. CardInv' /\ Resting(card')
  BY <1>2, <1>5 DEF CardInv, CardOk, Kept, Resting
<1>8. pc' \in {"xfer", At} /\ xfer'.then = At
  BY <1>1, <1>3, <1>5
<1>9. CommandInv' /\ WriteInv'
  BY <1>8 DEF CommandInv, WriteInv, CommandPlaces
<1>10. ClockInv'
  BY <1>1, <1>3, <1>5, <1>7 DEF ClockInv
<1>11. AddressInv'
  BY <1>1, <1>5 DEF DiskInv, AddressInv, Kept, Early
<1>12. CallerInv'
  BY <1>1, <1>5, CallerWaits DEF DiskInv, CallerInv, Kept
<1> QED BY <1>6, <1>7, <1>9, <1>10, <1>11, <1>12 DEF DiskInv, CallerInv

(* A byte of a command or of its answer. *)
LEMMA CommandXfer ==
  ASSUME DiskInv, spi_xfer, At \in CommandPlaces
  PROVE  DiskInv'
<1>1. /\ pc = "xfer" /\ XferOk(xfer) /\ buf \in BufType /\ xfer' \in XferType
      /\ card' \in transfer(card, Out(xfer, buf))
      /\ xfer.wait =>
           /\ Moves(xfer, buf, card'.rx, xfer', buf')
           /\ pc' = IF xfer'.dst = xfer.len THEN xfer.then ELSE "xfer"
      /\ At' = At /\ xfer.then = At
      /\ sd_is_sdhc' = sd_is_sdhc /\ UNCHANGED <<mem, regs, rcs, before>>
  BY Round DEF DiskInv
<1> DEFINE addr == IF sd_is_sdhc THEN Target ELSE Target * BLOCK_SIZE
<1>2. /\ xfer.wait /\ xfer.len >= 8 /\ card.selected
      /\ xfer.then \in {"booted", "read"} => xfer.len = Longest
      /\ IF xfer.src < 8 THEN Sending(card, xfer, buf, addr) ELSE Answered(card, xfer, buf, Target)
  BY <1>1 DEF DiskInv, CommandInv
<1>3. CardOk(card) /\ Target \in Nat /\ xfer.src \in Nat /\ xfer'.src \in Nat /\ xfer.len \in Nat
  BY <1>1 DEF DiskInv, CardInv, CallInv, RegsType, Target, XferOk, XferType
<1>4. /\ xfer'.len = xfer.len /\ xfer'.wait /\ xfer'.then = xfer.then /\ Target' = Target
      /\ addr' = addr
  BY <1>1, <1>2 DEF Moves, Target
<1>5. /\ xfer.then \in {"read", "write_block"} =>
           addr = IF card.kind = "sdhc" THEN Target ELSE Target * BLOCK_SIZE
      /\ xfer.then = "blocklen" => card.idle = 0
  BY <1>1 DEF DiskInv, AddressInv, Early
<1> HIDE DEF addr
<1>6. /\ Steady(card, card', xfer.then)
      /\ xfer'.dst # xfer.len =>
           IF xfer'.src < 8 THEN Sending(card', xfer', buf', addr') ELSE Answered(card', xfer', buf', Target')
      /\ xfer'.dst = xfer.len => Done(card') /\ Good(card', xfer.then, buf', xfer.len, Target')
  <2>1. CASE xfer.src < 8
    <3>1. /\ Steady(card, card', xfer.then) /\ xfer'.dst = 0
          /\ IF xfer'.src < 8 THEN Sending(card', xfer', buf', addr)
             ELSE Answered(card', xfer', buf', Target)
      BY <1>1, <1>2, <1>3, <1>5, <2>1, SendStep
    <3> QED BY <1>2, <1>4, <3>1
  <2>2. CASE ~(xfer.src < 8)
    <3>1. /\ Steady(card, card', xfer.then) /\ xfer'.src >= 8
          /\ xfer'.dst # xfer.len => Answered(card', xfer', buf', Target)
          /\ xfer'.dst = xfer.len => Done(card') /\ Good(card', xfer.then, buf', xfer.len, Target)
      BY <1>1, <1>2, <1>3, <2>2, AnswerStep
    <3>2. ~(xfer'.src < 8)
      BY <1>3, <3>1
    <3> QED BY <1>4, <3>1, <3>2
  <2> QED BY <2>1, <2>2
<1>7. /\ CardOk(card') /\ card'.kind = card.kind /\ card'.selected = card.selected
      /\ card'.disk = card.disk
      /\ At \notin {"if_cond", "poll_again"} => card'.idle = card.idle
  BY <1>1, <1>6 DEF Steady
<1>8. DriverInv' /\ BufInv' /\ CardInv'
  BY <1>2, <1>7, XferStep, XferBuf DEF DiskInv, CardInv, CardOk
<1>9. /\ "xfer" \notin CommandPlaces /\ pc' \in {"xfer", At} /\ xfer'.then = At
      /\ pc' = "xfer" <=> xfer'.dst # xfer.len
  BY <1>1, <1>2, <1>4 DEF CommandPlaces
<1>10. CommandInv'
  <2>1. addr' = (IF sd_is_sdhc THEN Target ELSE Target * BLOCK_SIZE)'
    BY DEF addr
  <2> QED BY <1>1, <1>2, <1>4, <1>6, <1>7, <1>9, <2>1 DEF CommandInv
<1>11. ClockInv' /\ WriteInv'
  BY <1>1, <1>9 DEF ClockInv, WriteInv, CommandPlaces
<1>12. AddressInv'
  BY <1>1, <1>7 DEF DiskInv, AddressInv, Early
<1>13. CallerInv'
  BY <1>1, <1>7, CallerWaits DEF DiskInv, CallerInv, CommandPlaces
<1> QED BY <1>8, <1>10, <1>11, <1>12, <1>13 DEF DiskInv, CallerInv

(* A byte of a poll. *)
LEMMA PolledXfer ==
  ASSUME DiskInv, spi_xfer, At = "polled"
  PROVE  DiskInv'
<1>1. /\ pc = "xfer" /\ XferOk(xfer) /\ buf \in BufType /\ xfer' \in XferType
      /\ card' \in transfer(card, Out(xfer, buf))
      /\ xfer.wait =>
           /\ Moves(xfer, buf, card'.rx, xfer', buf')
           /\ pc' = IF xfer'.dst = xfer.len THEN xfer.then ELSE "xfer"
      /\ At' = At /\ xfer.then = At
      /\ sd_is_sdhc' = sd_is_sdhc /\ polls' = polls /\ UNCHANGED <<mem, regs, rcs, before>>
  BY Round DEF DiskInv
<1>2. /\ xfer.wait /\ xfer.len = 1 /\ xfer.dst = 0 /\ (xfer.src = 0 => buf[0] = FF) /\ ~xfer.got
      /\ polls \in 0 .. POLLS - 1 /\ Landed /\ Busy(card, POLLS - polls)
  BY <1>1 DEF DiskInv, WriteInv
<1>3. CardOk(card) /\ POLLS - polls \in Int
  BY <1>2, MoreSizes DEF DiskInv, CardInv
<1>4. /\ CardOk(card') /\ Kept(card, card')
      /\ IF xfer'.dst = xfer.len
         THEN Busy(card', POLLS - polls - 1) /\ (buf'[0] # 0 => Ready(card'))
         ELSE Busy(card', POLLS - polls) /\ xfer'.dst = 0 /\ ~xfer'.got /\ xfer'.src # 0
  BY <1>1, <1>2, <1>3, PollStep
<1>5. DriverInv' /\ BufInv' /\ CardInv'
  BY <1>2, <1>4, XferStep, XferBuf DEF DiskInv, CardInv, CardOk
<1>6. /\ xfer'.len = 1 /\ xfer'.wait /\ xfer'.then = "polled" /\ Landed'
  BY <1>1, <1>2, <1>4 DEF Moves, Landed, Given, Target, Kept
<1>7. pc' = (IF xfer'.dst = xfer.len THEN "polled" ELSE "xfer")
  BY <1>1, <1>2
<1>8. WriteInv'
  BY <1>1, <1>2, <1>4, <1>6, <1>7 DEF WriteInv
<1>9. CommandInv' /\ ClockInv'
  BY <1>1, <1>6, <1>7 DEF CommandInv, ClockInv, CommandPlaces
<1>10. AddressInv'
  BY <1>1, <1>4 DEF DiskInv, AddressInv, Early, Kept
<1>11. CallerInv'
  BY <1>1, <1>4, CallerWaits DEF DiskInv, CallerInv, Kept
<1> QED BY <1>5, <1>8, <1>9, <1>10, <1>11 DEF DiskInv, CallerInv

(* The registers of the call are numbers. *)
LEMMA RegsFacts ==
  ASSUME CallInv
  PROVE  /\ regs.at \in Nat /\ regs.i \in Nat /\ regs.count \in Nat /\ regs.count <= 255
         /\ regs.lba \in Nat /\ regs.lba <= LastLBA /\ regs.al \in Nat
         /\ regs.at + regs.count <= MemBlocks
<1>1. regs \in RegsType /\ regs.lba <= LastLBA /\ regs.at + regs.count <= MemBlocks
  BY DEF CallInv
<1>2. regs.count \in Bytes /\ regs.at \in Nat /\ regs.i \in Nat /\ regs.lba \in Nat /\ regs.al \in Nat
  BY <1>1 DEF RegsType
<1>3. regs.count \in Nat /\ regs.count <= 255
  BY <1>2 DEF Bytes
<1> QED BY <1>1, <1>2, <1>3

(* The block that a call writes. *)
LEMMA GivenFacts ==
  ASSUME CallInv, At \in Serving \ {"sector"}
  PROVE  /\ Given \in Seq(Bytes) /\ Len(Given) = BLOCK_SIZE /\ Target \in Nat
         /\ regs.at + regs.i \in 0 .. MemBlocks - 1
<1>1. /\ regs.at \in Nat /\ regs.i \in Nat /\ regs.count \in Nat /\ regs.lba \in Nat
      /\ regs.i < regs.count /\ regs.at + regs.count <= MemBlocks
  BY RegsFacts DEF CallInv
<1>2. MemBlocks \in Nat
  BY MoreSizes
<1>3. regs.at + regs.i \in 0 .. MemBlocks - 1
  BY <1>1, <1>2
<1> QED BY <1>1, <1>3 DEF CallInv, Given, Target

(* The disk changes only inside the sector that the call is at. *)
LEMMA SectorChanges ==
  ASSUME CallerInv, CardInv, CardInv', UNCHANGED <<mem, regs, rcs, before>>, At' = At,
         At = "written", Inside(card, card'), card.pos = BLOCK_SIZE * Target
  PROVE  CallerInv'
<1>1. CallInv'
  BY DEF CallerInv, CallInv
<1>2. /\ regs.fn = 3 /\ regs.i < regs.count /\ regs.lba \in Nat /\ regs.i \in Nat /\ regs.al \in Nat
      /\ regs.count \in Nat /\ Target \in Nat /\ before \in [DOMAIN DiskImage -> Bytes]
      /\ card \in CardType /\ card' \in CardType
  <2>1. CallInv
    BY DEF CallerInv
  <2>2. regs.fn = 3 /\ regs.i < regs.count /\ before \in [DOMAIN DiskImage -> Bytes]
    BY <2>1 DEF CallInv, Serving
  <2>3. card \in CardType /\ card' \in CardType
    BY DEF CardInv, CardOk
  <2> QED BY <2>1, <2>2, <2>3, RegsFacts DEF Target
<1>3. ReadInv'
  BY <1>2 DEF ReadInv
<1>4. /\ regs.al = regs.i /\ Len(rcs) = regs.i /\ regs.al <= regs.count
      /\ \A k \in 0 .. regs.al - 1 : Sector(card.disk, regs.lba + k) = mem[regs.at + k]
  BY <1>2 DEF CallerInv, WrittenInv, Serving
<1>5. ASSUME NEW k \in 0 .. regs.al - 1
      PROVE  Sector(card'.disk, regs.lba + k) = Sector(card.disk, regs.lba + k)
  <2>1. regs.lba + k \in Nat /\ regs.lba + k # Target
    BY <1>2, <1>4 DEF Target
  <2> QED BY <1>2, <2>1, OtherSector
<1>6. ASSUME NEW pos \in DOMAIN before, card'.disk[pos] # before[pos]
      PROVE  \/ pos \div BLOCK_SIZE - regs.lba \in 0 .. Len(rcs) - 1
             \/ pos \div BLOCK_SIZE - regs.lba = Len(rcs)
  <2>1. CASE card.disk[pos] # before[pos]
    BY <2>1 DEF CallerInv, WrittenInv
  <2>2. CASE card.disk[pos] = before[pos]
    <3>1. pos \in DOMAIN DiskImage
      BY <1>2
    <3>2. pos \in Positions(BLOCK_SIZE * Target)
      BY <1>6, <2>2, <3>1 DEF Inside
    <3>3. pos \div BLOCK_SIZE = Target
      BY <1>2, <3>2, OwnPositions
    <3> QED BY <1>2, <1>4, <3>3 DEF Target
  <2> QED BY <2>1, <2>2
<1>7. WrittenInv'
  <2>1. /\ regs' = regs /\ rcs' = rcs /\ mem' = mem /\ before' = before /\ At' = "written"
    OBVIOUS
  <2>2. ASSUME NEW k \in 0 .. regs.al - 1 PROVE Sector(card'.disk, regs.lba + k) = mem[regs.at + k]
    BY <1>4, <1>5
  <2> QED BY <1>2, <1>4, <1>6, <2>1, <2>2 DEF WrittenInv
<1> QED BY <1>1, <1>3, <1>7 DEF CallerInv

(* A byte of a block, or of the answer to it. *)
LEMMA WrittenXfer ==
  ASSUME PollsSuffice, DiskInv, spi_xfer, At = "written"
  PROVE  DiskInv'
<1>1. /\ pc = "xfer" /\ XferOk(xfer) /\ buf \in BufType /\ xfer' \in XferType
      /\ card' \in transfer(card, Out(xfer, buf))
      /\ xfer.wait =>
           /\ Moves(xfer, buf, card'.rx, xfer', buf')
           /\ pc' = IF xfer'.dst = xfer.len THEN xfer.then ELSE "xfer"
      /\ At' = At /\ xfer.then = At
      /\ sd_is_sdhc' = sd_is_sdhc /\ UNCHANGED <<mem, regs, rcs, before>>
  BY Round DEF DiskInv
<1>2. /\ xfer.wait /\ xfer.len = 5 + BLOCK_SIZE
      /\ IF xfer.src < xfer.len THEN Pouring(card, xfer, buf, Target, Given)
         ELSE xfer.got /\ xfer.dst >= 1
              /\ Outcome(card, buf, Target, Given, POLLS + (xfer.len - xfer.dst))
  BY <1>1 DEF DiskInv, WriteInv
<1>3. CardOk(card) /\ Given \in Seq(Bytes) /\ Len(Given) = BLOCK_SIZE /\ Target \in Nat
  BY GivenFacts DEF DiskInv, CardInv, Serving
<1>4. /\ xfer'.len = xfer.len /\ xfer'.wait /\ xfer'.then = xfer.then /\ Target' = Target
      /\ Given' = Given
  BY <1>1, <1>2 DEF Moves, Target, Given
<1>5. /\ CardOk(card') /\ card'.kind = card.kind /\ card'.idle = card.idle /\ CallerInv'
      /\ IF xfer'.src < xfer.len
         THEN Pouring(card', xfer', buf', Target, Given) /\ xfer'.dst # xfer.len
         ELSE xfer'.got /\ xfer'.dst >= 1
              /\ Outcome(card', buf', Target, Given, POLLS + (xfer.len - xfer'.dst))
  <2>1. CASE xfer.src < xfer.len
    <3>1. /\ CardOk(card') /\ Writes(card, card') /\ xfer'.dst # xfer.len
          /\ IF xfer'.src < xfer.len THEN Pouring(card', xfer', buf', Target, Given)
             ELSE xfer'.got /\ xfer'.dst >= 1
                  /\ Outcome(card', buf', Target, Given, POLLS + (xfer.len - xfer'.dst))
      BY <1>1, <1>2, <1>3, <2>1, PourStep
    <3>2. card.pos = BLOCK_SIZE * Target
      BY <1>2, <2>1 DEF Pouring, Room
    <3>3. CallerInv'
      BY <1>1, <1>3, <3>1, <3>2, SectorChanges DEF DiskInv, CallerInv, CardInv, Writes
    <3> QED BY <3>1, <3>3 DEF Writes
  <2>2. CASE ~(xfer.src < xfer.len)
    <3>1. xfer.src = xfer.len /\ xfer.dst \in Nat /\ xfer.len \in Nat
      BY <1>1, <2>2 DEF XferOk, XferType
    <3>2. /\ CardOk(card') /\ Kept(card, card') /\ xfer'.got /\ xfer'.dst = xfer.dst + 1
          /\ xfer'.src = xfer'.len
          /\ Outcome(card', buf', Target, Given, POLLS + (xfer.len - xfer'.dst))
      <4>1. xfer.got /\ xfer.dst >= 1 /\ Moves(xfer, buf, card'.rx, xfer', buf')
        BY <1>1, <1>2, <2>2
      <4>3. Outcome(card, buf, Target, Given, POLLS + (xfer.len - xfer.dst))
        BY <1>2, <2>2
      <4>2. /\ XferOk(xfer) /\ buf \in BufType /\ xfer' \in XferType /\ CardOk(card)
            /\ card' \in transfer(card, Out(xfer, buf)) /\ ~(xfer.src < xfer.len)
        BY <1>1, <1>3, <2>2
      <4> HIDE <1>1, <1>2, <1>3, <1>4, <2>2
      <4>4. CardOk(card')
        BY <4>1, <4>2, <4>3, PouredStep
      <4>5. Kept(card, card')
        BY <4>1, <4>2, <4>3, PouredStep
      <4>6. xfer'.got /\ xfer'.dst = xfer.dst + 1
        BY <4>1, <4>2 DEF Moves
      <4>7. xfer'.src = xfer'.len
        BY <3>1, <4>1, <4>2 DEF Moves
      <4>8. Outcome(card', buf', Target, Given, POLLS + (xfer.len - xfer'.dst))
        BY <4>1, <4>2, <4>3, PouredStep
      <4> QED BY <4>4, <4>5, <4>6, <4>7, <4>8
    <3>3. CallerInv'
      BY <1>1, <3>2, CallerWaits DEF DiskInv, CallerInv, Kept
    <3>4. xfer'.dst >= 1 /\ ~(xfer'.src < xfer.len)
      BY <1>2, <1>4, <2>2, <3>1, <3>2
    <3> QED BY <3>2, <3>3, <3>4 DEF Kept
  <2> QED BY <2>1, <2>2
<1>6. DriverInv' /\ BufInv' /\ CardInv'
  BY <1>2, <1>5, XferStep, XferBuf DEF DiskInv, CardInv, CardOk
<1>7. pc' = (IF xfer'.dst = xfer.len THEN "written" ELSE "xfer") /\ xfer'.then = "written"
  BY <1>1, <1>2, <1>4
<1>8. WriteInv'
  <2>1. xfer'.dst = xfer.len => POLLS + (xfer.len - xfer'.dst) = POLLS
    BY <1>1, MoreSizes DEF XferOk, XferType
  <2>2. pc' = "written" => Outcome(card', buf', Target', Given', POLLS)
    BY <1>4, <1>5, <1>7, <2>1
  <2>3. pc' = "xfer" =>
          IF xfer'.src < xfer'.len THEN Pouring(card', xfer', buf', Target', Given')
          ELSE xfer'.got /\ xfer'.dst >= 1
               /\ Outcome(card', buf', Target', Given', POLLS + (xfer'.len - xfer'.dst))
    BY <1>4, <1>5
  <2> QED BY <1>2, <1>4, <1>7, <2>2, <2>3 DEF WriteInv
<1>9. CommandInv' /\ ClockInv'
  BY <1>1, <1>7 DEF CommandInv, ClockInv, CommandPlaces
<1>10. AddressInv'
  BY <1>1, <1>5 DEF DiskInv, AddressInv, Early
<1> QED BY <1>5, <1>6, <1>8, <1>9, <1>10 DEF DiskInv, CallerInv

(* Every byte on the bus. *)
LEMMA XferKeepsInv ==
  ASSUME PollsSuffice, DiskInv, spi_xfer
  PROVE  DiskInv'
<1>1. pc = "xfer" /\ At \in Places /\ xfer.then = At
  BY Round DEF DiskInv
<1>2. At # "poll"
  BY <1>1 DEF DiskInv, WriteInv
<1>3. At \in {"flush", "reset", "written", "polled"} \cup CommandPlaces
  BY <1>1, <1>2 DEF Places, Suspended, CommandPlaces
<1> QED BY <1>3, ClockXfer, CommandXfer, PolledXfer, WrittenXfer
-----------------------------------------------------------------------------
(* Steps of the boot. *)

BootPlaces ==
  {"sd_init", "flush", "reset", "if_cond", "ocr", "wait_ready", "op_cond", "poll_again", "blocklen",
   "boot", "booted", "panic"}

(* Nobody has called yet. *)
LEMMA NobodyCalled ==
  ASSUME CallerInv, At \in BootPlaces, UNCHANGED <<mem, regs, rcs, before>>, card'.disk = card.disk,
         At' \in BootPlaces \cup {"idle"}, At' = "idle" => Ready(card')
  PROVE  CallerInv'
<1>1. regs = NoCall /\ At' \notin Serving /\ At' # "sector"
  BY DEF CallerInv, CallInv, BootPlaces, Serving
<1>2. regs.fn = 0
  BY <1>1 DEF NoCall
<1>3. CallInv'
  <2>1. /\ regs \in RegsType /\ regs.lba <= LastLBA /\ regs.at + regs.count <= MemBlocks
        /\ mem \in [0 .. MemBlocks - 1 -> Seq(Bytes)]
        /\ \A a \in 0 .. MemBlocks - 1 : Len(mem[a]) = BLOCK_SIZE
        /\ rcs \in Seq({0, -1}) /\ before \in [DOMAIN DiskImage -> Bytes]
    BY DEF CallerInv, CallInv
  <2>2. At' \in {"idle", "sector"} => Ready(card')
    BY <1>1
  <2>3. /\ At' \notin Serving /\ At' # "read" /\ regs' = NoCall
    BY <1>1 DEF Serving
  <2> QED BY <2>1, <2>2, <2>3 DEF CallInv
<1>4. ReadInv'
  BY <1>2 DEF ReadInv
<1>5. WrittenInv'
  BY <1>2 DEF CallerInv, WrittenInv
<1> QED BY <1>3, <1>4, <1>5 DEF CallerInv

(* A command of the boot. *)
LEMMA BootCommand ==
  ASSUME DiskInv, DriverInv', pc \in BootPlaces, Ready(card), UNCHANGED caller,
         NEW place \in BootPlaces \cap CommandPlaces, NEW arg, NEW rx_datalen,
         CommandStart(place, arg, rx_datalen), spi_do_command(Sent(place), arg, rx_datalen, place),
         place \notin Early => card.idle = 0,
         place \notin Early \cup {"blocklen"} => (sd_is_sdhc' <=> card.kind = "sdhc")
  PROVE  DiskInv'
<1>1. place \notin {"read", "write_block"} /\ "xfer" \notin BootPlaces /\ place \in CommandPlaces
  BY DEF BootPlaces
<1>2. /\ Moved(card, card') /\ BufInv' /\ CommandInv' /\ pc' = "xfer" /\ xfer'.then = place
  BY <1>1, CommandStarts DEF DiskInv
<1>3. /\ card'.kind = card.kind /\ card'.idle = card.idle /\ card'.disk = card.disk /\ CardInv'
  BY <1>2 DEF Moved, CardInv
<1>4. At = pc /\ At' = place
  BY <1>1, <1>2 DEF At
<1>5. ClockInv' /\ WriteInv'
  BY <1>2, <1>4 DEF ClockInv, WriteInv, CommandPlaces
<1>6. AddressInv'
  BY <1>3, <1>4 DEF AddressInv
<1>7. CallerInv'
  BY <1>1, <1>3, <1>4, NobodyCalled DEF DiskInv, CallerInv, caller, CommandPlaces
<1> QED BY <1>2, <1>3, <1>5, <1>6, <1>7 DEF DiskInv, CallerInv

(* The boot ends. *)
LEMMA BootPanics ==
  ASSUME DiskInv, DriverInv', pc \in BootPlaces, UNCHANGED <<xfer, buf, card, caller>>,
         pc' = "panic"
  PROVE  DiskInv'
<1>1. At = pc /\ At' = "panic"
  BY DEF At, BootPlaces
<1>2. CardInv' /\ BufInv'
  BY DEF DiskInv, CardInv, BufInv
<1>3. CommandInv' /\ ClockInv' /\ WriteInv' /\ AddressInv'
  BY <1>1 DEF CommandInv, ClockInv, WriteInv, AddressInv, CommandPlaces, Early
<1>4. CallerInv'
  BY <1>1, NobodyCalled DEF DiskInv, CallerInv, caller, BootPlaces
<1> QED BY <1>2, <1>3, <1>4 DEF DiskInv, CallerInv

(* What a place after a command of the boot knows. *)
LEMMA BootAnswer ==
  ASSUME DiskInv, pc \in BootPlaces \cap CommandPlaces
  PROVE  /\ Ready(card) /\ R1Offs = 0 /\ (Failed <=> buf[0] > 1) /\ buf[0] \in Nat
         /\ HighCapacity = ((buf[1] \div 64) % 2 = 1)
         /\ pc = "poll_again" /\ buf[0] = 0 => card.idle = 0
         /\ pc = "blocklen" /\ ~Failed => (HighCapacity <=> card.kind = "sdhc")
<1>1. Done(card) /\ Good(card, pc, buf, xfer.len, Target) /\ pc # "write_block"
  BY DEF DiskInv, CommandInv, BootPlaces
<1>2. buf[0] # FF /\ ~card.do_write
  BY <1>1 DEF Good
<1>3. /\ R1Offs = 0 /\ (Failed <=> buf[0] > 1) /\ buf[0] \in Nat
      /\ HighCapacity = ((buf[1] \div 64) % 2 = 1)
  BY <1>2, AnswerRead DEF DiskInv
<1>4. Ready(card)
  BY <1>1, <1>2 DEF Done, Ready, Resting
<1>5. pc = "blocklen" /\ ~Failed => (HighCapacity <=> card.kind = "sdhc")
  <2>1. ~Failed => buf[0] <= 1
    BY <1>3
  <2>2. pc = "blocklen" /\ buf[0] <= 1 => ((buf[1] \div 64) % 2 = 1 <=> card.kind = "sdhc")
    BY <1>1, Zenon DEF Good
  <2> QED BY <1>3, <2>1, <2>2
<1>6. pc = "poll_again" /\ buf[0] = 0 => card.idle = 0
  BY <1>1 DEF Good
<1> QED BY <1>3, <1>4, <1>5, <1>6

(* The clock bytes before the first command. *)
LEMMA ClockStarts ==
  ASSUME DiskInv, DriverInv', pc \in {"sd_init", "flush"}, NEW place \in {"flush", "reset"},
         NEW sel \in BOOLEAN, card' = [card EXCEPT !.selected = sel], buf' = Fill(High(8), 8),
         Start(8, FALSE, place), UNCHANGED <<sd_is_sdhc, caller>>
  PROVE  DiskInv'
<1>1. At = pc /\ pc' = "xfer" /\ xfer'.then = place /\ xfer'.len = 8 /\ ~xfer'.wait /\ ~xfer'.got
      /\ At' = place
  BY DEF Start, At
<1>2. CardOk(card) /\ Resting(card)
  BY <1>1 DEF DiskInv, CardInv, ClockInv
<1>3. /\ CardOk(card') /\ card'.kind = card.kind /\ card'.idle = card.idle /\ card'.disk = card.disk
      /\ Resting(card')
  BY <1>2, Selected
<1>4. High(8) \in Seq(Bytes) /\ Len(High(8)) = 8 /\ \A i \in 1 .. 8 : High(8)[i] = FF
  BY ByteFacts DEF High
<1>5. Longest \in Nat /\ 8 <= Longest
  BY MoreSizes
<1>6. /\ buf' \in BufType /\ \A i \in Longest .. BUF_SIZE - 1 : buf'[i] = 0
      /\ \A i \in 1 .. 8 : buf'[i - 1] = High(8)[i]
  BY <1>4, <1>5, FillBytes DEF DiskInv
<1>7. ASSUME NEW i \in 0 .. 7 PROVE buf'[i] = FF
  <2>1. i + 1 \in 1 .. 8 /\ (i + 1) - 1 = i
    OBVIOUS
  <2> QED BY <1>4, <1>6, <2>1
<1>8. BufInv' /\ CardInv'
  BY <1>1, <1>3, <1>5, <1>6 DEF BufInv, BufType, CardInv
<1>9. CommandInv' /\ WriteInv' /\ ClockInv'
  BY <1>1, <1>3, <1>7 DEF CommandInv, WriteInv, ClockInv, CommandPlaces
<1>10. AddressInv'
  BY <1>1 DEF AddressInv, Early
<1>11. CallerInv'
  BY <1>1, <1>3, NobodyCalled DEF DiskInv, CallerInv, caller, BootPlaces
<1> QED BY <1>8, <1>9, <1>10, <1>11 DEF DiskInv, CallerInv

(* Every step of the boot. *)
LEMMA BootKeepsInv ==
  ASSUME DiskInv, Boot
  PROVE  DiskInv'
<1>0. DriverInv'
  BY BootStep DEF DiskInv
<1>s. /\ {1, 5, 4 + BLOCK_SIZE + MAX_DATA_START_OFFS} \subseteq Nat
      /\ 5 <= 4 + BLOCK_SIZE + MAX_DATA_START_OFFS
      /\ 1 + 1 + BLOCK_SIZE + 2 + MAX_DATA_START_OFFS = 4 + BLOCK_SIZE + MAX_DATA_START_OFFS
      /\ NoArg \in Seq(Bytes) /\ Len(NoArg) = 4
      /\ \A y \in {<<0, 0, 1, 170>>, <<64, 0, 0, 0>>, <<0, 0, 2, 0>>} : y \in Seq(Bytes) /\ Len(y) = 4
  <2>1. {0, 1, 2, 64, 170} \subseteq Bytes
    BY DEF Bytes
  <2> QED BY <2>1, MoreSizes DEF NoArg
<1>c. ASSUME NEW place \in CommandPlaces \ {"booted", "read"}, NEW arg \in Seq(Bytes), Len(arg) = 4,
             NEW n \in {1, 5}
      PROVE  CommandStart(place, arg, n)
  BY <1>s, <1>c, MoreSizes DEF CommandStart
<1>1. CASE sd_send_initial_clock
  <2>1. /\ pc = "sd_init" /\ card' = [card EXCEPT !.selected = FALSE] /\ buf' = Fill(High(8), 8)
        /\ Start(8, FALSE, "flush") /\ UNCHANGED <<sd_is_sdhc, caller>>
    BY <1>1 DEF sd_send_initial_clock
  <2> QED BY <1>0, <2>1, ClockStarts, Zenon
<1>2. CASE sd_flush_fifo
  <2>1. /\ pc = "flush" /\ card' = [card EXCEPT !.selected = TRUE] /\ buf' = Fill(High(8), 8)
        /\ Start(8, FALSE, "reset") /\ UNCHANGED <<sd_is_sdhc, caller>>
    BY <1>2 DEF sd_flush_fifo
  <2> QED BY <1>0, <2>1, ClockStarts, Zenon
<1>3. CASE sd_send_reset
  <2>1. pc = "reset" /\ At = pc /\ spi_do_command(GO_IDLE, NoArg, 1, "if_cond")
        /\ UNCHANGED <<sd_is_sdhc, caller>>
    BY <1>3 DEF sd_send_reset, At
  <2>2. Ready(card)
    BY <2>1 DEF DiskInv, ClockInv, Ready
  <2>3. Sent("if_cond") = GO_IDLE /\ "if_cond" \in BootPlaces \cap CommandPlaces
        /\ pc \in BootPlaces /\ "if_cond" \in Early
    BY <2>1 DEF Sent, BootPlaces, CommandPlaces, Early
  <2>4. CommandStart("if_cond", NoArg, 1)
    BY <1>s, <1>c, <2>3
  <2> QED BY <1>0, <2>1, <2>2, <2>3, <2>4, BootCommand
<1>4. CASE sd_send_if_cond
  <2>1. pc = "if_cond" /\ UNCHANGED <<sd_is_sdhc, caller>>
        /\ IF Failed THEN panic ELSE spi_do_command(IF_COND, <<0, 0, 1, 170>>, 1, "ocr")
    BY <1>4 DEF sd_send_if_cond, OrPanic
  <2>2. /\ Sent("ocr") = IF_COND /\ "ocr" \in BootPlaces \cap CommandPlaces
        /\ pc \in BootPlaces \cap CommandPlaces /\ "ocr" \in Early
    BY <2>1 DEF Sent, BootPlaces, CommandPlaces, Early
  <2>3. CommandStart("ocr", <<0, 0, 1, 170>>, 1)
    BY <1>s, <1>c, <2>2
  <2>4. Ready(card)
    BY <2>2, BootAnswer
  <2> QED BY <1>0, <2>1, <2>2, <2>3, <2>4, BootCommand, BootPanics DEF panic
<1>5. CASE sd_send_read_ocr
  <2>1. pc = "ocr" /\ UNCHANGED <<sd_is_sdhc, caller>>
        /\ IF Failed THEN panic ELSE spi_do_command(READ_OCR, NoArg, 5, "wait_ready")
    BY <1>5 DEF sd_send_read_ocr, OrPanic
  <2>2. /\ Sent("wait_ready") = READ_OCR /\ "wait_ready" \in BootPlaces \cap CommandPlaces
        /\ pc \in BootPlaces \cap CommandPlaces /\ "wait_ready" \in Early
    BY <2>1 DEF Sent, BootPlaces, CommandPlaces, Early
  <2>3. CommandStart("wait_ready", NoArg, 5)
    BY <1>s, <1>c, <2>2
  <2>4. Ready(card)
    BY <2>2, BootAnswer
  <2> QED BY <1>0, <2>1, <2>2, <2>3, <2>4, BootCommand, BootPanics DEF panic
<1>6. CASE send_acmd
  <2>1. /\ pc \in {"wait_ready", "poll_again"} /\ UNCHANGED caller
        /\ IF Failed THEN panic
           ELSE IF pc = "poll_again" /\ buf[R1Offs] = 0
                THEN spi_do_command(READ_OCR, NoArg, 5, "blocklen")
                ELSE spi_do_command(APP_CMD, NoArg, 1, "op_cond")
    BY <1>6 DEF send_acmd, OrPanic
  <2>2. /\ Sent("blocklen") = READ_OCR /\ "blocklen" \in BootPlaces \cap CommandPlaces
        /\ Sent("op_cond") = APP_CMD /\ "op_cond" \in BootPlaces \cap CommandPlaces
        /\ pc \in BootPlaces \cap CommandPlaces /\ "op_cond" \in Early
    BY <2>1 DEF Sent, BootPlaces, CommandPlaces, Early
  <2>3. CommandStart("blocklen", NoArg, 5) /\ CommandStart("op_cond", NoArg, 1)
    BY <1>s, <1>c, <2>2
  <2>4. Ready(card) /\ R1Offs = 0 /\ (pc = "poll_again" /\ buf[0] = 0 => card.idle = 0)
    BY <2>2, BootAnswer
  <2>5. CASE Failed
    BY <1>0, <2>1, <2>2, <2>5, BootPanics DEF panic
  <2>6. CASE ~Failed /\ pc = "poll_again" /\ buf[R1Offs] = 0
    BY <1>0, <2>1, <2>2, <2>3, <2>4, <2>6, BootCommand
  <2>7. CASE ~Failed /\ ~(pc = "poll_again" /\ buf[R1Offs] = 0)
    BY <1>0, <2>1, <2>2, <2>3, <2>4, <2>7, BootCommand
  <2> QED BY <2>5, <2>6, <2>7
<1>7. CASE sd_wait_ready
  <2>1. pc = "op_cond" /\ UNCHANGED <<sd_is_sdhc, caller>>
        /\ IF Failed THEN panic ELSE spi_do_command(OP_COND, <<64, 0, 0, 0>>, 1, "poll_again")
    BY <1>7 DEF sd_wait_ready, OrPanic
  <2>2. /\ Sent("poll_again") = OP_COND /\ "poll_again" \in BootPlaces \cap CommandPlaces
        /\ pc \in BootPlaces \cap CommandPlaces /\ "poll_again" \in Early
    BY <2>1 DEF Sent, BootPlaces, CommandPlaces, Early
  <2>3. CommandStart("poll_again", <<64, 0, 0, 0>>, 1)
    BY <1>s, <1>c, <2>2
  <2>4. Ready(card)
    BY <2>2, BootAnswer
  <2> QED BY <1>0, <2>1, <2>2, <2>3, <2>4, BootCommand, BootPanics DEF panic
<1>8. CASE sd_set_blocklen
  <2>1. pc = "blocklen" /\ sd_is_sdhc' = HighCapacity /\ UNCHANGED caller
        /\ IF Failed THEN panic ELSE spi_do_command(SET_BLOCKLEN, <<0, 0, 2, 0>>, 1, "boot")
    BY <1>8 DEF sd_set_blocklen, OrPanic
  <2>2. /\ Sent("boot") = SET_BLOCKLEN /\ "boot" \in BootPlaces \cap CommandPlaces
        /\ pc \in BootPlaces \cap CommandPlaces /\ At = pc
    BY <2>1 DEF Sent, BootPlaces, CommandPlaces, At
  <2>3. CommandStart("boot", <<0, 0, 2, 0>>, 1)
    BY <1>s, <1>c, <2>2
  <2>4. Ready(card) /\ (~Failed => (HighCapacity <=> card.kind = "sdhc")) /\ card.idle = 0
    BY <2>1, <2>2, BootAnswer DEF DiskInv, AddressInv, Early
  <2>5. CASE Failed
    BY <1>0, <2>1, <2>2, <2>5, BootPanics DEF panic
  <2>6. CASE ~Failed
    BY <1>0, <2>1, <2>2, <2>3, <2>4, <2>6, BootCommand
  <2> QED BY <2>5, <2>6
<1>9. CASE sd_boot
  <2>1. pc = "boot" /\ UNCHANGED <<sd_is_sdhc, caller>>
        /\ IF Failed THEN panic
           ELSE spi_do_command(READ_BLOCK, AddressArg(0), 4 + BLOCK_SIZE + MAX_DATA_START_OFFS, "booted")
    BY <1>9, <1>s DEF sd_boot, read_sector
  <2>2. /\ Sent("booted") = READ_BLOCK /\ "booted" \in BootPlaces \cap CommandPlaces
        /\ pc \in BootPlaces \cap CommandPlaces /\ At = pc
    BY <2>1 DEF Sent, BootPlaces, CommandPlaces, At
  <2>3. CommandStart("booted", AddressArg(0), 4 + BLOCK_SIZE + MAX_DATA_START_OFFS)
    <3>1. 0 * BLOCK_SIZE = 0 /\ 0 \in Nat
      BY MoreSizes
    <3>2. AddressArg(0) = ArgOf(0)
      BY <3>1 DEF AddressArg
    <3>3. ArgOf(0) \in Seq(Bytes) /\ Len(ArgOf(0)) = 4
      BY <3>1, ArgFacts
    <3> QED BY <1>s, <3>2, <3>3, MoreSizes DEF CommandStart
  <2>4. Ready(card) /\ card.idle = 0 /\ (sd_is_sdhc <=> card.kind = "sdhc")
    BY <2>1, <2>2, BootAnswer DEF DiskInv, AddressInv, Early
  <2>5. CASE Failed
    BY <1>0, <2>1, <2>2, <2>5, BootPanics DEF panic
  <2>6. CASE ~Failed
    BY <1>0, <2>1, <2>2, <2>3, <2>4, <2>6, BootCommand
  <2> QED BY <2>5, <2>6
<1>10. CASE Booted
  <2>1. pc = "booted" /\ pc' \in {"idle", "panic"} /\ UNCHANGED <<xfer, buf, sd_is_sdhc, card, caller>>
    BY <1>10 DEF Booted, driver
  <2>2. pc \in BootPlaces \cap CommandPlaces /\ At = pc /\ At' = pc'
    BY <2>1 DEF BootPlaces, CommandPlaces, At
  <2>3. CASE pc' = "panic"
    BY <1>0, <2>1, <2>2, <2>3, BootPanics
  <2>4. CASE pc' = "idle"
    <3>1. Ready(card)
      BY <2>2, BootAnswer
    <3>2. CardInv' /\ BufInv'
      BY <2>1 DEF DiskInv, CardInv, BufInv
    <3>3. CommandInv' /\ ClockInv' /\ WriteInv'
      BY <2>2, <2>4 DEF CommandInv, ClockInv, WriteInv, CommandPlaces
    <3>4. AddressInv'
      BY <2>1, <2>2, <2>4 DEF DiskInv, AddressInv, Early
    <3>5. CallerInv'
      BY <2>1, <2>2, <2>4, <3>1, NobodyCalled DEF DiskInv, CallerInv, caller, BootPlaces
    <3> QED BY <1>0, <3>2, <3>3, <3>4, <3>5 DEF DiskInv, CallerInv
  <2> QED BY <2>1, <2>3, <2>4
<1> QED BY <1>1, <1>2, <1>3, <1>4, <1>5, <1>6, <1>7, <1>8, <1>9, <1>10 DEF Boot
-----------------------------------------------------------------------------
(* Steps of INT 13h. *)

(* The call goes on with the sector that it is at. *)
LEMMA CallerGoesOn ==
  ASSUME CallerInv, UNCHANGED <<mem, regs, rcs, before>>, card'.disk = card.disk,
         At \in Serving, regs.i < regs.count, At' \in Serving \ {"sector"},
         At' = "read" <=> regs.fn = 2,
         At \in {"written", "poll", "polled"} => At' \in {"written", "poll", "polled"}
  PROVE  CallerInv'
<1>1. CallInv'
  <2>1. /\ regs \in RegsType /\ regs.lba <= LastLBA /\ regs.at + regs.count <= MemBlocks
        /\ mem \in [0 .. MemBlocks - 1 -> Seq(Bytes)]
        /\ \A a \in 0 .. MemBlocks - 1 : Len(mem[a]) = BLOCK_SIZE
        /\ rcs \in Seq({0, -1}) /\ before \in [DOMAIN DiskImage -> Bytes]
        /\ regs.fn \in {2, 3} /\ regs.i <= regs.count
    BY DEF CallerInv, CallInv
  <2>2. At' \notin {"idle", "sector"}
    BY DEF Serving
  <2> QED BY <2>1, <2>2 DEF CallInv
<1>2. ReadInv'
  BY DEF CallerInv, ReadInv
<1>3. WrittenInv'
  <2>1. /\ At' # "idle" /\ At' # "sector"
    BY DEF Serving
  <2>2. regs.fn = 3 /\ regs.count > 0 =>
          /\ regs.al <= regs.count /\ regs.al = regs.i /\ Len(rcs) = regs.i
          /\ \A k \in 0 .. regs.al - 1 : Sector(card.disk, regs.lba + k) = mem[regs.at + k]
    BY DEF CallerInv, WrittenInv
  <2>3. ASSUME NEW pos \in DOMAIN before, card.disk[pos] # before[pos]
        PROVE  /\ regs.fn = 3
               /\ \/ pos \div BLOCK_SIZE - regs.lba \in 0 .. Len(rcs) - 1
                  \/ At' \in {"written", "poll", "polled"} /\ pos \div BLOCK_SIZE - regs.lba = Len(rcs)
    BY <2>3 DEF CallerInv, WrittenInv
  <2> QED BY <2>1, <2>2, <2>3 DEF WrittenInv
<1> QED BY <1>1, <1>2, <1>3 DEF CallerInv

(* The address of the sector that the call is at. *)
LEMMA TargetAddress ==
  ASSUME CallInv, AddressInv, At = "sector", regs.i < regs.count,
         NEW arg, arg = AddressArg(regs.lba + regs.i), UNCHANGED <<sd_is_sdhc, regs>>
  PROVE  /\ arg \in Seq(Bytes) /\ Len(arg) = 4
         /\ \A f : (\A i \in 1 .. 4 : f[1 + i] = arg[i]) =>
                    Address(f) = (IF sd_is_sdhc THEN Target ELSE Target * BLOCK_SIZE)'
<1> DEFINE sdhc == card.kind = "sdhc"
           a == IF sdhc THEN regs.lba + regs.i ELSE (regs.lba + regs.i) * BLOCK_SIZE
<1>1. sd_is_sdhc <=> sdhc
  BY DEF AddressInv, Early
<1>2. regs.lba \in Nat /\ regs.i \in Nat /\ regs.lba <= LastLBA /\ regs.i <= 255
  <2>1. regs.count \in Nat /\ regs.i \in Nat /\ regs.count <= 255
    BY RegsFacts
  <2>2. regs.i <= 255
    BY <2>1
  <2> QED BY <2>2, RegsFacts
<1>3. sdhc \in BOOLEAN
  OBVIOUS
<1>4. a \in ArgRange
  <2> HIDE DEF sdhc
  <2> QED BY <1>2, <1>3, AddressFits
<1>5. arg = ArgOf(a)
  BY <1>1 DEF AddressArg
<1>6. (IF sd_is_sdhc THEN Target ELSE Target * BLOCK_SIZE)' = a
  BY <1>1 DEF Target
<1> HIDE DEF a
<1>7. ASSUME NEW f, \A i \in 1 .. 4 : f[1 + i] = arg[i] PROVE Address(f) = a
  BY <1>4, <1>5, <1>7, Addressed
<1>8. ArgOf(a) \in Seq(Bytes) /\ Len(ArgOf(a)) = 4
  <2>1. a \in Nat
    BY <1>4, SMT DEF ArgRange
  <2> QED BY <2>1, ArgFacts
<1> QED BY <1>5, <1>6, <1>7, <1>8

(* The request for the next sector. *)
LEMMA SectorRequested ==
  ASSUME DiskInv, DriverInv', pc = "sector", regs.i < regs.count, UNCHANGED <<sd_is_sdhc, caller>>,
         NEW place \in {"read", "write_block"}, place = "read" <=> regs.fn = 2,
         NEW rx_datalen \in Nat, rx_datalen >= 1,
         rx_datalen <= 4 + BLOCK_SIZE + MAX_DATA_START_OFFS,
         place = "read" => rx_datalen = 4 + BLOCK_SIZE + MAX_DATA_START_OFFS,
         spi_do_command(Sent(place), AddressArg(regs.lba + regs.i), rx_datalen, place)
  PROVE  DiskInv'
<1> DEFINE arg == AddressArg(regs.lba + regs.i)
<1>1. At = "sector" /\ UNCHANGED <<mem, regs, rcs, before>> /\ place \in CommandPlaces
  BY DEF At, caller, CommandPlaces
<1>2. /\ arg \in Seq(Bytes) /\ Len(arg) = 4
      /\ \A f : (\A i \in 1 .. 4 : f[1 + i] = arg[i]) =>
                 Address(f) = (IF sd_is_sdhc THEN Target ELSE Target * BLOCK_SIZE)'
  BY <1>1, TargetAddress DEF DiskInv
<1> HIDE DEF arg
<1>3. CommandStart(place, arg, rx_datalen)
  BY <1>2 DEF CommandStart
<1>4. spi_do_command(Sent(place), arg, rx_datalen, place)
  BY DEF arg
<1>5. Ready(card)
  BY <1>1 DEF DiskInv, CallInv
<1>6. /\ Moved(card, card') /\ BufInv' /\ CommandInv' /\ pc' = "xfer" /\ xfer'.then = place
  BY <1>1, <1>2, <1>3, <1>4, <1>5, CommandStarts DEF DiskInv
<1>7. /\ card'.kind = card.kind /\ card'.idle = card.idle /\ card'.disk = card.disk /\ CardInv'
  BY <1>6 DEF Moved, CardInv
<1>8. At' = place
  BY <1>6 DEF At
<1>9. ClockInv' /\ WriteInv'
  BY <1>6, <1>8 DEF ClockInv, WriteInv
<1>10. AddressInv'
  BY <1>1, <1>7, <1>8 DEF DiskInv, AddressInv, Early
<1>11. CallerInv'
  BY <1>1, <1>7, <1>8, CallerGoesOn DEF DiskInv, CallerInv, Serving
<1> QED BY <1>6, <1>7, <1>9, <1>10, <1>11 DEF DiskInv, CallerInv

(* Steps that send nothing. *)
LEMMA Rests ==
  ASSUME DiskInv, UNCHANGED <<xfer, buf, sd_is_sdhc, card>>, pc # "xfer",
         pc' \in {"sector", "idle", "poll"}, pc \in Serving \cup {"idle"}
  PROVE  CardInv' /\ BufInv' /\ CommandInv' /\ ClockInv' /\ AddressInv' /\ At = pc /\ At' = pc'
<1>1. At = pc /\ At' = pc' /\ pc' # "xfer"
  BY DEF At
<1>2. CardInv' /\ BufInv'
  BY DEF DiskInv, CardInv, BufInv
<1>3. CommandInv' /\ ClockInv'
  BY <1>1 DEF CommandInv, ClockInv, CommandPlaces
<1>4. AddressInv'
  BY <1>1 DEF DiskInv, AddressInv, Early, Serving
<1> QED BY <1>1, <1>2, <1>3, <1>4

(* What set_disk_status leaves as it was. *)
LEMMA Reported ==
  ASSUME NEW r \in RegsType, NEW err \in Nat, NEW t, t = set_disk_status(r, err)
  PROVE  /\ t \in RegsType /\ t.fn = r.fn /\ t.lba = r.lba /\ t.count = r.count /\ t.i = r.i
         /\ t.at = r.at /\ t.al = r.al /\ (t.cf <=> err # 0)
<1> DEFINE cf == err # 0
<1>1. cf \in BOOLEAN /\ t = [r EXCEPT !.cf = cf, !.status = err, !.ah = err]
  BY DEF set_disk_status
<1>2. cf <=> err # 0
  OBVIOUS
<1> HIDE DEF cf
<1>3. t \in RegsType
  BY <1>1 DEF RegsType
<1>4. /\ t.fn = r.fn /\ t.lba = r.lba /\ t.count = r.count /\ t.i = r.i
      /\ t.at = r.at /\ t.al = r.al /\ t.cf = cf
  BY <1>1 DEF RegsType
<1> QED BY <1>2, <1>3, <1>4

Onward(r, i, al) == [r EXCEPT !.i = i, !.al = al]

Advances(r, t, i, al) ==
  /\ t \in RegsType /\ t.fn = r.fn /\ t.lba = r.lba /\ t.count = r.count /\ t.i = i
  /\ t.at = r.at /\ t.al = al

(* The loop goes on to the next sector. *)
LEMMA Advanced ==
  ASSUME NEW r \in RegsType, NEW i \in Nat, NEW al \in Nat
  PROVE  Advances(r, Onward(r, i, al), i, al)
BY DEF RegsType, Onward, Advances

(* The call returns. *)
LEMMA LastKeeps ==
  ASSUME DiskInv, DriverInv', LastSector
  PROVE  DiskInv'
<1>1. /\ pc = "sector" /\ pc' = "idle" /\ regs.i = regs.count
      /\ regs' = set_disk_status(regs, IF regs.al # regs.count THEN 255 ELSE 0)
      /\ UNCHANGED <<xfer, buf, sd_is_sdhc, card, mem, rcs, before>>
  BY DEF LastSector, driver
<1>2. CardInv' /\ BufInv' /\ CommandInv' /\ ClockInv' /\ AddressInv' /\ At = "sector" /\ At' = "idle"
  BY <1>1, Rests DEF Serving
<1>3. WriteInv'
  BY <1>1 DEF WriteInv
<1>4. regs \in RegsType /\ Ready(card)
  BY <1>2 DEF DiskInv, CallInv
<1>5. /\ regs' \in RegsType /\ regs'.fn = regs.fn /\ regs'.lba = regs.lba /\ regs'.count = regs.count
      /\ regs'.i = regs.i /\ regs'.at = regs.at /\ regs'.al = regs.al
      /\ ~regs'.cf => regs.al = regs.count
  <2> DEFINE err == IF regs.al # regs.count THEN 255 ELSE 0
  <2>1. err \in Nat /\ (err = 0 => regs.al = regs.count)
    OBVIOUS
  <2> HIDE DEF err
  <2>2. regs' = set_disk_status(regs, err)
    BY <1>1 DEF err
  <2> QED BY <1>4, <2>1, <2>2, Reported
<1>6. CallInv'
  BY <1>1, <1>2, <1>4, <1>5 DEF DiskInv, CallInv, Serving
<1>7. ReadInv'
  BY <1>1, <1>2, <1>5 DEF DiskInv, ReadInv, Serving
<1>8. WrittenInv'
  BY <1>1, <1>2, <1>5 DEF DiskInv, WrittenInv, Serving
<1> QED BY <1>2, <1>3, <1>6, <1>7, <1>8 DEF DiskInv

(* One result more. *)
LEMMA Appended ==
  ASSUME NEW s \in Seq({0, -1}), NEW e \in {0, -1}
  PROVE  /\ Append(s, e) \in Seq({0, -1}) /\ Len(Append(s, e)) = Len(s) + 1 /\ Len(s) \in Nat
         /\ \A i \in 1 .. Len(s) : Append(s, e)[i] = s[i]
         /\ Append(s, e)[Len(s) + 1] = e
OBVIOUS

(* A sector of the card. *)
LEMMA SectorBytes ==
  ASSUME CardInv, NEW s
  PROVE  /\ Sector(card.disk, s) \in Seq(Bytes) /\ Len(Sector(card.disk, s)) = BLOCK_SIZE
         /\ DOMAIN Sector(card.disk, s) = 1 .. BLOCK_SIZE
         /\ Sector(card.disk, s) = [i \in 1 .. BLOCK_SIZE |-> Sector(card.disk, s)[i]]
<1>1. card.disk \in [DOMAIN DiskImage -> Bytes]
  BY DEF CardInv, CardOk, CardType
<1>2. Sector(card.disk, s) \in Seq(Bytes) /\ Len(Sector(card.disk, s)) = BLOCK_SIZE
  BY <1>1, BlockFacts DEF Sector
<1> QED BY <1>2 DEF Sector, Block

(* read_sector returns: a copied sector is the one on the card. *)
LEMMA ReadKeeps ==
  ASSUME DiskInv, DriverInv', SectorRead
  PROVE  DiskInv'
<1>1. /\ pc = "read" /\ pc' = "sector" /\ UNCHANGED <<xfer, buf, sd_is_sdhc, card, before>>
      /\ rcs' = Append(rcs, IF ReadOk THEN 0 ELSE -1)
      /\ mem' = (IF ReadOk THEN [mem EXCEPT ![regs.at + regs.i] = Copied] ELSE mem)
      /\ regs' = [regs EXCEPT !.i = regs.i + 1, !.al = regs.al + 1]
  BY DEF SectorRead, driver
<1>2. CardInv' /\ BufInv' /\ CommandInv' /\ ClockInv' /\ AddressInv' /\ At = "read" /\ At' = "sector"
  BY <1>1, Rests DEF Serving
<1>3. WriteInv'
  BY <1>1 DEF WriteInv
<1>4. /\ Done(card) /\ Good(card, "read", buf, xfer.len, Target) /\ xfer.len = Longest
  BY <1>1 DEF DiskInv, CommandInv, CommandPlaces
<1>5. buf[0] # FF /\ ~card.do_write
  BY <1>4 DEF Good
<1>6. Ready(card)
  BY <1>4, <1>5 DEF Done, Ready, Resting
<1> DEFINE sec == Sector(card.disk, Target)
<1>7. /\ sec \in Seq(Bytes) /\ Len(sec) = BLOCK_SIZE /\ DOMAIN sec = 1 .. BLOCK_SIZE
      /\ sec = [i \in 1 .. BLOCK_SIZE |-> sec[i]]
  BY SectorBytes DEF DiskInv
<1> HIDE DEF sec
<1>8. ReadOk => Copied = sec
  <2> SUFFICES ASSUME ReadOk PROVE Copied = sec
    OBVIOUS
  <2>1. (Failed <=> buf[0] > 1) /\ buf[0] \in Nat /\ ~Failed
    BY <1>5, AnswerRead DEF DiskInv, ReadOk
  <2>2. buf[0] <= 1
    BY <2>1
  <2>3. GoodRead(buf, Longest, sec)
    BY <1>4, <2>2 DEF Good, sec
  <2> QED BY <1>5, <1>7, <2>3, SectorCopied DEF DiskInv
<1>9. /\ regs \in RegsType /\ regs.fn = 2 /\ regs.i < regs.count /\ Len(rcs) = regs.i
      /\ regs.at + regs.i \in 0 .. MemBlocks - 1 /\ rcs \in Seq({0, -1})
      /\ mem \in [0 .. MemBlocks - 1 -> Seq(Bytes)]
      /\ \A a \in 0 .. MemBlocks - 1 : Len(mem[a]) = BLOCK_SIZE
      /\ before \in [DOMAIN DiskImage -> Bytes]
  BY <1>2, GivenFacts DEF DiskInv, CallInv, ReadInv, Serving
<1>10. /\ regs.at \in Nat /\ regs.i \in Nat /\ regs.count \in Nat /\ regs.lba \in Nat /\ regs.al \in Nat
       /\ regs.lba <= LastLBA /\ regs.at + regs.count <= MemBlocks
  BY RegsFacts DEF DiskInv
<1>11. /\ regs' \in RegsType /\ regs'.fn = 2 /\ regs'.i = regs.i + 1 /\ regs'.lba = regs.lba
       /\ regs'.count = regs.count /\ regs'.at = regs.at
  <2> DEFINE i == regs.i + 1
             al == regs.al + 1
  <2>1. i \in Nat /\ al \in Nat /\ regs' = Onward(regs, i, al)
    BY <1>1, <1>10 DEF Onward
  <2>2. i = regs.i + 1 /\ al = regs.al + 1
    OBVIOUS
  <2> HIDE DEF i, al
  <2>3. Advances(regs, Onward(regs, i, al), i, al)
    BY <1>9, <2>1, Advanced
  <2>4. Advances(regs, regs', i, al)
    BY <2>1, <2>3
  <2> QED BY <1>9, <2>2, <2>4 DEF Advances
<1> DEFINE rc == IF ReadOk THEN 0 ELSE -1
<1>12. /\ rcs' \in Seq({0, -1}) /\ Len(rcs') = regs.i + 1
       /\ \A i \in 1 .. regs.i : rcs'[i] = rcs[i]
       /\ rcs'[regs.i + 1] = rc
  <2>1. rc \in {0, -1}
    OBVIOUS
  <2> HIDE DEF rc
  <2>2. rcs' = Append(rcs, rc)
    BY <1>1 DEF rc
  <2> QED BY <1>9, <2>1, <2>2, Appended
<1>13. /\ \A a \in 0 .. MemBlocks - 1 : a # regs.at + regs.i => mem'[a] = mem[a]
       /\ ReadOk => mem'[regs.at + regs.i] = sec
       /\ mem' \in [0 .. MemBlocks - 1 -> Seq(Bytes)]
       /\ \A a \in 0 .. MemBlocks - 1 : Len(mem'[a]) = BLOCK_SIZE
  BY <1>1, <1>7, <1>8, <1>9
<1>14. CallInv'
  <2>1. regs'.i <= regs'.count
    BY <1>9, <1>10, <1>11
  <2> QED BY <1>1, <1>2, <1>6, <1>9, <1>10, <1>11, <1>12, <1>13, <2>1 DEF CallInv, Serving
<1>15. ReadInv'
  <2>1. ASSUME NEW k \in 1 .. regs.i + 1, rcs'[k] = 0
        PROVE  mem'[regs.at + k - 1] = Sector(card.disk, regs.lba + k - 1)
    <3>1. CASE k = regs.i + 1
      <4>1. ReadOk
        BY <1>12, <2>1, <3>1
      <4>2. regs.at + k - 1 = regs.at + regs.i /\ regs.lba + k - 1 = Target
        BY <1>10, <3>1 DEF Target
      <4> QED BY <1>13, <4>1, <4>2 DEF sec
    <3>2. CASE k # regs.i + 1
      <4>1. /\ k \in 1 .. regs.i /\ regs.at + k - 1 \in 0 .. MemBlocks - 1
            /\ regs.at + k - 1 # regs.at + regs.i
        <5>1. ASSUME NEW at \in Nat, NEW i \in Nat, NEW m \in Nat, at + i \in 0 .. m - 1,
                     k \in 1 .. i + 1, k # i + 1
              PROVE  k \in 1 .. i /\ at + k - 1 \in 0 .. m - 1 /\ at + k - 1 # at + i
          BY <5>1
        <5> QED BY <1>9, <1>10, <3>2, <5>1, MoreSizes
      <4>2. rcs[k] = 0 /\ mem'[regs.at + k - 1] = mem[regs.at + k - 1]
        BY <1>12, <1>13, <2>1, <4>1
      <4> QED BY <1>9, <4>1, <4>2 DEF DiskInv, ReadInv
    <3> QED BY <3>1, <3>2
  <2>2. Len(rcs') <= regs.count
    BY <1>9, <1>10, <1>12
  <2> QED BY <1>1, <1>11, <1>12, <2>1, <2>2 DEF ReadInv
<1>16. WrittenInv'
  <2>1. ASSUME NEW pos \in DOMAIN before PROVE card.disk[pos] = before[pos]
    BY <1>9 DEF DiskInv, WrittenInv
  <2> QED BY <1>1, <1>11, <2>1 DEF WrittenInv
<1> QED BY <1>2, <1>3, <1>14, <1>15, <1>16 DEF DiskInv

(* write_sector fails: the loop of disk_write breaks. *)
LEMMA WriteFails ==
  ASSUME DiskInv, DriverInv', SectorWritten(-1), UNCHANGED <<xfer, buf, sd_is_sdhc, card>>,
         pc \in {"write_block", "written", "poll"}, Ready(card)
  PROVE  DiskInv'
<1>1. /\ rcs' = Append(rcs, -1) /\ regs' = [regs EXCEPT !.i = regs.count] /\ pc' = "sector"
      /\ UNCHANGED <<mem, before>>
  BY DEF SectorWritten
<1>2. CardInv' /\ BufInv' /\ CommandInv' /\ ClockInv' /\ AddressInv' /\ At = pc /\ At' = "sector"
  BY <1>1, Rests DEF Serving
<1>3. WriteInv'
  BY <1>1 DEF WriteInv
<1>4. /\ regs \in RegsType /\ regs.fn = 3 /\ regs.i < regs.count /\ rcs \in Seq({0, -1})
      /\ mem \in [0 .. MemBlocks - 1 -> Seq(Bytes)]
      /\ \A a \in 0 .. MemBlocks - 1 : Len(mem[a]) = BLOCK_SIZE
      /\ before \in [DOMAIN DiskImage -> Bytes]
  BY <1>2 DEF DiskInv, CallInv, Serving
<1>5. /\ regs.at \in Nat /\ regs.i \in Nat /\ regs.count \in Nat /\ regs.lba \in Nat /\ regs.al \in Nat
      /\ regs.lba <= LastLBA /\ regs.at + regs.count <= MemBlocks
  BY RegsFacts DEF DiskInv
<1>6. /\ regs' \in RegsType /\ regs'.fn = 3 /\ regs'.i = regs.count /\ regs'.lba = regs.lba
      /\ regs'.count = regs.count /\ regs'.at = regs.at /\ regs'.al = regs.al
  BY <1>1, <1>4, <1>5 DEF RegsType
<1>7. rcs' \in Seq({0, -1}) /\ Len(rcs') = Len(rcs) + 1 /\ Len(rcs) \in Nat
  <2>1. -1 \in {0, -1}
    OBVIOUS
  <2> QED BY <1>1, <1>4, <2>1, Appended
<1>8. /\ regs.al <= regs.count /\ regs.al = regs.i /\ Len(rcs) = regs.i
      /\ \A k \in 0 .. regs.al - 1 : Sector(card.disk, regs.lba + k) = mem[regs.at + k]
  BY <1>2, <1>4, <1>5 DEF DiskInv, WrittenInv, Serving
<1>9. CallInv'
  <2>1. regs'.i <= regs'.count
    BY <1>5, <1>6
  <2> QED BY <1>1, <1>2, <1>4, <1>5, <1>6, <1>7, <2>1 DEF CallInv, Serving
<1>10. ReadInv'
  BY <1>6 DEF ReadInv
<1>11. WrittenInv'
  <2>1. ASSUME NEW pos \in DOMAIN before, card.disk[pos] # before[pos]
        PROVE  pos \div BLOCK_SIZE - regs.lba \in 0 .. Len(rcs') - 1
    <3> DEFINE q == pos \div BLOCK_SIZE - regs.lba
    <3>1. q \in 0 .. Len(rcs) - 1 \/ q = Len(rcs)
      BY <2>1 DEF DiskInv, WrittenInv
    <3> HIDE DEF q
    <3>2. q \in 0 .. Len(rcs') - 1
      BY <1>7, <3>1
    <3> QED BY <3>2 DEF q
  <2>2. Len(rcs') \in {regs'.al, regs'.al + 1} /\ ~(regs'.i < regs'.count)
    BY <1>5, <1>6, <1>7, <1>8
  <2> QED BY <1>1, <1>2, <1>6, <1>8, <2>1, <2>2 DEF WrittenInv
<1> QED BY <1>2, <1>3, <1>9, <1>10, <1>11 DEF DiskInv

(* write_sector succeeds. *)
LEMMA WriteSucceeds ==
  ASSUME DiskInv, DriverInv', SectorWritten(0), UNCHANGED <<xfer, buf, sd_is_sdhc, card>>,
         pc = "polled", buf[0] # 0
  PROVE  DiskInv'
<1>1. /\ rcs' = Append(rcs, 0) /\ regs' = [regs EXCEPT !.i = regs.i + 1, !.al = regs.al + 1]
      /\ pc' = "sector" /\ UNCHANGED <<mem, before>>
  BY DEF SectorWritten
<1>2. CardInv' /\ BufInv' /\ CommandInv' /\ ClockInv' /\ AddressInv' /\ At = pc /\ At' = "sector"
  BY <1>1, Rests DEF Serving
<1>3. WriteInv' /\ Landed /\ Ready(card)
  BY <1>1 DEF DiskInv, WriteInv
<1>4. /\ regs \in RegsType /\ regs.fn = 3 /\ regs.i < regs.count /\ rcs \in Seq({0, -1})
      /\ mem \in [0 .. MemBlocks - 1 -> Seq(Bytes)]
      /\ \A a \in 0 .. MemBlocks - 1 : Len(mem[a]) = BLOCK_SIZE
      /\ before \in [DOMAIN DiskImage -> Bytes]
  BY <1>2 DEF DiskInv, CallInv, Serving
<1>5. /\ regs.at \in Nat /\ regs.i \in Nat /\ regs.count \in Nat /\ regs.lba \in Nat /\ regs.al \in Nat
      /\ regs.lba <= LastLBA /\ regs.at + regs.count <= MemBlocks
  BY RegsFacts DEF DiskInv
<1>6. /\ regs' \in RegsType /\ regs'.fn = 3 /\ regs'.i = regs.i + 1 /\ regs'.lba = regs.lba
      /\ regs'.count = regs.count /\ regs'.at = regs.at /\ regs'.al = regs.al + 1
  <2> DEFINE i == regs.i + 1
             al == regs.al + 1
  <2>1. i \in Nat /\ al \in Nat /\ regs' = Onward(regs, i, al)
    BY <1>1, <1>5 DEF Onward
  <2>2. i = regs.i + 1 /\ al = regs.al + 1
    OBVIOUS
  <2> HIDE DEF i, al
  <2>3. Advances(regs, Onward(regs, i, al), i, al)
    BY <1>4, <2>1, Advanced
  <2>4. Advances(regs, regs', i, al)
    BY <2>1, <2>3
  <2> QED BY <1>4, <2>2, <2>4 DEF Advances
<1>7. rcs' \in Seq({0, -1}) /\ Len(rcs') = Len(rcs) + 1 /\ Len(rcs) \in Nat
  BY <1>1, <1>4, Appended
<1>8. /\ regs.al <= regs.count /\ regs.al = regs.i /\ Len(rcs) = regs.i
      /\ \A k \in 0 .. regs.al - 1 : Sector(card.disk, regs.lba + k) = mem[regs.at + k]
  BY <1>2, <1>4, <1>5 DEF DiskInv, WrittenInv, Serving
<1>9. CallInv'
  <2>1. regs'.i <= regs'.count
    BY <1>4, <1>5, <1>6
  <2> QED BY <1>1, <1>2, <1>3, <1>4, <1>5, <1>6, <1>7, <2>1 DEF CallInv, Serving
<1>10. ReadInv'
  BY <1>6 DEF ReadInv
<1>11. WrittenInv'
  <2>1. ASSUME NEW pos \in DOMAIN before, card.disk[pos] # before[pos]
        PROVE  pos \div BLOCK_SIZE - regs.lba \in 0 .. Len(rcs') - 1
    <3> DEFINE q == pos \div BLOCK_SIZE - regs.lba
    <3>1. q \in 0 .. Len(rcs) - 1 \/ q = Len(rcs)
      BY <2>1 DEF DiskInv, WrittenInv
    <3> HIDE DEF q
    <3>2. q \in 0 .. Len(rcs') - 1
      BY <1>7, <3>1
    <3> QED BY <3>2 DEF q
  <2>2. ASSUME NEW k \in 0 .. regs.al PROVE Sector(card.disk, regs.lba + k) = mem[regs.at + k]
    <3>1. CASE k = regs.al
      BY <1>3, <1>8, <3>1 DEF Landed, Target, Given
    <3>2. CASE k # regs.al
      BY <1>5, <1>8, <3>2
    <3> QED BY <3>1, <3>2
  <2>3. /\ Len(rcs') = regs'.i /\ regs'.al = regs'.i /\ regs'.al <= regs'.count
        /\ 0 .. regs'.al - 1 = 0 .. regs.al
    BY <1>4, <1>5, <1>6, <1>7, <1>8
  <2> QED BY <1>1, <1>2, <1>6, <2>1, <2>2, <2>3 DEF WrittenInv
<1> QED BY <1>2, <1>3, <1>9, <1>10, <1>11 DEF DiskInv

(* A transfer that carries no command. *)
LEMMA Pours ==
  ASSUME DiskInv, pc \in {"write_block", "poll"}, NEW place \in {"written", "polled"},
         NEW len \in Nat, len <= Longest, NEW bs \in Seq(Bytes), Len(bs) <= Longest,
         buf' = Fill(bs, 0), Start(len, TRUE, place), UNCHANGED <<sd_is_sdhc, card, caller>>,
         pc = "poll" => place = "polled"
  PROVE  /\ CardInv' /\ BufInv' /\ CommandInv' /\ ClockInv' /\ AddressInv' /\ CallerInv'
         /\ \A i \in 1 .. Len(bs) : buf'[i - 1] = bs[i]
         /\ pc' = "xfer" /\ xfer'.len = len /\ xfer'.wait /\ xfer'.src = 0 /\ xfer'.dst = 0
         /\ ~xfer'.got /\ xfer'.then = place
<1>1. /\ pc' = "xfer"
      /\ xfer' = [len |-> len, wait |-> TRUE, src |-> 0, dst |-> 0, got |-> FALSE, then |-> place]
  BY DEF Start
<1>2. /\ xfer'.len = len /\ xfer'.wait /\ xfer'.src = 0 /\ xfer'.dst = 0
      /\ ~xfer'.got /\ xfer'.then = place
  BY <1>1
<1>3. At = pc /\ At' = place
  BY <1>1, <1>2 DEF At
<1>4. /\ buf' \in BufType /\ \A i \in Longest .. BUF_SIZE - 1 : buf'[i] = 0
      /\ \A i \in 1 .. Len(bs) : buf'[i - 1] = bs[i]
  <2>1. 0 \in Nat /\ 0 <= Longest
    BY MoreSizes
  <2> QED BY <2>1, FillBytes DEF DiskInv
<1>5. CardInv' /\ BufInv'
  BY <1>2, <1>4 DEF DiskInv, CardInv, BufInv, BufType
<1>6. CommandInv' /\ ClockInv'
  BY <1>1, <1>2, <1>3 DEF CommandInv, ClockInv, CommandPlaces
<1>7. AddressInv'
  BY <1>3 DEF DiskInv, AddressInv, Early
<1>8. UNCHANGED <<mem, regs, rcs, before>> /\ card'.disk = card.disk
  BY DEF caller
<1>9. regs.fn = 3 /\ regs.i < regs.count
  BY <1>3 DEF DiskInv, CallInv, Serving
<1>10. CallerInv
  BY DEF DiskInv, CallerInv
<1>11. /\ At \in Serving /\ At' \in Serving \ {"sector"} /\ ~(At' = "read")
       /\ At \in {"written", "poll", "polled"} => At' \in {"written", "poll", "polled"}
  BY <1>3 DEF Serving
<1>12. At' = "read" <=> regs.fn = 2
  BY <1>9, <1>11
<1>13. CallerInv'
  BY <1>8, <1>9, <1>10, <1>11, <1>12, CallerGoesOn
<1> QED BY <1>1, <1>2, <1>4, <1>5, <1>6, <1>7, <1>13

BlockFrame(block) == <<FF, DATA_START_TOKEN>> \o block \o <<0, 0, FF>>

FrameOf(bs, block) ==
  /\ bs \in Seq(Bytes) /\ Len(bs) = 5 + BLOCK_SIZE /\ bs[1] = FF /\ bs[2] = DATA_START_TOKEN
  /\ \A i \in 1 .. BLOCK_SIZE : bs[2 + i] = block[i]

(* The bytes around a block. *)
LEMMA BlockBytes ==
  ASSUME NEW block \in Seq(Bytes), Len(block) = BLOCK_SIZE
  PROVE  FrameOf(BlockFrame(block), block)
<1> DEFINE h == <<FF, DATA_START_TOKEN>>
           t == <<0, 0, FF>>
           g == h \o block
           bs == g \o t
<1>1. /\ h \in Seq(Bytes) /\ t \in Seq(Bytes) /\ Len(h) = 2 /\ Len(t) = 3
      /\ h[1] = FF /\ h[2] = DATA_START_TOKEN
  <2>1. FF \in Bytes /\ 0 \in Bytes /\ DATA_START_TOKEN \in Bytes
    BY DEF Bytes, FF, DATA_START_TOKEN
  <2> QED BY <2>1
<1>2. BlockFrame(block) = bs
  BY DEF BlockFrame
<1> HIDE DEF h, t
<1>3. /\ g \in Seq(Bytes) /\ Len(g) = Len(h) + Len(block)
      /\ \A i \in 1 .. Len(h) : g[i] = h[i]
      /\ \A i \in 1 .. Len(block) : g[Len(h) + i] = block[i]
  BY <1>1, Joined, Zenon
<1> HIDE DEF g
<1>4. /\ bs \in Seq(Bytes) /\ Len(bs) = Len(g) + Len(t)
      /\ \A i \in 1 .. Len(g) : bs[i] = g[i]
  BY <1>1, <1>3, Joined, Zenon
<1> HIDE DEF bs
<1>5. BLOCK_SIZE \in Nat
  BY MoreSizes
<1>6. Len(g) = 2 + BLOCK_SIZE /\ Len(bs) = 5 + BLOCK_SIZE
  BY <1>1, <1>3, <1>4, <1>5
<1>7. \A i \in 1 .. 2 + BLOCK_SIZE : bs[i] = g[i]
  BY <1>4, <1>6
<1>8. g[1] = FF /\ g[2] = DATA_START_TOKEN /\ \A i \in 1 .. BLOCK_SIZE : g[2 + i] = block[i]
  BY <1>1, <1>3
<1>9. bs[1] = FF /\ bs[2] = DATA_START_TOKEN
  BY <1>5, <1>7, <1>8
<1>10. ASSUME NEW i \in 1 .. BLOCK_SIZE PROVE bs[2 + i] = block[i]
  <2>1. 2 + i \in 1 .. 2 + BLOCK_SIZE
    BY <1>5
  <2> QED BY <1>7, <1>8, <2>1
<1> QED BY <1>2, <1>4, <1>6, <1>9, <1>10 DEF FrameOf

(* The block goes out to a card that waits for it. *)
LEMMA AcceptedKeeps ==
  ASSUME DiskInv, DriverInv', Accepted
  PROVE  DiskInv'
<1> DEFINE bs == BlockFrame(Given)
<1>1. /\ pc = "write_block" /\ ~Failed /\ buf' = Fill(bs, 0) /\ Start(5 + BLOCK_SIZE, TRUE, "written")
      /\ UNCHANGED <<sd_is_sdhc, card, caller>> /\ UNCHANGED <<mem, regs>>
  BY DEF Accepted, sd_write_block, BlockFrame, Given, caller
<1>2. At = "write_block"
  BY <1>1 DEF At
<1>3. Given \in Seq(Bytes) /\ Len(Given) = BLOCK_SIZE
  BY <1>2, GivenFacts DEF DiskInv, Serving
<1>4. FrameOf(bs, Given)
  BY <1>3, BlockBytes
<1> HIDE DEF bs
<1>5. bs \in Seq(Bytes) /\ Len(bs) = 5 + BLOCK_SIZE
  BY <1>4 DEF FrameOf
<1>6. 5 + BLOCK_SIZE \in Nat /\ 5 + BLOCK_SIZE <= Longest /\ BLOCK_SIZE \in Nat /\ BLOCK_SIZE >= 1
  BY MoreSizes
<1>7. /\ CardInv' /\ BufInv' /\ CommandInv' /\ ClockInv' /\ AddressInv' /\ CallerInv'
      /\ \A i \in 1 .. Len(bs) : buf'[i - 1] = bs[i]
      /\ pc' = "xfer" /\ xfer'.len = 5 + BLOCK_SIZE /\ xfer'.wait /\ xfer'.src = 0 /\ xfer'.dst = 0
      /\ ~xfer'.got /\ xfer'.then = "written"
  <2>1. Len(bs) <= Longest
    BY <1>5, <1>6
  <2> QED BY <1>1, <1>5, <1>6, <2>1, Pours
<1>8. Done(card) /\ Good(card, "write_block", buf, xfer.len, Target)
  BY <1>1 DEF DiskInv, CommandInv, CommandPlaces
<1>9. (Failed <=> buf[0] > 1) /\ buf[0] \in Nat
  BY <1>8, AnswerRead DEF DiskInv, Good
<1>10. buf[0] <= 1
  BY <1>1, <1>9
<1>11. card.do_write /\ WriteOpen(card, Target)
  BY <1>8, <1>10 DEF Good
<1>12. card.state = "WAIT_FOR_DATA" /\ card.mosi = << >>
  BY <1>8, <1>11 DEF Done
<1>13. /\ buf'[0] = FF /\ buf'[1] = DATA_START_TOKEN
       /\ \A i \in 1 .. BLOCK_SIZE : buf'[i + 1] = Given[i]
  <2>1. 1 \in 1 .. Len(bs) /\ 2 \in 1 .. Len(bs) /\ 1 - 1 = 0 /\ 2 - 1 = 1
    BY <1>5, <1>6
  <2>2. ASSUME NEW i \in 1 .. BLOCK_SIZE PROVE buf'[i + 1] = Given[i]
    <3>1. 2 + i \in 1 .. Len(bs) /\ (2 + i) - 1 = i + 1
      BY <1>5, <1>6
    <3>2. bs[2 + i] = Given[i]
      BY <1>4 DEF FrameOf
    <3> QED BY <1>7, <3>1, <3>2
  <2> QED BY <1>4, <1>7, <2>1, <2>2 DEF FrameOf
<1>14. Target' = Target /\ Given' = Given
  BY <1>1 DEF Target, Given
<1>15. /\ card.write_count = 0 /\ Len(card.data) = 0 /\ Room(card, Target)
       /\ Poured(xfer') = 0 /\ ~(xfer'.src > 2 + BLOCK_SIZE) /\ xfer'.src <= 1
  BY <1>6, <1>7, <1>11 DEF WriteOpen, Poured
<1>16. Pouring(card, xfer', buf', Target, Given)
  <2>1. \A i \in 1 .. Len(card.data) : card.data[i] = Given[i]
    BY <1>15
  <2>2. 0 < BLOCK_SIZE
    BY <1>6
  <2> QED BY <1>7, <1>11, <1>12, <1>13, <1>15, <2>1, <2>2 DEF Pouring
<1>17. xfer'.src < xfer'.len
  BY <1>6, <1>7
<1>18. WriteInv'
  BY <1>1, <1>7, <1>14, <1>16, <1>17 DEF WriteInv
<1> QED BY <1>7, <1>18 DEF DiskInv, CallerInv

(* A poll begins. *)
LEMMA PollKeeps ==
  ASSUME DiskInv, DriverInv', PollWrite
  PROVE  DiskInv'
<1> DEFINE bs == <<FF>>
<1>1. /\ pc = "poll" /\ polls < POLLS /\ buf' = Fill(bs, 0) /\ Start(1, TRUE, "polled")
      /\ UNCHANGED <<sd_is_sdhc, card, caller>> /\ UNCHANGED <<mem, regs, polls>>
  BY DEF PollWrite, caller
<1>2. bs \in Seq(Bytes) /\ Len(bs) = 1 /\ bs[1] = FF
  BY ByteFacts
<1> HIDE DEF bs
<1>3. 1 \in Nat /\ 1 <= Longest /\ Len(bs) <= Longest
  BY <1>2, MoreSizes
<1>4. /\ CardInv' /\ BufInv' /\ CommandInv' /\ ClockInv' /\ AddressInv' /\ CallerInv'
      /\ \A i \in 1 .. Len(bs) : buf'[i - 1] = bs[i]
      /\ pc' = "xfer" /\ xfer'.len = 1 /\ xfer'.wait /\ xfer'.src = 0 /\ xfer'.dst = 0
      /\ ~xfer'.got /\ xfer'.then = "polled"
  BY <1>1, <1>2, <1>3, Pours
<1>5. buf'[0] = FF
  <2>1. 1 \in 1 .. Len(bs) /\ 1 - 1 = 0
    BY <1>2
  <2> QED BY <1>2, <1>4, <2>1
<1>6. polls \in 0 .. POLLS - 1 /\ Landed /\ Busy(card, POLLS - polls)
  <2>1. polls \in 0 .. POLLS /\ Landed /\ Busy(card, POLLS - polls)
    BY <1>1 DEF DiskInv, WriteInv
  <2> QED BY <1>1, <2>1, MoreSizes
<1>7. Landed'
  BY <1>1, <1>6 DEF Landed, Target, Given
<1>8. WriteInv'
  BY <1>1, <1>4, <1>5, <1>6, <1>7 DEF WriteInv
<1> QED BY <1>4, <1>8 DEF DiskInv, CallerInv

(* The step to the next poll sends nothing either. *)
LEMMA PollsOn ==
  ASSUME DiskInv, DriverInv', UNCHANGED <<xfer, buf, sd_is_sdhc, card, caller>>, pc' = "poll",
         pc \in {"written", "polled"}, polls' \in 0 .. POLLS, Landed, Busy(card, POLLS - polls')
  PROVE  DiskInv'
<1>1. CardInv' /\ BufInv' /\ CommandInv' /\ ClockInv' /\ AddressInv' /\ At = pc /\ At' = "poll"
  BY Rests DEF Serving
<1>2. UNCHANGED <<mem, regs, rcs, before>> /\ card'.disk = card.disk
  BY DEF caller
<1>3. regs.fn = 3 /\ regs.i < regs.count
  BY <1>1 DEF DiskInv, CallInv, Serving
<1>4. CallerInv
  BY DEF DiskInv, CallerInv
<1>5. /\ At \in Serving /\ At' \in Serving \ {"sector"} /\ ~(At' = "read")
      /\ At' \in {"written", "poll", "polled"}
  BY <1>1 DEF Serving
<1>6. At' = "read" <=> regs.fn = 2
  BY <1>3, <1>5
<1>7. CallerInv'
  BY <1>2, <1>3, <1>4, <1>5, <1>6, CallerGoesOn
<1>8. Landed'
  BY <1>2 DEF Landed, Target, Given
<1>9. WriteInv'
  BY <1>8 DEF WriteInv
<1> QED BY <1>1, <1>7, <1>9 DEF DiskInv, CallerInv

(* Which of the answers to a block the driver takes for its consent. *)
LEMMA Responses229 ==
  write_received(229) /\ ~write_received(170) /\ ~write_received(235)
BY SMT DEF write_received

(* The block was stored. *)
LEMMA ReceivedKeeps ==
  ASSUME DiskInv, DriverInv', Received
  PROVE  DiskInv'
<1>1. /\ pc = "written" /\ write_received(buf[0]) /\ polls' = 0 /\ pc' = "poll"
      /\ UNCHANGED <<xfer, buf, sd_is_sdhc, card, caller>>
  BY DEF Received
<1>2. Outcome(card, buf, Target, Given, POLLS)
  BY <1>1 DEF DiskInv, WriteInv
<1>3. buf[0] \notin {170, 235}
  BY <1>1, Responses229
<1>4. Landed /\ Busy(card, POLLS)
  BY <1>2, <1>3 DEF Outcome, Landed
<1>5. polls' \in 0 .. POLLS /\ POLLS - polls' = POLLS
  BY <1>1, MoreSizes
<1> QED BY <1>1, <1>4, <1>5, PollsOn

(* The card is still busy. *)
LEMMA PolledKeeps ==
  ASSUME DiskInv, DriverInv', Polled
  PROVE  DiskInv'
<1>1. /\ pc = "polled" /\ polls' = polls + 1 /\ pc' = "poll"
      /\ UNCHANGED <<xfer, buf, sd_is_sdhc, card, caller>>
  BY DEF Polled
<1>2. polls \in 0 .. POLLS - 1 /\ Landed /\ Busy(card, POLLS - polls - 1)
  BY <1>1 DEF DiskInv, WriteInv
<1>3. polls' \in 0 .. POLLS /\ POLLS - polls' = POLLS - polls - 1
  BY <1>1, <1>2, MoreSizes
<1> QED BY <1>1, <1>2, <1>3, PollsOn

(* The request or the block was refused. *)
LEMMA RefusedKeeps ==
  ASSUME DiskInv, DriverInv', Refused
  PROVE  DiskInv'
<1>1. SectorWritten(-1) /\ UNCHANGED <<xfer, buf, sd_is_sdhc, card>>
  BY DEF Refused, driver
<1>2. CASE pc = "write_block" /\ Failed
  <2>1. Done(card) /\ Good(card, "write_block", buf, xfer.len, Target)
    BY <1>2 DEF DiskInv, CommandInv, CommandPlaces
  <2>2. (Failed <=> buf[0] > 1) /\ buf[0] \in Nat
    BY <2>1, AnswerRead DEF DiskInv, Good
  <2>3. ~(buf[0] <= 1)
    BY <1>2, <2>2
  <2>4. ~card.do_write
    BY <2>1, <2>3 DEF Good
  <2>5. Ready(card)
    BY <2>1, <2>4 DEF Done, Ready, Resting
  <2> QED BY <1>1, <1>2, <2>5, WriteFails
<1>3. CASE pc = "written" /\ ~write_received(buf[0])
  <2>1. Outcome(card, buf, Target, Given, POLLS)
    BY <1>3 DEF DiskInv, WriteInv
  <2>2. buf[0] # 229
    BY <1>3, Responses229
  <2>3. Ready(card)
    BY <2>1, <2>2 DEF Outcome, Ready
  <2> QED BY <1>1, <1>3, <2>3, WriteFails
<1> QED BY <1>2, <1>3 DEF Refused

(* The wait for the card ends. *)
LEMMA CompletionKeeps ==
  ASSUME DiskInv, DriverInv', wait_for_write_completion
  PROVE  DiskInv'
<1>1. UNCHANGED <<xfer, buf, sd_is_sdhc, card>>
  BY DEF wait_for_write_completion, driver
<1>2. CASE pc = "poll" /\ polls = POLLS /\ SectorWritten(-1)
  <2>1. Busy(card, POLLS - polls) /\ POLLS - polls = 0
    BY <1>2, MoreSizes DEF DiskInv, WriteInv
  <2>2. Busy(card, 0)
    BY <2>1
  <2>3. card.miso \in Seq(Bytes)
    BY DEF DiskInv, CardInv, CardOk, CardType
  <2>4. Len(card.miso) \in Nat
    BY <2>3
  <2>5. Len(card.miso) <= 0 => card.miso = << >>
    <3>1. Len(card.miso) <= 0 => Len(card.miso) = 0
      BY <2>4
    <3> QED BY <2>3, <3>1, NoBytes
  <2>6. Ready(card)
    BY <2>2, <2>5 DEF Busy, Ready, Resting
  <2> QED BY <1>1, <1>2, <2>6, WriteFails
<1>3. CASE pc = "polled" /\ buf[0] # 0 /\ SectorWritten(0)
  BY <1>1, <1>3, WriteSucceeds
<1> QED BY <1>2, <1>3 DEF wait_for_write_completion

(* The loops of disk_read and disk_write go on. *)
LEMMA NextKeeps ==
  ASSUME DiskInv, DriverInv', NextSector
  PROVE  DiskInv'
<1> DEFINE n == 1 + 1 + BLOCK_SIZE + 2 + MAX_DATA_START_OFFS
<1>1. /\ pc = "sector" /\ regs.i < regs.count /\ UNCHANGED <<sd_is_sdhc, caller>>
  BY DEF NextSector
<1>2. /\ n \in Nat /\ n >= 1 /\ n = 4 + BLOCK_SIZE + MAX_DATA_START_OFFS
      /\ n <= 4 + BLOCK_SIZE + MAX_DATA_START_OFFS
      /\ 1 \in Nat /\ 1 >= 1 /\ 1 <= 4 + BLOCK_SIZE + MAX_DATA_START_OFFS
  BY MoreSizes
<1>3. CASE regs.fn = 2
  <2>1. spi_do_command(READ_BLOCK, AddressArg(regs.lba + regs.i), n, "read")
    BY <1>3 DEF NextSector, read_sector
  <2>2. Sent("read") = READ_BLOCK
    BY DEF Sent
  <2> HIDE DEF n
  <2>3. spi_do_command(Sent("read"), AddressArg(regs.lba + regs.i), n, "read")
    BY <2>1, <2>2
  <2> QED BY <1>1, <1>2, <1>3, <2>3, SectorRequested
<1>4. CASE regs.fn # 2
  <2>1. spi_do_command(WRITE_BLOCK, AddressArg(regs.lba + regs.i), 1, "write_block")
    BY <1>4 DEF NextSector, sd_make_write_request
  <2>2. Sent("write_block") = WRITE_BLOCK
    BY DEF Sent
  <2>3. spi_do_command(Sent("write_block"), AddressArg(regs.lba + regs.i), 1, "write_block")
    BY <2>1, <2>2
  <2> QED BY <1>1, <1>2, <1>4, <2>3, SectorRequested
<1> QED BY <1>3, <1>4

(* Every step of INT 13h. *)
LEMMA ServiceKeepsInv ==
  ASSUME DiskInv, Service
  PROVE  DiskInv'
<1>1. DriverInv'
  BY ServiceStep DEF DiskInv
<1> QED BY <1>1, NextKeeps, LastKeeps, ReadKeeps, RefusedKeeps, AcceptedKeeps, ReceivedKeeps,
           PollKeeps, PolledKeeps, CompletionKeeps DEF Service

-----------------------------------------------------------------------------
(* Calls of INT 13h. *)

(* A call begins with no results and remembers the disk. *)
LEMMA CallBegins ==
  ASSUME DiskInv, DriverInv', pc = "idle", pc' \in {"idle", "sector"},
         UNCHANGED <<xfer, buf, sd_is_sdhc, card, mem>>, rcs' = << >>, before' = card.disk,
         regs' \in RegsType, regs'.lba <= LastLBA, regs'.at + regs'.count <= MemBlocks, regs'.i = 0,
         pc' = "idle" => regs'.count = 0,
         pc' = "sector" => regs'.fn \in {2, 3} /\ regs'.al = 0
  PROVE  DiskInv'
<1>1. CardInv' /\ BufInv' /\ CommandInv' /\ ClockInv' /\ AddressInv' /\ At = "idle" /\ At' = pc'
  BY Rests DEF Serving
<1>2. WriteInv'
  BY DEF WriteInv
<1>3. regs'.count \in Nat /\ regs'.al \in Nat
  <2>1. regs'.count \in Bytes /\ regs'.al \in Nat
    BY DEF RegsType
  <2>2. ASSUME NEW n \in Bytes PROVE n \in Nat
    BY DEF Bytes
  <2> QED BY <2>1, <2>2
<1>4. rcs' \in Seq({0, -1}) /\ Len(rcs') = 0
  OBVIOUS
<1>5. Ready(card) /\ before' \in [DOMAIN DiskImage -> Bytes]
  BY <1>1 DEF DiskInv, CallInv, CardInv, CardOk, CardType
<1>6. CallInv'
  <2>1. /\ mem' \in [0 .. MemBlocks - 1 -> Seq(Bytes)]
        /\ \A a \in 0 .. MemBlocks - 1 : Len(mem'[a]) = BLOCK_SIZE
    BY DEF DiskInv, CallInv
  <2>2. regs'.i <= regs'.count
    BY <1>3
  <2> QED BY <1>1, <1>4, <1>5, <2>1, <2>2 DEF CallInv, Serving
<1>7. ReadInv'
  BY <1>1, <1>3, <1>4 DEF ReadInv, Serving
<1>8. WrittenInv'
  <2>1. ASSUME NEW pos \in DOMAIN before' PROVE card'.disk[pos] = before'[pos]
    OBVIOUS
  <2>2. ASSUME regs'.fn = 3, regs'.count > 0
        PROVE  /\ regs'.al <= regs'.count /\ regs'.al = 0 /\ At' = "sector"
               /\ \A k \in 0 .. regs'.al - 1 : Sector(card'.disk, regs'.lba + k) = mem'[regs'.at + k]
    BY <1>1, <1>3, <2>2
  <2> QED BY <1>3, <1>4, <2>1, <2>2 DEF WrittenInv
<1> QED BY <1>1, <1>2, <1>6, <1>7, <1>8 DEF DiskInv

(* The registers that Called stores. *)
Begun(r, fn) == [r EXCEPT !.fn = fn, !.i = 0]
CallOf(r, t, fn) ==
  /\ t \in RegsType /\ t.fn = fn /\ t.i = 0 /\ t.lba = r.lba /\ t.count = r.count /\ t.at = r.at
  /\ t.al = r.al

(* The function and the loop counter are the new ones. *)
LEMMA BegunRegs ==
  ASSUME NEW r \in RegsType, NEW fn \in Nat
  PROVE  CallOf(r, Begun(r, fn), fn)
BY DEF RegsType, Begun, CallOf

(* A call that returns at once leaves the address of the last one. *)
Idles(r, t) == t \in RegsType /\ t.lba = r.lba /\ t.at = r.at /\ t.count = 0

(* A status does not start a transfer. *)
LEMMA IdleStatus ==
  ASSUME NEW r, NEW s, Idles(r, s), NEW err \in Nat
  PROVE  Idles(r, set_disk_status(s, err))
BY Reported DEF Idles

NoDrive(r, al) == [r EXCEPT !.al = al, !.count = 0]
Other(r, ah, al) == [r EXCEPT !.ah = ah, !.al = al, !.count = 0, !.cf = TRUE]
FixedDisk(r) == [r EXCEPT !.ah = 3, !.cf = FALSE]
Transfer(r, lba, count, at) ==
  [r EXCEPT !.lba = lba, !.al = 0, !.count = count, !.cf = FALSE, !.at = at]

(* Neither does a call without a drive, or of another function. *)
LEMMA IdleRegs ==
  ASSUME NEW r \in RegsType, NEW ah \in Nat, NEW al \in Nat
  PROVE  Idles(r, NoDrive(r, al)) /\ Idles(r, Other(r, ah, al))
<1>1. 0 \in Bytes
  BY ByteFacts
<1> QED BY <1>1 DEF RegsType, Idles, NoDrive, Other

(* Neither does disk_get_type. *)
LEMMA FixedRegs ==
  ASSUME NEW r, NEW s, Idles(r, s)
  PROVE  Idles(r, FixedDisk(s))
BY DEF RegsType, Idles, FixedDisk

Transfers(t, lba, count, at) ==
  t \in RegsType /\ t.lba = lba /\ t.count = count /\ t.at = at /\ t.al = 0

(* The registers that a transfer starts with. *)
LEMMA TransferRegs ==
  ASSUME NEW r \in RegsType, NEW lba \in Nat, NEW count \in Bytes, NEW at \in Nat
  PROVE  Transfers(Transfer(r, lba, count, at), lba, count, at)
BY DEF RegsType, Transfer, Transfers

(* Every call of INT 13h. *)
LEMMA CallKeepsInv ==
  ASSUME DiskInv, NEW call \in Calls, disk_transfer(call) \/ disk_other(call)
  PROVE  DiskInv'
<1>0. DriverInv'
  BY CallStep DEF DiskInv
<1>1. regs \in RegsType /\ regs.lba <= LastLBA /\ call.ah \in Nat /\ call.al \in Nat
  BY CallAddress DEF DiskInv, CallInv
<1>2. regs.at + 0 <= MemBlocks
  BY RegsFacts, MoreSizes DEF DiskInv
<1>3. ASSUME NEW r, Idles(regs, r), Called(call, r), UNCHANGED pc PROVE DiskInv'
  <2>1. /\ pc = "idle" /\ regs' = Begun(r, call.ah) /\ rcs' = << >> /\ before' = card.disk
        /\ UNCHANGED <<xfer, buf, sd_is_sdhc, card, mem>>
    BY <1>3 DEF Called, Begun, driver
  <2>2. CallOf(r, Begun(r, call.ah), call.ah)
    BY <1>1, <1>3, BegunRegs DEF Idles
  <2>3. /\ regs' \in RegsType /\ regs'.i = 0 /\ regs'.lba = regs.lba /\ regs'.count = 0
        /\ regs'.at = regs.at
    BY <1>3, <2>1, <2>2 DEF CallOf, Idles
  <2>4. regs'.lba <= LastLBA /\ regs'.at + regs'.count <= MemBlocks
    BY <1>1, <1>2, <2>3
  <2>5. pc' = "idle"
    BY <1>3, <2>1
  <2> QED BY <1>0, <2>1, <2>3, <2>4, <2>5, CallBegins
<1>4. CASE disk_transfer(call) /\ call.dl # 128
  <2> DEFINE r == set_disk_status(NoDrive(regs, call.al), FLOPPY_TIMEOUT)
  <2>1. Called(call, r) /\ UNCHANGED pc
    BY <1>4 DEF disk_transfer, NoDrive
  <2>2. FLOPPY_TIMEOUT \in Nat
    BY DEF FLOPPY_TIMEOUT
  <2>3. Idles(regs, r)
    BY <1>1, <2>2, IdleRegs, IdleStatus
  <2> QED BY <1>3, <2>1, <2>3
<1>5. CASE disk_transfer(call) /\ ~(call.dl # 128)
  <2> DEFINE r == Transfer(regs, LBA(call), call.al, call.bx)
  <2>1. Called(call, r) /\ pc' = "sector" /\ call.ah \in {2, 3}
    BY <1>5 DEF disk_transfer, Transfer
  <2>2. /\ LBA(call) \in Nat /\ LBA(call) <= LastLBA /\ call.al \in Bytes /\ call.bx \in Nat
        /\ call.bx + call.al <= MemBlocks
    BY <2>1, CallAddress
  <2>3. Transfers(r, LBA(call), call.al, call.bx)
    BY <1>1, <2>2, TransferRegs
  <2> HIDE DEF r
  <2>4. /\ pc = "idle" /\ regs' = Begun(r, call.ah) /\ rcs' = << >> /\ before' = card.disk
        /\ UNCHANGED <<xfer, buf, sd_is_sdhc, card, mem>>
    BY <2>1 DEF Called, Begun, driver
  <2>5. CallOf(r, Begun(r, call.ah), call.ah)
    BY <1>1, <2>3, BegunRegs DEF Transfers
  <2>6. /\ regs' \in RegsType /\ regs'.i = 0 /\ regs'.lba = LBA(call) /\ regs'.count = call.al
        /\ regs'.at = call.bx /\ regs'.fn = call.ah /\ regs'.al = 0
    BY <2>3, <2>4, <2>5 DEF CallOf, Transfers
  <2>7. regs'.lba <= LastLBA /\ regs'.at + regs'.count <= MemBlocks
    BY <2>2, <2>6
  <2> QED BY <1>0, <2>1, <2>4, <2>6, <2>7, CallBegins
<1>6. CASE disk_other(call)
  <2> DEFINE r == Other(regs, call.ah, call.al)
             p == call.ah \in {0, 1, 8, 21} /\ call.dl # 128
             q == call.ah \in {0, 8} /\ call.dl = 128
             u == call.ah = 21 /\ call.dl = 128
             res == CASE p -> set_disk_status(r, FLOPPY_TIMEOUT)
                      [] q -> set_disk_status(r, 0)
                      [] u -> FixedDisk(r)
                      [] OTHER -> r
  <2>1. Called(call, res) /\ UNCHANGED pc
    BY <1>6 DEF disk_other, Other, FixedDisk
  <2>2. FLOPPY_TIMEOUT \in Nat /\ 0 \in Nat
    BY DEF FLOPPY_TIMEOUT
  <2>3. Idles(regs, r)
    BY <1>1, IdleRegs
  <2> HIDE DEF r
  <2>4. /\ Idles(regs, set_disk_status(r, FLOPPY_TIMEOUT)) /\ Idles(regs, set_disk_status(r, 0))
        /\ Idles(regs, FixedDisk(r))
    BY <2>2, <2>3, IdleStatus, FixedRegs
  <2>5. ~(p /\ q) /\ ~(p /\ u) /\ ~(q /\ u)
    OBVIOUS
  <2> HIDE DEF p, q, u
  <2>6. Idles(regs, res)
    BY <2>3, <2>4, <2>5
  <2> QED BY <1>3, <2>1, <2>6
<1> QED BY <1>4, <1>5, <1>6

-----------------------------------------------------------------------------
(* The card before sd_init. *)
LEMMA FreshCard ==
  ASSUME NEW kind \in Cards
  PROVE  /\ CardOk(NewCard(kind, DiskImage)) /\ Resting(NewCard(kind, DiskImage))
         /\ NewCard(kind, DiskImage).disk = DiskImage
<1> DEFINE idle == IF kind = "sim" THEN 0 ELSE 1
           c == NewCard(kind, DiskImage)
<1>1. kind \in {"sim", "sdsc", "sdhc"} /\ DiskImage \in [DOMAIN DiskImage -> Bytes]
  BY DriverAssumption, ImageAssumption DEF Bytes
<1>2. idle \in Nat /\ (kind = "sim" => idle = 0) /\ 0 \in Bytes /\ << >> \in Seq(Bytes)
  BY ByteFacts
<1>3. c = [kind |-> kind, state |-> "IDLE", mosi |-> << >>, miso |-> << >>, rx |-> 0,
           do_write |-> FALSE, write_count |-> 0, pos |-> 0, data |-> << >>,
           selected |-> TRUE, idle |-> idle, disk |-> DiskImage]
  BY DEF NewCard
<1> HIDE DEF idle, c
<1>4. c \in CardType
  BY <1>1, <1>2, <1>3 DEF CardType
<1>5. /\ c.kind = kind /\ c.idle = idle /\ c.data = << >> /\ c.state = "IDLE" /\ c.mosi = << >>
      /\ c.disk = DiskImage
  BY <1>3
<1>6. CardOk(c) /\ Resting(c) /\ c.disk = DiskImage
  BY <1>2, <1>4, <1>5 DEF CardOk, Resting
<1> QED BY <1>6 DEF c

(* The start. *)
LEMMA InitDisk ==
  ASSUME Init
  PROVE  DiskInv
<1>0. DriverInv
  BY InitDriver
<1>1. /\ pc = "sd_init" /\ xfer = NoXfer /\ buf = [i \in 0 .. BUF_SIZE - 1 |-> 0]
      /\ regs = NoCall /\ rcs = << >> /\ before = DiskImage
      /\ mem \in [0 .. MemBlocks - 1 -> Payloads]
  BY DEF Init
<1>2. At = "sd_init"
  BY <1>1 DEF At
<1>3. PICK kind \in Cards : card = NewCard(kind, DiskImage)
  BY DEF Init
<1>4. CardOk(card) /\ Resting(card) /\ card.disk = DiskImage
  BY <1>3, FreshCard
<1>5. BufInv
  <2>1. buf \in [0 .. BUF_SIZE - 1 -> Bytes] /\ \A i \in 0 .. BUF_SIZE - 1 : buf[i] = 0
    BY <1>1, ByteFacts
  <2>2. xfer.len = 0
    BY <1>1 DEF NoXfer
  <2> QED BY <2>1, <2>2, MoreSizes DEF BufInv
<1>6. CommandInv /\ ClockInv /\ WriteInv /\ AddressInv
  BY <1>1, <1>2, <1>4 DEF CommandInv, ClockInv, WriteInv, AddressInv, CommandPlaces, Early
<1>7. /\ regs.fn = 0 /\ regs.lba = 0 /\ regs.count = 0 /\ regs.at = 0 /\ regs \in RegsType
  <2>1. 0 \in Bytes /\ 0 \in Nat /\ FALSE \in BOOLEAN
    BY ByteFacts
  <2>2. /\ regs.fn = 0 /\ regs.lba = 0 /\ regs.count = 0 /\ regs.at = 0
    BY <1>1 DEF NoCall
  <2>3. regs \in RegsType
    BY <1>1, <2>1 DEF NoCall, RegsType
  <2> QED BY <2>2, <2>3
<1>8. CallInv
  <2>1. /\ mem \in [0 .. MemBlocks - 1 -> Seq(Bytes)]
        /\ \A a \in 0 .. MemBlocks - 1 : Len(mem[a]) = BLOCK_SIZE
    <3>1. \A p \in Payloads : p \in Seq(Bytes) /\ Len(p) = BLOCK_SIZE
      BY DriverAssumption DEF Bytes
    <3>2. \A a \in 0 .. MemBlocks - 1 : mem[a] \in Payloads
      BY <1>1
    <3> QED BY <1>1, <3>1, <3>2
  <2>2. rcs \in Seq({0, -1}) /\ before \in [DOMAIN DiskImage -> Bytes]
    BY <1>1, ImageAssumption DEF Bytes
  <2>3. regs.lba <= LastLBA
    BY <1>7, SMT DEF LastLBA
  <2>4. regs.at + regs.count <= MemBlocks
    BY <1>7, MoreSizes
  <2>5. At \notin Serving \cup {"idle"}
    BY <1>2 DEF Serving
  <2> QED BY <1>1, <1>2, <1>7, <2>1, <2>2, <2>3, <2>4, <2>5 DEF CallInv, Serving
<1>9. ReadInv /\ WrittenInv
  BY <1>1, <1>4, <1>7 DEF ReadInv, WrittenInv
<1> QED BY <1>0, <1>4, <1>5, <1>6, <1>8, <1>9 DEF DiskInv, CardInv

(* Every step. *)
LEMMA DiskStep ==
  ASSUME PollsSuffice, DiskInv, [Next]_vars
  PROVE  DiskInv'
<1>1. CASE UNCHANGED vars
  <2>1. UNCHANGED <<pc, xfer, buf, sd_is_sdhc, polls, card, have_mouse, mouse_on, mem, regs, rcs, before>>
    BY <1>1 DEF vars, driver, mouse, caller
  <2>2. At' = At /\ Target' = Target /\ Given' = Given
    BY <2>1 DEF At, Target, Given
  <2>3. DriverInv' /\ CardInv' /\ BufInv' /\ CommandInv' /\ ClockInv'
    BY <2>1, <2>2 DEF DiskInv, DriverInv, TransfersFit, CardInv, BufInv, CommandInv, ClockInv
  <2>4. WriteInv' /\ AddressInv' /\ CallInv' /\ ReadInv' /\ WrittenInv'
    BY <2>1, <2>2 DEF DiskInv, WriteInv, Landed, AddressInv, CallInv, ReadInv, WrittenInv
  <2> QED BY <2>3, <2>4 DEF DiskInv
<1> QED BY <1>1, XferKeepsInv, BootKeepsInv, ServiceKeepsInv, CallKeepsInv DEF Next

(* On a card that is busy no longer than the driver waits, the driver and  *)
(* the card agree in every reachable state about what each of them expects *)
(* of the other: the frame, the answer, the block and the busy bytes.      *)
THEOREM DiskInvariant == PollsSuffice /\ Spec => []DiskInv
<1>1. PollsSuffice /\ DiskInv /\ [Next]_vars => DiskInv'
  BY DiskStep
<1>2. Init => DiskInv
  BY InitDisk
<1>3. PollsSuffice => PollsSuffice'
  BY DEF PollsSuffice
<1> QED BY <1>1, <1>2, <1>3, PTL DEF Spec

(* Every sector that INT 13h reports as read is the card's, at the address *)
(* the caller names.                                                       *)
THEOREM ReadsAlwaysReturnSector == PollsSuffice /\ Spec => []ReadsReturnSector
<1>1. DiskInv => ReadsReturnSector
  <2> SUFFICES ASSUME DiskInv PROVE ReadsReturnSector
    OBVIOUS
  <2> QED BY DEF DiskInv, ReadInv, ReadsReturnSector
<1> QED BY <1>1, DiskInvariant, PTL

(* The sectors a write counts are on the card, all of them when it returns *)
(* without an error, and no other byte of the card ever changes.           *)
THEOREM WritesAlwaysReachSector == PollsSuffice /\ Spec => []WritesReachSector
<1>1. DiskInv => WritesReachSector
  <2> SUFFICES ASSUME DiskInv, pc = "idle" PROVE WritesReachSector
    BY DEF WritesReachSector
  <2>1. At = "idle"
    BY DEF At
  <2> QED BY <2>1 DEF DiskInv, WrittenInv, WritesReachSector
<1> QED BY <1>1, DiskInvariant, PTL
=============================================================================
