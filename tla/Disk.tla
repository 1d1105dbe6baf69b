-------------------------------- MODULE Disk --------------------------------
(***************************************************************************)
(* The BIOS's SD card driver (bios/sd.c) and INT 13h (bios/disk.c) on a    *)
(* card of module SPI.  One step is one byte on the SPI bus or the code    *)
(* between two calls of spi_xfer; pc names what runs when spi_xfer         *)
(* returns.  Sizes are scaled: BLOCK_SIZE for 512, SD_NCR for 8,           *)
(* MAX_DATA_START_OFFS for 512, BUF_SIZE for 1280, POLLS for 32768.        *)
(***************************************************************************)
EXTENDS SPI, Integers, SequencesExt

CONSTANTS SD_NCR, MAX_DATA_START_OFFS, BUF_SIZE, POLLS,
          Cards,         \* the kinds of card
          DiskImage,     \* initial bytes of the card, by position
          Payloads,      \* the blocks a program writes
          MemBlocks,     \* blocks of memory that calls read to and write from
          Calls,         \* registers of the INT 13h calls, and function ah
          MaxCalls       \* bound on the number of calls

ASSUME DriverAssumption ==
  /\ {SD_NCR, MAX_DATA_START_OFFS, BUF_SIZE, POLLS, MaxCalls} \subseteq Nat
  /\ Cards \subseteq {"sim", "sdsc", "sdhc"}
  /\ \A p \in Payloads : p \in Seq(0 .. 255) /\ Len(p) = BLOCK_SIZE

(* The card has its data ready within the driver's limit; it holds bytes.  *)
ASSUME ImageAssumption ==
  /\ \A d \in Delays : d <= MAX_DATA_START_OFFS
  /\ DOMAIN DiskImage \subseteq Nat /\ DiskImage \in [DOMAIN DiskImage -> 0 .. 255]

(* Registers are bytes, sectors of a track are counted from 1, and a       *)
(* program has the memory that it names.                                   *)
ASSUME CallsAssumption ==
  /\ MemBlocks \in Nat
  /\ \A call \in Calls :
       /\ {call.ah, call.al, call.ch, call.cl, call.dh, call.dl} \subseteq 0 .. 255 /\ call.bx \in Nat
       /\ call.ah \in {2, 3} => call.cl % 64 >= 1 /\ call.bx + call.al <= MemBlocks

(* The buffer takes the longest command: 1043 of its 1280 bytes. *)
ASSUME BufferAssumption == BUF_SIZE >= 7 + (4 + BLOCK_SIZE + MAX_DATA_START_OFFS) + SD_NCR

VARIABLES
  pc,         \* "xfer", or what runs next
  xfer,       \* locals of spi_xfer: len, wait_for_resp, src, dst, non_ff_byte_received; and
              \* what runs after it
  buf,        \* spi_xfer_buf
  sd_is_sdhc,
  polls,      \* m of wait_for_write_completion
  have_mouse,
  mouse_on,   \* the mouse reports movements
  card,
  mem,        \* blocks of memory, by number
  regs,       \* the INT 13h call: its registers, lba, count and result
  rcs,        \* results of the sectors of this call
  before,     \* the disk when the call began
  calls       \* number of calls made

driver == <<xfer, buf, sd_is_sdhc, polls, card>>
caller == <<mem, regs, rcs, before, calls>>
mouse == <<have_mouse, mouse_on>>
vars == <<pc, driver, mouse, caller>>

NoXfer == [len |-> 0, wait |-> FALSE, src |-> 0, dst |-> 0, got |-> FALSE, then |-> "boot"]
NoCall == [fn |-> 0, ah |-> 0, lba |-> 0, count |-> 0, i |-> 0, at |-> 0, al |-> 0, cf |-> FALSE,
           status |-> 0]

Init ==
  /\ pc = "sd_init"
  /\ xfer = NoXfer
  /\ buf = [i \in 0 .. BUF_SIZE - 1 |-> 0]
  /\ sd_is_sdhc = FALSE
  /\ polls = 0
  /\ have_mouse \in BOOLEAN
  /\ mouse_on = have_mouse
  /\ \E kind \in Cards : card = NewCard(kind, DiskImage)
  /\ mem \in [0 .. MemBlocks - 1 -> Payloads]
  /\ regs = NoCall
  /\ rcs = << >>
  /\ before = DiskImage
  /\ calls = 0

-----------------------------------------------------------------------------
(* spi_xfer. *)

(* Bytes bs at the start of the buffer, the next n of it high. *)
Fill(bs, n) ==
  [i \in 0 .. BUF_SIZE - 1 |->
     IF i < Len(bs) THEN bs[i + 1] ELSE IF i < n THEN FF ELSE buf[i]]

Start(len, wait, then) ==
  /\ pc' = "xfer"
  /\ xfer' = [len |-> len, wait |-> wait, src |-> 0, dst |-> 0, got |-> FALSE,
              then |-> then]

(* Mutant of spi_xfer: high bytes are skipped inside the answer too. *)
spi_xfer_skips_high ==
  /\ pc = "xfer"
  /\ LET out == IF xfer.src < xfer.len THEN buf[xfer.src] ELSE FF
         src == IF xfer.src < xfer.len THEN xfer.src + 1 ELSE xfer.src
     IN \E c \in transfer(card, out) :
          LET sent == ~xfer.wait /\ src = xfer.len
              keep == ~sent /\ c.rx # FF
              dst == IF keep THEN xfer.dst + 1 ELSE xfer.dst
          IN /\ card' = c
             /\ xfer' = [xfer EXCEPT !.src = src, !.dst = dst, !.got = @ \/ keep]
             /\ buf' = IF keep THEN [buf EXCEPT ![xfer.dst] = c.rx] ELSE buf
             /\ pc' = IF sent \/ dst = xfer.len THEN xfer.then ELSE pc
  /\ UNCHANGED <<sd_is_sdhc, polls, mouse, caller>>

(* One round of the loop: a byte out, wait until it is through, a byte in. *)
spi_xfer ==
  /\ pc = "xfer"
  /\ LET out == IF xfer.src < xfer.len THEN buf[xfer.src] ELSE FF
         src == IF xfer.src < xfer.len THEN xfer.src + 1 ELSE xfer.src
     IN \E c \in transfer(card, out) :
          LET sent == ~xfer.wait /\ src = xfer.len
              keep == ~sent /\ (xfer.got \/ c.rx # FF)
              dst == IF keep THEN xfer.dst + 1 ELSE xfer.dst
          IN /\ card' = c
             /\ xfer' = [xfer EXCEPT !.src = src, !.dst = dst, !.got = @ \/ keep]
             /\ buf' = IF keep THEN [buf EXCEPT ![xfer.dst] = c.rx] ELSE buf
             /\ pc' = IF sent \/ dst = xfer.len THEN xfer.then ELSE pc
  /\ UNCHANGED <<sd_is_sdhc, polls, mouse, caller>>

(* Mutant of spi_command_len: the wait for the data is counted twice. *)
spi_command_len_twice(rx_datalen) ==
  1 + 6 + rx_datalen + SD_NCR + (IF rx_datalen > 5 THEN MAX_DATA_START_OFFS ELSE 0)

spi_command_len(rx_datalen) == 1 + 6 + rx_datalen + SD_NCR

(* The CRC, a constant of each command in the code, is the same here. *)
spi_do_command(cmd, arg, rx_datalen, then) ==
  LET len == spi_command_len(rx_datalen)
  IN /\ buf' = Fill(<<FF, cmd>> \o arg \o <<149>>, len)
     /\ card' = [card EXCEPT !.selected = TRUE]
     /\ Start(len, TRUE, then)

NoArg == <<0, 0, 0, 0>>

(* find_r1_response: -1 when every byte is high. *)
R1Offs ==
  LET at == {i \in 0 .. BUF_SIZE - 1 : buf[i] # FF}
  IN IF at = {} THEN -1 ELSE Min(at)
Failed == R1Offs < 0 \/ (R1Offs >= 0 /\ buf[R1Offs] > 1)

-----------------------------------------------------------------------------
(* sd_init and sd_boot. *)

panic == pc' = "panic" /\ UNCHANGED <<xfer, buf, card>>
OrPanic(next) == IF Failed THEN panic ELSE next

sd_send_initial_clock ==
  /\ pc = "sd_init"
  /\ buf' = Fill(High(8), 8)
  /\ card' = [card EXCEPT !.selected = FALSE]
  /\ Start(8, FALSE, "flush")
  /\ UNCHANGED <<sd_is_sdhc, polls, mouse, caller>>

(* The code fills 128 bytes and sends 8. *)
sd_flush_fifo ==
  /\ pc = "flush"
  /\ buf' = Fill(High(8), 8)
  /\ card' = [card EXCEPT !.selected = TRUE]
  /\ Start(8, FALSE, "reset")
  /\ UNCHANGED <<sd_is_sdhc, polls, mouse, caller>>

sd_send_reset ==
  /\ pc = "reset"
  /\ spi_do_command(GO_IDLE, NoArg, 1, "if_cond")
  /\ UNCHANGED <<sd_is_sdhc, polls, mouse, caller>>

sd_send_if_cond ==
  /\ pc = "if_cond"
  /\ OrPanic(spi_do_command(IF_COND, <<0, 0, 1, 170>>, 1, "ocr"))
  /\ UNCHANGED <<sd_is_sdhc, polls, mouse, caller>>

(* Bit 30 of the OCR, in the byte after R1. *)
HighCapacity == IF R1Offs < 0 THEN sd_is_sdhc ELSE (buf[R1Offs + 1] \div 64) % 2 = 1

sd_send_read_ocr ==
  /\ pc = "ocr"
  /\ OrPanic(spi_do_command(READ_OCR, NoArg, 5, "wait_ready"))
  /\ UNCHANGED <<sd_is_sdhc, polls, mouse, caller>>

(* sd_wait_ready: APP_CMD and OP_COND until the card is no longer idle. *)
send_acmd ==
  /\ pc \in {"wait_ready", "poll_again"}
  /\ sd_is_sdhc' = IF pc = "wait_ready" THEN HighCapacity ELSE sd_is_sdhc
  /\ OrPanic(IF pc = "poll_again" /\ buf[R1Offs] = 0
             THEN spi_do_command(READ_OCR, NoArg, 5, "blocklen")
             ELSE spi_do_command(APP_CMD, NoArg, 1, "op_cond"))
  /\ UNCHANGED <<polls, mouse, caller>>

sd_wait_ready ==
  /\ pc = "op_cond"
  /\ OrPanic(spi_do_command(OP_COND, <<64, 0, 0, 0>>, 1, "poll_again"))
  /\ UNCHANGED <<sd_is_sdhc, polls, mouse, caller>>

(* Mutant of sd_set_blocklen: what the card said after it was ready is not *)
(* looked at.                                                              *)
sd_set_blocklen_early_ocr ==
  /\ pc = "blocklen"
  /\ OrPanic(spi_do_command(SET_BLOCKLEN, <<0, 0, 2, 0>>, 1, "boot"))
  /\ UNCHANGED <<sd_is_sdhc, polls, mouse, caller>>

sd_set_blocklen ==
  /\ pc = "blocklen"
  /\ sd_is_sdhc' = HighCapacity
  /\ OrPanic(spi_do_command(SET_BLOCKLEN, <<0, 0, 2, 0>>, 1, "boot"))
  /\ UNCHANGED <<polls, mouse, caller>>

-----------------------------------------------------------------------------
(* Sectors. *)

Suspend == mouse_on' = FALSE
Resume == mouse_on' = have_mouse

ArgOf(a) == <<(a \div 16777216) % 256, (a \div 65536) % 256, (a \div 256) % 256, a % 256>>
AddressArg(sector) == ArgOf(IF sd_is_sdhc THEN sector ELSE sector * BLOCK_SIZE)

read_sector(sector, then) ==
  /\ Suspend
  /\ spi_do_command(READ_BLOCK, AddressArg(sector),
                    1 + 1 + BLOCK_SIZE + 2 + MAX_DATA_START_OFFS, then)

(* The offset after the first start token behind R1, or -1. *)
find_data_start ==
  LET at == {i \in R1Offs + 1 .. BUF_SIZE - 1 : buf[i] = DATA_START_TOKEN}
  IN IF at = {} THEN -1 ELSE Min(at) + 1

ReadOk == ~Failed /\ find_data_start >= 0

(* The copied block.  Bytes behind the end of the buffer are whatever lies *)
(* there: taken as zero.                                                   *)
Copied == [i \in 1 .. BLOCK_SIZE |->
             LET k == find_data_start + i - 1 IN IF k < BUF_SIZE THEN buf[k] ELSE 0]

sd_make_write_request(sector) ==
  /\ Suspend
  /\ spi_do_command(WRITE_BLOCK, AddressArg(sector), 1, "write_block")

sd_write_block(block) ==
  /\ buf' = Fill(<<FF, DATA_START_TOKEN>> \o block \o <<0, 0, FF>>, 0)
  /\ Start(5 + BLOCK_SIZE, TRUE, "written")
  /\ UNCHANGED card

write_received(packet_response) ==
  packet_response % 2 = 1 /\ (packet_response \div 2) % 8 = 2

-----------------------------------------------------------------------------
(* sd_boot reads sector 0 and leaves the BIOS. *)
sd_boot ==
  /\ pc = "boot"
  /\ IF Failed THEN panic /\ UNCHANGED mouse_on ELSE read_sector(0, "booted")
  /\ UNCHANGED <<sd_is_sdhc, polls, have_mouse, caller>>

Booted ==
  /\ pc = "booted"
  /\ pc' = IF ReadOk THEN "idle" ELSE "panic"
  /\ Resume
  /\ UNCHANGED <<driver, have_mouse, caller>>

-----------------------------------------------------------------------------
(* INT 13h.  disk_services sets CF before it looks at the function. *)

FLOPPY_TIMEOUT == 128

(* Registers after set_disk_status. *)
set_disk_status(r, err) == [r EXCEPT !.cf = err # 0, !.status = err, !.ah = err]

LBA(call) ==
  LET cylinder == call.ch + 256 * (call.cl \div 64)
  IN (cylinder * 32 + call.dh) * 63 + ((call.cl % 64) - 1)

(* The simulated card is modelled inside its image: a read behind the end  *)
(* leaves its stream failed, a write makes the file longer.                *)
ASSUME InsideAssumption ==
  "sim" \in Cards =>
    /\ Positions(0) \subseteq DOMAIN DiskImage
    /\ \A call \in Calls : call.ah \in {2, 3} /\ call.dl = 128 =>
         \A i \in 0 .. call.al - 1 :
           Positions(BLOCK_SIZE * (LBA(call) + i)) \subseteq DOMAIN DiskImage

Called(call, r) ==
  /\ pc = "idle"
  /\ calls < MaxCalls
  /\ calls' = calls + 1
  /\ regs' = [r EXCEPT !.fn = call.ah, !.i = 0]
  /\ rcs' = << >>
  /\ before' = card.disk
  /\ UNCHANGED <<driver, mouse, mem>>

(* disk_read and disk_write up to their loop. *)
disk_transfer(call) ==
  /\ call.ah \in {2, 3}
  /\ IF call.dl # 128
     THEN /\ Called(call, set_disk_status([regs EXCEPT !.al = call.al, !.count = 0],
                                          FLOPPY_TIMEOUT))
          /\ UNCHANGED pc
     ELSE /\ Called(call, [regs EXCEPT !.lba = LBA(call), !.al = 0,
                                       !.count = call.al, !.cf = FALSE, !.at = call.bx])
          /\ pc' = "sector"

(* disk_reset, disk_parameters and disk_get_type; disk_status leaves CF    *)
(* set, and so does a function that is not there.                          *)
disk_other(call) ==
  LET r == [regs EXCEPT !.ah = call.ah, !.al = call.al, !.count = 0, !.cf = TRUE]
  IN /\ call.ah \notin {2, 3}
     /\ Called(call,
          CASE call.ah \in {0, 1, 8, 21} /\ call.dl # 128 -> set_disk_status(r, FLOPPY_TIMEOUT)
            [] call.ah \in {0, 8} /\ call.dl = 128 -> set_disk_status(r, 0)
            [] call.ah = 21 /\ call.dl = 128 -> [r EXCEPT !.ah = 3, !.cf = FALSE]
            [] OTHER -> r)
     /\ UNCHANGED pc

(* The head of the loops of disk_read and disk_write, and their end. *)
NextSector ==
  /\ pc = "sector"
  /\ regs.i < regs.count
  /\ IF regs.fn = 2 THEN read_sector(regs.lba + regs.i, "read")
     ELSE sd_make_write_request(regs.lba + regs.i)
  /\ UNCHANGED <<sd_is_sdhc, polls, have_mouse, caller>>

LastSector ==
  /\ pc = "sector"
  /\ regs.i = regs.count
  /\ regs' = set_disk_status(regs, IF regs.al # regs.count THEN 255 ELSE 0)
  /\ pc' = "idle"
  /\ UNCHANGED <<driver, mouse, mem, rcs, before, calls>>

(* The result of read_sector is not looked at. *)
SectorRead ==
  /\ pc = "read"
  /\ rcs' = Append(rcs, IF ReadOk THEN 0 ELSE -1)
  /\ mem' = IF ReadOk THEN [mem EXCEPT ![regs.at + regs.i] = Copied] ELSE mem
  /\ regs' = [regs EXCEPT !.i = @ + 1, !.al = @ + 1]
  /\ Resume
  /\ pc' = "sector"
  /\ UNCHANGED <<driver, have_mouse, before, calls>>

(* Mutant of SectorWritten: the result is dropped, as disk_read does. *)
SectorWritten_ignored(rc) ==
  /\ rcs' = Append(rcs, rc)
  /\ regs' = [regs EXCEPT !.i = @ + 1, !.al = @ + 1]
  /\ pc' = "sector"
  /\ UNCHANGED <<mem, before, calls>>

(* write_sector returned rc: the loop goes on, or breaks. *)
SectorWritten(rc) ==
  /\ rcs' = Append(rcs, rc)
  /\ regs' = IF rc = 0 THEN [regs EXCEPT !.i = @ + 1, !.al = @ + 1]
             ELSE [regs EXCEPT !.i = regs.count]
  /\ pc' = "sector"
  /\ UNCHANGED <<mem, before, calls>>

(* Mutant of Refused: the mouse stays suspended. *)
Refused_mouse_off ==
  /\ \/ pc = "write_block" /\ Failed
     \/ pc = "written" /\ ~write_received(buf[0])
  /\ SectorWritten(-1)
  /\ UNCHANGED <<driver, mouse>>

(* write_sector's early returns: the request or the block was refused. *)
Refused ==
  /\ \/ pc = "write_block" /\ Failed
     \/ pc = "written" /\ ~write_received(buf[0])
  /\ SectorWritten(-1)
  /\ Resume
  /\ UNCHANGED <<driver, have_mouse>>

Accepted ==
  /\ pc = "write_block" /\ ~Failed
  /\ sd_write_block(mem[regs.at + regs.i])
  /\ UNCHANGED <<sd_is_sdhc, polls, mouse, caller>>

Received ==
  /\ pc = "written" /\ write_received(buf[0])
  /\ polls' = 0
  /\ pc' = "poll"
  /\ UNCHANGED <<xfer, buf, sd_is_sdhc, card, mouse, caller>>

(* wait_for_write_completion. *)
PollWrite ==
  /\ pc = "poll" /\ polls < POLLS
  /\ buf' = Fill(<<FF>>, 0)
  /\ Start(1, TRUE, "polled")
  /\ UNCHANGED <<sd_is_sdhc, polls, card, mouse, caller>>
Polled ==
  /\ pc = "polled" /\ buf[0] = 0
  /\ polls' = polls + 1
  /\ pc' = "poll"
  /\ UNCHANGED <<xfer, buf, sd_is_sdhc, card, mouse, caller>>
wait_for_write_completion ==
  /\ \/ pc = "poll" /\ polls = POLLS /\ SectorWritten(-1)
     \/ pc = "polled" /\ buf[0] # 0 /\ SectorWritten(0)
  /\ Resume
  /\ UNCHANGED <<driver, have_mouse>>

-----------------------------------------------------------------------------
Boot ==
  \/ sd_send_initial_clock \/ sd_flush_fifo \/ sd_send_reset \/ sd_send_if_cond
  \/ sd_send_read_ocr \/ send_acmd \/ sd_wait_ready \/ sd_set_blocklen
  \/ sd_boot \/ Booted

Service ==
  \/ NextSector \/ LastSector \/ SectorRead \/ Refused \/ Accepted \/ Received
  \/ PollWrite \/ Polled \/ wait_for_write_completion

Next ==
  \/ spi_xfer \/ Boot \/ Service
  \/ \E call \in Calls : disk_transfer(call) \/ disk_other(call)

(* The processor runs the BIOS; programs need not call it. *)
Fairness == WF_vars(spi_xfer \/ Boot \/ Service)
Spec == Init /\ [][Next]_vars /\ Fairness

-----------------------------------------------------------------------------
Sector(disk, s) == Block(disk, BLOCK_SIZE * s)

(* Transfers stay inside spi_xfer_buf (bios/sd.c:29), whichever command    *)
(* they are for, and the response, stored from the first byte that is not  *)
(* high, never overwrites a byte that is still to be sent.                 *)
TransfersFit ==
  /\ DOMAIN buf = 0 .. BUF_SIZE - 1
  /\ xfer.dst <= xfer.src /\ xfer.src <= xfer.len /\ xfer.len <= BUF_SIZE

(* Every sector that read_sector reports as read is the card's sector, at  *)
(* the address the caller's cylinder, head and sector name, however long   *)
(* the card took within its limit and whatever bytes the sector holds      *)
(* (find_r1_response, find_data_start, the two address formats).           *)
ReadsReturnSector ==
  pc = "idle" /\ regs.fn = 2 =>
    \A i \in 1 .. Len(rcs) :
      rcs[i] = 0 => mem[regs.at + i - 1] = Sector(card.disk, regs.lba + i - 1)

(* The sectors a write counts in AL are stored on the card, and all of     *)
(* them when it returns without an error, whichever of them was refused,   *)
(* and no other sector of the card ever changes.                           *)
WritesReachSector ==
  pc = "idle" =>
    /\ regs.fn = 3 /\ regs.count > 0 =>
         /\ \A i \in 0 .. regs.al - 1 :
              Sector(card.disk, regs.lba + i) = mem[regs.at + i]
         /\ ~regs.cf => regs.al = regs.count
    /\ \A pos \in DOMAIN before :
         card.disk[pos] # before[pos] =>
           regs.fn = 3 /\ pos \div BLOCK_SIZE - regs.lba \in 0 .. Len(rcs) - 1

(* Whatever failed, the mouse reports again when a call returns            *)
(* (mouse_suspend and mouse_resume on every path of bios/sd.c).            *)
MouseResumed == pc = "idle" => (mouse_on <=> have_mouse)

(* The boot ends, with a running program or a panic, and every read        *)
(* returns: neither waits without end for a card that answers (spi_xfer    *)
(* and sd_wait_ready have no limit of their own).  Of a write nothing is   *)
(* said: a card that is done before it is polled leaves the bus high.      *)
ReadsReturn ==
  /\ <>(pc \in {"idle", "panic"})
  /\ (pc = "sector" /\ regs.fn = 2) ~> (pc = "idle")

(* INT 13h reports success for a write exactly when the card stored every  *)
(* sector: sim/SPI.cpp:112 answers "Received OK." for a block it stored,   *)
(* and sim/SPI.h:32 promises "no real errors".                             *)
StatusTruthful ==
  pc = "idle" /\ regs.fn = 3 /\ regs.count > 0 =>
    (~regs.cf <=> \A i \in 0 .. regs.count - 1 :
                    Sector(card.disk, regs.lba + i) = mem[regs.at + i])
=============================================================================
