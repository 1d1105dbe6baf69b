# Verification of the s80x86 core and its system-on-chip

TLA+ models of the 80186-compatible CPU core (`rtl/`), of the memory system and
peripherals around it (`fpga/`), of the C++ instruction-set model and the
simulator (`sim/`) and of the BIOS drivers (`bios/`); TLC runs that check them
on small instances and TLAPS proofs for instances of every size. `PROJECT.json`
maps each definition to the source lines it models; paths below are relative to
`src/`.

1. [The system](#the-system)
2. [How hardware and software are modelled](#how-hardware-and-software-are-modelled)
3. [The modules](#the-modules)
4. [The runs](#the-runs)
5. [Fairness](#fairness)
6. [What is proved](#what-is-proved)
7. [Disagreements found](#disagreements-found)
8. [Further observations](#further-observations)
9. [What is not modelled](#what-is-not-modelled)
10. [Plan](#plan)

## The system

`rtl/Core.sv` is a microcoded CPU. Instructions come from memory through a
prefetcher and a six-byte queue, are decoded into a queue of instructions, and
run as microprograms that a microsequencer steps through. `fpga/common/Top.sv`
puts the core on a board: an arbiter joins its instruction and data ports, a
write-back cache sits before the SDRAM controller, and an interrupt controller,
timer, PS/2, UART, SPI and VGA hang off the I/O bus. `bios/` is the C firmware,
`sim/` a simulator of the same machine with either the RTL or a C++ CPU model.

| Component | State it keeps | Operations | Correct when |
|---|---|---|---|
| FIFO (`rtl/Fifo.sv`) | RAM, read and write pointer, count | write, read, both in one cycle, flush, reset | it is a bounded queue for every depth, also one that is not a power of two |
| Prefetcher (`rtl/Prefetch.sv`) | CS and offset being fetched, target of a branch that came meanwhile, high byte due | request, acknowledge, second byte, new CS:IP | the bytes the decoder reads are the program's; the queue neither overflows nor runs dry for good |
| Arbiter (`rtl/MemArbiter.sv`) | the granted port | grant, acknowledge | a master gets its own answers only, and a request holds still while it is served |
| Load/store unit (`rtl/LoadStore.sv`) | MAR, MDR, which half of an unaligned word is being accessed | aligned, unaligned and I/O access | bytes land in their halves; complete comes once for each access |
| CS:IP synchroniser, IP (`rtl/CSIPSync.sv`, `rtl/IP.sv`) | pending CS and IP updates, start address of the instruction | update, propagate, roll back | the prefetcher and the program counter move together |
| Decoder, immediate reader (`rtl/InsnDecoder.sv`, `rtl/ImmediateReader.sv`) | prefixes, instruction being assembled | take a byte, flush | the decoded instruction is the one in the bytes, however slowly they come |
| Microsequencer (`rtl/microcode/Microcode.sv.templ`, `*.us`) | microaddress, current instruction, pending NMI, inhibit and trap flags | next microinstruction, interrupt, NMI, single step, fault, debugger | events are taken between instructions or where a string instruction allows it, once each, and nothing of the interrupted work is lost |
| ALU, divider, loop counter, flags | operands, remainder and quotient | one operation | results are those of the 80186 |
| Cache (`fpga/common/Cache.sv`) | tag, valid, dirty and line RAMs, the line being transferred | hit, fill, write-back | it is invisible to the CPU |
| SDRAM controller (`fpga/sdram/SDRAMController.sv`) | command state, timers, open row of each bank | initialise, refresh, activate, read, write, precharge, reset | the device gets only commands it can take, is refreshed in time, and keeps its data |
| PIC (`fpga/pic/PIC.sv`) | request, service and mask registers, initialisation state | edge, acknowledge, EOI, set-up | the CPU takes the line that the PIC puts in service; priorities nest |
| Timer, PS/2, UART, SPI, VGA, JTAG bridge | counters, shift registers, queues, clock-domain crossings | port accesses and line events | data crosses once and whole |
| C++ model (`sim/cppmodel/`) | registers, flags, memory, ports, pending IRQ and NMI | one instruction with its prefixes, interrupt, NMI and trap entry, reset | results are the 80186's; an interrupt leaves no trace in the program it interrupts |
| Simulated devices (`sim/*.h`, `SPI.cpp`, `RTLCPU/`) | PIC registers, byte queues of keyboard, mouse and terminal, SD card | key, character, movement, tick, port access, save and restore | every request reaches its handler, and none is shut out for good |
| BIOS console (`bios/keyboard.c`, `serial.c`, `mouse*`, `timer.c`, `entry.S`) | key buffer, modifier flags, tick count, mouse packet | IRQ handlers, INT 16h, 1Ah and the mouse services of INT 15h | keys in order, packets whole, waits end |
| BIOS disk (`bios/sd.c`, `disk.c`) | transfer buffer, card type, status | card initialisation, INT 13h | what `read_sector` or INT 13h says it read or wrote is on the card (INT 13h reads are an exception, see the observations) |
| BIOS output (`display.c`, `printk.c`) | screen contents | INT 10h | |

The hardware parts interact through three handshakes. A **memory access** is held up until it
is acknowledged, one master at a time, any number of cycles; the arbiter, cache
and SDRAM controller pass it on. A **new CS:IP** goes from the microcode to the
prefetcher, flushes the queues and may overtake a fetch that memory is still
working on. An **interrupt** goes from a line through the PIC (`intr`, `irq`) to
the microsequencer, and back as an acknowledge (`inta`) a cycle later.

In the simulator, `Simulator::run` alternates the CPU and the devices: a device
adds a byte to its queue and raises its line, the simulated PIC passes a number
to the CPU, a BIOS handler reads the port and ends the interrupt. BIOS services
run with interrupts disabled and poll the same ports as the handlers.

What is hard, and listed line by line under "hazards" in `PROJECT.json`: all
of the hardware parts run at once; memory takes any time to answer, so that a
branch, an interrupt or a reset falls into every phase of an access; values are
sampled in one cycle and used in a later one (vector and acknowledge, tag lookup
and fill, open-row table and device); interrupts cut into instructions that must
be resumed; queues and timers are at their limits exactly when something else
happens; handlers and services of the BIOS take bytes from the same queues;
a card answers late, refuses or stays busy; and arithmetic has its carries,
overflows and adjustments at the edges of its ranges.

## How hardware and software are modelled

The RTL is synchronous. A register is a variable, and **one step of a module is
one rising clock edge**: the component's `...Clock(pins)` action gives every
register its next value from the values before the edge, with the input pins as
parameters. Combinational outputs are operators with their signal's name.
Composing modules conjoin the `Clock` actions of the components, connect the
pins as `Core.sv` and `Top.sv` do, and choose the remaining inputs (memory
latency, interrupt lines, what the program does) with `\E`. Registers
that a reset leaves alone start with any value; the cache has no reset at all,
and starts from the cleared state in which an FPGA powers up.

Data is reduced to what the properties tell apart. Memories follow one byte
lane: the byte enables of the two lanes act alike. In the cache and the SDRAM
one byte at one address is tracked with fresh values while all other addresses hold
another one, so that a lost, stale or misplaced word shows. The microprograms
are reduced to the places that the sequencing logic distinguishes. Variables
that the hardware does not have (`arch_cs`, `next_ip`, `expected`, `age`,
`handling`, `string`...) say what the program may rely on; no action's guard
that models hardware depends on them.

Software is modelled in coarser steps. In `Emulator` a step is one call of
`EmulatorPimpl::step`: an instruction with all of its prefixes and repetitions,
or an interrupt entry. In `Console` and `Disk` it is one access to a device with
the code up to the next one, since nothing else can see what lies between;
devices act between the steps. Bytes of keyboard and mouse carry the number
of the input they came from, so that loss, duplication and reordering show.
In `Disk` the bytes on the bus are the real ones, with shorter blocks.

## The modules

| Module | Models | Uses |
|---|---|---|
| `BoundedQueue` | what a FIFO promises (abstract specification) | |
| `Fifo`, `FifoProofs` | `rtl/Fifo.sv` | implements `BoundedQueue` |
| `Prefetch`, `MemArbiter` | `rtl/Prefetch.sv`, `rtl/MemArbiter.sv` | |
| `FetchUnit`, `FetchProofs` | the fetch path of `rtl/Core.sv` with arbiter, memory and core | `Prefetch`, `MemArbiter`, `BoundedQueue` in place of `Fifo` |
| `Cache`, `CachedMemory`, `CacheProofs` | `fpga/common/Cache.sv`; with a bus master and the SDRAM | |
| `SDRAMController`, `SDRAM`, `SDRAMProofs` | `fpga/sdram/SDRAMController.sv`; with a device on its pins (external) and a host | |
| `PIC`, `Microsequencer` | `fpga/pic/PIC.sv`, `Microcode.sv.templ` with the shape of the microprograms | |
| `Interrupts`, `InterruptProofs` | core and PIC as wired in `Top.sv`, running any program | `PIC`, `Microsequencer` |
| `ALU` | `do_alu` of `sim/cppmodel/Emulate.cpp`, the arithmetic, decimal, shift and rotate instructions, the conditions of the jumps | |
| `ALULaws`, `ALUProofs` | what that arithmetic must satisfy | `ALU` |
| `Instructions`, `InstructionSet` | register file, ModR/M decoding, operand forms; all other instructions and the opcode dispatch | `ALU` |
| `Emulator` | `step`: interrupts, NMI, single step, inhibition, reset | `InstructionSet` |
| `SPI`, `Disk`, `DiskProofs` | the SD card of `sim/SPI.cpp` and real cards (external); `bios/sd.c`, `bios/disk.c` | |
| `SimPIC` | the simulator's interrupt controller and lines (`sim/`) | |
| `Console`, `ConsoleProofs` | simulated devices, both CPUs' interrupt handshake, the BIOS's handlers and services | `SimPIC` |
| `MC...` | the constants of the model-checking instances; `MCEmulator` holds the programs and walks through the operands of `ALULaws` | |

**Fetch path.** `FetchUnit` has the prefetcher's ten registers, the queue, the
arbiter's grant, the load/store unit's handshake and a core that consumes bytes,
accesses memory, branches and takes interrupts when the microcode could.
`pending` is the set of memory ports that have seen a request; an
acknowledgement comes in any later cycle. An interrupt entry makes
`IntAccesses` data accesses before it delivers CS:IP. This detail is what makes
the prefetcher right: see the invariant below.

**Cache.** Lookup takes a cycle; a miss fills the line starting at the word
asked for, and the CPU is served from the line while the rest arrives. RAMs are
dual-ported with the bypass of `BlockRam`. `enabled` is 1, as `Top.sv` ties it.

**SDRAM.** The controller's state machine with its real command timings. The
device is external and modelled from the commands the controller issues: open
row per bank, the time each command occupies, read data after the CAS latency.

**Interrupts.** `Microsequencer` is `next_addr` with all of its cases and the
registers that feed them. The main program is any sequence of the
instructions of its session (`Kinds`), which stand for all with the same sequencing: `plain`,
`divide` (may fault, has a ModR/M), `hold` (ends with `ext_int_inhibit`),
`iret`, `trap`, `long` (too many prefixes), `hlt`, `move` and `scan` (REP string
instructions). Handlers nest to any depth; nesting is abstracted to the flag
`handling`, and a return may go to another handler or to the main program. A
handler runs no string instruction, so that one count suffices. A session also
fixes the interrupt lines in use and whether a debugger may seize the core.

**C++ model.** A machine state is a record, an instruction handler an operator
from record to record named after the C++ handler (with several opcodes in one
operator where only the operand form differs; the width is a modulus, 256 or
65536). `emulate_insn` decodes up to `MaxPrefixes` prefixes and dispatches on the
opcode; `step` takes NMI, IRQ and the trap in the order of the code, before
an instruction or at its tail. `ALULaws` does not compute the arithmetic a
second time: its laws compose instructions (CMP and a jump, ADD and
ADC, ADC and DAA, MUL and DIV, ROL and ROR) and compare with integer arithmetic.

**Disk.** `pc` is the place after the `spi_xfer` in progress; `spi_xfer` is one
byte in each direction, with the rule that stores the response from the first
byte that is not high. The card `sim` is translated from `sim/SPI.cpp`; `sdsc`
and `sdhc` stand for real cards, with byte and block addresses, and choose
delays, refusals and busy times.

**Console.** `stack` holds the handlers in progress, with how far they are;
`svc` the BIOS service in progress. `SoftwareCPU` takes the pending number and
acknowledges in one step; `RTLCPU` samples the vector in one cycle and acknowledges in the
next. `Restart` is save and restore of the simulator, with what the
archive leaves out. The user hook of INT 1Ch and the mouse driver run
with interrupts as the BIOS calls them, and the hook may enable them.

## The runs

| Run | Shows | Instance |
|---|---|---|
| `fifo` | refinement of `BoundedQueue` | depth 5, not a power of two, so the explicit wrap matters; two values tell order |
| `fetch` | bytes are the program's, no byte dropped, requests hold still, the stream flows; the inductive invariant | queue depth 6 and threshold 2 as in `Core.sv`; eight bytes of IP, so offsets wrap within the queue; two segments, one of which wraps around memory; all bytes distinct |
| `cache` | invisible, clean lines equal memory, transfers hold still, every request answered | two tags, two lines of two words: conflict misses, hits under fill, dirty evictions; the tracked byte, in either word of its line, is written with two values, so that a write that is lost, or a line dropped without its dirty mark, shows |
| `sdram` | legal commands, data kept, no starvation | two banks of two rows, one reset, real timings in cycles, `tRef` 16 so that refreshes meet every phase of an access |
| `sdram_refresh` | *violation*, below | one row, no reset, the refresh interval of 390 cycles that the code computes at 50 MHz |
| `interrupts` | CPU and PIC agree on the vector; string instructions are resumed; NMIs are taken | three sessions: two lines (nesting and priority) with masks and traps; one line with faults and string instructions with counts up to 2, so that an interrupt may come with an iteration still to do and with none; one line with a debugger |
| `interrupts_halt` | *violation*, below | programs with HLT |
| `interrupts_scan` | *violation*, below | programs with CMPS/SCAS |
| `emulator` | interrupts are transparent, served once and do not disturb tracing; programs end with the right results; the arithmetic obeys its laws | fourteen programs that use every group of instructions, six inputs each at the edges of signed and unsigned words; one input again after a reset with one IRQ and one NMI at any two instructions. For the arithmetic (comparisons, multi-precision and decimal arithmetic, division, shifts) all pairs of bytes, twenty words around the carries and the sign, both carries: a behaviour without a program walks through the second operands |
| `disk` | sectors read and written are the card's, nothing overruns, the mouse is resumed, reads return | blocks of two bytes, sectors 0, 255 and 256 with data that look like tokens, delays of the data up to `MAX_DATA_START_OFFS`, busy times shorter and longer than `POLLS` polls; two calls |
| `disk_status` | *violation*, below | the simulator's card |
| `console` | keys in order, packets whole, lines released, waits return, ticks served | key buffer of 3 (it holds 2, so it fills and wraps); a day of two ticks; two nested handlers; four sessions, each with the devices it uses and its bound on inputs: four keys, three mouse packets, and mixes with the timer |

All passing runs check for deadlock but two: in `emulator` the program, or the
operands, come to their end, and in `disk` the BIOS stops for good after a panic. Bounds in guards are `MaxResets` (resets;
after one the system is in an arbitrary phase, a second one adds nothing that
the first has not met), `MaxCount` (CX of a string instruction), the age
counter of `SDRAM`, which stops one above the largest bound it is compared with,
`MaxRaises` (IRQs and NMIs in a program: one each nest in both orders),
`MaxPrefixes` (15; longer instructions are in the observations), `MaxCalls`
(the second disk call starts from whatever the first left behind), `MaxIdle` (polls
until a card is ready), `MaxNesting` and the inputs of a session. No symmetry
reduction is used: most runs check liveness.

Properties worth a word:

- `StreamMatchesProgram` is stated over the whole queue, against memory at the
  CS:IP the program is at. It takes a branch, a late acknowledgement and often
  a second branch to violate.
- `CleanLinesMatchMemory` is why a fill may drop a line without writing it back.
- `CommandsLegal` relates the controller's open-row table to the device. A reset
  in the middle of a command leaves rows open in a device that has no reset.
- `VectorInService` spans two cycles and two components: `irq` is sampled before
  `inta`, while lines rise and the mask and EOI registers are written.
- `StringsFinish`: a string instruction that something cuts into is resumed
  before the program goes on.
- `InterruptsTransparent` compares with the outcome of an uninterrupted run of
  the same program, and so needs no statement of what the program computes.
- `ReadsReturnSector` holds for data that look like a response, a token or an
  idle bus, which the driver tells apart by position only.
- `LinesReleased` holds although the CPU of the simulator may acknowledge
  another line than the one it serves.
- `TicksServed` says that no sequence of lost edges, masked lines and restarts
  leaves the clock standing.

## Fairness

`FetchUnit` and `CachedMemory` assume that the clock runs (`WF` on the clock
step; for the cache only while a request waits; for the fetch path on a cycle without a branch, as a program that
branches for ever may see no byte twice) and that a memory that has seen a
request answers it (`WF` on the answer). The second is what the `sdram` run
shows of the controller (`RequestsCompleted`), which itself assumes only that
the clock runs. `Interrupts` assumes nothing: `NMITaken` says in its statement
what it needs, namely that again and again two instructions in a row do not
inhibit interrupts, since instructions that do may follow each other. That the
core is not stalled for ever is part of it.

The simulator's loop calls `step` again and again: `Emulator`'s fairness is
that of its step, stated so that TLC need not evaluate the step for it. `Disk`
assumes that the processor runs the BIOS (`WF` on the driver's steps) and nothing of
programs; that a card becomes ready and ends being busy is in the card's
bounds. `Console` assumes `WF` for handlers, services and the acknowledge,
`SF` for taking an interrupt (a CPU that meets a pending interrupt with IF set
again and again takes it) and `SF` for the timer's tick outside of the one
cycle between sample and acknowledge of `RTLCPU`: the timer's period is
unrelated to it. Nothing is assumed of the user.

## What is proved

With TLAPS, for all constants that satisfy the named assumptions of the modules:

| Theorem | Statement |
|---|---|
| `FifoTypeCorrect` | pointers and count stay in range, for every depth |
| `FifoImplementsQueue` | `Fifo` implements `BoundedQueue`, for every depth and data |
| `FetchInvariant` | `FetchInv` holds on a shared bus, for every queue depth and threshold of at least one, segment set, memory and number of interrupt accesses |
| `StreamCorrect` | `StreamMatchesProgram` |
| `QueueNeverOverflows` | `NoByteDropped` |
| `RequestNeverMoves` | `RequestStable` |
| `CacheTransparent` | `ReadsReturnLastWrite` of `CachedMemory`, for every number of lines and tags, lines of two words or more, any latency of the SDRAM |
| `CleanLinesDroppable` | `CleanLinesMatchMemory`, likewise |
| `PinsHeld` | `TransferStable`, likewise |
| `ProtocolKept` | `CommandsLegal`, for every number of banks, rows and columns and all timings, with resets at any time |
| `DataKept` | `ReadsReturnLastWrite` of `SDRAM`, likewise |
| `RefreshLateness` | two refreshes are no farther apart than `WorstRefreshGap` (`RefreshGapBounded`), likewise; `tRef` itself is not kept (`sdram_refresh`) |
| `VectorAlwaysInService` | `VectorInService`, for any number of lines and any program |
| `OnlyHaltAbandons` | an interrupt entry is abandoned only while HLT is the current instruction, by a request or a due trap, for every program; `EntriesComplete` itself is false (`interrupts_halt`) |
| `StringsAlwaysFinish` | `StringsFinish`, for any program and any number of lines |
| `ComparisonOrderHolds` | `ComparisonOrder`, for every byte and any sequence of words |
| `WordByBytes` | ADC and SBB a byte at a time are the word instructions, for all pairs of words |
| `MultiPrecisionHolds` | `MultiPrecision` |
| `DecimalAdjustHolds` | `DecimalAdjust` |
| `DivisionAtEveryWidth` | DIV and IDIV undo MUL and IMUL, are refused exactly when the quotient does not fit, and are exact otherwise, for every even width |
| `DivisionHolds` | `DivisionUndoesMultiplication` |
| `ShiftsByEveryCount` | what SHL, SHR, SAR, ROL, ROR, RCL and RCR compute, for all bytes and words and every count |
| `ShiftsHold` | `ShiftsAreArithmetic` |
| `BufferNeverOverrun` | `TransfersFit`, for every block size, delay and answer of the card |
| `MouseNeverLost` | `MouseResumed`, likewise |
| `DiskInvariant` | `DiskInv`, for every block size, image, delay within the driver's limit and busy time within its polls (`PollsSuffice`) |
| `ReadsAlwaysReturnSector` | `ReadsReturnSector`, likewise |
| `WritesAlwaysReachSector` | `WritesReachSector`, likewise |
| `LineInvariant` | `LineInv`, for every keymap, session, nesting and both CPUs |
| `LinesReleasedHolds` | `LinesReleased`, likewise |
| `PacketsAlwaysWhole` | `PacketsWhole`, likewise |
| `KeysAlwaysInOrder` | `KeysInOrder`, likewise and for every size of the key buffer |

**FIFO.** The invariant adds `PtrInv` to the types: the write pointer is `count`
slots after the read pointer. Each clock edge is one of five cases (`EdgeCases`), and
each case changes the sequence `Contents` the way a queue operation does.

**Fetch path.** `StreamMatchesProgram` is far from inductive. `FollowInv` says
that the prefetcher is right behind the end of the queue, `WordInv` that the word
in flight and the high byte due are the ones at its address, `RoomInv` that a
request is out only while both of its bytes have room, `GrantInv` that a grant
belongs to a master still waiting. The interesting part is `AbortInv`. While a
stale fetch is out the target is held in `next_cs` and `next_fetch_address`, and
a second target arriving in the very cycle of the acknowledgement would be lost.
It cannot arrive: nothing was consumed since the first branch, so only an
interrupt entry could deliver it; that needs data accesses; and the bus is still
granted to the prefetcher. The threshold need only be one, not the two of
`Core.sv`: a request is not made while a high byte is due. The assumption
`QueueDepth <= IPSize` holds with room to spare (6 and 65536).

**Cache.** `CacheInv` is about the one value that the system of cache and memory
holds at an address (`Current`): the line's word when it is there (`InCache`), the memory's
otherwise. `LookupInv` says that the registered outputs of the RAMs belong to
the request on the bus; `TransferInv` that the line being transferred is not
valid, that a write-back has stored the words before `line_idx`, and that
`line_valid` marks exactly the `line_idx` words behind the one a fill waits for,
around the end of the line; `DirtyInv` that a word in the cache can differ
from memory only in a dirty line or in the part of a write-back still to come.
The assumption `CacheSizes` asks for two words in a line (the code has eight):
with one word the first acknowledgement of a fill would also be its last. The
theorems are about `Spec`, in which the CPU is not reset while it has a request;
with such a reset they are false (see the observations).

**SDRAM.** `SDRAMInv` ties the controller to the device: `PinsInv` gives the
command that goes out in the first cycle of each state and the request it
belongs to, `WaitInv` bounds the time a bank still needs by the cycles the state has left,
`RowsInv` says that the table of open rows is the device's, except while
all banks are being closed, `DataInv` follows a write to the device and a word
read through its pipeline, and `RefreshInv` bounds the age of the last refresh by
the timer and, once that has run out, by what is left of the access and
precharge in the way (`Lag`). A reset drops the table and the timer but not the
device: that it is safe rests on `tReset` being no shorter than any command
(`TimingAssumption`, with room to spare at 50 MHz) and on closing all banks first.

**Interrupts.** `HandshakeInv` is the PIC's types with `VectorInService`. While `inta`
is low, `delivered` follows the line that `irq` shows; in the cycle of `inta`
neither `irr` loses that line nor `isr` gains another before the PIC moves it.
That `irq_line` is the least deliverable line rests on the lemma that a
non-empty set of naturals has a least element. `OnlyHaltAbandons` goes
through the cases of `next_addr` at the places of an entry: none of them yields
or ends an instruction, so only the two HLT terms are left, and either may
apply. A repair of these two terms would make `EntriesComplete` hold.
`StringInv` says where the iterations of a string instruction are: `RunningInv`
that the one in the loop is the one in progress, outside of handlers, with a
count that does not pass zero, `RestartInv` that after the roll-back nothing
else of the main program runs before the restart, and `LeftInv` that iterations are left only
while the instruction runs or is due. A seize at the yield drops the remaining iterations, so
`StringsFinish` claims nothing of a session with a debugger, and the invariant
proved is `Debugger \/ StringInv`.

**Arithmetic.** The flags of CMP are bits of a difference of the operands, of
their low halves and of their nibbles. The lemmas relate the two
bits that make up CF and OF to the order of the operands for any modulus that is
twice its half; the theorem instantiates them for bytes and words. For ADC and
SBB a number is split into its low byte and the rest (`ByteParts`, `HighPart`):
bits 15 and 16 of a word's sum are bits 7 and 8 of the high bytes' sum with the
carry. The decimal laws follow digit by digit: the sum of two digits and a
carry decides AF and the first correction, the sum of the high digits
the second (`DecimalSum`, `DecimalDifference`). The laws of division hold for any even modulus and
all operands, where TLC has bytes and ten divisors: `NatQuotient` and
`TruncatedQuotient` turn "the quotient fits" into a comparison of the dividend
with a multiple of the divisor, and `SignedHigh` shows that sign extension of the
high half of a signed product loses nothing. The shifts are loops: `Repeat`
is a recursive function, and `Unrolled` shows that such a function exists, so that
each instruction's loop is a sequence of rounds (`ShlLoop` to `RcrLoop`). A property of the rounds is
a set of numbers, and `Counting`, from the library's well-foundedness of `<`, is
induction over it. `ShlNext`, `ShrNext`, `SarNext` and `RorNext` then give the
value after a round from the one before, as quotient and remainder by a power
of two; that the loops of ROL and ROR, of which only one reduces its
count, undo each other rests on ROR returning to its start after 8 or 16 rounds (`RorPeriod`).

**Disk.** `DriverInv` adds to `TransfersFit` that the loop of `spi_xfer` runs only
while a byte of the answer is missing, and that the mouse reports outside the places
`Suspended` between `mouse_suspend` and `mouse_resume`. `BufferAssumption` is the
longest command, its answer with the data and the gap before it: 1043 of the
1280 bytes.

`DiskInv` follows the bytes between driver and card. The driver stores an answer
from its first byte that is not high, over the frame it is still sending, and later looks
for it by position; what it finds is right only because the frame that went out and the
state of the card belong together. `CommandInv` says so for every place that
waits for a command: up to the eighth byte the card holds exactly the bytes sent
(`Sending`), from then on the bytes stored and those still in the card are one of
the answers to that command at that address (`Answered`), and when the transfer
is over the card is at rest and the buffer holds the answer (`Good`). `WriteInv` does the same for a block: the
card has the bytes sent so far, in the block's place or in its buffer (`Pouring`),
then the driver's answer says whether the block is stored (`Outcome`), and while
the driver polls, the card is busy for no longer than the polls left (`Busy`). `AddressInv`
has the driver know the card's address format from the second reading of the OCR on;
`CardInv`, `BufInv`, `ClockInv` and `CallInv` are the ranges and the shape of calls;
`ReadInv` and `WrittenInv` extend the two properties to calls in progress. Each
action is a lemma, and each card's answers are lemmas of their own.

The assumptions: sectors count from 1 and calls name memory that exists
(`CallsAssumption`), the card holds bytes and delays data no longer than
`MAX_DATA_START_OFFS` (`ImageAssumption`), and calls to the simulated card stay
inside its image (`InsideAssumption`), since its file stream fails for good after a read
behind the end. `PollsSuffice` is a hypothesis of the theorems: a card that is still
busy after the polls swallows the start of the next command, and then
`ReadsReturnSector` may be false (TLC finds it with `BusyTimes = {11}` in `MCDisk.cfg`,
where the polls cover 7; with the 9 of the run the driver still notices). On a
real bus the polls cover 512 + 3 + 32768 byte times.

**Console.** That a line is in service exactly while one handler has yet to end
it is not inductive. `LineInv` adds that only the innermost handler may be
open, that a handler just entered has IF clear, and that the timer's handler, which calls
a hook that may enable interrupts, has line 0 in service, so that nothing becomes
pending. Whenever an interrupt can be taken no handler is open; an EOI then
meets one line in service and clears it, even if the line that was acknowledged
is not the one being served. `PacketInv` builds on it: `NestInv` has handlers
interrupted only in the driver's code, so that the polling of the mouse is not
nested, and `StreamInv` says that the bytes collected and those queued are
whole packets one after the other (`Aligned`) unless the mouse is being set up;
a restart silences the mouse, and enabling it again forgets a packet broken off.
`KeysInOrder` is stated by position, over what was handed out, the words in the ring and
the queue of each source, and so is inductive once `OrderInv` adds that every
number is that of an input already made (the next one is new). The ring is read
through `Ring`, the sequence from head to tail around the end; adding and removing
a word are then an append and a tail (`AddFacts`, `PopFacts`).

**Only model-checked**, and why:

- The programs of `MCEmulator`: fixed programs on chosen inputs, whose run is
  evaluated, not derived; no statement over all values of a constant is behind them.
- All liveness properties: temporal proofs under fairness are beyond this prover.
- The cache with CPU resets, the fetch path on separate buses and string
  instructions with a debugger: there the statements are false, as the
  observations tell.

## Disagreements found

Each is a run that expects a violation, with the quotation in `PROJECT.json`.

- **`interrupts_scan`** (`rtl/microcode/scas.us:36`, also `cmps.us`). An interrupt at the element that
  ends REPE/REPNE SCAS or CMPS is taken before the end is noticed, and the
  restarted instruction goes on to the next element.
- **`interrupts_halt`** (`rtl/microcode/Microcode.sv.templ:250`, `:254`). The HLT terms of
  `next_addr` hold as long as HLT is the current opcode, also during the
  interrupt entry that ended it. A request of the PIC in those cycles, taken or
  not, abandons the entry and dispatches the instruction after HLT: an NMI or a
  trap is lost, and a line that was acknowledged stays in service without a
  handler that would end it, and shuts out itself and all lines below.
- **`sdram_refresh`** (`fpga/sdram/SDRAMController.sv:65`, `:146`). `max_cmd_period` leaves out
  the refresh itself, the decision and the precharge, and the timer starts again only
  when a refresh ends. With `tRef = 390`, as at 50 MHz, refreshes are
  396 cycles apart even on an idle bus, so that 64 ms see 8080 of the 8192
  that the comment asks for; behind an access it is more. `WorstRefreshGap` has
  the terms, and `RefreshLateness` proves that it is never exceeded.
- **`disk_status`** (`sim/SPI.cpp:110`, `bios/sd.c:349`). The simulated card's 0xaa during the CRC
  is the first byte that is not high, and the driver takes it for the data
  response: every write stores its first sector and is reported as failed.

## Further observations

Behaviours of the code that a reader of the models meets, without a run of
their own. With the constants given, TLC finds the first two:

- `Prefetch.sv:106`: a CS:IP that arrives in the cycle in which a stale fetch is
  acknowledged is dropped. On the shared bus of `Top.sv` this is unreachable
  (proved); with separate buses (`SharedBus = FALSE` in `MCFetchUnit.cfg`) an
  interrupt taken right after a branch reaches it.
- `Cache.sv:151`: a CPU reset in the cycle after a lookup lets the cache fill one
  address's line under another one's tag (`SPECIFICATION ResetSpec`,
  `MaxResets = 1` in `MCCachedMemory.cfg`: `ReadsReturnLastWrite` is violated).
- `Microcode.sv.templ:174`: `STI; HLT` with the HLT dispatched directly runs HLT
  with interrupts inhibited, and an NMI does not end it.
- A debugger that seizes the core at the yield of a REP string instruction
  (`Microcode.sv.templ:232`) does not roll IP back: on resume the rest of the
  instruction is skipped. The development guide (lines 345-348) has the core
  stop "at the end of the current microprogram". `StringsFinish` therefore
  leaves sessions with a debugger out.
- An interrupt request takes a core that was stopped in HLT out of `debug_wait`,
  through `is_hlt && intr` (line 254); the guide (341-342) calls it a halt mode.
- The PIC records no edge in the cycle of an acknowledge (`PIC.sv:120`), as
  `irr` then only loses the delivered line.
- HLT ends on any request with `intr` high, also with IF clear; the request is
  then not taken.
- `ext_int_inhibit` stays set through the following instruction when that is dispatched
  directly, so that interrupts are looked at after the second one only;
  after a fetch through `opcode_fetch` they are looked at earlier.
- The comment at `SDRAMController.sv:249` says burst length 2; the mode word
  on the next line selects single accesses, which is what the controller does.

Of the C++ model:

- An instruction of more than 15 bytes is executed and then raises the invalid
  opcode exception, with a return address that counts its length modulo 16
  (as `TestInvalid.cpp` expects).
- BOUND and ESC decode their ModR/M byte with the width the previous
  instruction left behind (`modrm_width`).
- IDIV of the most negative number by -1 overflows in C++.
- OUTS ignores a segment override; HLT and WAIT do nothing.

Of the disk:

- `disk_read` does not look at the result of `read_sector`: a failed sector is
  reported as read. `ReadsReturnSector` is therefore about the sectors that
  `read_sector` itself reports.
- A card that stays busy ends the wait after 32768 polls with the card still
  busy, and a bus that stays high keeps `spi_xfer` waiting for ever; a data token
  later than the driver's buffer allows gives a truncated sector and success.
- A card that is busy for longer than the polls swallows the first byte of the next
  command, and what the driver then reads is not an answer to it.
- Behind the end of the image the simulated card's stream stays failed (`sim/SPI.cpp:180`),
  and later reads inside the image fail as well.
- INT 13h, AH=1 returns with CF set, as does every function the BIOS does not know.

Of the console:

- The simulated PIC looks for requests only when a line rises: an EOI or an
  unmasking does not deliver one that is waiting. A stale request of the
  keyboard takes the place of the mouse's first one.
- Five bytes queued in the simulated mouse whose interrupts were overwritten by
  ticks are never announced again (`sim/Mouse.h:87`).
- Reading a scancode drops all later ones (the flush of the PS/2 port); a lost
  Shift release leaves Shift set.
- NUL typed at the terminal makes INT 16h, AH=0 wait for ever.
- A tick between `RTLCPU`'s sample of the vector and its acknowledge is lost.
- Save and restore leave out keyboard, mouse and the pending interrupt, where
  `documentation/development-guide.asciidoc:109-111` says that "the entire
  simulation state can be saved"; the mouse is inactive after a restore.
- Time stands still while INT 16h waits, as services run with IF clear.

## What is not modelled

`PROJECT.json` lists every component with its status. Left out for good: VGA,
CGA and `bios/display.c` (their result is a picture that nothing specifies),
`printk.c`, register files (plain storage), the microassembler and other build
tools, tests and vendored code. Inside modelled components: reading the hardware PIC's
registers back, debug procedures other than resume, the fault of ESC
instructions, the data and address multiplexers of the arbiter, the cache's
`enabled` input when low; the counter of the simulated timer (a tick comes at
any time); `RTLCPU`'s access to the core's registers through the debugger; BIOS
services that return constants. Programs of `Console` install their mouse
driver before they enable it, and the driver returns with IF as it was called.

Hazards in parts without a model yet, for whoever models them: two updates of IP
before one is propagated (`rtl/CSIPSync.sv:57`) and the start address a restart
rolls back to (`rtl/IP.sv:36`); the two acknowledges of an unaligned word
(`rtl/LoadStore.sv:94`); overflow detection before and after a division
(`rtl/Divider.sv:63`); `tx_busy` set without a load (`rtl/cdc/MCP.sv:64`); no
time-out in either direction (`fpga/ps2/PS2Host.sv:108`) and the flush with an
acknowledge (`PS2KeyboardController.sv:54`); a byte completed while the last
one is being cleared (`fpga/uart/Receiver.sv:46`); the two halves of a latched count
(`TimerUnit.sv:90`).

## Plan

Done: the fetch path, memory system and interrupts of the hardware; the C++
model; disk and console of simulator and BIOS; the proofs above. In order, what is left:

1. `CSIPSync` and `IP` with the microsequencer's stalls and roll-backs, and the
   abstract program counter they implement.
2. `LoadStore` in full: unaligned accesses, MAR and MDR, I/O, against "a word is
   its two bytes".
3. Clock-domain crossings (`cdc/`) and the JTAG bridge on them: each request
   crosses once, whole, and is acknowledged.
4. The hardware's PS/2, UART, SPI and timer under the BIOS drivers that are
   modelled with the simulator's.
5. `InsnDecoder` and `ImmediateReader` on a queue that may run empty or be
   flushed at any byte; `Divider` at small widths.
