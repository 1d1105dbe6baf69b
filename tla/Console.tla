------------------------------- MODULE Console -------------------------------
(***************************************************************************)
(* The simulated machine as its user meets it: keyboard, mouse, terminal   *)
(* and timer (sim/), their interrupts, and the BIOS that serves programs   *)
(* from them (bios/).  A step is one access of the CPU to a device with    *)
(* the instructions up to the next one; devices act between the steps, in  *)
(* Simulator::run's io_callback.  BIOS services run with interrupts        *)
(* disabled (VECTOR in bios.h), so an interrupt is only taken in a program *)
(* or in the code that a handler calls.                                    *)
(*                                                                         *)
(* A scancode is [key, up, n], a character [code, n] and a byte from the   *)
(* mouse [n, at, bit3]: n numbers the inputs, at is the place in a packet, *)
(* bit3 is what the BIOS looks at to find the first byte of a packet.      *)
(***************************************************************************)
EXTENDS SimPIC, Integers, Sequences

CONSTANTS N,          \* 16: entries of kbd_buffer
          Keymap,     \* for every key the variants keycode_map has for it
          Presses,    \* <<key, up>>: keys that are pressed and released
          Chars,      \* characters of the terminal
          Day,        \* 0x18000f: timer ticks of a day
          Wrap,       \* 2^32: values of the tick count
          Sessions,   \* what a session uses, and its bound on inputs
          MaxNesting  \* bound on handlers in progress

Keys == DOMAIN Keymap
Modifiers == {"shift", "ctrl", "alt"}
NUL == "nul"

ASSUME RingAssumption == N \in Nat /\ N >= 2
ASSUME KeysAssumption == Keys \cap Modifiers = {} /\ Presses \subseteq (Keys \cup Modifiers) \X BOOLEAN
ASSUME TimeAssumption == Day \in Nat \ {0} /\ Wrap \in Nat /\ Day < Wrap

(* A session [uses, inputs, backends]: a subset of Uses, a bound on the    *)
(* number of keys, characters, packets and restarts together, and the CPUs *)
(* the simulator is started with.                                          *)
Uses == {"keys", "mouse", "timer", "interrupts"}

Backends == {"SoftwareCPU", "RTLCPU"}

ASSUME SessionsAssumption ==
  \A s \in Sessions : s.uses \subseteq Uses /\ s.inputs \in Nat /\ s.backends \subseteq Backends

VARIABLES
  kbd, mouse, active, charbuf,         \* devices: PS2::pending twice, Mouse::active, UART::charbuf
  backend, iflag, taking, stack,       \* CPU; the handlers in progress, innermost last
  kbd_buffer, head, tail, flags,       \* BIOS data area: keyboard
  count, rollover,                     \* BIOS data area: timer
  driver, driver_enabled, nbytes, packet,   \* bios/mouse_asm.S
  svc,                                 \* the service in progress
  session, inputs, taken               \* inputs so far; last one of each source a program got

dev_vars == <<kbd, mouse, active, charbuf>>
cpu_vars == <<backend, iflag, taking, stack>>
kbd_bda == <<kbd_buffer, head, tail, flags>>
time_bda == <<count, rollover>>
drv_vars == <<driver, driver_enabled, nbytes, packet>>
vars == <<pic_vars, dev_vars, cpu_vars, kbd_bda, time_bda, drv_vars, svc, session, inputs, taken>>

SelfTest == [key |-> "shift", up |-> TRUE, n |-> 0]   \* 0xaa is also a key: left shift up
Ack == [n |-> 0, at |-> 0, bit3 |-> TRUE]             \* 0xfa
Packet(n, dx, dy) == <<[n |-> n, at |-> 0, bit3 |-> TRUE], [n |-> n, at |-> 1, bit3 |-> dx],
                       [n |-> n, at |-> 2, bit3 |-> dy]>>
NoByte == [n |-> 0, at |-> 3, bit3 |-> FALSE]
Idle == [call |-> "none", pc |-> "none", then |-> "none", again |-> FALSE, byte |-> SelfTest]

(* The count starts at the time of day at which the BIOS was built. *)
init_timer == count \in 0 .. Day - 1 /\ rollover = FALSE /\ (count # 0 => "timer" \in session.uses)

(* When the boot sector runs: root has initialised everything.  A packet   *)
(* that came while mouse_hw_init sent its last commands has left its last  *)
(* byte and the answers to them behind.                                    *)
Init ==
  /\ session \in Sessions /\ backend \in session.backends
  /\ PICReady
  /\ kbd = << >> /\ charbuf = << >> /\ active = TRUE
  /\ mouse \in {<< >>, <<Packet(0, TRUE, TRUE)[3], Ack, Ack>>} /\ (mouse # << >> => "mouse" \in session.uses)
  /\ iflag = FALSE /\ taking = NoIRQ /\ stack = << >>
  /\ kbd_buffer = [i \in 0 .. N - 1 |-> [code |-> NUL, src |-> "none", n |-> 0]]
  /\ head = 0 /\ tail = 0 /\ flags = {}
  /\ init_timer
  /\ driver = FALSE /\ driver_enabled = FALSE /\ nbytes = 0 /\ packet = <<NoByte, NoByte, NoByte>>
  /\ svc = Idle
  /\ inputs = 0 /\ taken = [src \in {"kbd", "uart"} |-> 0]

-----------------------------------------------------------------------------
(* The devices: what io_callback does between two steps of the CPU. *)

Using(what) == what \in session.uses
Input == inputs < session.inputs /\ inputs' = inputs + 1 /\ UNCHANGED session

(* Keyboard::process_event; PS2::add_byte. *)
Key(k, up) ==
  /\ Using("keys")
  /\ Input
  /\ raise_irq(1)
  /\ kbd' = Append(kbd, [key |-> k, up |-> up, n |-> inputs'])
  /\ UNCHANGED <<mouse, active, charbuf, cpu_vars, kbd_bda, time_bda, drv_vars, svc, taken>>

(* UART::add_char. *)
Type(c) ==
  /\ Using("keys")
  /\ Input
  /\ charbuf' = Append(charbuf, [code |-> c, n |-> inputs'])
  /\ UNCHANGED <<pic_vars, kbd, mouse, active, cpu_vars, kbd_bda, time_bda, drv_vars, svc, taken>>

(* Mouse::update and Mouse::process_event: all of a packet at once, unless *)
(* there is more than a packet in the queue already.                       *)
Move(dx, dy) ==
  /\ Using("mouse")
  /\ Input
  /\ active /\ Len(mouse) < 5
  /\ raise_irq(7)
  /\ mouse' = mouse \o Packet(inputs', dx, dy)
  /\ UNCHANGED <<kbd, active, charbuf, cpu_vars, kbd_bda, time_bda, drv_vars, svc, taken>>

(* TimerTick::tick, when the count runs out. *)
Tick ==
  /\ Using("timer")
  /\ raise_irq(0)
  /\ UNCHANGED <<dev_vars, cpu_vars, kbd_bda, time_bda, drv_vars, svc, session, inputs, taken>>

(* The simulator exits, saves its state and is started from it, with the   *)
(* same CPU or the other one.  Keyboard and mouse, and what is pending in  *)
(* the CPU, are not saved.                                                 *)
Restart ==
  /\ Input
  /\ taking = NoIRQ
  /\ backend' \in session.backends
  /\ kbd' = <<SelfTest>> /\ mouse' = << >> /\ active' = FALSE
  /\ pending' = NoIRQ
  /\ UNCHANGED <<mask, irr, isr, charbuf, iflag, taking, stack, kbd_bda, time_bda, drv_vars,
                 svc, taken>>

-----------------------------------------------------------------------------
(* Interrupts and their handlers. *)

Frame(line) == [line |-> line, pc |-> "entered", iflag |-> iflag, args |-> << >>]
Top == stack[Len(stack)]
At(line, pc) == stack # << >> /\ taking = NoIRQ /\ svc = Idle /\ Top.line = line /\ Top.pc = pc
Goto(pc) == stack' = [stack EXCEPT ![Len(stack)].pc = pc]

(* IRET: the interrupted code goes on with its own flags. *)
Iret == stack' = SubSeq(stack, 1, Len(stack) - 1) /\ iflag' = Top.iflag

(* IF is that of the program; a service runs with interrupts disabled. *)
Interruptible ==
  iflag /\ svc = Idle /\ pending # NoIRQ /\ taking = NoIRQ /\ Len(stack) < MaxNesting

Enter(line) == stack' = Append(stack, Frame(line)) /\ iflag' = FALSE

(* EmulatorPimpl::handle_irq. *)
handle_irq ==
  /\ backend = "SoftwareCPU" /\ Interruptible
  /\ Enter(pending)
  /\ ack_int
  /\ UNCHANGED <<dev_vars, backend, taking, kbd_bda, time_bda, drv_vars, svc, session, inputs, taken>>

(* RTLCPU: the core samples the vector in one cycle and acknowledges in    *)
(* the next one, in which another line may have become pending.            *)
SampleVector ==
  /\ backend = "RTLCPU" /\ Interruptible
  /\ taking' = pending
  /\ UNCHANGED <<pic_vars, dev_vars, backend, iflag, stack, kbd_bda, time_bda, drv_vars, svc, session, inputs, taken>>

Acknowledge ==
  /\ taking # NoIRQ
  /\ Enter(taking) /\ taking' = NoIRQ
  /\ ack_int
  /\ UNCHANGED <<dev_vars, backend, kbd_bda, time_bda, drv_vars, svc, session, inputs, taken>>

(* timer_irq, up to the INT 1Ch for the program. *)
timer_irq ==
  /\ At(0, "entered") /\ Goto("hook")
  /\ LET next == (count + 1) % Wrap
     IN  count' = (IF next = Day THEN 0 ELSE next) /\ rollover' = (rollover \/ next = Day)
  /\ UNCHANGED <<pic_vars, dev_vars, backend, iflag, taking, kbd_bda, drv_vars, svc, session, inputs, taken>>

(* Code of the program that a handler calls (INT 1Ch, the mouse driver)    *)
(* may enable interrupts, and returns with the flags it was called with.   *)
HookEnables ==
  /\ At(0, "hook") \/ At(7, "driver")
  /\ iflag' = TRUE
  /\ UNCHANGED <<pic_vars, dev_vars, backend, taking, stack, kbd_bda, time_bda, drv_vars, svc, session, inputs, taken>>

(* Mutant of EndTimer: without the end of interrupt. *)
EndTimer_no_eoi ==
  /\ At(0, "hook") /\ Iret
  /\ UNCHANGED <<pic_vars, dev_vars, backend, taking, kbd_bda, time_bda, drv_vars, svc, session, inputs, taken>>

(* timer_irq after the hook, and kbd_irq: end of interrupt, IRET. *)
EndTimer ==
  /\ At(0, "hook") /\ Iret
  /\ ocw2
  /\ UNCHANGED <<dev_vars, backend, taking, kbd_bda, time_bda, drv_vars, svc, session, inputs, taken>>

kbd_irq ==
  /\ At(1, "entered") /\ Iret
  /\ ocw2
  /\ UNCHANGED <<dev_vars, backend, taking, kbd_bda, time_bda, drv_vars, svc, session, inputs, taken>>

(* mouse_irq begins with the end of interrupt. *)
mouse_irq ==
  /\ At(7, "entered") /\ Goto("poll")
  /\ ocw2
  /\ UNCHANGED <<dev_vars, backend, iflag, taking, kbd_bda, time_bda, drv_vars, svc, session, inputs, taken>>

(* mouse_poll_loop: one byte.  A first byte without bit 3 is dropped; the  *)
(* third one completes the packet, whose bytes are pushed for the driver.  *)
mouse_poll_loop ==
  /\ At(7, "poll") /\ mouse # << >>
  /\ LET byte == Head(mouse)
         full == [packet EXCEPT ![nbytes + 1] = byte]
     IN  /\ packet' = full
         /\ mouse' = Tail(mouse)
         /\ nbytes' = IF nbytes = 0 /\ ~byte.bit3 THEN 0 ELSE (nbytes + 1) % 3
         /\ stack' = IF nbytes = 2 /\ driver_enabled
                     THEN [stack EXCEPT ![Len(stack)] = [@ EXCEPT !.pc = "driver", !.args = full]]
                     ELSE stack
  /\ UNCHANGED <<pic_vars, kbd, active, charbuf, backend, iflag, taking, kbd_bda, time_bda,
                 driver, driver_enabled, svc, session, inputs, taken>>

(* The driver returns. *)
update_mouse ==
  /\ At(7, "driver")
  /\ stack' = [stack EXCEPT ![Len(stack)] = [@ EXCEPT !.pc = "poll", !.args = << >>]]
  /\ iflag' = FALSE
  /\ UNCHANGED <<pic_vars, dev_vars, backend, taking, kbd_bda, time_bda, drv_vars, svc, session, inputs, taken>>

no_mouse_data ==
  /\ At(7, "poll") /\ mouse = << >> /\ Iret
  /\ UNCHANGED <<pic_vars, dev_vars, backend, taking, kbd_bda, time_bda, drv_vars, svc, session, inputs, taken>>

-----------------------------------------------------------------------------
(* The program: it enables and disables interrupts and calls the BIOS. *)

Program == stack = << >> /\ taking = NoIRQ /\ svc = Idle

SetFlag ==
  /\ Program /\ Using("interrupts")
  /\ iflag' = ~iflag
  /\ UNCHANGED <<pic_vars, dev_vars, backend, taking, stack, kbd_bda, time_bda, drv_vars, svc, session, inputs, taken>>

(* INT 1Ah: read and set the time; the other functions keep no state. *)
timer_services(set, time) ==
  /\ Program /\ Using("timer")
  /\ count' = (IF set THEN time ELSE count) /\ rollover' = FALSE
  /\ UNCHANGED <<pic_vars, dev_vars, cpu_vars, kbd_bda, drv_vars, svc, session, inputs, taken>>

(* INT 15h AX=C207h: set_up_mouse; a program names its driver first. *)
setup_mouse ==
  /\ Program /\ Using("mouse")
  /\ driver' = TRUE
  /\ mouse' = << >>
  /\ UNCHANGED <<pic_vars, kbd, active, charbuf, cpu_vars, kbd_bda, time_bda, driver_enabled, nbytes,
                 packet, svc, session, inputs, taken>>

(* INT 15h AX=C200h. *)
enable_mouse(on) ==
  /\ Program
  /\ driver
  /\ driver_enabled' = on
  /\ IF on THEN irq_enable(7) ELSE irq_disable(7)
  /\ UNCHANGED <<dev_vars, cpu_vars, kbd_bda, time_bda, driver, nbytes, packet, svc, session, inputs, taken>>

(* INT 16h and INT 13h begin. *)
Call(what, call, pc) ==
  /\ Program /\ Using(what)
  /\ svc' = [Idle EXCEPT !.call = call, !.pc = pc]
  /\ UNCHANGED <<pic_vars, dev_vars, cpu_vars, kbd_bda, time_bda, drv_vars, session, inputs, taken>>

-----------------------------------------------------------------------------
(* INT 16h: bios/keyboard.c. *)

Serving(pc) == svc.pc = pc

(* keyboard_poll is called, again and again or once, then the code at then. *)
Polling(then, again) == [svc EXCEPT !.pc = "poll", !.then = then, !.again = again]
Resume(then) ==
  CASE then = "return" -> Idle
    [] then = "once" -> Polling("serial", FALSE)
    [] OTHER -> [svc EXCEPT !.pc = then]

kbd_buffer_full == tail = head - 1 \/ (head = 0 /\ tail = N - 1)

kbd_buffer_add(word) ==
  IF kbd_buffer_full THEN UNCHANGED <<kbd_buffer, tail>>
  ELSE kbd_buffer' = [kbd_buffer EXCEPT ![tail] = word] /\ tail' = (tail + 1) % N

(* Mutant of kbd_buffer_pop: the last entry is left out. *)
kbd_buffer_pop_short == head' = (head + 1) % (N - 1)

kbd_buffer_pop == head' = (head + 1) % N

(* keypress: the first modifier for which the key has a variant. *)
Variant(k) ==
  CASE "shift" \in flags \cap Keymap[k] -> "shift"
    [] "ctrl" \in flags \cap Keymap[k] -> "ctrl"
    [] "alt" \in flags \cap Keymap[k] -> "alt"
    [] OTHER -> "normal"

keypress(b) ==
  IF Variant(b.key) \in Keymap[b.key]
  THEN kbd_buffer_add([code |-> Variant(b.key), src |-> "kbd", n |-> b.n])
  ELSE UNCHANGED <<kbd_buffer, tail>>

modifier_key(b) == flags' = IF b.up THEN flags \ {b.key} ELSE flags \cup {b.key}

(* keyboard_poll, first access: the byte at the front.  Without one the    *)
(* caller goes on.                                                         *)
PollEmpty ==
  /\ Serving("poll") /\ kbd = << >>
  /\ svc' = Resume(svc.then)
  /\ UNCHANGED <<pic_vars, dev_vars, cpu_vars, kbd_bda, time_bda, drv_vars, session, inputs, taken>>

PollByte ==
  /\ Serving("poll") /\ kbd # << >>
  /\ svc' = [svc EXCEPT !.pc = "clear", !.byte = Head(kbd)]
  /\ UNCHANGED <<pic_vars, dev_vars, cpu_vars, kbd_bda, time_bda, drv_vars, session, inputs, taken>>

(* keyboard_poll, second access: all of the queue is dropped, then the     *)
(* byte is looked at.                                                      *)
keyboard_poll ==
  /\ Serving("clear")
  /\ kbd' = << >>
  /\ LET b == svc.byte
     IN  IF b.key \in Modifiers THEN modifier_key(b) /\ UNCHANGED <<kbd_buffer, tail>>
         ELSE IF b.up THEN UNCHANGED <<kbd_buffer, tail, flags>>
         ELSE keypress(b) /\ UNCHANGED flags
  /\ svc' = [svc EXCEPT !.pc = IF svc.again THEN "poll" ELSE svc.then, !.byte = SelfTest]
  /\ UNCHANGED <<pic_vars, mouse, active, charbuf, cpu_vars, head, time_bda, drv_vars, session, inputs, taken>>

(* What is at the head of the buffer counts as a key if it is not zero. *)
HasKey == head # tail /\ kbd_buffer[head].code # NUL

(* Mutant of kbd_buffer_peek: keyboard_wait only polls the keyboard. *)
kbd_buffer_peek_no_serial ==
  /\ Serving("peek") \/ Serving("peek_again")
  /\ svc.call = "wait" => ~HasKey
  /\ LET then == CASE svc.call = "wait" -> "peek"
                   [] Serving("peek") /\ ~HasKey -> "once"
                   [] OTHER -> "return"
     IN  svc' = IF head = tail THEN Polling(then, TRUE) ELSE Resume(then)
  /\ UNCHANGED <<pic_vars, dev_vars, cpu_vars, kbd_bda, time_bda, drv_vars, session, inputs, taken>>

(* kbd_buffer_peek without a key, for keyboard_wait, and for the first and *)
(* the second call of keyboard_status.  An empty buffer is polled for, and *)
(* then still counts as empty, whatever was added to it.                   *)
kbd_buffer_peek ==
  /\ Serving("peek") \/ Serving("peek_again")
  /\ svc.call = "wait" => ~HasKey
  /\ LET then == CASE svc.call = "wait" -> "serial"
                   [] Serving("peek") /\ ~HasKey -> "once"
                   [] OTHER -> "return"
     IN  svc' = IF head = tail THEN Polling(then, TRUE) ELSE Resume(then)
  /\ UNCHANGED <<pic_vars, dev_vars, cpu_vars, kbd_bda, time_bda, drv_vars, session, inputs, taken>>

(* keyboard_wait has a key. *)
keyboard_wait ==
  /\ Serving("peek") /\ svc.call = "wait" /\ HasKey
  /\ kbd_buffer_pop
  /\ taken' = [taken EXCEPT ![kbd_buffer[head].src] = kbd_buffer[head].n]
  /\ svc' = Idle
  /\ UNCHANGED <<pic_vars, dev_vars, cpu_vars, kbd_buffer, tail, flags, time_bda, drv_vars, session, inputs>>

(* serial_poll: the character is taken from the terminal also when the     *)
(* buffer is full.                                                         *)
serial_poll ==
  /\ Serving("serial")
  /\ IF charbuf = << >> THEN UNCHANGED <<charbuf, kbd_buffer, tail>>
     ELSE /\ kbd_buffer_add([code |-> Head(charbuf).code, src |-> "uart", n |-> Head(charbuf).n])
          /\ charbuf' = Tail(charbuf)
  /\ svc' = IF svc.call = "wait" THEN Polling("peek", TRUE) ELSE Resume("peek_again")
  /\ UNCHANGED <<pic_vars, kbd, mouse, active, cpu_vars, head, flags, time_bda, drv_vars, session, inputs, taken>>

-----------------------------------------------------------------------------
(* INT 13h, as far as it concerns the mouse: mouse_suspend before and      *)
(* mouse_resume after each sector (bios/mouse.c).  The simulated mouse     *)
(* answers every command at once, and does not stop when it is told to.    *)

(* Mouse::write8: a command. *)
Command(enable) ==
  /\ raise_irq(7)
  /\ mouse' = Append(mouse, Ack)
  /\ active' = (active \/ enable)
  /\ UNCHANGED <<kbd, charbuf>>

(* mouse_cmd waits for an answer: Mouse::read8 pops the byte at the front. *)
(* After a restart there is none, and the wait times out.                  *)
ReadMouse ==
  /\ mouse' = IF mouse = << >> THEN << >> ELSE Tail(mouse)
  /\ UNCHANGED <<pic_vars, kbd, active, charbuf>>

(* A write of CLEAR to the status port drops all. *)
mouse_init ==
  /\ mouse' = << >>
  /\ UNCHANGED <<pic_vars, kbd, active, charbuf>>

DiskStep(from, to) ==
  /\ Serving(from)
  /\ svc' = Resume(to)
  /\ UNCHANGED <<cpu_vars, kbd_bda, time_bda, driver, driver_enabled, packet, session, inputs, taken>>

(* Mutant of mouse_resume: it trusts the mouse to be silent after it was   *)
(* enabled.                                                                *)
mouse_resume_once ==
  \/ DiskStep("resume", "enable") /\ mouse_init /\ nbytes' = 0
  \/ DiskStep("enable", "answer") /\ Command(TRUE) /\ UNCHANGED nbytes
  \/ DiskStep("answer", "return") /\ ReadMouse /\ UNCHANGED nbytes

mouse_suspend ==
  \/ DiskStep("suspend", "suspended") /\ Command(FALSE) /\ UNCHANGED nbytes
  \/ DiskStep("suspended", "resume") /\ ReadMouse /\ UNCHANGED nbytes

mouse_resume ==
  \/ DiskStep("resume", "enable") /\ mouse_init /\ nbytes' = 0
  \/ DiskStep("enable", "answer") /\ Command(TRUE) /\ UNCHANGED nbytes
  \/ DiskStep("answer", "flush") /\ ReadMouse /\ UNCHANGED nbytes
  \/ DiskStep("flush", "return") /\ mouse_init /\ UNCHANGED nbytes

-----------------------------------------------------------------------------
Devices ==
  \/ \E p \in Presses : Key(p[1], p[2])
  \/ \E c \in Chars : Type(c)
  \/ \E dx, dy \in BOOLEAN : Move(dx, dy)
  \/ Tick
  \/ Restart

Handlers ==
  \/ timer_irq \/ EndTimer \/ kbd_irq
  \/ mouse_irq \/ mouse_poll_loop \/ update_mouse \/ no_mouse_data

Services ==
  \/ PollEmpty \/ PollByte \/ keyboard_poll \/ kbd_buffer_peek \/ keyboard_wait \/ serial_poll
  \/ mouse_suspend \/ mouse_resume

TakeInterrupt == handle_irq \/ SampleVector

Programs ==
  \/ SetFlag \/ HookEnables \/ setup_mouse
  \/ \E set \in BOOLEAN, time \in 0 .. Wrap - 1 : timer_services(set, time)
  \/ \E on \in BOOLEAN : enable_mouse(on)
  \/ Call("keys", "wait", "peek") \/ Call("keys", "status", "peek") \/ Call("mouse", "disk", "suspend")

Next == Devices \/ TakeInterrupt \/ Acknowledge \/ Handlers \/ Services \/ Programs

(* The CPU goes on with what it executes, and takes an interrupt that it   *)
(* finds pending again and again; what a handler calls returns.  The timer *)
(* runs for ever, and does not always tick in the one cycle between sample *)
(* and acknowledge.  The user and the program may do nothing.              *)
Spec == Init /\ [][Next]_vars
             /\ WF_vars(Acknowledge) /\ WF_vars(Handlers) /\ WF_vars(Services) /\ SF_vars(TakeInterrupt)
             /\ SF_vars(Tick /\ taking = NoIRQ)

-----------------------------------------------------------------------------
(* What is in the buffer, from its head to its tail. *)
Buffered == [i \in 1 .. (tail - head) % N |-> kbd_buffer[(head + i - 1) % N]]

Numbers(seq) == [i \in DOMAIN seq |-> seq[i].n]

(* What a program got last of a source, what is buffered of it and what is *)
(* queued in its device, without the keyboard's self test, have increasing *)
(* numbers.                                                                *)
InOrder(src, last, words, queue) ==
  LET held == {i \in DOMAIN words : words[i].src = src}
      waiting == {i \in DOMAIN queue : queue[i] # SelfTest}
  IN  /\ \A i \in held : last < words[i].n
      /\ \A i \in waiting : last < queue[i].n
      /\ \A i, j \in held : i < j => words[i].n < words[j].n
      /\ \A i, j \in waiting : i < j => queue[i].n < queue[j].n
      /\ \A i \in held, j \in waiting : words[i].n < queue[j].n

(* Programs get the keys of each device in the order in which they were    *)
(* pressed, and none twice: the last one that a program got, those in the  *)
(* buffer, the one being looked at and those in the device.                *)
KeysInOrder ==
  /\ InOrder("kbd", taken["kbd"], Buffered, IF Serving("clear") THEN <<svc.byte>> ELSE kbd)
  /\ InOrder("uart", taken["uart"], Buffered, charbuf)

(* The mouse driver is called with the three bytes of one packet, in their *)
(* order, whatever interrupts, disk services, commands to the mouse and    *)
(* restarts came while the packet was on its way.                          *)
PacketsWhole ==
  \A i \in DOMAIN stack : stack[i].pc = "driver" =>
    /\ Numbers(stack[i].args) \in {<<n, n, n>> : n \in 1 .. inputs}
    /\ \A k \in 1 .. 3 : stack[i].args[k].at = k - 1

(* Handlers that have not sent their end of interrupt yet. *)
Unended == {i \in DOMAIN stack : stack[i].pc \in {"entered", "hook"}}

(* One line is in service exactly while there is one handler that will end *)
(* it: no line stays in service, and shuts out the ones below, with no     *)
(* handler to end it, no handler ends another one's line, even if the CPU  *)
(* acknowledges another line than it serves.                               *)
LinesReleased ==
  /\ isr = {} <=> Unended = {}
  /\ \A i, j \in isr : i = j
  /\ \A i, j \in Unended : i = j

Visible(b) == ~b.up /\ b.key \in Keys /\ Keymap[b.key] = {"normal", "shift", "ctrl", "alt"}

(* A program that waits for a key gets one, if there is a character or the *)
(* key at the front of the keyboard's queue has a code with all modifiers. *)
(* It is not so if a NUL was typed before, or if the simulator was started *)
(* anew, which forgets the key.                                            *)
WaitReturns ==
  (svc.call = "wait" /\ (charbuf # << >> \/ (kbd # << >> /\ Visible(Head(kbd)))))
    ~> (svc = Idle \/ (head # tail /\ ~HasKey) \/ kbd = <<SelfTest>>)

(* The time goes on: ticks are counted again and again if the program lets *)
(* interrupts in again and again, whatever came before: ticks that were    *)
(* not passed on, an interrupt lost in a restart, a line acknowledged for  *)
(* another.                                                                *)
TicksServed ==
  "timer" \in session.uses /\ []<>(iflag /\ svc = Idle) => []<><<timer_irq>>_vars
=============================================================================
