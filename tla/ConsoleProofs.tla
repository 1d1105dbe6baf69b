---------------------------- MODULE ConsoleProofs -----------------------------
(***************************************************************************)
(* For any buffer, keymap, session and nesting of handlers, a line is in   *)
(* service exactly while the innermost handler has yet to end it, the      *)
(* mouse driver is called with the bytes of one packet, and programs get   *)
(* the keys of each source in the order in which they were pressed.        *)
(***************************************************************************)
EXTENDS Console, SequenceTheorems, TLAPS

Bytes == [n : Nat, at : 0 .. 3, bit3 : BOOLEAN]
Frames == [line : 0 .. 8, pc : {"entered", "hook", "poll", "driver"}, iflag : BOOLEAN,
           args : Seq(Bytes)]

TypeInv ==
  /\ stack \in Seq(Frames) /\ mouse \in Seq(Bytes) /\ packet \in Seq(Bytes)
  /\ iflag \in BOOLEAN /\ taking \in 0 .. 8 /\ pending \in 0 .. 8
  /\ isr \in SUBSET (0 .. 7) /\ irr \in SUBSET (0 .. 7)
  /\ inputs \in Nat

Open(frame) == frame.pc \in {"entered", "hook"}

(* The innermost handler has not sent its end of interrupt. *)
Busy == stack # << >> /\ Open(Top)

(* Only the innermost handler may be open; the one of the timer, which can *)
(* be interrupted while it is, has line 0 in service, and as long as that  *)
(* is so nothing becomes pending.                                          *)
StackInv ==
  /\ \A i \in 1 .. Len(stack) : Open(stack[i]) => i = Len(stack)
  /\ \A i \in 1 .. Len(stack) : stack[i].pc = "hook" => stack[i].line = 0
  /\ Busy /\ Top.line = 0 => isr = {0}
  /\ Busy /\ Top.pc = "entered" => ~iflag

ServiceInv ==
  /\ isr = {} <=> ~Busy
  /\ \A i, j \in isr : i = j
  /\ 0 \in isr => pending = NoIRQ

PendingInv ==
  /\ pending # NoIRQ => pending \in irr
  /\ taking # NoIRQ => ~Busy /\ pending # NoIRQ /\ (taking = 0 => pending = 0)

LineInv == TypeInv /\ StackInv /\ ServiceInv /\ PendingInv

-----------------------------------------------------------------------------
(* A set of lines that is not empty has a first one, and that is Min. *)
LEMMA FirstLine ==
  ASSUME NEW S \in SUBSET (0 .. 7), S # {}
  PROVE  Min(S) \in S /\ \A y \in S : Min(S) <= y
<1>1. \E x \in S : \A y \in S : x <= y
  <2>1. CASE 0 \in S  BY <2>1
  <2>2. CASE 0 \notin S /\ 1 \in S  BY <2>2
  <2>3. CASE S \cap {0, 1} = {} /\ 2 \in S  BY <2>3
  <2>4. CASE S \cap {0, 1, 2} = {} /\ 3 \in S  BY <2>4
  <2>5. CASE S \cap {0, 1, 2, 3} = {} /\ 4 \in S  BY <2>5
  <2>6. CASE S \cap {0, 1, 2, 3, 4} = {} /\ 5 \in S  BY <2>6
  <2>7. CASE S \cap {0, 1, 2, 3, 4, 5} = {} /\ 6 \in S  BY <2>7
  <2>8. CASE S \cap {0, 1, 2, 3, 4, 5, 6} = {} /\ 7 \in S  BY <2>8
  <2>9. \E y \in 0 .. 7 : y \in S
    OBVIOUS
  <2> QED BY <2>1, <2>2, <2>3, <2>4, <2>5, <2>6, <2>7, <2>8, <2>9
<1> QED BY <1>1, Zenon DEF Min

(* A request leaves the lines in service alone and does not change what is *)
(* pending while line 0 is in service, nor if that is line 0 itself; what  *)
(* becomes pending is a request.                                           *)
LEMMA RaiseFacts ==
  ASSUME TypeInv, NEW i \in 0 .. 7, raise_irq(i), pending # NoIRQ => pending \in irr
  PROVE  /\ isr' = isr /\ irr' \in SUBSET (0 .. 7) /\ irr \subseteq irr'
         /\ pending' = pending \/ pending' \in irr'
         /\ 0 \in isr => pending' = pending
         /\ isr = {} /\ pending = 0 => pending' = 0
<1>1. CASE i \in mask
  BY <1>1 DEF raise_irq, pic_vars, TypeInv
<1>2. CASE i \notin mask
  <2> DEFINE all == isr \cup irr'
  <2>1. isr' = isr /\ irr' = irr \cup {i}
    BY <1>2 DEF raise_irq
  <2>2. pending' = IF Min(all) \in isr THEN pending ELSE Min(all)
    BY <1>2 DEF raise_irq
  <2>3. all \in SUBSET (0 .. 7) /\ all # {} /\ irr' \in SUBSET (0 .. 7)
    BY <2>1 DEF TypeInv
  <2>4. Min(all) \in all /\ \A y \in all : Min(all) <= y
    BY <2>3, FirstLine, Zenon
  <2> DEFINE first == Min(all)
  <2>5. first \in all /\ (\A y \in all : first <= y) /\ pending' = IF first \in isr THEN pending ELSE first
    BY <2>2, <2>4
  <2> HIDE DEF first
  <2>6. pending' = pending \/ pending' \in irr'
    BY <2>5
  <2>7. ASSUME 0 \in isr PROVE pending' = pending
    BY <2>3, <2>5, <2>7
  <2>8. ASSUME isr = {}, pending = 0 PROVE pending' = 0
    <3>1. 0 \in all
      BY <2>1, <2>8 DEF NoIRQ
    <3> QED BY <2>3, <2>5, <2>8, <3>1
  <2> QED BY <2>1, <2>3, <2>6, <2>7, <2>8
<1> QED BY <1>1, <1>2

-----------------------------------------------------------------------------
(* Steps by kinds: what they do to handlers, CPU and interrupt controller. *)
Carried == /\ mouse' \in Seq(Bytes) /\ packet' \in Seq(Bytes)
           /\ inputs' \in Nat

(* Nothing, or the keyboard, the mouse or the timer raises an interrupt. *)
LEMMA RaiseStep ==
  ASSUME LineInv, Carried, UNCHANGED <<stack, iflag, taking>>,
         UNCHANGED <<isr, irr, pending>> \/ \E i \in 0 .. 7 : raise_irq(i)
  PROVE  LineInv'
<1> USE DEF LineInv
<1>1. /\ isr' = isr /\ irr' \in SUBSET (0 .. 7) /\ irr \subseteq irr'
      /\ pending' = pending \/ pending' \in irr'
      /\ 0 \in isr => pending' = pending
      /\ isr = {} /\ pending = 0 => pending' = 0
  <2>1. CASE UNCHANGED <<isr, irr, pending>>
    BY <2>1 DEF TypeInv
  <2>2. CASE \E i \in 0 .. 7 : raise_irq(i)
    BY <2>2, RaiseFacts DEF PendingInv
  <2> QED BY <2>1, <2>2
<1>2. TypeInv'
  <2>1. pending' \in 0 .. 8
    <3>1. pending \in 0 .. 8
      BY DEF TypeInv
    <3>2. CASE pending' = pending
      BY <3>1, <3>2, Zenon
    <3>3. CASE pending' \in irr'
      <4>1. \A x \in 0 .. 7 : x \in 0 .. 8
        OBVIOUS
      <4> QED BY <1>1, <3>3, <4>1, Zenon
    <3> QED BY <1>1, <3>2, <3>3
  <2>2. stack' \in Seq(Frames) /\ iflag' \in BOOLEAN /\ taking' \in 0 .. 8
    BY Zenon DEF TypeInv
  <2> QED BY <1>1, <2>1, <2>2, Zenon DEF TypeInv, Carried
<1>3. Busy' = Busy /\ Top' = Top
  BY DEF Busy, Top, Open
<1>4. StackInv'
  BY <1>1, <1>3 DEF StackInv
<1>5. ServiceInv'
  BY <1>1, <1>3 DEF ServiceInv
<1>6. PendingInv'
  BY <1>1, <1>3 DEF PendingInv, ServiceInv, NoIRQ, TypeInv
<1> QED BY <1>2, <1>4, <1>5, <1>6

(* An interrupt is only taken when no handler is open. *)
LEMMA NotBusy ==
  ASSUME LineInv, Interruptible
  PROVE  ~Busy /\ isr = {} /\ pending \in 0 .. 7
<1> USE DEF LineInv
<1>1. pending \in 0 .. 7
  BY DEF Interruptible, TypeInv, NoIRQ
<1>2. ASSUME Busy PROVE FALSE
  <2>1. Top.pc = "hook"
    BY <1>2 DEF Busy, Open, StackInv, Interruptible
  <2>2. Len(stack) \in 1 .. Len(stack)
    BY <1>2 DEF Busy, TypeInv
  <2>3. isr = {0}
    BY <1>2, <2>1, <2>2 DEF StackInv, Top
  <2> QED BY <2>3 DEF ServiceInv, Interruptible
<1> QED BY <1>1, <1>2 DEF ServiceInv

(* A handler is entered: the acknowledge puts one line in service. *)
LEMMA EnterStep ==
  ASSUME LineInv, NEW line \in 0 .. 8, ~Busy, isr = {}, pending # NoIRQ, line = 0 => pending = 0,
         Enter(line), ack_int, taking' = NoIRQ, UNCHANGED <<mouse, packet, inputs>>
  PROVE  LineInv'
<1> USE DEF LineInv
<1>1. isr' = {pending} /\ irr' = irr \ {pending} /\ pending' = NoIRQ /\ pending \in 0 .. 7
  BY DEF ack_int, TypeInv, NoIRQ
<1>2. Frame(line) \in Frames
  BY DEF Frame, Frames, TypeInv
<1>3. stack \in Seq(Frames) /\ stack' = Append(stack, Frame(line))
  BY DEF Enter, TypeInv
<1>4. /\ stack' \in Seq(Frames) /\ Len(stack') = Len(stack) + 1 /\ Len(stack) \in Nat
      /\ \A i \in 1 .. Len(stack) : stack'[i] = stack[i]
      /\ stack'[Len(stack) + 1] = Frame(line)
  BY <1>2, <1>3
<1>5. Top' = Frame(line) /\ Busy' /\ Open(Top') /\ Top'.pc = "entered" /\ Top'.line = line
  BY <1>4 DEF Top, Busy, Open, Frame
<1>6. \A i \in 1 .. Len(stack) : ~Open(stack[i])
  <2> SUFFICES ASSUME NEW i \in 1 .. Len(stack), Open(stack[i]) PROVE FALSE
    OBVIOUS
  <2>1. i = Len(stack)
    BY DEF StackInv
  <2> QED BY <2>1, <1>4 DEF Busy, Top
<1>7. TypeInv'
  <2>1. pending' \in 0 .. 8 /\ taking' \in 0 .. 8 /\ isr' \in SUBSET (0 .. 7) /\ irr' \in SUBSET (0 .. 7)
    BY <1>1 DEF TypeInv, NoIRQ
  <2>2. iflag' \in BOOLEAN
    BY Zenon DEF Enter
  <2> QED BY <1>4, <2>1, <2>2, Zenon DEF TypeInv
<1>8. StackInv'
  <2>1. \A i \in 1 .. Len(stack') : Open(stack'[i]) => i = Len(stack')
    BY <1>4, <1>6
  <2>2. \A i \in 1 .. Len(stack') : stack'[i].pc = "hook" => stack'[i].line = 0
    BY <1>4 DEF StackInv, Frame
  <2>3. Top'.line = 0 => isr' = {0}
    BY <1>1, <1>5
  <2>4. iflag' = FALSE
    BY DEF Enter
  <2> QED BY <2>1, <2>2, <2>3, <2>4 DEF StackInv, Open
<1>9. ServiceInv'
  BY <1>1, <1>5 DEF ServiceInv
<1>10. PendingInv'
  BY <1>1 DEF PendingInv
<1> QED BY <1>7, <1>8, <1>9, <1>10

(* The innermost handler goes on: it stays open or it stays ended. *)
LEMMA GotoStep ==
  ASSUME LineInv, stack # << >>, NEW frame \in Frames, stack' = [stack EXCEPT ![Len(stack)] = frame],
         UNCHANGED <<isr, irr, pending>>, taking = NoIRQ, taking' = NoIRQ,
         Open(frame) <=> Open(Top), frame.line = Top.line, frame.pc = "hook" => Top.line = 0,
         iflag' \in BOOLEAN, frame.pc = "entered" => ~iflag', Carried
  PROVE  LineInv'
<1> USE DEF LineInv
<1>1. stack \in Seq(Frames) /\ Len(stack) \in Nat \ {0}
  BY DEF TypeInv
<1>2. /\ stack' \in Seq(Frames) /\ Len(stack') = Len(stack) /\ stack' # << >>
      /\ stack'[Len(stack)] = frame
      /\ \A i \in 1 .. Len(stack) : i # Len(stack) => stack'[i] = stack[i]
  BY <1>1
<1>3. Top' = frame /\ Busy' = Busy
  BY <1>2 DEF Top, Busy
<1>4. TypeInv'
  BY <1>2, Zenon DEF TypeInv, Carried
<1>5. StackInv'
  <2>1. \A i \in 1 .. Len(stack') : Open(stack'[i]) => i = Len(stack')
    BY <1>1, <1>2 DEF StackInv
  <2>2. \A i \in 1 .. Len(stack') : stack'[i].pc = "hook" => stack'[i].line = 0
    BY <1>1, <1>2 DEF StackInv
  <2>3. Busy' /\ Top'.line = 0 => isr' = {0}
    BY <1>3 DEF StackInv
  <2>4. Busy' /\ Top'.pc = "entered" => ~iflag'
    BY <1>3
  <2> QED BY <2>1, <2>2, <2>3, <2>4 DEF StackInv
<1>6. ServiceInv'
  BY <1>3 DEF ServiceInv
<1>7. PendingInv'
  BY DEF PendingInv
<1> QED BY <1>4, <1>5, <1>6, <1>7

(* The end of interrupt of an open handler leaves no line in service. *)
LEMMA EndFacts ==
  ASSUME LineInv, Busy, ocw2
  PROVE  isr' = {}
<1>1. isr' = {i \in isr : \E j \in isr : j < i}
  BY DEF ocw2
<1>2. \A i, j \in isr : i = j /\ i \in Int
  BY DEF LineInv, ServiceInv, TypeInv
<1> QED BY <1>1, <1>2

(* A handler returns, and has sent the end of interrupt. *)
LEMMA IretStep ==
  ASSUME LineInv, stack # << >>, Iret, isr' = {}, UNCHANGED <<irr, pending>>,
         taking = NoIRQ, taking' = NoIRQ, UNCHANGED <<mouse, packet, inputs>>
  PROVE  LineInv'
<1> USE DEF LineInv
<1> DEFINE len == Len(stack) - 1
<1>1. stack \in Seq(Frames) /\ Len(stack) \in Nat \ {0} /\ Top \in Frames
  BY DEF TypeInv, Top
<1>2. /\ stack' \in Seq(Frames) /\ Len(stack') = len
      /\ \A i \in 1 .. len : stack'[i] = stack[i]
  <2>1. stack' = SubSeq(stack, 1, len)
    BY DEF Iret
  <2>2. 1 \in Int /\ len \in Int /\ \A i \in 1 .. len : stack[i] \in Frames
    BY <1>1
  <2> HIDE DEF len
  <2>3. /\ SubSeq(stack, 1, len) \in Seq(Frames)
        /\ Len(SubSeq(stack, 1, len)) = IF 1 <= len THEN len - 1 + 1 ELSE 0
        /\ \A i \in 1 .. len - 1 + 1 : SubSeq(stack, 1, len)[i] = stack[1 + i - 1]
    BY <2>2, SubSeqProperties
  <2>4. len \in Nat
    BY <1>1 DEF len
  <2> QED BY <2>1, <2>3, <2>4
<1>3. \A i \in 1 .. len : ~Open(stack'[i])
  BY <1>1, <1>2 DEF StackInv
<1>4. ~Busy'
  <2> SUFFICES ASSUME stack' # << >> PROVE ~Open(stack'[Len(stack')])
    BY DEF Busy, Top
  <2>1. len \in 1 .. len
    BY <1>1, <1>2
  <2> QED BY <1>2, <1>3, <2>1
<1>5. TypeInv'
  <2>1. iflag' \in BOOLEAN
    BY <1>1 DEF Iret, Frames
  <2>2. taking' \in 0 .. 8 /\ isr' \in SUBSET (0 .. 7)
    BY DEF NoIRQ
  <2> QED BY <1>2, <2>1, <2>2, Zenon DEF TypeInv
<1>6. StackInv'
  <2>1. \A i \in 1 .. Len(stack') : Open(stack'[i]) => i = Len(stack')
    BY <1>2, <1>3
  <2>2. \A i \in 1 .. Len(stack') : stack'[i].pc = "hook" => stack'[i].line = 0
    BY <1>2, <1>3 DEF Open
  <2> QED BY <1>4, <2>1, <2>2 DEF StackInv
<1>7. ServiceInv'
  BY <1>4 DEF ServiceInv
<1>8. PendingInv'
  BY DEF PendingInv
<1> QED BY <1>5, <1>6, <1>7, <1>8

(* mouse_irq sends its end of interrupt and goes on. *)
LEMMA MouseStep ==
  ASSUME LineInv, mouse_irq
  PROVE  LineInv'
<1> USE DEF LineInv
<1> DEFINE frame == [Top EXCEPT !.pc = "poll"]
<1>1. stack \in Seq(Frames) /\ Len(stack) \in Nat \ {0} /\ Top \in Frames /\ Top.pc = "entered"
  BY DEF TypeInv, Top, mouse_irq, At
<1>2. frame \in Frames /\ frame.pc = "poll"
  BY <1>1 DEF Frames
<1>3. stack' = [stack EXCEPT ![Len(stack)] = frame]
  BY <1>1 DEF mouse_irq, Goto, Top
<1>4. isr' = {}
  BY <1>1, EndFacts DEF mouse_irq, Busy, Open, At
<1>5. UNCHANGED <<irr, pending, iflag, taking, mouse, packet, inputs>> /\ taking = NoIRQ
  BY DEF mouse_irq, ocw2, dev_vars, drv_vars, At
<1> HIDE DEF frame
<1>6. /\ stack' \in Seq(Frames) /\ Len(stack') = Len(stack) /\ stack'[Len(stack)] = frame
      /\ \A i \in 1 .. Len(stack) : i # Len(stack) => stack'[i] = stack[i]
  BY <1>1, <1>2, <1>3
<1>7. \A i \in 1 .. Len(stack) : ~Open(stack'[i])
  BY <1>2, <1>6 DEF StackInv, Open
<1>8. ~Busy'
  BY <1>1, <1>6, <1>7 DEF Busy, Top
<1>9. TypeInv'
  <2>1. isr' \in SUBSET (0 .. 7)
    BY <1>4
  <2> QED BY <1>5, <1>6, <2>1, Zenon DEF TypeInv
<1>10. StackInv'
  BY <1>6, <1>7, <1>8 DEF StackInv, Open
<1>11. ServiceInv' /\ PendingInv'
  BY <1>4, <1>5, <1>8 DEF ServiceInv, PendingInv
<1> QED BY <1>9, <1>10, <1>11

-----------------------------------------------------------------------------
(* At power-up no handler runs and nothing is in service. *)
LEMMA InitLine ==
  Init => LineInv
<1> SUFFICES ASSUME Init PROVE LineInv
  OBVIOUS
<1>1. NoByte \in Bytes /\ Ack \in Bytes /\ Packet(0, TRUE, TRUE)[3] \in Bytes
  BY DEF NoByte, Ack, Packet, Bytes
<1>2. mouse \in Seq(Bytes)
  <2> DEFINE last == Packet(0, TRUE, TRUE)[3]
  <2>1. <<last, Ack, Ack>> \in Seq(Bytes)
    <3> HIDE DEF last
    <3> SUFFICES ASSUME last \in Bytes, Ack \in Bytes PROVE <<last, Ack, Ack>> \in Seq(Bytes)
      BY <1>1 DEF last
    <3> QED OBVIOUS
  <2>2. << >> \in Seq(Bytes)
    BY EmptySeq
  <2> QED BY <2>1, <2>2 DEF Init
<1>3. packet \in Seq(Bytes)
  <2>1. <<NoByte, NoByte, NoByte>> \in Seq(Bytes)
    BY <1>1
  <2> QED BY <2>1 DEF Init
<1>4. stack = << >> /\ iflag = FALSE /\ taking = NoIRQ /\ inputs = 0
      /\ irr = {1} /\ isr = {} /\ pending = NoIRQ
  BY DEF Init, PICReady
<1>5. TypeInv
  <2>1. stack \in Seq(Frames) /\ taking \in 0 .. 8 /\ pending \in 0 .. 8 /\ inputs \in Nat
    BY <1>4 DEF NoIRQ
  <2>2. isr \in SUBSET (0 .. 7) /\ irr \in SUBSET (0 .. 7)
    BY <1>4
  <2>3. iflag \in BOOLEAN
    BY <1>4, Zenon
  <2> QED BY <1>2, <1>3, <2>1, <2>2, <2>3, Zenon DEF TypeInv
<1>6. ~Busy /\ Len(stack) = 0
  BY <1>4 DEF Busy
<1> QED BY <1>4, <1>5, <1>6 DEF LineInv, StackInv, ServiceInv, PendingInv

(* The devices. *)
LEMMA DeviceStep ==
  ASSUME LineInv, Devices
  PROVE  LineInv'
<1>0. inputs \in Nat /\ mouse \in Seq(Bytes) /\ packet \in Seq(Bytes)
  BY DEF LineInv, TypeInv
<1>1. ASSUME NEW k, NEW up, Key(k, up) PROVE LineInv'
  <2>1. Carried /\ UNCHANGED <<stack, iflag, taking>> /\ raise_irq(1)
    BY <1>0, <1>1 DEF Key, Input, cpu_vars, drv_vars, Carried
  <2> QED BY <2>1, RaiseStep
<1>2. ASSUME NEW c, Type(c) PROVE LineInv'
  <2>1. Carried /\ UNCHANGED <<stack, iflag, taking>> /\ UNCHANGED <<isr, irr, pending>>
    BY <1>0, <1>2 DEF Type, Input, cpu_vars, drv_vars, pic_vars, Carried
  <2> QED BY <2>1, RaiseStep
<1>3. ASSUME NEW dx \in BOOLEAN, NEW dy \in BOOLEAN, Move(dx, dy) PROVE LineInv'
  <2>1. inputs' \in Nat
    BY <1>0, <1>3 DEF Move, Input
  <2>2. Packet(inputs', dx, dy) \in Seq(Bytes)
    <3>1. /\ [n |-> inputs', at |-> 0, bit3 |-> TRUE] \in Bytes
          /\ [n |-> inputs', at |-> 1, bit3 |-> dx] \in Bytes
          /\ [n |-> inputs', at |-> 2, bit3 |-> dy] \in Bytes
      BY <2>1 DEF Bytes
    <3> QED BY <3>1 DEF Packet
  <2>3. mouse' \in Seq(Bytes)
    BY <1>0, <1>3, <2>2 DEF Move
  <2>4. Carried /\ UNCHANGED <<stack, iflag, taking>> /\ raise_irq(7)
    BY <1>0, <1>3, <2>1, <2>3 DEF Move, cpu_vars, drv_vars, Carried
  <2> QED BY <2>4, RaiseStep
<1>4. CASE Tick
  <2>1. Carried /\ UNCHANGED <<stack, iflag, taking>> /\ raise_irq(0)
    BY <1>0, <1>4 DEF Tick, cpu_vars, dev_vars, drv_vars, Carried
  <2> QED BY <2>1, RaiseStep
<1>5. CASE Restart
  <2>1. /\ UNCHANGED <<isr, irr, stack, iflag, taking, packet>> /\ pending' = NoIRQ /\ taking = NoIRQ
        /\ inputs' \in Nat /\ mouse' \in Seq(Bytes)
    BY <1>0, <1>5 DEF Restart, Input, drv_vars
  <2>2. pending' \in 0 .. 8
    BY <2>1 DEF NoIRQ
  <2>3. TypeInv'
    BY <2>1, <2>2, Zenon DEF LineInv, TypeInv
  <2>4. Busy' = Busy /\ Top' = Top
    BY <2>1 DEF Busy, Top, Open
  <2>5. StackInv' /\ ServiceInv' /\ PendingInv'
    BY <2>1, <2>4 DEF LineInv, StackInv, ServiceInv, PendingInv
  <2> QED BY <2>3, <2>5 DEF LineInv
<1> QED BY <1>1, <1>2, <1>3, <1>4, <1>5 DEF Devices

(* The CPU takes an interrupt. *)
LEMMA TakeStep ==
  ASSUME LineInv, TakeInterrupt \/ Acknowledge
  PROVE  LineInv'
<1>1. CASE handle_irq
  <2>1. Interruptible /\ Enter(pending) /\ ack_int /\ UNCHANGED <<taking, mouse, packet, inputs>>
    BY <1>1 DEF handle_irq, dev_vars, drv_vars
  <2>2. ~Busy /\ isr = {} /\ pending \in 0 .. 8 /\ pending # NoIRQ
    BY <2>1, NotBusy DEF NoIRQ
  <2>3. taking' = NoIRQ
    BY <2>1 DEF Interruptible
  <2> QED BY <2>1, <2>2, <2>3, EnterStep
<1>2. CASE SampleVector
  <2>1. Interruptible /\ taking' = pending /\ UNCHANGED <<isr, irr, pending, stack, iflag, mouse, packet, inputs>>
    BY <1>2 DEF SampleVector, dev_vars, drv_vars, pic_vars
  <2>2. ~Busy /\ pending # NoIRQ
    BY <2>1, NotBusy DEF NoIRQ
  <2>3. Busy' = Busy /\ Top' = Top
    BY <2>1 DEF Busy, Top, Open
  <2>4. TypeInv'
    BY <2>1, Zenon DEF LineInv, TypeInv
  <2>5. StackInv' /\ ServiceInv' /\ PendingInv'
    BY <2>1, <2>2, <2>3 DEF LineInv, StackInv, ServiceInv, PendingInv
  <2> QED BY <2>4, <2>5 DEF LineInv
<1>3. CASE Acknowledge
  <2>1. /\ taking # NoIRQ /\ Enter(taking) /\ ack_int /\ taking' = NoIRQ
        /\ UNCHANGED <<mouse, packet, inputs>>
    BY <1>3 DEF Acknowledge, dev_vars, drv_vars
  <2>2. ~Busy /\ isr = {} /\ pending # NoIRQ /\ (taking = 0 => pending = 0)
    BY <2>1 DEF LineInv, PendingInv, ServiceInv
  <2>3. taking \in 0 .. 8
    BY DEF LineInv, TypeInv
  <2> QED BY <2>1, <2>2, <2>3, EnterStep
<1> QED BY <1>1, <1>2, <1>3 DEF TakeInterrupt

(* The handlers, and what the program's hooks do. *)
LEMMA HandlerStep ==
  ASSUME LineInv, Handlers \/ HookEnables
  PROVE  LineInv'
<1>0. /\ inputs \in Nat /\ mouse \in Seq(Bytes) /\ packet \in Seq(Bytes)
      /\ stack \in Seq(Frames) /\ iflag \in BOOLEAN
  BY DEF LineInv, TypeInv
<1>t. ASSUME stack # << >> PROVE Len(stack) \in Nat \ {0} /\ Len(stack) \in 1 .. Len(stack) /\ Top \in Frames
  BY <1>0, <1>t DEF Top
<1>1. CASE timer_irq
  <2> DEFINE frame == [Top EXCEPT !.pc = "hook"]
  <2>1. /\ At(0, "entered") /\ Goto("hook")
        /\ UNCHANGED <<isr, irr, pending, iflag, taking, mouse, packet, inputs>>
    BY <1>1 DEF timer_irq, dev_vars, drv_vars, pic_vars
  <2>2. stack # << >> /\ taking = NoIRQ /\ Top.line = 0 /\ Top.pc = "entered"
    BY <2>1 DEF At
  <2>3. frame \in Frames /\ frame.pc = "hook" /\ frame.line = 0
    BY <1>t, <2>2 DEF Frames
  <2>4. stack' = [stack EXCEPT ![Len(stack)] = frame]
    BY <1>t, <2>1, <2>2 DEF Goto, Top
  <2>5. Open(frame) /\ Open(Top)
    BY <2>2, <2>3 DEF Open
  <2>6. Carried /\ iflag' \in BOOLEAN /\ taking' = NoIRQ
    BY <1>0, <2>1, <2>2, Zenon DEF Carried
  <2> HIDE DEF frame
  <2> QED BY <2>1, <2>2, <2>3, <2>4, <2>5, <2>6, GotoStep
<1>2. CASE EndTimer \/ kbd_irq
  <2>1. /\ stack # << >> /\ Open(Top) /\ taking = NoIRQ /\ Iret /\ ocw2
        /\ UNCHANGED <<taking, mouse, packet, inputs>>
    BY <1>2 DEF EndTimer, kbd_irq, At, Open, dev_vars, drv_vars
  <2>2. isr' = {} /\ UNCHANGED <<irr, pending>>
    BY <2>1, EndFacts DEF Busy, ocw2
  <2> QED BY <2>1, <2>2, IretStep
<1>3. CASE mouse_irq
  BY <1>3, MouseStep
<1>4. CASE mouse_poll_loop
  <2> DEFINE byte == Head(mouse)
             full == [packet EXCEPT ![nbytes + 1] = byte]
             calls == nbytes = 2 /\ driver_enabled
             frame == IF calls THEN [Top EXCEPT !.pc = "driver", !.args = full]
                      ELSE Top
  <2>1. /\ stack # << >> /\ taking = NoIRQ /\ Top.line = 7 /\ Top.pc = "poll" /\ mouse # << >>
        /\ UNCHANGED <<isr, irr, pending, iflag, taking, inputs>>
        /\ packet' = full /\ mouse' = Tail(mouse)
    BY <1>4 DEF mouse_poll_loop, At, pic_vars
  <2>2. stack' = IF nbytes = 2 /\ driver_enabled
                 THEN [stack EXCEPT ![Len(stack)] = [@ EXCEPT !.pc = "driver", !.args = full]]
                 ELSE stack
    BY <1>4 DEF mouse_poll_loop
  <2>3. byte \in Bytes /\ Tail(mouse) \in Seq(Bytes)
    BY <1>0, <2>1
  <2> HIDE DEF byte
  <2>4. full \in Seq(Bytes)
    <3> DEFINE k == nbytes + 1
               n == Len(packet)
    <3>1. full = [packet EXCEPT ![k] = byte]
      OBVIOUS
    <3> HIDE DEF k
    <3>2. n \in Nat /\ packet \in [1 .. n -> Bytes]
      BY <1>0
    <3> HIDE DEF full, n
    <3>3. full \in [1 .. n -> Bytes]
      BY <2>3, <3>1, <3>2, Zenon
    <3>4. full \in UNION {[1 .. m -> Bytes] : m \in Nat}
      BY <3>2, <3>3
    <3>5. Seq(Bytes) = UNION {[1 .. m -> Bytes] : m \in Nat}
      BY SeqDef, Zenon
    <3> QED BY <3>4, <3>5, Zenon
  <2> HIDE DEF full
  <2>5. stack' = [stack EXCEPT ![Len(stack)] = frame]
    <3> HIDE DEF calls
    <3>1. CASE calls
      BY <1>0, <1>t, <2>1, <2>2, <3>1 DEF Top, calls
    <3>2. CASE ~calls
      <4>1. stack' = stack /\ frame = stack[Len(stack)]
        BY <2>2, <3>2, Zenon DEF Top, calls
      <4>2. stack = [stack EXCEPT ![Len(stack)] = stack[Len(stack)]]
        BY <1>0, <1>t, <2>1
      <4> HIDE DEF frame
      <4> QED BY <4>1, <4>2, Zenon
    <3> QED BY <3>1, <3>2, Zenon
  <2>6. frame \in Frames /\ frame.line = Top.line /\ frame.pc \in {"poll", "driver"}
    BY <1>t, <2>1, <2>4 DEF Frames
  <2>7. ~Open(frame) /\ ~Open(Top)
    BY <2>1, <2>6 DEF Open
  <2>8. Carried /\ iflag' \in BOOLEAN /\ taking' = NoIRQ
    BY <1>0, <2>1, <2>3, <2>4, Zenon DEF Carried
  <2>9. frame.pc # "hook" /\ frame.pc # "entered"
    BY <2>6
  <2> HIDE DEF frame
  <2> QED BY <2>1, <2>5, <2>6, <2>7, <2>8, <2>9, GotoStep
<1>5. CASE update_mouse
  <2> DEFINE frame == [Top EXCEPT !.pc = "poll", !.args = << >>]
  <2>1. /\ stack # << >> /\ taking = NoIRQ /\ Top.line = 7 /\ Top.pc = "driver"
        /\ UNCHANGED <<isr, irr, pending, taking, mouse, packet, inputs>> /\ iflag' = FALSE
    BY <1>5 DEF update_mouse, At, pic_vars, dev_vars, drv_vars
  <2>2. stack' = [stack EXCEPT ![Len(stack)] = frame]
    BY <1>t, <1>5 DEF update_mouse, Top
  <2>3. << >> \in Seq(Bytes)
    BY EmptySeq
  <2>4. frame \in Frames /\ frame.line = Top.line /\ frame.pc = "poll"
    BY <1>t, <2>1, <2>3 DEF Frames
  <2>5. ~Open(frame) /\ ~Open(Top)
    BY <2>1, <2>4 DEF Open
  <2>6. Carried /\ iflag' \in BOOLEAN /\ taking' = NoIRQ
    BY <1>0, <2>1, Zenon DEF Carried
  <2> HIDE DEF frame
  <2> QED BY <2>1, <2>2, <2>4, <2>5, <2>6, GotoStep
<1>6. CASE no_mouse_data
  <2>1. /\ stack # << >> /\ Top.pc = "poll" /\ taking = NoIRQ /\ Iret
        /\ UNCHANGED <<isr, irr, pending, taking, mouse, packet, inputs>>
    BY <1>6 DEF no_mouse_data, At, pic_vars, dev_vars, drv_vars
  <2>2. isr' = {}
    BY <2>1 DEF Busy, Open, LineInv, ServiceInv
  <2> QED BY <2>1, <2>2, IretStep
<1>7. CASE HookEnables
  <2>1. /\ stack # << >> /\ Top.pc \in {"hook", "driver"} /\ taking = NoIRQ /\ iflag' = TRUE
        /\ Top.pc = "hook" => Top.line = 0
        /\ UNCHANGED <<isr, irr, pending, stack, taking, mouse, packet, inputs>>
    BY <1>7 DEF HookEnables, At, pic_vars, dev_vars, drv_vars
  <2>2. stack' = [stack EXCEPT ![Len(stack)] = Top] /\ Top \in Frames
    BY <1>0, <1>t, <2>1 DEF Top
  <2>3. Carried /\ iflag' \in BOOLEAN /\ taking' = NoIRQ
    BY <1>0, <2>1, Zenon DEF Carried
  <2> QED BY <2>1, <2>2, <2>3, GotoStep
<1> QED BY <1>1, <1>2, <1>3, <1>4, <1>5, <1>6, <1>7 DEF Handlers

(* The services: those of INT 13h command the mouse, which answers. *)
LEMMA ServiceStep ==
  ASSUME LineInv, Services
  PROVE  LineInv'
<1>0. inputs \in Nat /\ mouse \in Seq(Bytes) /\ packet \in Seq(Bytes)
  BY DEF LineInv, TypeInv
<1>1. CASE PollEmpty \/ PollByte \/ keyboard_poll \/ kbd_buffer_peek \/ keyboard_wait \/ serial_poll
  <2>1. UNCHANGED <<isr, irr, pending, stack, iflag, taking, mouse, packet, inputs>>
    <3>1. CASE PollEmpty
      BY <3>1 DEF PollEmpty, pic_vars, dev_vars, cpu_vars, drv_vars
    <3>2. CASE PollByte
      BY <3>2 DEF PollByte, pic_vars, dev_vars, cpu_vars, drv_vars
    <3>3. CASE keyboard_poll
      BY <3>3 DEF keyboard_poll, pic_vars, cpu_vars, drv_vars
    <3>4. CASE kbd_buffer_peek
      BY <3>4 DEF kbd_buffer_peek, pic_vars, dev_vars, cpu_vars, drv_vars
    <3>5. CASE keyboard_wait
      BY <3>5 DEF keyboard_wait, pic_vars, dev_vars, cpu_vars, drv_vars
    <3>6. CASE serial_poll
      BY <3>6 DEF serial_poll, pic_vars, cpu_vars, drv_vars
    <3> QED BY <1>1, <3>1, <3>2, <3>3, <3>4, <3>5, <3>6
  <2>2. Carried
    BY <1>0, <2>1 DEF Carried
  <2> QED BY <2>1, <2>2, RaiseStep
<1>2. CASE mouse_suspend \/ mouse_resume
  <2>1. PICK from, to : DiskStep(from, to) /\ (ReadMouse \/ mouse_init \/ \E on \in BOOLEAN : Command(on))
    BY <1>2, Zenon DEF mouse_suspend, mouse_resume
  <2>2. UNCHANGED <<stack, iflag, taking, packet, inputs>>
    BY <2>1 DEF DiskStep, cpu_vars
  <2>3. CASE ReadMouse \/ mouse_init
    <3>1. << >> \in Seq(Bytes) /\ (mouse # << >> => Tail(mouse) \in Seq(Bytes))
      BY <1>0, EmptySeq
    <3>2. mouse' \in Seq(Bytes) /\ UNCHANGED <<isr, irr, pending>>
      BY <2>3, <3>1 DEF ReadMouse, mouse_init, pic_vars
    <3>3. Carried
      BY <1>0, <2>2, <3>2 DEF Carried
    <3> QED BY <2>2, <3>2, <3>3, RaiseStep
  <2>4. CASE \E on \in BOOLEAN : Command(on)
    <3>1. Ack \in Bytes
      BY DEF Ack, Bytes
    <3>2. mouse' \in Seq(Bytes) /\ raise_irq(7)
      BY <1>0, <2>4, <3>1 DEF Command
    <3>3. Carried
      BY <1>0, <2>2, <3>2 DEF Carried
    <3> QED BY <2>2, <3>2, <3>3, RaiseStep
  <2> QED BY <2>1, <2>3, <2>4
<1> QED BY <1>1, <1>2 DEF Services

(* The program outside handlers and services. *)
LEMMA ProgramStep ==
  ASSUME LineInv, Programs
  PROVE  LineInv'
<1>0. inputs \in Nat /\ mouse \in Seq(Bytes) /\ packet \in Seq(Bytes) /\ iflag \in BOOLEAN
  BY DEF LineInv, TypeInv
<1>1. CASE SetFlag
  <2>1. /\ stack = << >> /\ iflag' = ~iflag
        /\ UNCHANGED <<isr, irr, pending, stack, taking, mouse, packet, inputs>>
    BY <1>1 DEF SetFlag, Program, pic_vars, dev_vars, drv_vars
  <2>2. ~Busy /\ ~Busy' /\ Len(stack') = 0
    BY <2>1 DEF Busy
  <2>3. TypeInv'
    BY <1>0, <2>1, Zenon DEF LineInv, TypeInv
  <2>4. StackInv'
    BY <2>2 DEF StackInv
  <2>5. ServiceInv' /\ PendingInv'
    BY <2>1, <2>2 DEF LineInv, ServiceInv, PendingInv
  <2> QED BY <2>3, <2>4, <2>5 DEF LineInv
<1>2. CASE HookEnables
  BY <1>2, HandlerStep
<1>3. ASSUME UNCHANGED <<isr, irr, pending, stack, iflag, taking, packet, inputs>>, mouse' \in Seq(Bytes)
      PROVE  LineInv'
  <2>1. Carried
    BY <1>0, <1>3 DEF Carried
  <2> QED BY <1>3, <2>1, RaiseStep
<1>4. CASE setup_mouse
  <2>1. << >> \in Seq(Bytes)
    BY EmptySeq
  <2> QED BY <1>3, <1>4, <2>1 DEF setup_mouse, pic_vars, cpu_vars
<1>5. ASSUME NEW set, NEW time, timer_services(set, time) PROVE LineInv'
  BY <1>0, <1>3, <1>5 DEF timer_services, pic_vars, cpu_vars, dev_vars, drv_vars
<1>6. ASSUME NEW on, enable_mouse(on) PROVE LineInv'
  BY <1>0, <1>3, <1>6 DEF enable_mouse, irq_enable, irq_disable, set_mask, cpu_vars, dev_vars
<1>7. ASSUME NEW what, NEW call, NEW pc, Call(what, call, pc) PROVE LineInv'
  BY <1>0, <1>3, <1>7 DEF Call, pic_vars, cpu_vars, dev_vars, drv_vars
<1> QED BY <1>1, <1>2, <1>4, <1>5, <1>6, <1>7 DEF Programs

(* The invariant that the next theorem rests on: which handler is open,    *)
(* which line is in service and what may be pending meanwhile.             *)
THEOREM LineInvariant ==
  Spec => []LineInv
<1>1. Init => LineInv
  BY InitLine
<1>2. LineInv /\ [Next]_vars => LineInv'
  <2> SUFFICES ASSUME LineInv, [Next]_vars PROVE LineInv'
    OBVIOUS
  <2>1. CASE UNCHANGED vars
    <3>1. UNCHANGED <<isr, irr, pending, stack, iflag, taking, mouse, packet, inputs>>
      BY <2>1 DEF vars, pic_vars, cpu_vars, dev_vars, drv_vars
    <3>2. Carried
      BY <3>1 DEF Carried, LineInv, TypeInv
    <3> QED BY <3>1, <3>2, RaiseStep
  <2> QED BY <2>1, DeviceStep, TakeStep, HandlerStep, ServiceStep, ProgramStep DEF Next
<1> QED BY <1>1, <1>2, PTL DEF Spec

(* No line stays in service without a handler that will end it, and no     *)
(* handler ends another one's: LinesReleased holds for every keymap, every *)
(* session, both CPUs and any nesting of handlers, although RTLCPU may     *)
(* acknowledge another line than it serves (sim/RTLCPU/Core.cpp).          *)
THEOREM LinesReleasedHolds ==
  Spec => []LinesReleased
<1>1. LineInv => LinesReleased
  <2> SUFFICES ASSUME LineInv PROVE LinesReleased
    OBVIOUS
  <2>1. stack \in Seq(Frames) /\ Len(stack) \in Nat /\ DOMAIN stack = 1 .. Len(stack)
    BY DEF LineInv, TypeInv
  <2>2. \A i \in DOMAIN stack : i \in Unended <=> Open(stack[i])
    BY DEF Unended, Open
  <2>3. \A i \in Unended : i = Len(stack)
    BY <2>1, <2>2 DEF LineInv, StackInv, Unended
  <2>4. Unended = {} <=> ~Busy
    <3>1. ASSUME Busy PROVE Len(stack) \in Unended
      <4>1. Len(stack) \in DOMAIN stack
        BY <2>1, <3>1 DEF Busy
      <4> QED BY <2>2, <3>1, <4>1 DEF Busy, Top
    <3>2. ASSUME NEW i \in Unended PROVE Busy
      <4>1. i = Len(stack) /\ i \in DOMAIN stack /\ stack # << >>
        BY <2>1, <2>3, <3>2 DEF Unended
      <4> QED BY <2>2, <3>2, <4>1 DEF Busy, Top
    <3> QED BY <3>1, <3>2
  <2> QED BY <2>3, <2>4 DEF LinesReleased, LineInv, ServiceInv
<1> QED BY <1>1, LineInvariant, PTL

-----------------------------------------------------------------------------
(***************************************************************************)
(* The packets of the mouse: what the driver gets, for any session.        *)
(***************************************************************************)

(* In INT 13h: the queue of the mouse may hold answers and parts of        *)
(* packets, and at the end is emptied, with nbytes reset.                  *)
Cleaning == {"enable", "answer", "flush"}
Disturbed == svc.pc \in {"suspended", "resume"} \cup Cleaning

(* Handlers are only interrupted in the code of the driver, never while    *)
(* they poll the mouse, and services not at all.                           *)
NestInv ==
  /\ \A i \in 1 .. Len(stack) : i < Len(stack) => stack[i].pc = "driver"
  /\ stack # << >> /\ Top.pc = "poll" => ~iflag /\ taking = NoIRQ
  /\ svc # Idle => stack = << >> /\ taking = NoIRQ

Thens == {"none", "return", "once", "serial", "peek"}
CallInv == DOMAIN svc = DOMAIN Idle /\ svc.then \in Thens

(* Until a program has named its driver the mouse is not listened to: what *)
(* mouse_hw_init left in the queue stays there.                            *)
Quiet == /\ 7 \in mask /\ 7 \notin irr /\ pending # 7 /\ taking # 7 /\ nbytes = 0
         /\ \A i \in 1 .. Len(stack) : stack[i].line # 7
SilentInv == (driver_enabled => driver) /\ (~driver => Quiet)

(* The byte y follows the byte x in the queue of the mouse; x is a byte of *)
(* one of the last packets, and can be told to be the first of it.         *)
Follows(x, y) == IF x.at = 2 THEN y.at = 0 ELSE y.at = x.at + 1 /\ y.n = x.n
Sent(x, last) == x.n \in 1 .. last /\ (x.at = 0 => x.bit3)

(* The bytes of the packet so far and those in the queue are whole packets *)
(* one after the other.                                                    *)
Aligned ==
  /\ \A k \in 1 .. nbytes : packet[k].at = k - 1 /\ packet[k].n = packet[1].n
  /\ nbytes > 0 => mouse # << >> /\ mouse[1].n = packet[1].n
  /\ mouse # << >> => mouse[1].at = nbytes /\ mouse[Len(mouse)].at = 2
  /\ \A i \in 1 .. Len(mouse) : Sent(mouse[i], inputs)
  /\ \A i \in 1 .. Len(mouse) - 1 : Follows(mouse[i], mouse[i + 1])

Polls == stack # << >> /\ Top.pc = "poll"

(* After a restart the mouse is silent, and a packet that was broken off   *)
(* is forgotten before it is enabled again.                                *)
StreamInv ==
  /\ nbytes \in 0 .. 2 /\ Len(packet) = 3
  /\ svc.pc \in Cleaning => nbytes = 0
  /\ driver /\ ~Disturbed => /\ active => Aligned /\ (nbytes # 0 => Polls)
                             /\ ~active => mouse = << >>

PacketInv == NestInv /\ CallInv /\ SilentInv /\ StreamInv /\ PacketsWhole

-----------------------------------------------------------------------------
(* Packets that a driver was called with stay whole. *)
LEMMA WholeKept ==
  ASSUME LineInv, PacketsWhole, stack' \in Seq(Frames), inputs' \in Nat, inputs <= inputs',
         \A i \in 1 .. Len(stack') : stack'[i].pc = "driver" =>
           i \in 1 .. Len(stack) /\ stack[i].pc = "driver" /\ stack'[i].args = stack[i].args
  PROVE  PacketsWhole'
<1>1. inputs \in Nat /\ DOMAIN stack = 1 .. Len(stack) /\ DOMAIN stack' = 1 .. Len(stack')
  BY DEF LineInv, TypeInv
<1>2. \A n \in 1 .. inputs : n \in 1 .. inputs'
  BY <1>1
<1> SUFFICES ASSUME NEW i \in DOMAIN stack', stack'[i].pc = "driver"
             PROVE  /\ Numbers(stack'[i].args) \in {<<n, n, n>> : n \in 1 .. inputs'}
                    /\ \A k \in 1 .. 3 : stack'[i].args[k].at = k - 1
  BY Zenon DEF PacketsWhole, Numbers
<1>3. i \in DOMAIN stack /\ stack[i].pc = "driver" /\ stack'[i].args = stack[i].args
  BY <1>1
<1>4. /\ Numbers(stack[i].args) \in {<<n, n, n>> : n \in 1 .. inputs}
      /\ \A k \in 1 .. 3 : stack[i].args[k].at = k - 1
  BY <1>3, Zenon DEF PacketsWhole
<1>5. PICK n \in 1 .. inputs : Numbers(stack[i].args) = <<n, n, n>>
  BY <1>4, Zenon
<1>6. n \in 1 .. inputs'
  BY <1>2
<1>7. Numbers(stack'[i].args) = <<n, n, n>>
  BY <1>3, <1>5, Zenon
<1>8. \A k \in 1 .. 3 : stack'[i].args[k].at = k - 1
  BY <1>3, <1>4, Zenon
<1> QED BY <1>6, <1>7, <1>8, Zenon

(* More inputs do not disturb the bytes that are there. *)
LEMMA AlignedKept ==
  ASSUME LineInv, Aligned, UNCHANGED <<mouse, nbytes, packet>>, inputs' \in Nat, inputs <= inputs'
  PROVE  Aligned'
<1>1. inputs \in Nat
  BY DEF LineInv, TypeInv
<1>2. \A n \in 1 .. inputs : n \in 1 .. inputs'
  BY <1>1
<1>3. \A x : Sent(x, inputs) => Sent(x, inputs')
  BY <1>2, Zenon DEF Sent
<1> QED BY <1>3, Zenon DEF Aligned

(* The queue, the packet and the driver stay as they are. *)
LEMMA StreamKept ==
  ASSUME LineInv, StreamInv, UNCHANGED <<mouse, active, nbytes, packet, driver>>,
         inputs' \in Nat, inputs <= inputs',
         svc'.pc \in Cleaning => svc.pc \in Cleaning, Disturbed => Disturbed',
         driver /\ active /\ ~Disturbed /\ nbytes # 0 => Polls'
  PROVE  StreamInv'
<1>1. /\ nbytes' \in 0 .. 2 /\ Len(packet') = 3
      /\ svc'.pc \in Cleaning => nbytes' = 0
  BY Zenon DEF StreamInv
<1>2. ASSUME driver', ~Disturbed', active' PROVE Aligned' /\ (nbytes' # 0 => Polls')
  <2>1. driver /\ ~Disturbed /\ active
    BY <1>2
  <2>2. Aligned
    BY <2>1, Zenon DEF StreamInv
  <2> QED BY <2>1, <2>2, AlignedKept
<1>3. ASSUME driver', ~Disturbed', ~active' PROVE mouse' = << >>
  BY <1>3, Zenon DEF StreamInv
<1> QED BY <1>1, <1>2, <1>3, Zenon DEF StreamInv

(* Before there is a driver a request of another device leaves the mouse   *)
(* unheard, and its own is masked.                                         *)
LEMMA QuietKept ==
  ASSUME LineInv, Quiet, UNCHANGED <<stack, taking, nbytes>>, mask' = mask,
         UNCHANGED <<irr, pending>> \/ \E i \in 0 .. 7 : raise_irq(i)
  PROVE  Quiet'
<1>1. CASE UNCHANGED <<irr, pending>>
  BY <1>1, Zenon DEF Quiet
<1>2. CASE \E i \in 0 .. 7 : raise_irq(i)
  <2>1. PICK i \in 0 .. 7 : raise_irq(i)
    BY <1>2
  <2>2. pending' = pending \/ pending' \in irr'
    BY <2>1, RaiseFacts DEF LineInv, PendingInv
  <2>3. irr' = irr \/ (i \notin mask /\ irr' = irr \cup {i})
    BY <2>1 DEF raise_irq, pic_vars
  <2>4. 7 \notin irr'
    BY <2>3 DEF Quiet
  <2>5. pending' # 7
    BY <2>2, <2>4 DEF Quiet
  <2> QED BY <2>4, <2>5, Zenon DEF Quiet
<1> QED BY <1>1, <1>2

(* Devices other than the mouse, and services other than those of the      *)
(* disk.                                                                   *)
LEMMA ElsewhereStep ==
  ASSUME LineInv, PacketInv,
         UNCHANGED <<stack, iflag, taking, mouse, active, nbytes, packet, driver, driver_enabled>>,
         mask' = mask, UNCHANGED <<irr, pending>> \/ \E i \in 0 .. 7 : raise_irq(i),
         inputs' \in Nat, inputs <= inputs', CallInv',
         svc' # Idle => stack = << >> /\ taking = NoIRQ,
         svc'.pc \in Cleaning => svc.pc \in Cleaning, Disturbed => Disturbed'
  PROVE  PacketInv'
<1> USE DEF PacketInv
<1>1. Top' = Top /\ Polls' = Polls
  BY DEF Top, Polls
<1>2. NestInv'
  BY <1>1 DEF NestInv
<1>3. SilentInv'
  BY QuietKept DEF SilentInv
<1>4. driver /\ active /\ ~Disturbed /\ nbytes # 0 => Polls'
  BY <1>1, Zenon DEF StreamInv
<1>5. StreamInv'
  BY <1>4, StreamKept
<1>6. stack \in Seq(Frames)
  BY DEF LineInv, TypeInv
<1>7. PacketsWhole'
  BY <1>6, WholeKept
<1> QED BY <1>2, <1>3, <1>5, <1>7

(* What the CPU and the handlers do to the stack, apart from polling. *)
LEMMA StackStep ==
  ASSUME LineInv, PacketInv, stack' \in Seq(Frames),
         UNCHANGED <<mouse, active, nbytes, packet, driver, driver_enabled, svc, inputs>>,
         NestInv', ~driver => Quiet',
         \A i \in 1 .. Len(stack') : stack'[i].pc = "driver" =>
           i \in 1 .. Len(stack) /\ stack[i].pc = "driver" /\ stack'[i].args = stack[i].args,
         driver /\ active /\ ~Disturbed /\ nbytes # 0 => Polls'
  PROVE  PacketInv'
<1> USE DEF PacketInv
<1>1. inputs' \in Nat /\ inputs <= inputs'
  BY DEF LineInv, TypeInv
<1>2. Disturbed => Disturbed'
  BY DEF Disturbed
<1>3. StreamInv'
  BY <1>1, <1>2, StreamKept
<1>4. PacketsWhole'
  BY <1>1, WholeKept
<1>5. CallInv' /\ SilentInv'
  BY Zenon DEF CallInv, SilentInv
<1> QED BY <1>3, <1>4, <1>5

(* A handler is entered. *)
LEMMA EnterPackets ==
  ASSUME LineInv, PacketInv, NEW line \in 0 .. 8, Enter(line), ack_int, ~Busy, ~Polls,
         ~driver => line # 7, svc = Idle, taking' = NoIRQ,
         UNCHANGED <<mouse, active, nbytes, packet, driver, driver_enabled, svc, inputs>>
  PROVE  PacketInv'
<1> USE DEF PacketInv
<1>1. stack \in Seq(Frames) /\ stack' = Append(stack, Frame(line)) /\ Frame(line) \in Frames
  BY DEF LineInv, TypeInv, Enter, Frame, Frames
<1>2. /\ stack' \in Seq(Frames) /\ Len(stack') = Len(stack) + 1 /\ Len(stack) \in Nat
      /\ \A i \in 1 .. Len(stack) : stack'[i] = stack[i]
      /\ stack'[Len(stack) + 1] = Frame(line)
  BY <1>1
<1>3. Top' = Frame(line) /\ Top'.pc = "entered" /\ Top'.line = line
  BY <1>2 DEF Top, Frame
<1>4. ASSUME stack # << >> PROVE Top.pc = "driver"
  <2>1. Top \in Frames
    BY <1>1, <1>4 DEF Top
  <2> QED BY <1>4, <2>1 DEF Busy, Polls, Open, Frames
<1>5. NestInv'
  <2>1. ASSUME NEW i \in 1 .. Len(stack'), i < Len(stack') PROVE stack'[i].pc = "driver"
    <3>1. i \in 1 .. Len(stack) /\ stack'[i] = stack[i] /\ stack # << >>
      BY <1>1, <1>2, <2>1
    <3>2. CASE i < Len(stack)
      BY <3>1, <3>2 DEF NestInv
    <3>3. CASE i = Len(stack)
      BY <1>4, <3>1, <3>3 DEF Top
    <3> QED BY <1>2, <3>1, <3>2, <3>3
  <2>2. Top'.pc # "poll"
    BY <1>3
  <2> QED BY <2>1, <2>2, Zenon DEF NestInv
<1>6. ASSUME ~driver PROVE Quiet'
  <2>1. Quiet
    BY <1>6, Zenon DEF SilentInv
  <2>2. mask' = mask /\ 7 \notin irr' /\ pending' # 7 /\ taking' # 7
    BY <2>1 DEF ack_int, Quiet, NoIRQ
  <2>3. \A i \in 1 .. Len(stack') : stack'[i].line # 7
    BY <1>2, <1>3, <1>6, <2>1 DEF Quiet, Frame
  <2> QED BY <2>1, <2>2, <2>3 DEF Quiet
<1>7. driver /\ active /\ ~Disturbed => nbytes = 0
  BY Zenon DEF StreamInv
<1>8. \A i \in 1 .. Len(stack') : stack'[i].pc = "driver" =>
        i \in 1 .. Len(stack) /\ stack[i].pc = "driver" /\ stack'[i].args = stack[i].args
  <2> SUFFICES ASSUME NEW i \in 1 .. Len(stack'), stack'[i].pc = "driver"
               PROVE  i \in 1 .. Len(stack) /\ stack'[i] = stack[i]
    BY Zenon
  <2>1. i # Len(stack) + 1
    BY <1>2 DEF Frame
  <2> QED BY <1>2, <2>1
<1> QED BY <1>2, <1>5, <1>6, <1>7, <1>8, StackStep

(* The innermost handler goes on, and does not call the driver. *)
LEMMA GotoPackets ==
  ASSUME LineInv, PacketInv, stack # << >>, NEW frame \in Frames,
         stack' = [stack EXCEPT ![Len(stack)] = frame], frame.line = Top.line,
         frame.pc = "driver" => Top.pc = "driver" /\ frame.args = Top.args,
         frame.pc = "poll" => ~iflag', Top.pc = "poll" => frame.pc = "poll",
         svc = Idle, taking = NoIRQ, UNCHANGED <<taking, mask, irr, pending>>,
         UNCHANGED <<mouse, active, nbytes, packet, driver, driver_enabled, svc, inputs>>
  PROVE  PacketInv'
<1> USE DEF PacketInv
<1>1. stack \in Seq(Frames) /\ Len(stack) \in Nat \ {0}
  BY DEF LineInv, TypeInv
<1>2. /\ stack' \in Seq(Frames) /\ Len(stack') = Len(stack) /\ stack' # << >>
      /\ stack'[Len(stack)] = frame
      /\ \A i \in 1 .. Len(stack) : i # Len(stack) => stack'[i] = stack[i]
  BY <1>1
<1>3. Top' = frame
  BY <1>2 DEF Top
<1>4. NestInv'
  <2>1. ASSUME NEW i \in 1 .. Len(stack'), i < Len(stack') PROVE stack'[i].pc = "driver"
    <3> DEFINE len == Len(stack)
    <3>0. len \in Nat /\ i \in 1 .. len /\ i < len
      BY <1>1, <1>2, <2>1, Zenon
    <3> HIDE DEF len
    <3>1. i \in 1 .. len /\ i < len /\ i # len
      BY <3>0
    <3> USE DEF len
    <3>2. stack[i].pc = "driver"
      BY <3>1 DEF NestInv
    <3> QED BY <1>2, <3>1, <3>2
  <2> QED BY <1>3, <2>1, Zenon DEF NestInv
<1>5. ASSUME ~driver PROVE Quiet'
  <2>1. Quiet
    BY <1>5, Zenon DEF SilentInv
  <2>2. ASSUME NEW i \in 1 .. Len(stack') PROVE stack'[i].line # 7
    <3>1. i \in 1 .. Len(stack) /\ stack[i].line # 7
      BY <1>2, <2>1 DEF Quiet
    <3>2. CASE i = Len(stack)
      BY <1>2, <3>1, <3>2 DEF Top
    <3>3. CASE i # Len(stack)
      BY <1>2, <3>1, <3>3
    <3> QED BY <3>2, <3>3
  <2> QED BY <2>1, <2>2, Zenon DEF Quiet
<1>6. driver /\ active /\ ~Disturbed /\ nbytes # 0 => Polls'
  BY <1>2, <1>3, Zenon DEF StreamInv, Polls
<1>7. \A i \in 1 .. Len(stack') : stack'[i].pc = "driver" =>
        i \in 1 .. Len(stack) /\ stack[i].pc = "driver" /\ stack'[i].args = stack[i].args
  BY <1>2 DEF Top
<1> QED BY <1>2, <1>4, <1>5, <1>6, <1>7, StackStep

(* A handler returns, and no packet is in progress. *)
LEMMA IretPackets ==
  ASSUME LineInv, PacketInv, stack # << >>, Iret, driver /\ active /\ ~Disturbed => nbytes = 0,
         svc = Idle, taking = NoIRQ, UNCHANGED <<taking, mask, irr, pending>>,
         UNCHANGED <<mouse, active, nbytes, packet, driver, driver_enabled, svc, inputs>>
  PROVE  PacketInv'
<1> USE DEF PacketInv
<1> DEFINE len == Len(stack) - 1
<1>1. stack \in Seq(Frames) /\ Len(stack) \in Nat \ {0} /\ len \in Nat
  BY DEF LineInv, TypeInv
<1>2. /\ stack' \in Seq(Frames) /\ Len(stack') = len
      /\ \A i \in 1 .. len : stack'[i] = stack[i]
  <2>1. stack' = SubSeq(stack, 1, len)
    BY DEF Iret
  <2>2. 1 \in Int /\ len \in Int /\ \A i \in 1 .. len : stack[i] \in Frames
    BY <1>1
  <2> HIDE DEF len
  <2>3. /\ SubSeq(stack, 1, len) \in Seq(Frames)
        /\ Len(SubSeq(stack, 1, len)) = IF 1 <= len THEN len - 1 + 1 ELSE 0
        /\ \A i \in 1 .. len - 1 + 1 : SubSeq(stack, 1, len)[i] = stack[1 + i - 1]
    BY <2>2, SubSeqProperties
  <2> QED BY <1>1, <2>1, <2>3
<1>3. \A i \in 1 .. len : stack'[i].pc = "driver"
  BY <1>1, <1>2 DEF NestInv
<1>4. ~Polls'
  <2> SUFFICES ASSUME stack' # << >> PROVE stack'[Len(stack')].pc # "poll"
    BY DEF Polls, Top
  <2>1. len \in 1 .. len
    BY <1>1, <1>2
  <2> QED BY <1>2, <1>3, <2>1
<1>5. NestInv'
  BY <1>2, <1>3, <1>4 DEF NestInv, Polls
<1>6. ASSUME ~driver PROVE Quiet'
  <2>1. Quiet
    BY <1>6, Zenon DEF SilentInv
  <2>2. \A i \in 1 .. Len(stack') : stack'[i].line # 7
    BY <1>1, <1>2, <2>1 DEF Quiet
  <2> QED BY <2>1, <2>2, Zenon DEF Quiet
<1>7. \A i \in 1 .. Len(stack') : stack'[i].pc = "driver" =>
        i \in 1 .. Len(stack) /\ stack[i].pc = "driver" /\ stack'[i].args = stack[i].args
  <2> SUFFICES ASSUME NEW i \in 1 .. len PROVE i \in 1 .. Len(stack) /\ stack'[i] = stack[i]
    BY <1>2, <1>3, Zenon
  <2> QED BY <1>1, <1>2
<1> QED BY <1>2, <1>5, <1>6, <1>7, StackStep

(* The CPU takes an interrupt: never one while the mouse is polled. *)
LEMMA TakePackets ==
  ASSUME LineInv, PacketInv, TakeInterrupt \/ Acknowledge
  PROVE  PacketInv'
<1> USE DEF PacketInv
<1>1. CASE handle_irq
  <2>1. /\ Interruptible /\ Enter(pending) /\ ack_int /\ svc = Idle
        /\ UNCHANGED <<taking, mouse, active, nbytes, packet, driver, driver_enabled, svc, inputs>>
    BY <1>1 DEF handle_irq, Interruptible, dev_vars, drv_vars
  <2>2. ~Busy /\ pending \in 0 .. 8
    BY <2>1, NotBusy
  <2>3. ~Polls /\ taking' = NoIRQ
    BY <2>1 DEF NestInv, Polls, Interruptible
  <2>4. ~driver => pending # 7
    BY Zenon DEF SilentInv, Quiet
  <2> QED BY <2>1, <2>2, <2>3, <2>4, EnterPackets
<1>2. CASE SampleVector
  <2>1. /\ Interruptible /\ taking' = pending /\ svc = Idle /\ iflag
        /\ UNCHANGED <<stack, iflag, mask, irr, pending, mouse, active, nbytes, packet>>
        /\ UNCHANGED <<driver, driver_enabled, svc, inputs>>
    BY <1>2 DEF SampleVector, Interruptible, pic_vars, dev_vars, drv_vars
  <2>2. Top' = Top /\ Polls' = Polls /\ stack' \in Seq(Frames)
    BY <2>1 DEF Top, Polls, LineInv, TypeInv
  <2>3. NestInv'
    BY <2>1, <2>2 DEF NestInv
  <2>4. ~driver => Quiet'
    BY <2>1, Zenon DEF SilentInv, Quiet
  <2>5. driver /\ active /\ ~Disturbed /\ nbytes # 0 => Polls'
    BY <2>2, Zenon DEF StreamInv
  <2> QED BY <2>1, <2>2, <2>3, <2>4, <2>5, StackStep
<1>3. CASE Acknowledge
  <2>1. /\ taking # NoIRQ /\ Enter(taking) /\ ack_int /\ taking' = NoIRQ
        /\ UNCHANGED <<mouse, active, nbytes, packet, driver, driver_enabled, svc, inputs>>
    BY <1>3 DEF Acknowledge, dev_vars, drv_vars
  <2>2. ~Busy /\ ~Polls /\ svc = Idle
    BY <2>1 DEF LineInv, PendingInv, NestInv, Polls
  <2>3. taking \in 0 .. 8
    BY DEF LineInv, TypeInv
  <2>4. ~driver => taking # 7
    BY Zenon DEF SilentInv, Quiet
  <2> QED BY <2>1, <2>2, <2>3, <2>4, EnterPackets
<1> QED BY <1>1, <1>2, <1>3 DEF TakeInterrupt

(* A byte goes from the queue to the packet. *)
LEMMA PollAligned ==
  ASSUME LineInv, Aligned, nbytes \in 0 .. 2, Len(packet) = 3, mouse # << >>, inputs' = inputs,
         packet' = [packet EXCEPT ![nbytes + 1] = Head(mouse)], mouse' = Tail(mouse),
         nbytes' = IF nbytes = 0 /\ ~Head(mouse).bit3 THEN 0 ELSE (nbytes + 1) % 3
  PROVE  /\ nbytes' \in 0 .. 2 /\ Len(packet') = 3 /\ Aligned'
         /\ nbytes = 2 => \E n \in 1 .. inputs : \A k \in 1 .. 3 : packet'[k].n = n /\ packet'[k].at = k - 1
<1> DEFINE byte == mouse[1]
           len == Len(mouse)
<1>1. /\ mouse \in Seq(Bytes) /\ len \in Nat \ {0} /\ byte = Head(mouse)
      /\ packet \in Seq(Bytes) /\ inputs \in Nat
  BY DEF LineInv, TypeInv
<1>2. /\ byte \in Bytes /\ byte.at = nbytes /\ byte.n \in 1 .. inputs
      /\ nbytes = 0 => byte.bit3
      /\ nbytes > 0 => byte.n = packet[1].n
      /\ mouse[len].at = 2
  BY <1>1 DEF Aligned, Sent
<1>3. nbytes' = IF nbytes = 2 THEN 0 ELSE nbytes + 1
  <2>1. ~(nbytes = 0 /\ ~byte.bit3)
    BY <1>2, Zenon
  <2>2. nbytes' = (nbytes + 1) % 3
    BY <1>1, <2>1, Zenon
  <2>3. nbytes \in {0, 1, 2}
    OBVIOUS
  <2> QED BY <2>2, <2>3
<1>4. /\ Len(mouse') = len - 1
      /\ \A i \in 1 .. len - 1 : mouse'[i] = mouse[i + 1]
      /\ mouse' # << >> <=> len > 1
  <2>1. /\ Tail(mouse) \in Seq(Bytes) /\ Len(Tail(mouse)) = len - 1
        /\ \A i \in 1 .. Len(Tail(mouse)) : Tail(mouse)[i] = mouse[i + 1]
    BY <1>1, HeadTailProperties
  <2>2. Tail(mouse) = << >> <=> Len(Tail(mouse)) = 0
    BY <2>1, EmptySeq
  <2> QED BY <1>1, <2>1, <2>2
<1>5. /\ Len(packet') = 3 /\ packet'[nbytes + 1] = byte
      /\ \A k \in 1 .. 3 : k # nbytes + 1 => packet'[k] = packet[k]
  <2>1. nbytes + 1 \in 1 .. 3 /\ DOMAIN packet = 1 .. 3
    BY <1>1
  <2>2. packet' = [packet EXCEPT ![nbytes + 1] = byte]
    BY <1>1, Zenon
  <2> QED BY <1>1, <2>1, <2>2
<1>6. \A k \in 1 .. nbytes : packet[k].at = k - 1 /\ packet[k].n = packet[1].n
  BY DEF Aligned
<1> HIDE DEF byte
<1>7. \A k \in 1 .. nbytes + 1 : packet'[k].at = k - 1 /\ packet'[k].n = packet'[1].n
  <2>1. packet'[1].n = byte.n
    <3>1. CASE nbytes = 0
      BY <1>5, <3>1
    <3>2. CASE nbytes # 0
      BY <1>2, <1>5, <3>2
    <3> QED BY <3>1, <3>2
  <2> SUFFICES ASSUME NEW k \in 1 .. nbytes + 1 PROVE packet'[k].at = k - 1 /\ packet'[k].n = byte.n
    BY <2>1
  <2>2. CASE k = nbytes + 1
    BY <1>2, <1>5, <2>2
  <2>3. CASE k # nbytes + 1
    <3>1. k \in 1 .. nbytes /\ k \in 1 .. 3 /\ nbytes > 0
      BY <2>3
    <3>2. packet'[k] = packet[k]
      BY <1>5, <2>3, <3>1
    <3> QED BY <1>2, <1>6, <3>1, <3>2
  <2> QED BY <2>2, <2>3
<1>8. /\ \A i \in 1 .. len - 1 : Follows(mouse[i], mouse[i + 1])
      /\ \A i \in 1 .. len : Sent(mouse[i], inputs)
  BY Zenon DEF Aligned
<1>9. ASSUME nbytes # 2 PROVE len > 1 /\ mouse[2].at = nbytes + 1 /\ mouse[2].n = byte.n
  <2>1. len # 1
    BY <1>2, <1>9 DEF byte
  <2>2. len > 1 /\ 1 \in 1 .. len - 1 /\ 1 + 1 = 2
    <3>1. len \in Nat \ {0}
      BY <1>1
    <3> HIDE DEF len
    <3> QED BY <2>1, <3>1
  <2>3. mouse[1].at # 2
    BY <1>2, <1>9 DEF byte
  <2>4. mouse[1 + 1].at = mouse[1].at + 1 /\ mouse[1 + 1].n = mouse[1].n
    BY <1>8, <2>2, <2>3 DEF Follows
  <2> QED BY <1>2, <2>2, <2>4 DEF byte
<1>10. ASSUME nbytes = 2, len > 1 PROVE mouse[2].at = 0
  <2>1. 1 \in 1 .. len - 1 /\ 1 + 1 = 2
    BY <1>1, <1>10
  <2>2. mouse[1].at = 2
    BY <1>2, <1>10 DEF byte
  <2>3. mouse[1 + 1].at = 0
    BY <1>8, <2>1, <2>2 DEF Follows
  <2> QED BY <2>1, <2>3
<1>11. Aligned'
  <2>1. \A k \in 1 .. nbytes' : packet'[k].at = k - 1 /\ packet'[k].n = packet'[1].n
    BY <1>3, <1>7
  <2>2. mouse' # << >> => mouse'[1] = mouse[2] /\ mouse'[Len(mouse')] = mouse[len]
    BY <1>1, <1>4
  <2>3. nbytes' > 0 => mouse' # << >> /\ mouse'[1].n = packet'[1].n
    <3> SUFFICES ASSUME nbytes # 2 PROVE mouse' # << >> /\ mouse'[1].n = packet'[1].n
      BY <1>3
    <3>1. packet'[nbytes + 1].n = packet'[1].n
      BY <1>7
    <3> QED BY <1>4, <1>5, <1>9, <2>2, <3>1
  <2>4. mouse' # << >> => mouse'[1].at = nbytes' /\ mouse'[Len(mouse')].at = 2
    BY <1>2, <1>3, <1>4, <1>9, <1>10, <2>2
  <2>5. \A i \in 1 .. Len(mouse') : Sent(mouse'[i], inputs')
    <3> SUFFICES ASSUME NEW i \in 1 .. len - 1 PROVE Sent(mouse'[i], inputs)
      BY <1>4, Zenon
    <3>1. i + 1 \in 1 .. len /\ mouse'[i] = mouse[i + 1]
      BY <1>1, <1>4
    <3> QED BY <1>8, <3>1, Zenon
  <2>6. \A i \in 1 .. Len(mouse') - 1 : Follows(mouse'[i], mouse'[i + 1])
    <3> SUFFICES ASSUME NEW i \in 1 .. Len(mouse') - 1 PROVE Follows(mouse'[i], mouse'[i + 1])
      OBVIOUS
    <3> DEFINE j == i + 1
    <3>1. j \in 1 .. len - 1 /\ i \in 1 .. len - 1
      BY <1>1, <1>4
    <3>2. mouse'[i] = mouse[j] /\ mouse'[j] = mouse[j + 1]
      BY <1>4, <3>1
    <3> HIDE DEF j
    <3>3. Follows(mouse[j], mouse[j + 1])
      BY <1>8, <3>1, Zenon
    <3>4. Follows(mouse'[i], mouse'[j])
      BY <3>2, <3>3, Zenon
    <3> QED BY <3>4, Zenon DEF j
  <2> QED BY <2>1, <2>3, <2>4, <2>5, <2>6, Zenon DEF Aligned
<1>12. ASSUME nbytes = 2
       PROVE  \E n \in 1 .. inputs : \A k \in 1 .. 3 : packet'[k].n = n /\ packet'[k].at = k - 1
  <2>1. nbytes + 1 = 3 /\ 3 \in 1 .. 3
    BY <1>12
  <2>2. \A k \in 1 .. 3 : packet'[k].at = k - 1 /\ packet'[k].n = packet'[1].n
    BY <1>7, <2>1, Zenon
  <2>3. packet'[1].n = byte.n
    BY <1>5, <2>1, <2>2, Zenon
  <2> QED BY <1>2, <2>2, <2>3, Zenon
<1> QED BY <1>3, <1>5, <1>11, <1>12

(* mouse_poll_loop: a driver is only called with a whole packet. *)
LEMMA PollPackets ==
  ASSUME LineInv, LineInv', PacketInv, mouse_poll_loop
  PROVE  PacketInv'
<1> USE DEF PacketInv
<1> DEFINE calls == nbytes = 2 /\ driver_enabled
<1>1. /\ stack # << >> /\ taking = NoIRQ /\ svc = Idle /\ Top.line = 7 /\ Top.pc = "poll" /\ mouse # << >>
      /\ UNCHANGED <<mask, irr, pending, iflag, taking, inputs, active, driver, driver_enabled, svc>>
      /\ packet' = [packet EXCEPT ![nbytes + 1] = Head(mouse)] /\ mouse' = Tail(mouse)
      /\ nbytes' = IF nbytes = 0 /\ ~Head(mouse).bit3 THEN 0 ELSE (nbytes + 1) % 3
  BY DEF mouse_poll_loop, At, pic_vars
<1>2. stack' = IF calls
               THEN [stack EXCEPT ![Len(stack)] = [@ EXCEPT !.pc = "driver", !.args = packet']]
               ELSE stack
  BY DEF mouse_poll_loop
<1>3. stack \in Seq(Frames) /\ Len(stack) \in Nat \ {0} /\ Len(stack) \in 1 .. Len(stack) /\ Top \in Frames
  BY <1>1 DEF LineInv, TypeInv, Top
<1>4. driver
  BY <1>1, <1>3 DEF SilentInv, Quiet, Top
<1>5. ~Disturbed /\ ~Disturbed' /\ svc'.pc \notin Cleaning
  BY <1>1 DEF Disturbed, Idle, Cleaning
<1>6. active /\ active'
  BY <1>1, <1>4, <1>5, Zenon DEF StreamInv
<1>7. Aligned
  BY <1>4, <1>5, <1>6, Zenon DEF StreamInv
<1>8. nbytes \in 0 .. 2 /\ Len(packet) = 3
  BY DEF StreamInv
<1>9. /\ nbytes' \in 0 .. 2 /\ Len(packet') = 3 /\ Aligned'
      /\ nbytes = 2 => \E n \in 1 .. inputs : \A k \in 1 .. 3 : packet'[k].n = n /\ packet'[k].at = k - 1
  BY <1>1, <1>7, <1>8, PollAligned
<1>10. ASSUME calls
       PROVE  /\ Len(stack') = Len(stack) /\ Top'.pc = "driver" /\ Top'.args = packet'
              /\ \A i \in 1 .. Len(stack) : i # Len(stack) => stack'[i] = stack[i]
  <2> DEFINE frame == [Top EXCEPT !.pc = "driver", !.args = packet']
  <2>1. stack' = [stack EXCEPT ![Len(stack)] = frame]
    BY <1>2, <1>3, <1>10 DEF Top
  <2>2. frame.pc = "driver" /\ frame.args = packet'
    BY <1>3 DEF Frames
  <2> HIDE DEF frame
  <2>3. /\ Len(stack') = Len(stack) /\ stack'[Len(stack)] = frame
        /\ \A i \in 1 .. Len(stack) : i # Len(stack) => stack'[i] = stack[i]
    BY <1>3, <2>1
  <2> QED BY <2>2, <2>3 DEF Top
<1>11. ASSUME ~calls PROVE stack' = stack /\ Top' = Top
  BY <1>2, <1>11 DEF Top
<1>12. NestInv'
  <2>1. CASE calls
    <3>1. ASSUME NEW i \in 1 .. Len(stack'), i < Len(stack') PROVE stack'[i].pc = "driver"
      <4> DEFINE len == Len(stack)
      <4>1. len \in Nat /\ i \in 1 .. len /\ i < len
        BY <1>3, <1>10, <2>1, <3>1, Zenon
      <4> HIDE DEF len
      <4>2. i # len
        BY <4>1
      <4>3. stack[i].pc = "driver"
        BY <4>1 DEF NestInv, len
      <4> QED BY <1>10, <2>1, <4>1, <4>2, <4>3, Zenon DEF len
    <3>2. Top'.pc # "poll"
      BY <1>10, <2>1
    <3> QED BY <1>1, <3>1, <3>2, Zenon DEF NestInv
  <2>2. CASE ~calls
    BY <1>1, <1>11, <2>2, Zenon DEF NestInv
  <2> QED BY <2>1, <2>2
<1>13. CallInv' /\ SilentInv'
  BY <1>1, <1>4, Zenon DEF CallInv, SilentInv
<1>14. StreamInv'
  <2>1. nbytes' # 0 => Polls'
    <3> SUFFICES ASSUME nbytes' # 0 PROVE Polls'
      OBVIOUS
    <3>1. nbytes # 2
      BY <1>1
    <3> QED BY <1>1, <1>11, <3>1 DEF Polls
  <2> QED BY <1>5, <1>6, <1>9, <2>1, Zenon DEF StreamInv
<1>15. PacketsWhole'
  <2>1. CASE ~calls
    <3>1. inputs' \in Nat /\ inputs <= inputs'
      BY <1>1 DEF LineInv, TypeInv
    <3> QED BY <1>3, <1>11, <2>1, <3>1, WholeKept
  <2>2. CASE calls
    <3>1. PICK n \in 1 .. inputs : \A k \in 1 .. 3 : packet'[k].n = n /\ packet'[k].at = k - 1
      BY <1>9, <2>2
    <3>2. Numbers(packet') = <<n, n, n>>
      <4>1. packet' \in Seq(Bytes)
        BY DEF LineInv, TypeInv
      <4>2. DOMAIN packet' = 1 .. 3
        BY <1>9, <4>1
      <4>3. Numbers(packet') = [i \in 1 .. 3 |-> n]
        BY <3>1, <4>2 DEF Numbers
      <4>4. <<n, n, n>> = [i \in 1 .. 3 |-> n]
        OBVIOUS
      <4> QED BY <4>3, <4>4, Zenon
    <3>3. DOMAIN stack = 1 .. Len(stack) /\ DOMAIN stack' = 1 .. Len(stack)
      BY <1>3, <1>10, <2>2 DEF LineInv, TypeInv
    <3> SUFFICES ASSUME NEW i \in 1 .. Len(stack), stack'[i].pc = "driver"
                 PROVE  /\ Numbers(stack'[i].args) \in {<<m, m, m>> : m \in 1 .. inputs'}
                        /\ \A k \in 1 .. 3 : stack'[i].args[k].at = k - 1
      BY <3>3, Zenon DEF PacketsWhole, Numbers
    <3>4. CASE i = Len(stack)
      <4>1. stack'[i].args = packet'
        BY <1>10, <2>2, <3>4, Zenon DEF Top
      <4> QED BY <1>1, <3>1, <3>2, <4>1, Zenon
    <3>5. CASE i # Len(stack)
      <4>1. stack'[i] = stack[i] /\ stack[i].pc = "driver" /\ i \in DOMAIN stack
        BY <1>10, <2>2, <3>3, <3>5, Zenon
      <4>2. /\ Numbers(stack[i].args) \in {<<m, m, m>> : m \in 1 .. inputs}
            /\ \A k \in 1 .. 3 : stack[i].args[k].at = k - 1
        BY <4>1, Zenon DEF PacketsWhole
      <4> QED BY <1>1, <4>1, <4>2, Zenon
    <3> QED BY <3>4, <3>5
  <2> QED BY <2>1, <2>2
<1> QED BY <1>12, <1>13, <1>14, <1>15

(* The handlers; no_mouse_data is only reached between two packets. *)
LEMMA HandlerPackets ==
  ASSUME LineInv, LineInv', PacketInv, Handlers \/ HookEnables
  PROVE  PacketInv'
<1> USE DEF PacketInv
<1>0. ASSUME stack # << >> PROVE Top \in Frames
  BY <1>0 DEF LineInv, TypeInv, Top
<1>p. nbytes # 0 /\ driver /\ active /\ ~Disturbed => Polls
  BY Zenon DEF StreamInv
<1>1. CASE timer_irq
  <2> DEFINE frame == [Top EXCEPT !.pc = "hook"]
  <2>1. /\ stack # << >> /\ taking = NoIRQ /\ svc = Idle /\ Top.pc = "entered" /\ Goto("hook")
        /\ UNCHANGED <<taking, mask, irr, pending>>
        /\ UNCHANGED <<mouse, active, nbytes, packet, driver, driver_enabled, svc, inputs>>
    BY <1>1 DEF timer_irq, At, dev_vars, drv_vars, pic_vars
  <2>2. frame \in Frames /\ frame.pc = "hook" /\ frame.line = Top.line
    BY <1>0, <2>1 DEF Frames
  <2>3. stack' = [stack EXCEPT ![Len(stack)] = frame]
    BY <2>1 DEF Goto, Top, LineInv, TypeInv
  <2> HIDE DEF frame
  <2> QED BY <2>1, <2>2, <2>3, GotoPackets
<1>2. CASE EndTimer \/ kbd_irq
  <2>1. /\ stack # << >> /\ taking = NoIRQ /\ svc = Idle /\ Top.pc # "poll" /\ Iret
        /\ UNCHANGED <<taking, mask, irr, pending>>
        /\ UNCHANGED <<mouse, active, nbytes, packet, driver, driver_enabled, svc, inputs>>
    BY <1>2 DEF EndTimer, kbd_irq, At, ocw2, dev_vars, drv_vars
  <2>2. driver /\ active /\ ~Disturbed => nbytes = 0
    BY <1>p, <2>1, Zenon DEF Polls
  <2> QED BY <2>1, <2>2, IretPackets
<1>3. CASE mouse_irq
  <2> DEFINE frame == [Top EXCEPT !.pc = "poll"]
  <2>1. /\ stack # << >> /\ taking = NoIRQ /\ svc = Idle /\ Top.pc = "entered" /\ Goto("poll")
        /\ UNCHANGED <<iflag, taking, mask, irr, pending>>
        /\ UNCHANGED <<mouse, active, nbytes, packet, driver, driver_enabled, svc, inputs>>
    BY <1>3 DEF mouse_irq, At, ocw2, dev_vars, drv_vars
  <2>2. frame \in Frames /\ frame.pc = "poll" /\ frame.line = Top.line
    BY <1>0, <2>1 DEF Frames
  <2>3. stack' = [stack EXCEPT ![Len(stack)] = frame]
    BY <2>1 DEF Goto, Top, LineInv, TypeInv
  <2>4. ~iflag'
    BY <2>1 DEF LineInv, StackInv, Busy, Open
  <2> HIDE DEF frame
  <2> QED BY <2>1, <2>2, <2>3, <2>4, GotoPackets
<1>4. CASE mouse_poll_loop
  BY <1>4, PollPackets
<1>5. CASE update_mouse
  <2> DEFINE frame == [Top EXCEPT !.pc = "poll", !.args = << >>]
  <2>1. /\ stack # << >> /\ taking = NoIRQ /\ svc = Idle /\ Top.pc = "driver" /\ iflag' = FALSE
        /\ UNCHANGED <<taking, mask, irr, pending>>
        /\ UNCHANGED <<mouse, active, nbytes, packet, driver, driver_enabled, svc, inputs>>
    BY <1>5 DEF update_mouse, At, pic_vars, dev_vars, drv_vars
  <2>2. << >> \in Seq(Bytes)
    BY EmptySeq
  <2>3. frame \in Frames /\ frame.pc = "poll" /\ frame.line = Top.line
    BY <1>0, <2>1, <2>2 DEF Frames
  <2>4. stack' = [stack EXCEPT ![Len(stack)] = frame]
    BY <1>5, <2>1 DEF update_mouse, Top, LineInv, TypeInv
  <2> HIDE DEF frame
  <2> QED BY <2>1, <2>3, <2>4, GotoPackets
<1>6. CASE no_mouse_data
  <2>1. /\ stack # << >> /\ taking = NoIRQ /\ svc = Idle /\ mouse = << >> /\ Iret
        /\ UNCHANGED <<taking, mask, irr, pending>>
        /\ UNCHANGED <<mouse, active, nbytes, packet, driver, driver_enabled, svc, inputs>>
    BY <1>6 DEF no_mouse_data, At, pic_vars, dev_vars, drv_vars
  <2>2. driver /\ active /\ ~Disturbed => nbytes = 0
    BY <2>1 DEF StreamInv, Aligned
  <2> QED BY <2>1, <2>2, IretPackets
<1>7. CASE HookEnables
  <2>1. /\ stack # << >> /\ taking = NoIRQ /\ svc = Idle /\ Top.pc \in {"hook", "driver"}
        /\ UNCHANGED <<stack, taking, mask, irr, pending>>
        /\ UNCHANGED <<mouse, active, nbytes, packet, driver, driver_enabled, svc, inputs>>
    BY <1>7 DEF HookEnables, At, pic_vars, dev_vars, drv_vars
  <2>2. stack' = [stack EXCEPT ![Len(stack)] = Top] /\ Top \in Frames
    BY <1>0, <2>1 DEF Top, LineInv, TypeInv
  <2> QED BY <2>1, <2>2, GotoPackets
<1> QED BY <1>1, <1>2, <1>3, <1>4, <1>5, <1>6, <1>7 DEF Handlers

(* A packet behind a queue. *)
LEMMA JoinedQueue ==
  ASSUME NEW q \in Seq(Bytes), NEW more \in Seq(Bytes), Len(more) = 3
  PROVE  /\ Len(q \o more) = Len(q) + 3
         /\ \A i \in 1 .. Len(q) : (q \o more)[i] = q[i]
         /\ \A k \in 1 .. 3 : (q \o more)[Len(q) + k] = more[k]
<1>1. Len(q) \in Nat
  OBVIOUS
<1>2. Len(q \o more) = Len(q) + Len(more)
  BY ConcatProperties, Zenon
<1>3. \A i \in 1 .. Len(q) + Len(more) : (q \o more)[i] =
        IF i <= Len(q) THEN q[i] ELSE more[i - Len(q)]
  BY ConcatProperties, Zenon
<1> DEFINE len == Len(q)
           r == q \o more
<1>4. Len(r) = len + 3 /\ len \in Nat
  BY <1>1, <1>2, Zenon
<1>5. \A i \in 1 .. len + 3 : r[i] = IF i <= len THEN q[i] ELSE more[i - len]
  BY <1>3, Zenon
<1> HIDE DEF len, r
<1>6. ASSUME NEW i \in 1 .. len PROVE r[i] = q[i]
  <2>1. i \in 1 .. len + 3 /\ i <= len
    BY <1>4
  <2> QED BY <1>5, <2>1, Zenon
<1>7. ASSUME NEW k \in 1 .. 3 PROVE r[len + k] = more[k]
  <2> DEFINE j == len + k
  <2>1. j \in 1 .. len + 3 /\ ~(j <= len) /\ j - len = k
    BY <1>4
  <2> HIDE DEF j
  <2>2. r[j] = more[j - len]
    BY <1>5, <2>1
  <2> QED BY <2>1, <2>2, Zenon DEF j
<1> QED BY <1>4, <1>6, <1>7, Zenon DEF len, r

(* A packet behind the len bytes of whole packets. *)
LEMMA PacketJoins ==
  ASSUME NEW len \in Nat, inputs \in Nat,
         \A i \in 1 .. len : mouse'[i] = mouse[i],
         \A k \in 1 .. 3 : mouse'[len + k].n = inputs + 1 /\ mouse'[len + k].at = k - 1,
         mouse'[len + 1].bit3,
         len > 0 => mouse[len].at = 2,
         \A i \in 1 .. len : Sent(mouse[i], inputs),
         \A i \in 1 .. len - 1 : Follows(mouse[i], mouse[i + 1])
  PROVE  /\ mouse'[len + 3].at = 2
         /\ \A i \in 1 .. len + 3 : Sent(mouse'[i], inputs + 1)
         /\ \A i \in 1 .. len + 2 : Follows(mouse'[i], mouse'[i + 1])
<1>1. /\ mouse'[len + 1].n = inputs + 1 /\ mouse'[len + 1].at = 0
      /\ mouse'[len + 2].n = inputs + 1 /\ mouse'[len + 2].at = 1
      /\ mouse'[len + 3].n = inputs + 1 /\ mouse'[len + 3].at = 2
  OBVIOUS
<1>2. inputs + 1 \in 1 .. inputs + 1 /\ \A n \in 1 .. inputs : n \in 1 .. inputs + 1
  OBVIOUS
<1>3. ASSUME NEW i \in 1 .. len + 3 PROVE Sent(mouse'[i], inputs + 1)
  <2>1. i \in 1 .. len \/ i \in {len + 1, len + 2, len + 3}
    OBVIOUS
  <2>2. CASE i \in 1 .. len
    BY <1>2, <2>2, Zenon DEF Sent
  <2>3. CASE i \in {len + 1, len + 2, len + 3}
    BY <1>1, <1>2, <2>3 DEF Sent
  <2> QED BY <2>1, <2>2, <2>3
<1>4. ASSUME NEW i \in 1 .. len + 2 PROVE Follows(mouse'[i], mouse'[i + 1])
  <2>1. \/ i \in 1 .. len /\ i \in 1 .. len - 1 /\ i + 1 \in 1 .. len
        \/ i = len /\ i \in 1 .. len /\ len > 0
        \/ i = len + 1 \/ i = len + 2
    OBVIOUS
  <2>2. len + 1 + 1 = len + 2 /\ len + 2 + 1 = len + 3
    OBVIOUS
  <2>3. CASE i \in 1 .. len /\ i \in 1 .. len - 1 /\ i + 1 \in 1 .. len
    <3>1. mouse'[i] = mouse[i] /\ mouse'[i + 1] = mouse[i + 1] /\ Follows(mouse[i], mouse[i + 1])
      BY <2>3, Zenon
    <3> QED BY <3>1, Zenon
  <2>4. CASE i = len /\ i \in 1 .. len /\ len > 0
    <3>1. mouse'[i].at = 2
      BY <2>4, Zenon
    <3> QED BY <1>1, <2>4, <3>1 DEF Follows
  <2>5. CASE i = len + 1 \/ i = len + 2
    BY <1>1, <2>2, <2>5 DEF Follows
  <2> QED BY <2>1, <2>3, <2>4, <2>5
<1> QED BY <1>1, <1>3, <1>4

(* The mouse queues a packet behind whole packets. *)
LEMMA MoveAligned ==
  ASSUME LineInv, Aligned, nbytes \in 0 .. 2, NEW dx \in BOOLEAN, NEW dy \in BOOLEAN, inputs' = inputs + 1,
         mouse' = mouse \o Packet(inputs', dx, dy), UNCHANGED <<nbytes, packet>>
  PROVE  Aligned'
<1> DEFINE more == Packet(inputs + 1, dx, dy)
           len == Len(mouse)
<1>1. inputs \in Nat /\ mouse \in Seq(Bytes) /\ len \in Nat
  BY DEF LineInv, TypeInv
<1>2. /\ more \in Seq(Bytes) /\ Len(more) = 3
      /\ \A k \in 1 .. 3 : more[k].n = inputs + 1 /\ more[k].at = k - 1
      /\ more[1].bit3
  BY <1>1 DEF Packet, Bytes
<1>3. mouse' = mouse \o more
  BY Zenon
<1> HIDE DEF more
<1>4. /\ Len(mouse') = len + 3
      /\ \A i \in 1 .. len : mouse'[i] = mouse[i]
      /\ \A k \in 1 .. 3 : mouse'[len + k] = more[k]
  BY <1>1, <1>2, <1>3, JoinedQueue
<1>5. /\ \A k \in 1 .. nbytes : packet[k].at = k - 1 /\ packet[k].n = packet[1].n
      /\ nbytes > 0 => mouse # << >> /\ mouse[1].n = packet[1].n
      /\ mouse # << >> => mouse[1].at = nbytes /\ mouse[len].at = 2
      /\ \A i \in 1 .. len : Sent(mouse[i], inputs)
      /\ \A i \in 1 .. len - 1 : Follows(mouse[i], mouse[i + 1])
  BY Zenon DEF Aligned
<1>6. mouse = << >> <=> len = 0
  BY <1>1, EmptySeq
<1> HIDE DEF len
<1>7. mouse' # << >>
  <2>1. mouse' = << >> => Len(mouse') = 0
    BY EmptySeq, Zenon
  <2>2. len + 3 # 0
    BY <1>1
  <2> QED BY <1>4, <2>1, <2>2, Zenon
<1>8. /\ \A k \in 1 .. 3 : mouse'[len + k].n = inputs + 1 /\ mouse'[len + k].at = k - 1
      /\ mouse'[len + 1].bit3
  <2>1. 1 \in 1 .. 3
    OBVIOUS
  <2> QED BY <1>2, <1>4, <2>1, Zenon
<1>9. len > 0 => mouse[len].at = 2
  <2>1. len > 0 => len # 0
    BY <1>1
  <2> QED BY <1>5, <1>6, <2>1, Zenon
<1>10. /\ mouse'[len + 3].at = 2
       /\ \A i \in 1 .. len + 3 : Sent(mouse'[i], inputs + 1)
       /\ \A i \in 1 .. len + 2 : Follows(mouse'[i], mouse'[i + 1])
  BY <1>1, <1>4, <1>5, <1>8, <1>9, PacketJoins
<1>11. (nbytes > 0 => mouse'[1].n = packet[1].n) /\ mouse'[1].at = nbytes
  <2>1. CASE len = 0
    <3>1. mouse = << >> /\ ~(nbytes > 0)
      BY <1>5, <1>6, <2>1, Zenon
    <3>2. nbytes = 0 /\ len + 1 = 1 /\ 1 - 1 = 0 /\ 1 \in 1 .. 3
      BY <2>1, <3>1
    <3>3. mouse'[len + 1].at = 1 - 1
      BY <1>8, <3>2, Zenon
    <3> QED BY <3>1, <3>2, <3>3, Zenon
  <2>2. CASE len # 0
    <3>1. 1 \in 1 .. len
      BY <1>1, <2>2
    <3>2. mouse'[1] = mouse[1] /\ mouse # << >>
      BY <1>4, <1>6, <2>2, <3>1, Zenon
    <3> QED BY <1>5, <3>2, Zenon
  <2> QED BY <2>1, <2>2
<1>12. Len(mouse') - 1 = len + 2
  <2> DEFINE m == Len(mouse')
  <2>1. m = len + 3
    BY <1>4, Zenon
  <2> HIDE DEF m
  <2>2. m - 1 = len + 2
    BY <1>1, <2>1
  <2> QED BY <2>2, Zenon DEF m
<1>13. /\ \A k \in 1 .. nbytes' : packet'[k].at = k - 1 /\ packet'[k].n = packet'[1].n
       /\ nbytes' > 0 => mouse' # << >> /\ mouse'[1].n = packet'[1].n
       /\ mouse' # << >> => mouse'[1].at = nbytes' /\ mouse'[Len(mouse')].at = 2
  BY <1>4, <1>5, <1>7, <1>10, <1>11, Zenon
<1>14. /\ \A i \in 1 .. Len(mouse') : Sent(mouse'[i], inputs')
       /\ \A i \in 1 .. Len(mouse') - 1 : Follows(mouse'[i], mouse'[i + 1])
  <2>1. \A i \in 1 .. Len(mouse') : Sent(mouse'[i], inputs')
    BY <1>4, <1>10, Zenon
  <2>2. \A i \in 1 .. Len(mouse') - 1 : Follows(mouse'[i], mouse'[i + 1])
    BY <1>10, <1>12, Zenon
  <2> QED BY <2>1, <2>2, Zenon
<1> QED BY <1>13, <1>14, Zenon DEF Aligned

(* The devices: the user, the timer and the restart. *)
LEMMA DevicePackets ==
  ASSUME LineInv, LineInv', PacketInv, Devices
  PROVE  PacketInv'
<1> USE DEF PacketInv
<1>0. inputs \in Nat /\ stack \in Seq(Frames)
  BY DEF LineInv, TypeInv
<1>a. svc # Idle => stack = << >> /\ taking = NoIRQ
  BY DEF NestInv
<1>b. ASSUME UNCHANGED svc PROVE Disturbed' = Disturbed /\ CallInv'
  BY <1>b DEF Disturbed, CallInv
<1>c. ASSUME NEW i, raise_irq(i) PROVE mask' = mask
  BY <1>c DEF raise_irq, pic_vars
<1>d. 1 \in 0 .. 7 /\ 7 \in 0 .. 7 /\ 0 \in 0 .. 7
  OBVIOUS
<1>1. ASSUME NEW k, NEW up, Key(k, up) PROVE PacketInv'
  <2>1. /\ UNCHANGED <<stack, iflag, taking, mouse, active, nbytes, packet, driver, driver_enabled, svc>>
        /\ inputs' = inputs + 1 /\ raise_irq(1)
    BY <1>1 DEF Key, Input, cpu_vars, drv_vars
  <2>2. inputs' \in Nat /\ inputs <= inputs'
    BY <1>0, <2>1
  <2> QED BY <1>a, <1>b, <1>c, <1>d, <2>1, <2>2, ElsewhereStep
<1>2. ASSUME NEW c, Type(c) PROVE PacketInv'
  <2>1. /\ UNCHANGED <<stack, iflag, taking, mouse, active, nbytes, packet, driver, driver_enabled, svc>>
        /\ inputs' = inputs + 1 /\ UNCHANGED <<mask, irr, pending>>
    BY <1>2 DEF Type, Input, cpu_vars, drv_vars, pic_vars
  <2>2. inputs' \in Nat /\ inputs <= inputs'
    BY <1>0, <2>1
  <2> QED BY <1>a, <1>b, <2>1, <2>2, ElsewhereStep
<1>3. CASE Tick
  <2>1. /\ UNCHANGED <<stack, iflag, taking, mouse, active, nbytes, packet, driver, driver_enabled, svc>>
        /\ inputs' = inputs /\ raise_irq(0)
    BY <1>3 DEF Tick, dev_vars, cpu_vars, drv_vars
  <2>2. inputs' \in Nat /\ inputs <= inputs'
    BY <1>0, <2>1
  <2> QED BY <1>a, <1>b, <1>c, <1>d, <2>1, <2>2, ElsewhereStep
<1>4. ASSUME NEW dx \in BOOLEAN, NEW dy \in BOOLEAN, Move(dx, dy) PROVE PacketInv'
  <2>1. /\ UNCHANGED <<stack, iflag, taking, active, nbytes, packet, driver, driver_enabled, svc>>
        /\ inputs' = inputs + 1 /\ raise_irq(7) /\ active
        /\ mouse' = mouse \o Packet(inputs', dx, dy)
    BY <1>4 DEF Move, Input, cpu_vars, drv_vars
  <2>2. inputs' \in Nat /\ inputs <= inputs'
    BY <1>0, <2>1
  <2>3. Top' = Top /\ Polls' = Polls /\ Disturbed' = Disturbed /\ CallInv'
    BY <1>b, <2>1 DEF Top, Polls
  <2>4. NestInv'
    BY <2>1, <2>3 DEF NestInv
  <2>5. SilentInv'
    BY <1>c, <1>d, <2>1, QuietKept DEF SilentInv
  <2>6. nbytes \in 0 .. 2
    BY DEF StreamInv
  <2>7. ASSUME driver, ~Disturbed PROVE Aligned' /\ (nbytes # 0 => Polls)
    <3>1. Aligned /\ (nbytes # 0 => Polls)
      BY <2>1, <2>7, Zenon DEF StreamInv
    <3> QED BY <2>1, <2>6, <3>1, MoveAligned
  <2>8. StreamInv'
    BY <2>1, <2>3, <2>7, Zenon DEF StreamInv
  <2>9. PacketsWhole'
    BY <1>0, <2>1, <2>2, WholeKept
  <2> QED BY <2>3, <2>4, <2>5, <2>8, <2>9
<1>5. CASE Restart
  <2>1. /\ UNCHANGED <<stack, iflag, taking, nbytes, packet, driver, driver_enabled, svc>>
        /\ inputs' = inputs + 1 /\ UNCHANGED <<mask, irr>> /\ pending' = NoIRQ
        /\ mouse' = << >> /\ active' = FALSE
    BY <1>5 DEF Restart, Input, drv_vars
  <2>2. inputs' \in Nat /\ inputs <= inputs'
    BY <1>0, <2>1
  <2>3. Top' = Top /\ Disturbed' = Disturbed /\ CallInv'
    BY <1>b, <2>1 DEF Top
  <2>4. NestInv'
    BY <2>1, <2>3 DEF NestInv
  <2>5. SilentInv'
    BY <2>1 DEF SilentInv, Quiet, NoIRQ
  <2>6. StreamInv'
    BY <2>1, <2>3, Zenon DEF StreamInv
  <2>7. PacketsWhole'
    BY <1>0, <2>1, <2>2, WholeKept
  <2> QED BY <2>3, <2>4, <2>5, <2>6, <2>7
<1> QED BY <1>1, <1>2, <1>3, <1>4, <1>5 DEF Devices

(* Where the services of the keyboard go on. *)
LEMMA ResumeFacts ==
  ASSUME CallInv, NEW then \in Thens \cup {"peek_again"}
  PROVE  /\ DOMAIN Resume(then) = DOMAIN Idle /\ Resume(then).then \in Thens
         /\ Resume(then).pc \in {"none", "poll", "serial", "peek", "peek_again"}
<1>1. DOMAIN svc = {"call", "pc", "then", "again", "byte"} /\ svc.then \in Thens
  BY DEF CallInv, Idle
<1>2. CASE then = "return"
  BY <1>2 DEF Resume, Idle, Thens
<1>3. CASE then = "once"
  BY <1>1, <1>3 DEF Resume, Polling, Idle, Thens
<1>4. CASE then \notin {"return", "once"}
  BY <1>1, <1>4 DEF Resume, Idle, Thens
<1> QED BY <1>2, <1>3, <1>4

(* A service that is about to poll the keyboard. *)
LEMMA PollingFacts ==
  ASSUME CallInv, NEW then \in Thens, NEW again
  PROVE  /\ DOMAIN Polling(then, again) = DOMAIN Idle /\ Polling(then, again).then \in Thens
         /\ Polling(then, again).pc = "poll"
<1>1. DOMAIN svc = {"call", "pc", "then", "again", "byte"}
  BY DEF CallInv, Idle
<1> QED BY <1>1 DEF Polling, Idle

(* The services of the keyboard. *)
LEMMA KeyPackets ==
  ASSUME LineInv, PacketInv,
         PollEmpty \/ PollByte \/ keyboard_poll \/ kbd_buffer_peek \/ keyboard_wait \/ serial_poll
  PROVE  PacketInv'
<1> USE DEF PacketInv
<1> DEFINE pcs == {"none", "poll", "clear", "once", "return", "serial", "peek", "peek_again"}
<1>1. /\ UNCHANGED <<stack, iflag, taking, mouse, active, nbytes, packet, driver, driver_enabled>>
      /\ UNCHANGED <<mask, irr, pending, inputs>>
  <2>1. CASE PollEmpty
    BY <2>1 DEF PollEmpty, pic_vars, dev_vars, cpu_vars, drv_vars
  <2>2. CASE PollByte
    BY <2>2 DEF PollByte, pic_vars, dev_vars, cpu_vars, drv_vars
  <2>3. CASE keyboard_poll
    BY <2>3 DEF keyboard_poll, pic_vars, cpu_vars, drv_vars
  <2>4. CASE kbd_buffer_peek
    BY <2>4 DEF kbd_buffer_peek, pic_vars, dev_vars, cpu_vars, drv_vars
  <2>5. CASE keyboard_wait
    BY <2>5 DEF keyboard_wait, pic_vars, dev_vars, cpu_vars, drv_vars
  <2>6. CASE serial_poll
    BY <2>6 DEF serial_poll, pic_vars, cpu_vars, drv_vars
  <2> QED BY <2>1, <2>2, <2>3, <2>4, <2>5, <2>6
<1>2. svc.pc \in pcs \ {"none"}
  BY DEF PollEmpty, PollByte, keyboard_poll, kbd_buffer_peek, keyboard_wait, serial_poll, Serving
<1>3. DOMAIN svc = {"call", "pc", "then", "again", "byte"} /\ svc.then \in Thens
  BY DEF CallInv, Idle
<1>4. DOMAIN svc' = DOMAIN Idle /\ svc'.then \in Thens /\ svc'.pc \in pcs
  <2>1. CASE PollEmpty
    <3>1. svc' = Resume(svc.then)
      BY <2>1 DEF PollEmpty
    <3> QED BY <1>3, <3>1, ResumeFacts
  <2>2. CASE PollByte
    BY <1>3, <2>2 DEF PollByte, Idle
  <2>3. CASE keyboard_poll
    <3>1. svc' = [svc EXCEPT !.pc = IF svc.again THEN "poll" ELSE svc.then, !.byte = SelfTest]
      BY <2>3 DEF keyboard_poll
    <3>2. DOMAIN svc' = DOMAIN svc /\ svc'.then = svc.then
      BY <1>3, <3>1
    <3>3. svc'.pc = "poll" \/ svc'.pc = svc.then
      BY <1>3, <3>1
    <3>4. DOMAIN Idle = {"call", "pc", "then", "again", "byte"}
      BY DEF Idle
    <3> QED BY <1>3, <3>2, <3>3, <3>4 DEF Thens
  <2>4. CASE kbd_buffer_peek
    <3> DEFINE then == CASE svc.call = "wait" -> "serial"
                         [] Serving("peek") /\ ~HasKey -> "once"
                         [] OTHER -> "return"
    <3>1. svc' = IF head = tail THEN Polling(then, TRUE) ELSE Resume(then)
      BY <2>4, Zenon DEF kbd_buffer_peek
    <3>2. then \in Thens
      <4>1. svc.call = "wait" => ~HasKey
        BY <2>4 DEF kbd_buffer_peek
      <4> QED BY DEF Thens
    <3> HIDE DEF then
    <3> QED BY <3>1, <3>2, ResumeFacts, PollingFacts
  <2>5. CASE keyboard_wait
    BY <2>5 DEF keyboard_wait, Idle, Thens
  <2>6. CASE serial_poll
    <3>1. svc' = IF svc.call = "wait" THEN Polling("peek", TRUE) ELSE Resume("peek_again")
      BY <2>6 DEF serial_poll
    <3>2. "peek" \in Thens
      BY DEF Thens
    <3> QED BY <3>1, <3>2, ResumeFacts, PollingFacts
  <2> QED BY <2>1, <2>2, <2>3, <2>4, <2>5, <2>6
<1>5. svc # Idle /\ ~Disturbed /\ svc'.pc \notin Cleaning
  BY <1>2, <1>4 DEF Idle, Disturbed, Cleaning
<1>6. stack = << >> /\ taking = NoIRQ
  BY <1>5 DEF NestInv
<1>7. CallInv'
  BY <1>4 DEF CallInv
<1>8. inputs' \in Nat /\ inputs <= inputs'
  BY <1>1 DEF LineInv, TypeInv
<1> QED BY <1>1, <1>5, <1>6, <1>7, <1>8, ElsewhereStep

(* One step of INT 13h: the queue is in disorder until it is flushed. *)
LEMMA DiskPackets ==
  ASSUME LineInv, PacketInv, NEW from, from # "none", NEW to, DiskStep(from, to),
         mask' = mask, UNCHANGED <<irr, pending>> \/ \E i \in 0 .. 7 : raise_irq(i),
         nbytes' = nbytes \/ nbytes' = 0, to \in Cleaning \cup {"return"} => nbytes' = 0,
         to \in {"suspended", "resume"} \cup Cleaning \/ (to = "return" /\ mouse' = << >>)
  PROVE  PacketInv'
<1> USE DEF PacketInv
<1>1. /\ svc.pc = from /\ svc' = Resume(to)
      /\ UNCHANGED <<stack, iflag, taking, packet, driver, driver_enabled, inputs>>
  BY DEF DiskStep, Serving, cpu_vars
<1>2. svc # Idle
  BY <1>1 DEF Idle
<1>3. stack = << >> /\ taking = NoIRQ
  BY <1>2 DEF NestInv
<1>4. Top' = Top
  BY <1>1 DEF Top
<1>5. NestInv'
  BY <1>1, <1>3, <1>4 DEF NestInv
<1>6. DOMAIN svc = {"call", "pc", "then", "again", "byte"} /\ svc.then \in Thens
  BY DEF CallInv, Idle
<1>7. ASSUME to = "return" PROVE CallInv' /\ StreamInv'
  <2>1. svc' = Idle
    BY <1>1, <1>7 DEF Resume
  <2>2. CallInv' /\ svc'.pc \notin Cleaning
    BY <2>1 DEF CallInv, Idle, Thens, Cleaning
  <2>3. mouse' = << >> /\ nbytes' = 0
    BY <1>7 DEF Cleaning
  <2>4. Aligned'
    <3>1. /\ \A k \in 1 .. nbytes' : FALSE
          /\ ~(nbytes' > 0)
      BY <2>3
    <3>2. Len(mouse') = 0
      BY <2>3, EmptySeq
    <3>3. /\ \A i \in 1 .. Len(mouse') : FALSE
          /\ \A i \in 1 .. Len(mouse') - 1 : FALSE
      BY <3>2
    <3> QED BY <2>3, <3>1, <3>3, Zenon DEF Aligned
  <2>5. nbytes' \in 0 .. 2 /\ Len(packet') = 3
    BY <1>1, <2>3 DEF StreamInv
  <2>6. StreamInv'
    BY <2>2, <2>3, <2>4, <2>5, Zenon DEF StreamInv
  <2> QED BY <2>2, <2>6
<1>8. ASSUME to # "return" PROVE CallInv' /\ StreamInv'
  <2>1. svc' = [svc EXCEPT !.pc = to]
    BY <1>1, <1>8 DEF Resume, Cleaning
  <2>2. DOMAIN svc' = DOMAIN svc /\ svc'.then = svc.then /\ svc'.pc = to
    BY <1>6, <2>1
  <2>3. CallInv'
    BY <2>2 DEF CallInv
  <2>4. Disturbed'
    BY <1>8, <2>2 DEF Disturbed
  <2>5. to \in Cleaning => nbytes' = 0
    BY <1>8
  <2>6. nbytes' \in 0 .. 2 /\ Len(packet') = 3
    BY <1>1 DEF StreamInv
  <2>7. StreamInv'
    BY <2>2, <2>4, <2>5, <2>6, Zenon DEF StreamInv
  <2> QED BY <2>3, <2>7
<1>9. SilentInv'
  <2>1. ASSUME ~driver PROVE Quiet'
    <3>1. Quiet /\ nbytes = 0
      BY <2>1, Zenon DEF SilentInv, Quiet
    <3>2. nbytes' = nbytes
      BY <3>1
    <3> QED BY <1>1, <3>1, <3>2, QuietKept
  <2> QED BY <1>1, <2>1, Zenon DEF SilentInv
<1>10. PacketsWhole'
  <2>1. stack \in Seq(Frames) /\ inputs' \in Nat /\ inputs <= inputs'
    BY <1>1 DEF LineInv, TypeInv
  <2> QED BY <1>1, <2>1, WholeKept
<1> QED BY <1>5, <1>7, <1>8, <1>9, <1>10

(* The services of the disk. *)
LEMMA ServicePackets ==
  ASSUME LineInv, PacketInv, Services
  PROVE  PacketInv'
<1>0. ASSUME NEW on, Command(on) PROVE mask' = mask /\ \E i \in 0 .. 7 : raise_irq(i)
  BY <1>0 DEF Command, raise_irq, pic_vars
<1>1. ASSUME ReadMouse \/ mouse_init PROVE mask' = mask /\ UNCHANGED <<irr, pending>>
  BY <1>1 DEF ReadMouse, mouse_init, pic_vars
<1>2. ASSUME svc.pc \in Cleaning PROVE nbytes = 0
  BY <1>2, Zenon DEF PacketInv, StreamInv
<1>3. CASE mouse_suspend
  <2>1. CASE DiskStep("suspend", "suspended") /\ Command(FALSE) /\ UNCHANGED nbytes
    BY <1>0, <2>1, DiskPackets DEF Cleaning
  <2>2. CASE DiskStep("suspended", "resume") /\ ReadMouse /\ UNCHANGED nbytes
    BY <1>1, <2>2, DiskPackets DEF Cleaning
  <2> QED BY <1>3, <2>1, <2>2 DEF mouse_suspend
<1>4. CASE mouse_resume
  <2>1. CASE DiskStep("resume", "enable") /\ mouse_init /\ nbytes' = 0
    BY <1>1, <2>1, DiskPackets DEF Cleaning
  <2>2. CASE DiskStep("enable", "answer") /\ Command(TRUE) /\ UNCHANGED nbytes
    <3>1. nbytes = 0
      BY <1>2, <2>2 DEF DiskStep, Serving, Cleaning
    <3> QED BY <1>0, <2>2, <3>1, DiskPackets DEF Cleaning
  <2>3. CASE DiskStep("answer", "flush") /\ ReadMouse /\ UNCHANGED nbytes
    <3>1. nbytes = 0
      BY <1>2, <2>3 DEF DiskStep, Serving, Cleaning
    <3> QED BY <1>1, <2>3, <3>1, DiskPackets DEF Cleaning
  <2>4. CASE DiskStep("flush", "return") /\ mouse_init /\ UNCHANGED nbytes
    <3>1. nbytes = 0
      BY <1>2, <2>4 DEF DiskStep, Serving, Cleaning
    <3>2. mouse' = << >>
      BY <2>4 DEF mouse_init
    <3> QED BY <1>1, <2>4, <3>1, <3>2, DiskPackets DEF Cleaning
  <2> QED BY <1>4, <2>1, <2>2, <2>3, <2>4 DEF mouse_resume
<1> QED BY <1>3, <1>4, KeyPackets DEF Services

(* The program outside handlers and services. *)
LEMMA ProgramPackets ==
  ASSUME LineInv, LineInv', PacketInv, Programs
  PROVE  PacketInv'
<1> USE DEF PacketInv
<1>0. inputs \in Nat /\ stack \in Seq(Frames) /\ nbytes \in 0 .. 2 /\ Len(packet) = 3
  BY DEF LineInv, TypeInv, StreamInv
<1>a. ASSUME Program PROVE /\ stack = << >> /\ taking = NoIRQ /\ svc = Idle
                           /\ ~Disturbed /\ Len(stack) = 0 /\ svc.pc \notin Cleaning
  BY <1>a DEF Program, Disturbed, Idle, Cleaning
<1>1. CASE SetFlag
  <2>1. /\ Program /\ UNCHANGED <<stack, taking, mask, irr, pending>>
        /\ UNCHANGED <<mouse, active, nbytes, packet, driver, driver_enabled, svc, inputs>>
    BY <1>1 DEF SetFlag, pic_vars, dev_vars, drv_vars
  <2>2. stack = << >> /\ taking = NoIRQ /\ svc = Idle /\ ~Disturbed /\ Len(stack) = 0
    BY <1>a, <2>1
  <2>3. NestInv'
    BY <2>1, <2>2 DEF NestInv
  <2>4. ~driver => Quiet'
    BY <2>1, Zenon DEF SilentInv, Quiet
  <2>5. ~Polls
    BY <2>2 DEF Polls
  <2>6. driver /\ active /\ ~Disturbed => nbytes = 0
    BY <2>5, Zenon DEF StreamInv
  <2> QED BY <1>0, <2>1, <2>3, <2>4, <2>6, StackStep
<1>2. CASE HookEnables
  BY <1>2, HandlerPackets
<1>3. CASE setup_mouse
  <2>1. /\ Program /\ UNCHANGED <<stack, iflag, taking>> /\ driver' = TRUE /\ mouse' = << >>
        /\ UNCHANGED <<active, nbytes, packet, svc, inputs>>
    BY <1>3 DEF setup_mouse, cpu_vars
  <2>2. stack = << >> /\ taking = NoIRQ /\ svc = Idle /\ ~Disturbed /\ svc.pc \notin Cleaning
    BY <1>a, <2>1
  <2>3. Top' = Top
    BY <2>1 DEF Top
  <2>4. NestInv'
    BY <2>1, <2>2, <2>3 DEF NestInv
  <2>5. CallInv' /\ SilentInv'
    BY <2>1 DEF CallInv, SilentInv
  <2>6. active => nbytes = 0
    <3>1. ~Polls
      BY <2>2 DEF Polls
    <3> QED BY <2>2, <3>1, Zenon DEF StreamInv, SilentInv, Quiet
  <2>7. ASSUME nbytes = 0 PROVE Aligned'
    <3>1. /\ \A k \in 1 .. nbytes' : FALSE
          /\ ~(nbytes' > 0)
      BY <2>1, <2>7
    <3>2. Len(mouse') = 0
      BY <2>1, EmptySeq
    <3>3. /\ \A i \in 1 .. Len(mouse') : FALSE
          /\ \A i \in 1 .. Len(mouse') - 1 : FALSE
      BY <3>2
    <3> QED BY <2>1, <3>1, <3>3, Zenon DEF Aligned
  <2>8. StreamInv'
    BY <1>0, <2>1, <2>2, <2>6, <2>7, Zenon DEF StreamInv
  <2>9. PacketsWhole'
    <3>1. inputs' \in Nat /\ inputs <= inputs'
      BY <1>0, <2>1
    <3> QED BY <1>0, <2>1, <3>1, WholeKept
  <2> QED BY <2>4, <2>5, <2>8, <2>9
<1>4. ASSUME NEW on, enable_mouse(on) PROVE PacketInv'
  <2>1. /\ Program /\ driver /\ UNCHANGED <<stack, iflag, taking, mouse, active>>
        /\ UNCHANGED <<driver, nbytes, packet, svc, inputs>>
    BY <1>4 DEF enable_mouse, cpu_vars, dev_vars
  <2>2. inputs' \in Nat /\ inputs <= inputs' /\ Disturbed' = Disturbed
    BY <1>0, <2>1 DEF Disturbed
  <2>3. Top' = Top /\ Polls' = Polls
    BY <2>1 DEF Top, Polls
  <2>4. NestInv' /\ CallInv'
    BY <2>1, <2>3 DEF NestInv, CallInv
  <2>5. SilentInv'
    BY <2>1, Zenon DEF SilentInv
  <2>6. driver /\ active /\ ~Disturbed /\ nbytes # 0 => Polls'
    BY <2>3, Zenon DEF StreamInv
  <2>7. StreamInv'
    BY <2>1, <2>2, <2>6, StreamKept
  <2>8. PacketsWhole'
    BY <1>0, <2>1, <2>2, WholeKept
  <2> QED BY <2>4, <2>5, <2>7, <2>8
<1>5. ASSUME NEW set, NEW time, timer_services(set, time) PROVE PacketInv'
  <2>1. /\ UNCHANGED <<stack, iflag, taking, mouse, active, nbytes, packet, driver, driver_enabled>>
        /\ UNCHANGED <<mask, irr, pending, svc, inputs>>
    BY <1>5 DEF timer_services, pic_vars, dev_vars, cpu_vars, drv_vars
  <2>2. inputs' \in Nat /\ inputs <= inputs' /\ Disturbed' = Disturbed /\ CallInv'
    BY <1>0, <2>1 DEF Disturbed, CallInv
  <2>3. svc' # Idle => stack = << >> /\ taking = NoIRQ
    BY <2>1 DEF NestInv
  <2> QED BY <2>1, <2>2, <2>3, ElsewhereStep
<1>6. ASSUME NEW what, NEW call, NEW pc \in {"peek", "suspend"}, Call(what, call, pc) PROVE PacketInv'
  <2>1. /\ UNCHANGED <<stack, iflag, taking, mouse, active, nbytes, packet, driver, driver_enabled>>
        /\ UNCHANGED <<mask, irr, pending, inputs>> /\ Program
        /\ svc' = [Idle EXCEPT !.call = call, !.pc = pc]
    BY <1>6 DEF Call, pic_vars, dev_vars, cpu_vars, drv_vars
  <2>2. DOMAIN svc' = DOMAIN Idle /\ svc'.pc = pc /\ svc'.then = "none"
    BY <2>1 DEF Idle
  <2>3. CallInv' /\ svc'.pc \notin Cleaning
    BY <1>6, <2>2 DEF CallInv, Thens, Cleaning
  <2>4. inputs' \in Nat /\ inputs <= inputs'
    BY <1>0, <2>1
  <2>5. stack = << >> /\ taking = NoIRQ /\ ~Disturbed
    BY <1>a, <2>1
  <2> QED BY <2>1, <2>3, <2>4, <2>5, ElsewhereStep
<1> QED BY <1>1, <1>2, <1>3, <1>4, <1>5, <1>6 DEF Programs

(* The invariant of the mouse, from the start. *)
LEMMA InitPackets ==
  ASSUME Init
  PROVE  PacketInv
<1>1. /\ stack = << >> /\ taking = NoIRQ /\ svc = Idle /\ driver = FALSE /\ driver_enabled = FALSE
      /\ nbytes = 0 /\ packet = <<NoByte, NoByte, NoByte>>
      /\ mask = (0 .. 7) \ {0, 1} /\ irr = {1} /\ pending = NoIRQ
  BY DEF Init, PICReady
<1>2. Len(stack) = 0 /\ \A i \in 1 .. Len(stack) : FALSE
  <2>1. Len(stack) = 0
    BY <1>1, EmptySeq
  <2> QED BY <2>1
<1>3. NestInv
  BY <1>1, <1>2, Zenon DEF NestInv
<1>4. CallInv
  BY <1>1 DEF CallInv, Idle, Thens
<1>5. SilentInv
  BY <1>1, <1>2 DEF SilentInv, Quiet, NoIRQ
<1>6. StreamInv
  <2>1. Len(packet) = 3
    BY <1>1
  <2> QED BY <1>1, <2>1 DEF StreamInv, Cleaning, Idle
<1>7. PacketsWhole
  BY <1>1 DEF PacketsWhole
<1> QED BY <1>3, <1>4, <1>5, <1>6, <1>7 DEF PacketInv

(* What a driver and its mouse have sent each other stays in step. *)
LEMMA PacketInvariant == Spec => []PacketInv
<1>1. Init => PacketInv
  BY InitPackets
<1>2. LineInv /\ LineInv' /\ PacketInv /\ [Next]_vars => PacketInv'
  <2> SUFFICES ASSUME LineInv, LineInv', PacketInv, [Next]_vars PROVE PacketInv'
    OBVIOUS
  <2>1. CASE UNCHANGED vars
    <3>1. /\ UNCHANGED <<stack, iflag, taking, mouse, active, nbytes, packet, driver, driver_enabled>>
          /\ UNCHANGED <<mask, irr, pending, svc, inputs>>
      BY <2>1 DEF vars, pic_vars, cpu_vars, dev_vars, drv_vars
    <3>2. /\ inputs' \in Nat /\ inputs <= inputs' /\ Disturbed' = Disturbed /\ CallInv'
          /\ svc' # Idle => stack = << >> /\ taking = NoIRQ
      BY <3>1 DEF LineInv, TypeInv, Disturbed, PacketInv, CallInv, NestInv
    <3> QED BY <3>1, <3>2, ElsewhereStep
  <2> QED BY <2>1, DevicePackets, TakePackets, HandlerPackets, ServicePackets, ProgramPackets DEF Next
<1> QED BY <1>1, <1>2, LineInvariant, PTL DEF Spec

(* The driver of the mouse is only ever called with the three bytes of one *)
(* packet in their order: PacketsWhole holds for every session and nesting *)
(* of handlers, on both CPUs, although mouse_irq finds its place in the    *)
(* stream only by counting (mouse_asm.S), answers to commands come through *)
(* the same queue (mouse.c) and a restart of the simulator empties it.     *)
THEOREM PacketsAlwaysWhole ==
  Spec => []PacketsWhole
BY PacketInvariant, PTL DEF PacketInv

-----------------------------------------------------------------------------
(***************************************************************************)
(* The keys, in the order in which they were pressed.                      *)
(***************************************************************************)
Scancodes == [key : Keys \cup Modifiers, up : BOOLEAN, n : Nat]
Characters == [code : Chars, n : Nat]

(* The ring, with the numbers of inputs that there were. *)
RingInv ==
  /\ head \in 0 .. N - 1 /\ tail \in 0 .. N - 1 /\ DOMAIN kbd_buffer = 0 .. N - 1
  /\ \A i \in 0 .. N - 1 : kbd_buffer[i].n \in 0 .. inputs

(* The devices, and the byte that keyboard_poll has looked at. *)
QueueInv ==
  /\ DOMAIN taken = {"kbd", "uart"} /\ \A src \in {"kbd", "uart"} : taken[src] \in 0 .. inputs
  /\ kbd \in Seq(Scancodes) /\ \A i \in 1 .. Len(kbd) : kbd[i].n <= inputs
  /\ charbuf \in Seq(Characters) /\ \A i \in 1 .. Len(charbuf) : charbuf[i].n <= inputs
  /\ svc.byte \in Scancodes /\ svc.byte.n <= inputs

OrderInv == RingInv /\ QueueInv /\ KeysInOrder

KbdQueue == IF Serving("clear") THEN <<svc.byte>> ELSE kbd

(* A queue that has lost its first k bytes or all but some of them. *)
LEMMA SubQueue ==
  ASSUME NEW src, NEW last, NEW words, NEW queue, NEW rest, NEW k \in Nat,
         DOMAIN queue \subseteq Nat, DOMAIN rest \subseteq Nat,
         InOrder(src, last, words, queue),
         \A i \in DOMAIN rest : rest[i] = SelfTest \/ (i + k \in DOMAIN queue /\ rest[i] = queue[i + k])
  PROVE  InOrder(src, last, words, rest)
<1> DEFINE waiting == {i \in DOMAIN queue : queue[i] # SelfTest}
           left == {i \in DOMAIN rest : rest[i] # SelfTest}
<1>1. ASSUME NEW i \in left PROVE i \in Nat /\ i + k \in waiting /\ rest[i] = queue[i + k]
  BY <1>1
<1>2. ASSUME NEW i \in left, NEW j \in left, i < j PROVE rest[i].n < rest[j].n
  <2>1. i + k < j + k /\ i + k \in waiting /\ j + k \in waiting
    BY <1>1, <1>2
  <2> QED BY <1>1, <1>2, <2>1 DEF InOrder
<1>3. \A i \in left : last < rest[i].n
  BY <1>1 DEF InOrder
<1>4. \A i \in {i \in DOMAIN words : words[i].src = src}, j \in left : words[i].n < rest[j].n
  BY <1>1 DEF InOrder
<1> QED BY <1>2, <1>3, <1>4 DEF InOrder

(* Another byte comes into the device. *)
LEMMA GrowQueue ==
  ASSUME NEW src, NEW last, NEW words, NEW queue, NEW more, NEW m \in Nat,
         DOMAIN queue = 1 .. m, DOMAIN more = 1 .. m + 1, \A i \in 1 .. m : more[i] = queue[i],
         InOrder(src, last, words, queue), last < more[m + 1].n,
         \A i \in DOMAIN words : words[i].n < more[m + 1].n,
         \A i \in DOMAIN queue : queue[i].n < more[m + 1].n
  PROVE  InOrder(src, last, words, more)
<1> DEFINE held == {i \in DOMAIN words : words[i].src = src}
           waiting == {i \in DOMAIN queue : queue[i] # SelfTest}
           all == {i \in DOMAIN more : more[i] # SelfTest}
<1>1. ASSUME NEW i \in all PROVE i = m + 1 \/ (i \in waiting /\ more[i] = queue[i])
  BY <1>1
<1>2. \A i \in all : last < more[i].n
  BY <1>1 DEF InOrder
<1>3. \A i \in held, j \in all : words[i].n < more[j].n
  BY <1>1 DEF InOrder
<1>4. ASSUME NEW i \in all, NEW j \in all, i < j PROVE more[i].n < more[j].n
  <2>1. i \in waiting /\ more[i] = queue[i]
    BY <1>1, <1>4
  <2>2. CASE j = m + 1
    BY <2>1, <2>2
  <2>3. CASE j # m + 1
    BY <1>1, <1>4, <2>1, <2>3 DEF InOrder
  <2> QED BY <2>2, <2>3
<1> QED BY <1>2, <1>3, <1>4 DEF InOrder

(* A word more at the end, and the first one gone. *)
Joined(words, more, word) ==
  \E m \in Nat : /\ DOMAIN words = 1 .. m /\ DOMAIN more = 1 .. m + 1
                 /\ \A i \in 1 .. m : more[i] = words[i]
                 /\ more[m + 1] = word
Dropped(words, less) ==
  \E m \in Nat : /\ DOMAIN words = 1 .. m + 1 /\ DOMAIN less = 1 .. m
                 /\ \A i \in 1 .. m : less[i] = words[i + 1]

(* A word of another source is added to the buffer. *)
LEMMA JoinOther ==
  ASSUME NEW src, NEW last, NEW words, NEW queue, NEW more, NEW word,
         Joined(words, more, word), InOrder(src, last, words, queue), word.src # src
  PROVE  InOrder(src, last, more, queue)
<1>1. {i \in DOMAIN more : more[i].src = src} = {i \in DOMAIN words : words[i].src = src}
  BY DEF Joined
<1>2. \A i \in DOMAIN words : more[i] = words[i]
  BY DEF Joined
<1> QED BY <1>1, <1>2 DEF InOrder

(* The byte at the front of a queue goes into the buffer. *)
LEMMA MoveFront ==
  ASSUME NEW src, NEW last, NEW words, NEW queue, NEW rest, NEW more, NEW word, NEW q \in Nat,
         Joined(words, more, word),
         DOMAIN queue = 1 .. q + 1, DOMAIN rest = 1 .. q, \A i \in 1 .. q : rest[i] = queue[i + 1],
         InOrder(src, last, words, queue), queue[1] # SelfTest, word.n = queue[1].n
  PROVE  InOrder(src, last, more, rest)
<1>0. PICK m \in Nat : /\ DOMAIN words = 1 .. m /\ DOMAIN more = 1 .. m + 1
                       /\ \A i \in 1 .. m : more[i] = words[i]
                       /\ more[m + 1] = word
  BY DEF Joined
<1> DEFINE held == {i \in DOMAIN words : words[i].src = src}
           all == {i \in DOMAIN more : more[i].src = src}
           waiting == {i \in DOMAIN queue : queue[i] # SelfTest}
           left == {i \in DOMAIN rest : rest[i] # SelfTest}
<1>1. ASSUME NEW i \in all PROVE i = m + 1 \/ (i \in held /\ more[i] = words[i])
  BY <1>0, <1>1
<1>2. ASSUME NEW i \in left PROVE i \in 1 .. q /\ i + 1 \in waiting /\ rest[i] = queue[i + 1] /\ 1 < i + 1
  BY <1>2
<1>3. 1 \in waiting
  OBVIOUS
<1>4. \A i \in all : last < more[i].n
  BY <1>0, <1>1, <1>3 DEF InOrder
<1>5. \A i \in left : last < rest[i].n
  BY <1>2 DEF InOrder
<1>6. ASSUME NEW i \in all, NEW j \in all, i < j PROVE more[i].n < more[j].n
  <2>1. i \in held /\ more[i] = words[i]
    BY <1>0, <1>1, <1>6
  <2>2. CASE j = m + 1
    BY <1>0, <1>3, <2>1, <2>2 DEF InOrder
  <2>3. CASE j # m + 1
    BY <1>1, <1>6, <2>1, <2>3 DEF InOrder
  <2> QED BY <2>2, <2>3
<1>7. ASSUME NEW i \in left, NEW j \in left, i < j PROVE rest[i].n < rest[j].n
  <2>1. i + 1 < j + 1
    BY <1>2, <1>7
  <2> QED BY <1>2, <1>7, <2>1 DEF InOrder
<1>8. ASSUME NEW i \in all, NEW j \in left PROVE more[i].n < rest[j].n
  <2>1. CASE i = m + 1
    BY <1>0, <1>2, <1>3, <1>8, <2>1 DEF InOrder
  <2>2. CASE i # m + 1
    BY <1>1, <1>2, <1>8, <2>2 DEF InOrder
  <2> QED BY <2>1, <2>2
<1> QED BY <1>4, <1>5, <1>6, <1>7, <1>8 DEF InOrder

(* The first word of the buffer goes to the program. *)
LEMMA TakeFirst ==
  ASSUME NEW src, NEW last, NEW words, NEW queue, NEW less, NEW now,
         Dropped(words, less), InOrder(src, last, words, queue),
         now = IF words[1].src = src THEN words[1].n ELSE last
  PROVE  InOrder(src, now, less, queue)
<1>0. PICK m \in Nat : /\ DOMAIN words = 1 .. m + 1 /\ DOMAIN less = 1 .. m
                       /\ \A i \in 1 .. m : less[i] = words[i + 1]
  BY DEF Dropped
<1> DEFINE held == {i \in DOMAIN words : words[i].src = src}
           left == {i \in DOMAIN less : less[i].src = src}
<1>1. ASSUME NEW i \in left PROVE i \in 1 .. m /\ i + 1 \in held /\ less[i] = words[i + 1] /\ 1 < i + 1
  BY <1>0, <1>1
<1>2. \A i \in left : now < less[i].n
  <2>1. CASE words[1].src = src
    BY <1>0, <1>1, <2>1 DEF InOrder
  <2>2. CASE words[1].src # src
    BY <1>1, <2>2 DEF InOrder
  <2> QED BY <2>1, <2>2
<1>3. \A i \in {i \in DOMAIN queue : queue[i] # SelfTest} : now < queue[i].n
  <2>1. 1 \in DOMAIN words
    BY <1>0
  <2> QED BY <2>1 DEF InOrder
<1>4. ASSUME NEW i \in left, NEW j \in left, i < j PROVE less[i].n < less[j].n
  <2>1. i + 1 < j + 1
    BY <1>1, <1>4
  <2> QED BY <1>1, <1>4, <2>1 DEF InOrder
<1>5. \A i \in left, j \in {j \in DOMAIN queue : queue[j] # SelfTest} : less[i].n < queue[j].n
  BY <1>1 DEF InOrder
<1> QED BY <1>2, <1>3, <1>4, <1>5 DEF InOrder

-----------------------------------------------------------------------------
(* The words in a ring from h to t: a buffer that is not full has room for *)
(* one more.                                                               *)
Ring(h, t, words) == [i \in 1 .. (t - h) % N |-> words[(h + i - 1) % N]]
Held(h, t) == IF h <= t THEN t - h ELSE t - h + N
Place(h, i) == IF h + i - 1 < N THEN h + i - 1 ELSE h + i - 1 - N

(* An index of the ring is its own remainder. *)
LEMMA BelowMod ==
  ASSUME NEW a \in 0 .. N - 1 PROVE a % N = a
BY RingAssumption

(* How many words the ring holds, and where each of them is. *)
LEMMA RingFacts ==
  ASSUME NEW h \in 0 .. N - 1, NEW t \in 0 .. N - 1, NEW words
  PROVE  /\ Held(h, t) \in 0 .. N - 1 /\ DOMAIN Ring(h, t, words) = 1 .. Held(h, t)
         /\ \A i \in 1 .. Held(h, t) :
              Place(h, i) \in 0 .. N - 1 /\ Ring(h, t, words)[i] = words[Place(h, i)]
<1> DEFINE m == Held(h, t)
<1>1. N \in Nat /\ N >= 2
  BY RingAssumption
<1>2. (t - h) % N = m /\ m \in 0 .. N - 1
  <2>1. CASE h <= t
    <3>1. t - h \in 0 .. N - 1
      BY <1>1, <2>1
    <3> QED BY <1>1, <2>1, <3>1 DEF Held
  <2>2. CASE ~(h <= t)
    <3>1. t - h + N \in 0 .. N - 1
      BY <1>1, <2>2
    <3>2. (t - h) % N = t - h + N
      BY <1>1, <3>1
    <3> QED BY <1>1, <2>2, <3>1, <3>2 DEF Held
  <2> QED BY <2>1, <2>2
<1>3. ASSUME NEW i \in 1 .. m PROVE (h + i - 1) % N = Place(h, i) /\ Place(h, i) \in 0 .. N - 1
  <2>1. CASE h + i - 1 < N
    <3>1. h + i - 1 \in 0 .. N - 1
      BY <1>1, <1>2, <1>3, <2>1
    <3> QED BY <1>1, <2>1, <3>1 DEF Place
  <2>2. CASE ~(h + i - 1 < N)
    <3>1. h + i - 1 - N \in 0 .. N - 1
      BY <1>1, <1>2, <1>3, <2>2
    <3>2. (h + i - 1) % N = h + i - 1 - N
      BY <1>1, <1>2, <1>3, <3>1
    <3> QED BY <1>1, <2>2, <3>1, <3>2 DEF Place
  <2> QED BY <2>1, <2>2
<1> HIDE DEF m
<1>4. DOMAIN Ring(h, t, words) = 1 .. m /\ \A i \in 1 .. m : Ring(h, t, words)[i] = words[Place(h, i)]
  BY <1>2, <1>3 DEF Ring
<1> QED BY <1>2, <1>3, <1>4 DEF m

(* The words of the buffer have the numbers of inputs. *)
LEMMA BufferedFacts ==
  ASSUME RingInv, inputs \in Nat
  PROVE  /\ Buffered = Ring(head, tail, kbd_buffer)
         /\ Held(head, tail) \in 0 .. N - 1 /\ DOMAIN Buffered = 1 .. Held(head, tail)
         /\ \A i \in 1 .. Held(head, tail) : Buffered[i].n \in 0 .. inputs
<1>1. Buffered = Ring(head, tail, kbd_buffer)
  BY DEF Buffered, Ring
<1>2. head \in 0 .. N - 1 /\ tail \in 0 .. N - 1 /\ \A i \in 0 .. N - 1 : kbd_buffer[i].n \in 0 .. inputs
  BY DEF RingInv
<1> DEFINE ring == Ring(head, tail, kbd_buffer)
<1>3. /\ Held(head, tail) \in 0 .. N - 1 /\ DOMAIN ring = 1 .. Held(head, tail)
      /\ \A i \in 1 .. Held(head, tail) :
           Place(head, i) \in 0 .. N - 1 /\ ring[i] = kbd_buffer[Place(head, i)]
  BY <1>2, RingFacts
<1> HIDE DEF ring
<1>4. \A i \in 1 .. Held(head, tail) : ring[i].n \in 0 .. inputs
  BY <1>2, <1>3, Zenon
<1> QED BY <1>1, <1>3, <1>4, Zenon DEF ring

(* kbd_buffer_add: the word is lost, or is the last one of the buffer. *)
LEMMA AddFacts ==
  ASSUME RingInv, inputs \in Nat, NEW word, word.n \in 0 .. inputs, kbd_buffer_add(word),
         UNCHANGED <<head, inputs>>
  PROVE  RingInv' /\ (Buffered' = Buffered \/ Joined(Buffered, Buffered', word))
<1>1. /\ N \in Nat /\ N >= 2 /\ head \in 0 .. N - 1 /\ tail \in 0 .. N - 1
      /\ DOMAIN kbd_buffer = 0 .. N - 1 /\ \A i \in 0 .. N - 1 : kbd_buffer[i].n \in 0 .. inputs
  BY RingAssumption DEF RingInv
<1>2. CASE kbd_buffer_full
  <2>1. UNCHANGED <<kbd_buffer, tail>>
    BY <1>2 DEF kbd_buffer_add
  <2> QED BY <2>1 DEF RingInv, Buffered
<1>3. CASE ~kbd_buffer_full
  <2>1. /\ kbd_buffer' = [kbd_buffer EXCEPT ![tail] = word] /\ tail' = (tail + 1) % N
    BY <1>3 DEF kbd_buffer_add
  <2>2. tail' = (IF tail = N - 1 THEN 0 ELSE tail + 1) /\ tail' \in 0 .. N - 1
    <3>1. CASE tail = N - 1
      BY <1>1, <2>1, <3>1
    <3>2. CASE tail # N - 1
      <4>1. tail + 1 \in 0 .. N - 1
        BY <1>1, <3>2
      <4>2. (tail + 1) % N = tail + 1
        BY <4>1, BelowMod
      <4> QED BY <2>1, <3>2, <4>1, <4>2
    <3> QED BY <3>1, <3>2
  <2>3. RingInv'
    BY <1>1, <2>1, <2>2 DEF RingInv
  <2> DEFINE m == Held(head, tail)
  <2>4. m \in Nat /\ Held(head, tail') = m + 1 /\ Place(head, m + 1) = tail
    BY <1>1, <1>3, <2>2 DEF Held, Place, kbd_buffer_full
  <2>5. \A i \in 1 .. m : Place(head, i) # tail
    BY <1>1 DEF Held, Place
  <2> HIDE DEF m
  <2>6. /\ Buffered = Ring(head, tail, kbd_buffer) /\ Buffered' = Ring(head, tail', kbd_buffer')
    BY DEF Buffered, Ring
  <2>7. /\ DOMAIN Buffered = 1 .. m
        /\ \A i \in 1 .. m : Place(head, i) \in 0 .. N - 1 /\ Buffered[i] = kbd_buffer[Place(head, i)]
    BY <1>1, <2>6, RingFacts DEF m
  <2>8. /\ DOMAIN Buffered' = 1 .. m + 1
        /\ \A i \in 1 .. m + 1 : Buffered'[i] = kbd_buffer'[Place(head, i)]
    <3>1. /\ DOMAIN Ring(head, tail', kbd_buffer') = 1 .. Held(head, tail')
          /\ \A i \in 1 .. Held(head, tail') :
               Ring(head, tail', kbd_buffer')[i] = kbd_buffer'[Place(head, i)]
      BY <1>1, <2>2, RingFacts
    <3> QED BY <2>4, <2>6, <3>1, Zenon
  <2>9. \A i \in 1 .. m : Buffered'[i] = Buffered[i]
    <3> SUFFICES ASSUME NEW i \in 1 .. m PROVE Buffered'[i] = Buffered[i]
      OBVIOUS
    <3>1. i \in 1 .. m + 1
      BY <2>4
    <3>2. kbd_buffer'[Place(head, i)] = kbd_buffer[Place(head, i)]
      BY <1>1, <2>1, <2>5, <2>7
    <3> QED BY <2>7, <2>8, <3>1, <3>2
  <2>10. Buffered'[m + 1] = word
    <3>1. m + 1 \in 1 .. m + 1
      BY <2>4
    <3> QED BY <1>1, <2>1, <2>4, <2>8, <3>1
  <2>11. Joined(Buffered, Buffered', word)
    BY <2>4, <2>7, <2>8, <2>9, <2>10 DEF Joined
  <2> QED BY <2>3, <2>11
<1> QED BY <1>2, <1>3

(* kbd_buffer_pop: the first word leaves a buffer that is not empty. *)
LEMMA PopFacts ==
  ASSUME RingInv, head # tail, kbd_buffer_pop, UNCHANGED <<kbd_buffer, tail, inputs>>
  PROVE  RingInv' /\ Dropped(Buffered, Buffered') /\ Buffered[1] = kbd_buffer[head]
<1>1. /\ N \in Nat /\ N >= 2 /\ head \in 0 .. N - 1 /\ tail \in 0 .. N - 1
  BY RingAssumption DEF RingInv
<1>2. head' = (IF head = N - 1 THEN 0 ELSE head + 1) /\ head' \in 0 .. N - 1
  <2>1. CASE head = N - 1
    BY <1>1, <2>1 DEF kbd_buffer_pop
  <2>2. CASE head # N - 1
    <3>1. head + 1 \in 0 .. N - 1
      BY <1>1, <2>2
    <3> QED BY <1>1, <2>2, <3>1 DEF kbd_buffer_pop
  <2> QED BY <2>1, <2>2
<1>3. RingInv'
  BY <1>2 DEF RingInv
<1> DEFINE m == Held(head', tail)
<1>4. m \in Nat /\ Held(head, tail) = m + 1 /\ Place(head, 1) = head
  BY <1>1, <1>2 DEF Held, Place
<1>5. \A i \in 1 .. m : i + 1 \in 1 .. m + 1 /\ Place(head', i) = Place(head, i + 1)
  BY <1>1, <1>2 DEF Held, Place
<1> HIDE DEF m
<1>6. Buffered = Ring(head, tail, kbd_buffer) /\ Buffered' = Ring(head', tail, kbd_buffer)
  BY DEF Buffered, Ring
<1>7. /\ DOMAIN Buffered' = 1 .. m
      /\ \A i \in 1 .. m : Buffered'[i] = kbd_buffer[Place(head', i)]
  BY <1>1, <1>2, <1>6, RingFacts DEF m
<1>8. /\ DOMAIN Buffered = 1 .. m + 1
      /\ \A i \in 1 .. m + 1 : Buffered[i] = kbd_buffer[Place(head, i)]
  BY <1>1, <1>4, <1>6, RingFacts
<1>9. 1 \in 1 .. m + 1
  BY <1>4
<1>10. Dropped(Buffered, Buffered')
  BY <1>4, <1>5, <1>7, <1>8 DEF Dropped
<1> QED BY <1>3, <1>4, <1>8, <1>9, <1>10

-----------------------------------------------------------------------------
(* Numbers of what is in the devices. *)
LEMMA QueueFacts ==
  ASSUME QueueInv, inputs \in Nat
  PROVE  /\ kbd \in Seq(Scancodes) /\ \A i \in 1 .. Len(kbd) : kbd[i] \in Scancodes /\ kbd[i].n \in 0 .. inputs
         /\ charbuf \in Seq(Characters)
         /\ \A i \in 1 .. Len(charbuf) : /\ charbuf[i] \in Characters /\ charbuf[i].n \in 0 .. inputs
                                          /\ charbuf[i] # SelfTest
         /\ svc.byte \in Scancodes /\ svc.byte.n \in 0 .. inputs
         /\ SelfTest \in Scancodes /\ SelfTest.n = 0
<1>1. (\A x \in Scancodes : x.n \in Nat) /\ \A x \in Characters : x.n \in Nat
  BY DEF Scancodes, Characters
<1>2. \A x \in Characters : x # SelfTest
  <2>1. "key" \in DOMAIN SelfTest
    BY DEF SelfTest
  <2>2. \A x \in Characters : "key" \notin DOMAIN x
    BY DEF Characters
  <2> QED BY <2>1, <2>2
<1>3. SelfTest \in Scancodes /\ SelfTest.n = 0
  BY DEF SelfTest, Scancodes, Modifiers
<1>4. kbd \in Seq(Scancodes) /\ charbuf \in Seq(Characters) /\ svc.byte \in Scancodes
      /\ svc.byte.n <= inputs
  BY DEF QueueInv
<1>5. (\A i \in 1 .. Len(kbd) : kbd[i] \in Scancodes) /\ \A i \in 1 .. Len(charbuf) : charbuf[i] \in Characters
  BY <1>4
<1>6. \A i \in 1 .. Len(kbd) : kbd[i].n \in 0 .. inputs
  BY <1>1, <1>5 DEF QueueInv
<1>7. \A i \in 1 .. Len(charbuf) : charbuf[i].n \in 0 .. inputs
  BY <1>1, <1>5 DEF QueueInv
<1> QED BY <1>1, <1>2, <1>3, <1>4, <1>5, <1>6, <1>7

(* Steps that leave keyboard, terminal and buffer alone. *)
LEMMA KeysKept ==
  ASSUME OrderInv, inputs \in Nat, inputs' \in Nat, inputs <= inputs',
         UNCHANGED <<kbd, charbuf, kbd_buffer, head, tail, taken>>,
         svc' = svc \/ (svc.pc # "clear" /\ svc'.pc # "clear" /\ svc'.byte \in {svc.byte, SelfTest})
  PROVE  OrderInv'
<1> USE DEF OrderInv
<1>1. RingInv'
  BY DEF RingInv
<1>2. Buffered' = Buffered
  BY DEF Buffered
<1>3. /\ kbd \in Seq(Scancodes) /\ \A i \in 1 .. Len(kbd) : kbd[i].n \in 0 .. inputs
      /\ charbuf \in Seq(Characters) /\ \A i \in 1 .. Len(charbuf) : charbuf[i].n \in 0 .. inputs
      /\ svc.byte \in Scancodes /\ svc.byte.n \in 0 .. inputs /\ SelfTest \in Scancodes /\ SelfTest.n = 0
  BY QueueFacts
<1>4. KbdQueue' = KbdQueue /\ svc'.byte \in Scancodes /\ svc'.byte.n <= inputs'
  <2>1. CASE svc' = svc
    BY <1>3, <2>1 DEF KbdQueue, Serving
  <2>2. CASE svc.pc # "clear" /\ svc'.pc # "clear" /\ svc'.byte \in {svc.byte, SelfTest}
    BY <1>3, <2>2 DEF KbdQueue, Serving
  <2> QED BY <2>1, <2>2
<1>5. QueueInv'
  <2>1. \A src \in {"kbd", "uart"} : taken'[src] \in 0 .. inputs'
    BY DEF QueueInv
  <2>2. \A i \in 1 .. Len(kbd') : kbd'[i].n <= inputs'
    BY <1>3
  <2>3. \A i \in 1 .. Len(charbuf') : charbuf'[i].n <= inputs'
    BY <1>3
  <2>4. DOMAIN taken' = {"kbd", "uart"} /\ kbd' \in Seq(Scancodes) /\ charbuf' \in Seq(Characters)
    BY DEF QueueInv
  <2> QED BY <1>4, <2>1, <2>2, <2>3, <2>4 DEF QueueInv
<1>6. KeysInOrder'
  BY <1>2, <1>4 DEF KeysInOrder, KbdQueue
<1> QED BY <1>1, <1>5, <1>6

(* Keyboard::process_event, UART::add_char and the other devices. *)
LEMMA DeviceKeys ==
  ASSUME LineInv, OrderInv, Devices
  PROVE  OrderInv'
<1> USE DEF OrderInv
<1>0. inputs \in Nat
  BY DEF LineInv, TypeInv
<1>f. /\ kbd \in Seq(Scancodes) /\ \A i \in 1 .. Len(kbd) : kbd[i].n \in 0 .. inputs
      /\ charbuf \in Seq(Characters) /\ \A i \in 1 .. Len(charbuf) : charbuf[i].n \in 0 .. inputs
      /\ svc.byte \in Scancodes /\ svc.byte.n \in 0 .. inputs /\ SelfTest \in Scancodes /\ SelfTest.n = 0
  BY <1>0, QueueFacts
<1>t. DOMAIN taken = {"kbd", "uart"} /\ taken["kbd"] \in 0 .. inputs /\ taken["uart"] \in 0 .. inputs
  BY DEF QueueInv
<1>b. \A i \in DOMAIN Buffered : Buffered[i].n \in 0 .. inputs
  BY <1>0, BufferedFacts
<1>1. ASSUME NEW p \in Presses, Key(p[1], p[2]) PROVE OrderInv'
  <2> DEFINE code == [key |-> p[1], up |-> p[2], n |-> inputs']
  <2>1. /\ inputs' = inputs + 1 /\ kbd' = Append(kbd, code)
        /\ UNCHANGED <<charbuf, kbd_buffer, head, tail, taken, svc>>
    BY <1>1 DEF Key, Input, kbd_bda
  <2>2. code \in Scancodes /\ code.n = inputs'
    BY <1>0, <2>1, KeysAssumption DEF Scancodes
  <2> HIDE DEF code
  <2>3. /\ kbd' \in Seq(Scancodes) /\ Len(kbd') = Len(kbd) + 1 /\ kbd'[Len(kbd) + 1] = code
        /\ \A i \in 1 .. Len(kbd) : kbd'[i] = kbd[i]
    BY <1>f, <2>1, <2>2
  <2>4. RingInv' /\ Buffered' = Buffered
    BY <1>0, <2>1 DEF RingInv, Buffered
  <2>5. QueueInv'
    <3>1. \A i \in 1 .. Len(kbd') : kbd'[i].n <= inputs'
      <4> SUFFICES ASSUME NEW i \in 1 .. Len(kbd') PROVE kbd'[i].n <= inputs'
        OBVIOUS
      <4>1. Len(kbd) \in Nat /\ (i = Len(kbd) + 1 \/ i \in 1 .. Len(kbd))
        BY <1>f, <2>3
      <4> QED BY <1>0, <1>f, <2>1, <2>2, <2>3, <4>1
    <3>2. \A i \in 1 .. Len(charbuf') : charbuf'[i].n <= inputs'
      BY <1>0, <1>f, <2>1
    <3>3. \A src \in {"kbd", "uart"} : taken'[src] \in 0 .. inputs'
      BY <1>0, <1>t, <2>1
    <3>4. svc'.byte \in Scancodes /\ svc'.byte.n <= inputs'
      BY <1>0, <1>f, <2>1
    <3> QED BY <1>f, <1>t, <2>1, <2>3, <3>1, <3>2, <3>3, <3>4 DEF QueueInv
  <2>6. InOrder("kbd", taken["kbd"], Buffered, KbdQueue')
    <3>1. InOrder("kbd", taken["kbd"], Buffered, KbdQueue)
      BY DEF KeysInOrder, KbdQueue
    <3>2. CASE Serving("clear")
      BY <2>1, <3>1, <3>2 DEF KbdQueue, Serving
    <3>3. CASE ~Serving("clear")
      <4>1. KbdQueue = kbd /\ KbdQueue' = kbd'
        BY <2>1, <3>3 DEF KbdQueue, Serving
      <4>2. Len(kbd) \in Nat /\ DOMAIN kbd = 1 .. Len(kbd) /\ DOMAIN kbd' = 1 .. Len(kbd) + 1
        BY <1>f, <2>3
      <4>3. /\ taken["kbd"] < kbd'[Len(kbd) + 1].n
            /\ \A i \in DOMAIN Buffered : Buffered[i].n < kbd'[Len(kbd) + 1].n
            /\ \A i \in DOMAIN kbd : kbd[i].n < kbd'[Len(kbd) + 1].n
        BY <1>0, <1>t, <1>b, <1>f, <2>1, <2>2, <2>3, <4>2
      <4>4. InOrder("kbd", taken["kbd"], Buffered, kbd)
        BY <3>1, <4>1
      <4> QED BY <2>3, <4>1, <4>2, <4>3, <4>4, GrowQueue
    <3> QED BY <3>2, <3>3
  <2>7. KeysInOrder'
    BY <2>1, <2>4, <2>6 DEF KeysInOrder, KbdQueue
  <2> QED BY <2>4, <2>5, <2>7
<1>2. ASSUME NEW c \in Chars, Type(c) PROVE OrderInv'
  <2> DEFINE char == [code |-> c, n |-> inputs']
  <2>1. /\ inputs' = inputs + 1 /\ charbuf' = Append(charbuf, char)
        /\ UNCHANGED <<kbd, kbd_buffer, head, tail, taken, svc>>
    BY <1>2 DEF Type, Input, kbd_bda
  <2>2. char \in Characters /\ char.n = inputs'
    BY <1>0, <2>1 DEF Characters
  <2> HIDE DEF char
  <2>3. /\ charbuf' \in Seq(Characters) /\ Len(charbuf') = Len(charbuf) + 1
        /\ charbuf'[Len(charbuf) + 1] = char /\ \A i \in 1 .. Len(charbuf) : charbuf'[i] = charbuf[i]
    BY <1>f, <2>1, <2>2
  <2>4. RingInv' /\ Buffered' = Buffered
    BY <1>0, <2>1 DEF RingInv, Buffered
  <2>5. QueueInv'
    <3>1. \A i \in 1 .. Len(charbuf') : charbuf'[i].n <= inputs'
      <4> SUFFICES ASSUME NEW i \in 1 .. Len(charbuf') PROVE charbuf'[i].n <= inputs'
        OBVIOUS
      <4>1. Len(charbuf) \in Nat /\ (i = Len(charbuf) + 1 \/ i \in 1 .. Len(charbuf))
        BY <1>f, <2>3
      <4> QED BY <1>0, <1>f, <2>1, <2>2, <2>3, <4>1
    <3>2. \A i \in 1 .. Len(kbd') : kbd'[i].n <= inputs'
      BY <1>0, <1>f, <2>1
    <3>3. \A src \in {"kbd", "uart"} : taken'[src] \in 0 .. inputs'
      BY <1>0, <1>t, <2>1
    <3>4. svc'.byte \in Scancodes /\ svc'.byte.n <= inputs'
      BY <1>0, <1>f, <2>1
    <3> QED BY <1>f, <1>t, <2>1, <2>3, <3>1, <3>2, <3>3, <3>4 DEF QueueInv
  <2>6. InOrder("uart", taken["uart"], Buffered, charbuf')
    <3>1. InOrder("uart", taken["uart"], Buffered, charbuf)
      BY DEF KeysInOrder
    <3>2. Len(charbuf) \in Nat /\ DOMAIN charbuf = 1 .. Len(charbuf) /\ DOMAIN charbuf' = 1 .. Len(charbuf) + 1
      BY <1>f, <2>3
    <3>3. /\ taken["uart"] < charbuf'[Len(charbuf) + 1].n
          /\ \A i \in DOMAIN Buffered : Buffered[i].n < charbuf'[Len(charbuf) + 1].n
          /\ \A i \in DOMAIN charbuf : charbuf[i].n < charbuf'[Len(charbuf) + 1].n
      BY <1>0, <1>t, <1>b, <1>f, <2>1, <2>2, <2>3, <3>2
    <3> QED BY <2>3, <3>1, <3>2, <3>3, GrowQueue
  <2>7. KeysInOrder'
    BY <2>1, <2>4, <2>6 DEF KeysInOrder, Serving
  <2> QED BY <2>4, <2>5, <2>7
<1>3. CASE (\E dx, dy \in BOOLEAN : Move(dx, dy)) \/ Tick
  <2>1. /\ UNCHANGED <<kbd, charbuf, kbd_buffer, head, tail, taken, svc>>
        /\ inputs' = inputs \/ inputs' = inputs + 1
    BY <1>3 DEF Move, Tick, Input, kbd_bda, dev_vars
  <2> QED BY <1>0, <2>1, KeysKept
<1>4. CASE Restart
  <2>1. /\ inputs' = inputs + 1 /\ kbd' = <<SelfTest>>
        /\ UNCHANGED <<charbuf, kbd_buffer, head, tail, taken, svc>>
    BY <1>4 DEF Restart, Input, kbd_bda
  <2>2. kbd' \in Seq(Scancodes) /\ Len(kbd') = 1 /\ kbd'[1] = SelfTest
    BY <1>f, <2>1
  <2>3. RingInv' /\ Buffered' = Buffered
    BY <1>0, <2>1 DEF RingInv, Buffered
  <2>4. QueueInv'
    <3>1. \A i \in 1 .. Len(kbd') : kbd'[i].n <= inputs'
      BY <1>0, <1>f, <2>1, <2>2
    <3>2. \A i \in 1 .. Len(charbuf') : charbuf'[i].n <= inputs'
      BY <1>0, <1>f, <2>1
    <3>3. \A src \in {"kbd", "uart"} : taken'[src] \in 0 .. inputs'
      BY <1>0, <1>t, <2>1
    <3>4. svc'.byte \in Scancodes /\ svc'.byte.n <= inputs'
      BY <1>0, <1>f, <2>1
    <3> QED BY <1>f, <1>t, <2>1, <2>2, <3>1, <3>2, <3>3, <3>4 DEF QueueInv
  <2>5. InOrder("kbd", taken["kbd"], Buffered, KbdQueue')
    <3>1. InOrder("kbd", taken["kbd"], Buffered, KbdQueue)
      BY DEF KeysInOrder, KbdQueue
    <3>2. CASE Serving("clear")
      BY <2>1, <3>1, <3>2 DEF KbdQueue, Serving
    <3>3. CASE ~Serving("clear")
      <4>1. KbdQueue = kbd /\ KbdQueue' = kbd'
        BY <2>1, <3>3 DEF KbdQueue, Serving
      <4>2. DOMAIN kbd \subseteq Nat /\ DOMAIN kbd' = {1}
        BY <1>f, <2>2
      <4>3. InOrder("kbd", taken["kbd"], Buffered, kbd)
        BY <3>1, <4>1
      <4> QED BY <2>2, <4>1, <4>2, <4>3, SubQueue
    <3> QED BY <3>2, <3>3
  <2>6. KeysInOrder'
    BY <2>1, <2>3, <2>5 DEF KeysInOrder, KbdQueue
  <2> QED BY <2>3, <2>4, <2>6
<1> QED BY <1>1, <1>2, <1>3, <1>4 DEF Devices

(* No place that a service goes on at is that of a byte being looked at. *)
LEMMA ResumeByte ==
  ASSUME CallInv, NEW then, then # "clear", NEW again
  PROVE  /\ Resume(then).pc # "clear" /\ Resume(then).byte \in {svc.byte, SelfTest}
         /\ Polling(then, again).pc # "clear" /\ Polling(then, again).byte = svc.byte
<1>1. DOMAIN svc = {"call", "pc", "then", "again", "byte"}
  BY DEF CallInv, Idle
<1>2. \A x, y : Polling(x, y).pc = "poll" /\ Polling(x, y).byte = svc.byte
  BY <1>1 DEF Polling
<1>3. CASE then = "return"
  BY <1>2, <1>3 DEF Resume, Idle
<1>4. CASE then = "once"
  BY <1>2, <1>4 DEF Resume
<1>5. CASE then \notin {"return", "once"}
  <2>1. Resume(then) = [svc EXCEPT !.pc = then]
    BY <1>5 DEF Resume
  <2> QED BY <1>1, <1>2, <2>1
<1> QED BY <1>3, <1>4, <1>5

(* A step of a service that only goes on. *)
LEMMA GoOnKeys ==
  ASSUME LineInv, CallInv, OrderInv, svc.pc # "clear",
         UNCHANGED <<kbd, charbuf, kbd_buffer, head, tail, taken, inputs>>,
         svc' = Idle \/ \E then, again : then # "clear" /\ svc' \in {Resume(then), Polling(then, again)}
  PROVE  OrderInv'
<1>1. inputs \in Nat
  BY DEF LineInv, TypeInv
<1>2. svc'.pc # "clear" /\ svc'.byte \in {svc.byte, SelfTest}
  <2>1. CASE svc' = Idle
    BY <2>1 DEF Idle
  <2>2. ASSUME NEW then, NEW again, then # "clear", svc' \in {Resume(then), Polling(then, again)}
        PROVE  svc'.pc # "clear" /\ svc'.byte \in {svc.byte, SelfTest}
    BY <2>2, ResumeByte
  <2> QED BY <2>1, <2>2
<1> QED BY <1>1, <1>2, KeysKept

(* keyboard_poll looks at the byte at the front of the queue. *)
LEMMA PollByteKeys ==
  ASSUME LineInv, CallInv, OrderInv, PollByte
  PROVE  OrderInv'
<1> USE DEF OrderInv
<1>0. inputs \in Nat /\ DOMAIN svc = {"call", "pc", "then", "again", "byte"}
  BY DEF LineInv, TypeInv, CallInv, Idle
<1>1. /\ svc.pc = "poll" /\ kbd # << >> /\ svc' = [svc EXCEPT !.pc = "clear", !.byte = Head(kbd)]
      /\ UNCHANGED <<kbd, charbuf, kbd_buffer, head, tail, taken, inputs>>
  BY DEF PollByte, Serving, dev_vars, kbd_bda
<1>2. /\ kbd \in Seq(Scancodes) /\ \A i \in 1 .. Len(kbd) : kbd[i] \in Scancodes /\ kbd[i].n \in 0 .. inputs
  BY <1>0, QueueFacts
<1>3. 1 \in 1 .. Len(kbd) /\ Head(kbd) = kbd[1]
  BY <1>1, <1>2
<1>4. svc'.pc = "clear" /\ svc'.byte = kbd[1]
  BY <1>0, <1>1, <1>3
<1>5. RingInv' /\ Buffered' = Buffered
  BY <1>1 DEF RingInv, Buffered
<1>6. QueueInv'
  BY <1>0, <1>1, <1>2, <1>3, <1>4 DEF QueueInv
<1>7. KbdQueue = kbd /\ KbdQueue' = <<kbd[1]>>
  BY <1>1, <1>4 DEF KbdQueue, Serving
<1>8. InOrder("kbd", taken["kbd"], Buffered, <<kbd[1]>>)
  <2>1. InOrder("kbd", taken["kbd"], Buffered, kbd)
    BY <1>7 DEF KeysInOrder, KbdQueue
  <2> DEFINE one == <<kbd[1]>>
  <2>2. DOMAIN kbd = 1 .. Len(kbd) /\ Len(kbd) \in Nat /\ DOMAIN one = {1} /\ one[1] = kbd[1]
    BY <1>2
  <2> HIDE DEF one
  <2>3. \A i \in DOMAIN one : i + 0 \in DOMAIN kbd /\ one[i] = kbd[i + 0]
    BY <1>3, <2>2
  <2>4. DOMAIN kbd \subseteq Nat /\ DOMAIN one \subseteq Nat /\ 0 \in Nat
    BY <2>2
  <2>5. InOrder("kbd", taken["kbd"], Buffered, one)
    BY <2>1, <2>3, <2>4, SubQueue
  <2> QED BY <2>5 DEF one
<1>9. KeysInOrder'
  BY <1>1, <1>5, <1>7, <1>8 DEF KeysInOrder, KbdQueue
<1> QED BY <1>5, <1>6, <1>9

(* The byte goes into the buffer, or not. *)
LEMMA ClearKeys ==
  ASSUME LineInv, CallInv, OrderInv, keyboard_poll
  PROVE  OrderInv'
<1> USE DEF OrderInv
<1>0. /\ inputs \in Nat /\ DOMAIN svc = {"call", "pc", "then", "again", "byte"}
      /\ svc.then # "clear"
  BY DEF LineInv, TypeInv, CallInv, Idle, Thens
<1>1. /\ svc.pc = "clear" /\ kbd' = << >> /\ UNCHANGED <<charbuf, head, taken, inputs>>
      /\ svc' = [svc EXCEPT !.pc = IF svc.again THEN "poll" ELSE svc.then, !.byte = SelfTest]
  BY DEF keyboard_poll, Serving
<1>2. svc'.pc # "clear" /\ svc'.byte = SelfTest
  BY <1>0, <1>1
<1>3. /\ svc.byte \in Scancodes /\ svc.byte.n \in 0 .. inputs /\ SelfTest \in Scancodes /\ SelfTest.n = 0
      /\ charbuf \in Seq(Characters)
  BY <1>0, QueueFacts
<1>4. QueueInv'
  <2>1. << >> \in Seq(Scancodes) /\ Len(<< >>) = 0
    BY EmptySeq
  <2>2. svc'.byte.n <= inputs'
    BY <1>0, <1>1, <1>2, <1>3
  <2> QED BY <1>1, <1>2, <1>3, <2>1, <2>2 DEF QueueInv
<1> DEFINE one == <<svc.byte>>
           none == << >>
<1>5. /\ InOrder("kbd", taken["kbd"], Buffered, one) /\ InOrder("uart", taken["uart"], Buffered, charbuf)
      /\ DOMAIN one = 1 .. 0 + 1 /\ one[1] = svc.byte /\ DOMAIN none = 1 .. 0
  BY <1>1 DEF KeysInOrder, Serving
<1> HIDE DEF one, none
<1>6. KbdQueue' = none
  BY <1>1, <1>2 DEF KbdQueue, Serving, none
<1>7. ASSUME UNCHANGED <<kbd_buffer, tail>> PROVE OrderInv'
  <2>1. RingInv' /\ Buffered' = Buffered
    BY <1>1, <1>7 DEF RingInv, Buffered
  <2>2. DOMAIN one \subseteq Nat /\ DOMAIN none \subseteq Nat /\ DOMAIN none = {} /\ 0 \in Nat
    BY <1>5
  <2>3. InOrder("kbd", taken["kbd"], Buffered, none)
    BY <1>5, <2>2, SubQueue
  <2>4. KeysInOrder'
    BY <1>1, <1>5, <1>6, <2>1, <2>3 DEF KeysInOrder, KbdQueue
  <2> QED BY <1>4, <2>1, <2>4
<1>8. CASE svc.byte.key \in Modifiers \/ svc.byte.up
  BY <1>7, <1>8 DEF keyboard_poll
<1>9. CASE svc.byte.key \notin Modifiers /\ ~svc.byte.up
  <2>1. keypress(svc.byte)
    BY <1>9 DEF keyboard_poll
  <2>2. CASE UNCHANGED <<kbd_buffer, tail>>
    BY <1>7, <2>2
  <2>3. CASE ~UNCHANGED <<kbd_buffer, tail>>
    <3>1. PICK word : kbd_buffer_add(word) /\ word.src = "kbd" /\ word.n = svc.byte.n
      BY <2>1, <2>3 DEF keypress
    <3>2. word.n \in 0 .. inputs
      BY <1>3, <3>1
    <3>3. svc.byte # SelfTest
      BY <1>9 DEF SelfTest, Modifiers
    <3>4. RingInv' /\ (Buffered' = Buffered \/ Joined(Buffered, Buffered', word))
      BY <1>0, <1>1, <3>1, <3>2, AddFacts
    <3>5. CASE Buffered' = Buffered
      <4>1. DOMAIN one \subseteq Nat /\ DOMAIN none \subseteq Nat /\ DOMAIN none = {} /\ 0 \in Nat
        BY <1>5
      <4>2. InOrder("kbd", taken["kbd"], Buffered, none)
        BY <1>5, <4>1, SubQueue
      <4>3. KeysInOrder'
        BY <1>1, <1>5, <1>6, <3>5, <4>2 DEF KeysInOrder, KbdQueue
      <4> QED BY <1>4, <3>4, <4>3
    <3>6. CASE Buffered' # Buffered
      <4>1. Joined(Buffered, Buffered', word) /\ word.src # "uart" /\ word.n = one[1].n /\ one[1] # SelfTest
        BY <1>5, <3>1, <3>3, <3>4, <3>6
      <4>2. InOrder("uart", taken["uart"], Buffered', charbuf)
        BY <1>5, <4>1, JoinOther
      <4>3. InOrder("kbd", taken["kbd"], Buffered', none)
        <5>1. 0 \in Nat /\ \A i \in 1 .. 0 : none[i] = one[i + 1]
          OBVIOUS
        <5> QED BY <1>5, <4>1, <5>1, MoveFront
      <4>4. KeysInOrder'
        BY <1>1, <1>6, <4>2, <4>3 DEF KeysInOrder, KbdQueue
      <4> QED BY <1>4, <3>4, <4>4
    <3> QED BY <3>5, <3>6
  <2> QED BY <2>2, <2>3
<1> QED BY <1>8, <1>9

(* keyboard_wait takes the first word. *)
LEMMA WaitKeys ==
  ASSUME LineInv, CallInv, OrderInv, keyboard_wait
  PROVE  OrderInv'
<1> USE DEF OrderInv
<1>0. inputs \in Nat
  BY DEF LineInv, TypeInv
<1>1. /\ svc.pc = "peek" /\ head # tail /\ kbd_buffer_pop /\ svc' = Idle
      /\ taken' = [taken EXCEPT ![kbd_buffer[head].src] = kbd_buffer[head].n]
      /\ UNCHANGED <<kbd, charbuf, kbd_buffer, tail, inputs>>
  BY DEF keyboard_wait, Serving, HasKey, dev_vars
<1>p. RingInv /\ UNCHANGED <<kbd_buffer, tail, inputs>>
  BY <1>1
<1>2. RingInv'
  BY <1>1, <1>p, PopFacts, Zenon
<1>3. Dropped(Buffered, Buffered') /\ Buffered[1] = kbd_buffer[head]
  BY <1>1, <1>p, PopFacts, Zenon
<1>4. svc'.pc # "clear" /\ svc'.byte = SelfTest /\ SelfTest \in Scancodes /\ SelfTest.n = 0
  <2>1. SelfTest \in Scancodes /\ SelfTest.n = 0
    BY <1>0, QueueFacts
  <2> QED BY <1>1, <2>1 DEF Idle
<1>5. KbdQueue' = kbd /\ KbdQueue = kbd
  BY <1>1, <1>4 DEF KbdQueue, Serving
<1>6. /\ DOMAIN taken = {"kbd", "uart"} /\ DOMAIN taken' = {"kbd", "uart"}
      /\ \A src \in {"kbd", "uart"} :
           /\ taken[src] \in 0 .. inputs
           /\ taken'[src] = IF Buffered[1].src = src THEN Buffered[1].n ELSE taken[src]
  <2>1. DOMAIN taken = {"kbd", "uart"} /\ \A src \in {"kbd", "uart"} : taken[src] \in 0 .. inputs
    BY DEF QueueInv
  <2> QED BY <1>1, <1>3, <2>1
<1>7. Buffered[1].n \in 0 .. inputs
  BY <1>3 DEF RingInv
<1>8. QueueInv'
  <2>1. \A src \in {"kbd", "uart"} : taken'[src] \in 0 .. inputs'
    BY <1>1, <1>6, <1>7
  <2>2. svc'.byte \in Scancodes /\ svc'.byte.n <= inputs'
    BY <1>0, <1>1, <1>4
  <2> QED BY <1>1, <1>6, <2>1, <2>2 DEF QueueInv
<1>9. InOrder("kbd", taken'["kbd"], Buffered', kbd)
  <2>1. InOrder("kbd", taken["kbd"], Buffered, kbd)
    BY <1>5 DEF KeysInOrder, KbdQueue
  <2> QED BY <1>3, <1>6, <2>1, TakeFirst
<1>10. InOrder("uart", taken'["uart"], Buffered', charbuf)
  <2>1. InOrder("uart", taken["uart"], Buffered, charbuf)
    BY DEF KeysInOrder
  <2> QED BY <1>3, <1>6, <2>1, TakeFirst
<1>11. KeysInOrder'
  BY <1>1, <1>5, <1>9, <1>10 DEF KeysInOrder, KbdQueue
<1> QED BY <1>2, <1>8, <1>11

(* serial_poll: the character goes into the buffer or is lost. *)
LEMMA SerialKeys ==
  ASSUME LineInv, CallInv, OrderInv, serial_poll
  PROVE  OrderInv'
<1> USE DEF OrderInv
<1>0. inputs \in Nat
  BY DEF LineInv, TypeInv
<1>1. /\ svc.pc = "serial" /\ UNCHANGED <<kbd, head, taken, inputs>>
      /\ svc' = IF svc.call = "wait" THEN Polling("peek", TRUE) ELSE Resume("peek_again")
  BY DEF serial_poll, Serving
<1>2. svc'.pc # "clear" /\ svc'.byte \in {svc.byte, SelfTest}
  BY <1>1, ResumeByte
<1>3. CASE charbuf = << >>
  <2>1. UNCHANGED <<charbuf, kbd_buffer, tail>>
    BY <1>3 DEF serial_poll
  <2>2. inputs' \in Nat /\ inputs <= inputs' /\ svc.pc # "clear"
    BY <1>0, <1>1
  <2>3. UNCHANGED <<kbd, charbuf, kbd_buffer, head, tail, taken>>
    BY <1>1, <2>1
  <2> QED BY <1>0, <1>2, <2>2, <2>3, KeysKept
<1>4. CASE charbuf # << >>
  <2> DEFINE char == Head(charbuf)
             word == [code |-> char.code, src |-> "uart", n |-> char.n]
  <2>1. kbd_buffer_add(word) /\ charbuf' = Tail(charbuf)
    BY <1>4 DEF serial_poll
  <2>2. /\ charbuf \in Seq(Characters) /\ svc.byte \in Scancodes /\ svc.byte.n \in 0 .. inputs
        /\ \A i \in 1 .. Len(charbuf) : charbuf[i].n \in 0 .. inputs /\ charbuf[i] # SelfTest
        /\ SelfTest \in Scancodes /\ SelfTest.n = 0
    BY <1>0, QueueFacts
  <2>3. 1 \in 1 .. Len(charbuf) /\ char = charbuf[1] /\ word.src = "uart" /\ word.n = char.n
    BY <1>4, <2>2
  <2>4. PICK q \in Nat : /\ Len(charbuf) = q + 1 /\ Len(charbuf') = q /\ charbuf' \in Seq(Characters)
                         /\ \A i \in 1 .. q : charbuf'[i] = charbuf[i + 1]
    <3>1. Len(charbuf) \in Nat /\ Len(charbuf) >= 1
      BY <1>4, <2>2
    <3>2. Len(charbuf) - 1 \in Nat
      BY <3>1
    <3>3. /\ Len(charbuf') = Len(charbuf) - 1 /\ charbuf' \in Seq(Characters)
          /\ \A i \in 1 .. Len(charbuf) - 1 : charbuf'[i] = charbuf[i + 1]
      BY <1>4, <2>1, <2>2
    <3> QED BY <3>1, <3>2, <3>3
  <2> HIDE DEF char, word
  <2>5. RingInv' /\ (Buffered' = Buffered \/ Joined(Buffered, Buffered', word))
    BY <1>0, <1>1, <2>1, <2>2, <2>3, AddFacts
  <2>6. QueueInv'
    <3>1. \A i \in 1 .. Len(charbuf') : charbuf'[i].n <= inputs'
      <4> SUFFICES ASSUME NEW i \in 1 .. q PROVE charbuf'[i].n <= inputs'
        BY <2>4
      <4>1. i + 1 \in 1 .. Len(charbuf) /\ charbuf'[i] = charbuf[i + 1]
        BY <2>4
      <4> QED BY <1>0, <1>1, <2>2, <4>1
    <3>2. svc'.byte \in Scancodes /\ svc'.byte.n <= inputs'
      <4>1. /\ inputs' = inputs /\ svc.byte \in Scancodes /\ svc.byte.n <= inputs
            /\ SelfTest \in Scancodes /\ SelfTest.n <= inputs
        BY <1>0, <1>1, <2>2
      <4> QED BY <1>2, <4>1, Zenon
    <3> QED BY <1>1, <2>4, <3>1, <3>2 DEF QueueInv
  <2>7. /\ InOrder("kbd", taken["kbd"], Buffered, kbd) /\ InOrder("uart", taken["uart"], Buffered, charbuf)
        /\ KbdQueue' = kbd
    BY <1>1, <1>2 DEF KeysInOrder, KbdQueue, Serving
  <2>8. /\ DOMAIN charbuf = 1 .. q + 1 /\ DOMAIN charbuf' = 1 .. q
        /\ DOMAIN charbuf \subseteq Nat /\ DOMAIN charbuf' \subseteq Nat
    BY <2>2, <2>4
  <2>9. /\ InOrder("kbd", taken["kbd"], Buffered', kbd) /\ InOrder("uart", taken["uart"], Buffered', charbuf')
    <3>1. CASE Buffered' = Buffered
      <4>1. \A i \in DOMAIN charbuf' : i + 1 \in DOMAIN charbuf /\ charbuf'[i] = charbuf[i + 1]
        BY <2>4, <2>8
      <4>2. 1 \in Nat
        OBVIOUS
      <4>3. InOrder("uart", taken["uart"], Buffered, charbuf')
        BY <2>7, <2>8, <4>1, <4>2, SubQueue
      <4> QED BY <2>7, <3>1, <4>3
    <3>2. CASE Joined(Buffered, Buffered', word)
      <4>1. InOrder("kbd", taken["kbd"], Buffered', kbd)
        BY <2>3, <2>7, <3>2, JoinOther
      <4>2. charbuf[1] # SelfTest /\ word.n = charbuf[1].n
        BY <2>2, <2>3
      <4>3. InOrder("uart", taken["uart"], Buffered', charbuf')
        BY <2>4, <2>7, <2>8, <3>2, <4>2, MoveFront
      <4> QED BY <4>1, <4>3
    <3> QED BY <2>5, <3>1, <3>2
  <2>10. KeysInOrder'
    BY <1>1, <2>7, <2>9 DEF KeysInOrder, KbdQueue
  <2> QED BY <2>5, <2>6, <2>10
<1> QED BY <1>3, <1>4

(* The services. *)
LEMMA ServiceKeys ==
  ASSUME LineInv, CallInv, OrderInv, Services
  PROVE  OrderInv'
<1>0. svc.then # "clear"
  BY DEF CallInv, Thens
<1>1. CASE PollEmpty
  <2>1. /\ svc.pc = "poll" /\ svc' = Resume(svc.then)
        /\ UNCHANGED <<kbd, charbuf, kbd_buffer, head, tail, taken, inputs>>
    BY <1>1 DEF PollEmpty, Serving, dev_vars, kbd_bda
  <2> QED BY <1>0, <2>1, GoOnKeys
<1>2. CASE kbd_buffer_peek
  <2> DEFINE then == CASE svc.call = "wait" -> "serial"
                       [] Serving("peek") /\ ~HasKey -> "once"
                       [] OTHER -> "return"
  <2>1. /\ svc.pc # "clear" /\ svc' = IF head = tail THEN Polling(then, TRUE) ELSE Resume(then)
        /\ UNCHANGED <<kbd, charbuf, kbd_buffer, head, tail, taken, inputs>>
    BY <1>2 DEF kbd_buffer_peek, Serving, dev_vars, kbd_bda
  <2>2. then # "clear"
    OBVIOUS
  <2> HIDE DEF then
  <2> QED BY <2>1, <2>2, GoOnKeys
<1>3. CASE mouse_suspend \/ mouse_resume
  <2>1. PICK from, to : /\ DiskStep(from, to) /\ from # "clear" /\ to # "clear"
                        /\ (ReadMouse \/ mouse_init \/ \E on \in BOOLEAN : Command(on))
    BY <1>3 DEF mouse_suspend, mouse_resume
  <2>2. /\ svc.pc = from /\ svc' = Resume(to) /\ UNCHANGED <<kbd_buffer, head, tail, taken, inputs>>
    BY <2>1 DEF DiskStep, Serving, kbd_bda
  <2>3. UNCHANGED <<kbd, charbuf>>
    BY <2>1 DEF ReadMouse, mouse_init, Command
  <2> QED BY <2>1, <2>2, <2>3, GoOnKeys
<1> QED BY <1>1, <1>2, <1>3, PollByteKeys, ClearKeys, WaitKeys, SerialKeys DEF Services

(* Interrupts, their handlers and what programs do themselves. *)
LEMMA OtherKeys ==
  ASSUME LineInv, CallInv, OrderInv, TakeInterrupt \/ Acknowledge \/ Handlers \/ Programs
  PROVE  OrderInv'
<1> USE DEF kbd_bda, dev_vars
<1>0. inputs \in Nat
  BY DEF LineInv, TypeInv
<1>1. ASSUME UNCHANGED <<kbd, charbuf, kbd_buffer, head, tail, taken, inputs, svc>> PROVE OrderInv'
  BY <1>0, <1>1, KeysKept
<1>2. CASE TakeInterrupt \/ Acknowledge
  BY <1>1, <1>2 DEF TakeInterrupt, handle_irq, SampleVector, Acknowledge
<1>3. CASE timer_irq \/ EndTimer \/ kbd_irq
  BY <1>1, <1>3 DEF timer_irq, EndTimer, kbd_irq
<1>4. CASE mouse_irq \/ mouse_poll_loop \/ update_mouse \/ no_mouse_data
  BY <1>1, <1>4 DEF mouse_irq, mouse_poll_loop, update_mouse, no_mouse_data
<1>5. CASE SetFlag \/ HookEnables \/ setup_mouse
  BY <1>1, <1>5 DEF SetFlag, HookEnables, setup_mouse
<1>6. ASSUME NEW set, NEW time, timer_services(set, time) PROVE OrderInv'
  BY <1>1, <1>6 DEF timer_services
<1>7. ASSUME NEW on, enable_mouse(on) PROVE OrderInv'
  BY <1>1, <1>7 DEF enable_mouse
<1>8. ASSUME NEW what, NEW call, NEW at, at # "clear", Call(what, call, at) PROVE OrderInv'
  <2>1. /\ svc = Idle /\ svc' = [Idle EXCEPT !.call = call, !.pc = at]
        /\ UNCHANGED <<kbd, charbuf, kbd_buffer, head, tail, taken, inputs>>
    BY <1>8 DEF Call, Program
  <2>2. svc.pc # "clear" /\ svc'.pc # "clear" /\ svc'.byte = SelfTest
    BY <1>8, <2>1 DEF Idle
  <2> QED BY <1>0, <2>1, <2>2, KeysKept
<1> QED BY <1>2, <1>3, <1>4, <1>5, <1>6, <1>7, <1>8 DEF Handlers, Programs

(* At power-up no key is anywhere. *)
LEMMA InitKeys ==
  ASSUME Init
  PROVE  OrderInv
<1>1. /\ kbd = << >> /\ charbuf = << >> /\ head = 0 /\ tail = 0 /\ inputs = 0 /\ svc = Idle
      /\ kbd_buffer = [i \in 0 .. N - 1 |-> [code |-> NUL, src |-> "none", n |-> 0]]
      /\ taken = [src \in {"kbd", "uart"} |-> 0]
  BY DEF Init
<1>2. RingInv
  BY <1>1, RingAssumption DEF RingInv
<1>3. /\ << >> \in Seq(Scancodes) /\ << >> \in Seq(Characters) /\ Len(<< >>) = 0
  BY EmptySeq
<1>4. svc.byte \in Scancodes /\ svc.byte.n = 0 /\ svc.pc # "clear"
  BY <1>1 DEF Idle, SelfTest, Scancodes, Modifiers
<1>5. QueueInv
  BY <1>1, <1>3, <1>4 DEF QueueInv
<1>6. DOMAIN Buffered = {}
  <2>1. Held(head, tail) = 0
    BY <1>1 DEF Held
  <2>2. 0 \in Nat /\ 1 .. 0 = {}
    OBVIOUS
  <2> QED BY <1>1, <1>2, <2>1, <2>2, BufferedFacts
<1>7. KeysInOrder
  <2>1. DOMAIN kbd = {} /\ DOMAIN charbuf = {}
    BY <1>1
  <2> QED BY <1>4, <1>6, <2>1 DEF KeysInOrder, InOrder, Serving
<1> QED BY <1>2, <1>5, <1>7 DEF OrderInv

(* Keys are never reordered and never doubled: KeysInOrder holds for every *)
(* size of kbd_buffer, keymap and session, although keyboard_poll drops    *)
(* the rest of the queue, a full buffer drops words (keyboard.c), serial   *)
(* characters share the ring (serial.c) and a restart may come between the *)
(* two accesses of keyboard_poll.                                          *)
THEOREM KeysAlwaysInOrder ==
  Spec => []KeysInOrder
<1>1. Init => OrderInv
  BY InitKeys
<1>2. LineInv /\ PacketInv /\ OrderInv /\ [Next]_vars => OrderInv'
  <2> SUFFICES ASSUME LineInv, PacketInv, OrderInv, [Next]_vars PROVE OrderInv'
    OBVIOUS
  <2>1. CallInv
    BY DEF PacketInv
  <2>2. CASE UNCHANGED vars
    <3>1. inputs \in Nat /\ UNCHANGED <<kbd, charbuf, kbd_buffer, head, tail, taken, inputs, svc>>
      BY <2>2 DEF vars, kbd_bda, dev_vars, LineInv, TypeInv
    <3> QED BY <3>1, KeysKept
  <2> QED BY <2>1, <2>2, DeviceKeys, ServiceKeys, OtherKeys DEF Next
<1>3. OrderInv => KeysInOrder
  BY DEF OrderInv
<1> QED BY <1>1, <1>2, <1>3, LineInvariant, PacketInvariant, PTL DEF Spec
=============================================================================
