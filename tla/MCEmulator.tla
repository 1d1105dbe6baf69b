----------------------------- MODULE MCEmulator -----------------------------
(***************************************************************************)
(* Programs for the emulator.  Each program runs at 0100:0000 from the     *)
(* registers AX and BX of its input and ends at its last byte; the handlers*)
(* at 0200 count their calls and leave everything else as they found it.   *)
(* One input is run again after a reset, with an IRQ and an NMI arriving   *)
(* anywhere.  Without a program the behaviour walks through the operands   *)
(* of ALULaws, with the words at and around the carries of each byte and   *)
(* of the sign bit; products of words do not fit TLC's integers.           *)
(***************************************************************************)
EXTENDS Emulator, ALULaws

CONSTANT Programs     \* names of the programs to run

VARIABLES prog, input, ref   \* ref: outcome of the uninterrupted run, empty before

program_vars == <<vars, prog, input, ref>>
mcvars == <<program_vars, operand_vars>>

MCWordValues == <<0, 1, 2, 15, 16, 127, 128, 255, 256, 4095, 21845, 32767, 32768,
                  32769, 43690, 61440, 65279, 65280, 65534, 65535>>

Inputs == {<<5, 3>>, <<0, 0>>, <<32767, 1>>, <<32768, 32769>>, <<61695, 240>>,
           <<21930, 65535>>}
InterruptedInput == <<5, 3>>

Code ==
     "none" :> << >>
  @@ "arith" :>
       << \h89, \hC1,               \* mov cx, ax
          \h01, \hD8,               \* add ax, bx
          \h2B, \hC3,               \* sub ax, bx
          \hF7, \hD8,               \* neg ax
          \hF7, \hD0,               \* not ax
          \h40,                     \* inc ax
          \h31, \hD8, \h33, \hC3,   \* xor ax, bx (twice, both forms)
          \hFE, \hC4, \hFE, \hCC,   \* inc ah; dec ah
          \hFF, \hC0, \h48,         \* inc ax; dec ax
          \hF9, \h11, \hD8,         \* stc; adc ax, bx
          \hF9, \h1B, \hC3,         \* stc; sbb ax, bx
          \h39, \hC8 >>             \* cmp ax, cx
  @@ "immediate" :>
       << \h89, \hC1,               \* mov cx, ax
          \h05, \h34, \h12,         \* add ax, 1234h
          \h2D, \h34, \h12,         \* sub ax, 1234h
          \h83, \hC0, \hFF,         \* add ax, -1
          \h81, \hE8, \hFF, \hFF,   \* sub ax, 0ffffh
          \h80, \hF4, \h55, \h34, \h0F,  \* xor ah, 55h; xor al, 0fh
          \h81, \hF0, \h0F, \h55,   \* xor ax, 550fh
          \h83, \hC8, \h00, \h25, \hFF, \hFF,  \* or ax, 0; and ax, 0ffffh
          \hF8, \h14, \h80, \h2C, \h80,  \* clc; adc al, 80h; sub al, 80h
          \hF9, \h82, \hDC, \hFF, \hF9, \h80, \hD4, \hFF,  \* stc; sbb ah, -1; stc; adc ah, -1
          \hA9, \h00, \h80, \hF7, \hC0, \h00, \h80, \h85, \hC0, \h84, \hC0,
                                    \* test ax, 8000h (twice); test ax, ax; al, al
          \h3D, \h05, \h00 >>       \* cmp ax, 5
  @@ "multiply" :>
       << \h89, \hC1,               \* mov cx, ax
          \h69, \hD1, \h03, \h00,   \* imul dx, cx, 3
          \h6B, \hF1, \hFD,         \* imul si, cx, -3
          \h01, \hD6,               \* add si, dx
          \hF7, \hEB, \hF7, \hFB,   \* imul bx; idiv bx
          \h89, \hC7,               \* mov di, ax
          \h25, \hFF, \h7F,         \* and ax, 7fffh
          \h89, \hC5,               \* mov bp, ax
          \h81, \hE3, \hFF, \h7F,   \* and bx, 7fffh
          \hF7, \hE3, \hF7, \hF3 >> \* mul bx; div bx
  @@ "bytes" :>
       << \h88, \hC5,               \* mov ch, al
          \hF6, \hE3, \hF6, \hF3,   \* mul bl; div bl
          \h88, \hC1,               \* mov cl, al
          \hF6, \hEB, \hF6, \hFB,   \* imul bl; idiv bl
          \hB4, \h00, \hD4, \h0A, \hD5, \h0A,  \* mov ah, 0; aam; aad
          \h98, \h99 >>             \* cbw; cwd
  @@ "shifts" :>
       << \hC1, \hC0, \h05, \hC1, \hC8, \h05,  \* rol ax, 5; ror ax, 5
          \hD1, \hD0, \hD1, \hD8,   \* rcl ax, 1; rcr ax, 1
          \hC0, \hC4, \h03, \hC0, \hCC, \h23,  \* rol ah, 3; ror ah, 35
          \hB1, \h21,               \* mov cl, 33
          \hD3, \hC0, \hD3, \hC8,   \* rol ax, cl; ror ax, cl
          \hD2, \hD4, \hD2, \hDC,   \* rcl ah, cl; rcr ah, cl
          \h89, \hC3,               \* mov bx, ax
          \hC1, \hE8, \h20,         \* shr ax, 32 (masked to 0)
          \h89, \hC2,               \* mov dx, ax
          \hD1, \hE2, \hD1, \hFA,   \* shl dx, 1; sar dx, 1
          \hD3, \hE0 >>             \* shl ax, cl
  @@ "stack" :>
       << \h50, \h53, \h58, \h5B,   \* push ax; push bx; pop ax; pop bx
          \h9C, \h60,               \* pushf; pusha
          \h33, \hC0, \h8B, \hD8,   \* xor ax, ax; mov bx, ax
          \h61, \h9D,               \* popa; popf
          \h1E, \h07,               \* push ds; pop es
          \hFF, \h36, \h00, \h00,   \* push word [0]
          \h8F, \h06, \h10, \h00,   \* pop word [10h]
          \h68, \h34, \h12, \h6A, \hFE, \h5A, \h59,  \* push 1234h; push -2; pop dx; pop cx
          \h54, \h5D,               \* push sp; pop bp
          \hC8, \h04, \h00, \h00, \hC9,  \* enter 4, 0; leave
          \hC8, \h02, \h00, \h03, \hC9 >>  \* enter 2, 3; leave
  @@ "calls" :>
       << \hE8, \h12, \h00,         \* 00 call near 15h
          \h9A, \h18, \h00, \h00, \h01,  \* 03 call far 0100:0018h
          \hBE, \h15, \h00, \hFF, \hD6,  \* 08 mov si, 15h; call si
          \hFF, \h1E, \h08, \h00,   \* 0d call far [8]
          \h90, \hEB, \h0A,         \* 11 nop; jmp short 1eh
          \h90,                     \* 14
          \h40, \h40, \hC3,         \* 15 inc ax; inc ax; ret
          \h40, \h53, \h5B, \hCA, \h00, \h00,  \* 18 inc ax; push bx; pop bx; retf 0
          \h53, \hE8, \h03, \h00,   \* 1e push bx; call 25h
          \hE9, \h04, \h00,         \* 22 jmp 29h
          \h40, \hC2, \h02, \h00,   \* 25 inc ax; ret 2
          \hCD, \h09, \hCC,         \* 29 int 9; int 3
          \hB2, \h7F, \h80, \hC2, \h01, \hCE,  \* 2c mov dl, 7fh; add dl, 1; into
          \hEA, \h37, \h00, \h00, \h01 >>  \* 32 jmp far 0100:0037h
  @@ "loops" :>
       << \hB9, \h03, \h00, \h33, \hD2,  \* mov cx, 3; xor dx, dx
          \h03, \hD0, \hE2, \hFC,   \* add dx, ax; loop
          \h89, \hC6, \h39, \hD8, \h7F, \h02, \h89, \hDE,
                                    \* mov si, ax; cmp ax, bx; jg; mov si, bx
          \h89, \hC7, \h39, \hD8, \h73, \h02, \h89, \hDF,
                                    \* mov di, ax; cmp ax, bx; jae; mov di, bx
          \hB1, \h04, \h49, \h41, \h3C, \h00, \hE0, \hFA,
                                    \* mov cl, 4; dec cx; inc cx; cmp al, 0; loopnz
          \hB9, \h04, \h00, \h38, \hC0, \hE1, \hFC,  \* mov cx, 4; cmp al, al; loope
          \hE3, \h01, \h42 >>       \* jcxz; inc dx
  @@ "strings" :>
       << \hBE, \h00, \h00, \hBF, \h20, \h00,  \* mov si, 0; mov di, 20h
          \hB9, \h04, \h00, \hFC, \hF3, \hA4,  \* mov cx, 4; cld; rep movsb
          \hBE, \h20, \h00, \hBF, \h00, \h00,  \* mov si, 20h; mov di, 0
          \hB9, \h03, \h00, \hF3, \hA6,  \* mov cx, 3; repe cmpsb
          \h89, \hCB,               \* mov bx, cx
          \hBF, \h26, \h00, \hB1, \h03, \hFD, \hF3, \hAB,
                                    \* mov di, 26h; mov cl, 3; std; rep stosw
          \hBF, \h20, \h00, \hB1, \h08, \hFC, \hF2, \hAF,
                                    \* mov di, 20h; mov cl, 8; cld; repne scasw
          \hBE, \h26, \h00, \hAD, \h93,  \* mov si, 26h; lodsw; xchg ax, bx
          \h26, \hA4 >>             \* es: movsb
  @@ "switch" :>
       << \hB8, \h10, \h03, \hBA, \h00, \h04,  \* mov ax, 0310h; mov dx, 0400h
          \h8E, \hD0, \hBC, \h80, \h00,  \* mov ss, ax; mov sp, 80h
          \h50, \h58,               \* push ax; pop ax
          \h52, \h17, \hBC, \h40, \h00,  \* push dx; pop ss; mov sp, 40h
          \hFA, \h8E, \hD0, \hBC, \h80, \h00, \hFB,
                                    \* cli; mov ss, ax; mov sp, 80h; sti
          \h50, \h58,               \* push ax; pop ax
          \h8C, \hD1 >>             \* mov cx, ss
  @@ "trap" :>
       << \h9C, \h58, \h80, \hCC, \h01, \h50, \h9D,  \* set TF
          \h90, \h43, \h8E, \hD2, \h43,  \* nop; inc bx; mov ss, dx; inc bx
          \h9C, \h58, \h80, \hE4, \hFE, \h50, \h9D >>  \* clear TF
  @@ "addressing" :>
       << \hBB, \h10, \h00, \hBD, \h50, \h00,  \* mov bx, 10h; mov bp, 50h
          \hBE, \h02, \h00, \hBF, \h04, \h00,  \* mov si, 2; mov di, 4
          \h89, \h00,               \* mov [bx+si], ax
          \h87, \h51, \hFE,         \* xchg [bx+di-2], dx
          \h36, \h89, \h97, \h40, \h00,  \* mov ss:[bx+40h], dx
          \h8B, \h4E, \h00,         \* mov cx, [bp]
          \h3E, \h89, \h0B,         \* mov ds:[bp+di], cx
          \hA1, \h54, \h00,         \* mov ax, [54h]
          \hC7, \h06, \h56, \h00, \h00, \h03,  \* mov word [56h], 300h
          \hC5, \h16, \h54, \h00,   \* lds dx, [54h]
          \h8D, \h72, \h0C,         \* lea si, [bp+si+12]
          \hA2, \h38, \h00, \hB8, \h38, \h00, \h29, \hD8, \hD7,
                                    \* mov [38h], al; mov ax, 38h; sub ax, bx; xlat
          \hF0, \h2E, \h26, \h88, \h06, \h3A, \h00 >>  \* lock cs: es: mov [3ah], al
  @@ "ports" :>
       << \hBA, \h11, \h00, \hEF,   \* mov dx, 11h; out dx, ax (aligned to 10h)
          \hE4, \h11, \h86, \hC4, \hE4, \h10,  \* in al, 11h; xchg al, ah; in al, 10h
          \hE7, \h20, \h89, \hC5, \hE5, \h20,  \* out 20h, ax; mov bp, ax; in ax, 20h
          \hBE, \h00, \h00, \h6E, \h4A, \hEC,  \* mov si, 0; outsb; dec dx; in al, dx
          \hBF, \h40, \h00, \hB9, \h02, \h00, \hF3, \h6D >>  \* rep insw at 40h
  @@ "flags" :>
       << \h9F, \h88, \hE1, \h80, \hF4, \hD5, \h9E, \h9F,  \* lahf; mov cl, ah; xor ah, 0d5h; sahf; lahf
          \h80, \hF4, \hD5, \h9E,   \* xor ah, 0d5h; sahf
          \hF5, \hD6, \hF5, \hB7, \h00,  \* cmc; salc; cmc; mov bh, 0
          \h62, \h1E, \h00, \h00,   \* bound bx, [0]
          \hD8, \hC0,               \* esc
          \hFE, \hF8, \hFE, \hD0,   \* fe /7: invalid opcode; fe /2: ignored
          \h26, \h26, \h26, \h26, \h26, \h26, \h26, \h26, \h26, \h26, \h26,
          \h26, \h26, \h26, \h42 >>  \* 14 prefixes; inc dx

(* The handlers at 0200: vectors 0 (repair BX and retry), 1 and 2, 3 to 6  *)
(* and 9 (count), and the device's vector (count, disturb and restore).    *)
Handlers ==
     0 :> << \hBB, \h01, \h00, \hCF >>                          \* mov bx, 1; iret
  @@ 16 :> << \h2E, \hFE, \h06, \h81, \h00, \hCF >>             \* inc cs:[81h]; iret
  @@ 32 :> << \h2E, \hFE, \h06, \h82, \h00, \hCF >>             \* inc cs:[82h]; iret
  @@ 48 :> << \h2E, \hFE, \h06, \h83, \h00, \hCF >>             \* inc cs:[83h]; iret
  @@ 64 :> << \h2E, \hFE, \h06, \h84, \h00,                     \* inc cs:[84h]
              \h50, \h29, \hC0, \hFD, \h58, \hCF >>             \* push ax; sub ax, ax; std; pop ax; iret

HandlerOf == 0 :> 0 @@ 1 :> 16 @@ 2 :> 32 @@ 3 :> 48 @@ 4 :> 48 @@ 5 :> 48
             @@ 6 :> 48 @@ 9 :> 48 @@ 8 :> 64

Bytes(base, code) == [a \in base .. base + Len(code) - 1 |-> code[a - base + 1]]
WordAt(a, v) == a :> v % 256 @@ a + 1 :> v \div 256

(* Memory: the vector table, the handlers, the program, and data: the      *)
(* input, a far pointer at 8 and the bounds -8 and -4 at 0ch.              *)
Image(p, in) ==
  LET vectors == [a \in UNION {4 * v .. 4 * v + 3 : v \in DOMAIN HandlerOf} |->
                    CASE a % 4 = 0 -> HandlerOf[a \div 4]
                      [] a % 4 = 3 -> 2 [] OTHER -> 0]
      handlers == [a \in UNION {8192 + h .. 8192 + h + Len(Handlers[h]) - 1 :
                                  h \in DOMAIN Handlers} |->
                     LET h == CHOOSE h \in DOMAIN Handlers :
                                a \in 8192 + h .. 8192 + h + Len(Handlers[h]) - 1
                     IN Handlers[h][a - 8192 - h + 1]]
      data == WordAt(12288, in[1]) @@ WordAt(12290, in[2])
              @@ WordAt(12296, 24) @@ WordAt(12298, 256)
              @@ WordAt(12300, 65528) @@ WordAt(12302, 65532)
  IN Bytes(4096, Code[p]) @@ vectors @@ handlers @@ data

Loaded(in) ==
  "AX" :> in[1] @@ "BX" :> in[2] @@ "CS" :> 256 @@ "DS" :> 768 @@ "ES" :> 768
  @@ "SS" :> 1024 @@ "DX" :> 1024 @@ "SP" :> 64

(* Program p and its input loaded into the machine s after a reset. *)
Load(s, p, in) ==
  [s EXCEPT !.reg = Loaded(in) @@ @, !.fl = {"IF"}, !.mem = Image(p, in),
            !.io = [port \in {16, 17} |-> 0]]

AtEnd(p, regs) == regs.CS = 256 /\ regs.IP = Len(Code[p])
Ended == AtEnd(prog, reg_file)
Done == Ended /\ (input = InterruptedInput => ref # << >>)

PowerOn ==
  [reg |-> [r \in Registers |-> 0], fl |-> {}, mem |-> << >>, io |-> << >>,
   width |-> Word, inh |-> FALSE, nmi |-> FALSE, irq |-> 0, ack |-> << >>]

Init ==
  /\ \/ prog \in Programs /\ input \in Inputs /\ M = Byte /\ x = 0 /\ y = 1 /\ c = 0
     \/ prog = "none" /\ input = <<0, 0>> /\ OperandsInit
  /\ ref = << >>
  /\ \E s \in {Load(PowerOn, prog, input)} :
       /\ reg_file = s.reg /\ flags = s.fl /\ mem = s.mem /\ io = s.io
       /\ modrm_width = s.width /\ ext_int_inhibit = s.inh
       /\ nmi_pending = s.nmi /\ pending_irq = s.irq /\ acked = s.ack
  /\ raised = [irq |-> 0, nmi |-> 0]

Run == ~Ended /\ Step /\ UNCHANGED <<prog, input, ref>>

(* What the handlers count, and where they and the program's own pushes    *)
(* may write: below the two stack tops of the programs.                    *)
Scratch == 8321 .. 8324 \cup 12640 .. 12671 \cup 16416 .. 16447
Visible == [addr \in DOMAIN mem \ Scratch |-> mem[addr]]
Observed == <<reg_file, flags, io, Visible>>

(* The uninterrupted run is over: its outcome is kept, the machine is      *)
(* reset and the program loaded again.                                     *)
Restart ==
  /\ input = InterruptedInput /\ Ended /\ ref = << >>
  /\ ref' = Observed
  /\ \E s \in {Load(reset(Machine), prog, input)} : Becomes(s)
  /\ UNCHANGED <<raised, prog, input>>

Irq(n) ==
  /\ ref # << >> /\ ~Ended
  /\ raise_irq(n)
  /\ UNCHANGED <<prog, input, ref>>
Nmi ==
  /\ ref # << >> /\ ~Ended
  /\ raise_nmi
  /\ UNCHANGED <<prog, input, ref>>

RunProgram == Run \/ Restart \/ Nmi \/ \E n \in IrqNumbers : Irq(n)
Walk == prog = "none" /\ NextOperand

Next == (RunProgram /\ UNCHANGED operand_vars) \/ (Walk /\ UNCHANGED program_vars)

(* The simulator's loop calls step again and again.  This is weak fairness *)
(* of Run and Restart, one of which is enabled until Done, and which are   *)
(* the actions of a program that leave raised alone.                       *)
Fairness ==
  []<>Done \/ []<><<raised' = raised>>_mcvars
Spec == Init /\ [][Next]_mcvars /\ Fairness

-----------------------------------------------------------------------------
(* What the handlers counted. *)
Traps == Read(Machine, Byte, 8321)
Nmis == Read(Machine, Byte, 8322)
Exceptions == Read(Machine, Byte, 8323)
Irqs == Read(Machine, Byte, 8324)

(* An IRQ or an NMI taken between any two instructions, nested in any      *)
(* order, in the middle of a stack switch or under single stepping, leaves *)
(* no trace in registers, flags, ports or memory of the interrupted        *)
(* program, and neither does what ran before the reset: the outcome is     *)
(* that of the uninterrupted run (EmulatorPimpl::step, handle_irq,         *)
(* handle_nmi, reset, iretcf and the inhibition after a load of SS).       *)
InterruptsTransparent == Ended /\ ref # << >> => Observed = ref

(* Every request raised is acknowledged and its handler entered exactly    *)
(* once, or is still pending: none is lost to the other or taken again.    *)
InterruptsServedOnce ==
  Ended =>
    /\ Nmis + (IF nmi_pending THEN 1 ELSE 0) = raised.nmi
    /\ Len(acked) = Irqs
    /\ Irqs + (IF pending_irq # 0 THEN 1 ELSE 0) = raised.irq

(* The single-step trap is taken once after each of the eight instructions *)
(* that start with TF set and do not load SS, whatever interrupts arrive,  *)
(* and at most once more for each interrupt entered while tracing.         *)
EveryInstructionTraced ==
  Ended /\ prog = "trap" => Traps \in 8 .. 8 + Nmis + Irqs

a == input[1]
b == input[2]
DataWord(off) == Read(Machine, Word, 12288 + off)
MaxOf(u, v) == IF u >= v THEN u ELSE v

(* Sequences of instructions that undo each other restore their operand,   *)
(* through every operand form, at both widths and for every input.         *)
InverseInstructionsCancel ==
  Ended =>
    CASE prog = "arith" -> reg_file.AX = a /\ reg_file.CX = a
                           /\ "ZF" \in flags /\ "CF" \notin flags
      [] prog = "immediate" -> reg_file.AX = a /\ ("ZF" \in flags <=> a = 5)
                               /\ ("CF" \in flags <=> a < 5)
      [] prog = "multiply" -> reg_file.SI = 0 /\ reg_file.DI = a
                              /\ reg_file.AX = reg_file.BP /\ reg_file.DX = 0
      [] prog = "bytes" -> /\ reg_file.CX = 257 * (a % 256)
                           /\ reg_file.AX = sign_extend(Byte, a % 256) % Word
                           /\ reg_file.DX = IF a % 256 >= 128 THEN 65535 ELSE 0
      [] prog = "shifts" -> /\ reg_file.BX = a /\ reg_file.AX = 0
                            /\ (2 * reg_file.DX) % Word = (2 * a) % Word
                            /\ BitSet(reg_file.DX, 32768) = BitSet(a, 16384)
      [] prog = "flags" -> reg_file.CX % 256 = 2 /\ flags \cap {"CF", "DF", "TF"} = {}
                           /\ reg_file.BX = b % 256
      [] OTHER -> TRUE

(* Calls, returns, software interrupts, frames and pushes leave the stack  *)
(* pointer where it was and deliver every word to where it was meant for.  *)
StackDiscipline ==
  Ended =>
    CASE prog = "stack" ->
           /\ reg_file.AX = b /\ reg_file.BX = a /\ flags = {"IF"}
           /\ reg_file.SP = 64 /\ reg_file.BP = 62
           /\ reg_file.CX = 4660 /\ reg_file.DX = 65534
           /\ DataWord(16) = a /\ reg_file.ES = reg_file.DS
      [] prog = "calls" -> /\ reg_file.AX = (a + 7) % Word /\ reg_file.SP = 64
                           /\ Exceptions = 3 /\ reg_file.BX = b
      [] prog = "switch" -> /\ reg_file.CX = 784 /\ reg_file.SS = 784
                            /\ reg_file.SP = 128 /\ "IF" \in flags
      [] prog = "trap" -> reg_file.BX = (b + 2) % Word /\ "TF" \notin flags
      [] OTHER -> TRUE

(* Loops run as often as they count; signed and unsigned jumps choose the  *)
(* larger operand; repeated string instructions, addressing modes and      *)
(* ports move exactly the data their registers name.                       *)
DataReachesDestination ==
  Ended =>
    CASE prog = "loops" ->
           /\ reg_file.DX = (3 * a) % Word /\ reg_file.CX = 0
           /\ sign_extend(Word, reg_file.SI) = MaxOf(sign_extend(Word, a), sign_extend(Word, b))
           /\ reg_file.DI = MaxOf(a, b)
      [] prog = "strings" ->
           /\ DataWord(32) = a /\ DataWord(36) = a /\ DataWord(38) = a
           /\ DataWord(34) = 256 * (a \div 256)
           /\ reg_file.BX = a /\ reg_file.AX = 0 /\ reg_file.CX = 7
           /\ reg_file.SI = 41 /\ reg_file.DI = 35
      [] prog = "addressing" ->
           /\ reg_file.AX = a % 256 /\ reg_file.CX = a /\ reg_file.DX = a
           /\ reg_file.DS = 768 /\ reg_file.SI = 94 /\ DataWord(58) = a % 256
      [] prog = "ports" ->
           /\ reg_file.BP = a /\ reg_file.AX = a % 256 /\ reg_file.CX = 0
           /\ DataWord(64) = 257 * (a % 256) /\ DataWord(66) = DataWord(64)
      [] OTHER -> TRUE

(* Every program reaches its end, whatever interrupts arrive: step always  *)
(* completes, and no handler is entered again without end.                 *)
ProgramsFinish == <>[]Done
=============================================================================
