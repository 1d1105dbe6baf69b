--------------------------- MODULE Instructions ----------------------------
(***************************************************************************)
(* The C++ instruction-set model (sim/cppmodel): operand fetch, the        *)
(* handlers of instructions/*.cpp and the opcode dispatch of Emulate.cpp,  *)
(* as functions from a machine state to the next.  A machine state s has   *)
(*   reg    the 16-bit registers       fl    the set of flags              *)
(*   mem    the bytes ever written; the others are zero                    *)
(*   io     the bytes behind the registered I/O ports                      *)
(*   width  the width the ModR/M decoder was last set to, as a modulus     *)
(*   inh    ext_int_inhibit            nmi, irq   the pending interrupts   *)
(*   ack    the interrupt numbers acknowledged so far                      *)
(* and, for the instruction at hand, len (instr_length), jump (jump_taken),*)
(* rm (the decoded ModR/M byte), seg (override) and rep (prefix).          *)
(***************************************************************************)
EXTENDS ALU, Sequences, TLC, FiniteSetsExt

Byte == 256
Word == 65536

-----------------------------------------------------------------------------
(* RegisterFile and Memory. *)

GPRs == <<"AX", "CX", "DX", "BX", "SP", "BP", "SI", "DI">>
ByteRegs == <<"AL", "CL", "DL", "BL", "AH", "CH", "DH", "BH">>
SegmentRegs == <<"ES", "CS", "SS", "DS">>
Registers == {"AX", "CX", "DX", "BX", "SP", "BP", "SI", "DI",
              "ES", "CS", "SS", "DS", "IP"}
LowOf == [AL |-> "AX", CL |-> "CX", DL |-> "DX", BL |-> "BX"]
HighOf == [AH |-> "AX", CH |-> "CX", DH |-> "DX", BH |-> "BX"]

get(s, r) ==
  CASE r \in DOMAIN LowOf -> s.reg[LowOf[r]] % 256
    [] r \in DOMAIN HighOf -> s.reg[HighOf[r]] \div 256
    [] OTHER -> s.reg[r]

set(s, r, v) ==
  CASE r \in DOMAIN LowOf ->
         [s EXCEPT !.reg[LowOf[r]] = 256 * (@ \div 256) + (v % 256)]
    [] r \in DOMAIN HighOf ->
         [s EXCEPT !.reg[HighOf[r]] = (@ % 256) + 256 * (v % 256)]
    [] OTHER -> [s EXCEPT !.reg[r] = v % Word]

(* The accumulator and the register numbered n, of the given width. *)
Acc(M) == IF M = Byte THEN "AL" ELSE "AX"
RegName(M, n) == IF M = Byte THEN ByteRegs[n + 1] ELSE GPRs[n + 1]

(* The flags word: bit weights, with bit 1 and bits 12 to 15 stuck at one. *)
FlagBit == "CF" :> 1 @@ "PF" :> 4 @@ "AF" :> 16 @@ "ZF" :> 64 @@ "SF" :> 128
           @@ "TF" :> 256 @@ "IF" :> 512 @@ "DF" :> 1024 @@ "OF" :> 2048
FLAGS_STUCK_BITS == 61442
get_flags(fl) == FLAGS_STUCK_BITS + MapThenSumSet(LAMBDA f : FlagBit[f], fl)
FlagsFrom(v) == {f \in Flags : BitSet(v, FlagBit[f])}

get_phys_addr(segment, displacement) == (16 * segment + displacement) % 1048576

ReadByte(s, a) == IF a \in DOMAIN s.mem THEN s.mem[a] ELSE 0
Read(s, M, a) ==
  IF M = Byte THEN ReadByte(s, a) ELSE ReadByte(s, a) + 256 * ReadByte(s, a + 1)
Write(s, M, a, v) ==
  [s EXCEPT !.mem = (IF M = Byte THEN a :> v % 256
                     ELSE (a :> v % 256) @@ (a + 1 :> (v \div 256) % 256)) @@ @]

-----------------------------------------------------------------------------
(* Fetching: fetch_byte and fetch_16bit are a value and a longer           *)
(* instruction.  The offset is not reduced modulo 2^16.                    *)

FetchAddr(s) == get_phys_addr(s.reg.CS, s.reg.IP + s.len)
fetch_byte(s) == ReadByte(s, FetchAddr(s))
fetch_16bit(s) == Read(s, Word, FetchAddr(s))
Skip(s, n) == [s EXCEPT !.len = @ + n]
Immediate(s, M) == IF M = Byte THEN fetch_byte(s) ELSE fetch_16bit(s)
SkipImmediate(s, M) == Skip(s, IF M = Byte THEN 1 ELSE 2)
NextIP(s) == s.reg.IP + s.len

NoModRM == [valid |-> FALSE, mod |-> 3, reg |-> 0, rm |-> 0, ea |-> 0]

set_width(s, M) == [s EXCEPT !.width = M]

(* ModRMDecoder::decode: the byte and its displacement are consumed and    *)
(* the effective address is computed at once.                              *)
decode(s) ==
  LET b == fetch_byte(s)
      mod == b \div 64
      rm == b % 8
      direct == mod = 0 /\ rm = 6
      d == Skip(s, 1)
      base == CASE mod = 3 \/ direct -> 0
                [] rm = 0 -> s.reg.BX + s.reg.SI
                [] rm = 1 -> s.reg.BX + s.reg.DI
                [] rm = 2 -> s.reg.BP + s.reg.SI
                [] rm = 3 -> s.reg.BP + s.reg.DI
                [] rm = 4 -> s.reg.SI
                [] rm = 5 -> s.reg.DI
                [] rm = 6 -> s.reg.BP
                [] rm = 7 -> s.reg.BX
      disp == CASE mod = 1 -> sign_extend(Byte, fetch_byte(d))
                [] mod = 2 \/ direct -> fetch_16bit(d)
                [] OTHER -> 0
      size == CASE mod = 1 -> 1 [] mod = 2 \/ direct -> 2 [] OTHER -> 0
  IN [Skip(d, size) EXCEPT
        !.rm = [valid |-> TRUE, mod |-> mod, reg |-> (b \div 8) % 8, rm |-> rm,
                ea |-> (base + disp) % Word]]

decode_w(s, M) == decode(set_width(s, M))
is_reg(s) == s.rm.mod = 3
reg(s) == RegName(s.width, s.rm.reg)
uses_bp_as_base(s) ==
  s.rm.valid /\ s.rm.mod # 3
  /\ (s.rm.rm \in {2, 3} \/ (s.rm.mod # 0 /\ s.rm.rm = 6))

get_segment(s) ==
  IF s.seg # "none" THEN s.seg ELSE IF uses_bp_as_base(s) THEN "SS" ELSE "DS"
DataAddr(s, off) == get_phys_addr(s.reg[get_segment(s)], off)
ExtraAddr(s) == get_phys_addr(s.reg.ES, s.reg.DI)

read_data(s) ==
  IF is_reg(s) THEN get(s, RegName(s.width, s.rm.rm))
  ELSE Read(s, s.width, DataAddr(s, s.rm.ea))
write_data(s, v) ==
  IF is_reg(s) THEN set(s, RegName(s.width, s.rm.rm), v)
  ELSE Write(s, s.width, DataAddr(s, s.rm.ea), v)

(* The second word of a far pointer in memory. *)
FarSegment(s) == Read(s, Word, DataAddr(s, s.rm.ea) + 2)

-----------------------------------------------------------------------------
(* The stack, jumps and interrupt entry. *)

push_word(s, v) ==
  LET t == set(s, "SP", s.reg.SP - 2)
  IN Write(t, Word, get_phys_addr(t.reg.SS, t.reg.SP), v)

Top(s) == Read(s, Word, get_phys_addr(s.reg.SS, s.reg.SP))
Drop(s) == set(s, "SP", s.reg.SP + 2)
pop_word(s, r) == set(Drop(s), r, Top(s))

Jump(s, ip) == [set(s, "IP", ip) EXCEPT !.jump = TRUE]
JumpFar(s, cs, ip) == Jump(set(s, "CS", cs), ip)

(* Entry through vector n with return address ip: flags, CS and IP are     *)
(* pushed, IF and TF cleared, and the vector is read after the pushes.     *)
Vector(s, n, ip) ==
  LET pushed == push_word(push_word(push_word(s, get_flags(s.fl)), s.reg.CS), ip)
  IN JumpFar([pushed EXCEPT !.fl = @ \ {"IF", "TF"}],
             Read(pushed, Word, 4 * n + 2), Read(pushed, Word, 4 * n))

invalid_opcode(s) == Vector(s, 6, NextIP(s))
DivideError(s) == Vector(s, 0, s.reg.IP)

-----------------------------------------------------------------------------
(* Arithmetic instructions: operands of opcode op, then the result. *)

Alu(k, M, fl, d, v) ==
  CASE k = 0 -> add(M, fl, d, v)
    [] k = 1 -> or(M, fl, d, v)
    [] k = 2 -> adc(M, fl, d, v)
    [] k = 3 -> sbb(M, fl, d, v)
    [] k = 4 -> and(M, fl, d, v)
    [] k = 5 -> sub(M, fl, d, v)
    [] k = 6 -> xor(M, fl, d, v)
    [] k = 7 -> cmp(M, fl, d, v)

WidthOf(op) == IF op % 2 = 0 THEN Byte ELSE Word

(* Opcodes 0x00 to 0x3d: r/m with r, r with r/m, accumulator with          *)
(* immediate.                                                              *)
arithmetic(s, op) ==
  LET M == WidthOf(op)
      k == op \div 8
      t == decode_w(s, M)
  IN CASE op % 8 \in {0, 1} ->
            LET r == Alu(k, M, s.fl, read_data(t), get(t, reg(t)))
            IN write_data([t EXCEPT !.fl = r.fl], r.val)
       [] op % 8 \in {2, 3} ->
            LET r == Alu(k, M, s.fl, get(t, reg(t)), read_data(t))
            IN set([t EXCEPT !.fl = r.fl], reg(t), r.val)
       [] OTHER ->
            LET r == Alu(k, M, s.fl, get(s, Acc(M)), Immediate(s, M))
            IN set([SkipImmediate(s, M) EXCEPT !.fl = r.fl], Acc(M), r.val)

(* Opcodes 0x80 to 0x83: r/m with immediate; 0x83 sign extends a byte. *)
group80(s, op) ==
  LET M == WidthOf(op)
      t == decode_w(s, M)
      size == IF op = 131 THEN Byte ELSE M
      v == IF op = 131 THEN sign_extend(Byte, fetch_byte(t)) % Word
           ELSE Immediate(t, M)
      r == Alu(t.rm.reg, M, s.fl, read_data(t), v)
  IN write_data([SkipImmediate(t, size) EXCEPT !.fl = r.fl], r.val)

(* test r/m with r (0x84), accumulator with immediate (0xa8), r/m with     *)
(* immediate (0xf6 /0, after decode).                                      *)
test_rm_r(s, M) ==
  LET t == decode_w(s, M)
  IN [t EXCEPT !.fl = test(M, @, read_data(t), get(t, reg(t))).fl]
test_acc(s, M) ==
  [SkipImmediate(s, M) EXCEPT !.fl = test(M, @, get(s, Acc(M)), Immediate(s, M)).fl]
test_imm(t, M) ==
  [SkipImmediate(t, M) EXCEPT !.fl = test(M, @, read_data(t), Immediate(t, M)).fl]

SetReg(s, r, o) == set([s EXCEPT !.fl = o.fl], r, o.val)
SetData(s, o) == write_data([s EXCEPT !.fl = o.fl], o.val)

(* The high half of the double-width accumulator: AH or DX. *)
High(M) == IF M = Byte THEN "AH" ELSE "DX"

SetProduct(s, M, o) == set(set([s EXCEPT !.fl = o.fl], Acc(M), o.lo), High(M), o.hi)

Divided(s, M, o) ==
  IF ~o.ok THEN DivideError(s)
  ELSE set(set(s, High(M), o.r), Acc(M), o.q)

(* Opcodes 0xf6 and 0xf7. *)
neg_mul_not_test_div(s, M) ==
  LET t == decode_w(s, M)
      v == read_data(t)
      k == t.rm.reg
  IN CASE k \in {0, 1} -> test_imm(t, M)
       [] k = 2 -> write_data(t, not(M, v))
       [] k = 3 -> SetData(t, neg(M, t.fl, v))
       [] k = 4 -> SetProduct(t, M, mul(M, t.fl, v, get(t, Acc(M))))
       [] k = 5 -> SetProduct(t, M, imul(M, t.fl, v, get(t, Acc(M))))
       [] k = 6 -> Divided(t, M, div(M, get(t, High(M)), get(t, Acc(M)), v))
       [] k = 7 -> Divided(t, M, idiv(M, get(t, High(M)), get(t, Acc(M)), v))

(* Opcodes 0x69 and 0x6b: the product of r/m and an immediate. *)
imul_immediate(s, size) ==
  LET t == decode_w(s, Word)
      o == imul(Word, t.fl, read_data(t),
                sign_extend(size, Immediate(t, size)) % Word)
  IN set([SkipImmediate(t, size) EXCEPT !.fl = o.fl], reg(t), o.lo)

(* Opcodes 0xfe and 0x40 to 0x4f. *)
inc_dec_fe(s) ==
  LET t == decode_w(s, Byte)
  IN CASE t.rm.reg = 7 -> invalid_opcode(t)
       [] t.rm.reg = 0 -> SetData(t, inc(Byte, t.fl, read_data(t)))
       [] t.rm.reg = 1 -> SetData(t, dec(Byte, t.fl, read_data(t)))
       [] OTHER -> t

(* Adjustments: AL, AH and the flags of the result o. *)
Adjusted(s, o) == set(set([s EXCEPT !.fl = o.fl], "AL", o.al), "AH", o.ah)
AdjustedAL(s, o) == set([s EXCEPT !.fl = o.fl], "AL", o.al)

aamd4(s) ==
  LET t == Skip(s, 1)
  IN IF fetch_byte(s) = 0 THEN DivideError(t)
     ELSE Adjusted(t, aam(s.fl, get(s, "AL"), fetch_byte(s)))

cbw98(s) == set(s, "AX", sign_extend(Byte, get(s, "AL")))
cwd99(s) == set(s, "DX", IF s.reg.AX >= 32768 THEN 65535 ELSE 0)

-----------------------------------------------------------------------------
(* Shifts and rotates of r/m by one, by CL, or by an immediate.  t is the  *)
(* state after decode and operand fetch, r the result of the n steps, and  *)
(* mask the flags it writes beside OF, which only a shift by one writes.   *)
(* An immediate count is reduced modulo 32 before it is tested for zero,   *)
(* the count in CL is not.                                                 *)

Shifted(t, n, r, mask, one) ==
  IF n = 0 THEN t
  ELSE write_data([t EXCEPT !.fl = set_flags(@, r.fl, mask \cup When(one, "OF"))],
                  r.val)

Rotated == {"CF"}
ShiftedOut == {"CF", "ZF", "PF", "SF"}

rol(t, n, one) == Shifted(t, n, do_rol(t.width, read_data(t), n), Rotated, one)
ror(t, n, one) == Shifted(t, n, do_ror(t.width, read_data(t), n), Rotated, one)
rcl(t, n, one) ==
  Shifted(t, n, do_rcl(t.width, read_data(t), n, "CF" \in t.fl), Rotated, one)
rcr(t, n, one) ==
  Shifted(t, n, do_rcr(t.width, read_data(t), n, "CF" \in t.fl), Rotated, one)
shl(t, n, one) == Shifted(t, n, do_shl(t.width, read_data(t), n), ShiftedOut, one)
shr(t, n, one) == Shifted(t, n, do_shr(t.width, read_data(t), n), ShiftedOut, one)
sar(t, n, one) == Shifted(t, n, do_sar(t.width, read_data(t), n), ShiftedOut, one)

shift(t, n, one) ==
  LET k == t.rm.reg
  IN CASE k = 0 -> rol(t, n, one)
       [] k = 1 -> ror(t, n, one)
       [] k = 2 -> rcl(t, n, one)
       [] k = 3 -> rcr(t, n, one)
       [] k \in {4, 6} -> shl(t, n, one)
       [] k = 5 -> shr(t, n, one)
       [] k = 7 -> sar(t, n, one)

shift_imm(s, M) ==
  LET t == decode_w(s, M) IN shift(Skip(t, 1), fetch_byte(t) % 32, FALSE)
shift_one(s, M) == shift(decode_w(s, M), 1, TRUE)
shift_cl(s, M) == LET t == decode_w(s, M) IN shift(t, get(t, "CL"), FALSE)
=============================================================================
