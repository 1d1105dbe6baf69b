--------------------------- MODULE InstructionSet ---------------------------
(***************************************************************************)
(* The remaining instructions of the C++ model (data movement, the stack,  *)
(* control transfer, strings, I/O and flags) and emulate_insn, the decode  *)
(* and dispatch of one instruction (Emulate.cpp:592-847).                  *)
(***************************************************************************)
EXTENDS Instructions

CONSTANTS TrapEscape,   \* S80X86_TRAP_ESCAPE: ESC opcodes take vector 7
          MaxPrefixes   \* bound on the prefix bytes looked at

ASSUME ConfigAssumption == TrapEscape \in BOOLEAN /\ MaxPrefixes \in Nat

-----------------------------------------------------------------------------
(* Moves and exchanges. *)

mov_rm(s, op) ==
  LET t == decode_w(s, WidthOf(op))
  IN IF op \in {136, 137} THEN write_data(t, get(t, reg(t)))
     ELSE set(t, reg(t), read_data(t))

mov_rm_imm(s, M) ==
  LET t == decode_w(s, M)
  IN IF t.rm.reg = 0 THEN write_data(SkipImmediate(t, M), Immediate(t, M)) ELSE t

mov_reg_imm(s, M, n) == set(SkipImmediate(s, M), RegName(M, n), Immediate(s, M))

(* The accumulator and a direct address; the ModR/M decoder is cleared.    *)
mov_moffs(s, op) ==
  LET M == WidthOf(op)
      t == Skip(s, 2)
      a == DataAddr(s, fetch_16bit(s))
  IN IF op \in {160, 161} THEN set(t, Acc(M), Read(s, M, a))
     ELSE Write(t, M, a, get(s, Acc(M)))

SegmentNumbered(n) == SegmentRegs[(n % 4) + 1]

mov8e(s) ==
  LET t == decode_w(s, Word)
  IN [set(t, SegmentNumbered(t.rm.reg), read_data(t)) EXCEPT !.inh = TRUE]

mov8c(s) ==
  LET t == decode_w(s, Word) IN write_data(t, get(t, SegmentNumbered(t.rm.reg)))

xchg_rm(s, M) ==
  LET t == decode_w(s, M)
  IN set(write_data(t, get(t, reg(t))), reg(t), read_data(t))
xchg_acc(s, r) == set(set(s, "AX", get(s, r)), r, s.reg.AX)

lea8d(s) == LET t == decode_w(s, Word)
            IN IF is_reg(t) THEN t ELSE set(t, reg(t), t.rm.ea)

(* lds and les: a far pointer in memory into a register and segment. *)
load_far(s, segment) ==
  LET t == decode_w(s, Word)
  IN IF is_reg(t) THEN t
     ELSE set(set(t, reg(t), read_data(t)), segment, FarSegment(t))

xlatd7(s) == set(s, "AL", ReadByte(s, DataAddr(s, s.reg.BX + get(s, "AL"))))
setalcd6(s) == set(s, "AL", IF "CF" \in s.fl THEN 255 ELSE 0)
lahf9f(s) == set(s, "AH", get_flags(s.fl))
sahf9e(s) == [s EXCEPT !.fl = set_flags(@, FlagsFrom(get(s, "AH")),
                                        {"CF", "PF", "AF", "ZF", "SF"})]

-----------------------------------------------------------------------------
(* The stack. *)

(* The stack pointer is decremented before the register is read. *)
push_reg(s, r) == push_word(s, get(set(s, "SP", s.reg.SP - 2), r))

(* pushff: after decode. *)
pushff(t) == push_word(t, read_data(set(t, "SP", t.reg.SP - 2)))

push68(s) == push_word(Skip(s, 2), fetch_16bit(s))
push6a(s) == push_word(Skip(s, 1), sign_extend(Byte, fetch_byte(s)) % Word)
pushf9c(s) == push_word(s, get_flags(s.fl))

PushAll(s, rs) == Repeat(Len(rs), [s |-> s, i |-> 1],
  LAMBDA p : [s |-> push_word(p.s, s.reg[rs[p.i]]), i |-> p.i + 1]).s
pusha60(s) == PushAll(s, <<"AX", "CX", "DX", "BX", "SP", "BP", "SI", "DI">>)

(* Mutant of popa61: the saved stack pointer is loaded. *)
popa61_loads_sp(s) ==
  pop_word(pop_word(pop_word(pop_word(pop_word(pop_word(pop_word(pop_word(s,
    "DI"), "SI"), "BP"), "SP"), "BX"), "DX"), "CX"), "AX")

popa61(s) ==
  pop_word(pop_word(pop_word(pop_word(Drop(pop_word(pop_word(pop_word(s,
    "DI"), "SI"), "BP")), "BX"), "DX"), "CX"), "AX")

pop8f(s) == LET t == decode_w(s, Word)
            IN IF t.rm.reg # 0 THEN t ELSE write_data(Drop(t), Top(t))

(* Mutant of popsr: external interrupts are not held off. *)
popsr_interruptible(s, r) == pop_word(s, r)

popsr(s, r) == [pop_word(s, r) EXCEPT !.inh = TRUE]
popf9d(s) == [Drop(s) EXCEPT !.fl = FlagsFrom(Top(s))]

(* ENTER copies nest-1 frame pointers of the enclosing frames. *)
enterc8(s) ==
  LET size == fetch_16bit(s)
      nest == fetch_byte(Skip(s, 2)) % 32
      t == push_word(Skip(s, 3), s.reg.BP)
      frame == t.reg.SP
      copied == Repeat(IF nest = 0 THEN 0 ELSE nest - 1, t,
        LAMBDA p : LET q == set(p, "BP", p.reg.BP - 2)
                   IN push_word(q, Read(q, Word, get_phys_addr(q.reg.SS, q.reg.BP))))
      linked == IF nest = 0 THEN copied ELSE push_word(copied, frame)
  IN set(set(linked, "BP", frame), "SP", linked.reg.SP - size)

leavec9(s) == pop_word(set(s, "SP", s.reg.BP), "BP")

-----------------------------------------------------------------------------
(* Control transfer. *)

Relative(s, M) ==
  LET t == SkipImmediate(s, M)
  IN Jump(t, NextIP(t) + sign_extend(M, Immediate(s, M)))
RelativeIf(s, condition) == IF condition THEN Relative(s, Byte) ELSE Skip(s, 1)

jcc(s, code) == RelativeIf(s, taken(code, s.fl))

(* Mutant of LoopWhile: the count is tested but not kept. *)
LoopWhile_uncounted(s, Continue) == RelativeIf(s, s.reg.CX - 1 # 0 /\ Continue)

(* loopnz, loope and loop: Continue is what the opcode asks beside CX. *)
LoopWhile(s, Continue) ==
  LET t == set(s, "CX", s.reg.CX - 1) IN RelativeIf(t, t.reg.CX # 0 /\ Continue)
loopnze0(s) == LoopWhile(s, "ZF" \notin s.fl)
loopee1(s) == LoopWhile(s, "ZF" \in s.fl)
loope2(s) == LoopWhile(s, TRUE)
jcxze3(s) == RelativeIf(s, s.reg.CX = 0)

jmpea(s) == JumpFar(s, fetch_16bit(Skip(s, 2)), fetch_16bit(s))
jmpff_inter(t) ==
  IF is_reg(t) THEN t ELSE JumpFar(t, FarSegment(t), read_data(t))

calle8(s) ==
  LET t == Skip(s, 2)
  IN Jump(push_word(t, NextIP(t)), NextIP(t) + fetch_16bit(s))
callff_intra(t) == Jump(push_word(t, NextIP(t)), read_data(t))
callff_inter(t) ==
  LET p == push_word(push_word(t, t.reg.CS), NextIP(t))
  IN IF is_reg(t) THEN t ELSE JumpFar(p, FarSegment(p), read_data(p))
call9a(s) ==
  LET t == Skip(s, 4)
  IN JumpFar(push_word(push_word(t, t.reg.CS), NextIP(t)),
             fetch_16bit(Skip(s, 2)), fetch_16bit(s))

(* Near and far returns that drop n more bytes. *)
RetNear(s, n) == set(Jump(Drop(s), Top(s)), "SP", s.reg.SP + 2 + n)
RetFar(s, n) ==
  set(JumpFar(Drop(Drop(s)), Top(Drop(s)), Top(s)), "SP", s.reg.SP + 4 + n)
ret(s, op) ==
  CASE op = 195 -> RetNear(s, 0)
    [] op = 194 -> RetNear(s, fetch_16bit(s))
    [] op = 203 -> RetFar(s, 0)
    [] op = 202 -> RetFar(s, fetch_16bit(s))

iretcf(s) == [Drop(RetFar(s, 0)) EXCEPT !.fl = FlagsFrom(Top(Drop(Drop(s))))]

intcc(s) == Vector(s, 3, NextIP(s))
intcd(s) == LET t == Skip(s, 1) IN Vector(t, fetch_byte(s), NextIP(t))
intoce(s) == IF "OF" \in s.fl THEN Vector(s, 4, NextIP(s)) ELSE s

(* bound62 and escd8 decode with the width some earlier instruction set.   *)
bound62(s) ==
  LET t == decode(s)
      a == DataAddr(t, t.rm.ea)
      v == sign_extend(Word, get(t, reg(t)))
  IN CASE is_reg(t) -> invalid_opcode(t)
       [] /\ ~is_reg(t)
          /\ v >= sign_extend(Word, Read(t, Word, a))
          /\ v <= sign_extend(Word, Read(t, Word, a + 2)) -> t
       [] OTHER -> Vector(t, 5, NextIP(t))

escd8(s) == LET t == decode(s) IN IF TrapEscape THEN Vector(t, 7, t.reg.IP) ELSE t

(* Opcode 0xff. *)
push_inc_jmp_call_ff(s) ==
  LET t == decode_w(s, Word)
      k == t.rm.reg
  IN CASE k = 0 -> SetData(t, inc(Word, t.fl, read_data(t)))
       [] k = 1 -> SetData(t, dec(Word, t.fl, read_data(t)))
       [] k = 2 -> callff_intra(t)
       [] k = 3 -> callff_inter(t)
       [] k = 4 -> Jump(t, read_data(t))
       [] k = 5 -> jmpff_inter(t)
       [] k = 6 -> pushff(t)
       [] k = 7 -> invalid_opcode(t)

-----------------------------------------------------------------------------
(* Strings.  A repeated string instruction runs to its end in one step.    *)

string_rep_complete(s) ==
  s.rep = IF "ZF" \in s.fl THEN "repne" ELSE "repe"

(* The index register r moved by one element, down when DF is set. *)
Advance(s, r, M) ==
  LET size == IF M = Byte THEN 1 ELSE 2
  IN set(s, r, IF "DF" \in s.fl THEN s.reg[r] - size ELSE s.reg[r] + size)

Source(s, M) == Read(s, M, DataAddr(s, s.reg.SI))

(* The primitives: one element each. *)
movs(s, M) == Advance(Advance(Write(s, M, ExtraAddr(s), Source(s, M)), "DI", M), "SI", M)
lods(s, M) == Advance(set(s, Acc(M), Source(s, M)), "SI", M)
stos(s, M) == Advance(Write(s, M, ExtraAddr(s), get(s, Acc(M))), "DI", M)
scas(s, M) ==
  Advance([s EXCEPT !.fl = sub(M, @, get(s, Acc(M)), Read(s, M, ExtraAddr(s))).fl], "DI", M)
cmps(s, M) ==
  Advance(Advance([s EXCEPT !.fl = sub(M, @, Source(s, M), Read(s, M, ExtraAddr(s))).fl],
                  "DI", M), "SI", M)

-----------------------------------------------------------------------------
(* I/O: an unregistered port reads as zero and ignores writes; a 16-bit    *)
(* access is aligned down to an even port.                                 *)

read_io(s, M, port) ==
  LET p == IF M = Byte THEN port ELSE 2 * (port \div 2)
  IN IF p \notin DOMAIN s.io THEN 0
     ELSE s.io[p] + (IF M = Byte THEN 0 ELSE 256 * s.io[p + 1])
write_io(s, M, port, v) ==
  LET p == IF M = Byte THEN port ELSE 2 * (port \div 2)
  IN IF p \notin DOMAIN s.io THEN s
     ELSE IF M = Byte THEN [s EXCEPT !.io[p] = v % 256]
     ELSE [s EXCEPT !.io[p] = v % 256, !.io[p + 1] = v \div 256]

(* The port is an immediate byte in opcodes 0xe4 to 0xe7, otherwise DX.    *)
in_out(s, op) ==
  LET M == WidthOf(op)
      immediate == op < 232
      t == IF immediate THEN Skip(s, 1) ELSE s
      port == IF immediate THEN fetch_byte(s) ELSE s.reg.DX
  IN IF op % 4 < 2 THEN set(t, Acc(M), read_io(s, M, port))
     ELSE write_io(t, M, port, get(s, Acc(M)))

ins(s, M) == Advance(Write(s, M, ExtraAddr(s), read_io(s, M, s.reg.DX)), "DI", M)

(* OUTS reads through DS even under a segment override. *)
outs(s, M) ==
  Advance(write_io(s, M, s.reg.DX, Read(s, M, get_phys_addr(s.reg.DS, s.reg.SI))), "SI", M)

(* What do_rep is called with. *)
primitive(insn, s, M) ==
  CASE insn = "movs" -> movs(s, M) [] insn = "cmps" -> cmps(s, M)
    [] insn = "stos" -> stos(s, M) [] insn = "lods" -> lods(s, M)
    [] insn = "scas" -> scas(s, M) [] insn = "ins" -> ins(s, M)
    [] insn = "outs" -> outs(s, M)
should_terminate(insn, s) == insn \in {"cmps", "scas"} /\ string_rep_complete(s)

(* Mutant of do_rep: the test for the end comes before the count. *)
do_rep_count_last(insn, s, M) ==
  IF s.rep = "none" THEN primitive(insn, s, M)
  ELSE Repeat(s.reg.CX, [s |-> s, go |-> TRUE],
         LAMBDA p : IF ~p.go THEN p
                    ELSE LET q == primitive(insn, p.s, M)
                         IN IF should_terminate(insn, q) THEN [s |-> q, go |-> FALSE]
                            ELSE [s |-> set(q, "CX", q.reg.CX - 1), go |-> TRUE]).s

(* CX is decremented after the primitive and before the test for the end.  *)
do_rep(insn, s, M) ==
  IF s.rep = "none" THEN primitive(insn, s, M)
  ELSE Repeat(s.reg.CX, [s |-> s, go |-> TRUE],
         LAMBDA p : IF ~p.go THEN p
                    ELSE LET q == primitive(insn, p.s, M)
                         IN [s |-> set(q, "CX", q.reg.CX - 1),
                             go |-> ~should_terminate(insn, q)]).s

-----------------------------------------------------------------------------
(* Flag and wait instructions. *)

cmcf5(s) == [s EXCEPT !.fl = IF "CF" \in @ THEN @ \ {"CF"} ELSE @ \cup {"CF"}]
clcf8(s) == [s EXCEPT !.fl = @ \ {"CF"}]
stcf9(s) == [s EXCEPT !.fl = @ \cup {"CF"}]
clifa(s) == [s EXCEPT !.fl = @ \ {"IF"}]
stifb(s) == [s EXCEPT !.fl = @ \cup {"IF"}, !.inh = TRUE]
cldfc(s) == [s EXCEPT !.fl = @ \ {"DF"}]
stdfd(s) == [s EXCEPT !.fl = @ \cup {"DF"}]

(* This model of the processor does not wait. *)
wait9b(s) == s
hltf4(s) == s

-----------------------------------------------------------------------------
(* Dispatch, in the order of the opcodes. *)

LowOpcodes(s, op) ==
  CASE op < 64 /\ op % 8 < 6 -> arithmetic(s, op)
    [] op \in {6, 14, 22, 30} -> push_reg(s, SegmentNumbered(op \div 8))
    [] op \in {7, 23, 31} -> popsr(s, SegmentNumbered(op \div 8))
    [] op \in {15} \cup 99 .. 103 -> invalid_opcode(s)
    [] op = 39 -> AdjustedAL(s, daa(s.fl, get(s, "AL")))
    [] op = 47 -> AdjustedAL(s, das(s.fl, get(s, "AL")))
    [] op = 55 -> Adjusted(s, aaa(s.fl, get(s, "AL"), get(s, "AH")))
    [] op = 63 -> Adjusted(s, aas(s.fl, get(s, "AL"), get(s, "AH")))
    [] op \in 64 .. 71 -> LET r == GPRs[op - 63] IN SetReg(s, r, inc(Word, s.fl, get(s, r)))
    [] op \in 72 .. 79 -> LET r == GPRs[op - 71] IN SetReg(s, r, dec(Word, s.fl, get(s, r)))
    [] op \in 80 .. 87 -> push_reg(s, GPRs[op - 79])
    [] op \in 88 .. 95 -> pop_word(s, GPRs[op - 87])
    [] op = 96 -> pusha60(s)
    [] op = 97 -> popa61(s)
    [] op = 98 -> bound62(s)
    [] op = 104 -> push68(s)
    [] op = 105 -> imul_immediate(s, Word)
    [] op = 106 -> push6a(s)
    [] op = 107 -> imul_immediate(s, Byte)
    [] op \in {108, 109} -> do_rep("ins", s, WidthOf(op))
    [] op \in {110, 111} -> do_rep("outs", s, WidthOf(op))
    [] op \in 112 .. 127 -> jcc(s, op - 112)

MiddleOpcodes(s, op) ==
  CASE op \in 128 .. 131 -> group80(s, op)
    [] op \in {132, 133} -> test_rm_r(s, WidthOf(op))
    [] op \in {134, 135} -> xchg_rm(s, WidthOf(op))
    [] op \in 136 .. 139 -> mov_rm(s, op)
    [] op = 140 -> mov8c(s)
    [] op = 141 -> lea8d(s)
    [] op = 142 -> mov8e(s)
    [] op = 143 -> pop8f(s)
    [] op \in 144 .. 151 -> xchg_acc(s, GPRs[op - 143])
    [] op = 152 -> cbw98(s)
    [] op = 153 -> cwd99(s)
    [] op = 154 -> call9a(s)
    [] op = 155 -> wait9b(s)
    [] op = 156 -> pushf9c(s)
    [] op = 157 -> popf9d(s)
    [] op = 158 -> sahf9e(s)
    [] op = 159 -> lahf9f(s)
    [] op \in 160 .. 163 -> mov_moffs(s, op)
    [] op \in {164, 165} -> do_rep("movs", s, WidthOf(op))
    [] op \in {166, 167} -> do_rep("cmps", s, WidthOf(op))
    [] op \in {168, 169} -> test_acc(s, WidthOf(op))
    [] op \in {170, 171} -> do_rep("stos", s, WidthOf(op))
    [] op \in {172, 173} -> do_rep("lods", s, WidthOf(op))
    [] op \in {174, 175} -> do_rep("scas", s, WidthOf(op))
    [] op \in 176 .. 183 -> mov_reg_imm(s, Byte, op - 176)
    [] op \in 184 .. 191 -> mov_reg_imm(s, Word, op - 184)

HighOpcodes(s, op) ==
  CASE op \in {192, 193} -> shift_imm(s, WidthOf(op))
    [] op \in {194, 195, 202, 203} -> ret(s, op)
    [] op = 196 -> load_far(s, "ES")
    [] op = 197 -> load_far(s, "DS")
    [] op \in {198, 199} -> mov_rm_imm(s, WidthOf(op))
    [] op = 200 -> enterc8(s)
    [] op = 201 -> leavec9(s)
    [] op = 204 -> intcc(s)
    [] op = 205 -> intcd(s)
    [] op = 206 -> intoce(s)
    [] op = 207 -> iretcf(s)
    [] op \in {208, 209} -> shift_one(s, WidthOf(op))
    [] op \in {210, 211} -> shift_cl(s, WidthOf(op))
    [] op = 212 -> aamd4(s)
    [] op = 213 -> Adjusted(Skip(s, 1), aad(s.fl, get(s, "AL"), get(s, "AH"), fetch_byte(s)))
    [] op = 214 -> setalcd6(s)
    [] op = 215 -> xlatd7(s)
    [] op \in 216 .. 223 -> escd8(s)
    [] op = 224 -> loopnze0(s)
    [] op = 225 -> loopee1(s)
    [] op = 226 -> loope2(s)
    [] op = 227 -> jcxze3(s)
    [] op \in 228 .. 231 \cup 236 .. 239 -> in_out(s, op)
    [] op = 232 -> calle8(s)
    [] op = 233 -> Relative(s, Word)
    [] op = 234 -> jmpea(s)
    [] op = 235 -> Relative(s, Byte)
    [] op = 241 -> invalid_opcode(s)
    [] op = 244 -> hltf4(s)
    [] op = 245 -> cmcf5(s)
    [] op \in {246, 247} -> neg_mul_not_test_div(s, WidthOf(op))
    [] op = 248 -> clcf8(s)
    [] op = 249 -> stcf9(s)
    [] op = 250 -> clifa(s)
    [] op = 251 -> stifb(s)
    [] op = 252 -> cldfc(s)
    [] op = 253 -> stdfd(s)
    [] op = 254 -> inc_dec_fe(s)
    [] op = 255 -> push_inc_jmp_call_ff(s)

(* Lock, segment override and repeat prefixes. *)
SegmentPrefix == 38 :> "ES" @@ 46 :> "CS" @@ 54 :> "SS" @@ 62 :> "DS"
RepeatPrefix == 242 :> "repne" @@ 243 :> "repe"
IsPrefix(b) == b = 240 \/ b \in DOMAIN SegmentPrefix \/ b \in DOMAIN RepeatPrefix

(* The choice of the last prefix of the k that is in table, or none. *)
LastPrefix(bytes, k, table) ==
  LET at == {i \in 0 .. k - 1 : bytes[i] \in DOMAIN table}
  IN IF at = {} THEN "none" ELSE table[bytes[Max(at)]]

Dispatch(s, op) ==
  CASE op < 128 -> LowOpcodes(s, op)
    [] op \in 128 .. 191 -> MiddleOpcodes(s, op)
    [] OTHER -> HighOpcodes(s, op)

(* After the instruction: one that was too long faults as well, and IP     *)
(* moves on unless the instruction set it.                                 *)
CheckLength(s) ==
  IF s.len >= 16 THEN invalid_opcode([s EXCEPT !.len = @ % 16]) ELSE s
MoveIP(s) == IF s.jump THEN s ELSE set(s, "IP", NextIP(s))

(* The instruction after k prefixes, of the bytes at CS:IP. *)
Execute(s, bytes, k) ==
  MoveIP(CheckLength(Dispatch(
    [Skip(s, k + 1) EXCEPT !.seg = LastPrefix(bytes, k, SegmentPrefix),
                           !.rep = LastPrefix(bytes, k, RepeatPrefix)], bytes[k])))

emulate_insn(s) ==
  LET start == [s EXCEPT !.len = 0, !.seg = "none", !.rep = "none",
                         !.rm = NoModRM, !.jump = FALSE, !.inh = FALSE]
      bytes == [i \in 0 .. MaxPrefixes |-> fetch_byte(Skip(start, i))]
  IN Execute(start, bytes,
             CHOOSE i \in 0 .. MaxPrefixes :
               ~IsPrefix(bytes[i]) /\ \A j \in 0 .. i - 1 : IsPrefix(bytes[j]))
=============================================================================
