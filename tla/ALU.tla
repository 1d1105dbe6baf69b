-------------------------------- MODULE ALU ---------------------------------
(***************************************************************************)
(* The arithmetic of the C++ instruction-set model (sim/cppmodel): what an *)
(* instruction computes from its operands and the flags, without fetching  *)
(* or storing.  M is the modulus of the operand type T of the templates:   *)
(* 2^8 for uint8_t, 2^16 for uint16_t.  A flags word is the set of the     *)
(* flags that are set.  Integers are unbounded here; TLA+'s \div and %     *)
(* round towards minus infinity, so that a bit test on a negative result   *)
(* is the bit test on its two's complement.                                *)
(***************************************************************************)
EXTENDS Integers, FiniteSets

Flags == {"CF", "PF", "AF", "ZF", "SF", "TF", "IF", "DF", "OF"}
Arith == {"CF", "PF", "AF", "ZF", "SF", "OF"}
Logic == Arith \ {"AF"}

set_flags(fl, val, mask) == (fl \ mask) \cup (val \cap mask)

(* The flag f as a set, when condition c holds. *)
When(c, f) == IF c THEN {f} ELSE {}

BitSet(v, weight) == (v \div weight) % 2 = 1

Ones[v \in Nat] == IF v = 0 THEN 0 ELSE (v % 2) + Ones[v \div 2]

(* The complement of __builtin_parity over the low byte. *)
EvenParity(v) == Ones[v % 256] % 2 = 0

BitAnd[p \in Nat \X Nat] ==
  IF p[1] = 0 \/ p[2] = 0 THEN 0
  ELSE 2 * BitAnd[<<p[1] \div 2, p[2] \div 2>>] + (p[1] % 2) * (p[2] % 2)

sign_extend(M, v) == IF v >= M \div 2 THEN v - M ELSE v

-----------------------------------------------------------------------------
(* The adder shared by all two-operand instructions. *)

Apply(op, a, b, c) ==
  CASE op = "add" -> a + b + c
    [] op = "sub" -> a - b - c
    [] op = "and" -> BitAnd[<<a, b>>]
    [] op = "or"  -> a + b - BitAnd[<<a, b>>]
    [] op = "xor" -> a + b - 2 * BitAnd[<<a, b>>]

do_alu(M, op, v1, v2, c) ==
  LET H == M \div 2
      r == Apply(op, v1, v2, c)
      carryOut == BitSet(r, M)
      carryIn == BitSet(Apply(op, v1 % H, v2 % H, c), H)
  IN [val |-> r % M,
      fl  |-> When(carryOut, "CF") \cup When(carryIn # carryOut, "OF")
              \cup When(BitSet(r, H), "SF")
              \cup When(r % M = 0, "ZF") \cup When(EvenParity(r), "PF")
              \cup When(BitSet(Apply(op, v1 % 16, v2 % 16, c), 16), "AF")]

do_add(M, v1, v2, c) == do_alu(M, "add", v1, v2, c)
do_sub(M, v1, v2, c) == do_alu(M, "sub", v1, v2, c)
do_and(M, v1, v2) == do_alu(M, "and", v1, v2, 0)
do_or(M, v1, v2) == do_alu(M, "or", v1, v2, 0)
do_xor(M, v1, v2) == do_alu(M, "xor", v1, v2, 0)

(* Every caller discards the flags of do_mul.  The product is its two      *)
(* halves of width M.                                                      *)
do_mul(M, v1, v2) == [lo |-> (v1 * v2) % M, hi |-> ((v1 * v2) \div M) % M]

-----------------------------------------------------------------------------
(* Two-operand instructions: the new value of the destination and flags,   *)
(* for destination d and source s.  cmp and test leave the destination.    *)

CarryOf(fl) == IF "CF" \in fl THEN 1 ELSE 0
Outcome(fl, r, mask) == [val |-> r.val, fl |-> set_flags(fl, r.fl, mask)]
LogicOutcome(fl, r) == Outcome(fl, [r EXCEPT !.fl = @ \ {"CF", "OF"}], Logic)

(* Mutant of adc: the carry flag is not added. *)
adc_without_carry(M, fl, d, s) == Outcome(fl, do_add(M, d, s, 0), Arith)

add(M, fl, d, s) == Outcome(fl, do_add(M, d, s, 0), Arith)
or(M, fl, d, s) == LogicOutcome(fl, do_or(M, d, s))
adc(M, fl, d, s) == Outcome(fl, do_add(M, d, s, CarryOf(fl)), Arith)
sbb(M, fl, d, s) == Outcome(fl, do_sub(M, d, s, CarryOf(fl)), Arith)
and(M, fl, d, s) == LogicOutcome(fl, do_and(M, d, s))
sub(M, fl, d, s) == Outcome(fl, do_sub(M, d, s, 0), Arith)
xor(M, fl, d, s) == LogicOutcome(fl, do_xor(M, d, s))
cmp(M, fl, d, s) == [sub(M, fl, d, s) EXCEPT !.val = d]
test(M, fl, d, s) == [and(M, fl, d, s) EXCEPT !.val = d]

(* Increment and decrement leave the carry flag. *)
inc(M, fl, v) == Outcome(fl, do_add(M, v, 1, 0), Arith \ {"CF"})
dec(M, fl, v) == Outcome(fl, do_sub(M, v, 1, 0), Arith \ {"CF"})

neg(M, fl, v) ==
  LET r == do_sub(M, 0, v, 0)
  IN Outcome(fl, [r EXCEPT !.fl = (@ \ {"CF"}) \cup When(v # 0, "CF")], Arith)

not(M, v) == M - 1 - v

-----------------------------------------------------------------------------
(* Multiplication and division.  Products and dividends are pairs of a     *)
(* high and a low half; a division yields ok = FALSE where the code takes  *)
(* vector 0.                                                               *)

(* CF and OF say that the high half of the product is not zero.  No ZF.    *)
Product(fl, p) ==
  [lo |-> p.lo, hi |-> p.hi,
   fl |-> set_flags(fl, IF p.hi # 0 THEN {"CF", "OF"} ELSE {}, {"OF", "CF", "ZF"})]

mul(M, fl, v1, v2) == Product(fl, do_mul(M, v1, v2))

imul(M, fl, v1, v2) ==
  Product(fl, do_mul(M, sign_extend(M, v1), sign_extend(M, v2)))

div(M, hi, lo, divisor) ==
  LET a == M * hi + lo
      q == IF divisor = 0 THEN 0 ELSE a \div divisor
  IN [ok |-> divisor # 0 /\ q < M, q |-> q, r |-> a - q * divisor]

AbsVal(v) == IF v < 0 THEN -v ELSE v

(* The quotient of C++, which truncates towards zero. *)
Quotient(a, b) ==
  IF (a < 0) = (b < 0) THEN AbsVal(a) \div AbsVal(b)
  ELSE -(AbsVal(a) \div AbsVal(b))

(* Mutant of idiv: the range of the quotient is symmetric. *)
idiv_symmetric(M, hi, lo, divisor) ==
  LET a == M * sign_extend(M, hi) + lo
      b == sign_extend(M, divisor)
      q == IF b = 0 THEN 0 ELSE Quotient(a, b)
  IN [ok |-> b # 0 /\ q > -(M \div 2) /\ q < M \div 2, q |-> q, r |-> a - q * b]

(* q and r as signed values.  idivf7 tests the range with dividend /       *)
(* divisor, which C++ leaves undefined for -2^31 / -1; the outcome here is *)
(* that of a build in which the division overflows and the test fails.     *)
idiv(M, hi, lo, divisor) ==
  LET a == M * sign_extend(M, hi) + lo
      b == sign_extend(M, divisor)
      q == IF b = 0 THEN 0 ELSE Quotient(a, b)
  IN [ok |-> b # 0 /\ q >= -(M \div 2) /\ q < M \div 2, q |-> q, r |-> a - q * b]

-----------------------------------------------------------------------------
(* Decimal and ASCII adjustment of AL (and AH). *)

(* Mutant of daa: the high digit is compared before the low adjustment. *)
daa_high_first(fl, al) ==
  LET low == al % 16 > 9 \/ "AF" \in fl
      t == IF low THEN al + 6 ELSE al
      high == t % 256 > 16 * 9 + 15 /\ "CF" \notin fl
  IN [al |-> (IF high THEN t + 96 ELSE t) % 256,
      fl |-> (fl \ {"AF"}) \cup When(low, "AF") \cup When(high, "CF")]

(* SF, ZF and PF are written back as they were. *)
daa(fl, al) ==
  LET low == al % 16 > 9 \/ "AF" \in fl
      t == IF low THEN al + 6 ELSE al
      high == t % 256 > 16 * 9 + 15 \/ t > 255 \/ "CF" \in fl
  IN [al |-> (IF high THEN t + 96 ELSE t) % 256,
      fl |-> (fl \ {"AF"}) \cup When(low, "AF") \cup When(high, "CF")]

(* SF, ZF and PF are set by the result and never cleared by it. *)
das(fl, al) ==
  LET low == al % 16 > 9 \/ "AF" \in fl
      t == IF low THEN al - 6 ELSE al
      high == t % 256 > 16 * 9 + 15 \/ t < 0 \/ "CF" \in fl
      v == (IF high THEN t - 96 ELSE t) % 256
  IN [al |-> v,
      fl |-> (fl \ {"AF", "CF"}) \cup When(low, "AF") \cup When(high, "CF")
             \cup When(v >= 128, "SF") \cup When(v = 0, "ZF")
             \cup When(EvenParity(v), "PF")]

aaa(fl, al, ah) ==
  LET adjust == al % 16 > 9 \/ "AF" \in fl
  IN [al |-> IF adjust THEN (al + 6) % 16 ELSE al,
      ah |-> IF adjust THEN (ah + 1) % 256 ELSE ah,
      fl |-> set_flags(fl, IF adjust THEN {"AF", "CF"} ELSE {}, {"AF", "CF"})]

aas(fl, al, ah) ==
  LET adjust == al % 16 > 9 \/ "AF" \in fl
  IN [al |-> IF adjust THEN (al - 6) % 16 ELSE al,
      ah |-> IF adjust THEN (ah - 1) % 256 ELSE ah,
      fl |-> set_flags(fl, IF adjust THEN {"AF", "CF"} ELSE {}, {"AF", "CF"})]

(* For a divisor other than zero. *)
aam(fl, al, divisor) ==
  LET q == al \div divisor
      r == al % divisor
  IN [al |-> r, ah |-> q,
      fl |-> set_flags(fl, When(q = 0 /\ r = 0, "ZF") \cup When(q >= 128, "SF")
                           \cup When(EvenParity(r), "PF"), {"SF", "ZF", "PF"})]

(* SF, ZF and PF come from the 16-bit sum and are never cleared. *)
aad(fl, al, ah, base) ==
  LET v == al + ah * base
  IN [al |-> v % 256, ah |-> 0,
      fl |-> fl \cup When(v % 65536 >= 32768, "SF") \cup When(v % 65536 = 0, "ZF")
             \cup When(EvenParity(v), "PF")]

-----------------------------------------------------------------------------
(* Shifts and rotates: n single-bit steps on a value and a carry.          *)

Repeat(n, start, Step(_)) ==
  LET after[i \in 0 .. n] == IF i = 0 THEN start ELSE Step(after[i - 1])
  IN after[n]

Start(v, c) == [v |-> v, c |-> c]
TopBitsDiffer(M, v) == (v \div (M \div 4)) % 4 \in {1, 2}

ShiftFlags(M, r) ==
  When(r.c, "CF") \cup When(r.v = 0, "ZF") \cup When(EvenParity(r.v), "PF")

(* Mutant of do_rcl: the bit shifted in is the bit shifted out. *)
do_rcl_as_rol(M, v, n, cf) ==
  LET r == Repeat(n % 32, Start(v, cf),
             LAMBDA p : [v |-> ((2 * p.v) % M) + (p.v \div (M \div 2)),
                         c |-> p.v >= M \div 2])
  IN [val |-> r.v, fl |-> When(r.c, "CF") \cup When(r.c # (r.v >= M \div 2), "OF")]

do_rol(M, v, n) ==
  LET r == Repeat(n % 32, Start(v, FALSE),
             LAMBDA p : [v |-> ((2 * p.v) % M) + (p.v \div (M \div 2)),
                         c |-> p.v >= M \div 2])
  IN [val |-> r.v, fl |-> When(r.c, "CF") \cup When(r.c # (r.v >= M \div 2), "OF")]

do_rcl(M, v, n, cf) ==
  LET r == Repeat(n % 32, Start(v, cf),
             LAMBDA p : [v |-> ((2 * p.v) % M) + (IF p.c THEN 1 ELSE 0),
                         c |-> p.v >= M \div 2])
  IN [val |-> r.v, fl |-> When(r.c, "CF") \cup When(r.c # (r.v >= M \div 2), "OF")]

do_rcr(M, v, n, cf) ==
  LET r == Repeat(n % 32, Start(v, cf),
             LAMBDA p : [v |-> p.v \div 2 + (IF p.c THEN M \div 2 ELSE 0),
                         c |-> p.v % 2 = 1])
  IN [val |-> r.v, fl |-> When(r.c, "CF") \cup When(TopBitsDiffer(M, r.v), "OF")]

(* The count of ror, shl, shr and sar is not reduced modulo 32. *)
do_ror(M, v, n) ==
  LET r == Repeat(n, Start(v, FALSE),
             LAMBDA p : [v |-> p.v \div 2 + (p.v % 2) * (M \div 2),
                         c |-> p.v % 2 = 1])
  IN [val |-> r.v, fl |-> When(r.c, "CF") \cup When(TopBitsDiffer(M, r.v), "OF")]

do_shl(M, v, n) ==
  LET r == Repeat(n, Start(v, FALSE),
             LAMBDA p : [v |-> (2 * p.v) % M, c |-> p.v >= M \div 2])
  IN [val |-> r.v, fl |-> ShiftFlags(M, r) \cup When(TopBitsDiffer(M, v), "OF")
                          \cup When(r.v >= M \div 2, "SF")]

do_shr(M, v, n) ==
  LET r == Repeat(n, Start(v, FALSE),
             LAMBDA p : [v |-> p.v \div 2, c |-> p.v % 2 = 1])
  IN [val |-> r.v, fl |-> ShiftFlags(M, r) \cup When(v >= M \div 2, "OF")]

(* Mutant of do_sar: the sign is not shifted in. *)
do_sar_logical(M, v, n) ==
  LET r == Repeat(n, Start(v, FALSE),
             LAMBDA p : [v |-> p.v \div 2, c |-> p.v % 2 = 1])
  IN [val |-> r.v, fl |-> ShiftFlags(M, r) \cup When(r.v >= M \div 2, "SF")]

do_sar(M, v, n) ==
  LET sign == IF v >= M \div 2 THEN M \div 2 ELSE 0
      r == Repeat(n, Start(v, FALSE),
             LAMBDA p : [v |-> p.v \div 2 + sign, c |-> p.v % 2 = 1])
  IN [val |-> r.v, fl |-> ShiftFlags(M, r) \cup When(r.v >= M \div 2, "SF")]

-----------------------------------------------------------------------------
(* The conditions of the jumps 0x70 to 0x7f; an odd code negates the even. *)

SignedLess(fl) == ("SF" \in fl) # ("OF" \in fl)

(* Mutant of taken: the signed comparisons look at the sign alone. *)
taken_by_sign(code, fl) ==
  LET base == CASE code \div 2 = 0 -> "OF" \in fl
                [] code \div 2 = 1 -> "CF" \in fl
                [] code \div 2 = 2 -> "ZF" \in fl
                [] code \div 2 = 3 -> "CF" \in fl \/ "ZF" \in fl
                [] code \div 2 = 4 -> "SF" \in fl
                [] code \div 2 = 5 -> "PF" \in fl
                [] code \div 2 = 6 -> "SF" \in fl
                [] code \div 2 = 7 -> "SF" \in fl \/ "ZF" \in fl
  IN base = (code % 2 = 0)

taken(code, fl) ==
  LET base == CASE code \div 2 = 0 -> "OF" \in fl
                [] code \div 2 = 1 -> "CF" \in fl
                [] code \div 2 = 2 -> "ZF" \in fl
                [] code \div 2 = 3 -> "CF" \in fl \/ "ZF" \in fl
                [] code \div 2 = 4 -> "SF" \in fl
                [] code \div 2 = 5 -> "PF" \in fl
                [] code \div 2 = 6 -> SignedLess(fl)
                [] code \div 2 = 7 -> SignedLess(fl) \/ "ZF" \in fl
  IN base = (code % 2 = 0)
=============================================================================
