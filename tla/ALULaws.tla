------------------------------ MODULE ALULaws -------------------------------
(***************************************************************************)
(* The arithmetic of the C++ model against the mathematics it stands for:  *)
(* a behaviour walks through every second operand for a first operand and  *)
(* a carry.  Bytes are exhaustive; words take the values of WordValues.    *)
(***************************************************************************)
EXTENDS ALU, Sequences

CONSTANT WordValues    \* the 16-bit operands, in the order in which y takes them

WordRange == 0 .. 65535

ASSUME WordsAssumption == WordValues \in Seq(WordRange) /\ Len(WordValues) >= 1

VARIABLES M, x, y, c

operand_vars == <<M, x, y, c>>

ByteValues == [i \in 1 .. 256 |-> i - 1]
Operands == IF M = 256 THEN ByteValues ELSE WordValues

(* y is an index into the operands. *)
OperandsInit ==
  /\ M \in {256, 65536}
  /\ \E i \in DOMAIN Operands : x = Operands[i]
  /\ y = 1
  /\ c \in {0, 1}

NextOperand ==
  /\ y < Len(Operands)
  /\ y' = y + 1
  /\ UNCHANGED <<M, x, c>>

OperandsSpec == OperandsInit /\ [][NextOperand]_operand_vars

-----------------------------------------------------------------------------
B == Operands[y]
Carry == When(c = 1, "CF")
Signed(v) == sign_extend(M, v)
Half == M \div 2

(* After CMP the conditional jumps order the operands as unsigned and as   *)
(* two's complement numbers, whatever the flags were before; JO tells that *)
(* the signed difference does not fit (do_alu, cmp.cpp, jmp.cpp).          *)
ComparisonOrder ==
  LET fl == cmp(M, Carry, x, B).fl
  IN /\ taken(0, fl) <=> Signed(x) - Signed(B) \notin -Half .. Half - 1
     /\ taken(2, fl) <=> x < B
     /\ taken(4, fl) <=> x = B
     /\ taken(6, fl) <=> x <= B
     /\ taken(12, fl) <=> Signed(x) < Signed(B)
     /\ taken(14, fl) <=> Signed(x) <= Signed(B)
     /\ \A k \in 0 .. 7 : taken(2 * k, fl) # taken(2 * k + 1, fl)

HighBytes == {<<0, 0>>, <<255, 255>>, <<127, 1>>, <<128, 127>>, <<3, 250>>}

(* A word operation done a byte at a time, ADC or SBB on the low bytes and *)
(* then on the high bytes, gives the result and the CF, SF and OF of the   *)
(* same operation on words (adc.cpp, sbb.cpp): the carry is neither lost   *)
(* nor counted twice between the two widths.                               *)
MultiPrecision ==
  M = 256 =>
    \A h \in HighBytes :
      \A Wide \in {"adc", "sbb"} :
        LET Op(m, fl, d, s) ==
              IF Wide = "adc" THEN adc(m, fl, d, s) ELSE sbb(m, fl, d, s)
            low == Op(256, Carry, x, B)
            high == Op(256, low.fl, h[1], h[2])
            word == Op(65536, Carry, 256 * h[1] + x, 256 * h[2] + B)
        IN /\ word.val = 256 * high.val + low.val
           /\ word.fl \cap {"CF", "SF", "OF"} = high.fl \cap {"CF", "SF", "OF"}

IsBCD(v) == v % 16 < 10 /\ v \div 16 < 10
FromBCD(v) == 10 * (v \div 16) + (v % 16)

(* On packed decimal bytes ADC;DAA and SBB;DAS are decimal addition and    *)
(* subtraction with carry, on unpacked digits ADC;AAA and SBB;AAS carry    *)
(* into AH, and AAM;AAD gives back every byte (daa.cpp, das.cpp, aaa.cpp,  *)
(* aas.cpp, aam.cpp, aad.cpp, with the half carry of do_alu).              *)
DecimalAdjust ==
  /\ M = 256 /\ IsBCD(x) /\ IsBCD(B) =>
       LET sum == adc(256, Carry, x, B)
           dsum == daa(sum.fl, sum.val)
           diff == sbb(256, Carry, x, B)
           ddiff == das(diff.fl, diff.val)
           total == FromBCD(x) + FromBCD(B) + c
           rest == FromBCD(x) - FromBCD(B) - c
       IN /\ IsBCD(dsum.al) /\ FromBCD(dsum.al) = total % 100
          /\ "CF" \in dsum.fl <=> total > 99
          /\ IsBCD(ddiff.al) /\ FromBCD(ddiff.al) = rest % 100
          /\ "CF" \in ddiff.fl <=> rest < 0
  /\ M = 256 /\ x < 10 /\ B < 10 =>
       LET sum == adc(256, Carry, x, B)
           asum == aaa(sum.fl, sum.val, 5)
           diff == sbb(256, Carry, x, B)
           adiff == aas(diff.fl, diff.val, 5)
       IN /\ 10 * asum.ah + asum.al = 50 + x + B + c
          /\ 10 * adiff.ah + adiff.al = 50 + x - B - c
  /\ M = 256 /\ B # 0 =>
       LET split == aam({}, x, B)
       IN aad({}, split.al, split.ah, B).al = x

(* Dividing a product by one factor gives the other: DIV undoes MUL, and   *)
(* IDIV undoes IMUL for every pair of signs, any division is exact, and it *)
(* is refused exactly when the quotient does not fit the destination, the  *)
(* most negative quotient included (mul.cpp, imul.cpp, div.cpp).           *)
DivisionUndoesMultiplication ==
  M = 256 =>
    /\ B # 0 =>
         /\ LET p == mul(256, {}, x, B)
            IN div(256, p.hi, p.lo, B) = [ok |-> TRUE, q |-> x, r |-> 0]
         /\ LET p == imul(256, {}, x, B)
            IN idiv(256, p.hi, p.lo, B) = [ok |-> TRUE, q |-> Signed(x), r |-> 0]
    /\ LET dividend == 256 * x + B
           value == sign_extend(65536, dividend)
       IN \A d \in {0, 1, 2, 3, 100, 127, 128, 129, 254, 255} :
            LET u == div(256, x, B, d)
                s == idiv(256, x, B, d)
                b == Signed(d)
            IN /\ u.ok <=> dividend < 256 * d
               /\ u.ok => dividend = u.q * d + u.r /\ u.r < d
               /\ s.ok <=> IF (value < 0) = (b < 0)
                           THEN AbsVal(value) < 128 * AbsVal(b)
                           ELSE AbsVal(value) < 129 * AbsVal(b)
               /\ s.ok => /\ value = s.q * b + s.r
                          /\ AbsVal(s.r) < AbsVal(b)
                          /\ s.r # 0 => (s.r < 0) = (value < 0)

Bits == IF M = 256 THEN 8 ELSE 16
Counts == {1, 2, 7, 8, 9, 15, 16, 17, 31, 32, 33, 255}

(* The single-bit loops shift by the count: SHL multiplies, SHR and SAR    *)
(* divide rounding down, the last bit out is CF, and ROR and RCR undo ROL  *)
(* and RCL for every count, beyond the width and beyond 31 too, although   *)
(* only some of the loops reduce the count (shl.cpp to rcr.cpp).           *)
ShiftsAreArithmetic ==
  y \in Counts =>
    LET n == y
        left == do_shl(M, x, n)
        right == do_shr(M, x, n)
        arith == do_sar(M, x, n)
        through == do_rcl(M, x, n, c = 1)
    IN /\ left.val = IF n >= Bits THEN 0 ELSE (x % (M \div 2^n)) * 2^n
       /\ right.val = IF n >= Bits THEN 0 ELSE x \div 2^n
       /\ Signed(arith.val) = IF n >= Bits THEN Signed(x) \div M ELSE Signed(x) \div 2^n
       /\ "CF" \in left.fl <=> n <= Bits /\ BitSet(x, 2^(Bits - n))
       /\ "CF" \in right.fl <=> n <= Bits /\ BitSet(x, 2^(n - 1))
       /\ "CF" \in arith.fl <=> IF n <= Bits THEN BitSet(x, 2^(n - 1)) ELSE x >= Half
       /\ do_ror(M, do_rol(M, x, n).val, n).val = x
       /\ LET back == do_rcr(M, through.val, n, "CF" \in through.fl)
          IN back.val = x /\ ("CF" \in back.fl <=> c = 1)
=============================================================================
