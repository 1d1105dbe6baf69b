----------------------------- MODULE ALUProofs ------------------------------
(***************************************************************************)
(* Proofs about the arithmetic of the C++ model, for every operand: the    *)
(* order that the conditional jumps read from the flags of CMP, ADC and    *)
(* SBB a byte at a time against the word instructions, decimal and ASCII   *)
(* adjustment, division at every even width, and shifts and rotates by     *)
(* every count.                                                            *)
(***************************************************************************)
EXTENDS ALULaws, WellFoundedInduction, TLAPS

(* Flags are different names. *)
LEMMA FlagsDistinct ==
  /\ "CF" # "OF" /\ "CF" # "SF" /\ "CF" # "ZF" /\ "CF" # "PF" /\ "CF" # "AF"
  /\ "OF" # "SF" /\ "OF" # "ZF" /\ "OF" # "PF" /\ "OF" # "AF"
  /\ "SF" # "ZF" /\ "SF" # "PF" /\ "SF" # "AF"
  /\ "ZF" # "PF" /\ "ZF" # "AF" /\ "PF" # "AF"
  BY SMT

(* The flags of the adder, read off one at a time. *)
LEMMA AluFlags ==
  ASSUME NEW m, NEW op, NEW v1, NEW v2, NEW ci, NEW S,
         S = do_alu(m, op, v1, v2, ci).fl,
         NEW r, r = Apply(op, v1, v2, ci)
  PROVE  /\ "CF" \in S <=> BitSet(r, m)
         /\ "OF" \in S <=>
              BitSet(Apply(op, v1 % (m \div 2), v2 % (m \div 2), ci), m \div 2) # BitSet(r, m)
         /\ "SF" \in S <=> BitSet(r, m \div 2)
         /\ "ZF" \in S <=> r % m = 0
         /\ "AF" \in S <=> BitSet(Apply(op, v1 % 16, v2 % 16, ci), 16)
  <1> DEFINE cf == BitSet(r, m)
             of == BitSet(Apply(op, v1 % (m \div 2), v2 % (m \div 2), ci), m \div 2) # cf
             sf == BitSet(r, m \div 2)
             zf == r % m = 0
             pf == EvenParity(r)
             af == BitSet(Apply(op, v1 % 16, v2 % 16, ci), 16)
  <1>1. S = When(cf, "CF") \cup When(of, "OF") \cup When(sf, "SF") \cup When(zf, "ZF")
            \cup When(pf, "PF") \cup When(af, "AF")
    BY DEF do_alu
  <1> HIDE DEF cf, of, sf, zf, pf, af
  <1>2. \A f : f \in S <=>
          \/ (cf /\ f = "CF") \/ (of /\ f = "OF") \/ (sf /\ f = "SF")
          \/ (zf /\ f = "ZF") \/ (pf /\ f = "PF") \/ (af /\ f = "AF")
    <2>1. \A f : f \in S <=>
            \/ f \in When(cf, "CF") \/ f \in When(of, "OF") \/ f \in When(sf, "SF")
            \/ f \in When(zf, "ZF") \/ f \in When(pf, "PF") \/ f \in When(af, "AF")
      BY <1>1, Zenon
    <2> QED BY <2>1, Zenon DEF When
  <1>3. /\ "CF" \in S <=> cf
        /\ "OF" \in S <=> of
        /\ "SF" \in S <=> sf
        /\ "ZF" \in S <=> zf
        /\ "AF" \in S <=> af
    BY <1>2, FlagsDistinct, Zenon
  <1> QED BY <1>3, Zenon DEF cf, of, sf, zf, af

(* set_flags with the arithmetic mask takes the arithmetic flags of the *)
(* result.                                                              *)
LEMMA ArithMask ==
  ASSUME NEW fl, NEW S
  PROVE  \A f \in Arith : f \in set_flags(fl, S, Arith) <=> f \in S
  BY DEF set_flags

(* What the flags of v1 - v2 say about the difference. *)
Borrow(m, v1, v2) == BitSet(v1 - v2 - 0, m)
Negative(m, v1, v2) == BitSet(v1 - v2 - 0, m \div 2)
Vanishes(m, v1, v2) == (v1 - v2 - 0) % m = 0
Overflows(m, v1, v2) ==
  BitSet((v1 % (m \div 2)) - (v2 % (m \div 2)) - 0, m \div 2) # BitSet(v1 - v2 - 0, m)

(* The flags of CMP, as those of the difference. *)
LEMMA SubFlags ==
  ASSUME NEW m, NEW v1, NEW v2, NEW fl, NEW g, g = cmp(m, fl, v1, v2).fl
  PROVE  /\ "CF" \in g <=> Borrow(m, v1, v2)
         /\ "OF" \in g <=> Overflows(m, v1, v2)
         /\ "SF" \in g <=> Negative(m, v1, v2)
         /\ "ZF" \in g <=> Vanishes(m, v1, v2)
  <1>1. PICK S : S = do_alu(m, "sub", v1, v2, 0).fl
    OBVIOUS
  <1>2. \A i, j : Apply("sub", i, j, 0) = i - j - 0
    BY DEF Apply
  <1>3. /\ "CF" \in S <=> Borrow(m, v1, v2)
        /\ "OF" \in S <=> Overflows(m, v1, v2)
        /\ "SF" \in S <=> Negative(m, v1, v2)
        /\ "ZF" \in S <=> Vanishes(m, v1, v2)
    BY <1>1, <1>2, AluFlags DEF Borrow, Overflows, Negative, Vanishes
  <1>4. g = set_flags(fl, S, Arith)
    BY <1>1 DEF cmp, sub, do_sub, Outcome
  <1>5. \A f \in Arith : f \in g <=> f \in S
    BY <1>4, ArithMask
  <1>6. /\ "CF" \in g <=> "CF" \in S
        /\ "OF" \in g <=> "OF" \in S
        /\ "SF" \in g <=> "SF" \in S
        /\ "ZF" \in g <=> "ZF" \in S
    BY <1>5 DEF Arith
  <1> QED BY <1>3, <1>6, Zenon

(* Quotient, remainder and bits of a number within two periods of h. *)
LEMMA DivMod ==
  ASSUME NEW h \in Nat \ {0}, NEW d \in Int
  PROVE  /\ d \in -(2 * h) .. -h - 1 => d \div h = -2 /\ d % h = d + 2 * h
         /\ d \in -h .. -1 => d \div h = -1 /\ d % h = d + h
         /\ d \in 0 .. h - 1 => d \div h = 0 /\ d % h = d
         /\ d \in h .. 2 * h - 1 => d \div h = 1 /\ d % h = d - h
  BY SMT

(* The remainder of a number within two periods. *)
LEMMA ModHalf ==
  ASSUME NEW h \in Nat \ {0}, NEW v \in Nat, v < 2 * h
  PROVE  /\ v % h \in 0 .. h - 1
         /\ v < h => v % h = v
         /\ v >= h => v % h = v - h
  BY SMT

(* A bit of such a number. *)
LEMMA BitOf ==
  ASSUME NEW h \in Nat \ {0}, NEW d \in Int
  PROVE  /\ d \in -(2 * h) .. -h - 1 => ~BitSet(d, h)
         /\ d \in -h .. -1 => BitSet(d, h)
         /\ d \in 0 .. h - 1 => ~BitSet(d, h)
         /\ d \in h .. 2 * h - 1 => BitSet(d, h)
  <1>1. \A q \in Int : /\ q = -2 \/ q = 0 => q % 2 = 0
                       /\ q = -1 \/ q = 1 => q % 2 = 1
    BY SMT
  <1> QED BY <1>1, DivMod DEF BitSet

(* The flags of a difference in terms of its operands, for any even        *)
(* modulus.                                                                *)
LEMMA SubOrder ==
  ASSUME NEW h \in Nat \ {0}, NEW m \in Nat, m = 2 * h,
         NEW v1 \in 0 .. m - 1, NEW v2 \in 0 .. m - 1
  PROVE  /\ Borrow(m, v1, v2) <=> v1 < v2
         /\ Vanishes(m, v1, v2) <=> v1 = v2
         /\ Overflows(m, v1, v2) <=>
              sign_extend(m, v1) - sign_extend(m, v2) \notin -h .. h - 1
         /\ ~(Negative(m, v1, v2) <=> Overflows(m, v1, v2)) <=>
              sign_extend(m, v1) < sign_extend(m, v2)
         /\ (v1 = v2) <=> (sign_extend(m, v1) = sign_extend(m, v2))
  <1>1. h = m \div 2
    OBVIOUS
  <1>2. PICK w1 : w1 = v1 % h
    OBVIOUS
  <1>3. PICK w2 : w2 = v2 % h
    OBVIOUS
  <1>a. w1 \in 0 .. h - 1 /\ (v1 < h => w1 = v1) /\ (v1 >= h => w1 = v1 - h)
    <2>1. v1 \in Nat /\ v1 < 2 * h
      BY <1>1
    <2> QED BY <1>1, <1>2, <2>1, ModHalf
  <1>b. w2 \in 0 .. h - 1 /\ (v2 < h => w2 = v2) /\ (v2 >= h => w2 = v2 - h)
    <2>1. v2 \in Nat /\ v2 < 2 * h
      BY <1>1
    <2> QED BY <1>1, <1>3, <2>1, ModHalf
  <1>4. BitSet(v1 - v2 - 0, m) <=> v1 < v2
    <2>1. CASE v1 - v2 - 0 \in -m .. -1
      BY <2>1, BitOf
    <2>2. CASE v1 - v2 - 0 \in 0 .. m - 1
      BY <2>2, BitOf
    <2> QED BY <2>1, <2>2
  <1>5. ((v1 - v2 - 0) % m = 0) <=> v1 = v2
    <2>1. CASE v1 - v2 - 0 \in -m .. -1
      BY <2>1, DivMod
    <2>2. CASE v1 - v2 - 0 \in 0 .. m - 1
      BY <2>2, DivMod
    <2> QED BY <2>1, <2>2
  <1>6. BitSet(w1 - w2 - 0, h) <=> w1 < w2
    <2>1. CASE w1 - w2 - 0 \in -h .. -1
      BY <1>a, <1>b, <2>1, BitOf
    <2>2. CASE w1 - w2 - 0 \in 0 .. h - 1
      BY <1>a, <1>b, <2>2, BitOf
    <2> QED BY <1>a, <1>b, <2>1, <2>2
  <1>7. BitSet(v1 - v2 - 0, h) <=> v1 - v2 \in -h .. -1 \/ v1 - v2 \in h .. m - 1
    <2>1. CASE v1 - v2 - 0 \in -m .. -h - 1
      BY <1>1, <2>1, BitOf
    <2>2. CASE v1 - v2 - 0 \in -h .. -1
      BY <1>1, <2>2, BitOf
    <2>3. CASE v1 - v2 - 0 \in 0 .. h - 1
      BY <1>1, <2>3, BitOf
    <2>4. CASE v1 - v2 - 0 \in h .. m - 1
      BY <1>1, <2>4, BitOf
    <2> QED BY <1>1, <2>1, <2>2, <2>3, <2>4
  <1>8. Overflows(m, v1, v2) <=> ~((w1 < w2) <=> (v1 < v2))
    <2>1. Overflows(m, v1, v2) <=>
            ~(BitSet((v1 % (m \div 2)) - (v2 % (m \div 2)) - 0, m \div 2)
              <=> BitSet(v1 - v2 - 0, m))
      BY DEF Overflows, BitSet
    <2>2. h = m \div 2
      BY <1>1
    <2>3. BitSet((v1 % (m \div 2)) - (v2 % (m \div 2)) - 0, m \div 2)
            <=> BitSet(w1 - w2 - 0, h)
      BY <1>2, <1>3, <2>2
    <2> QED BY <1>4, <1>6, <2>1, <2>3
  <1>9. /\ sign_extend(m, v1) = IF v1 < h THEN w1 ELSE w1 - h
        /\ sign_extend(m, v2) = IF v2 < h THEN w2 ELSE w2 - h
    BY <1>1, <1>a, <1>b DEF sign_extend
  <1>10. Overflows(m, v1, v2) <=>
           sign_extend(m, v1) - sign_extend(m, v2) \notin -h .. h - 1
    BY <1>1, <1>a, <1>b, <1>8, <1>9
  <1>11. ~(Negative(m, v1, v2) <=> Overflows(m, v1, v2)) <=>
           sign_extend(m, v1) < sign_extend(m, v2)
    <2>1. Negative(m, v1, v2) <=> v1 - v2 \in -h .. -1 \/ v1 - v2 \in h .. m - 1
      BY <1>1, <1>7 DEF Negative
    <2> QED BY <1>1, <1>a, <1>b, <1>8, <1>9, <2>1
  <1>12. (v1 = v2) <=> (sign_extend(m, v1) = sign_extend(m, v2))
    BY <1>1, <1>a, <1>b, <1>9
  <1> QED BY <1>4, <1>5, <1>10, <1>11, <1>12 DEF Borrow, Vanishes

(* The conditions of the jumps that ComparisonOrder uses. *)
LEMMA TakenCodes ==
  ASSUME NEW fl
  PROVE  /\ taken(0, fl) <=> "OF" \in fl
         /\ taken(2, fl) <=> "CF" \in fl
         /\ taken(4, fl) <=> "ZF" \in fl
         /\ taken(6, fl) <=> "CF" \in fl \/ "ZF" \in fl
         /\ taken(12, fl) <=> ~("SF" \in fl <=> "OF" \in fl)
         /\ taken(14, fl) <=> ~("SF" \in fl <=> "OF" \in fl) \/ "ZF" \in fl
  BY DEF taken, SignedLess

(* An odd code is the negation of the even code before it. *)
LEMMA TakenPairs ==
  ASSUME NEW fl, NEW k \in 0 .. 7
  PROVE  taken(2 * k, fl) # taken(2 * k + 1, fl)
  BY DEF taken, SignedLess

-----------------------------------------------------------------------------
(* The operands of the laws are of the width M. *)
InRange ==
  /\ M \in {256, 65536}
  /\ x \in 0 .. M - 1
  /\ y \in 1 .. Len(Operands)

(* They are numbers of the width. *)
LEMMA OperandsTyped ==
  ASSUME M \in {256, 65536}
  PROVE  Operands \in Seq(0 .. M - 1) /\ Len(Operands) >= 1
  <1>1. CASE M = 256
    <2>1. ByteValues \in Seq(0 .. 255) /\ Len(ByteValues) >= 1
      BY DEF ByteValues
    <2>2. Operands = ByteValues
      BY <1>1 DEF Operands
    <2>3. PICK R : R = 0 .. M - 1
      OBVIOUS
    <2>4. R = 0 .. 255
      BY <1>1, <2>3
    <2>5. Operands \in Seq(R) /\ Len(Operands) >= 1
      BY <2>1, <2>2, <2>4, SMT
    <2> QED BY <2>3, <2>5, SMT
  <1>2. CASE M = 65536
    <2>1. Operands = WordValues
      BY <1>2 DEF Operands
    <2>2. PICK R : R = 0 .. M - 1
      OBVIOUS
    <2>3. R = WordRange
      BY <1>2, <2>2 DEF WordRange
    <2>4. WordValues \in Seq(R) /\ Len(WordValues) >= 1
      BY <2>3, WordsAssumption, SMT
    <2> QED BY <2>1, <2>2, <2>4, SMT
  <1> QED BY <1>1, <1>2

(* Every state of the walk has operands of the width, and a carry. *)
LEMMA InRangeInvariant == OperandsSpec => [](InRange /\ c \in {0, 1})
  <1>1. OperandsInit => InRange /\ c \in {0, 1}
    BY OperandsTyped DEF OperandsInit, InRange
  <1>2. InRange /\ c \in {0, 1} /\ [NextOperand]_operand_vars
          => InRange' /\ (c \in {0, 1})'
    BY OperandsTyped DEF InRange, NextOperand, Operands, operand_vars
  <1> QED BY <1>1, <1>2, PTL DEF OperandsSpec

(* After CMP every conditional jump orders the operands as unsigned and as *)
(* two's complement numbers, for every byte and every word.                *)
THEOREM ComparisonOrderHolds == OperandsSpec => []ComparisonOrder
  <1>1. InRange => ComparisonOrder
    <2> SUFFICES ASSUME InRange PROVE ComparisonOrder
      OBVIOUS
    <2>1. B \in 0 .. M - 1 /\ x \in 0 .. M - 1
      BY OperandsTyped DEF InRange, B
    <2>2. PICK h \in Nat \ {0} : M \in Nat /\ M = 2 * h /\ h = M \div 2
      <3>1. CASE M = 256
        BY <3>1
      <3>2. CASE M = 65536
        BY <3>2
      <3> QED BY <3>1, <3>2 DEF InRange
    <2>3. PICK g : g = cmp(M, Carry, x, B).fl
      OBVIOUS
    <2>4. /\ "CF" \in g <=> Borrow(M, x, B)
          /\ "OF" \in g <=> Overflows(M, x, B)
          /\ "SF" \in g <=> Negative(M, x, B)
          /\ "ZF" \in g <=> Vanishes(M, x, B)
      BY <2>3, SubFlags, Zenon
    <2>5. /\ Borrow(M, x, B) <=> x < B
          /\ Vanishes(M, x, B) <=> x = B
          /\ Overflows(M, x, B) <=> Signed(x) - Signed(B) \notin -h .. h - 1
          /\ ~(Negative(M, x, B) <=> Overflows(M, x, B)) <=> Signed(x) < Signed(B)
          /\ (x = B) <=> (Signed(x) = Signed(B))
      BY <2>1, <2>2, SubOrder DEF Signed
    <2>8. Signed(x) \in Int /\ Signed(B) \in Int
      BY <2>1, <2>2 DEF Signed, sign_extend
    <2>9. /\ taken(0, g) <=> Signed(x) - Signed(B) \notin -h .. h - 1
          /\ taken(2, g) <=> x < B
          /\ taken(4, g) <=> x = B
      BY <2>4, <2>5, TakenCodes
    <2>10. taken(6, g) <=> x <= B
      BY <2>1, <2>4, <2>5, TakenCodes
    <2>11. /\ taken(12, g) <=> Signed(x) < Signed(B)
           /\ taken(14, g) <=> Signed(x) <= Signed(B)
      <3>1. ~("SF" \in g <=> "OF" \in g) <=> Signed(x) < Signed(B)
        BY <2>4, <2>5, Zenon
      <3> QED BY <2>4, <2>5, <2>8, <3>1, TakenCodes
    <2>12. \A k \in 0 .. 7 : taken(2 * k, g) # taken(2 * k + 1, g)
      BY TakenPairs
    <2> QED BY <2>2, <2>3, <2>9, <2>10, <2>11, <2>12 DEF ComparisonOrder, Half
  <1> QED BY <1>1, InRangeInvariant, PTL

-----------------------------------------------------------------------------
(* Addition and subtraction with carry, a byte at a time. *)

(* ADC and SBB as one operation. *)
Carrying(op, m, fl, d, s) == Outcome(fl, do_alu(m, op, d, s, CarryOf(fl)), Arith)

(* ADC and SBB are do_alu with the carry. *)
LEMMA AdcSbb ==
  ASSUME NEW m, NEW fl, NEW d, NEW s
  PROVE  /\ adc(m, fl, d, s) = Carrying("add", m, fl, d, s)
         /\ sbb(m, fl, d, s) = Carrying("sub", m, fl, d, s)
  BY DEF adc, sbb, do_add, do_sub, Carrying

(* The value and the flags that ADC and SBB leave. *)
LEMMA CarryOutcome ==
  ASSUME NEW op, NEW m, NEW fl, NEW d, NEW s, NEW ci, ci = CarryOf(fl),
         NEW r, r = Apply(op, d, s, ci),
         NEW h, h = m \div 2,
         NEW out, out = Carrying(op, m, fl, d, s)
  PROVE  /\ out.val = r % m
         /\ "CF" \in out.fl <=> BitSet(r, m)
         /\ "OF" \in out.fl <=> ~(BitSet(Apply(op, d % h, s % h, ci), h) <=> BitSet(r, m))
         /\ "SF" \in out.fl <=> BitSet(r, h)
         /\ "AF" \in out.fl <=> BitSet(Apply(op, d % 16, s % 16, ci), 16)
  <1>1. PICK R : R = do_alu(m, op, d, s, ci)
    OBVIOUS
  <1>2. out = [val |-> R.val, fl |-> set_flags(fl, R.fl, Arith)]
    BY <1>1, Zenon DEF Carrying, Outcome
  <1>3. out.val = r % m
    BY <1>1, <1>2 DEF do_alu
  <1>4. \A f \in Arith : f \in out.fl <=> f \in R.fl
    BY <1>2, ArithMask
  <1>5. /\ "CF" \in out.fl <=> "CF" \in R.fl
        /\ "OF" \in out.fl <=> "OF" \in R.fl
        /\ "SF" \in out.fl <=> "SF" \in R.fl
        /\ "AF" \in out.fl <=> "AF" \in R.fl
    BY <1>4 DEF Arith
  <1>6. PICK S : S = R.fl
    OBVIOUS
  <1>7. /\ "CF" \in S <=> BitSet(r, m)
        /\ "OF" \in S <=> BitSet(Apply(op, d % h, s % h, ci), h) # BitSet(r, m)
        /\ "SF" \in S <=> BitSet(r, h)
        /\ "AF" \in S <=> BitSet(Apply(op, d % 16, s % 16, ci), 16)
    BY <1>1, <1>6, AluFlags
  <1>8. "OF" \in S <=> ~(BitSet(Apply(op, d % h, s % h, ci), h) <=> BitSet(r, m))
    BY <1>7 DEF BitSet
  <1> QED BY <1>3, <1>5, <1>6, <1>7, <1>8, Zenon

(* The same for ADC, with the sum written out. *)
LEMMA AdcOutcome ==
  ASSUME NEW m, NEW fl, NEW d, NEW s, NEW ci, ci = CarryOf(fl), NEW h, h = m \div 2,
         NEW out, out = adc(m, fl, d, s)
  PROVE  /\ out.val = (d + s + ci) % m
         /\ "CF" \in out.fl <=> BitSet(d + s + ci, m)
         /\ "OF" \in out.fl <=> ~(BitSet((d % h) + (s % h) + ci, h) <=> BitSet(d + s + ci, m))
         /\ "SF" \in out.fl <=> BitSet(d + s + ci, h)
         /\ "AF" \in out.fl <=> BitSet((d % 16) + (s % 16) + ci, 16)
  <1>1. /\ d + s + ci = Apply("add", d, s, ci)
        /\ (d % h) + (s % h) + ci = Apply("add", d % h, s % h, ci)
        /\ (d % 16) + (s % 16) + ci = Apply("add", d % 16, s % 16, ci)
    BY DEF Apply
  <1>2. out = Carrying("add", m, fl, d, s)
    BY AdcSbb
  <1> QED BY <1>1, <1>2, CarryOutcome

(* The same for SBB, with the difference written out. *)
LEMMA SbbOutcome ==
  ASSUME NEW m, NEW fl, NEW d, NEW s, NEW ci, ci = CarryOf(fl), NEW h, h = m \div 2,
         NEW out, out = sbb(m, fl, d, s)
  PROVE  /\ out.val = (d - s - ci) % m
         /\ "CF" \in out.fl <=> BitSet(d - s - ci, m)
         /\ "OF" \in out.fl <=> ~(BitSet((d % h) - (s % h) - ci, h) <=> BitSet(d - s - ci, m))
         /\ "SF" \in out.fl <=> BitSet(d - s - ci, h)
         /\ "AF" \in out.fl <=> BitSet((d % 16) - (s % 16) - ci, 16)
  <1>1. /\ d - s - ci = Apply("sub", d, s, ci)
        /\ (d % h) - (s % h) - ci = Apply("sub", d % h, s % h, ci)
        /\ (d % 16) - (s % 16) - ci = Apply("sub", d % 16, s % 16, ci)
    BY DEF Apply
  <1>2. out = Carrying("sub", m, fl, d, s)
    BY AdcSbb
  <1> QED BY <1>1, <1>2, CarryOutcome

(* A word and its high part r: the bits from the ninth on are those of r.  *)
LEMMA HighPart ==
  ASSUME NEW r \in Int, NEW w \in Int, w - 256 * r \in 0 .. 255
  PROVE  /\ w % 65536 = 256 * (r % 256) + (w - 256 * r)
         /\ BitSet(w, 65536) <=> BitSet(r, 256)
         /\ BitSet(w, 32768) <=> BitSet(r, 128)
  <1>1. /\ w \div 65536 = r \div 256
        /\ w \div 32768 = r \div 128
        /\ w % 65536 = 256 * (r % 256) + (w - 256 * r)
    OBVIOUS
  <1> QED BY <1>1 DEF BitSet

(* A byte operation with carry: the result and the carry out are the two   *)
(* parts of the sum.                                                       *)
LEMMA ByteParts ==
  ASSUME NEW r \in Int, NEW k \in Int, k = IF BitSet(r, 256) THEN 1 ELSE 0
  PROVE  /\ r % 256 \in 0 .. 255
         /\ r \in 0 .. 511 => r = 256 * k + (r % 256)
         /\ r \in -256 .. 255 => r = (r % 256) - 256 * k
  <1>1. /\ r \in -256 .. -1 => r \div 256 = -1 /\ r % 256 = r + 256
        /\ r \in 0 .. 255 => r \div 256 = 0 /\ r % 256 = r
        /\ r \in 256 .. 511 => r \div 256 = 1 /\ r % 256 = r - 256
        /\ r % 256 \in 0 .. 255
    OBVIOUS
  <1>2. /\ r \in -256 .. -1 => BitSet(r, 256)
        /\ r \in 0 .. 255 => ~BitSet(r, 256)
        /\ r \in 256 .. 511 => BitSet(r, 256)
    BY <1>1 DEF BitSet
  <1>3. /\ r \in -256 .. -1 => k = 1
        /\ r \in 0 .. 255 => k = 0
        /\ r \in 256 .. 511 => k = 1
    BY <1>2
  <1>4. r \in 0 .. 511 => r = 256 * k + (r % 256)
    BY <1>1, <1>3
  <1>5. r \in -256 .. 255 => r = (r % 256) - 256 * k
    BY <1>1, <1>3
  <1> QED BY <1>1, <1>4, <1>5

(* The moduli of bytes and words and their halves. *)
Widths(m, n, h, g) == m = 256 /\ n = 65536 /\ h = 128 /\ g = 32768

(* ADC of two words, a byte at a time: the carry out of the low bytes *)
(* is the carry into the high bytes.                                  *)
LEMMA AdcByBytes ==
  ASSUME NEW m, NEW n, NEW h, NEW g, Widths(m, n, h, g), NEW fl,
         NEW a1 \in 0 .. m - 1, NEW b1 \in 0 .. m - 1,
         NEW a2 \in 0 .. m - 1, NEW b2 \in 0 .. m - 1,
         NEW low, low = adc(m, fl, a1, b1),
         NEW high, high = adc(m, low.fl, a2, b2),
         NEW word, word = adc(n, fl, m * a2 + a1, m * b2 + b1)
  PROVE  /\ word.val = m * high.val + low.val
         /\ word.fl \cap {"CF", "SF", "OF"} = high.fl \cap {"CF", "SF", "OF"}
  <1>1. PICK ci : ci = CarryOf(fl)
    OBVIOUS
  <1>2. PICK k : k = CarryOf(low.fl)
    OBVIOUS
  <1>3. ci \in {0, 1} /\ k \in {0, 1}
    BY <1>1, <1>2 DEF CarryOf
  <1>4. h = m \div 2 /\ g = n \div 2
    BY DEF Widths
  <1>5. PICK d : d = m * a2 + a1
    OBVIOUS
  <1>6. PICK s : s = m * b2 + b1
    OBVIOUS
  <1>7. /\ low.val = (a1 + b1 + ci) % m
        /\ "CF" \in low.fl <=> BitSet(a1 + b1 + ci, m)
    BY <1>1, <1>4, AdcOutcome, SMT
  <1>8. /\ high.val = (a2 + b2 + k) % m
        /\ "CF" \in high.fl <=> BitSet(a2 + b2 + k, m)
        /\ "OF" \in high.fl <=>
             ~(BitSet((a2 % h) + (b2 % h) + k, h) <=> BitSet(a2 + b2 + k, m))
        /\ "SF" \in high.fl <=> BitSet(a2 + b2 + k, h)
    BY <1>2, <1>4, AdcOutcome, SMT
  <1>9. /\ word.val = (d + s + ci) % n
        /\ "CF" \in word.fl <=> BitSet(d + s + ci, n)
        /\ "OF" \in word.fl <=>
             ~(BitSet((d % g) + (s % g) + ci, g) <=> BitSet(d + s + ci, n))
        /\ "SF" \in word.fl <=> BitSet(d + s + ci, g)
    BY <1>1, <1>4, <1>5, <1>6, AdcOutcome, SMT
  <1>10. PICK r1 : r1 = a1 + b1 + ci
    OBVIOUS
  <1>11. PICK lo : lo = r1 % m
    OBVIOUS
  <1>12. PICK r2 : r2 = a2 + b2 + k
    OBVIOUS
  <1>13. PICK r3 : r3 = (a2 % h) + (b2 % h) + k
    OBVIOUS
  <1>14. PICK rw : rw = d + s + ci
    OBVIOUS
  <1>15. PICK rv : rv = (d % g) + (s % g) + ci
    OBVIOUS
  <1>16. r1 \in Int /\ lo \in 0 .. 255 /\ r1 = 256 * k + lo
    <2>1. k = IF BitSet(r1, m) THEN 1 ELSE 0
      BY <1>2, <1>7, <1>10, Zenon DEF CarryOf
    <2>2. r1 \in 0 .. 511
      BY <1>3, <1>10 DEF Widths
    <2>3. m = 256 /\ k \in Int /\ r1 \in Int
      BY <1>3, <2>2 DEF Widths
    <2> QED BY <1>11, <2>1, <2>2, <2>3, ByteParts, SMTT(20)
  <1>17. rw \in Int /\ r2 \in Int /\ rw - 256 * r2 = lo
    BY <1>3, <1>5, <1>6, <1>10, <1>12, <1>14, <1>16 DEF Widths
  <1>18. rv \in Int /\ r3 \in Int /\ rv - 256 * r3 = lo
    <2>1. d % g = 256 * (a2 % h) + a1 /\ s % g = 256 * (b2 % h) + b1
      BY <1>5, <1>6 DEF Widths
    <2>2. PICK a3 : a3 = a2 % h
      OBVIOUS
    <2>3. PICK b3 : b3 = b2 % h
      OBVIOUS
    <2>4. a3 \in Int /\ b3 \in Int
      BY <2>2, <2>3 DEF Widths
    <2>5. rv = (256 * a3 + a1) + (256 * b3 + b1) + ci /\ r3 = a3 + b3 + k
      BY <1>13, <1>15, <2>1, <2>2, <2>3
    <2> QED BY <1>3, <1>10, <1>16, <2>4, <2>5 DEF Widths
  <1>19. /\ rw % n = m * (r2 % m) + lo
         /\ BitSet(rw, n) <=> BitSet(r2, m)
         /\ BitSet(rw, g) <=> BitSet(r2, h)
    BY <1>16, <1>17, HighPart DEF Widths
  <1>20. BitSet(rv, g) <=> BitSet(r3, h)
    BY <1>16, <1>18, HighPart DEF Widths
  <1>21. word.val = m * high.val + low.val
    BY <1>7, <1>8, <1>9, <1>10, <1>11, <1>12, <1>14, <1>19, Zenon
  <1>22. /\ "CF" \in word.fl <=> "CF" \in high.fl
         /\ "SF" \in word.fl <=> "SF" \in high.fl
         /\ "OF" \in word.fl <=> "OF" \in high.fl
    BY <1>8, <1>9, <1>12, <1>13, <1>14, <1>15, <1>19, <1>20, Zenon
  <1> QED BY <1>21, <1>22

(* SBB of two words, a byte at a time. *)
LEMMA SbbByBytes ==
  ASSUME NEW m, NEW n, NEW h, NEW g, Widths(m, n, h, g), NEW fl,
         NEW a1 \in 0 .. m - 1, NEW b1 \in 0 .. m - 1,
         NEW a2 \in 0 .. m - 1, NEW b2 \in 0 .. m - 1,
         NEW low, low = sbb(m, fl, a1, b1),
         NEW high, high = sbb(m, low.fl, a2, b2),
         NEW word, word = sbb(n, fl, m * a2 + a1, m * b2 + b1)
  PROVE  /\ word.val = m * high.val + low.val
         /\ word.fl \cap {"CF", "SF", "OF"} = high.fl \cap {"CF", "SF", "OF"}
  <1>1. PICK ci : ci = CarryOf(fl)
    OBVIOUS
  <1>2. PICK k : k = CarryOf(low.fl)
    OBVIOUS
  <1>3. ci \in {0, 1} /\ k \in {0, 1}
    BY <1>1, <1>2 DEF CarryOf
  <1>4. h = m \div 2 /\ g = n \div 2
    BY DEF Widths
  <1>5. PICK d : d = m * a2 + a1
    OBVIOUS
  <1>6. PICK s : s = m * b2 + b1
    OBVIOUS
  <1>7. /\ low.val = (a1 - b1 - ci) % m
        /\ "CF" \in low.fl <=> BitSet(a1 - b1 - ci, m)
    BY <1>1, <1>4, SbbOutcome, SMT
  <1>8. /\ high.val = (a2 - b2 - k) % m
        /\ "CF" \in high.fl <=> BitSet(a2 - b2 - k, m)
        /\ "OF" \in high.fl <=>
             ~(BitSet((a2 % h) - (b2 % h) - k, h) <=> BitSet(a2 - b2 - k, m))
        /\ "SF" \in high.fl <=> BitSet(a2 - b2 - k, h)
    BY <1>2, <1>4, SbbOutcome, SMT
  <1>9. /\ word.val = (d - s - ci) % n
        /\ "CF" \in word.fl <=> BitSet(d - s - ci, n)
        /\ "OF" \in word.fl <=>
             ~(BitSet((d % g) - (s % g) - ci, g) <=> BitSet(d - s - ci, n))
        /\ "SF" \in word.fl <=> BitSet(d - s - ci, g)
    BY <1>1, <1>4, <1>5, <1>6, SbbOutcome, SMT
  <1>10. PICK r1 : r1 = a1 - b1 - ci
    OBVIOUS
  <1>11. PICK lo : lo = r1 % m
    OBVIOUS
  <1>12. PICK r2 : r2 = a2 - b2 - k
    OBVIOUS
  <1>13. PICK r3 : r3 = (a2 % h) - (b2 % h) - k
    OBVIOUS
  <1>14. PICK rw : rw = d - s - ci
    OBVIOUS
  <1>15. PICK rv : rv = (d % g) - (s % g) - ci
    OBVIOUS
  <1>16. r1 \in Int /\ lo \in 0 .. 255 /\ r1 = lo - 256 * k
    <2>1. k = IF BitSet(r1, m) THEN 1 ELSE 0
      BY <1>2, <1>7, <1>10, Zenon DEF CarryOf
    <2>2. r1 \in -256 .. 255
      BY <1>3, <1>10 DEF Widths
    <2>3. m = 256 /\ k \in Int /\ r1 \in Int
      BY <1>3, <2>2 DEF Widths
    <2> QED BY <1>11, <2>1, <2>2, <2>3, ByteParts, SMTT(20)
  <1>17. rw \in Int /\ r2 \in Int /\ rw - 256 * r2 = lo
    BY <1>3, <1>5, <1>6, <1>10, <1>12, <1>14, <1>16 DEF Widths
  <1>18. rv \in Int /\ r3 \in Int /\ rv - 256 * r3 = lo
    <2>1. d % g = 256 * (a2 % h) + a1 /\ s % g = 256 * (b2 % h) + b1
      BY <1>5, <1>6 DEF Widths
    <2>2. PICK a3 : a3 = a2 % h
      OBVIOUS
    <2>3. PICK b3 : b3 = b2 % h
      OBVIOUS
    <2>4. a3 \in Int /\ b3 \in Int
      BY <2>2, <2>3 DEF Widths
    <2>5. rv = (256 * a3 + a1) - (256 * b3 + b1) - ci /\ r3 = a3 - b3 - k
      BY <1>13, <1>15, <2>1, <2>2, <2>3
    <2> QED BY <1>3, <1>10, <1>16, <2>4, <2>5 DEF Widths
  <1>19. /\ rw % n = m * (r2 % m) + lo
         /\ BitSet(rw, n) <=> BitSet(r2, m)
         /\ BitSet(rw, g) <=> BitSet(r2, h)
    BY <1>16, <1>17, HighPart DEF Widths
  <1>20. BitSet(rv, g) <=> BitSet(r3, h)
    BY <1>16, <1>18, HighPart DEF Widths
  <1>21. word.val = m * high.val + low.val
    BY <1>7, <1>8, <1>9, <1>10, <1>11, <1>12, <1>14, <1>19, Zenon
  <1>22. /\ "CF" \in word.fl <=> "CF" \in high.fl
         /\ "SF" \in word.fl <=> "SF" \in high.fl
         /\ "OF" \in word.fl <=> "OF" \in high.fl
    BY <1>8, <1>9, <1>12, <1>13, <1>14, <1>15, <1>19, <1>20, Zenon
  <1> QED BY <1>21, <1>22

-----------------------------------------------------------------------------
(* Decimal and ASCII adjustment. *)

(* The remainder of a number near the range of a byte. *)
LEMMA ByteRemainder ==
  ASSUME NEW i \in -256 .. 511
  PROVE  /\ i % 256 \in 0 .. 255
         /\ i < 0 => i % 256 = i + 256
         /\ i >= 0 /\ i < 256 => i % 256 = i
         /\ i >= 256 => i % 256 = i - 256
  OBVIOUS

(* Two decimal digits and their binary sum, before and after DAA. *)
SumAdjusted(p, q, u, v, ci, s, al, af, cf, low, t, high, res, total) ==
  /\ p \in 0 .. 9
  /\ q \in 0 .. 9
  /\ u \in 0 .. 9
  /\ v \in 0 .. 9
  /\ ci \in {0, 1}
  /\ s = (16 * p + q) + (16 * u + v) + ci
  /\ al = s % 256
  /\ af \in BOOLEAN
  /\ af <=> q + v + ci >= 16
  /\ cf \in BOOLEAN
  /\ cf <=> s >= 256
  /\ low \in BOOLEAN
  /\ low <=> al % 16 > 9 \/ af
  /\ t = IF low THEN al + 6 ELSE al
  /\ high \in BOOLEAN
  /\ high <=> t % 256 > 159 \/ t > 255 \/ cf
  /\ res = (IF high THEN t + 96 ELSE t) % 256
  /\ total = (10 * p + q) + (10 * u + v) + ci

(* DAA gives the decimal digits of the sum and carries above 99. *)
LEMMA DecimalSum ==
  ASSUME NEW p, NEW q, NEW u, NEW v, NEW ci, NEW s, NEW al, NEW af, NEW cf,
         NEW low, NEW t, NEW high, NEW res, NEW total,
         SumAdjusted(p, q, u, v, ci, s, al, af, cf, low, t, high, res, total)
  PROVE  /\ res % 16 < 10 /\ res \div 16 < 10
         /\ 10 * (res \div 16) + (res % 16) = total % 100
         /\ high <=> total > 99
  <1> USE DEF SumAdjusted
  <1>1. PICK z \in 0 .. 19 : z = q + v + ci
    OBVIOUS
  <1>2. PICK w \in 0 .. 18 : w = p + u
    OBVIOUS
  <1>3. s = 16 * w + z /\ total = 10 * w + z /\ s \in 0 .. 307
    BY <1>1, <1>2
  <1>4. al \in 0 .. 255 /\ (s < 256 => al = s) /\ (s >= 256 => al = s - 256)
    <2>1. al = s % 256 /\ s \in -256 .. 511
      BY <1>3
    <2> QED BY <1>3, <2>1, ByteRemainder
  <1>5. al % 16 = z % 16
    BY <1>3, <1>4
  <1>6. low <=> z >= 10
    BY <1>1, <1>5
  <1>7. CASE z < 10
    <2>1. t = al /\ ~low
      BY <1>6, <1>7
    <2>2. CASE w < 10
      <3>1. t % 256 = 16 * w + z /\ ~high
        BY <1>3, <1>4, <1>7, <2>1, <2>2
      <3>2. res = 16 * w + z
        <4>1. res = t % 256
          BY <3>1
        <4> QED BY <3>1, <4>1
      <3> QED BY <1>3, <1>7, <2>2, <3>1, <3>2
    <2>3. CASE w >= 10
      <3>1. high
        BY <1>3, <1>4, <1>7, <2>1, <2>3
      <3>2. res = 16 * (w - 10) + z
        BY <1>3, <1>4, <1>7, <2>1, <2>3, <3>1
      <3> QED BY <1>3, <1>7, <2>3, <3>1, <3>2
    <2> QED BY <2>2, <2>3
  <1>8. CASE z >= 10
    <2>1. t = al + 6 /\ low
      BY <1>6, <1>8
    <2>2. CASE w < 9
      <3>1. t % 256 = 16 * (w + 1) + (z - 10) /\ ~high
        BY <1>3, <1>4, <1>8, <2>1, <2>2
      <3>2. res = 16 * (w + 1) + (z - 10)
        <4>1. res = t % 256
          BY <3>1
        <4> QED BY <3>1, <4>1
      <3> QED BY <1>3, <1>8, <2>2, <3>1, <3>2
    <2>3. CASE w >= 9
      <3>1. high
        BY <1>3, <1>4, <1>8, <2>1, <2>3
      <3>2. res = 16 * (w - 9) + (z - 10)
        BY <1>3, <1>4, <1>8, <2>1, <2>3, <3>1
      <3> QED BY <1>3, <1>8, <2>3, <3>1, <3>2
    <2> QED BY <2>2, <2>3
  <1> QED BY <1>7, <1>8

DifferenceAdjusted(p, q, u, v, ci, s, al, af, cf, low, t, high, res, rest) ==
  /\ p \in 0 .. 9
  /\ q \in 0 .. 9
  /\ u \in 0 .. 9
  /\ v \in 0 .. 9
  /\ ci \in {0, 1}
  /\ s = (16 * p + q) - (16 * u + v) - ci
  /\ al = s % 256
  /\ af \in BOOLEAN
  /\ af <=> q - v - ci < 0
  /\ cf \in BOOLEAN
  /\ cf <=> s < 0
  /\ low \in BOOLEAN
  /\ low <=> al % 16 > 9 \/ af
  /\ t = IF low THEN al - 6 ELSE al
  /\ high \in BOOLEAN
  /\ high <=> t % 256 > 159 \/ t < 0 \/ cf
  /\ res = (IF high THEN t - 96 ELSE t) % 256
  /\ rest = (10 * p + q) - (10 * u + v) - ci

(* DAS gives the decimal digits of the difference and borrows below 0. *)
LEMMA DecimalDifference ==
  ASSUME NEW p, NEW q, NEW u, NEW v, NEW ci, NEW s, NEW al, NEW af, NEW cf,
         NEW low, NEW t, NEW high, NEW res, NEW rest,
         DifferenceAdjusted(p, q, u, v, ci, s, al, af, cf, low, t, high, res, rest)
  PROVE  /\ res % 16 < 10 /\ res \div 16 < 10
         /\ 10 * (res \div 16) + (res % 16) = rest % 100
         /\ high <=> rest < 0
  <1> USE DEF DifferenceAdjusted
  <1>1. PICK z \in -10 .. 9 : z = q - v - ci
    OBVIOUS
  <1>2. PICK w \in -9 .. 9 : w = p - u
    OBVIOUS
  <1>3. s = 16 * w + z /\ rest = 10 * w + z /\ s \in -154 .. 153
    BY <1>1, <1>2
  <1>4. al \in 0 .. 255 /\ (s >= 0 => al = s) /\ (s < 0 => al = s + 256)
    <2>1. al = s % 256 /\ s \in -256 .. 511
      BY <1>3
    <2> QED BY <1>3, <2>1, ByteRemainder
  <1>5. al % 16 = z % 16
    BY <1>3, <1>4
  <1>6. low <=> z < 0
    BY <1>1, <1>5
  <1>7. CASE z >= 0
    <2>1. t = al /\ ~low
      BY <1>6, <1>7
    <2>2. CASE w >= 0
      <3>1. t % 256 = 16 * w + z /\ ~high
        BY <1>3, <1>4, <1>7, <2>1, <2>2
      <3>2. res = 16 * w + z
        <4>1. res = t % 256
          BY <3>1
        <4> QED BY <3>1, <4>1
      <3> QED BY <1>3, <1>7, <2>2, <3>1, <3>2
    <2>3. CASE w < 0
      <3>1. high
        BY <1>3, <1>4, <1>7, <2>1, <2>3
      <3>2. res = 16 * (w + 10) + z
        BY <1>3, <1>4, <1>7, <2>1, <2>3, <3>1
      <3> QED BY <1>3, <1>7, <2>3, <3>1, <3>2
    <2> QED BY <2>2, <2>3
  <1>8. CASE z < 0
    <2>1. t = al - 6 /\ low
      BY <1>6, <1>8
    <2>2. CASE w > 0
      <3>1. t % 256 = 16 * (w - 1) + (z + 10) /\ ~high
        BY <1>3, <1>4, <1>8, <2>1, <2>2
      <3>2. res = 16 * (w - 1) + (z + 10)
        <4>1. res = t % 256
          BY <3>1
        <4> QED BY <3>1, <4>1
      <3> QED BY <1>3, <1>8, <2>2, <3>1, <3>2
    <2>3. CASE w <= 0
      <3>1. high
        BY <1>3, <1>4, <1>8, <2>1, <2>3
      <3>2. res = 16 * (w + 9) + (z + 10)
        BY <1>3, <1>4, <1>8, <2>1, <2>3, <3>1
      <3> QED BY <1>3, <1>8, <2>3, <3>1, <3>2
    <2> QED BY <2>2, <2>3
  <1> QED BY <1>7, <1>8

(* CF and AF of ADC are the carries out of the byte and of its low digit. *)
LEMMA ByteSum ==
  ASSUME NEW m, NEW n, NEW h, NEW g, Widths(m, n, h, g), NEW fl,
         NEW ci, ci = CarryOf(fl), NEW a \in 0 .. m - 1, NEW b \in 0 .. m - 1,
         NEW out, out = adc(m, fl, a, b)
  PROVE  /\ out.val = (a + b + ci) % m
         /\ "CF" \in out.fl <=> a + b + ci >= m
         /\ "AF" \in out.fl <=> (a % 16) + (b % 16) + ci >= 16
  <1>1. /\ out.val = (a + b + ci) % m
        /\ "CF" \in out.fl <=> BitSet(a + b + ci, m)
        /\ "AF" \in out.fl <=> BitSet((a % 16) + (b % 16) + ci, 16)
    <2>1. h = m \div 2
      BY DEF Widths
    <2> QED BY <2>1, AdcOutcome, SMT
  <1>2. ci \in {0, 1}
    BY DEF CarryOf
  <1>3. PICK r : r = a + b + ci
    OBVIOUS
  <1>4. BitSet(r, m) <=> r >= m
    <2>1. r \in Int /\ r >= 0 /\ r < 512 /\ m = 256
      BY <1>2, <1>3 DEF Widths
    <2>2. r \div 256 = IF r >= 256 THEN 1 ELSE 0
      BY <2>1
    <2> QED BY <2>1, <2>2 DEF BitSet
  <1>5. PICK z : z = (a % 16) + (b % 16) + ci
    OBVIOUS
  <1>6. BitSet(z, 16) <=> z >= 16
    <2>1. PICK a0 \in 0 .. 15 : a0 = a % 16
      BY DEF Widths
    <2>2. PICK b0 \in 0 .. 15 : b0 = b % 16
      BY DEF Widths
    <2>3. z \in Int /\ z >= 0 /\ z < 32
      BY <1>2, <1>5, <2>1, <2>2
    <2>4. z \div 16 = IF z >= 16 THEN 1 ELSE 0
      BY <2>3
    <2> QED BY <2>3, <2>4 DEF BitSet
  <1> QED BY <1>1, <1>3, <1>4, <1>5, <1>6

(* CF and AF of SBB are the borrows of the byte and of its low digit. *)
LEMMA ByteDifference ==
  ASSUME NEW m, NEW n, NEW h, NEW g, Widths(m, n, h, g), NEW fl,
         NEW ci, ci = CarryOf(fl), NEW a \in 0 .. m - 1, NEW b \in 0 .. m - 1,
         NEW out, out = sbb(m, fl, a, b)
  PROVE  /\ out.val = (a - b - ci) % m
         /\ "CF" \in out.fl <=> a - b - ci < 0
         /\ "AF" \in out.fl <=> (a % 16) - (b % 16) - ci < 0
  <1>1. /\ out.val = (a - b - ci) % m
        /\ "CF" \in out.fl <=> BitSet(a - b - ci, m)
        /\ "AF" \in out.fl <=> BitSet((a % 16) - (b % 16) - ci, 16)
    <2>1. h = m \div 2
      BY DEF Widths
    <2> QED BY <2>1, SbbOutcome, SMT
  <1>2. ci \in {0, 1}
    BY DEF CarryOf
  <1>3. PICK r : r = a - b - ci
    OBVIOUS
  <1>4. BitSet(r, m) <=> r < 0
    <2>1. r \in Int /\ r >= -256 /\ r < 256 /\ m = 256
      BY <1>2, <1>3 DEF Widths
    <2>2. r \div 256 = IF r < 0 THEN -1 ELSE 0
      BY <2>1
    <2> QED BY <2>1, <2>2 DEF BitSet
  <1>5. PICK z : z = (a % 16) - (b % 16) - ci
    OBVIOUS
  <1>6. BitSet(z, 16) <=> z < 0
    <2>1. PICK a0 \in 0 .. 15 : a0 = a % 16
      BY DEF Widths
    <2>2. PICK b0 \in 0 .. 15 : b0 = b % 16
      BY DEF Widths
    <2>3. z \in Int /\ z >= -16 /\ z < 16
      BY <1>2, <1>5, <2>1, <2>2
    <2>4. z \div 16 = IF z < 0 THEN -1 ELSE 0
      BY <2>3
    <2> QED BY <2>3, <2>4 DEF BitSet
  <1> QED BY <1>1, <1>3, <1>4, <1>5, <1>6

(* AL and CF of daa from its two conditions. *)
LEMMA DaaFields ==
  ASSUME NEW fl, NEW al,
         NEW low \in BOOLEAN, low <=> al % 16 > 9 \/ "AF" \in fl,
         NEW t, t = IF low THEN al + 6 ELSE al,
         NEW high \in BOOLEAN, high <=> t % 256 > 159 \/ t > 255 \/ "CF" \in fl
  PROVE  /\ daa(fl, al).al = (IF high THEN t + 96 ELSE t) % 256
         /\ "CF" \in daa(fl, al).fl <=> high
  <1> DEFINE L == al % 16 > 9 \/ "AF" \in fl
             T == IF L THEN al + 6 ELSE al
             H == T % 256 > 16 * 9 + 15 \/ T > 255 \/ "CF" \in fl
             F == (fl \ {"AF"}) \cup When(L, "AF") \cup When(H, "CF")
  <1>1. daa(fl, al) = [al |-> (IF H THEN T + 96 ELSE T) % 256, fl |-> F]
    BY Zenon DEF daa
  <1>2. T = t
    OBVIOUS
  <1>3. H <=> high
    <2>1. 16 * 9 + 15 = 159
      OBVIOUS
    <2> HIDE DEF T
    <2> QED BY <1>2, <2>1
  <1>4. "CF" \in F <=> H
    <2>1. "CF" \in fl => H
      OBVIOUS
    <2> HIDE DEF H, L
    <2> QED BY <2>1, FlagsDistinct DEF When
  <1> HIDE DEF T, H, F
  <1> QED BY <1>1, <1>2, <1>3, <1>4

(* AL and CF of das from its two conditions. *)
LEMMA DasFields ==
  ASSUME NEW fl, NEW al,
         NEW low \in BOOLEAN, low <=> al % 16 > 9 \/ "AF" \in fl,
         NEW t, t = IF low THEN al - 6 ELSE al,
         NEW high \in BOOLEAN, high <=> t % 256 > 159 \/ t < 0 \/ "CF" \in fl
  PROVE  /\ das(fl, al).al = (IF high THEN t - 96 ELSE t) % 256
         /\ "CF" \in das(fl, al).fl <=> high
  <1> DEFINE L == al % 16 > 9 \/ "AF" \in fl
             T == IF L THEN al - 6 ELSE al
             H == T % 256 > 16 * 9 + 15 \/ T < 0 \/ "CF" \in fl
             V == (IF H THEN T - 96 ELSE T) % 256
             F == (fl \ {"AF", "CF"}) \cup When(L, "AF") \cup When(H, "CF")
                  \cup When(V >= 128, "SF") \cup When(V = 0, "ZF") \cup When(EvenParity(V), "PF")
  <1>1. das(fl, al) = [al |-> V, fl |-> F]
    BY Zenon DEF das
  <1>2. T = t
    OBVIOUS
  <1>3. H <=> high
    <2>1. 16 * 9 + 15 = 159
      OBVIOUS
    <2> HIDE DEF T
    <2> QED BY <1>2, <2>1
  <1>4. "CF" \in F <=> H
    <2> HIDE DEF H, L, V
    <2> QED BY FlagsDistinct DEF When
  <1>5. V = (IF high THEN t - 96 ELSE t) % 256
    <2> HIDE DEF T, H
    <2> QED BY <1>2, <1>3
  <1> HIDE DEF T, H, F, V
  <1> QED BY <1>1, <1>3, <1>4, <1>5

(* ADC; DAA on packed decimal bytes is decimal addition with carry. *)
LEMMA DecimalAdc ==
  ASSUME NEW m, NEW n, NEW h, NEW g, Widths(m, n, h, g), NEW fl,
         NEW ci, ci = CarryOf(fl), NEW a \in 0 .. m - 1, NEW b \in 0 .. m - 1,
         IsBCD(a), IsBCD(b),
         NEW out, out = adc(m, fl, a, b), NEW adj, adj = daa(out.fl, out.val)
  PROVE  LET total == FromBCD(a) + FromBCD(b) + ci
         IN /\ IsBCD(adj.al) /\ FromBCD(adj.al) = total % 100
            /\ "CF" \in adj.fl <=> total > 99
  <1>1. ci \in {0, 1}
    BY DEF CarryOf
  <1>2. PICK p \in 0 .. 9, q \in 0 .. 9 : a = 16 * p + q /\ q = a % 16 /\ p = a \div 16
    <2>1. a % 16 \in 0 .. 9 /\ a \div 16 \in 0 .. 9 /\ a = 16 * (a \div 16) + (a % 16)
      BY DEF Widths, IsBCD
    <2> QED BY <2>1
  <1>3. PICK u \in 0 .. 9, v \in 0 .. 9 : b = 16 * u + v /\ v = b % 16 /\ u = b \div 16
    <2>1. b % 16 \in 0 .. 9 /\ b \div 16 \in 0 .. 9 /\ b = 16 * (b \div 16) + (b % 16)
      BY DEF Widths, IsBCD
    <2> QED BY <2>1
  <1>4. /\ out.val = (a + b + ci) % m
        /\ "CF" \in out.fl <=> a + b + ci >= m
        /\ "AF" \in out.fl <=> (a % 16) + (b % 16) + ci >= 16
    BY ByteSum, SMT
  <1>5. PICK s : s = (16 * p + q) + (16 * u + v) + ci
    OBVIOUS
  <1>6. PICK al : al = s % 256
    OBVIOUS
  <1>7. PICK f : f = out.fl
    OBVIOUS
  <1>8. al = out.val /\ adj = daa(f, al)
    BY <1>2, <1>3, <1>4, <1>5, <1>6, <1>7 DEF Widths
  <1>9. PICK af \in BOOLEAN : af <=> "AF" \in f
    OBVIOUS
  <1>10. PICK cf \in BOOLEAN : cf <=> "CF" \in f
    OBVIOUS
  <1>11. PICK low \in BOOLEAN : low <=> al % 16 > 9 \/ af
    OBVIOUS
  <1>12. PICK t : t = IF low THEN al + 6 ELSE al
    OBVIOUS
  <1>13. PICK high \in BOOLEAN : high <=> t % 256 > 159 \/ t > 255 \/ cf
    OBVIOUS
  <1>14. PICK res : res = (IF high THEN t + 96 ELSE t) % 256
    OBVIOUS
  <1>15. PICK total : total = (10 * p + q) + (10 * u + v) + ci
    OBVIOUS
  <1>16. adj.al = res /\ ("CF" \in adj.fl <=> high)
    BY <1>8, <1>9, <1>10, <1>11, <1>12, <1>13, <1>14, DaaFields, SMT
  <1>17. (af <=> q + v + ci >= 16) /\ (cf <=> s >= 256)
    BY <1>2, <1>3, <1>4, <1>5, <1>7, <1>9, <1>10 DEF Widths
  <1>18. /\ res % 16 < 10 /\ res \div 16 < 10
         /\ 10 * (res \div 16) + (res % 16) = total % 100
         /\ high <=> total > 99
    <2>1. SumAdjusted(p, q, u, v, ci, s, al, af, cf, low, t, high, res, total)
      BY <1>1, <1>5, <1>6, <1>11, <1>12, <1>13, <1>14, <1>15, <1>17 DEF SumAdjusted
    <2> QED BY <2>1, DecimalSum, SMT
  <1>19. FromBCD(a) + FromBCD(b) + ci = total
    BY <1>2, <1>3, <1>15 DEF FromBCD
  <1> QED BY <1>16, <1>18, <1>19 DEF IsBCD, FromBCD

(* SBB; DAS on packed decimal bytes is decimal subtraction with borrow. *)
LEMMA DecimalSbb ==
  ASSUME NEW m, NEW n, NEW h, NEW g, Widths(m, n, h, g), NEW fl,
         NEW ci, ci = CarryOf(fl), NEW a \in 0 .. m - 1, NEW b \in 0 .. m - 1,
         IsBCD(a), IsBCD(b),
         NEW out, out = sbb(m, fl, a, b), NEW adj, adj = das(out.fl, out.val)
  PROVE  LET total == FromBCD(a) - FromBCD(b) - ci
         IN /\ IsBCD(adj.al) /\ FromBCD(adj.al) = total % 100
            /\ "CF" \in adj.fl <=> total < 0
  <1>1. ci \in {0, 1}
    BY DEF CarryOf
  <1>2. PICK p \in 0 .. 9, q \in 0 .. 9 : a = 16 * p + q /\ q = a % 16 /\ p = a \div 16
    <2>1. a % 16 \in 0 .. 9 /\ a \div 16 \in 0 .. 9 /\ a = 16 * (a \div 16) + (a % 16)
      BY DEF Widths, IsBCD
    <2> QED BY <2>1
  <1>3. PICK u \in 0 .. 9, v \in 0 .. 9 : b = 16 * u + v /\ v = b % 16 /\ u = b \div 16
    <2>1. b % 16 \in 0 .. 9 /\ b \div 16 \in 0 .. 9 /\ b = 16 * (b \div 16) + (b % 16)
      BY DEF Widths, IsBCD
    <2> QED BY <2>1
  <1>4. /\ out.val = (a - b - ci) % m
        /\ "CF" \in out.fl <=> a - b - ci < 0
        /\ "AF" \in out.fl <=> (a % 16) - (b % 16) - ci < 0
    BY ByteDifference, SMT
  <1>5. PICK s : s = (16 * p + q) - (16 * u + v) - ci
    OBVIOUS
  <1>6. PICK al : al = s % 256
    OBVIOUS
  <1>7. PICK f : f = out.fl
    OBVIOUS
  <1>8. al = out.val /\ adj = das(f, al)
    BY <1>2, <1>3, <1>4, <1>5, <1>6, <1>7 DEF Widths
  <1>9. PICK af \in BOOLEAN : af <=> "AF" \in f
    OBVIOUS
  <1>10. PICK cf \in BOOLEAN : cf <=> "CF" \in f
    OBVIOUS
  <1>11. PICK low \in BOOLEAN : low <=> al % 16 > 9 \/ af
    OBVIOUS
  <1>12. PICK t : t = IF low THEN al - 6 ELSE al
    OBVIOUS
  <1>13. PICK high \in BOOLEAN : high <=> t % 256 > 159 \/ t < 0 \/ cf
    OBVIOUS
  <1>14. PICK res : res = (IF high THEN t - 96 ELSE t) % 256
    OBVIOUS
  <1>15. PICK total : total = (10 * p + q) - (10 * u + v) - ci
    OBVIOUS
  <1>16. adj.al = res /\ ("CF" \in adj.fl <=> high)
    BY <1>8, <1>9, <1>10, <1>11, <1>12, <1>13, <1>14, DasFields, SMT
  <1>17. (af <=> q - v - ci < 0) /\ (cf <=> s < 0)
    BY <1>2, <1>3, <1>4, <1>5, <1>7, <1>9, <1>10 DEF Widths
  <1>18. /\ res % 16 < 10 /\ res \div 16 < 10
         /\ 10 * (res \div 16) + (res % 16) = total % 100
         /\ high <=> total < 0
    <2>1. DifferenceAdjusted(p, q, u, v, ci, s, al, af, cf, low, t, high, res, total)
      BY <1>1, <1>5, <1>6, <1>11, <1>12, <1>13, <1>14, <1>15, <1>17 DEF DifferenceAdjusted
    <2> QED BY <2>1, DecimalDifference, SMT
  <1>19. FromBCD(a) - FromBCD(b) - ci = total
    BY <1>2, <1>3, <1>15 DEF FromBCD
  <1> QED BY <1>16, <1>18, <1>19 DEF IsBCD, FromBCD

(* AH and AL as decimal digits after an adjustment of 5 with the result s. *)
Shows(adj, s) == 10 * adj.ah + adj.al = 50 + s

(* ADC; AAA on digits carries into AH. *)
LEMMA AsciiAdc ==
  ASSUME NEW m, NEW n, NEW h, NEW g, Widths(m, n, h, g), NEW fl,
         NEW ci \in {0, 1}, ci = CarryOf(fl), NEW a \in 0 .. 9, NEW b \in 0 .. 9,
         NEW out, out = adc(m, fl, a, b), NEW adj, adj = aaa(out.fl, out.val, 5)
  PROVE  Shows(adj, a + b + ci)
  <1>1. ci \in {0, 1}
    BY DEF CarryOf
  <1>2. a \in 0 .. m - 1 /\ b \in 0 .. m - 1
    BY DEF Widths
  <1>3. /\ out.val = (a + b + ci) % m
        /\ "AF" \in out.fl <=> (a % 16) + (b % 16) + ci >= 16
    BY <1>2, ByteSum, SMT
  <1>4. PICK s : s = a + b + ci
    OBVIOUS
  <1>5. s \in 0 .. 19 /\ a % 16 = a /\ b % 16 = b
    <2>1. s \in 0 .. 19
      BY <1>4
    <2>2. a % 16 = a /\ b % 16 = b
      OBVIOUS
    <2> QED BY <2>1, <2>2
  <1>6. out.val = s % 256 /\ ("AF" \in out.fl <=> s >= 16)
    BY <1>3, <1>4, <1>5 DEF Widths
  <1>7. PICK al : al = s % 256
    OBVIOUS
  <1>8. al % 16 > 9 \/ s >= 16 <=> s >= 10
    BY <1>5, <1>7
  <1>9. /\ adj.al = IF s >= 10 THEN (al + 6) % 16 ELSE al
        /\ adj.ah = IF s >= 10 THEN (5 + 1) % 256 ELSE 5
    BY <1>6, <1>7, <1>8 DEF aaa
  <1>10. CASE s >= 10
    <2>1. al = s
      BY <1>5, <1>7, <1>10
    <2>2. adj.al = s - 10 /\ adj.ah = 6
      BY <1>5, <1>9, <1>10, <2>1
    <2> QED BY <1>4, <1>5, <2>2 DEF Shows
  <1>11. CASE ~(s >= 10)
    BY <1>4, <1>5, <1>7, <1>9, <1>11 DEF Shows
  <1> QED BY <1>10, <1>11

(* SBB; AAS on digits borrows from AH. *)
LEMMA AsciiSbb ==
  ASSUME NEW m, NEW n, NEW h, NEW g, Widths(m, n, h, g), NEW fl,
         NEW ci \in {0, 1}, ci = CarryOf(fl), NEW a \in 0 .. 9, NEW b \in 0 .. 9,
         NEW out, out = sbb(m, fl, a, b), NEW adj, adj = aas(out.fl, out.val, 5)
  PROVE  Shows(adj, a - b - ci)
  <1>1. ci \in {0, 1}
    BY DEF CarryOf
  <1>2. a \in 0 .. m - 1 /\ b \in 0 .. m - 1
    BY DEF Widths
  <1>3. /\ out.val = (a - b - ci) % m
        /\ "AF" \in out.fl <=> (a % 16) - (b % 16) - ci < 0
    <2>1. PICK a0 : a0 = a
      OBVIOUS
    <2>2. PICK b0 : b0 = b
      OBVIOUS
    <2>3. PICK k : k = ci
      OBVIOUS
    <2>4. a0 \in 0 .. m - 1 /\ b0 \in 0 .. m - 1 /\ k = CarryOf(fl) /\ out = sbb(m, fl, a0, b0)
      BY <1>2, <2>1, <2>2, <2>3
    <2>5. /\ out.val = (a0 - b0 - k) % m
          /\ "AF" \in out.fl <=> (a0 % 16) - (b0 % 16) - k < 0
      BY <2>4, ByteDifference, SMT
    <2> QED BY <2>1, <2>2, <2>3, <2>5
  <1>4. PICK s : s = a - b - ci
    OBVIOUS
  <1>5. s \in -10 .. 9 /\ a % 16 = a /\ b % 16 = b
    <2>1. s \in -10 .. 9
      BY <1>4
    <2>2. a % 16 = a /\ b % 16 = b
      OBVIOUS
    <2> QED BY <2>1, <2>2
  <1>6. out.val = s % 256 /\ ("AF" \in out.fl <=> s < 0)
    BY <1>3, <1>4, <1>5 DEF Widths
  <1>7. PICK al : al = s % 256
    OBVIOUS
  <1>8. al % 16 > 9 \/ s < 0 <=> s < 0
    BY <1>5, <1>7
  <1>9. /\ adj.al = IF s < 0 THEN (al - 6) % 16 ELSE al
        /\ adj.ah = IF s < 0 THEN (5 - 1) % 256 ELSE 5
    BY <1>6, <1>7, <1>8 DEF aas
  <1>10. CASE s < 0
    <2>1. al = s + 256
      BY <1>5, <1>7, <1>10
    <2>2. adj.al = s + 10 /\ adj.ah = 4
      BY <1>5, <1>9, <1>10, <2>1
    <2> QED BY <1>4, <1>5, <2>2 DEF Shows
  <1>11. CASE ~(s < 0)
    BY <1>4, <1>5, <1>7, <1>9, <1>11 DEF Shows
  <1> QED BY <1>10, <1>11

(* AAD puts together what AAM took apart. *)
LEMMA AsciiMultiply ==
  ASSUME NEW a \in 0 .. 255, NEW b \in 1 .. 255, NEW split, split = aam({}, a, b)
  PROVE  aad({}, split.al, split.ah, b).al = a
  <1>1. PICK q : q = a \div b
    OBVIOUS
  <1>2. PICK r : r = a % b
    OBVIOUS
  <1>3. q \in Int /\ r \in 0 .. b - 1 /\ a = q * b + r
    <2>1. a \in Int /\ b \in Nat \ {0}
      OBVIOUS
    <2>2. q \in Int /\ r \in 0 .. b - 1
      BY <1>1, <1>2, <2>1, SMT
    <2>3. b * q + r = a
      BY <1>1, <1>2, <2>1, <2>2, SMT
    <2> QED BY <2>2, <2>3, SMT
  <1>4. split.al = r /\ split.ah = q
    BY <1>1, <1>2 DEF aam
  <1>5. aad({}, r, q, b).al = (r + q * b) % 256
    BY DEF aad
  <1>6. r + q * b = a
    BY <1>3
  <1>7. a % 256 = a
    OBVIOUS
  <1> QED BY <1>4, <1>5, <1>6, <1>7

-----------------------------------------------------------------------------
(* Division. *)

(* The quotient of natural numbers, and when it is below a bound. *)
LEMMA NatQuotient ==
  ASSUME NEW A \in Nat, NEW D \in Nat \ {0}, NEW K \in Nat, NEW k, k = A \div D
  PROVE  /\ k \in Nat
         /\ A - k * D \in 0 .. D - 1
         /\ k < K <=> A < K * D
  <1>1. k \in Nat
    BY SMT
  <1>2. D * k <= A /\ A < D * k + D
    BY <1>1, SMT
  <1>3. A - k * D \in 0 .. D - 1
    BY <1>1, <1>2, SMT
  <1>4. ASSUME k < K PROVE A < K * D
    <2>1. D * (k + 1) <= D * K
      BY <1>1, <1>4, SMT
    <2> QED BY <1>1, <1>2, <2>1, SMT
  <1>5. ASSUME k >= K PROVE A >= K * D
    <2>1. D * K <= D * k
      BY <1>1, <1>5, SMT
    <2> QED BY <1>1, <1>2, <2>1, SMT
  <1>6. K * D \in Nat
    BY SMT
  <1> QED BY <1>1, <1>3, <1>4, <1>5, <1>6

(* DIV for every operand of every width: it is refused exactly when the    *)
(* quotient does not fit.                                                  *)
LEMMA DivExact ==
  ASSUME NEW m \in Nat \ {0}, NEW hi \in 0 .. m - 1, NEW lo \in 0 .. m - 1,
         NEW d \in 0 .. m - 1, NEW a, a = m * hi + lo, NEW u, u = div(m, hi, lo, d)
  PROVE  /\ u.ok <=> a < m * d
         /\ u.ok => a = u.q * d + u.r /\ u.r \in 0 .. d - 1
  <1>1. a \in Nat
    BY SMT
  <1>2. CASE d = 0
    <2>1. ~u.ok
      BY <1>2 DEF div
    <2>2. ~(a < m * d)
      BY <1>1, <1>2
    <2> QED BY <2>1, <2>2
  <1>3. CASE d # 0
    <2>1. PICK k : k = a \div d
      OBVIOUS
    <2>2. d \in Nat \ {0}
      BY <1>3
    <2>3. /\ k \in Nat
          /\ a - k * d \in 0 .. d - 1
          /\ k < m <=> a < m * d
      BY <1>1, <2>1, <2>2, NatQuotient
    <2>4. (u.ok <=> k < m) /\ u.q = k /\ u.r = a - k * d
      BY <1>3, <2>1 DEF div
    <2>5. k * d \in Int
      BY <2>2, <2>3, SMT
    <2>6. a = k * d + (a - k * d)
      BY <1>1, <2>5
    <2> QED BY <2>3, <2>4, <2>6
  <1> QED BY <1>2, <1>3

(* A sign-extended operand is a signed number of the width. *)
LEMMA SignedWidth ==
  ASSUME NEW h \in Nat \ {0}, NEW m \in Nat, m = 2 * h, NEW v \in 0 .. m - 1
  PROVE  sign_extend(m, v) \in -h .. h - 1
  BY DEF sign_extend

(* The quotient of a and b, rounded towards zero, is in -h .. h - 1. *)
QuotientFits(h, a, b) ==
  IF (a < 0) = (b < 0) THEN AbsVal(a) < h * AbsVal(b) ELSE AbsVal(a) < (h + 1) * AbsVal(b)

(* The truncated quotient and its remainder, by the signs. *)
Truncated(h, a, b, q) ==
  /\ q \in Int
  /\ q >= -h /\ q < h <=> QuotientFits(h, a, b)
  /\ AbsVal(a - q * b) < AbsVal(b)
  /\ a - q * b # 0 => (a - q * b < 0) = (a < 0)

(* What C++ division gives, whatever the two signs. *)
LEMMA TruncatedQuotient ==
  ASSUME NEW a \in Int, NEW b \in Int, b # 0, NEW h \in Nat \ {0}
  PROVE  Truncated(h, a, b, Quotient(a, b))
  <1>q. PICK q : q = Quotient(a, b)
    OBVIOUS
  <1>1. PICK A : A = AbsVal(a)
    OBVIOUS
  <1>2. PICK D : D = AbsVal(b)
    OBVIOUS
  <1>3. /\ A \in Nat /\ D \in Nat \ {0}
        /\ a < 0 => a = -A
        /\ a >= 0 => a = A
        /\ b < 0 => b = -D
        /\ b >= 0 => b = D
    BY <1>1, <1>2 DEF AbsVal
  <1>4. PICK k : k = A \div D
    OBVIOUS
  <1>5. /\ k \in Nat
        /\ A - k * D \in 0 .. D - 1
        /\ k < h <=> A < h * D
        /\ k < h + 1 <=> A < (h + 1) * D
    <2>1. h \in Nat /\ h + 1 \in Nat
      OBVIOUS
    <2> QED BY <1>3, <1>4, <2>1, NatQuotient
  <1>6. k * D \in Nat
    BY <1>3, <1>5, SMT
  <1>7. CASE (a < 0) = (b < 0)
    <2>1. q = k
      BY <1>1, <1>2, <1>4, <1>7, <1>q DEF Quotient
    <2>2. a < 0 => q * b = -(k * D)
      BY <1>3, <1>5, <1>7, <2>1, SMT
    <2>3. a >= 0 => q * b = k * D
      BY <1>3, <1>5, <1>7, <2>1, SMT
    <2>4. q \in Int /\ (q >= -h /\ q < h <=> A < h * D)
      BY <1>5, <2>1
    <2>5. /\ a < 0 => a - q * b = -(A - k * D)
          /\ a >= 0 => a - q * b = A - k * D
      BY <1>3, <1>6, <2>2, <2>3
    <2> QED BY <1>1, <1>2, <1>3, <1>5, <1>6, <1>7, <2>4, <2>5, <1>q DEF AbsVal, QuotientFits, Truncated
  <1>8. CASE (a < 0) # (b < 0)
    <2>1. q = -k
      BY <1>1, <1>2, <1>4, <1>8, <1>q DEF Quotient
    <2>2. a < 0 => q * b = -(k * D)
      BY <1>3, <1>5, <1>8, <2>1, SMT
    <2>3. a >= 0 => q * b = k * D
      BY <1>3, <1>5, <1>8, <2>1, SMT
    <2>4. q \in Int /\ (q >= -h /\ q < h <=> A < (h + 1) * D)
      BY <1>5, <2>1
    <2>5. /\ a < 0 => a - q * b = -(A - k * D)
          /\ a >= 0 => a - q * b = A - k * D
      BY <1>3, <1>6, <2>2, <2>3
    <2> QED BY <1>1, <1>2, <1>3, <1>5, <1>6, <1>8, <2>4, <2>5, <1>q DEF AbsVal, QuotientFits, Truncated
  <1> QED BY <1>7, <1>8

(* An outcome s of the signed division of a by b. *)
SignedOutcome(h, a, b, s) ==
  /\ s.ok <=> QuotientFits(h, a, b)
  /\ s.ok => /\ a = s.q * b + s.r
             /\ AbsVal(s.r) < AbsVal(b)
             /\ s.r # 0 => (s.r < 0) = (a < 0)

(* IDIV for every operand of every even width: it is refused exactly when  *)
(* the quotient, rounded towards zero, does not fit the signed range, and  *)
(* the remainder has the sign of the dividend.                             *)
LEMMA IdivExact ==
  ASSUME NEW h \in Nat \ {0}, NEW m \in Nat, m = 2 * h,
         NEW hi \in 0 .. m - 1, NEW lo \in 0 .. m - 1, NEW d \in 0 .. m - 1,
         NEW a, a = m * sign_extend(m, hi) + lo, NEW b, b = sign_extend(m, d),
         NEW s, s = idiv(m, hi, lo, d)
  PROVE  SignedOutcome(h, a, b, s)
  <1>1. PICK e : e = sign_extend(m, hi)
    OBVIOUS
  <1>2. e \in Int /\ b \in Int
    BY <1>1, SignedWidth
  <1>3. a \in Int
    BY <1>1, <1>2, SMT
  <1>4. m \div 2 = h
    OBVIOUS
  <1>5. CASE b = 0
    <2>1. ~s.ok
      BY <1>5 DEF idiv
    <2>2. AbsVal(a) \in Nat /\ AbsVal(b) = 0
      BY <1>3, <1>5 DEF AbsVal
    <2>3. h * AbsVal(b) = 0 /\ (h + 1) * AbsVal(b) = 0
      BY <2>2, SMT
    <2> QED BY <2>1, <2>2, <2>3 DEF QuotientFits, SignedOutcome
  <1>6. CASE b # 0
    <2>1. PICK q : q = Quotient(a, b)
      OBVIOUS
    <2>2. /\ q \in Int
          /\ q >= -h /\ q < h <=> QuotientFits(h, a, b)
          /\ AbsVal(a - q * b) < AbsVal(b)
          /\ a - q * b # 0 => (a - q * b < 0) = (a < 0)
      <3>1. Truncated(h, a, b, q)
        BY <1>2, <1>3, <1>6, <2>1, TruncatedQuotient, Zenon
      <3> QED BY <3>1, Zenon DEF Truncated
    <2>3. (s.ok <=> q >= -h /\ q < h) /\ s.q = q /\ s.r = a - q * b
      BY <1>4, <1>6, <2>1 DEF idiv
    <2>4. q * b \in Int
      BY <1>2, <2>2, SMT
    <2>5. a = q * b + (a - q * b)
      BY <1>3, <2>4
    <2> QED BY <2>2, <2>3, <2>5 DEF SignedOutcome
  <1> QED BY <1>5, <1>6

(* The two halves of a product put together. *)
LEMMA Halves ==
  ASSUME NEW m \in Nat \ {0}, NEW P \in Int
  PROVE  P \div m \in Int /\ P % m \in 0 .. m - 1 /\ P = m * (P \div m) + (P % m)
  <1>1. PICK e : e = P \div m
    OBVIOUS
  <1>2. PICK l : l = P % m
    OBVIOUS
  <1>3. e \in Int /\ l \in 0 .. m - 1
    BY <1>1, <1>2, SMT
  <1>4. m * e + l = P
    BY <1>1, <1>2, <1>3, SMT
  <1> QED BY <1>1, <1>2, <1>3, <1>4, Zenon

(* DIV undoes MUL for every width. *)
LEMMA DivUndoesMul ==
  ASSUME NEW m \in Nat \ {0}, NEW v1 \in 0 .. m - 1, NEW v2 \in 1 .. m - 1, NEW fl,
         NEW p, p = mul(m, fl, v1, v2)
  PROVE  div(m, p.hi, p.lo, v2) = [ok |-> TRUE, q |-> v1, r |-> 0]
  <1>1. PICK P : P = v1 * v2
    OBVIOUS
  <1>2. P \in Nat /\ P \in Int /\ P < m * m
    BY <1>1, SMT
  <1>3. PICK e : e = P \div m
    OBVIOUS
  <1>4. PICK l : l = P % m
    OBVIOUS
  <1>5. e \in Int /\ l \in 0 .. m - 1 /\ P = m * e + l
    BY <1>2, <1>3, <1>4, Halves, Zenon
  <1>6. e \in 0 .. m - 1
    BY <1>2, <1>3, SMT
  <1>7. e % m = e
    BY <1>6, SMT
  <1>8. p.lo = l /\ p.hi = e
    BY <1>1, <1>3, <1>4, <1>7 DEF mul, Product, do_mul
  <1>9. P \div v2 = v1
    BY <1>1, SMT
  <1>10. P - v1 * v2 = 0
    BY <1>1, <1>2
  <1>11. v2 # 0 /\ v1 < m
    OBVIOUS
  <1>12. m * e + l = P
    BY <1>5
  <1> QED BY <1>8, <1>9, <1>10, <1>11, <1>12 DEF div

(* The truncated quotient of a product by one of its factors. *)
LEMMA QuotientOfProduct ==
  ASSUME NEW X \in Int, NEW Y \in Int, Y # 0, NEW P \in Int, P = X * Y
  PROVE  Quotient(P, Y) = X
  <1>1. PICK A : A = AbsVal(X)
    OBVIOUS
  <1>2. PICK D : D = AbsVal(Y)
    OBVIOUS
  <1>3. A \in Nat /\ D \in Nat \ {0}
    BY <1>1, <1>2 DEF AbsVal
  <1>4. (A * D) \div D = A
    BY <1>3, SMT
  <1>5. AbsVal(P) = A * D
    <2>1. CASE X >= 0 /\ Y > 0
      BY <1>1, <1>2, <2>1, SMT DEF AbsVal
    <2>2. CASE X >= 0 /\ Y < 0
      BY <1>1, <1>2, <2>2, SMT DEF AbsVal
    <2>3. CASE X < 0 /\ Y > 0
      BY <1>1, <1>2, <2>3, SMT DEF AbsVal
    <2>4. CASE X < 0 /\ Y < 0
      BY <1>1, <1>2, <2>4, SMT DEF AbsVal
    <2> QED BY <2>1, <2>2, <2>3, <2>4
  <1>6. /\ X > 0 => ((P < 0) <=> (Y < 0))
        /\ X < 0 => ((P < 0) <=> ~(Y < 0))
        /\ X = 0 => P = 0
    BY SMT
  <1>7. AbsVal(P) \div AbsVal(Y) = A
    BY <1>2, <1>4, <1>5, Zenon
  <1>8. CASE X = 0
    <2>1. A = 0
      BY <1>1, <1>8 DEF AbsVal
    <2> QED BY <1>7, <1>8, <2>1 DEF Quotient
  <1>9. CASE X > 0
    <2>1. A = X
      BY <1>1, <1>9 DEF AbsVal
    <2> QED BY <1>6, <1>7, <1>9, <2>1 DEF Quotient
  <1>10. CASE X < 0
    <2>1. A = -X
      BY <1>1, <1>10 DEF AbsVal
    <2> QED BY <1>6, <1>7, <1>10, <2>1 DEF Quotient
  <1> QED BY <1>8, <1>9, <1>10

(* A factor of two moves out. *)
LEMMA Doubled == ASSUME NEW i \in Int, NEW j \in Int PROVE (2 * i) * j = 2 * (i * j)
  BY SMT

(* The high half of a signed product is a signed number of the width. *)
LEMMA SignedHigh ==
  ASSUME NEW h \in Nat \ {0}, NEW m \in Nat, m = 2 * h,
         NEW X \in -h .. h - 1, NEW Y \in -h .. h - 1, NEW e, e = (X * Y) \div m
  PROVE  e \in -h .. h - 1
  <1>1. PICK P : P = X * Y
    OBVIOUS
  <1>2. P \in Int /\ P >= -(h * h) /\ P <= h * h
    <2>1. PICK A : A = AbsVal(X)
      OBVIOUS
    <2>2. PICK D : D = AbsVal(Y)
      OBVIOUS
    <2>3. A \in 0 .. h /\ D \in 0 .. h /\ (X = A \/ X = -A) /\ (Y = D \/ Y = -D)
      BY <2>1, <2>2 DEF AbsVal
    <2>4. A * D \in Nat /\ A * D <= h * h
      <3>1. A * D <= h * D /\ h * D <= h * h /\ A * D \in Nat
        BY <2>3, SMT
      <3> QED BY <2>3, <3>1, SMT
    <2>5. P = A * D \/ P = -(A * D)
      BY <1>1, <2>3, SMT
    <2> QED BY <2>4, <2>5, SMT
  <1>3. m \in Nat \ {0} /\ P \in Int
    BY <1>2
  <1>4. PICK l : l = P % m
    OBVIOUS
  <1>5. e \in Int /\ l \in 0 .. m - 1 /\ P = m * e + l
    BY <1>1, <1>3, <1>4, Halves, Zenon
  <1>6. P = 2 * (h * e) + l
    <2>1. (2 * h) * e = 2 * (h * e)
      <3>1. h \in Int
        OBVIOUS
      <3> QED BY <1>5, <3>1, Doubled, Zenon
    <2>2. m * e = 2 * (h * e)
      BY <2>1, Zenon
    <2> QED BY <1>5, <2>2, Zenon
  <1>7. e >= -h
    <2>1. ASSUME e < -h PROVE FALSE
      <3>1. h * e <= -(h * h) - h
        BY <1>5, <2>1, SMT
      <3>2. h * h \in Nat /\ h * e \in Int
        BY <1>5, SMT
      <3> QED BY <1>2, <1>5, <1>6, <3>1, <3>2, SMT
    <2> QED BY <1>5, <2>1
  <1>8. e < h
    <2>1. ASSUME e >= h PROVE FALSE
      <3>1. h * e >= h * h /\ h * h >= 1
        BY <1>5, <2>1, SMT
      <3>2. h * h \in Nat /\ h * e \in Int
        BY <1>5, SMT
      <3> QED BY <1>2, <1>5, <1>6, <3>1, <3>2, SMT
    <2> QED BY <1>5, <2>1
  <1> QED BY <1>5, <1>7, <1>8

(* IDIV undoes IMUL for every even width. *)
LEMMA IdivUndoesImul ==
  ASSUME NEW h \in Nat \ {0}, NEW m \in Nat, m = 2 * h,
         NEW v1 \in 0 .. m - 1, NEW v2 \in 1 .. m - 1, NEW fl,
         NEW p, p = imul(m, fl, v1, v2)
  PROVE  idiv(m, p.hi, p.lo, v2) = [ok |-> TRUE, q |-> sign_extend(m, v1), r |-> 0]
  <1>1. PICK X : X = sign_extend(m, v1)
    OBVIOUS
  <1>2. PICK Y : Y = sign_extend(m, v2)
    OBVIOUS
  <1>3. X \in -h .. h - 1 /\ Y \in -h .. h - 1 /\ Y # 0
    <2>1. X \in -h .. h - 1 /\ Y \in -h .. h - 1
      BY <1>1, <1>2, SignedWidth
    <2>2. Y # 0
      BY <1>2 DEF sign_extend
    <2> QED BY <2>1, <2>2
  <1>4. PICK P : P = X * Y
    OBVIOUS
  <1>5. P \in Int /\ X \in Int /\ Y \in Int
    BY <1>3, <1>4, SMT
  <1>6. PICK e : e = P \div m
    OBVIOUS
  <1>7. PICK l : l = P % m
    OBVIOUS
  <1>8. m \in Nat \ {0}
    OBVIOUS
  <1>9. e \in Int /\ l \in 0 .. m - 1 /\ P = m * e + l
    BY <1>5, <1>6, <1>7, <1>8, Halves, Zenon
  <1>10. e \in -h .. h - 1
    BY <1>3, <1>4, <1>6, SignedHigh, Zenon
  <1>11. sign_extend(m, e % m) = e
    <2>1. CASE e >= 0
      <3>1. e % m = e
        BY <1>10, <2>1, SMT
      <3> QED BY <1>10, <2>1, <3>1 DEF sign_extend
    <2>2. CASE e < 0
      <3>1. e % m = e + m
        BY <1>10, <2>2, SMT
      <3> QED BY <1>10, <2>2, <3>1 DEF sign_extend
    <2> QED BY <1>9, <2>1, <2>2
  <1>12. p.lo = l /\ p.hi = e % m
    BY <1>1, <1>2, <1>4, <1>6, <1>7, Zenon DEF imul, Product, do_mul
  <1>13. m * sign_extend(m, p.hi) + p.lo = P
    BY <1>9, <1>11, <1>12, Zenon
  <1>14. Quotient(P, Y) = X
    BY <1>3, <1>4, <1>5, QuotientOfProduct, Zenon
  <1>15. P - X * Y = 0
    BY <1>4, <1>5
  <1>16. X >= -(m \div 2) /\ X < m \div 2
    BY <1>3
  <1>17. idiv(m, p.hi, p.lo, v2)
           = [ok |-> Y # 0 /\ X >= -(m \div 2) /\ X < m \div 2, q |-> X, r |-> P - X * Y]
    BY <1>2, <1>3, <1>13, <1>14 DEF idiv
  <1> QED BY <1>1, <1>3, <1>15, <1>16, <1>17

-----------------------------------------------------------------------------
(* The laws of ALULaws. *)

(* A word operation is the same as the byte operation on the low and then  *)
(* on the high bytes.                                                      *)
AdcJoined(fl, a1, b1, a2, b2) ==
  LET low  == adc(256, fl, a1, b1)
      high == adc(256, low.fl, a2, b2)
      word == adc(65536, fl, 256 * a2 + a1, 256 * b2 + b1)
  IN /\ word.val = 256 * high.val + low.val
     /\ word.fl \cap {"CF", "SF", "OF"} = high.fl \cap {"CF", "SF", "OF"}

SbbJoined(fl, a1, b1, a2, b2) ==
  LET low  == sbb(256, fl, a1, b1)
      high == sbb(256, low.fl, a2, b2)
      word == sbb(65536, fl, 256 * a2 + a1, 256 * b2 + b1)
  IN /\ word.val = 256 * high.val + low.val
     /\ word.fl \cap {"CF", "SF", "OF"} = high.fl \cap {"CF", "SF", "OF"}

(* A word operation done a byte at a time with ADC or SBB gives the word   *)
(* and the CF, SF and OF of the word instruction, for every pair of words. *)
THEOREM WordByBytes ==
  ASSUME NEW fl, NEW a1 \in 0 .. 255, NEW b1 \in 0 .. 255,
         NEW a2 \in 0 .. 255, NEW b2 \in 0 .. 255
  PROVE  AdcJoined(fl, a1, b1, a2, b2) /\ SbbJoined(fl, a1, b1, a2, b2)
  <1>1. PICK m, n, h, g : Widths(m, n, h, g)
    BY DEF Widths
  <1>2. m = 256 /\ n = 65536
    BY <1>1 DEF Widths
  <1>3. a1 \in 0 .. m - 1 /\ b1 \in 0 .. m - 1 /\ a2 \in 0 .. m - 1 /\ b2 \in 0 .. m - 1
    BY <1>2
  <1>4. AdcJoined(fl, a1, b1, a2, b2)
    <2>1. PICK low : low = adc(m, fl, a1, b1)
      OBVIOUS
    <2>2. PICK high : high = adc(m, low.fl, a2, b2)
      OBVIOUS
    <2>3. PICK word : word = adc(n, fl, m * a2 + a1, m * b2 + b1)
      OBVIOUS
    <2>4. /\ word.val = m * high.val + low.val
          /\ word.fl \cap {"CF", "SF", "OF"} = high.fl \cap {"CF", "SF", "OF"}
      BY <1>1, <1>3, <2>1, <2>2, <2>3, AdcByBytes, SMT
    <2>5. /\ low = adc(256, fl, a1, b1)
          /\ high = adc(256, adc(256, fl, a1, b1).fl, a2, b2)
          /\ word = adc(65536, fl, 256 * a2 + a1, 256 * b2 + b1)
      BY <1>2, <2>1, <2>2, <2>3
    <2> QED BY <1>2, <2>4, <2>5 DEF AdcJoined
  <1>5. SbbJoined(fl, a1, b1, a2, b2)
    <2>1. PICK low : low = sbb(m, fl, a1, b1)
      OBVIOUS
    <2>2. PICK high : high = sbb(m, low.fl, a2, b2)
      OBVIOUS
    <2>3. PICK word : word = sbb(n, fl, m * a2 + a1, m * b2 + b1)
      OBVIOUS
    <2>4. /\ word.val = m * high.val + low.val
          /\ word.fl \cap {"CF", "SF", "OF"} = high.fl \cap {"CF", "SF", "OF"}
      BY <1>1, <1>3, <2>1, <2>2, <2>3, SbbByBytes, SMT
    <2>5. /\ low = sbb(256, fl, a1, b1)
          /\ high = sbb(256, sbb(256, fl, a1, b1).fl, a2, b2)
          /\ word = sbb(65536, fl, 256 * a2 + a1, 256 * b2 + b1)
      BY <1>2, <2>1, <2>2, <2>3
    <2> QED BY <1>2, <2>4, <2>5 DEF SbbJoined
  <1> QED BY <1>4, <1>5

(* The two operands of a state. *)
LEMMA OperandsInRange ==
  ASSUME InRange PROVE B \in 0 .. M - 1 /\ x \in 0 .. M - 1
  BY OperandsTyped DEF InRange, B

(* The operands and carries of the laws on bytes. *)
LEMMA ByteOperands ==
  ASSUME InRange, c \in {0, 1}, M = 256
  PROVE  x \in 0 .. 255 /\ B \in 0 .. 255 /\ CarryOf(Carry) = c
  <1>1. x \in 0 .. M - 1 /\ B \in 0 .. M - 1
    BY OperandsInRange
  <1>2. CarryOf(Carry) = c
    BY DEF CarryOf, Carry, When
  <1> QED BY <1>1, <1>2

(* MultiPrecision is the law of WordByBytes for some high bytes. *)
LEMMA MultiPrecisionInRange ==
  ASSUME InRange, c \in {0, 1} PROVE MultiPrecision
  <1> SUFFICES ASSUME M = 256, NEW h \in HighBytes, NEW Wide \in {"adc", "sbb"}
               PROVE  LET Op(m, fl, d, s) ==
                            IF Wide = "adc" THEN adc(m, fl, d, s) ELSE sbb(m, fl, d, s)
                          low == Op(256, Carry, x, B)
                          high == Op(256, low.fl, h[1], h[2])
                          word == Op(65536, Carry, 256 * h[1] + x, 256 * h[2] + B)
                      IN /\ word.val = 256 * high.val + low.val
                         /\ word.fl \cap {"CF", "SF", "OF"} = high.fl \cap {"CF", "SF", "OF"}
    BY SMTT(30) DEF MultiPrecision
  <1>1. x \in 0 .. 255 /\ B \in 0 .. 255
    BY ByteOperands
  <1>2. h[1] \in 0 .. 255 /\ h[2] \in 0 .. 255
    BY DEF HighBytes
  <1>3. AdcJoined(Carry, x, B, h[1], h[2]) /\ SbbJoined(Carry, x, B, h[1], h[2])
    BY <1>1, <1>2, WordByBytes
  <1>4. CASE Wide = "adc"
    BY <1>3, <1>4 DEF AdcJoined
  <1>5. CASE Wide = "sbb"
    BY <1>3, <1>5 DEF SbbJoined
  <1> QED BY <1>4, <1>5

(* The decimal laws, for digits and bytes as parameters. *)
PackedRight(fl, a, b, ci) ==
  LET sum   == adc(256, fl, a, b)
      dsum  == daa(sum.fl, sum.val)
      diff  == sbb(256, fl, a, b)
      ddiff == das(diff.fl, diff.val)
      total == FromBCD(a) + FromBCD(b) + ci
      rest  == FromBCD(a) - FromBCD(b) - ci
  IN /\ IsBCD(dsum.al) /\ FromBCD(dsum.al) = total % 100
     /\ "CF" \in dsum.fl <=> total > 99
     /\ IsBCD(ddiff.al) /\ FromBCD(ddiff.al) = rest % 100
     /\ "CF" \in ddiff.fl <=> rest < 0

UnpackedRight(fl, a, b, ci) ==
  LET sum   == adc(256, fl, a, b)
      asum  == aaa(sum.fl, sum.val, 5)
      diff  == sbb(256, fl, a, b)
      adiff == aas(diff.fl, diff.val, 5)
  IN /\ 10 * asum.ah + asum.al = 50 + (a + b + ci)
     /\ 10 * adiff.ah + adiff.al = 50 + (a - b - ci)

(* The law of packed decimal bytes. *)
LEMMA DecimalBytes ==
  ASSUME NEW fl, NEW ci \in {0, 1}, ci = CarryOf(fl),
         NEW a \in 0 .. 255, NEW b \in 0 .. 255, IsBCD(a), IsBCD(b)
  PROVE  PackedRight(fl, a, b, ci)
  <1>1. PICK m, n, h, g : Widths(m, n, h, g)
    BY DEF Widths
  <1>2. m = 256
    BY <1>1 DEF Widths
  <1>3. a \in 0 .. m - 1 /\ b \in 0 .. m - 1
    BY <1>2
  <1>4. PICK sum : sum = adc(m, fl, a, b)
    OBVIOUS
  <1>5. PICK dsum : dsum = daa(sum.fl, sum.val)
    OBVIOUS
  <1>6. PICK diff : diff = sbb(m, fl, a, b)
    OBVIOUS
  <1>7. PICK ddiff : ddiff = das(diff.fl, diff.val)
    OBVIOUS
  <1>8. /\ IsBCD(dsum.al) /\ FromBCD(dsum.al) = (FromBCD(a) + FromBCD(b) + ci) % 100
        /\ "CF" \in dsum.fl <=> FromBCD(a) + FromBCD(b) + ci > 99
    BY <1>1, <1>3, <1>4, <1>5, DecimalAdc, SMT
  <1>9. /\ IsBCD(ddiff.al) /\ FromBCD(ddiff.al) = (FromBCD(a) - FromBCD(b) - ci) % 100
        /\ "CF" \in ddiff.fl <=> FromBCD(a) - FromBCD(b) - ci < 0
    BY <1>1, <1>3, <1>6, <1>7, DecimalSbb, SMT
  <1>10. /\ dsum = daa(adc(256, fl, a, b).fl, adc(256, fl, a, b).val)
         /\ ddiff = das(sbb(256, fl, a, b).fl, sbb(256, fl, a, b).val)
    BY <1>2, <1>4, <1>5, <1>6, <1>7
  <1> QED BY <1>8, <1>9, <1>10 DEF PackedRight

(* The law of unpacked digits. *)
LEMMA AsciiBytes ==
  ASSUME NEW fl, NEW ci \in {0, 1}, ci = CarryOf(fl), NEW a \in 0 .. 9, NEW b \in 0 .. 9
  PROVE  UnpackedRight(fl, a, b, ci)
  <1>1. PICK m, n, h, g : Widths(m, n, h, g)
    BY DEF Widths
  <1>2. m = 256
    BY <1>1 DEF Widths
  <1>4. PICK sum : sum = adc(m, fl, a, b)
    OBVIOUS
  <1>5. PICK asum : asum = aaa(sum.fl, sum.val, 5)
    OBVIOUS
  <1>6. PICK diff : diff = sbb(m, fl, a, b)
    OBVIOUS
  <1>7. PICK adiff : adiff = aas(diff.fl, diff.val, 5)
    OBVIOUS
  <1>8. Shows(asum, a + b + ci)
    BY <1>1, <1>4, <1>5, AsciiAdc, SMT
  <1>9. Shows(adiff, a - b - ci)
    BY <1>1, <1>6, <1>7, AsciiSbb, SMTT(30)
  <1>10. /\ asum = aaa(adc(256, fl, a, b).fl, adc(256, fl, a, b).val, 5)
         /\ adiff = aas(sbb(256, fl, a, b).fl, sbb(256, fl, a, b).val, 5)
    BY <1>2, <1>4, <1>5, <1>6, <1>7
  <1> QED BY <1>8, <1>9, <1>10 DEF UnpackedRight, Shows

(* DecimalAdjust joins the laws of the adjustments. *)
LEMMA DecimalAdjustInRange ==
  ASSUME InRange, c \in {0, 1} PROVE DecimalAdjust
  <1>1. CASE M = 256
    <2>1. x \in 0 .. 255 /\ B \in 0 .. 255 /\ CarryOf(Carry) = c
      BY <1>1, ByteOperands
    <2>4. ASSUME IsBCD(x), IsBCD(B)
          PROVE  LET sum == adc(256, Carry, x, B)
                     dsum == daa(sum.fl, sum.val)
                     diff == sbb(256, Carry, x, B)
                     ddiff == das(diff.fl, diff.val)
                     total == FromBCD(x) + FromBCD(B) + c
                     rest == FromBCD(x) - FromBCD(B) - c
                 IN /\ IsBCD(dsum.al) /\ FromBCD(dsum.al) = total % 100
                    /\ "CF" \in dsum.fl <=> total > 99
                    /\ IsBCD(ddiff.al) /\ FromBCD(ddiff.al) = rest % 100
                    /\ "CF" \in ddiff.fl <=> rest < 0
      <3>1. PackedRight(Carry, x, B, c)
        <4>1. PICK a : a = x
          OBVIOUS
        <4>2. PICK b : b = B
          OBVIOUS
        <4>3. PICK fl : fl = Carry
          OBVIOUS
        <4>4. PICK ci \in {0, 1} : ci = c
          OBVIOUS
        <4>5. a \in 0 .. 255 /\ b \in 0 .. 255 /\ IsBCD(a) /\ IsBCD(b) /\ ci = CarryOf(fl)
          BY <2>1, <2>4, <4>1, <4>2, <4>3, <4>4
        <4>6. PackedRight(fl, a, b, ci)
          BY <4>5, DecimalBytes
        <4> QED BY <4>1, <4>2, <4>3, <4>4, <4>6
      <3> QED BY <3>1 DEF PackedRight
    <2>5. ASSUME x < 10, B < 10
          PROVE  LET sum == adc(256, Carry, x, B)
                     asum == aaa(sum.fl, sum.val, 5)
                     diff == sbb(256, Carry, x, B)
                     adiff == aas(diff.fl, diff.val, 5)
                 IN /\ 10 * asum.ah + asum.al = 50 + x + B + c
                    /\ 10 * adiff.ah + adiff.al = 50 + x - B - c
      <3>1. x \in 0 .. 9 /\ B \in 0 .. 9
        BY <2>1, <2>5
      <3>2. 50 + x + B + c = 50 + (x + B + c) /\ 50 + x - B - c = 50 + (x - B - c)
        BY <3>1
      <3>3. UnpackedRight(Carry, x, B, c)
        BY <2>1, <3>1, AsciiBytes, SMT
      <3> QED BY <3>2, <3>3 DEF UnpackedRight
    <2>6. ASSUME B # 0
          PROVE  LET split == aam({}, x, B) IN aad({}, split.al, split.ah, B).al = x
      <3>1. B \in 1 .. 255
        BY <2>1, <2>6
      <3> QED BY <2>1, <3>1, AsciiMultiply
    <2> QED BY <2>4, <2>5, <2>6 DEF DecimalAdjust
  <1>2. CASE M # 256
    BY <1>2 DEF DecimalAdjust
  <1> QED BY <1>1, <1>2

(* DIV undoes MUL and IDIV undoes IMUL, for the factors v1 and v2. *)
Undone(m, fl, v1, v2) ==
  LET u == mul(m, fl, v1, v2)
      s == imul(m, fl, v1, v2)
  IN /\ div(m, u.hi, u.lo, v2) = [ok |-> TRUE, q |-> v1, r |-> 0]
     /\ idiv(m, s.hi, s.lo, v2) = [ok |-> TRUE, q |-> sign_extend(m, v1), r |-> 0]

(* The outcomes of DIV and IDIV of the double-width number hi:lo by d. *)
Exact(m, h, hi, lo, d) ==
  LET a == m * hi + lo
      v == m * sign_extend(m, hi) + lo
      b == sign_extend(m, d)
      u == div(m, hi, lo, d)
      s == idiv(m, hi, lo, d)
  IN /\ u.ok <=> a < m * d
     /\ u.ok => a = u.q * d + u.r /\ u.r \in 0 .. d - 1
     /\ s.ok <=> QuotientFits(h, v, b)
     /\ s.ok => /\ v = s.q * b + s.r
                /\ AbsVal(s.r) < AbsVal(b)
                /\ s.r # 0 => (s.r < 0) = (v < 0)

(* Division at every even width, words included, whose products are beyond *)
(* TLC's integers: it undoes multiplication, is refused exactly when the   *)
(* quotient does not fit, and otherwise satisfies the equation of division *)
(* with a remainder of the dividend's sign.                                *)
THEOREM DivisionAtEveryWidth ==
  ASSUME NEW h \in Nat \ {0}, NEW m \in Nat, m = 2 * h, NEW fl,
         NEW hi \in 0 .. m - 1, NEW lo \in 0 .. m - 1, NEW d \in 0 .. m - 1
  PROVE  (d # 0 => Undone(m, fl, lo, d)) /\ Exact(m, h, hi, lo, d)
  <1>1. m \in Nat \ {0}
    OBVIOUS
  <1>2. ASSUME d # 0 PROVE Undone(m, fl, lo, d)
    <2>1. d \in 1 .. m - 1
      BY <1>2
    <2>2. PICK u : u = mul(m, fl, lo, d)
      OBVIOUS
    <2>3. div(m, u.hi, u.lo, d) = [ok |-> TRUE, q |-> lo, r |-> 0]
      BY <1>1, <2>1, <2>2, DivUndoesMul, SMT
    <2>4. PICK s : s = imul(m, fl, lo, d)
      OBVIOUS
    <2>5. idiv(m, s.hi, s.lo, d) = [ok |-> TRUE, q |-> sign_extend(m, lo), r |-> 0]
      BY <2>1, <2>4, IdivUndoesImul, Zenon
    <2> QED BY <2>2, <2>3, <2>4, <2>5, Zenon DEF Undone
  <1>3. Exact(m, h, hi, lo, d)
    <2>1. PICK a : a = m * hi + lo
      OBVIOUS
    <2>2. PICK v : v = m * sign_extend(m, hi) + lo
      OBVIOUS
    <2>3. PICK b : b = sign_extend(m, d)
      OBVIOUS
    <2>4. PICK u : u = div(m, hi, lo, d)
      OBVIOUS
    <2>5. PICK s : s = idiv(m, hi, lo, d)
      OBVIOUS
    <2>6. /\ u.ok <=> a < m * d
          /\ u.ok => a = u.q * d + u.r /\ u.r \in 0 .. d - 1
      BY <1>1, <2>1, <2>4, DivExact, SMT
    <2>7. SignedOutcome(h, v, b, s)
      BY <2>2, <2>3, <2>5, IdivExact, Zenon
    <2> QED BY <2>1, <2>2, <2>3, <2>4, <2>5, <2>6, <2>7, Zenon DEF Exact, SignedOutcome
  <1> QED BY <1>2, <1>3

(* DivisionAtEveryWidth for bytes. *)
LEMMA ByteDivision ==
  ASSUME NEW a \in 0 .. 255, NEW b \in 0 .. 255, NEW d \in 0 .. 255
  PROVE  (d # 0 => Undone(256, {}, b, d)) /\ Exact(256, 128, a, b, d)
  <1>1. PICK m : m = 256
    OBVIOUS
  <1>2. PICK h : h = 128
    OBVIOUS
  <1>3. h \in Nat \ {0} /\ m \in Nat /\ m = 2 * h
    BY <1>1, <1>2
  <1>4. a \in 0 .. m - 1 /\ b \in 0 .. m - 1 /\ d \in 0 .. m - 1
    BY <1>1
  <1>5. (d # 0 => Undone(m, {}, b, d)) /\ Exact(m, h, a, b, d)
    BY <1>3, <1>4, DivisionAtEveryWidth
  <1> QED BY <1>1, <1>2, <1>5

(* DivisionUndoesMultiplication is the law of division for bytes, with the *)
(* dividend taken as one signed number.                                    *)
LEMMA DivisionInRange ==
  ASSUME InRange, c \in {0, 1} PROVE DivisionUndoesMultiplication
  <1>1. CASE M = 256
    <2>1. x \in 0 .. 255 /\ B \in 0 .. 255
      BY <1>1, ByteOperands
    <2>2. PICK a \in 0 .. 255 : a = x
      BY <2>1
    <2>3. PICK b \in 0 .. 255 : b = B
      BY <2>1
    <2>4. \A v : Signed(v) = sign_extend(256, v)
      BY <1>1 DEF Signed
    <2>5. ASSUME b # 0
          PROVE  /\ LET p == mul(256, {}, a, b)
                    IN div(256, p.hi, p.lo, b) = [ok |-> TRUE, q |-> a, r |-> 0]
                 /\ LET p == imul(256, {}, a, b)
                    IN idiv(256, p.hi, p.lo, b) = [ok |-> TRUE, q |-> Signed(a), r |-> 0]
      <3>1. Undone(256, {}, a, b)
        BY <2>5, ByteDivision
      <3> QED BY <2>4, <3>1 DEF Undone
    <2>6. ASSUME NEW d \in {0, 1, 2, 3, 100, 127, 128, 129, 254, 255}
          PROVE  LET dividend == 256 * a + b
                     value == sign_extend(65536, dividend)
                     u == div(256, a, b, d)
                     s == idiv(256, a, b, d)
                     e == Signed(d)
                 IN /\ u.ok <=> dividend < 256 * d
                    /\ u.ok => dividend = u.q * d + u.r /\ u.r < d
                    /\ s.ok <=> IF (value < 0) = (e < 0)
                                THEN AbsVal(value) < 128 * AbsVal(e)
                                ELSE AbsVal(value) < 129 * AbsVal(e)
                    /\ s.ok => /\ value = s.q * e + s.r
                               /\ AbsVal(s.r) < AbsVal(e)
                               /\ s.r # 0 => (s.r < 0) = (value < 0)
      <3>1. d \in 0 .. 255
        OBVIOUS
      <3>2. Exact(256, 128, a, b, d)
        <4>1. PICK n \in 0 .. 255 : n = d
          BY <3>1
        <4>2. Exact(256, 128, a, b, n)
          BY ByteDivision, Zenon
        <4> QED BY <4>1, <4>2
      <3>3. PICK v : v = 256 * sign_extend(256, a) + b
        OBVIOUS
      <3>4. sign_extend(65536, 256 * a + b) = v
        BY <3>3 DEF sign_extend
      <3>5. PICK e : e = sign_extend(256, d)
        OBVIOUS
      <3>6. Signed(d) = e
        BY <2>4, <3>5
      <3>7. PICK u : u = div(256, a, b, d)
        OBVIOUS
      <3>8. PICK s : s = idiv(256, a, b, d)
        OBVIOUS
      <3>9. PICK k : k = 256 * a + b
        OBVIOUS
      <3>10. /\ u.ok <=> k < 256 * d
             /\ u.ok => k = u.q * d + u.r /\ u.r \in 0 .. d - 1
             /\ s.ok <=> QuotientFits(128, v, e)
             /\ s.ok => /\ v = s.q * e + s.r
                        /\ AbsVal(s.r) < AbsVal(e)
                        /\ s.r # 0 => (s.r < 0) = (v < 0)
        BY <3>2, <3>3, <3>5, <3>7, <3>8, <3>9 DEF Exact
      <3>11. u.ok => u.r < d
        BY <3>1, <3>10
      <3>12. QuotientFits(128, v, e) <=>
               IF (v < 0) = (e < 0) THEN AbsVal(v) < 128 * AbsVal(e)
                                    ELSE AbsVal(v) < 129 * AbsVal(e)
        BY DEF QuotientFits
      <3> QED BY <3>4, <3>6, <3>7, <3>8, <3>9, <3>10, <3>11, <3>12
    <2> QED BY <2>2, <2>3, <2>5, <2>6 DEF DivisionUndoesMultiplication
  <1>2. CASE M # 256
    BY <1>2 DEF DivisionUndoesMultiplication
  <1> QED BY <1>1, <1>2

-----------------------------------------------------------------------------
(* Shifts and rotates: loops that move one bit at a time. *)

(* A set of numbers that has 0, and each number whose predecessor it has,  *)
(* has them all.                                                           *)
LEMMA Counting ==
  ASSUME NEW S, 0 \in S, \A i \in Nat : i # 0 /\ i - 1 \in S => i \in S
  PROVE  \A i \in Nat : i \in S
<1> DEFINE T == Nat \ S
<1> SUFFICES ASSUME T # {} PROVE FALSE
  OBVIOUS
<1>1. PICK i \in T : \A j \in T : <<j, i>> \notin OpToRel(<, Nat)
  <2>1. T \in SUBSET Nat
    OBVIOUS
  <2> HIDE DEF T
  <2> QED BY <2>1, WFMin, NatLessThanWellFounded, Zenon
<1>2. i \in Nat /\ i # 0 /\ i - 1 \in Nat /\ i - 1 < i
  OBVIOUS
<1>3. i - 1 \notin T
  BY <1>1, <1>2 DEF OpToRel
<1> QED BY <1>2, <1>3

(* What a function computes when it is applied over and over. *)
Iterates(f, s, n, g) == g = [i \in 0 .. n |-> IF i = 0 THEN s ELSE f[g[i - 1]]]
LEMMA Unrolled ==
  ASSUME NEW S, NEW f \in [S -> S], NEW s \in S, NEW n \in Nat
  PROVE  \E g \in [0 .. n -> S] : Iterates(f, s, n, g)
<1> DEFINE A == {k \in Nat : \E g \in [0 .. k -> S] : Iterates(f, s, k, g)}
<1>1. 0 \in A
  <2>1. [i \in 0 .. 0 |-> s] \in [0 .. 0 -> S]
    OBVIOUS
  <2>2. Iterates(f, s, 0, [i \in 0 .. 0 |-> s])
    BY DEF Iterates
  <2> QED BY <2>1, <2>2
<1>2. ASSUME NEW k \in Nat, k # 0, k - 1 \in A PROVE k \in A
  <2>1. PICK g \in [0 .. k - 1 -> S] : Iterates(f, s, k - 1, g)
    BY <1>2
  <2> DEFINE h == [i \in 0 .. k |-> IF i = k THEN f[g[k - 1]] ELSE g[i]]
  <2>2. h \in [0 .. k -> S]
    BY <1>2
  <2>3. ASSUME NEW i \in 0 .. k PROVE h[i] = IF i = 0 THEN s ELSE f[h[i - 1]]
    <3>1. ASSUME NEW j \in 0 .. k - 1 PROVE g[j] = IF j = 0 THEN s ELSE f[g[j - 1]]
      BY <2>1 DEF Iterates
    <3> QED BY <1>2, <3>1
  <2>4. Iterates(f, s, k, h)
    <3>1. h = [i \in 0 .. k |-> h[i]]
      BY <2>2
    <3> HIDE DEF h
    <3> QED BY <2>3, <3>1, Zenon DEF Iterates
  <2> QED BY <2>2, <2>4
<1>3. n \in A
  <2> HIDE DEF A
  <2> QED BY <1>1, <1>2, Counting
<1> QED BY <1>3

(* A loop whose body keeps to a set stays in it. *)
LEMMA Typed ==
  ASSUME NEW S, NEW h, NEW n \in Nat, h[0] \in S, \A i \in 1 .. n : h[i - 1] \in S => h[i] \in S
  PROVE  \A i \in 0 .. n : h[i] \in S
<1> DEFINE A == {i \in Nat : i <= n => h[i] \in S}
<1>1. 0 \in A
  OBVIOUS
<1>2. ASSUME NEW k \in Nat, k # 0, k - 1 \in A PROVE k \in A
  BY <1>2
<1>3. \A i \in Nat : i \in A
  <2> HIDE DEF A
  <2> QED BY <1>1, <1>2, Counting
<1> QED BY <1>3

(* The widths, the state of a loop (number and carry), and a run of n      *)
(* rounds.                                                                 *)
Sizes == {256, 65536}
Pairs(m) == [v : 0 .. m - 1, c : BOOLEAN]
Runs(h, n, m, s) == h[0] = s /\ \A i \in 0 .. n : h[i] \in Pairs(m)

(* The bit that do_sar shifts in. *)
Sign(m, v) == IF v >= m \div 2 THEN m \div 2 ELSE 0

(* The loop of do_shl. *)
ShlStep(m, p) == [v |-> (2 * p.v) % m, c |-> p.v >= m \div 2]
(* A round keeps to the width. *)
LEMMA ShlType ==
  ASSUME NEW m \in Sizes, NEW p \in Pairs(m) PROVE ShlStep(m, p) \in Pairs(m)
BY DEF Sizes, Pairs, ShlStep

(* The rounds of the loop, and what is read off the last one. *)
LEMMA ShlLoop ==
  ASSUME NEW m \in Sizes, NEW v \in 0 .. m - 1, NEW n \in Nat
  PROVE  \E h : /\ Runs(h, n, m, Start(v, FALSE))
                /\ \A i \in 1 .. n : h[i] = ShlStep(m, h[i - 1])
                /\ do_shl(m, v, n).val = h[n].v
                /\ "CF" \in do_shl(m, v, n).fl <=> h[n].c
<1> DEFINE f == [p \in Pairs(m) |-> ShlStep(m, p)]
           s == Start(v, FALSE)
           h == CHOOSE g : g = [i \in 0 .. n |-> IF i = 0 THEN s ELSE ShlStep(m, g[i - 1])]
<1>1. f \in [Pairs(m) -> Pairs(m)] /\ s \in Pairs(m)
  BY ShlType DEF Start, Pairs
<1>2. PICK g \in [0 .. n -> Pairs(m)] : Iterates(f, s, n, g)
  <2> HIDE DEF f, s
  <2> QED BY <1>1, Unrolled
<1>3. g = [i \in 0 .. n |-> IF i = 0 THEN s ELSE ShlStep(m, g[i - 1])]
  <2>1. ASSUME NEW i \in 0 .. n, i # 0 PROVE f[g[i - 1]] = ShlStep(m, g[i - 1])
    <3>1. g[i - 1] \in Pairs(m)
      BY <2>1
    <3> QED BY <3>1
  <2> HIDE DEF f, s
  <2> QED BY <1>2, <2>1 DEF Iterates
<1>4. h = [i \in 0 .. n |-> IF i = 0 THEN s ELSE ShlStep(m, h[i - 1])]
  <2> HIDE DEF s
  <2> QED BY <1>3, Zenon
<1>5. h[n] = Repeat(n, s, LAMBDA p : [v |-> (2 * p.v) % m, c |-> p.v >= m \div 2])
  BY Zenon DEF Repeat, ShlStep
<1>6. do_shl(m, v, n).val = h[n].v /\ ("CF" \in do_shl(m, v, n).fl <=> h[n].c)
  <2> DEFINE r == Repeat(n, s, LAMBDA p : [v |-> (2 * p.v) % m, c |-> p.v >= m \div 2])
  <2>1. /\ do_shl(m, v, n).val = r.v
        /\ do_shl(m, v, n).fl = (ShiftFlags(m, r) \cup When(TopBitsDiffer(m, v), "OF")) \cup When(r.v >= m \div 2, "SF")
    BY Zenon DEF do_shl
  <2> HIDE DEF r, h
  <2>2. r = h[n]
    BY <1>5, Zenon DEF r
  <2>3. "CF" \in do_shl(m, v, n).fl <=> r.c
    BY <2>1, FlagsDistinct, Zenon DEF ShiftFlags, When
  <2> QED BY <2>1, <2>2, <2>3
<1>7. h[0] = s /\ \A i \in 1 .. n : h[i] = ShlStep(m, h[i - 1])
  <2> HIDE DEF s, h
  <2> QED BY <1>4
<1>8. \A i \in 0 .. n : h[i] \in Pairs(m)
  <2> HIDE DEF h, s
  <2> QED BY <1>1, <1>7, ShlType, Typed
<1> HIDE DEF h
<1> QED BY <1>6, <1>7, <1>8 DEF Runs

(* The loop of do_shr. *)
ShrStep(p) == [v |-> p.v \div 2, c |-> p.v % 2 = 1]
(* A round keeps to the width. *)
LEMMA ShrType ==
  ASSUME NEW m \in Sizes, NEW p \in Pairs(m) PROVE ShrStep(p) \in Pairs(m)
BY DEF Sizes, Pairs, ShrStep

(* The rounds of the loop, and what is read off the last one. *)
LEMMA ShrLoop ==
  ASSUME NEW m \in Sizes, NEW v \in 0 .. m - 1, NEW n \in Nat
  PROVE  \E h : /\ Runs(h, n, m, Start(v, FALSE))
                /\ \A i \in 1 .. n : h[i] = ShrStep(h[i - 1])
                /\ do_shr(m, v, n).val = h[n].v
                /\ "CF" \in do_shr(m, v, n).fl <=> h[n].c
<1> DEFINE f == [p \in Pairs(m) |-> ShrStep(p)]
           s == Start(v, FALSE)
           h == CHOOSE g : g = [i \in 0 .. n |-> IF i = 0 THEN s ELSE ShrStep(g[i - 1])]
<1>1. f \in [Pairs(m) -> Pairs(m)] /\ s \in Pairs(m)
  BY ShrType DEF Start, Pairs
<1>2. PICK g \in [0 .. n -> Pairs(m)] : Iterates(f, s, n, g)
  <2> HIDE DEF f, s
  <2> QED BY <1>1, Unrolled
<1>3. g = [i \in 0 .. n |-> IF i = 0 THEN s ELSE ShrStep(g[i - 1])]
  <2>1. ASSUME NEW i \in 0 .. n, i # 0 PROVE f[g[i - 1]] = ShrStep(g[i - 1])
    <3>1. g[i - 1] \in Pairs(m)
      BY <2>1
    <3> QED BY <3>1
  <2> HIDE DEF f, s
  <2> QED BY <1>2, <2>1 DEF Iterates
<1>4. h = [i \in 0 .. n |-> IF i = 0 THEN s ELSE ShrStep(h[i - 1])]
  <2> HIDE DEF s
  <2> QED BY <1>3, Zenon
<1>5. h[n] = Repeat(n, s, LAMBDA p : [v |-> p.v \div 2, c |-> p.v % 2 = 1])
  BY Zenon DEF Repeat, ShrStep
<1>6. do_shr(m, v, n).val = h[n].v /\ ("CF" \in do_shr(m, v, n).fl <=> h[n].c)
  <2> DEFINE r == Repeat(n, s, LAMBDA p : [v |-> p.v \div 2, c |-> p.v % 2 = 1])
  <2>1. /\ do_shr(m, v, n).val = r.v
        /\ do_shr(m, v, n).fl = ShiftFlags(m, r) \cup When(v >= m \div 2, "OF")
    BY Zenon DEF do_shr
  <2> HIDE DEF r, h
  <2>2. r = h[n]
    BY <1>5, Zenon DEF r
  <2>3. "CF" \in do_shr(m, v, n).fl <=> r.c
    BY <2>1, FlagsDistinct, Zenon DEF ShiftFlags, When
  <2> QED BY <2>1, <2>2, <2>3
<1>7. h[0] = s /\ \A i \in 1 .. n : h[i] = ShrStep(h[i - 1])
  <2> HIDE DEF s, h
  <2> QED BY <1>4
<1>8. \A i \in 0 .. n : h[i] \in Pairs(m)
  <2> HIDE DEF h, s
  <2> QED BY <1>1, <1>7, ShrType, Typed
<1> HIDE DEF h
<1> QED BY <1>6, <1>7, <1>8 DEF Runs

(* The loop of do_sar. *)
SarStep(sign, p) == [v |-> p.v \div 2 + sign, c |-> p.v % 2 = 1]
(* A round keeps to the width. *)
LEMMA SarType ==
  ASSUME NEW m \in Sizes, NEW sign \in {0, m \div 2}, NEW p \in Pairs(m) PROVE SarStep(sign, p) \in Pairs(m)
BY DEF Sizes, Pairs, SarStep

(* The rounds of the loop, and what is read off the last one. *)
LEMMA SarLoop ==
  ASSUME NEW m \in Sizes, NEW v \in 0 .. m - 1, NEW n \in Nat
  PROVE  \E h : /\ Runs(h, n, m, Start(v, FALSE))
                /\ \A i \in 1 .. n : h[i] = SarStep(Sign(m, v), h[i - 1])
                /\ do_sar(m, v, n).val = h[n].v
                /\ "CF" \in do_sar(m, v, n).fl <=> h[n].c
<1> DEFINE f == [p \in Pairs(m) |-> SarStep(Sign(m, v), p)]
           s == Start(v, FALSE)
           h == CHOOSE g : g = [i \in 0 .. n |-> IF i = 0 THEN s ELSE SarStep(Sign(m, v), g[i - 1])]
<1>1. f \in [Pairs(m) -> Pairs(m)] /\ s \in Pairs(m) /\ Sign(m, v) \in {0, m \div 2}
  BY SarType DEF Start, Pairs, Sign
<1>2. PICK g \in [0 .. n -> Pairs(m)] : Iterates(f, s, n, g)
  <2> HIDE DEF f, s
  <2> QED BY <1>1, Unrolled
<1>3. g = [i \in 0 .. n |-> IF i = 0 THEN s ELSE SarStep(Sign(m, v), g[i - 1])]
  <2>1. ASSUME NEW i \in 0 .. n, i # 0 PROVE f[g[i - 1]] = SarStep(Sign(m, v), g[i - 1])
    <3>1. g[i - 1] \in Pairs(m)
      BY <2>1
    <3> QED BY <3>1
  <2> HIDE DEF f, s
  <2> QED BY <1>2, <2>1 DEF Iterates
<1>4. h = [i \in 0 .. n |-> IF i = 0 THEN s ELSE SarStep(Sign(m, v), h[i - 1])]
  <2> HIDE DEF s
  <2> QED BY <1>3, Zenon
<1>5. h[n] = Repeat(n, s, LAMBDA p : [v |-> p.v \div 2 + Sign(m, v), c |-> p.v % 2 = 1])
  BY Zenon DEF Repeat, SarStep
<1>6. do_sar(m, v, n).val = h[n].v /\ ("CF" \in do_sar(m, v, n).fl <=> h[n].c)
  <2> DEFINE r == Repeat(n, s, LAMBDA p : [v |-> p.v \div 2 + Sign(m, v), c |-> p.v % 2 = 1])
  <2>1. /\ do_sar(m, v, n).val = r.v
        /\ do_sar(m, v, n).fl = ShiftFlags(m, r) \cup When(r.v >= m \div 2, "SF")
    BY Zenon DEF do_sar, Sign
  <2> HIDE DEF r, h
  <2>2. r = h[n]
    BY <1>5, Zenon DEF r
  <2>3. "CF" \in do_sar(m, v, n).fl <=> r.c
    BY <2>1, FlagsDistinct, Zenon DEF ShiftFlags, When
  <2> QED BY <2>1, <2>2, <2>3
<1>7. h[0] = s /\ \A i \in 1 .. n : h[i] = SarStep(Sign(m, v), h[i - 1])
  <2> HIDE DEF s, h
  <2> QED BY <1>4
<1>8. \A i \in 0 .. n : h[i] \in Pairs(m)
  <2> HIDE DEF h, s
  <2> QED BY <1>1, <1>7, SarType, Typed
<1> HIDE DEF h
<1> QED BY <1>6, <1>7, <1>8 DEF Runs

(* The loop of do_rol. *)
RolStep(m, p) == [v |-> ((2 * p.v) % m) + (p.v \div (m \div 2)), c |-> p.v >= m \div 2]
(* A round keeps to the width. *)
LEMMA RolType ==
  ASSUME NEW m \in Sizes, NEW p \in Pairs(m) PROVE RolStep(m, p) \in Pairs(m)
BY DEF Sizes, Pairs, RolStep

(* The rounds of the loop, and what is read off the last one. *)
LEMMA RolLoop ==
  ASSUME NEW m \in Sizes, NEW v \in 0 .. m - 1, NEW n \in Nat
  PROVE  \E h : /\ Runs(h, n % 32, m, Start(v, FALSE))
                /\ \A i \in 1 .. n % 32 : h[i] = RolStep(m, h[i - 1])
                /\ do_rol(m, v, n).val = h[n % 32].v
<1> DEFINE f == [p \in Pairs(m) |-> RolStep(m, p)]
           s == Start(v, FALSE)
           k == n % 32
           h == CHOOSE g : g = [i \in 0 .. k |-> IF i = 0 THEN s ELSE RolStep(m, g[i - 1])]
<1>0. k \in Nat
  BY SMT
<1>1. f \in [Pairs(m) -> Pairs(m)] /\ s \in Pairs(m)
  BY RolType DEF Start, Pairs
<1>2. PICK g \in [0 .. k -> Pairs(m)] : Iterates(f, s, k, g)
  <2> HIDE DEF f, s
  <2> QED BY <1>0, <1>1, Unrolled
<1>3. g = [i \in 0 .. k |-> IF i = 0 THEN s ELSE RolStep(m, g[i - 1])]
  <2>1. ASSUME NEW i \in 0 .. k, i # 0 PROVE f[g[i - 1]] = RolStep(m, g[i - 1])
    <3>1. g[i - 1] \in Pairs(m)
      BY <2>1, <1>0
    <3> QED BY <3>1
  <2> HIDE DEF f, s
  <2> QED BY <1>2, <2>1 DEF Iterates
<1>4. h = [i \in 0 .. k |-> IF i = 0 THEN s ELSE RolStep(m, h[i - 1])]
  <2> HIDE DEF s
  <2> QED BY <1>3, Zenon
<1>5. h[k] = Repeat(k, s, LAMBDA p : [v |-> ((2 * p.v) % m) + (p.v \div (m \div 2)), c |-> p.v >= m \div 2])
  BY Zenon DEF Repeat, RolStep
<1>6. do_rol(m, v, n).val = h[k].v
  <2> DEFINE r == Repeat(k, s, LAMBDA p : [v |-> ((2 * p.v) % m) + (p.v \div (m \div 2)), c |-> p.v >= m \div 2])
  <2>1. /\ do_rol(m, v, n).val = r.v
    BY Zenon DEF do_rol
  <2> HIDE DEF r, h
  <2>2. r = h[k]
    BY <1>5, Zenon DEF r
  <2> QED BY <2>1, <2>2
<1>7. h[0] = s /\ \A i \in 1 .. k : h[i] = RolStep(m, h[i - 1])
  <2> HIDE DEF s, h
  <2> QED BY <1>4, <1>0
<1>8. \A i \in 0 .. k : h[i] \in Pairs(m)
  <2> HIDE DEF h, s
  <2> QED BY <1>0, <1>1, <1>7, RolType, Typed
<1> HIDE DEF h
<1> QED BY <1>6, <1>7, <1>8 DEF Runs

(* The loop of do_ror. *)
RorStep(m, p) == [v |-> p.v \div 2 + (p.v % 2) * (m \div 2), c |-> p.v % 2 = 1]
(* A round keeps to the width. *)
LEMMA RorType ==
  ASSUME NEW m \in Sizes, NEW p \in Pairs(m) PROVE RorStep(m, p) \in Pairs(m)
BY DEF Sizes, Pairs, RorStep

(* The rounds of the loop, and what is read off the last one. *)
LEMMA RorLoop ==
  ASSUME NEW m \in Sizes, NEW v \in 0 .. m - 1, NEW n \in Nat
  PROVE  \E h : /\ Runs(h, n, m, Start(v, FALSE))
                /\ \A i \in 1 .. n : h[i] = RorStep(m, h[i - 1])
                /\ do_ror(m, v, n).val = h[n].v
<1> DEFINE f == [p \in Pairs(m) |-> RorStep(m, p)]
           s == Start(v, FALSE)
           h == CHOOSE g : g = [i \in 0 .. n |-> IF i = 0 THEN s ELSE RorStep(m, g[i - 1])]
<1>1. f \in [Pairs(m) -> Pairs(m)] /\ s \in Pairs(m)
  BY RorType DEF Start, Pairs
<1>2. PICK g \in [0 .. n -> Pairs(m)] : Iterates(f, s, n, g)
  <2> HIDE DEF f, s
  <2> QED BY <1>1, Unrolled
<1>3. g = [i \in 0 .. n |-> IF i = 0 THEN s ELSE RorStep(m, g[i - 1])]
  <2>1. ASSUME NEW i \in 0 .. n, i # 0 PROVE f[g[i - 1]] = RorStep(m, g[i - 1])
    <3>1. g[i - 1] \in Pairs(m)
      BY <2>1
    <3> QED BY <3>1
  <2> HIDE DEF f, s
  <2> QED BY <1>2, <2>1 DEF Iterates
<1>4. h = [i \in 0 .. n |-> IF i = 0 THEN s ELSE RorStep(m, h[i - 1])]
  <2> HIDE DEF s
  <2> QED BY <1>3, Zenon
<1>5. h[n] = Repeat(n, s, LAMBDA p : [v |-> p.v \div 2 + (p.v % 2) * (m \div 2), c |-> p.v % 2 = 1])
  BY Zenon DEF Repeat, RorStep
<1>6. do_ror(m, v, n).val = h[n].v
  <2> DEFINE r == Repeat(n, s, LAMBDA p : [v |-> p.v \div 2 + (p.v % 2) * (m \div 2), c |-> p.v % 2 = 1])
  <2>1. /\ do_ror(m, v, n).val = r.v
    BY Zenon DEF do_ror
  <2> HIDE DEF r, h
  <2>2. r = h[n]
    BY <1>5, Zenon DEF r
  <2> QED BY <2>1, <2>2
<1>7. h[0] = s /\ \A i \in 1 .. n : h[i] = RorStep(m, h[i - 1])
  <2> HIDE DEF s, h
  <2> QED BY <1>4
<1>8. \A i \in 0 .. n : h[i] \in Pairs(m)
  <2> HIDE DEF h, s
  <2> QED BY <1>1, <1>7, RorType, Typed
<1> HIDE DEF h
<1> QED BY <1>6, <1>7, <1>8 DEF Runs

(* The loop of do_rcl. *)
RclStep(m, p) == [v |-> ((2 * p.v) % m) + (IF p.c THEN 1 ELSE 0), c |-> p.v >= m \div 2]
(* A round keeps to the width. *)
LEMMA RclType ==
  ASSUME NEW m \in Sizes, NEW p \in Pairs(m) PROVE RclStep(m, p) \in Pairs(m)
BY DEF Sizes, Pairs, RclStep

(* The rounds of the loop, and what is read off the last one. *)
LEMMA RclLoop ==
  ASSUME NEW m \in Sizes, NEW v \in 0 .. m - 1, NEW cf \in BOOLEAN, NEW n \in Nat
  PROVE  \E h : /\ Runs(h, n % 32, m, Start(v, cf))
                /\ \A i \in 1 .. n % 32 : h[i] = RclStep(m, h[i - 1])
                /\ do_rcl(m, v, n, cf).val = h[n % 32].v
                /\ "CF" \in do_rcl(m, v, n, cf).fl <=> h[n % 32].c
<1> DEFINE f == [p \in Pairs(m) |-> RclStep(m, p)]
           s == Start(v, cf)
           k == n % 32
           h == CHOOSE g : g = [i \in 0 .. k |-> IF i = 0 THEN s ELSE RclStep(m, g[i - 1])]
<1>0. k \in Nat
  BY SMT
<1>1. f \in [Pairs(m) -> Pairs(m)] /\ s \in Pairs(m)
  BY RclType DEF Start, Pairs
<1>2. PICK g \in [0 .. k -> Pairs(m)] : Iterates(f, s, k, g)
  <2> HIDE DEF f, s
  <2> QED BY <1>0, <1>1, Unrolled
<1>3. g = [i \in 0 .. k |-> IF i = 0 THEN s ELSE RclStep(m, g[i - 1])]
  <2>1. ASSUME NEW i \in 0 .. k, i # 0 PROVE f[g[i - 1]] = RclStep(m, g[i - 1])
    <3>1. g[i - 1] \in Pairs(m)
      BY <2>1, <1>0
    <3> QED BY <3>1
  <2> HIDE DEF f, s
  <2> QED BY <1>2, <2>1 DEF Iterates
<1>4. h = [i \in 0 .. k |-> IF i = 0 THEN s ELSE RclStep(m, h[i - 1])]
  <2> HIDE DEF s
  <2> QED BY <1>3, Zenon
<1>5. h[k] = Repeat(k, s, LAMBDA p : [v |-> ((2 * p.v) % m) + (IF p.c THEN 1 ELSE 0), c |-> p.v >= m \div 2])
  BY Zenon DEF Repeat, RclStep
<1>6. do_rcl(m, v, n, cf).val = h[k].v /\ ("CF" \in do_rcl(m, v, n, cf).fl <=> h[k].c)
  <2> DEFINE r == Repeat(k, s, LAMBDA p : [v |-> ((2 * p.v) % m) + (IF p.c THEN 1 ELSE 0), c |-> p.v >= m \div 2])
  <2>1. /\ do_rcl(m, v, n, cf).val = r.v
        /\ do_rcl(m, v, n, cf).fl = When(r.c, "CF") \cup When(r.c # (r.v >= m \div 2), "OF")
    BY Zenon DEF do_rcl
  <2> HIDE DEF r, h
  <2>2. r = h[k]
    BY <1>5, Zenon DEF r
  <2>3. "CF" \in do_rcl(m, v, n, cf).fl <=> r.c
    BY <2>1, FlagsDistinct, Zenon DEF ShiftFlags, When
  <2> QED BY <2>1, <2>2, <2>3
<1>7. h[0] = s /\ \A i \in 1 .. k : h[i] = RclStep(m, h[i - 1])
  <2> HIDE DEF s, h
  <2> QED BY <1>4, <1>0
<1>8. \A i \in 0 .. k : h[i] \in Pairs(m)
  <2> HIDE DEF h, s
  <2> QED BY <1>0, <1>1, <1>7, RclType, Typed
<1> HIDE DEF h
<1> QED BY <1>6, <1>7, <1>8 DEF Runs

(* The loop of do_rcr. *)
RcrStep(m, p) == [v |-> p.v \div 2 + (IF p.c THEN m \div 2 ELSE 0), c |-> p.v % 2 = 1]
(* A round keeps to the width. *)
LEMMA RcrType ==
  ASSUME NEW m \in Sizes, NEW p \in Pairs(m) PROVE RcrStep(m, p) \in Pairs(m)
BY DEF Sizes, Pairs, RcrStep

(* The rounds of the loop, and what is read off the last one. *)
LEMMA RcrLoop ==
  ASSUME NEW m \in Sizes, NEW v \in 0 .. m - 1, NEW cf \in BOOLEAN, NEW n \in Nat
  PROVE  \E h : /\ Runs(h, n % 32, m, Start(v, cf))
                /\ \A i \in 1 .. n % 32 : h[i] = RcrStep(m, h[i - 1])
                /\ do_rcr(m, v, n, cf).val = h[n % 32].v
                /\ "CF" \in do_rcr(m, v, n, cf).fl <=> h[n % 32].c
<1> DEFINE f == [p \in Pairs(m) |-> RcrStep(m, p)]
           s == Start(v, cf)
           k == n % 32
           h == CHOOSE g : g = [i \in 0 .. k |-> IF i = 0 THEN s ELSE RcrStep(m, g[i - 1])]
<1>0. k \in Nat
  BY SMT
<1>1. f \in [Pairs(m) -> Pairs(m)] /\ s \in Pairs(m)
  BY RcrType DEF Start, Pairs
<1>2. PICK g \in [0 .. k -> Pairs(m)] : Iterates(f, s, k, g)
  <2> HIDE DEF f, s
  <2> QED BY <1>0, <1>1, Unrolled
<1>3. g = [i \in 0 .. k |-> IF i = 0 THEN s ELSE RcrStep(m, g[i - 1])]
  <2>1. ASSUME NEW i \in 0 .. k, i # 0 PROVE f[g[i - 1]] = RcrStep(m, g[i - 1])
    <3>1. g[i - 1] \in Pairs(m)
      BY <2>1, <1>0
    <3> QED BY <3>1
  <2> HIDE DEF f, s
  <2> QED BY <1>2, <2>1 DEF Iterates
<1>4. h = [i \in 0 .. k |-> IF i = 0 THEN s ELSE RcrStep(m, h[i - 1])]
  <2> HIDE DEF s
  <2> QED BY <1>3, Zenon
<1>5. h[k] = Repeat(k, s, LAMBDA p : [v |-> p.v \div 2 + (IF p.c THEN m \div 2 ELSE 0), c |-> p.v % 2 = 1])
  BY Zenon DEF Repeat, RcrStep
<1>6. do_rcr(m, v, n, cf).val = h[k].v /\ ("CF" \in do_rcr(m, v, n, cf).fl <=> h[k].c)
  <2> DEFINE r == Repeat(k, s, LAMBDA p : [v |-> p.v \div 2 + (IF p.c THEN m \div 2 ELSE 0), c |-> p.v % 2 = 1])
  <2>1. /\ do_rcr(m, v, n, cf).val = r.v
        /\ do_rcr(m, v, n, cf).fl = When(r.c, "CF") \cup When(TopBitsDiffer(m, r.v), "OF")
    BY Zenon DEF do_rcr
  <2> HIDE DEF r, h
  <2>2. r = h[k]
    BY <1>5, Zenon DEF r
  <2>3. "CF" \in do_rcr(m, v, n, cf).fl <=> r.c
    BY <2>1, FlagsDistinct, Zenon DEF ShiftFlags, When
  <2> QED BY <2>1, <2>2, <2>3
<1>7. h[0] = s /\ \A i \in 1 .. k : h[i] = RcrStep(m, h[i - 1])
  <2> HIDE DEF s, h
  <2> QED BY <1>4, <1>0
<1>8. \A i \in 0 .. k : h[i] \in Pairs(m)
  <2> HIDE DEF h, s
  <2> QED BY <1>0, <1>1, <1>7, RcrType, Typed
<1> HIDE DEF h
<1> QED BY <1>6, <1>7, <1>8 DEF Runs

(* A number by a quotient and a remainder. *)
LEMMA Quotients ==
  ASSUME NEW v \in Int, NEW p \in Nat \ {0}, NEW a \in Int, NEW r \in 0 .. p - 1, v = p * a + r
  PROVE  v \div p = a /\ v % p = r
BY SMT
(* Every number has them. *)
LEMMA Parts ==
  ASSUME NEW v \in Int, NEW p \in Nat \ {0}
  PROVE  /\ v \div p \in Int /\ v % p \in 0 .. p - 1 /\ v = p * (v \div p) + (v % p)
         /\ v \in Nat => v \div p \in Nat
BY SMT

(* Halving a quotient: v = 2pk + (pb + r). *)
LEMMA HalfQuotient ==
  ASSUME NEW v \in Int, NEW p \in Nat \ {0}
  PROVE  /\ (v \div p) \div 2 = v \div (2 * p)
         /\ v % (2 * p) = p * ((v \div p) % 2) + (v % p)
         /\ 2 * p \in Nat \ {0}
<1>1. PICK a, r : a = v \div p /\ r = v % p
  OBVIOUS
<1>2. a \in Int /\ r \in 0 .. p - 1 /\ v = p * a + r
  BY <1>1, Parts
<1>3. PICK k, b : k = a \div 2 /\ b = a % 2
  OBVIOUS
<1>4. k \in Int /\ b \in 0 .. 1 /\ a = 2 * k + b
  BY <1>2, <1>3
<1>5. p * a = p * (2 * k) + p * b
  BY <1>2, <1>4
<1>6. p * (2 * k) = (2 * p) * k
  BY <1>4
<1>7. p * b \in {0, p} /\ p * b \in Int /\ (2 * p) * k \in Int
  <2>1. b = 0 \/ b = 1
    BY <1>4
  <2> QED BY <2>1, <1>4
<1>8. v = (2 * p) * k + (p * b + r) /\ p * b + r \in 0 .. (2 * p) - 1 /\ 2 * p \in Nat \ {0}
  <2>1. PICK d, e, f : d = p * a /\ e = p * b /\ f = (2 * p) * k
    OBVIOUS
  <2>2. d = f + e /\ e \in {0, p} /\ f \in Int /\ v = d + r /\ r \in 0 .. p - 1
    BY <1>2, <1>5, <1>6, <1>7, <2>1
  <2>3. v = f + (e + r) /\ e + r \in 0 .. (2 * p) - 1
    BY <2>2
  <2> QED BY <2>1, <2>3
<1>9. v \div (2 * p) = k /\ v % (2 * p) = p * b + r
  <2>1. PICK q, s : q = 2 * p /\ s = p * b + r
    OBVIOUS
  <2> QED BY <1>4, <1>8, <2>1, Quotients
<1> QED BY <1>1, <1>3, <1>8, <1>9

(* SHL by one more bit: v modulo 2q, in the place of p, where 2pq = m. *)
LEMMA ShlBit ==
  ASSUME NEW v \in Nat, NEW p \in Nat \ {0}, NEW q \in Nat \ {0}
  PROVE  /\ (2 * ((v % (2 * q)) * p)) % ((2 * p) * q) = (v % q) * (2 * p)
         /\ (v % (2 * q)) * p >= ((2 * p) * q) \div 2 <=> BitSet(v, q)
<1>0. PICK m, u : m = (2 * p) * q /\ u = (v % (2 * q)) * p
  OBVIOUS
<1>1. PICK r, b, e : r = v % q /\ b = (v \div q) % 2 /\ e = p * q
  OBVIOUS
<1>2. r \in 0 .. q - 1 /\ b \in {0, 1} /\ v % (2 * q) = q * b + r
  <2>1. v \in Int
    OBVIOUS
  <2>2. r \in 0 .. q - 1 /\ v \div q \in Int
    BY <1>1, <2>1, Parts, Zenon
  <2>3. v % (2 * q) = q * b + r
    BY <1>1, <2>1, HalfQuotient, Zenon
  <2> QED BY <1>1, <2>2, <2>3
<1>3. e \in Nat \ {0} /\ m = 2 * e /\ m \div 2 = e
  BY <1>0, <1>1
<1>4. r * p \in Nat /\ r * p < e
  <2>1. (q - r) * p >= p /\ (q - r) * p = q * p - r * p
    BY <1>2
  <2> QED BY <1>1, <1>2, <2>1
<1>5. u = b * e + r * p
  BY <1>0, <1>1, <1>2
<1>6. PICK w : w = r * p
  OBVIOUS
<1>7. (v % q) * (2 * p) = 2 * w
  BY <1>1, <1>2, <1>6
<1>8. (2 * u) % m = 2 * w
  BY <1>2, <1>3, <1>4, <1>5, <1>6
<1>9. u >= m \div 2 <=> b = 1
  BY <1>2, <1>3, <1>4, <1>5, <1>6
<1> QED BY <1>0, <1>1, <1>7, <1>8, <1>9 DEF BitSet

(* ROR by one more bit. *)
LEMMA RorBit ==
  ASSUME NEW v \in Nat, NEW p \in Nat \ {0}, NEW q \in Nat \ {0}, NEW u,
         u = v \div p + (v % p) * (2 * q)
  PROVE  u \div 2 + (u % 2) * (((2 * p) * q) \div 2) = v \div (2 * p) + (v % (2 * p)) * q
<1>m. PICK m : m = (2 * p) * q
  OBVIOUS
<1>1. PICK a, r, e, w : a = v \div p /\ r = v % p /\ e = p * q /\ w = r * q
  OBVIOUS
<1>0. v \in Int
  OBVIOUS
<1>2. a \in Nat /\ r \in Nat
  <2>1. v \div p \in Nat /\ v % p \in 0 .. p - 1
    BY <1>0, Parts, Zenon
  <2> QED BY <1>1, <2>1
<1>3. m \div 2 = e /\ e \in Nat /\ w \in Nat
  BY <1>m, <1>1, <1>2
<1>4. u = a + 2 * w
  <2>1. (v % p) * (2 * q) = 2 * w
    BY <1>1, <1>2
  <2> QED BY <1>1, <2>1
<1>5. PICK k, b : k = a \div 2 /\ b = a % 2
  OBVIOUS
<1>6. u \div 2 = k + w /\ u % 2 = b /\ b \in {0, 1} /\ k \in Nat
  <2>1. ASSUME NEW i \in Nat, NEW j \in Nat
        PROVE  /\ (i + 2 * j) \div 2 = (i \div 2) + j /\ (i + 2 * j) % 2 = i % 2
               /\ i % 2 \in {0, 1} /\ i \div 2 \in Nat
    OBVIOUS
  <2> QED BY <1>2, <1>3, <1>4, <1>5, <2>1, ZenonT(60)
<1>7. v \div (2 * p) = k /\ v % (2 * p) = p * b + r
  BY <1>0, <1>1, <1>5, HalfQuotient, Zenon
<1>8. (p * b + r) * q = b * e + w
  BY <1>1, <1>2, <1>6
<1>9. (u % 2) * (m \div 2) = b * e /\ b * e \in Nat
  BY <1>3, <1>6
<1>10. PICK d : d = b * e /\ d \in Nat
  BY <1>9
<1>11. u \div 2 + (u % 2) * (m \div 2) = (k + w) + d
  BY <1>6, <1>9, <1>10, Zenon
<1>12. v \div (2 * p) + (v % (2 * p)) * q = k + (d + w)
  BY <1>7, <1>8, <1>10, Zenon
<1>13. (k + w) + d = k + (d + w)
  BY <1>3, <1>6, <1>10
<1> QED BY <1>m, <1>11, <1>12, <1>13, Zenon

(* Powers of two, up to the width of a word. *)
Two(i) == 2^i
BitsOf(m) == IF m = 256 THEN 8 ELSE 16

(* Their values. *)
LEMMA Table ==
  /\ Two(0) = 1 /\ Two(1) = 2 /\ Two(2) = 4 /\ Two(3) = 8 /\ Two(4) = 16 /\ Two(5) = 32
  /\ Two(6) = 64 /\ Two(7) = 128 /\ Two(8) = 256 /\ Two(9) = 512 /\ Two(10) = 1024
  /\ Two(11) = 2048 /\ Two(12) = 4096 /\ Two(13) = 8192 /\ Two(14) = 16384
  /\ Two(15) = 32768 /\ Two(16) = 65536
BY SMT DEF Two

(* Each is twice the one before. *)
LEMMA Doubling ==
  ASSUME NEW i \in 1 .. 16 PROVE Two(i - 1) \in Nat \ {0} /\ Two(i) = 2 * Two(i - 1)
BY Table

(* A power and the power of the bits left make up the width. *)
LEMMA Complement ==
  ASSUME NEW m \in Sizes, NEW i \in 1 .. BitsOf(m)
  PROVE  m = (2 * Two(i - 1)) * Two(BitsOf(m) - i)
<1>1. CASE m = 256
  <2>1. ASSUME NEW j \in 1 .. 8 PROVE 256 = (2 * Two(j - 1)) * Two(8 - j)
    BY Table
  <2> QED BY <1>1, <2>1 DEF BitsOf
<1>2. CASE m = 65536
  <2>1. ASSUME NEW j \in 1 .. 16 PROVE 65536 = (2 * Two(j - 1)) * Two(16 - j)
    BY Table
  <2> QED BY <1>2, <2>1 DEF BitsOf
<1> QED BY <1>1, <1>2 DEF Sizes

(* The same for the number of bits b of the width m. *)
LEMMA BitFacts ==
  ASSUME NEW m \in Sizes, NEW b, b = BitsOf(m)
  PROVE  /\ b \in {8, 16} /\ m \in Nat /\ m > 1 /\ Two(b) = m /\ Two(0) = 1
         /\ m \div 2 \in Nat /\ m = 2 * (m \div 2) /\ m \div 2 > 0
         /\ \A i \in 0 .. b : Two(i) \in Nat \ {0}
         /\ \A i \in 1 .. b : Two(i) = 2 * Two(i - 1) /\ m = (2 * Two(i - 1)) * Two(b - i)
         /\ \A i \in 1 .. b : Two(b - (i - 1)) = 2 * Two(b - i)
<1>1. /\ b \in {8, 16} /\ m \in Nat /\ m > 1 /\ Two(b) = m /\ Two(0) = 1
      /\ m \div 2 \in Nat /\ m = 2 * (m \div 2) /\ m \div 2 > 0
  BY Table DEF Sizes, BitsOf
<1>2. \A i \in 0 .. b : Two(i) \in Nat \ {0}
  BY <1>1, Table
<1>3. ASSUME NEW i \in 1 .. b
      PROVE  Two(i) = 2 * Two(i - 1) /\ m = (2 * Two(i - 1)) * Two(b - i)
  <2>1. i \in 1 .. 16
    BY <1>1
  <2> QED BY <2>1, Doubling, Complement
<1>4. ASSUME NEW i \in 1 .. b PROVE Two(b - (i - 1)) = 2 * Two(b - i)
  <2>1. PICK j : j = b - (i - 1)
    OBVIOUS
  <2>2. j \in 1 .. 16 /\ j - 1 = b - i
    BY <1>1, <2>1
  <2> QED BY <2>1, <2>2, Doubling
<1> QED BY <1>1, <1>2, <1>3, <1>4

(* Counting, up to n. *)
LEMMA UpTo ==
  ASSUME NEW S, NEW n \in Nat, 0 \in S, \A i \in 1 .. n : i - 1 \in S => i \in S
  PROVE  \A i \in 0 .. n : i \in S
<1> DEFINE A == {i \in Nat : i <= n => i \in S}
<1>1. 0 \in A
  OBVIOUS
<1>2. ASSUME NEW k \in Nat, k # 0, k - 1 \in A PROVE k \in A
  BY <1>2
<1>3. \A i \in Nat : i \in A
  <2> HIDE DEF A
  <2> QED BY <1>1, <1>2, Counting
<1> QED BY <1>3

(* SHL: v without the bits shifted out, in its place. *)
ShlVal(m, v, i) == IF i <= BitsOf(m) THEN (v % Two(BitsOf(m) - i)) * Two(i) ELSE 0
(* One more round, and the bit that it shifts out. *)
LEMMA ShlNext ==
  ASSUME NEW m \in Sizes, NEW v \in 0 .. m - 1, NEW i \in Nat \ {0}
  PROVE  /\ (2 * ShlVal(m, v, i - 1)) % m = ShlVal(m, v, i)
         /\ ShlVal(m, v, i - 1) >= m \div 2 <=> i <= BitsOf(m) /\ BitSet(v, Two(BitsOf(m) - i))
<1>0. PICK b : b = BitsOf(m)
  OBVIOUS
<1>b. b \in {8, 16} /\ m \in Nat /\ m > 1 /\ m \div 2 \in Nat /\ m \div 2 > 0 /\ Two(0) = 1 /\ Two(b) = m
  BY <1>0, BitFacts
<1>1. CASE i <= b
  <2>1. PICK p, q, u : p = Two(i - 1) /\ q = Two(b - i) /\ u = (v % (2 * q)) * p
    OBVIOUS
  <2>2. i \in 1 .. b /\ i - 1 \in 0 .. b /\ b - i \in 0 .. b /\ v \in Nat
    BY <1>1, <1>b
  <2>3. p \in Nat \ {0} /\ q \in Nat \ {0} /\ m = (2 * p) * q /\ Two(b - (i - 1)) = 2 * q
        /\ Two(i) = 2 * p
    BY <1>0, <2>1, <2>2, BitFacts
  <2>4. (2 * u) % m = (v % q) * (2 * p) /\ (u >= m \div 2 <=> BitSet(v, q))
    <3>1. v \in Nat /\ p \in Nat \ {0} /\ q \in Nat \ {0} /\ m = (2 * p) * q /\ u = (v % (2 * q)) * p
      BY <2>1, <2>2, <2>3, Zenon
    <3>2. /\ (2 * ((v % (2 * q)) * p)) % ((2 * p) * q) = (v % q) * (2 * p)
          /\ (v % (2 * q)) * p >= ((2 * p) * q) \div 2 <=> BitSet(v, q)
      BY <3>1, ShlBit, Zenon
    <3> QED BY <3>1, <3>2, Zenon
  <2>5. ShlVal(m, v, i - 1) = u
    BY <1>0, <1>1, <1>b, <2>1, <2>2, <2>3 DEF ShlVal
  <2>6. ShlVal(m, v, i) = (v % q) * (2 * p)
    BY <1>0, <1>1, <2>1, <2>3 DEF ShlVal
  <2> QED BY <1>0, <1>1, <2>1, <2>4, <2>5, <2>6
<1>2. CASE ~(i <= b)
  <2>1. ShlVal(m, v, i - 1) = 0
    <3>1. CASE i - 1 = b
      <4>1. v % Two(b - b) = 0
        BY <1>b
      <4> QED BY <1>0, <1>b, <3>1, <4>1 DEF ShlVal
    <3>2. CASE i - 1 # b
      BY <1>0, <1>2, <1>b, <3>2 DEF ShlVal
    <3> QED BY <3>1, <3>2
  <2>2. ShlVal(m, v, i) = 0
    BY <1>0, <1>2 DEF ShlVal
  <2> QED BY <1>0, <1>2, <1>b, <2>1, <2>2
<1> QED BY <1>1, <1>2

(* What do_shl computes. *)
LEMMA ShlClosed ==
  ASSUME NEW m \in Sizes, NEW v \in 0 .. m - 1, NEW n \in Nat \ {0}
  PROVE  /\ do_shl(m, v, n).val = ShlVal(m, v, n)
         /\ "CF" \in do_shl(m, v, n).fl <=> n <= BitsOf(m) /\ BitSet(v, Two(BitsOf(m) - n))
<1>1. PICK h : /\ Runs(h, n, m, Start(v, FALSE))
               /\ \A i \in 1 .. n : h[i] = ShlStep(m, h[i - 1])
               /\ do_shl(m, v, n).val = h[n].v
               /\ "CF" \in do_shl(m, v, n).fl <=> h[n].c
  BY ShlLoop
<1> DEFINE S == {i \in 0 .. n : h[i].v = ShlVal(m, v, i)}
<1>2. 0 \in S
  <2>1. h[0].v = v
    BY <1>1 DEF Runs, Start
  <2>2. ShlVal(m, v, 0) = (v % m) * 1
    BY BitFacts DEF ShlVal
  <2>3. v % m = v /\ v * 1 = v
    BY DEF Sizes
  <2> QED BY <2>1, <2>2, <2>3
<1>3. ASSUME NEW i \in 1 .. n, i - 1 \in S PROVE i \in S
  <2>1. h[i].v = (2 * h[i - 1].v) % m
    <3>1. h[i] = ShlStep(m, h[i - 1])
      BY <1>1
    <3> QED BY <3>1 DEF ShlStep
  <2>2. h[i - 1].v = ShlVal(m, v, i - 1)
    BY <1>3
  <2>3. (2 * ShlVal(m, v, i - 1)) % m = ShlVal(m, v, i)
    BY ShlNext
  <2> QED BY <2>1, <2>2, <2>3
<1>4. \A i \in 0 .. n : i \in S
  <2> HIDE DEF S
  <2> QED BY <1>2, <1>3, UpTo
<1>5. h[n].v = ShlVal(m, v, n) /\ h[n - 1].v = ShlVal(m, v, n - 1)
  BY <1>4
<1>6. h[n].c <=> h[n - 1].v >= m \div 2
  <2>1. h[n] = ShlStep(m, h[n - 1])
    BY <1>1
  <2>2. ShlStep(m, h[n - 1]).c <=> h[n - 1].v >= m \div 2
    BY Zenon DEF ShlStep
  <2> QED BY <2>1, <2>2
<1> QED BY <1>1, <1>5, <1>6, ShlNext

(* SHR: the quotient. *)
ShrVal(m, v, i) == IF i <= BitsOf(m) THEN v \div Two(i) ELSE 0
(* One more round, and the bit that it shifts out. *)
LEMMA ShrNext ==
  ASSUME NEW m \in Sizes, NEW v \in 0 .. m - 1, NEW i \in Nat \ {0}
  PROVE  /\ ShrVal(m, v, i - 1) \div 2 = ShrVal(m, v, i)
         /\ ShrVal(m, v, i - 1) % 2 = 1 <=> i <= BitsOf(m) /\ BitSet(v, Two(i - 1))
<1>0. PICK b : b = BitsOf(m)
  OBVIOUS
<1>b. b \in {8, 16} /\ m \in Nat /\ m > 1 /\ Two(b) = m
  BY <1>0, BitFacts
<1>1. CASE i <= b
  <2>1. PICK p : p = Two(i - 1)
    OBVIOUS
  <2>2. i \in 1 .. b /\ i - 1 \in 0 .. b /\ v \in Int
    BY <1>1, <1>b
  <2>3. p \in Nat \ {0} /\ Two(i) = 2 * p
    BY <1>0, <2>1, <2>2, BitFacts
  <2>4. (v \div p) \div 2 = v \div (2 * p)
    BY <2>2, <2>3, HalfQuotient, Zenon
  <2>5. ShrVal(m, v, i - 1) = v \div p /\ ShrVal(m, v, i) = v \div (2 * p)
    BY <1>0, <1>1, <1>b, <2>1, <2>2, <2>3 DEF ShrVal
  <2> QED BY <1>0, <1>1, <2>1, <2>4, <2>5 DEF BitSet
<1>2. CASE ~(i <= b)
  <2>1. ShrVal(m, v, i - 1) = 0
    <3>1. CASE i - 1 = b
      <4>1. v \div m = 0
        BY DEF Sizes
      <4> QED BY <1>0, <1>b, <3>1, <4>1 DEF ShrVal
    <3>2. CASE i - 1 # b
      BY <1>0, <1>2, <1>b, <3>2 DEF ShrVal
    <3> QED BY <3>1, <3>2
  <2>2. ShrVal(m, v, i) = 0
    BY <1>0, <1>2 DEF ShrVal
  <2> QED BY <1>0, <1>2, <2>1, <2>2
<1> QED BY <1>1, <1>2

(* What do_shr computes. *)
LEMMA ShrClosed ==
  ASSUME NEW m \in Sizes, NEW v \in 0 .. m - 1, NEW n \in Nat \ {0}
  PROVE  /\ do_shr(m, v, n).val = ShrVal(m, v, n)
         /\ "CF" \in do_shr(m, v, n).fl <=> n <= BitsOf(m) /\ BitSet(v, Two(n - 1))
<1>1. PICK h : /\ Runs(h, n, m, Start(v, FALSE))
               /\ \A i \in 1 .. n : h[i] = ShrStep(h[i - 1])
               /\ do_shr(m, v, n).val = h[n].v
               /\ "CF" \in do_shr(m, v, n).fl <=> h[n].c
  BY ShrLoop
<1>2. ASSUME NEW i \in 1 .. n
      PROVE  h[i].v = h[i - 1].v \div 2 /\ (h[i].c <=> h[i - 1].v % 2 = 1)
  <2>1. h[i] = ShrStep(h[i - 1])
    BY <1>1
  <2>2. /\ ShrStep(h[i - 1]).v = h[i - 1].v \div 2
        /\ ShrStep(h[i - 1]).c <=> h[i - 1].v % 2 = 1
    BY Zenon DEF ShrStep
  <2> QED BY <2>1, <2>2
<1> DEFINE S == {i \in 0 .. n : h[i].v = ShrVal(m, v, i)}
<1>3. 0 \in S
  <2>1. h[0].v = v
    BY <1>1 DEF Runs, Start
  <2>2. ShrVal(m, v, 0) = v \div 1
    BY BitFacts DEF ShrVal
  <2> QED BY <2>1, <2>2 DEF Sizes
<1>4. ASSUME NEW i \in 1 .. n, i - 1 \in S PROVE i \in S
  <2>1. h[i - 1].v = ShrVal(m, v, i - 1)
    BY <1>4
  <2> QED BY <1>2, <2>1, ShrNext
<1>5. \A i \in 0 .. n : i \in S
  <2> HIDE DEF S
  <2> QED BY <1>3, <1>4, UpTo
<1>6. h[n].v = ShrVal(m, v, n) /\ h[n - 1].v = ShrVal(m, v, n - 1)
  BY <1>5
<1> QED BY <1>1, <1>2, <1>6, ShrNext

(* SAR: the quotient of the signed number. *)
SarVal(m, s, i) == s \div (IF i <= BitsOf(m) THEN Two(i) ELSE m)
(* One more round, and the bit that it shifts out. *)
LEMMA SarNext ==
  ASSUME NEW m \in Sizes, NEW v \in 0 .. m - 1, NEW i \in Nat \ {0}, NEW s, s = sign_extend(m, v)
  PROVE  /\ SarVal(m, s, i - 1) \div 2 = SarVal(m, s, i)
         /\ SarVal(m, s, i - 1) % 2 = 1 <=>
              IF i <= BitsOf(m) THEN BitSet(v, Two(i - 1)) ELSE v >= m \div 2
<1>0. PICK b : b = BitsOf(m)
  OBVIOUS
<1>b. b \in {8, 16} /\ m \in Nat /\ m > 1 /\ Two(b) = m
  BY <1>0, BitFacts
<1>s. s \in Int /\ (s = v \/ s = v - m)
  BY <1>b DEF sign_extend
<1>1. CASE i <= b
  <2>1. PICK p, q : p = Two(i - 1) /\ q = Two(b - i)
    OBVIOUS
  <2>2. i \in 1 .. b /\ i - 1 \in 0 .. b /\ b - i \in 0 .. b /\ v \in Int
    BY <1>1, <1>b
  <2>3. p \in Nat \ {0} /\ Two(i) = 2 * p /\ q \in Nat \ {0} /\ m = (2 * p) * q
    BY <1>0, <2>1, <2>2, BitFacts
  <2>4. (s \div p) \div 2 = s \div (2 * p)
    BY <1>s, <2>3, HalfQuotient, Zenon
  <2>5. SarVal(m, s, i - 1) = s \div p /\ SarVal(m, s, i) = s \div (2 * p)
    BY <1>0, <1>1, <1>b, <2>1, <2>2, <2>3 DEF SarVal
  <2>6. (s \div p) % 2 = (v \div p) % 2
    <3>1. CASE s = v
      BY <3>1
    <3>2. CASE s = v - m
      <4>1. PICK a, r : a = v \div p /\ r = v % p
        OBVIOUS
      <4>2. a \in Int /\ r \in 0 .. p - 1 /\ v = p * a + r
        BY <2>2, <2>3, <4>1, Parts, Zenon
      <4>3. PICK k, d, e : k = a - 2 * q /\ d = p * a /\ e = p * k
        OBVIOUS
      <4>4. k \in Int /\ d \in Int /\ m = p * (2 * q) /\ e = d - p * (2 * q)
        BY <2>3, <4>2, <4>3
      <4>5. s = e + r
        BY <1>b, <3>2, <4>2, <4>3, <4>4
      <4>q. s = p * k + r /\ p \in Nat \ {0} /\ r \in 0 .. p - 1 /\ s \in Int /\ k \in Int
        BY <1>s, <2>3, <4>2, <4>3, <4>4, <4>5, Zenon
      <4>r. s \div p = k
        BY <4>q, Quotients
      <4>6. (a - 2 * q) % 2 = a % 2
        BY <2>3, <4>2
      <4> QED BY <4>1, <4>3, <4>r, <4>6
    <3> QED BY <1>s, <3>1, <3>2
  <2> QED BY <1>0, <1>1, <2>1, <2>4, <2>5, <2>6 DEF BitSet
<1>2. CASE ~(i <= b)
  <2>1. SarVal(m, s, i - 1) = s \div m /\ SarVal(m, s, i) = s \div m
    BY <1>0, <1>2, <1>b DEF SarVal
  <2>2. IF v >= m \div 2 THEN s \div m = -1 ELSE s \div m = 0
    BY DEF Sizes, sign_extend
  <2> QED BY <1>0, <1>2, <2>1, <2>2
<1> QED BY <1>1, <1>2

(* A round halves the signed number and keeps its sign. *)
LEMMA SarBit ==
  ASSUME NEW m \in Sizes, NEW w \in 0 .. m - 1, NEW v, NEW u, u = w \div 2 + Sign(m, v),
         w >= m \div 2 <=> v >= m \div 2
  PROVE  /\ sign_extend(m, u) = sign_extend(m, w) \div 2
         /\ u >= m \div 2 <=> v >= m \div 2
         /\ w % 2 = sign_extend(m, w) % 2
<1>1. CASE v >= m \div 2
  BY <1>1 DEF Sizes, Sign, sign_extend
<1>2. CASE ~(v >= m \div 2)
  BY <1>2 DEF Sizes, Sign, sign_extend
<1> QED BY <1>1, <1>2

(* What do_sar computes. *)
LEMMA SarClosed ==
  ASSUME NEW m \in Sizes, NEW v \in 0 .. m - 1, NEW n \in Nat \ {0}, NEW s, s = sign_extend(m, v)
  PROVE  /\ sign_extend(m, do_sar(m, v, n).val) = SarVal(m, s, n)
         /\ "CF" \in do_sar(m, v, n).fl <=>
              IF n <= BitsOf(m) THEN BitSet(v, Two(n - 1)) ELSE v >= m \div 2
<1>1. PICK h : /\ Runs(h, n, m, Start(v, FALSE))
               /\ \A i \in 1 .. n : h[i] = SarStep(Sign(m, v), h[i - 1])
               /\ do_sar(m, v, n).val = h[n].v
               /\ "CF" \in do_sar(m, v, n).fl <=> h[n].c
  BY SarLoop
<1>2. ASSUME NEW i \in 1 .. n
      PROVE  /\ h[i].v = h[i - 1].v \div 2 + Sign(m, v) /\ (h[i].c <=> h[i - 1].v % 2 = 1)
             /\ h[i - 1].v \in 0 .. m - 1
  <2>1. h[i] = SarStep(Sign(m, v), h[i - 1]) /\ h[i - 1] \in Pairs(m)
    BY <1>1 DEF Runs
  <2>2. /\ SarStep(Sign(m, v), h[i - 1]).v = h[i - 1].v \div 2 + Sign(m, v)
        /\ SarStep(Sign(m, v), h[i - 1]).c <=> h[i - 1].v % 2 = 1
    BY Zenon DEF SarStep
  <2>3. h[i - 1].v \in 0 .. m - 1
    BY <2>1 DEF Pairs
  <2> QED BY <2>1, <2>2, <2>3
<1> DEFINE Right(i) == /\ sign_extend(m, h[i].v) = SarVal(m, s, i)
                       /\ h[i].v >= m \div 2 <=> v >= m \div 2
           S == {i \in 0 .. n : Right(i)}
<1>3. 0 \in S
  <2>1. h[0].v = v
    BY <1>1 DEF Runs, Start
  <2>2. SarVal(m, s, 0) = s \div 1 /\ s \in Int
    BY BitFacts DEF SarVal, sign_extend
  <2> QED BY <2>1, <2>2
<1>4. ASSUME NEW i \in 1 .. n, i - 1 \in S PROVE i \in S
  <2>1. /\ sign_extend(m, h[i - 1].v) = SarVal(m, s, i - 1)
        /\ h[i - 1].v >= m \div 2 <=> v >= m \div 2
    <3> HIDE DEF Right
    <3>1. Right(i - 1)
      BY <1>4
    <3> QED BY <3>1, Zenon DEF Right
  <2>2. /\ sign_extend(m, h[i].v) = sign_extend(m, h[i - 1].v) \div 2
        /\ h[i].v >= m \div 2 <=> v >= m \div 2
    BY <1>2, <2>1, SarBit
  <2> QED BY <2>1, <2>2, SarNext
<1>5. \A i \in 0 .. n : i \in S
  <2> HIDE DEF S
  <2> QED BY <1>3, <1>4, UpTo
<1>6. /\ sign_extend(m, h[n].v) = SarVal(m, s, n)
      /\ sign_extend(m, h[n - 1].v) = SarVal(m, s, n - 1)
      /\ h[n - 1].v >= m \div 2 <=> v >= m \div 2
  <2> HIDE DEF Right
  <2>1. Right(n) /\ Right(n - 1)
    BY <1>5
  <2> QED BY <2>1, Zenon DEF Right
<1>7. h[n].c <=> SarVal(m, s, n - 1) % 2 = 1
  BY <1>2, <1>6, SarBit
<1> QED BY <1>1, <1>6, <1>7, SarNext

(* ROR: the low bits in front of the high ones; after the whole width the  *)
(* number is back.                                                         *)
RorVal(m, v, i) == v \div Two(i) + (v % Two(i)) * Two(BitsOf(m) - i)
(* One more round. *)
LEMMA RorNext ==
  ASSUME NEW m \in Sizes, NEW v \in 0 .. m - 1, NEW i \in 1 .. BitsOf(m),
         NEW u, u = RorVal(m, v, i - 1)
  PROVE  u \div 2 + (u % 2) * (m \div 2) = RorVal(m, v, i)
<1>0. PICK b : b = BitsOf(m)
  OBVIOUS
<1>1. b \in {8, 16} /\ m \in Nat
  BY <1>0, BitFacts
<1>2. PICK p, q : p = Two(i - 1) /\ q = Two(b - i)
  OBVIOUS
<1>3. i \in 1 .. b /\ i - 1 \in 0 .. b /\ b - i \in 0 .. b /\ v \in Nat
  BY <1>0, <1>1
<1>4. p \in Nat \ {0} /\ q \in Nat \ {0} /\ m = (2 * p) * q /\ Two(b - (i - 1)) = 2 * q
      /\ Two(i) = 2 * p
  BY <1>0, <1>2, <1>3, BitFacts
<1>5. u = v \div p + (v % p) * (2 * q) /\ RorVal(m, v, i) = v \div (2 * p) + (v % (2 * p)) * q
  BY <1>0, <1>2, <1>4, Zenon DEF RorVal
<1>6. u \div 2 + (u % 2) * (((2 * p) * q) \div 2) = v \div (2 * p) + (v % (2 * p)) * q
  BY <1>3, <1>4, <1>5, RorBit, ZenonT(60)
<1> QED BY <1>4, <1>5, <1>6, Zenon

(* Before the first round and after the last one. *)
LEMMA RorEnds ==
  ASSUME NEW m \in Sizes, NEW v \in 0 .. m - 1
  PROVE  RorVal(m, v, 0) = v /\ RorVal(m, v, BitsOf(m)) = v
<1>0. PICK b : b = BitsOf(m)
  OBVIOUS
<1>1. b \in {8, 16} /\ Two(0) = 1 /\ Two(b) = m
  BY <1>0, BitFacts
<1>2. b - 0 = b /\ b - b = 0
  BY <1>1
<1>3. RorVal(m, v, 0) = v \div 1 + (v % 1) * m /\ RorVal(m, v, b) = v \div m + (v % m) * 1
  BY <1>0, <1>1, <1>2, Zenon DEF RorVal
<1>4. v \div 1 + (v % 1) * m = v /\ v \div m + (v % m) * 1 = v
  BY DEF Sizes
<1> QED BY <1>0, <1>3, <1>4

(* A run of the loop of do_ror, from any round on. *)
Rotates(h, n, m) ==
  /\ \A i \in 0 .. n : h[i].v \in 0 .. m - 1
  /\ \A i \in 1 .. n : h[i].v = h[i - 1].v \div 2 + (h[i - 1].v % 2) * (m \div 2)
(* As many rounds as the width has bits change nothing. *)
LEMMA RorPeriod ==
  ASSUME NEW m \in Sizes, NEW n \in Nat, NEW h, Rotates(h, n, m), NEW j \in Nat, j + BitsOf(m) <= n
  PROVE  h[j + BitsOf(m)].v = h[j].v
<1> DEFINE v == h[j].v
           S == {i \in 0 .. BitsOf(m) : h[j + i].v = RorVal(m, v, i)}
<1>0. BitsOf(m) \in {8, 16}
  BY BitFacts
<1>1. v \in 0 .. m - 1
  BY <1>0 DEF Rotates
<1>2. 0 \in S
  BY <1>0, <1>1, RorEnds
<1>3. ASSUME NEW i \in 1 .. BitsOf(m), i - 1 \in S PROVE i \in S
  <2>1. j + i \in 1 .. n /\ (j + i) - 1 = j + (i - 1)
    BY <1>0
  <2>2. PICK u : u = h[j + (i - 1)].v
    OBVIOUS
  <2>3. h[j + i].v = u \div 2 + (u % 2) * (m \div 2)
    BY <2>1, <2>2 DEF Rotates
  <2>4. u = RorVal(m, v, i - 1)
    BY <1>3, <2>2
  <2> HIDE DEF v
  <2>5. u \div 2 + (u % 2) * (m \div 2) = RorVal(m, v, i)
    BY <1>1, <2>4, RorNext, Zenon
  <2> QED BY <2>3, <2>5
<1>4. \A i \in 0 .. BitsOf(m) : i \in S
  <2> HIDE DEF S
  <2> QED BY <1>0, <1>2, <1>3, UpTo
<1> QED BY <1>0, <1>1, <1>4, RorEnds

(* Nor do 32 rounds, at either width. *)
LEMMA RorTurns ==
  ASSUME NEW m \in Sizes, NEW n \in Nat, NEW h, Rotates(h, n, m), NEW j \in Nat, NEW t \in Nat,
         j + 32 * t <= n
  PROVE  h[j + 32 * t].v = h[j].v
<1>1. ASSUME NEW i \in Nat, i + 32 <= n PROVE h[i + 32].v = h[i].v
  <2>1. CASE BitsOf(m) = 16
    <3>1. h[i + 16].v = h[i].v /\ h[(i + 16) + 16].v = h[i + 16].v
      BY <1>1, <2>1, RorPeriod
    <3> QED BY <3>1
  <2>2. CASE BitsOf(m) = 8
    <3>1. /\ h[i + 8].v = h[i].v /\ h[(i + 8) + 8].v = h[i + 8].v
          /\ h[(i + 16) + 8].v = h[i + 16].v /\ h[(i + 24) + 8].v = h[i + 24].v
      BY <1>1, <2>2, RorPeriod
    <3> QED BY <3>1
  <2> QED BY <2>1, <2>2, BitFacts
<1> DEFINE S == {i \in 0 .. t : h[j + 32 * i].v = h[j].v}
<1>2. 0 \in S
  OBVIOUS
<1>3. ASSUME NEW i \in 1 .. t, i - 1 \in S PROVE i \in S
  <2>1. j + 32 * (i - 1) \in Nat /\ (j + 32 * (i - 1)) + 32 = j + 32 * i /\ j + 32 * i <= n
    OBVIOUS
  <2>2. h[j + 32 * i].v = h[j + 32 * (i - 1)].v
    BY <1>1, <2>1
  <2> QED BY <1>3, <2>2
<1>4. \A i \in 0 .. t : i \in S
  <2> HIDE DEF S
  <2> QED BY <1>2, <1>3, UpTo
<1> QED BY <1>4

(* One bit to the left, and back. *)
LEMMA RolBack ==
  ASSUME NEW m \in Sizes, NEW v \in 0 .. m - 1, NEW w, w = ((2 * v) % m) + (v \div (m \div 2))
  PROVE  w \div 2 + (w % 2) * (m \div 2) = v
<1>1. PICK e : e = m \div 2 /\ e \in Nat \ {0} /\ m = 2 * e
  BY BitFacts
<1>2. v \in Int /\ 2 * v \in Nat /\ m \in Nat \ {0} /\ 2 * v < 2 * m
  BY <1>1
<1>3. CASE v < e
  <2>1. v \div e = 0 /\ (2 * v) % m = 2 * v
    <3>1. PICK d : d = 2 * v /\ d \in Nat /\ d < 2 * m /\ d < m
      BY <1>1, <1>2, <1>3
    <3>2. d % m = d
      BY <1>2, <3>1, ModHalf
    <3>3. v \in 0 .. e - 1
      BY <1>1, <1>2, <1>3
    <3> QED BY <1>1, <1>2, <3>1, <3>2, <3>3, DivMod
  <2>2. w = 2 * v
    BY <1>1, <1>2, <2>1
  <2>3. w \div 2 = v /\ w % 2 = 0
    BY <1>2, <2>2
  <2> QED BY <1>1, <1>2, <2>3
<1>4. CASE v >= e
  <2>1. v \div e = 1 /\ (2 * v) % m = 2 * v - m
    <3>1. PICK d : d = 2 * v /\ d \in Nat /\ d < 2 * m /\ d >= m
      BY <1>1, <1>2, <1>4
    <3>2. d % m = d - m
      BY <1>2, <3>1, ModHalf
    <3>3. v \in e .. (2 * e) - 1
      BY <1>1, <1>2, <1>4
    <3> QED BY <1>1, <1>2, <3>1, <3>2, <3>3, DivMod
  <2>2. w = 2 * (v - e) + 1
    BY <1>1, <1>2, <2>1
  <2>3. w \div 2 = v - e /\ w % 2 = 1
    BY <1>1, <1>2, <2>2
  <2> QED BY <1>1, <1>2, <2>3
<1> QED BY <1>1, <1>2, <1>3, <1>4

(* ROR undoes ROL, whose count is reduced. *)
LEMMA RorUndoesRol ==
  ASSUME NEW m \in Sizes, NEW v \in 0 .. m - 1, NEW n \in Nat
  PROVE  do_ror(m, do_rol(m, v, n).val, n).val = v
<1>0. PICK k, t : k = n % 32 /\ t = n \div 32
  OBVIOUS
<1>1. k \in Nat /\ t \in Nat /\ n = k + 32 * t /\ k <= n
  BY <1>0
<1>2. PICK g : /\ Runs(g, k, m, Start(v, FALSE)) /\ \A i \in 1 .. k : g[i] = RolStep(m, g[i - 1])
               /\ do_rol(m, v, n).val = g[k].v
  BY <1>0, RolLoop
<1>3. PICK w : w = g[k].v /\ w \in 0 .. m - 1
  BY <1>1, <1>2 DEF Runs, Pairs
<1>4. PICK h : /\ Runs(h, n, m, Start(w, FALSE)) /\ \A i \in 1 .. n : h[i] = RorStep(m, h[i - 1])
               /\ do_ror(m, w, n).val = h[n].v
  BY <1>3, RorLoop
<1>5. ASSUME NEW i \in 1 .. k
      PROVE  g[i].v = ((2 * g[i - 1].v) % m) + (g[i - 1].v \div (m \div 2))
  <2>1. g[i] = RolStep(m, g[i - 1])
    BY <1>2
  <2> QED BY <2>1 DEF RolStep
<1>6. Rotates(h, n, m)
  <2>1. ASSUME NEW i \in 1 .. n PROVE h[i].v = h[i - 1].v \div 2 + (h[i - 1].v % 2) * (m \div 2)
    <3>1. h[i] = RorStep(m, h[i - 1])
      BY <1>4
    <3> QED BY <3>1 DEF RorStep
  <2>2. \A i \in 0 .. n : h[i].v \in 0 .. m - 1
    BY <1>4 DEF Runs, Pairs
  <2> QED BY <2>1, <2>2 DEF Rotates
<1> DEFINE S == {i \in 0 .. k : h[i].v = g[k - i].v}
<1>7. 0 \in S
  BY <1>1, <1>3, <1>4 DEF Runs, Start
<1>8. ASSUME NEW i \in 1 .. k, i - 1 \in S PROVE i \in S
  <2>1. PICK u, z : u = g[k - i].v /\ z = h[i - 1].v
    OBVIOUS
  <2>2. k - (i - 1) \in 1 .. k /\ (k - (i - 1)) - 1 = k - i /\ k - i \in 0 .. k /\ i \in 1 .. n
    BY <1>1
  <2>3. u \in 0 .. m - 1
    BY <1>2, <2>1, <2>2 DEF Runs, Pairs
  <2>4. z = ((2 * u) % m) + (u \div (m \div 2))
    BY <1>5, <1>8, <2>1, <2>2
  <2>5. h[i].v = z \div 2 + (z % 2) * (m \div 2)
    BY <1>6, <2>1, <2>2 DEF Rotates
  <2>6. h[i].v = u
    BY <2>3, <2>4, <2>5, RolBack
  <2> QED BY <2>1, <2>6
<1>9. \A i \in 0 .. k : i \in S
  <2> HIDE DEF S
  <2> QED BY <1>1, <1>7, <1>8, UpTo
<1>10. h[k].v = v
  <2>1. h[k].v = g[0].v
    BY <1>1, <1>9
  <2> QED BY <1>2, <2>1 DEF Runs, Start
<1>11. h[n].v = h[k].v
  BY <1>1, <1>6, RorTurns
<1> QED BY <1>2, <1>3, <1>4, <1>10, <1>11

(* One bit to the left through the carry, and back. *)
LEMMA RclBack ==
  ASSUME NEW m \in Sizes, NEW p \in Pairs(m)
  PROVE  RcrStep(m, RclStep(m, p)) = p
<1>1. PICK v, c1, e : v = p.v /\ c1 = p.c /\ e = m \div 2
  OBVIOUS
<1>2. p = [v |-> v, c |-> c1] /\ v \in 0 .. m - 1 /\ c1 \in BOOLEAN
  BY <1>1 DEF Pairs
<1>3. e \in Nat \ {0} /\ m = 2 * e /\ m \in Nat \ {0}
  BY <1>1, BitFacts
<1>v. v \in Nat
  BY <1>2, <1>3
<1>4. PICK d : d = 2 * v /\ d \in Nat /\ d < 2 * m
  BY <1>2, <1>3
<1>5. PICK w : w = (d % m) + (IF c1 THEN 1 ELSE 0)
  OBVIOUS
<1>6. RclStep(m, p) = [v |-> w, c |-> v >= e]
  BY <1>1, <1>4, <1>5 DEF RclStep
<1>7. ASSUME NEW a \in Nat, w = 2 * a + (IF c1 THEN 1 ELSE 0)
      PROVE  w \div 2 = a /\ (w % 2 = 1) = c1
  <2>1. CASE c1
    <3>1. w % 2 = 1 /\ w \div 2 = a
      BY <1>7, <2>1
    <3> QED BY <1>2, <2>1, <3>1, Zenon
  <2>2. CASE ~c1
    <3>1. w % 2 # 1 /\ w \div 2 = a
      BY <1>7, <2>2
    <3> QED BY <1>2, <2>2, <3>1, Zenon
  <2> QED BY <2>1, <2>2
<1>8. ASSUME NEW o \in BOOLEAN
      PROVE  RcrStep(m, [v |-> w, c |-> o]) = [v |-> w \div 2 + (IF o THEN e ELSE 0), c |-> w % 2 = 1]
  BY <1>1, Zenon DEF RcrStep
<1>9. CASE v < e
  <2>1. d < m
    BY <1>v, <1>3, <1>4, <1>9
  <2>2. d % m = d
    BY <1>3, <1>4, <2>1, ModHalf
  <2>3. w \div 2 = v /\ (w % 2 = 1) = c1
    <3>1. w = 2 * v + (IF c1 THEN 1 ELSE 0) /\ v \in Nat
      BY <1>2, <1>4, <1>5, <2>2
    <3> QED BY <1>7, <3>1
  <2>4. RclStep(m, p) = [v |-> w, c |-> FALSE]
    <3>1. (v >= e) = FALSE
      BY <1>2, <1>3, <1>9
    <3> QED BY <1>6, <3>1, Zenon
  <2>5. v + 0 = v
    BY <1>2
  <2> QED BY <1>2, <1>8, <2>3, <2>4, <2>5, Zenon
<1>10. CASE v >= e
  <2>1. d >= m
    BY <1>v, <1>3, <1>4, <1>10
  <2>2. d % m = d - m
    BY <1>3, <1>4, <2>1, ModHalf
  <2>3. w \div 2 = v - e /\ (w % 2 = 1) = c1
    <3>1. w = 2 * (v - e) + (IF c1 THEN 1 ELSE 0) /\ v - e \in Nat
      <4>1. v - e \in Nat /\ d - m = 2 * (v - e)
        BY <1>v, <1>3, <1>4, <1>10
      <4> QED BY <1>5, <2>2, <4>1
    <3> QED BY <1>7, <3>1
  <2>4. RclStep(m, p) = [v |-> w, c |-> TRUE]
    <3>1. (v >= e) = TRUE
      BY <1>2, <1>3, <1>10
    <3> QED BY <1>6, <3>1, Zenon
  <2>5. (v - e) + e = v
    BY <1>2, <1>3
  <2> QED BY <1>2, <1>8, <2>3, <2>4, <2>5, Zenon
<1> QED BY <1>2, <1>3, <1>9, <1>10

(* RCR undoes RCL, the carry included. *)
RclUndone(m, v, n, cf) ==
  LET through == do_rcl(m, v, n, cf)
      back == do_rcr(m, through.val, n, "CF" \in through.fl)
  IN back.val = v /\ ("CF" \in back.fl <=> cf)
LEMMA RcrUndoesRcl ==
  ASSUME NEW m \in Sizes, NEW v \in 0 .. m - 1, NEW n \in Nat, NEW cf \in BOOLEAN
  PROVE  RclUndone(m, v, n, cf)
<1> DEFINE through == do_rcl(m, v, n, cf)
           back == do_rcr(m, through.val, n, "CF" \in through.fl)
<1>0. PICK k : k = n % 32 /\ k \in Nat
  BY SMT
<1>2. PICK g : /\ Runs(g, k, m, Start(v, cf)) /\ \A i \in 1 .. k : g[i] = RclStep(m, g[i - 1])
               /\ do_rcl(m, v, n, cf).val = g[k].v /\ ("CF" \in do_rcl(m, v, n, cf).fl <=> g[k].c)
  BY <1>0, RclLoop
<1>3. PICK w, o : w = g[k].v /\ o = g[k].c /\ w \in 0 .. m - 1 /\ o \in BOOLEAN
  BY <1>0, <1>2 DEF Runs, Pairs
<1>4. PICK h : /\ Runs(h, k, m, Start(w, o)) /\ \A i \in 1 .. k : h[i] = RcrStep(m, h[i - 1])
               /\ do_rcr(m, w, n, o).val = h[k].v /\ ("CF" \in do_rcr(m, w, n, o).fl <=> h[k].c)
  <2>1. w \in 0 .. m - 1 /\ o \in BOOLEAN /\ k = n % 32
    BY <1>0, <1>3
  <2> HIDE <1>0, <1>2, <1>3
  <2> QED BY <2>1, RcrLoop
<1> DEFINE S == {i \in 0 .. k : h[i] = g[k - i]}
<1>5. 0 \in S
  <2>1. h[0] = [v |-> w, c |-> o]
    BY <1>4 DEF Runs, Start
  <2>2. g[k] \in Pairs(m)
    BY <1>0, <1>2 DEF Runs
  <2>3. g[k] = [v |-> w, c |-> o]
    BY <1>3, <2>2 DEF Pairs
  <2> QED BY <1>0, <2>1, <2>3
<1>6. ASSUME NEW i \in 1 .. k, i - 1 \in S PROVE i \in S
  <2>1. k - (i - 1) \in 1 .. k /\ (k - (i - 1)) - 1 = k - i /\ k - i \in 0 .. k
    BY <1>0
  <2>2. g[k - i] \in Pairs(m)
    BY <1>2, <2>1 DEF Runs
  <2>3. h[i - 1] = RclStep(m, g[k - i])
    BY <1>2, <1>6, <2>1
  <2>4. h[i] = RcrStep(m, h[i - 1])
    BY <1>4
  <2> QED BY <2>2, <2>3, <2>4, RclBack
<1>7. \A i \in 0 .. k : i \in S
  <2> HIDE DEF S
  <2> QED BY <1>0, <1>5, <1>6, UpTo
<1>8. h[k] = [v |-> v, c |-> cf]
  <2>1. h[k] = g[0]
    BY <1>0, <1>7
  <2> QED BY <1>2, <2>1 DEF Runs, Start
<1>9. ("CF" \in through.fl) = o /\ through.val = w
  <2>1. ("CF" \in through.fl) \in BOOLEAN
    OBVIOUS
  <2> QED BY <1>2, <1>3, <2>1
<1>10. back = do_rcr(m, w, n, o)
  BY <1>9
<1> QED BY <1>4, <1>8, <1>10 DEF RclUndone

(* The law, for an operand and a count. *)
ShiftLaws(m, v, n, cf) ==
  LET b == BitsOf(m)
      s == sign_extend(m, v)
      left == do_shl(m, v, n)
      right == do_shr(m, v, n)
      arith == do_sar(m, v, n)
  IN /\ left.val = IF n >= b THEN 0 ELSE (v % (m \div 2^n)) * 2^n
     /\ right.val = IF n >= b THEN 0 ELSE v \div 2^n
     /\ sign_extend(m, arith.val) = IF n >= b THEN s \div m ELSE s \div 2^n
     /\ "CF" \in left.fl <=> n <= b /\ BitSet(v, 2^(b - n))
     /\ "CF" \in right.fl <=> n <= b /\ BitSet(v, 2^(n - 1))
     /\ "CF" \in arith.fl <=> IF n <= b THEN BitSet(v, 2^(n - 1)) ELSE v >= m \div 2
     /\ do_ror(m, do_rol(m, v, n).val, n).val = v
     /\ RclUndone(m, v, n, cf)

(* SHL multiplies, SHR and SAR divide rounding down, CF is the last bit    *)
(* out, and ROR and RCR undo ROL and RCL, for all bytes and words and for  *)
(* all counts (shl.cpp to rcr.cpp).                                        *)
THEOREM ShiftsByEveryCount ==
  ASSUME NEW m \in Sizes, NEW v \in 0 .. m - 1, NEW n \in Nat \ {0}, NEW cf \in BOOLEAN
  PROVE  ShiftLaws(m, v, n, cf)
<1>0. PICK b, s : b = BitsOf(m) /\ s = sign_extend(m, v)
  OBVIOUS
<1>b. b \in {8, 16} /\ m \in Nat /\ m > 1 /\ Two(b) = m /\ Two(0) = 1
  BY <1>0, BitFacts
<1>1. do_shl(m, v, n).val = IF n >= b THEN 0 ELSE (v % (m \div Two(n))) * Two(n)
  <2>1. do_shl(m, v, n).val = ShlVal(m, v, n)
    BY ShlClosed
  <2>2. CASE n > b
    BY <1>0, <1>b, <2>1, <2>2 DEF ShlVal
  <2>3. CASE n = b
    <3>1. v % 1 = 0 /\ 0 * m = 0
      BY <1>b
    <3> QED BY <1>0, <1>b, <2>1, <2>3, <3>1 DEF ShlVal
  <2>4. CASE n < b
    <3>1. n \in 1 .. b /\ b - n \in 0 .. b
      BY <1>b, <2>4
    <3>2. PICK p, q : p = Two(n) /\ q = Two(b - n)
      OBVIOUS
    <3>3. m = p * q /\ p \in Nat \ {0} /\ q \in Nat \ {0}
      BY <1>0, <3>1, <3>2, BitFacts
    <3>4. m \div p = q
      <4>1. m = p * q + 0 /\ 0 \in 0 .. p - 1 /\ m \in Int /\ q \in Int
        BY <3>3, <1>b
      <4> QED BY <3>3, <4>1, Quotients
    <3> QED BY <1>0, <1>b, <2>1, <2>4, <3>2, <3>4 DEF ShlVal
  <2> QED BY <1>b, <2>2, <2>3, <2>4
<1>2. do_shr(m, v, n).val = IF n >= b THEN 0 ELSE v \div Two(n)
  <2>1. do_shr(m, v, n).val = ShrVal(m, v, n)
    BY ShrClosed
  <2>2. v \div m = 0
    BY DEF Sizes
  <2> QED BY <1>0, <1>b, <2>1, <2>2 DEF ShrVal
<1>3. sign_extend(m, do_sar(m, v, n).val) = IF n >= b THEN s \div m ELSE s \div Two(n)
  <2>1. sign_extend(m, do_sar(m, v, n).val) = SarVal(m, s, n)
    BY <1>0, SarClosed
  <2> QED BY <1>0, <1>b, <2>1 DEF SarVal
<1>4. /\ "CF" \in do_shl(m, v, n).fl <=> n <= b /\ BitSet(v, Two(b - n))
      /\ "CF" \in do_shr(m, v, n).fl <=> n <= b /\ BitSet(v, Two(n - 1))
      /\ "CF" \in do_sar(m, v, n).fl <=> IF n <= b THEN BitSet(v, Two(n - 1)) ELSE v >= m \div 2
  BY <1>0, ShlClosed, ShrClosed, SarClosed
<1>5. do_ror(m, do_rol(m, v, n).val, n).val = v
  BY RorUndoesRol
<1>6. RclUndone(m, v, n, cf)
  BY RcrUndoesRcl
<1>7. Two(n) = 2^n /\ Two(b - n) = 2^(b - n) /\ Two(n - 1) = 2^(n - 1)
  BY Zenon DEF Two
<1>8. do_shl(m, v, n).val = IF n >= b THEN 0 ELSE (v % (m \div 2^n)) * 2^n
  BY <1>1, <1>7, Zenon
<1>9. do_shr(m, v, n).val = IF n >= b THEN 0 ELSE v \div 2^n
  BY <1>2, <1>7, Zenon
<1>10. sign_extend(m, do_sar(m, v, n).val) = IF n >= b THEN s \div m ELSE s \div 2^n
  BY <1>3, <1>7, Zenon
<1>11. "CF" \in do_shl(m, v, n).fl <=> n <= b /\ BitSet(v, 2^(b - n))
  BY <1>4, <1>7, Zenon
<1>12. "CF" \in do_shr(m, v, n).fl <=> n <= b /\ BitSet(v, 2^(n - 1))
  BY <1>4, <1>7, Zenon
<1>13. "CF" \in do_sar(m, v, n).fl <=> IF n <= b THEN BitSet(v, 2^(n - 1)) ELSE v >= m \div 2
  BY <1>4, <1>7, Zenon
<1> QED BY <1>0, <1>5, <1>6, <1>8, <1>9, <1>10, <1>11, <1>12, <1>13, Zenon DEF ShiftLaws

(* The walk through the operands. *)
LEMMA ShiftsInRange ==
  ASSUME InRange, c \in {0, 1}
  PROVE  ShiftsAreArithmetic
<1>1. CASE y \in Counts
  <2>1. M \in Sizes /\ x \in 0 .. M - 1
    BY DEF InRange, Sizes
  <2>2. y \in Nat \ {0}
    BY <1>1 DEF Counts
  <2>3. ShiftLaws(M, x, y, c = 1)
    BY <2>1, <2>2, ShiftsByEveryCount
  <2>4. BitsOf(M) = Bits
    BY DEF BitsOf, Bits
  <2> QED BY <2>3, <2>4, Zenon DEF ShiftLaws, RclUndone, ShiftsAreArithmetic, Signed, Half
<1>2. CASE y \notin Counts
  BY <1>2 DEF ShiftsAreArithmetic
<1> QED BY <1>1, <1>2

-----------------------------------------------------------------------------
(* ADC and SBB done a byte at a time give the word operation's result and  *)
(* its CF, SF and OF (adc.cpp, sbb.cpp): the carry between the two bytes   *)
(* is neither lost nor counted twice.                                      *)
THEOREM MultiPrecisionHolds == OperandsSpec => []MultiPrecision
  BY InRangeInvariant, MultiPrecisionInRange, PTL

(* ADC; DAA and SBB; DAS are decimal arithmetic on packed bytes, AAA and   *)
(* AAS carry into AH, and AAD undoes AAM (daa.cpp to aad.cpp).             *)
THEOREM DecimalAdjustHolds == OperandsSpec => []DecimalAdjust
  BY InRangeInvariant, DecimalAdjustInRange, PTL

(* Division gives back the factor of a product, is exact and is refused    *)
(* exactly when the quotient does not fit (mul.cpp, imul.cpp, div.cpp).    *)
THEOREM DivisionHolds == OperandsSpec => []DivisionUndoesMultiplication
  BY InRangeInvariant, DivisionInRange, PTL

(* The single-bit loops shift and rotate by the count, for every count,    *)
(* also beyond the width and where only one of two loops that undo each    *)
(* other reduces it modulo 32 (shl.cpp to rcr.cpp).                        *)
THEOREM ShiftsHold == OperandsSpec => []ShiftsAreArithmetic
  BY InRangeInvariant, ShiftsInRange, PTL

=============================================================================
