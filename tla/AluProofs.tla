------------------------------ MODULE AluProofs ------------------------------
(***************************************************************************)
(* The properties of AluSweep, proved for all bytes: they do not rest on   *)
(* the enumeration, only on the operands being bytes.                      *)
(***************************************************************************)
EXTENDS AluSweep, TLAPS

\* The operands stay bytes.
Operands == a \in Byte /\ value \in Byte /\ carryIn \in BOOLEAN

LEMMA SweepOperands == Spec => []Operands
<1>1. Init => Operands
  <2>1. 0 \in Byte
    BY DEF Byte
  <2> QED
    BY <2>1 DEF Init, Operands
<1>2. Operands /\ [Next]_sweepVars => Operands'
  <2> SUFFICES ASSUME Operands, [Next]_sweepVars PROVE Operands'
    OBVIOUS
  <2>1. CASE NextCarry
    BY <2>1 DEF NextCarry, Operands
  <2>2. CASE NextValue
    <3>1. value' \in Byte
      BY <2>2 DEF NextValue, Operands, Byte
    <3>2. a' \in Byte /\ carryIn' \in BOOLEAN
      BY <2>2 DEF NextValue, Operands
    <3> QED
      BY <3>1, <3>2 DEF Operands
  <2>3. CASE UNCHANGED sweepVars
    BY <2>3 DEF sweepVars, Operands
  <2> QED
    BY <2>1, <2>2, <2>3 DEF Next
<1> QED
  BY <1>1, <1>2, PTL DEF Spec

---------------------------------------------------------------------------
(* What the exclusive or of carryInto computes.                            *)

\* A difference of bytes is zero modulo 256 only when the bytes are equal.
LEMMA WrapsToZero ==
  ASSUME NEW x \in Byte, NEW y \in Byte
  PROVE  (x - y + 256) % 256 = 0 <=> x = y
<1>1. x \in 0 .. 255 /\ y \in 0 .. 255
  BY DEF Byte
<1>2. CASE x = y
  <2>1. x - y + 256 = 256
    BY <1>1, <1>2
  <2>2. 256 % 256 = 0
    OBVIOUS
  <2> QED
    BY <1>2, <2>1, <2>2
<1>3. CASE x < y
  <2>1. x - y + 256 \in 1 .. 255 /\ x # y
    BY <1>1, <1>3
  <2>2. \A n \in 1 .. 255 : n % 256 = n
    OBVIOUS
  <2> QED
    BY <2>1, <2>2
<1>4. CASE x > y
  <2>1. x - y \in 1 .. 255 /\ x # y
    BY <1>1, <1>4
  <2>2. \A n \in 1 .. 255 : (n + 256) % 256 = n
    OBVIOUS
  <2> QED
    BY <2>1, <2>2
<1> QED
  BY <1>1, <1>2, <1>3, <1>4

\* The bit of weight 256 of a sum of two bytes is the carry out of it.
LEMMA CarryOutOfByte ==
  ASSUME NEW x \in Byte, NEW y \in Byte, NEW c \in {0, 1}
  PROVE  CarryInto(256, x, y, c) <=> x + y + c >= 256
<1>1. ~HasBit(x, 256) /\ ~HasBit(y, 256)
  BY DEF Byte, HasBit
<1>2. HasBit(x + y + c, 256) <=> x + y + c >= 256
  BY DEF Byte, HasBit
<1> QED
  BY <1>1, <1>2 DEF CarryInto, Differ

\* A byte is two digits.
LEMMA Digits ==
  ASSUME NEW x \in Byte
  PROVE  \E h, l \in 0 .. 15 : x = 16 * h + l /\ x \div 16 = h /\ x % 16 = l
<1>1. x \div 16 \in 0 .. 15 /\ x % 16 \in 0 .. 15 /\ x = 16 * (x \div 16) + (x % 16)
  BY DEF Byte
<1> QED
  BY <1>1

\* Dividing by the radix the two ways it is needed here.
LEMMA Quotient ==
  ASSUME NEW q \in Int, NEW l \in 0 .. 15
  PROVE  (16 * q + l) \div 16 = q
OBVIOUS

LEMMA Parity ==
  ASSUME NEW p \in Int, NEW q \in Int
  PROVE  /\ (p + q) % 2 = 1 <=> ~(p % 2 = 1 <=> q % 2 = 1)
         /\ (p + q + 1) % 2 = 1 <=> (p % 2 = 1 <=> q % 2 = 1)
OBVIOUS

\* The bit of weight 16 differs from the exclusive or of the operands' bits exactly
\* when the low digits carry.
LEMMA CarryOutOfDigit ==
  ASSUME NEW x \in Byte, NEW y \in Byte, NEW c \in {0, 1}
  PROVE  CarryInto(16, x, y, c) <=> (x % 16) + (y % 16) + c >= 16
<1>1. PICK xh \in 0 .. 15, xl \in 0 .. 15 :
        x = 16 * xh + xl /\ x \div 16 = xh /\ x % 16 = xl
  BY Digits
<1>2. PICK yh \in 0 .. 15, yl \in 0 .. 15 :
        y = 16 * yh + yl /\ y \div 16 = yh /\ y % 16 = yl
  BY Digits
<1>3. CarryInto(16, x, y, c)
        <=> ~((x + y + c) \div 16 % 2 = 1 <=> ~(xh % 2 = 1 <=> yh % 2 = 1))
  BY <1>1, <1>2 DEF CarryInto, Differ, HasBit
<1>4. CASE xl + yl + c >= 16
  <2>1. x + y + c = 16 * (xh + yh + 1) + (xl + yl + c - 16)
    BY <1>1, <1>2
  <2>2. xl + yl + c - 16 \in 0 .. 15 /\ xh + yh + 1 \in Int
    BY <1>4
  <2>3. (x + y + c) \div 16 = xh + yh + 1
    BY <2>1, <2>2, Quotient
  <2>4. (xh + yh + 1) % 2 = 1 <=> (xh % 2 = 1 <=> yh % 2 = 1)
    BY Parity
  <2> QED
    BY <1>1, <1>2, <1>3, <1>4, <2>3, <2>4
<1>5. CASE xl + yl + c < 16
  <2>1. x + y + c = 16 * (xh + yh) + (xl + yl + c)
    BY <1>1, <1>2
  <2>2. xl + yl + c \in 0 .. 15 /\ xh + yh \in Int
    BY <1>5
  <2>3. (x + y + c) \div 16 = xh + yh
    BY <2>1, <2>2, Quotient
  <2>4. (xh + yh) % 2 = 1 <=> ~(xh % 2 = 1 <=> yh % 2 = 1)
    BY Parity
  <2> QED
    BY <1>1, <1>2, <1>3, <1>5, <2>3, <2>4
<1> QED
  BY <1>4, <1>5

\* The adder returns the sum.
LEMMA AddResult ==
  ASSUME NEW x \in Byte, NEW y \in Byte, NEW c \in {0, 1}
  PROVE  /\ NativeAdd(x, y, c).out = (x + y + c) % 256
         /\ NativeAdd(x, y, c).flags.carry = CarryInto(256, x, y, c)
         /\ NativeAdd(x, y, c).flags.aux = CarryInto(16, x, y, c)
         /\ NativeAdd(x, y, c).flags.zero = ((x + y + c) % 256 = 0)
BY DEF NativeAdd, ResultFlags

\* The sum is split exactly into the result and the carry.
LEMMA AddExact ==
  ASSUME NEW x \in Byte, NEW y \in Byte, NEW c \in {0, 1}
  PROVE  /\ NativeAdd(x, y, c).out \in Byte
         /\ NativeAdd(x, y, c).out + 256 * AsBit(NativeAdd(x, y, c).flags.carry) = x + y + c
<1>1. (x + y + c) % 256 \in Byte
  BY DEF Byte
<1>2. CASE x + y + c >= 256
  <2>1. ((x + y + c) % 256) + 256 = x + y + c
    BY <1>2 DEF Byte
  <2>2. AsBit(NativeAdd(x, y, c).flags.carry) = 1
    BY <1>2, AddResult, CarryOutOfByte DEF AsBit
  <2> QED
    BY <1>1, <2>1, <2>2, AddResult
<1>3. CASE x + y + c < 256
  <2>1. (x + y + c) % 256 = x + y + c
    BY <1>3 DEF Byte
  <2>2. AsBit(NativeAdd(x, y, c).flags.carry) = 0
    <3>1. ~(x + y + c >= 256)
      BY <1>3 DEF Byte
    <3> QED
      BY <3>1, AddResult, CarryOutOfByte DEF AsBit
  <2>3. NativeAdd(x, y, c).out = x + y + c
    BY <2>1, AddResult
  <2> QED
    BY <1>1, <2>1, <2>2, <2>3 DEF Byte
<1>4. x + y + c >= 256 \/ x + y + c < 256
  BY DEF Byte
<1> QED
  BY <1>2, <1>3, <1>4

\* ADC returns the whole sum of its operands, whatever they are
\* (alu_native.go:18-36).
THEOREM AdditionIsExact == Spec => []AdditionExact
<1>1. Operands => AdditionExact
  <2> SUFFICES ASSUME Operands PROVE AdditionExact
    OBVIOUS
  <2> DEFINE c == AsBit(carryIn)  r == NativeAdd(a, value, c)
  <2>1. c \in {0, 1}
    BY DEF AsBit
  <2>2. ALU("ADC", a, value, carryIn) = r
    BY DEF ALU
  <2>3. r.out + 256 * AsBit(r.flags.carry) = Sum
    BY <2>1, AddExact DEF Operands, Sum
  <2>4. r.flags.aux <=> Nibbles >= 16
    BY <2>1, AddResult, CarryOutOfDigit DEF Operands, Nibbles
  <2> QED
    BY <2>2, <2>3, <2>4 DEF AdditionExact
<1> QED
  BY <1>1, SweepOperands, PTL

---------------------------------------------------------------------------

\* What the complement does to a digit.
LEMMA ComplementDigit ==
  ASSUME NEW x \in Byte
  PROVE  Complement(x) \in Byte /\ Complement(x) % 16 = 15 - (x % 16)
<1>1. PICK h \in 0 .. 15, l \in 0 .. 15 : x = 16 * h + l /\ x % 16 = l
  BY Digits
<1>2. Complement(x) = 16 * (15 - h) + (15 - l)
  BY <1>1 DEF Complement
<1>3. (16 * (15 - h) + (15 - l)) % 16 = 15 - l
  OBVIOUS
<1> QED
  BY <1>1, <1>2, <1>3 DEF Byte, Complement

\* The subtracter's result, and the two carries of the addition behind it.
LEMMA SubResult ==
  ASSUME NEW x \in Byte, NEW y \in Byte, NEW b \in {0, 1}
  PROVE  LET s == NativeAdd(x, Complement(y), 1 - b)
         IN  /\ NativeSub(x, y, b).out = s.out
             /\ NativeSub(x, y, b).flags.carry = ~s.flags.carry
             /\ NativeSub(x, y, b).flags.aux = s.flags.aux
             /\ NativeSub(x, y, b).flags.zero = s.flags.zero
BY DEF NativeSub, NativeAdd, ResultFlags

\* The difference modulo 256, with the borrow; its auxiliary carry.
LEMMA SubExact ==
  ASSUME NEW x \in Byte, NEW y \in Byte, NEW b \in {0, 1}
  PROVE  /\ NativeSub(x, y, b).out \in Byte
         /\ NativeSub(x, y, b).out - 256 * AsBit(NativeSub(x, y, b).flags.carry) = x - y - b
         /\ NativeSub(x, y, b).flags.aux <=> (x % 16) - (y % 16) - b >= 0
<1> DEFINE s == NativeAdd(x, Complement(y), 1 - b)
<1>1. 1 - b \in {0, 1} /\ Complement(y) \in Byte /\ Complement(y) % 16 = 15 - (y % 16)
  BY ComplementDigit
<1>2. s.out \in Byte /\ s.out + 256 * AsBit(s.flags.carry) = x + Complement(y) + (1 - b)
  BY <1>1, AddExact
<1>3. s.flags.aux <=> (x % 16) + (15 - (y % 16)) + (1 - b) >= 16
  BY <1>1, AddResult, CarryOutOfDigit
<1>4. s.flags.aux <=> (x % 16) - (y % 16) - b >= 0
  <2>1. x % 16 \in Int /\ y % 16 \in Int
    BY DEF Byte
  <2> QED
    BY <1>3, <2>1
<1>5. AsBit(s.flags.carry) = 1 - AsBit(~s.flags.carry) /\ AsBit(~s.flags.carry) \in {0, 1}
  BY DEF AsBit
<1> HIDE DEF s
<1>6. s.out - 256 * AsBit(~s.flags.carry) = x - y - b
  BY <1>2, <1>5 DEF Byte, Complement
<1> QED
  BY <1>2, <1>4, <1>6, SubResult DEF s

\* SBB subtracts exactly and CMP orders its operands (alu_native.go:38-55, 88-91).
THEOREM SubtractionIsExact == Spec => []SubtractionExact
<1>1. Operands => SubtractionExact
  <2> SUFFICES ASSUME Operands PROVE SubtractionExact
    OBVIOUS
  <2> DEFINE b == AsBit(carryIn)  r == NativeSub(a, value, b)  f == NativeSub(a, value, 0).flags
  <2>1. b \in {0, 1} /\ a \in Byte /\ value \in Byte
    BY DEF AsBit, Operands
  <2>2. ALU("SBB", a, value, carryIn) = r /\ ALU("CMP", a, value, carryIn).flags = f
    BY DEF ALU
  <2>3. r.out - 256 * AsBit(r.flags.carry) = Difference
    BY <2>1, SubExact DEF Difference
  <2>4. r.flags.aux <=> (a % 16) - (value % 16) - b >= 0
    BY <2>1, SubExact
  <2>5. /\ NativeSub(a, value, 0).out \in Byte
        /\ NativeSub(a, value, 0).out - 256 * AsBit(f.carry) = a - value
    <3>1. 0 \in {0, 1} /\ a - value - 0 = a - value
      BY <2>1 DEF Byte
    <3> QED
      BY <2>1, <3>1, SubExact
  <2>6. f.carry <=> a < value
    <3> DEFINE out == NativeSub(a, value, 0).out
    <3>1. CASE f.carry
      <4>1. AsBit(f.carry) = 1
        BY <3>1 DEF AsBit
      <4>2. out \in Byte /\ out - 256 = a - value
        BY <2>5, <4>1
      <4> HIDE DEF out
      <4> QED
        BY <2>1, <3>1, <4>2 DEF Byte
    <3>2. CASE ~f.carry
      <4>1. AsBit(f.carry) = 0
        BY <3>2 DEF AsBit
      <4>2. out \in Byte /\ out = a - value
        <5>1. out \in Byte /\ out - 256 * 0 = a - value
          BY <2>5, <4>1
        <5> HIDE DEF out
        <5> QED
          BY <5>1 DEF Byte
      <4> HIDE DEF out
      <4> QED
        BY <2>1, <3>2, <4>2 DEF Byte
    <3> QED
      BY <3>1, <3>2
  <2>7. f.zero <=> a = value
    <3>1. f.zero = ((a + Complement(value) + 1) % 256 = 0)
      BY <2>1, SubResult, AddResult, ComplementDigit
    <3>2. a + Complement(value) + 1 = a - value + 256
      BY <2>1 DEF Complement, Byte
    <3>3. (a - value + 256) % 256 = 0 <=> a = value
      BY <2>1, WrapsToZero
    <3> QED
      BY <3>1, <3>2, <3>3
  <2> QED
    BY <2>2, <2>3, <2>4, <2>6, <2>7 DEF SubtractionExact
<1> QED
  BY <1>1, SweepOperands, PTL

---------------------------------------------------------------------------

\* A byte is the sum of the weights of its bits.
LEMMA BitSum == ASSUME NEW v \in Byte PROVE v = FromBits(Bits(v))
BY DEF Byte, FromBits, Part, Bits, Weight, HasBit

\* Bit by bit, what two sets of weights have in common and together.
LEMMA PartSum ==
  ASSUME NEW S, NEW T, NEW w \in Weight
  PROVE  /\ Part(S, w) + Part(T, w) = Part(S \cup T, w) + Part(S \cap T, w)
         /\ Part(S \cup T, w) = Part((S \cup T) \ (S \cap T), w) + Part(S \cap T, w)
         /\ Part(S, w) \in Int /\ Part(T, w) \in Int
         /\ Part(S \cup T, w) \in Int /\ Part(S \cap T, w) \in Int
         /\ Part((S \cup T) \ (S \cap T), w) \in Int
BY DEF Part, Weight

LEMMA FromBitsSum ==
  ASSUME NEW S, NEW T
  PROVE  /\ FromBits(S) + FromBits(T) = FromBits(S \cup T) + FromBits(S \cap T)
         /\ FromBits(S \cup T) = FromBits((S \cup T) \ (S \cap T)) + FromBits(S \cap T)
         /\ FromBits(S \cup T) \in Int /\ FromBits(S \cap T) \in Int
         /\ FromBits((S \cup T) \ (S \cap T)) \in Int
<1>1. \A w \in {1, 2, 4, 8, 16, 32, 64, 128} :
         /\ Part(S, w) + Part(T, w) = Part(S \cup T, w) + Part(S \cap T, w)
         /\ Part(S \cup T, w) = Part((S \cup T) \ (S \cap T), w) + Part(S \cap T, w)
         /\ Part(S, w) \in Int /\ Part(T, w) \in Int
         /\ Part(S \cup T, w) \in Int /\ Part(S \cap T, w) \in Int
         /\ Part((S \cup T) \ (S \cap T), w) \in Int
  BY PartSum DEF Weight
<1> QED
  BY <1>1 DEF FromBits

\* The bit of weight 8 decides whether a digit is at least 8.
LEMMA UpperHalf ==
  ASSUME NEW S \in SUBSET Weight
  PROVE  8 \in S <=> FromBits(S) % 16 >= 8
<1> DEFINE low == Part(S, 1) + Part(S, 2) + Part(S, 4)
           high == Part(S, 16) + Part(S, 32) + Part(S, 64) + Part(S, 128)
<1>1. low \in 0 .. 7 /\ Part(S, 8) \in {0, 8} /\ (8 \in S <=> Part(S, 8) = 8)
  BY DEF Part
<1>2. PICK q \in Int : high = 16 * q
  <2>1. /\ Part(S, 16) = 16 * (IF 16 \in S THEN 1 ELSE 0)
        /\ Part(S, 32) = 16 * (IF 32 \in S THEN 2 ELSE 0)
        /\ Part(S, 64) = 16 * (IF 64 \in S THEN 4 ELSE 0)
        /\ Part(S, 128) = 16 * (IF 128 \in S THEN 8 ELSE 0)
    BY DEF Part
  <2> DEFINE k == (IF 16 \in S THEN 1 ELSE 0) + (IF 32 \in S THEN 2 ELSE 0)
                  + (IF 64 \in S THEN 4 ELSE 0) + (IF 128 \in S THEN 8 ELSE 0)
  <2>2. k \in Int /\ high = 16 * k
    BY <2>1
  <2> HIDE DEF k, high
  <2> QED
    BY <2>2
<1>3. FromBits(S) = 16 * q + (Part(S, 8) + low)
  BY <1>1, <1>2 DEF FromBits, Part
<1> HIDE DEF low, high
<1>4. (16 * q + (Part(S, 8) + low)) % 16 = Part(S, 8) + low
  BY <1>1
<1> QED
  BY <1>1, <1>3, <1>4

\* The logical operations satisfy the identities of binary addition
\* (alu_native.go:57-75).
THEOREM LogicIsConsistent == Spec => []LogicConsistent
<1>1. Operands => LogicConsistent
  <2> SUFFICES ASSUME Operands PROVE LogicConsistent
    OBVIOUS
  <2> DEFINE S == Bits(a)  T == Bits(value)
             and == ALU("ANA", a, value, carryIn)
             xor == ALU("XRA", a, value, carryIn)
             or == ALU("ORA", a, value, carryIn)
  <2>1. and.out = FromBits(S \cap T) /\ and.flags.carry = FALSE /\ and.flags.aux = (8 \in S \cup T)
    BY DEF ALU, NativeLogic, ResultFlags, AndAux
  <2>2. /\ xor.out = FromBits((S \cup T) \ (S \cap T))
        /\ xor.flags.carry = FALSE /\ xor.flags.aux = FALSE
    BY DEF ALU, NativeLogic, ResultFlags
  <2>3. or.out = FromBits(S \cup T) /\ or.flags.carry = FALSE /\ or.flags.aux = FALSE
    BY DEF ALU, NativeLogic, ResultFlags
  <2>4. a = FromBits(S) /\ value = FromBits(T)
    BY BitSum DEF Operands
  <2>5. 8 \in S \cup T <=> FromBits(S \cup T) % 16 >= 8
    <3>1. S \cup T \in SUBSET Weight
      BY DEF Bits
    <3> QED
      BY <3>1, UpperHalf
  <2>6. a + value = or.out + and.out /\ a + value = xor.out + 2 * and.out
    <3> DEFINE i == FromBits(S \cap T)  u == FromBits(S \cup T)
               d == FromBits((S \cup T) \ (S \cap T))
    <3> HIDE DEF S, T
    <3>1. a + value = u + i /\ u = d + i /\ u \in Int /\ i \in Int /\ d \in Int
      BY <2>4, FromBitsSum
    <3>2. and.out = i /\ xor.out = d /\ or.out = u
      BY <2>1, <2>2, <2>3
    <3> HIDE DEF i, u, d, and, xor, or
    <3> QED
      BY <3>1, <3>2
  <2> QED
    BY <2>1, <2>2, <2>3, <2>5, <2>6 DEF LogicConsistent
<1> QED
  BY <1>1, SweepOperands, PTL

---------------------------------------------------------------------------
(* Decimals: t and s are the sums of the upper and the lower digits.       *)

\* Reading the digits of 16 * t + s, whose lower digit may have overflowed.
LEMMA LowDigit ==
  ASSUME NEW t \in 0 .. 18, NEW s \in 0 .. 19
  PROVE  LET out == (16 * t + s) % 256
         IN /\ out \in Byte
            /\ out % 16 > 9 \/ s >= 16 <=> s >= 10
            /\ out > 153 \/ 16 * t + s >= 256 <=> 16 * t + s > 153
BY DEF Byte

\* The digits after the adjustment: e is the carry out of the lower one, h out of the
\* upper one.
LEMMA Adjusted ==
  ASSUME NEW t \in 0 .. 18, NEW s \in 0 .. 19,
         NEW e \in {0, 1}, e = 1 <=> s >= 10,
         NEW h \in {0, 1}, h = 1 <=> 16 * t + s > 153
  PROVE  LET out == (16 * t + s) % 256
             sum == out + 6 * e + 96 * h
             up == t + e - 10 * h
             low == s - 10 * e
         IN /\ up \in 0 .. 9 /\ low \in 0 .. 9
            /\ sum % 256 = 16 * up + low
            /\ h = 1 \/ sum >= 256 <=> h = 1
<1> DEFINE out == (16 * t + s) % 256
           sum == out + 6 * e + 96 * h
           up == t + e - 10 * h
           low == s - 10 * e
<1>1. low \in 0 .. 9 /\ up \in 0 .. 9
  OBVIOUS
<1>2. 16 * t + s = out \/ 16 * t + s = out + 256
  OBVIOUS
<1>3. 16 * up + low \in 0 .. 255
  BY <1>1
<1>4. sum = 16 * up + low \/ sum = 16 * up + low + 256
  BY <1>2
<1>5. sum % 256 = 16 * up + low
  BY <1>3, <1>4
<1>6. h = 0 => sum < 256
  BY <1>2
<1> QED
  BY <1>1, <1>5, <1>6

LEMMA PackedValue ==
  ASSUME NEW up \in 0 .. 9, NEW low \in 0 .. 9
  PROVE  Packed(16 * up + low) /\ Decimal(16 * up + low) = 10 * up + low
BY DEF Packed, Decimal

\* The adjustment adds six to a digit that left its range, and its carry is that of
\* the upper one.
LEMMA AdjustResult ==
  ASSUME NEW x \in Byte, NEW f, f.carry \in BOOLEAN, f.aux \in BOOLEAN
  PROVE  LET e == AsBit(x % 16 > 9 \/ f.aux)
             h == AsBit(x > 153 \/ f.carry)
         IN /\ DecimalAdjust(x, f).out = (x + 6 * e + 96 * h) % 256
            /\ DecimalAdjust(x, f).flags.carry <=> h = 1 \/ x + 6 * e + 96 * h >= 256
<1> DEFINE e == AsBit(x % 16 > 9 \/ f.aux)
           h == AsBit(x > 153 \/ f.carry)
           y == (IF x % 16 > 9 \/ f.aux THEN 6 ELSE 0) + (IF x > 153 \/ f.carry THEN 96 ELSE 0)
           sum == NativeAdd(x, y, 0)
<1>1. y \in Byte /\ y = 6 * e + 96 * h
  BY DEF AsBit, Byte
<1>2. DecimalAdjust(x, f) = [sum EXCEPT !.flags.carry = (x > 153 \/ f.carry) \/ @]
  BY DEF DecimalAdjust, ALU
<1>3. /\ DecimalAdjust(x, f).out = sum.out
      /\ DecimalAdjust(x, f).flags.carry = (x > 153 \/ f.carry \/ sum.flags.carry)
  BY <1>2 DEF NativeAdd, ResultFlags
<1>4. /\ sum.out = (x + y + 0) % 256
      /\ sum.flags.carry <=> x + y + 0 >= 256
  BY <1>1, AddResult, CarryOutOfByte
<1>5. x + y + 0 = x + 6 * e + 96 * h
  BY <1>1 DEF Byte, AsBit
<1>6. h = 1 <=> x > 153 \/ f.carry
  BY DEF AsBit
<1> HIDE DEF e, h, y, sum
<1> QED
  BY <1>3, <1>4, <1>5, <1>6 DEF e, h

\* Adding two packed pairs of decimal digits and adjusting gives the packed decimal sum
\* and its carry, for every pair (alu.go:46-64).
THEOREM DecimalSumIsExact == Spec => []DecimalSum
<1>1. Operands => DecimalSum
  <2> SUFFICES ASSUME Operands, Packed(a), Packed(value)
               PROVE  LET r == ALU("ADC", a, value, carryIn)
                          d == DecimalAdjust(r.out, r.flags)
                      IN /\ Packed(d.out)
                         /\ Decimal(d.out) + 100 * AsBit(d.flags.carry)
                              = Decimal(a) + Decimal(value) + AsBit(carryIn)
    BY DEF DecimalSum
  <2> DEFINE c == AsBit(carryIn)
             r == NativeAdd(a, value, c)
             d == DecimalAdjust(r.out, r.flags)
             t == (a \div 16) + (value \div 16)
             s == (a % 16) + (value % 16) + c
             e == AsBit(s >= 10)
             h == AsBit(16 * t + s > 153)
             out == (16 * t + s) % 256
  <2>1. c \in {0, 1} /\ a \in Byte /\ value \in Byte
    BY DEF AsBit, Operands
  <2>2. ALU("ADC", a, value, carryIn) = r
    BY DEF ALU
  <2>3. /\ t \in 0 .. 18 /\ s \in 0 .. 19
        /\ a + value + c = 16 * t + s
        /\ Decimal(a) + Decimal(value) + c = 10 * t + s
    BY <2>1 DEF Packed, Decimal, Byte
  <2>4. /\ r.out = out
        /\ r.flags.carry = CarryInto(256, a, value, c) /\ r.flags.aux = CarryInto(16, a, value, c)
        /\ CarryInto(256, a, value, c) <=> 16 * t + s >= 256
        /\ CarryInto(16, a, value, c) <=> s >= 16
    BY <2>1, <2>3, AddResult, CarryOutOfByte, CarryOutOfDigit
  <2>5. r.flags.carry \in BOOLEAN /\ r.flags.aux \in BOOLEAN
    BY <2>4 DEF CarryInto, Differ
  <2>6. /\ out \in Byte
        /\ out % 16 > 9 \/ s >= 16 <=> s >= 10
        /\ out > 153 \/ 16 * t + s >= 256 <=> 16 * t + s > 153
    BY <2>3, LowDigit
  <2>7. /\ e = AsBit(r.out % 16 > 9 \/ r.flags.aux)
        /\ h = AsBit(r.out > 153 \/ r.flags.carry)
    BY <2>4, <2>6 DEF AsBit
  <2>8. /\ d.out = (out + 6 * e + 96 * h) % 256
        /\ d.flags.carry <=> h = 1 \/ out + 6 * e + 96 * h >= 256
    BY <2>4, <2>5, <2>6, <2>7, AdjustResult
  <2>9. /\ e \in {0, 1} /\ (e = 1 <=> s >= 10)
        /\ h \in {0, 1} /\ (h = 1 <=> 16 * t + s > 153)
    BY DEF AsBit
  <2> DEFINE up == t + e - 10 * h
             low == s - 10 * e
  <2> HIDE DEF c, r, d, t, s, e, h
  <2>10. /\ up \in 0 .. 9 /\ low \in 0 .. 9
         /\ (out + 6 * e + 96 * h) % 256 = 16 * up + low
         /\ (h = 1 \/ out + 6 * e + 96 * h >= 256) <=> h = 1
    BY <2>3, <2>9, Adjusted
  <2>11. Packed(d.out) /\ Decimal(d.out) = 10 * up + low
    BY <2>8, <2>10, PackedValue
  <2>12. AsBit(d.flags.carry) = h
    BY <2>8, <2>9, <2>10 DEF AsBit
  <2>13. 10 * up + low + 100 * h = 10 * t + s
    BY <2>3, <2>9
  <2> QED
    BY <2>2, <2>3, <2>11, <2>12, <2>13 DEF c, r, d
<1> QED
  BY <1>1, SweepOperands, PTL
===========================================================================
