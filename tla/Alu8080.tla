------------------------------ MODULE Alu8080 ------------------------------
(***************************************************************************)
(* The arithmetic of the CPU: the Native backend of src/cpu/alu_native.go  *)
(* and the decimal adjustment of src/cpu/alu.go, on 8-bit values with the  *)
(* five flags.  The gate-level backend is another repository's; the test   *)
(* src/cpu/alu_diff_test.go compares the two on every input.               *)
(*                                                                         *)
(* A byte and the set of the weights of its one bits are interchangeable,  *)
(* so the bitwise operators of Go are those of sets.  A definition named   *)
(* X_Y just before X is X with a plausible mistake Y, used nowhere.        *)
(***************************************************************************)
EXTENDS Integers, FiniteSets

\* The widths of the registers.
Byte == 0 .. 255
MaxWord == 65535
Word == 0 .. MaxWord
Weight == {1, 2, 4, 8, 16, 32, 64, 128}
Group == {"ADD", "ADC", "SUB", "SBB", "ANA", "XRA", "ORA", "CMP"}
Flags == [carry : BOOLEAN, zero : BOOLEAN, sign : BOOLEAN, parity : BOOLEAN, aux : BOOLEAN]

HasBit(v, w) == (v \div w) % 2 = 1
Bits(v) == {w \in Weight : HasBit(v, w)}
Part(S, w) == IF w \in S THEN w ELSE 0
FromBits(S) == Part(S, 1) + Part(S, 2) + Part(S, 4) + Part(S, 8)
               + Part(S, 16) + Part(S, 32) + Part(S, 64) + Part(S, 128)

Differ(p, q) == ~(p <=> q)
AsBit(b) == IF b THEN 1 ELSE 0
Complement(v) == 255 - v
ParityEven(v) == Cardinality(Bits(v)) % 2 = 0

\* The flags that depend on the result alone, with the two carries.
ResultFlags(out, carry, aux) ==
  [carry |-> carry, zero |-> out = 0, sign |-> out >= 128,
   parity |-> ParityEven(out), aux |-> aux]

\* Whether a + b + cy carries into the bit of weight w: the bit of the sum
\* differs from the exclusive or of the operands' bits.
CarryInto_IgnoresCarryIn(w, a, b, cy) == Differ(HasBit(a + b, w), Differ(HasBit(a, w), HasBit(b, w)))
CarryInto(w, a, b, cy) == Differ(HasBit(a + b + cy, w), Differ(HasBit(a, w), HasBit(b, w)))

NativeAdd(a, value, cy) ==
  LET out == (a + value + cy) % 256
  IN [out |-> out,
      flags |-> ResultFlags(out, CarryInto(256, a, value, cy), CarryInto(16, a, value, cy))]

\* Subtraction adds the complement; the carry flag is the borrow, the auxiliary
\* carry is not inverted.
NativeSub_InvertsAux(a, value, borrow) ==
  LET sum == NativeAdd(a, Complement(value), 1 - borrow)
  IN [sum EXCEPT !.flags.carry = ~@, !.flags.aux = ~@]
NativeSub(a, value, borrow) ==
  LET sum == NativeAdd(a, Complement(value), 1 - borrow)
  IN [sum EXCEPT !.flags.carry = ~@]

\* ANA takes its auxiliary carry from bit 3 of the inclusive or.
AndAux_OfAnd(a, value) == 8 \in Bits(a) \cap Bits(value)
AndAux(a, value) == 8 \in Bits(a) \cup Bits(value)
NativeLogic(group, a, value) ==
  LET out == CASE group = "ANA" -> FromBits(Bits(a) \cap Bits(value))
               [] group = "XRA" -> FromBits((Bits(a) \cup Bits(value)) \ (Bits(a) \cap Bits(value)))
               [] OTHER -> FromBits(Bits(a) \cup Bits(value))
  IN [out |-> out, flags |-> ResultFlags(out, FALSE, group = "ANA" /\ AndAux(a, value))]

ALU(group, a, value, carryIn) ==
  CASE group = "ADD" -> NativeAdd(a, value, 0)
    [] group = "ADC" -> NativeAdd(a, value, AsBit(carryIn))
    [] group = "SBB" -> NativeSub(a, value, AsBit(carryIn))
    [] group \in {"SUB", "CMP"} -> NativeSub(a, value, 0)
    [] group \in {"ANA", "XRA", "ORA"} -> NativeLogic(group, a, value)

\* Add16 of the backend; DAD uses it.
Add16(x, y) == [out |-> (x + y) % 65536, carry |-> x + y > 65535]

\* daa: the correction depends on the digits and on the flags of the last addition;
\* a carry that was there stays.
DecimalAdjust_DropsCarry(a, flags) ==
  ALU("ADD", a, (IF a % 16 > 9 \/ flags.aux THEN 6 ELSE 0)
                + (IF a > 153 \/ flags.carry THEN 96 ELSE 0), FALSE)
DecimalAdjust(a, flags) ==
  LET high == a > 153 \/ flags.carry
      sum == ALU("ADD", a, (IF a % 16 > 9 \/ flags.aux THEN 6 ELSE 0)
                           + (IF high THEN 96 ELSE 0), FALSE)
  IN [sum EXCEPT !.flags.carry = high \/ @]
===========================================================================
