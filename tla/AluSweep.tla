------------------------------ MODULE AluSweep ------------------------------
(***************************************************************************)
(* Every input of the arithmetic unit, in the order of the loops of        *)
(* src/cpu/alu_diff_test.go: both operands and the carry in.  The          *)
(* properties say what the results mean as numbers, which the test, that   *)
(* compares two implementations, does not.                                 *)
(***************************************************************************)
EXTENDS Alu8080

VARIABLES a, value, carryIn

sweepVars == <<a, value, carryIn>>

Init == a \in Byte /\ value = 0 /\ carryIn = FALSE

NextCarry == ~carryIn /\ carryIn' = TRUE /\ UNCHANGED <<a, value>>

NextValue ==
  /\ carryIn /\ value < 255
  /\ value' = value + 1 /\ carryIn' = FALSE
  /\ UNCHANGED a

Next == NextCarry \/ NextValue

Spec == Init /\ [][Next]_sweepVars

---------------------------------------------------------------------------

Sum == a + value + AsBit(carryIn)
Difference == a - value - AsBit(carryIn)
Nibbles == (a % 16) + (value % 16) + AsBit(carryIn)

\* ADC returns the whole sum, split into the result and the carry, and the
\* auxiliary carry is the carry out of the low digit, which the code computes
\* by an exclusive or of bits (alu_native.go:18-36).
AdditionExact ==
  LET r == ALU("ADC", a, value, carryIn)
  IN /\ r.out + 256 * AsBit(r.flags.carry) = Sum
     /\ r.flags.aux <=> Nibbles >= 16

\* SBB returns the difference modulo 256 with the borrow in the carry; the
\* auxiliary carry is set when the low digit needs no borrow.  CMP therefore
\* orders its operands: carry for less, zero for equal (alu_native.go:38-55, 88-91).
SubtractionExact ==
  LET r == ALU("SBB", a, value, carryIn)
      order == ALU("CMP", a, value, carryIn).flags
  IN /\ r.out - 256 * AsBit(r.flags.carry) = Difference
     /\ r.flags.aux <=> (a % 16) - (value % 16) - AsBit(carryIn) >= 0
     /\ order.carry <=> a < value
     /\ order.zero <=> a = value

\* The three logical operations are one identity: the sum of two bytes is their
\* exclusive or plus twice their conjunction, and the disjunction plus the
\* conjunction; only ANA sets the auxiliary carry (alu_native.go:57-75).
LogicConsistent ==
  LET And == ALU("ANA", a, value, carryIn)
      Xor == ALU("XRA", a, value, carryIn)
      Or == ALU("ORA", a, value, carryIn)
  IN /\ a + value = Xor.out + 2 * And.out
     /\ a + value = Or.out + And.out
     /\ ~(And.flags.carry \/ Xor.flags.carry \/ Or.flags.carry \/ Xor.flags.aux \/ Or.flags.aux)
     /\ And.flags.aux <=> Or.out % 16 >= 8

\* Binary coded decimals: adding two packed pairs of digits and adjusting gives the
\* packed sum and the decimal carry, so numbers of any length can be added digit
\* pair by digit pair (alu.go:46-64).
Packed(v) == v % 16 <= 9 /\ v \div 16 <= 9
Decimal(v) == 10 * (v \div 16) + (v % 16)
DecimalSum ==
  Packed(a) /\ Packed(value) =>
    LET r == ALU("ADC", a, value, carryIn)
        d == DecimalAdjust(r.out, r.flags)
    IN /\ Packed(d.out)
       /\ Decimal(d.out) + 100 * AsBit(d.flags.carry)
            = Decimal(a) + Decimal(value) + AsBit(carryIn)
===========================================================================
