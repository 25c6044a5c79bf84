------------------------ MODULE MCCpuInstructions ------------------------
(* Start machines at the edges: SP that wraps, HL at the end of memory, all *)
(* flags on and off, BCD and sign boundaries in the registers.               *)
EXTENDS CpuInstructions

MCRegisters ==
  {[r \in Register |-> 0],
   [r \in Register |-> IF r \in {RegH, RegL} THEN 255 ELSE 128 + r],
   [r \in Register |-> CASE r = RegA -> 154 [] r = RegH -> 0 [] OTHER -> 255]}
MCFlags ==
  {NoFlags, [NoFlags EXCEPT !.carry = TRUE, !.aux = TRUE], [NoFlags EXCEPT !.zero = TRUE, !.parity = TRUE],
   [carry |-> TRUE, zero |-> FALSE, sign |-> TRUE, parity |-> FALSE, aux |-> TRUE]}
===========================================================================
