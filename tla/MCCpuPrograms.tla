--------------------------- MODULE MCCpuPrograms ---------------------------
(* A loop that adds decimals with its carries on the stack, a subroutine that *)
(* exchanges the top of the stack, and a program that idles in HLT.           *)
EXTENDS CpuPrograms

MCExtra ==
  {\* LXI SP,512; MVI A,153; MVI C,2; 7: ADI 72; DAA; PUSH PSW; DCR C; POP D; JNZ 7; HLT
   <<49, 0, 2, 62, 153, 14, 2, 198, 72, DAA, 245, 13, 209, 194, 7, 0, HLT>>,
   \* LXI SP,512; JMP 11; 6: XTHL; INX H; DCX H; XTHL; RET; 11: LXI H,4660; PUSH H; CALL 6;
   \* POP D; HLT
   <<49, 0, 2, JMP, 11, 0, XTHL, 35, 43, XTHL, RET, 33, 52, 18, 229, CALL, 6, 0, 209, HLT>>,
   \* LXI SP,512; EI; STC; HLT; RAL; HLT; JMP 4
   <<49, 0, 2, EI, STC, HLT, RAL, HLT, JMP, 4, 0>>}

\* The case alone, one instruction after the other, woken up from HLT as interrupts
\* would, with the interrupt it asks for itself.
Alone(case) ==
  LET start == Reset(Image(case.name, case.bytes))
      woken(c) == [c EXCEPT !.halted = @ /\ ~(case.name = "extra" /\ c.pc < Len(case.bytes))]
      run[n \in 0 .. MaxSteps] ==
        IF n = 0 THEN start
        ELSE IF n = 1 /\ case.name = "interrupt_rst" THEN JamOf(start, 207, <<0, 0>>, 0)
        ELSE woken(Step(run[n - 1], EchoInput))
  IN run

\* The programs of the run are as the theorems ask in every state they go through.
ASSUME CasesAreDisciplined ==
  \A case \in Cases : \A n \in 0 .. MaxSteps :
    LET c == Alone(case)[n]
    IN /\ case.name # "rst_ring" => Serviceable(c)
       /\ ~c.halted /\ n < MaxSteps => Private(c)
ASSUME RoomForAll == 8 * MaxDisturbances <= StackRoom
===========================================================================
