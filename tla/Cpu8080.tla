------------------------------ MODULE Cpu8080 ------------------------------
(***************************************************************************)
(* The instruction set: Step and Jam of src/cpu/step.go, with the          *)
(* execution of src/cpu/execute.go and the register file of                *)
(* src/cpu/cpu.go.                                                         *)
(*                                                                         *)
(* A machine is a record of the CPU, its memory and `bus`, the machine     *)
(* cycles the instruction in progress has performed so far.  Memory is the *)
(* flat 64 KB of src/cpu/memory.go: a cell that was never written is zero  *)
(* and is not in the domain of `mem`.  Everything an instruction does is a *)
(* function from machines to machines, applied in the order of the code.   *)
(* The counters are kept in CpuPrograms, where time matters.  A            *)
(* definition named X_Y just before X is X with a plausible mistake Y,     *)
(* used nowhere.                                                           *)
(***************************************************************************)
EXTENDS Alu8080, Decoder8080

Register == 0 .. 7 \ {RegM}
RegH == 4
RegL == 5
RegA == 7
PairSP == 3
Cycle == {"M1", "MR", "MW", "SR", "SW", "IOR", "IOW"}
Memory == UNION {[S -> Byte] : S \in SUBSET Word}

High(w) == w \div 256
Low(w) == w % 256
Compose(high, low) == 256 * high + low
Next16(w) == (w + 1) % 65536
Previous16(w) == (w - 1) % 65536

NoFlags == [carry |-> FALSE, zero |-> FALSE, sign |-> FALSE, parity |-> FALSE, aux |-> FALSE]

\* Reset, on memory `mem`.
Reset(mem) ==
  [reg |-> [r \in Register |-> 0], flag |-> NoFlags, pc |-> 0, sp |-> 0,
   halted |-> FALSE, enabled |-> FALSE, mem |-> mem, bus |-> <<>>, error |-> "nil"]

---------------------------------------------------------------------------
(* The bus and the register file.                                          *)

Peek(m, a) == IF a \in DOMAIN m.mem THEN m.mem[a] ELSE 0
Log(m, cycle) == [m EXCEPT !.bus = Append(@, cycle)]
Store(m, a, v, cycle) ==
  Log([m EXCEPT !.mem = [b \in DOMAIN @ \cup {a} |-> IF b = a THEN v ELSE @[b]]], cycle)

HL(m) == Compose(m.reg[RegH], m.reg[RegL])
Pair(m, p) == IF p = PairSP THEN m.sp ELSE Compose(m.reg[2 * p], m.reg[2 * p + 1])
SetPair(m, p, w) ==
  IF p = PairSP THEN [m EXCEPT !.sp = w]
  ELSE [m EXCEPT !.reg[2 * p] = High(w), !.reg[2 * p + 1] = Low(w)]

\* readRegister and writeRegister; register 6 is the memory cell HL points to.
Touch(m, r) == IF r = RegM THEN Log(m, "MR") ELSE m
Get(m, r) == IF r = RegM THEN Peek(m, HL(m)) ELSE m.reg[r]
Set(m, r, v) == IF r = RegM THEN Store(m, HL(m), v, "MW") ELSE [m EXCEPT !.reg[r] = v]
SetA(m, v) == [m EXCEPT !.reg[RegA] = v]

\* FlagsByte and SetFlagsByte.
FlagsByte_NoAux(f) ==
  128 * AsBit(f.sign) + 64 * AsBit(f.zero) + 4 * AsBit(f.parity) + 2 + AsBit(f.carry)
FlagsByte(f) ==
  128 * AsBit(f.sign) + 64 * AsBit(f.zero) + 16 * AsBit(f.aux) + 4 * AsBit(f.parity)
  + 2 + AsBit(f.carry)
FlagsOf(v) ==
  [carry |-> HasBit(v, 1), zero |-> HasBit(v, 64), sign |-> HasBit(v, 128),
   parity |-> HasBit(v, 4), aux |-> HasBit(v, 16)]

\* pushWord: the high byte goes to the higher address.
PushWord(m, w) ==
  LET upper == Store([m EXCEPT !.sp = Previous16(@)], Previous16(m.sp), High(w), "SW")
  IN Store([upper EXCEPT !.sp = Previous16(@)], Previous16(upper.sp), Low(w), "SW")

\* popWord: the word, and the machine after it.
PopWord_HighFirst(m) == Compose(Peek(m, m.sp), Peek(m, Next16(m.sp)))
PopWord(m) == Compose(Peek(m, Next16(m.sp)), Peek(m, m.sp))
Popped(m) == Log(Log([m EXCEPT !.sp = Next16(Next16(@))], "SR"), "SR")

\* PUSH and POP; pair 3 is the accumulator with the flags.
Pushed(m, p) == IF p = 3 THEN PushWord(m, Compose(m.reg[RegA], FlagsByte(m.flag)))
                ELSE PushWord(m, Pair(m, p))
PoppedTo(m, p) ==
  IF p = 3 THEN [SetA(Popped(m), High(PopWord(m))) EXCEPT !.flag = FlagsOf(Low(PopWord(m)))]
  ELSE SetPair(Popped(m), p, PopWord(m))

CallTo(m, target) == [PushWord(m, m.pc) EXCEPT !.pc = target]
Return(m) == [Popped(m) EXCEPT !.pc = PopWord(m)]

\* conditionTaken, for the condition in the opcode.
Taken(m, code) ==
  LET f == m.flag
      c == Y(code)
      holds == CASE c \div 2 = 0 -> f.zero  [] c \div 2 = 1 -> f.carry
                 [] c \div 2 = 2 -> f.parity [] c \div 2 = 3 -> f.sign
  IN holds <=> c % 2 = 1

---------------------------------------------------------------------------
(* Execution.                                                              *)

GroupOf(code) == <<"ADD", "ADC", "SUB", "SBB", "ANA", "XRA", "ORA", "CMP">>[Y(code) + 1]

\* executeALU: CMP keeps only the flags.
Arithmetic(m, group, v) ==
  LET r == ALU(group, m.reg[RegA], v, m.flag.carry)
      flagged == [m EXCEPT !.flag = r.flags]
  IN IF group = "CMP" THEN flagged ELSE SetA(flagged, r.out)

\* increment and decrement: every flag but the carry.
Step1(m, r, group) ==
  LET step == ALU(group, Get(m, r), 1, FALSE)
  IN Set([Touch(m, r) EXCEPT !.flag = [step.flags EXCEPT !.carry = m.flag.carry]], r, step.out)

AddToHL(m, w) ==
  LET sum == Add16(HL(m), w)
  IN [SetPair(m, 2, sum.out) EXCEPT !.flag.carry = sum.carry]

AdjustA(m) ==
  LET r == DecimalAdjust(m.reg[RegA], m.flag)
  IN [SetA(m, r.out) EXCEPT !.flag = r.flags]

\* RLC, RRC, RAL and RAR: the bit that leaves goes to the carry, the bit that
\* enters is the same one or the old carry.
RotateLeft(m, entering) ==
  [SetA(m, ((2 * m.reg[RegA]) % 256) + AsBit(entering)) EXCEPT
     !.flag.carry = HasBit(m.reg[RegA], 128)]
RotateRight(m, entering) ==
  [SetA(m, (m.reg[RegA] \div 2) + 128 * AsBit(entering)) EXCEPT
     !.flag.carry = HasBit(m.reg[RegA], 1)]

ExchangeStack(m) ==
  LET low == Peek(m, m.sp)
      high == Peek(m, Next16(m.sp))
      stored == Store(Store(Log(Log(m, "SR"), "SR"), m.sp, m.reg[RegL], "SW"),
                      Next16(m.sp), m.reg[RegH], "SW")
  IN SetPair(stored, 2, Compose(high, low))

StoreHL(m, a) == Store(Store(m, a, m.reg[RegL], "MW"), Next16(a), m.reg[RegH], "MW")
LoadHL(m, a) ==
  SetPair(Log(Log(m, "MR"), "MR"), 2, Compose(Peek(m, Next16(a)), Peek(m, a)))

\* execute8080 on the operand bytes `arg`; an IN instruction reads `input`.
Execute(m, code, arg, input) ==
  LET word == Compose(arg[2], arg[1])
      p == PairOf(code)
      A == m.reg[RegA]
  IN CASE code \in Unassigned -> [m EXCEPT !.error = "unimplemented"]
       [] code = NOP -> m
       [] code = HLT -> [m EXCEPT !.halted = TRUE]
       [] code \in MOV -> Set(Touch(m, Z(code)), Y(code), Get(m, Z(code)))
       [] code \in MVI -> Set(m, Y(code), arg[1])
       [] code \in LXI -> SetPair(m, p, word)
       [] code \in INR -> Step1(m, Y(code), "ADD")
       [] code \in DCR -> Step1(m, Y(code), "SUB")
       [] code \in INX -> SetPair(m, p, Next16(Pair(m, p)))
       [] code \in DCX -> SetPair(m, p, Previous16(Pair(m, p)))
       [] code \in DAD -> AddToHL(m, Pair(m, p))
       [] code \in ALUReg -> Arithmetic(Touch(m, Z(code)), GroupOf(code), Get(m, Z(code)))
       [] code \in ALUImm -> Arithmetic(m, GroupOf(code), arg[1])
       [] code = JMP \/ (code \in Jcc /\ Taken(m, code)) -> [m EXCEPT !.pc = word]
       [] code = CALL \/ (code \in Ccc /\ Taken(m, code)) -> CallTo(m, word)
       [] code = RET \/ (code \in Rcc /\ Taken(m, code)) -> Return(m)
       [] code \in Jcc \cup Ccc \cup Rcc /\ ~Taken(m, code) -> m
       [] code \in RST -> CallTo(m, 8 * Y(code))
       [] code \in POP -> PoppedTo(m, p)
       [] code \in PUSH -> Pushed(m, p)
       [] code \in STAX -> Store(m, Pair(m, p), A, "MW")
       [] code \in LDAX -> SetA(Log(m, "MR"), Peek(m, Pair(m, p)))
       [] code = RLC -> RotateLeft(m, HasBit(A, 128))
       [] code = RRC -> RotateRight(m, HasBit(A, 1))
       [] code = RAL -> RotateLeft(m, m.flag.carry)
       [] code = RAR -> RotateRight(m, m.flag.carry)
       [] code = SHLD -> StoreHL(m, word)
       [] code = LHLD -> LoadHL(m, word)
       [] code = DAA -> AdjustA(m)
       [] code = CMA -> SetA(m, Complement(A))
       [] code = STA -> Store(m, word, A, "MW")
       [] code = LDA -> SetA(Log(m, "MR"), Peek(m, word))
       [] code = STC -> [m EXCEPT !.flag.carry = TRUE]
       [] code = CMC -> [m EXCEPT !.flag.carry = ~@]
       [] code = OUT -> Log(m, "IOW")
       [] code = IN_ -> SetA(Log(m, "IOR"), input)
       [] code = XTHL -> ExchangeStack(m)
       [] code = PCHL -> [m EXCEPT !.pc = HL(m)]
       [] code = XCHG -> SetPair(SetPair(m, 2, Pair(m, 1)), 1, Pair(m, 2))
       [] code \in {DI, EI} -> [m EXCEPT !.enabled = (code = EI)]
       [] code = SPHL -> [m EXCEPT !.sp = HL(m)]

\* Step: fetch the opcode and its operands, PC moving with each byte, and execute.
Fetched(m, cycle) == Log([m EXCEPT !.pc = Next16(@)], cycle)
Operands(m) == <<Peek(m, m.pc), Peek(m, Next16(m.pc))>>
Step(m, input) ==
  LET code == Peek(m, m.pc)
      opcode == Fetched([m EXCEPT !.bus = <<>>, !.error = "nil"], "M1")
      one == IF Length(code) > 1 THEN Fetched(opcode, "MR") ELSE opcode
      two == IF Length(code) > 2 THEN Fetched(one, "MR") ELSE one
  IN IF m.halted THEN [m EXCEPT !.bus = <<>>, !.error = "stopped"]
     ELSE Execute(two, code, Operands(opcode), input)

\* Jam: the instruction comes from outside, and wakes the CPU up.
JamOf_StaysHalted(m, code, arg, input) ==
  Execute([m EXCEPT !.bus = <<>>, !.error = "nil"], code, arg, input)
JamOf(m, code, arg, input) ==
  Execute([m EXCEPT !.bus = <<>>, !.error = "nil", !.halted = FALSE], code, arg, input)

\* States of the instruction (instructionTiming): fewer if a condition fails.
StatesOf_Unconditional(m, code) == StateRange(code).max
StatesOf(m, code) ==
  IF code \in Ccc \cup Rcc /\ ~Taken(m, code) THEN StateRange(code).min ELSE StateRange(code).max
===========================================================================
