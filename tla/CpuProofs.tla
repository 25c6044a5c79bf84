------------------------------ MODULE CpuProofs ------------------------------
(***************************************************************************)
(* Proofs about CpuInstructions: for all 256 opcodes, all operands and     *)
(* inputs, and whatever machines the program starts with.                  *)
(* The invariant InstructionInv says that m is what the last instruction   *)
(* made of the machine `before`, and the four properties of the runs       *)
(* follow from what Execute does to that machine (MachineProofs).          *)
(***************************************************************************)
EXTENDS CpuInstructions, MachineProofs

---------------------------------------------------------------------------
(* The invariant: m is what the last instruction made of `before`.         *)

\* The machine after a step, or after the refusals of a CPU it halted.
Outcome(s, c) == c = s \/ (s.halted /\ c = [s EXCEPT !.bus = <<>>, !.error = "stopped"])

InstructionInv ==
  /\ m \in Machine /\ before \in Machine /\ code \in Byte
  /\ stage \in {"start", "loaded", "stepped", "jammed"}
  /\ stage = "start" => ~m.halted
  /\ stage = "loaded" => ~m.halted /\ Peek(m, m.pc) = code
  /\ stage = "stepped" => /\ ~before.halted /\ Peek(before, before.pc) = code
                          /\ \E input \in Byte : Outcome(Step(before, input), m)
  /\ stage = "jammed" =>
       \E arg \in Byte \X Byte, input \in Byte : m = JamOf(before, code, arg, input)

LEMMA InputTypes ==
  /\ \A k : Inputs(k) \subseteq Byte /\ Arguments(k) \subseteq Byte \X Byte
<1>1. 0 \in Byte
  BY ByteIs
<1>2. QED
  BY <1>1, StartAssumption DEF Inputs, Arguments

LEMMA InitHolds == Init => InstructionInv
<1> SUFFICES ASSUME Init PROVE InstructionInv
  OBVIOUS
<1> DEFINE empty == <<>>
           Start(reg, flag, sp, pc) ==
             [Reset(<<>>) EXCEPT !.reg = reg, !.flag = flag, !.sp = sp, !.pc = pc]
<1>1. \E reg \in StartRegisters, flag \in StartFlags, sp \in StartSP, pc \in {0, MaxWord} :
        m = Start(reg, flag, sp, pc)
  BY Zenon DEF Init
<1>2. ASSUME NEW reg, NEW flag, NEW sp, NEW pc
      PROVE  Start(reg, flag, sp, pc) =
               [reg |-> reg, flag |-> flag, pc |-> pc, sp |-> sp, halted |-> FALSE,
                enabled |-> FALSE, mem |-> empty, bus |-> empty, error |-> "nil"]
  <2> DEFINE zero == [r \in Register |-> 0]
             reset == Reset(empty)
  <2>1. reset = [reg |-> zero, flag |-> NoFlags, pc |-> 0, sp |-> 0, halted |-> FALSE,
                 enabled |-> FALSE, mem |-> empty, bus |-> empty, error |-> "nil"]
    BY DEF Reset
  <2>2. Start(reg, flag, sp, pc) =
          [reset EXCEPT !.reg = reg, !.flag = flag, !.sp = sp, !.pc = pc]
    OBVIOUS
  <2> HIDE DEF zero, reset, empty, Start
  <2>3. QED
    BY <2>1, <2>2
<1>3. empty \in Memory /\ empty \in Seq(Cycle)
  <2>1. empty \in [{} -> Byte]
    OBVIOUS
  <2>2. QED
    BY <2>1 DEF Memory
<1> HIDE DEF empty, Start
<1>4. PICK reg \in StartRegisters, flag \in StartFlags, sp \in StartSP, pc \in {0, MaxWord} :
        m = Start(reg, flag, sp, pc)
  BY <1>1
<1>5. reg \in [Register -> Byte] /\ flag \in Flags /\ sp \in Word /\ pc \in Word
  BY StartAssumption, WordIs DEF MaxWord
<1>6. m = [reg |-> reg, flag |-> flag, pc |-> pc, sp |-> sp, halted |-> FALSE,
           enabled |-> FALSE, mem |-> empty, bus |-> empty, error |-> "nil"]
  BY <1>2, <1>4
<1>7. m \in Machine /\ m.halted = FALSE
  BY <1>3, <1>5, <1>6 DEF Machine
<1>8. QED
  BY <1>7, ByteIs DEF Init, InstructionInv, NOP

LEMMA LoadHolds ==
  ASSUME InstructionInv, NEW k \in Byte, NEW arg \in Arguments(k), Load(k, arg)
  PROVE  InstructionInv'
<1> DEFINE second == Next16(m.pc)
           third == Next16(second)
           cells == [a \in {m.pc, second, third} |->
                       IF a = m.pc THEN k ELSE IF a = second THEN arg[1] ELSE arg[2]]
<1>1. m \in Machine /\ ~m.halted /\ arg \in Byte \X Byte /\ m.pc \in Word
  BY InputTypes DEF InstructionInv, Load, Machine
<1>2. second \in Word /\ third \in Word
  BY <1>1, Counting
<1>3. cells \in Memory /\ cells[m.pc] = k /\ m.pc \in DOMAIN cells
  <2> HIDE DEF second, third
  <2>1. cells \in [{m.pc, second, third} -> Byte]
    BY <1>1
  <2>2. {m.pc, second, third} \in SUBSET Word
    BY <1>1, <1>2
  <2>3. QED
    BY <2>1, <2>2 DEF Memory
<1>4. m' = [m EXCEPT !.mem = cells]
  BY DEF Load
<1> HIDE DEF cells
<1>5. m' \in Machine /\ m'.mem = cells /\ m'.pc = m.pc /\ m'.halted = m.halted
  BY <1>1, <1>3, <1>4 DEF Machine
<1>6. Peek(m', m'.pc) = k
  BY <1>3, <1>5 DEF Peek
<1>7. QED
  BY <1>1, <1>5, <1>6 DEF InstructionInv, Load

LEMMA StepOneHolds ==
  ASSUME InstructionInv, NEW input \in Inputs(code), StepOne(input)
  PROVE  InstructionInv'
<1>1. input \in Byte
  BY InputTypes
<1>2. m' \in Machine
  BY <1>1, StepType DEF InstructionInv, StepOne
<1>3. Outcome(Step(m, input), m')
  BY DEF StepOne, Outcome
<1>4. QED
  BY <1>1, <1>2, <1>3 DEF InstructionInv, StepOne

LEMMA StepHaltedHolds ==
  ASSUME InstructionInv, StepHalted
  PROVE  InstructionInv'
<1>1. m \in Machine /\ m.halted
  BY DEF InstructionInv, StepHalted
<1>2. m' = [m EXCEPT !.bus = <<>>, !.error = "stopped"]
  BY <1>1, StepIs DEF StepHalted
<1>3. m' \in Machine
  BY <1>1, <1>2, FreshBus
<1>4. PICK input \in Byte : Outcome(Step(before, input), m)
  BY DEF InstructionInv, StepHalted
<1> DEFINE s == Step(before, input)
<1>5. s \in Machine
  BY StepType DEF InstructionInv
<1> HIDE DEF s
<1>6. Outcome(s, m')
  <2>1. CASE m = s
    BY <1>1, <1>2, <2>1 DEF Outcome
  <2>2. CASE m # s
    <3>1. s.halted /\ m = [s EXCEPT !.bus = <<>>, !.error = "stopped"]
      BY <1>4, <2>2 DEF Outcome, s
    <3>2. m' = [s EXCEPT !.bus = <<>>, !.error = "stopped"]
      BY <1>2, <1>5, <3>1 DEF Machine
    <3>3. QED
      BY <3>1, <3>2 DEF Outcome
  <2>3. QED
    BY <2>1, <2>2
<1>7. QED
  BY <1>3, <1>6 DEF InstructionInv, StepHalted, s

LEMMA JamOneHolds ==
  ASSUME InstructionInv, NEW k \in Byte, NEW arg \in Arguments(k), NEW input \in Inputs(k),
         JamOne(k, arg, input)
  PROVE  InstructionInv'
<1>1. arg \in Byte \X Byte /\ input \in Byte
  BY InputTypes
<1>2. m' \in Machine
  BY <1>1, JamType DEF InstructionInv, JamOne
<1>3. QED
  BY <1>1, <1>2 DEF InstructionInv, JamOne

\* The machine is well-formed in every reachable state, and in every state but the
\* first ones it is the machine before, with one instruction executed.
THEOREM InstructionInvariant == Spec => []InstructionInv
<1>1. InstructionInv /\ [Next]_insVars => InstructionInv'
  <2> SUFFICES ASSUME InstructionInv, [Next]_insVars PROVE InstructionInv'
    OBVIOUS
  <2>1. CASE \E k \in Byte : \E arg \in Arguments(k) : Load(k, arg)
    BY <2>1, LoadHolds
  <2>2. CASE \E input \in Inputs(code) : StepOne(input)
    BY <2>2, StepOneHolds
  <2>3. CASE StepHalted
    BY <2>3, StepHaltedHolds
  <2>4. CASE \E k \in Byte : \E arg \in Arguments(k),
            input \in Inputs(k) : JamOne(k, arg, input)
    BY <2>4, JamOneHolds
  <2>5. CASE UNCHANGED insVars
    BY <2>5 DEF insVars, InstructionInv
  <2>6. QED
    BY <2>1, <2>2, <2>3, <2>4, <2>5 DEF Next
<1>2. QED
  BY <1>1, InitHolds, PTL DEF Spec

---------------------------------------------------------------------------
(* Calls and returns.                                                      *)

\* The instruction stepped is the execution of what was fetched.
LEMMA SteppedIs ==
  ASSUME InstructionInv, stage = "stepped"
  PROVE  \E input \in Byte :
           LET s == Execute(Fetch(before), code, OperandBytes(before), input)
           IN  /\ Outcome(s, m) /\ s \in Machine
               /\ s.error # "stopped"
               /\ code # HLT => m = s
               /\ code = HLT => code \notin Unassigned
<1>1. PICK input \in Byte : Outcome(Step(before, input), m)
  BY DEF InstructionInv
<1>2. ~before.halted /\ Peek(before, before.pc) = code /\ before \in Machine
  BY DEF InstructionInv
<1>3. Step(before, input) = Execute(Fetch(before), code, OperandBytes(before), input)
  BY <1>2, StepIs
<1> DEFINE s == Step(before, input)
<1>4. s \in Machine /\ (s.halted <=> code = HLT) /\ s.error # "stopped"
  BY <1>2, StepType
<1>5. code = HLT => code \notin Unassigned
  BY DEF HLT, Unassigned, Digits
<1> HIDE DEF s
<1>6. code # HLT => m = s
  BY <1>1, <1>4 DEF Outcome, s
<1>7. QED
  BY <1>1, <1>3, <1>4, <1>5, <1>6 DEF s

LEMMA Unwound ==
  ASSUME NEW w \in Word
  PROVE  Next16(Next16(Previous16(Previous16(w)))) = w
BY Counting

\* Whatever machine a call was executed on, RET is its inverse.
LEMMA CallUndone ==
  ASSUME NEW c \in Machine, NEW k \in Byte, NEW arg \in Byte \X Byte, NEW input \in Byte,
         k = CALL \/ k \in RST \/ (k \in Ccc /\ Taken(c, k))
  PROVE  LET back == Return(Execute(c, k, arg, input))
         IN  back.pc = c.pc /\ back.sp = c.sp /\ back.reg = c.reg /\ back.flag = c.flag
<1> DEFINE d == Execute(c, k, arg, input)
           word == Compose(arg[2], arg[1])
<1>1. Leaping(c, k, word, d)
  BY ExecuteLeaping
<1> HIDE DEF d, word
<1>2. /\ d \in Machine /\ d.reg = c.reg /\ d.flag = c.flag
      /\ d.sp = Previous16(Previous16(c.sp)) /\ PopWord(d) = c.pc
  BY <1>1 DEF Leaping
<1>3. c.sp \in Word
  BY DEF Machine
<1>4. QED
  BY <1>2, <1>3, ReturnKeeps, Unwound DEF d

\* A taken call, a restart or one forced as an interrupt, is undone by RET, from any
\* registers and flags and any stack pointer (execute.go:171-174, step.go:13-19, 68-87).
THEOREM CallsReturn == Spec => []ReturnUndoesCall
<1>1. InstructionInv => ReturnUndoesCall
  <2> SUFFICES ASSUME InstructionInv, Executed,
                      code = CALL \/ code \in RST \/ (code \in Ccc /\ Taken(before, code))
               PROVE  LET back == Return(m)
                          length == IF stage = "stepped" THEN Length(code) ELSE 0
                      IN  /\ back.pc = (before.pc + length) % 65536
                          /\ back.sp = before.sp /\ back.reg = before.reg
                          /\ back.flag = before.flag
    BY DEF ReturnUndoesCall
  <2>1. before \in Machine /\ code \in Byte
    BY DEF InstructionInv
  <2>2. CASE stage = "stepped"
    <3> DEFINE f == Fetch(before)
    <3>1. /\ f \in Machine /\ f.pc = (before.pc + Length(code)) % 65536 /\ f.reg = before.reg
          /\ f.flag = before.flag /\ f.sp = before.sp
          /\ OperandBytes(before) \in Byte \X Byte
      <4>1. Peek(before, before.pc) = code
        BY <2>2 DEF InstructionInv
      <4>2. /\ f \in Machine /\ f.pc = (before.pc + Length(Peek(before, before.pc))) % 65536
            /\ f.reg = before.reg /\ f.flag = before.flag /\ f.sp = before.sp
        BY <2>1, FetchIs
      <4>3. OperandBytes(before) \in Byte \X Byte
        BY <2>1, StepIs
      <4>4. QED
        BY <4>1, <4>2, <4>3
    <3>2. code # HLT
      BY <2>1, Octal, FamilyOf DEF Families, HLT, CALL
    <3> HIDE DEF f
    <3>3. PICK input \in Byte : m = Execute(f, code, OperandBytes(before), input)
      BY <2>2, <3>2, SteppedIs DEF f
    <3>4. Taken(f, code) <=> Taken(before, code)
      BY <3>1, TakenIs
    <3>5. /\ Return(m).pc = f.pc /\ Return(m).sp = f.sp /\ Return(m).reg = f.reg
          /\ Return(m).flag = f.flag
      BY <2>1, <3>1, <3>3, <3>4, CallUndone
    <3>6. QED
      BY <2>2, <3>1, <3>5
  <2>3. CASE stage = "jammed"
    <3> DEFINE w == Woken(before)
    <3>1. w \in Machine /\ w.pc = before.pc /\ w.reg = before.reg /\ w.flag = before.flag
          /\ w.sp = before.sp
      BY <2>1, WokenIs
    <3>2. PICK arg \in Byte \X Byte, input \in Byte : m = JamOf(before, code, arg, input)
      BY <2>3 DEF InstructionInv
    <3>3. m = Execute(w, code, arg, input)
      BY <2>1, <3>2, JamType
    <3> HIDE DEF w
    <3>4. Taken(w, code) <=> Taken(before, code)
      BY <3>1, TakenIs
    <3>5. /\ Return(m).pc = w.pc /\ Return(m).sp = w.sp /\ Return(m).reg = w.reg
          /\ Return(m).flag = w.flag
      BY <2>1, <3>1, <3>3, <3>4, CallUndone
    <3>6. (before.pc + 0) % 65536 = before.pc
      BY <2>1, WordIs DEF Machine
    <3>7. QED
      BY <2>3, <3>1, <3>5, <3>6
  <2>4. QED
    BY <2>2, <2>3 DEF Executed
<1>2. QED
  BY <1>1, InstructionInvariant, PTL

---------------------------------------------------------------------------
(* The disassembly.                                                        *)

\* What the instructions that have an operand do with it.
LEMMA OperandUsed ==
  ASSUME NEW c \in Machine, NEW k \in Byte, NEW arg \in Byte \X Byte, NEW input \in Byte
  PROVE  LET d == Execute(c, k, arg, input)
             word == Compose(arg[2], arg[1])
         IN  /\ k \in LXI => Pair(d, PairOf(k)) = word
             /\ k \in MVI => Get(d, Y(k)) = arg[1]
             /\ k = STA => Peek(d, word) = d.reg[RegA]
             /\ k = LDA => Peek(c, word) = d.reg[RegA]
             /\ k = LHLD => Peek(c, word) = d.reg[RegL]
<1> DEFINE d == Execute(c, k, arg, input)
           word == Compose(arg[2], arg[1])
<1>0. /\ word \in Word /\ arg[1] \in Byte /\ PairOf(k) \in 0 .. 3 /\ Y(k) \in 0 .. 7
      /\ c.reg[RegA] \in Byte /\ Arms(c, k, arg, input)
  BY OperandType, OneArm
<1>1. /\ k \in LXI => d = SetPair(c, PairOf(k), word)
      /\ k \in MVI => d = Set(c, Y(k), arg[1])
      /\ k = STA => d = Store(c, word, c.reg[RegA], "MW")
      /\ k = LDA => d = SetA(Log(c, "MR"), Peek(c, word))
      /\ k = LHLD => d = LoadHL(c, word)
  BY <1>0 DEF Arms
<1> HIDE DEF d, word
<1>2. k \in LXI => Pair(d, PairOf(k)) = word
  BY <1>0, <1>1, SetPairKeeps
<1>3. k \in MVI => Get(d, Y(k)) = arg[1]
  BY <1>0, <1>1, SetKeeps
<1>4. k = STA => Peek(d, word) = d.reg[RegA]
  BY <1>0, <1>1, StoreKeeps DEF Cycle
<1>5. k = LDA => Peek(c, word) = d.reg[RegA]
  <2>1. Log(c, "MR") \in Machine
    BY LogKeeps DEF Kept, Cycle
  <2>2. RegA \in DOMAIN Log(c, "MR").reg
    BY <2>1 DEF Machine, RegA, Register, RegM
  <2>3. QED
    <3> DEFINE e == Log(c, "MR")
               v == Peek(c, word)
    <3> HIDE DEF e, v
    <3>1. k = LDA => d.reg = [e.reg EXCEPT ![RegA] = v]
      BY <1>1, <2>1, SetARegisters DEF e, v
    <3>2. QED
      BY <2>2, <3>1 DEF e, v
<1>6. k = LHLD => Peek(c, word) = d.reg[RegL]
  <2>1. LoadHL(c, word).reg
            = [c.reg EXCEPT ![RegH] = Peek(c, Next16(word)), ![RegL] = Peek(c, word)]
    BY <1>0, LoadHLKeeps
  <2>2. RegL \in DOMAIN c.reg
    BY DEF Machine, RegL, Register, RegM
  <2>3. QED
    BY <1>1, <2>1, <2>2
<1>7. QED
  BY <1>2, <1>3, <1>4, <1>5, <1>6 DEF d, word

\* Where control goes.
LEMMA ControlGoes ==
  ASSUME NEW c \in Machine, NEW k \in Byte, NEW arg \in Byte \X Byte, NEW input \in Byte
  PROVE  LET d == Execute(c, k, arg, input)
             word == Compose(arg[2], arg[1])
             jumps == k \in {JMP, CALL} \/ (k \in Jcc \cup Ccc /\ Taken(c, k))
             leaves == k \in {RET, PCHL} \cup RST \/ (k \in Rcc /\ Taken(c, k))
         IN  /\ ~jumps /\ ~leaves => d.pc = c.pc
             /\ jumps => d.pc = word
             /\ k \in RST \cup {CALL} \/ (k \in Ccc /\ Taken(c, k)) => PopWord(d) = c.pc
<1> DEFINE d == Execute(c, k, arg, input)
           word == Compose(arg[2], arg[1])
<1>1. Leaping(c, k, word, d) /\ Calm(c, k, d)
  BY ExecuteLeaping, ExecuteCalm
<1>2. k \in Ccc \cup {CALL} => k \notin RST
  BY FamilyOf DEF Families, CALL, Z
<1> HIDE DEF d, word
<1>3. QED
  BY <1>1, <1>2 DEF Leaping, Calm, Kept, Plain, d, word

\* The line printed for an instruction is about what executes (disasm.go:14-37,
\* step.go:4-27).
THEOREM DisassemblyTellsTheTruth == Spec => []DisassemblyAgrees
<1>1. InstructionInv => DisassemblyAgrees
  <2> SUFFICES ASSUME InstructionInv, stage = "stepped" PROVE DisassemblyAgrees
    BY DEF DisassemblyAgrees
  <2> DEFINE f == Fetch(before)
             arg == OperandBytes(before)
             word == Compose(arg[2], arg[1])
             dis == Disassemble(before, before.pc)
  <2>1. before \in Machine /\ code \in Byte /\ Peek(before, before.pc) = code
    BY DEF InstructionInv
  <2>2. /\ f \in Machine /\ f.pc = (before.pc + Length(code)) % 65536 /\ f.flag = before.flag
        /\ f.mem = before.mem /\ arg \in Byte \X Byte
    <3>1. /\ f \in Machine /\ f.pc = (before.pc + Length(Peek(before, before.pc))) % 65536
          /\ f.flag = before.flag /\ f.mem = before.mem
      BY <2>1, FetchIs
    <3>2. arg \in Byte \X Byte
      BY <2>1, StepIs
    <3>3. QED
      BY <2>1, <3>1, <3>2
  <2>3. /\ dis.next = (before.pc + Length(code)) % 65536
        /\ Length(code) = 2 => dis.operand = arg[1]
        /\ Length(code) = 3 => dis.operand = word
    BY <2>1 DEF Disassemble, OperandBytes
  <2> HIDE DEF f, arg, word, dis
  <2>4. PICK input \in Byte :
          LET s == Execute(f, code, arg, input)
          IN  Outcome(s, m) /\ (code # HLT => m = s)
    BY SteppedIs DEF f, arg
  <2> DEFINE s == Execute(f, code, arg, input)
  <2>5. Taken(f, code) <=> Taken(before, code)
    BY <2>2, TakenIs
  <2>6. s \in Machine
    BY <2>1, <2>2, ExecuteType
  <2>7. /\ code \in LXI => Pair(s, PairOf(code)) = word
        /\ code \in MVI => Get(s, Y(code)) = arg[1]
        /\ code = STA => Peek(s, word) = s.reg[RegA]
        /\ code = LDA => Peek(f, word) = s.reg[RegA]
        /\ code = LHLD => Peek(f, word) = s.reg[RegL]
    BY <2>1, <2>2, OperandUsed DEF word
  <2>8. LET jumps == code \in {JMP, CALL} \/ (code \in Jcc \cup Ccc /\ Taken(f, code))
            leaves == code \in {RET, PCHL} \cup RST \/ (code \in Rcc /\ Taken(f, code))
        IN  /\ ~jumps /\ ~leaves => s.pc = f.pc
            /\ jumps => s.pc = word
            /\ code \in RST \cup {CALL} \/ (code \in Ccc /\ Taken(f, code)) => PopWord(s) = f.pc
    BY <2>1, <2>2, ControlGoes DEF word
  <2> HIDE DEF s
  <2>9. m.pc = s.pc
    BY <2>4, <2>6 DEF Outcome, Machine, s
  <2>10. code \in LXI \cup MVI \cup {STA, LDA, LHLD, CALL} \cup RST \cup Ccc => m = s
    <3>1. code \in LXI \cup MVI \cup {STA, LDA, LHLD, CALL} \cup RST \cup Ccc => code # HLT
      BY <2>1, Octal, FamilyOf DEF Families, HLT, STA, LDA, LHLD, CALL
    <3>2. QED
      BY <2>4, <3>1 DEF s
  <2>11. code \notin Jumps \cup Leaves => m.pc = dis.next
    BY <2>2, <2>3, <2>5, <2>8, <2>9 DEF Jumps, Leaves
  <2>12. code \in Jumps => m.pc = dis.operand
    BY <2>1, <2>3, <2>5, <2>8, <2>9, LengthOf DEF Jumps
  <2>13. code \in RST \cup (Jumps \ ({JMP} \cup Jcc)) => PopWord(m) = dis.next
    BY <2>2, <2>3, <2>5, <2>8, <2>10 DEF Jumps
  <2>14. code \in LXI => Pair(m, PairOf(code)) = dis.operand
    BY <2>1, <2>3, <2>7, <2>10, LengthOf
  <2>15. code \in MVI => Get(m, Y(code)) = dis.operand
    BY <2>1, <2>3, <2>7, <2>10, LengthOf
  <2>16. code = STA => Peek(m, dis.operand) = m.reg[RegA]
    BY <2>1, <2>3, <2>7, <2>10, LengthOf
  <2>17. code \in {LDA, LHLD} =>
           Peek(before, dis.operand) = m.reg[IF code = LDA THEN RegA ELSE RegL]
    <3>1. \A a : Peek(before, a) = Peek(f, a)
      BY <2>2 DEF Peek
    <3>2. LDA # LHLD
      BY DEF LDA, LHLD
    <3>3. QED
      BY <2>1, <2>3, <2>7, <2>10, <3>1, <3>2, LengthOf
  <2>18. QED
    BY <2>11, <2>12, <2>13, <2>14, <2>15, <2>16, <2>17 DEF DisassemblyAgrees, dis
<1>2. QED
  BY <1>1, InstructionInvariant, PTL

---------------------------------------------------------------------------
(* Instructions that undo each other.                                      *)

Same(c, d) == d.reg = c.reg /\ d.flag = c.flag /\ d.sp = c.sp
Undoes(c, k1, k2, arg, input) ==
  Same(c, Execute(Execute(c, k1, arg, input), k2, arg, input))

\* The machine between, and the arms that are executed.
LEMMA TwoArms ==
  ASSUME NEW c \in Machine, NEW k1 \in Byte, NEW k2 \in Byte,
         NEW arg \in Byte \X Byte, NEW input \in Byte
  PROVE  /\ Execute(c, k1, arg, input) \in Machine
         /\ Arms(c, k1, arg, input) /\ Arms(Execute(c, k1, arg, input), k2, arg, input)
BY ExecuteType, OneArm

LEMMA Restored ==
  ASSUME NEW reg \in [Register -> Byte], NEW r \in Register, NEW v
  PROVE  [[reg EXCEPT ![r] = v] EXCEPT ![r] = reg[r]] = reg
OBVIOUS

LEMMA TwoRestored ==
  ASSUME NEW reg \in [Register -> Byte], NEW r \in Register, NEW s \in Register, NEW v, NEW w
  PROVE  [[reg EXCEPT ![r] = v, ![s] = w] EXCEPT ![r] = reg[r], ![s] = reg[s]] = reg
OBVIOUS

\* The bit that left comes back, and so does the old carry.
LEMMA LeftThenRight ==
  ASSUME NEW a \in Byte, NEW cy \in BOOLEAN
  PROVE  LET v == ((2 * a) % 256) + AsBit(cy)
         IN  (v \div 2) + 128 * AsBit(HasBit(a, 128)) = a /\ HasBit(v, 1) = cy
<1>1. a \in Int /\ 0 <= a /\ a <= 255
  BY ByteIs
<1>2. CASE a >= 128
  <2>1. (2 * a) % 256 = 2 * a - 256 /\ a \div 128 = 1
    BY <1>1, <1>2
  <2>2. QED
    BY <1>1, <2>1 DEF AsBit, HasBit
<1>3. CASE a < 128
  <2>1. (2 * a) % 256 = 2 * a /\ a \div 128 = 0
    BY <1>1, <1>3
  <2>2. QED
    BY <1>1, <2>1 DEF AsBit, HasBit
<1>4. QED
  BY <1>1, <1>2, <1>3

LEMMA RightThenLeft ==
  ASSUME NEW a \in Byte, NEW cy \in BOOLEAN
  PROVE  LET v == (a \div 2) + 128 * AsBit(cy)
         IN  ((2 * v) % 256) + AsBit(HasBit(a, 1)) = a /\ HasBit(v, 128) = cy
<1>1. a \in Int /\ 0 <= a /\ a <= 255
  BY ByteIs
<1>2. /\ a = 2 * (a \div 2) + (a % 2) /\ a % 2 \in {0, 1}
      /\ 0 <= a \div 2 /\ a \div 2 <= 127 /\ a \div 2 \in Int
  BY <1>1
<1>3. AsBit(HasBit(a, 1)) = a % 2
  BY <1>1, <1>2 DEF AsBit, HasBit
<1> DEFINE h == a \div 2
<1> HIDE DEF h
<1>4. (2 * (h + 128 * AsBit(cy))) % 256 = 2 * h
  BY <1>2 DEF AsBit, h
<1>5. HasBit(h + 128 * AsBit(cy), 128) = cy
  <2>1. h \in Int /\ 0 <= h /\ h <= 127
    BY <1>2 DEF h
  <2>2. h \div 128 = 0 /\ (h + 128) \div 128 = 1
    BY <2>1
  <2>3. CASE cy = TRUE
    <3> DEFINE x == h + 128 * AsBit(cy)
    <3>1. x = h + 128
      BY <2>1, <2>3 DEF AsBit
    <3> HIDE DEF x
    <3>2. HasBit(x, 128) = TRUE
      BY <2>2, <3>1 DEF HasBit
    <3>3. QED
      BY <2>3, <3>2 DEF x
  <2>4. CASE cy = FALSE
    <3>1. h + 128 * AsBit(cy) = h
      BY <2>1, <2>4 DEF AsBit
    <3>2. QED
      BY <2>2, <2>4, <3>1 DEF HasBit
  <2>5. QED
    BY <2>3, <2>4
<1>6. QED
  BY <1>2, <1>3, <1>4, <1>5 DEF h

LEMMA RotationsUndo ==
  ASSUME NEW c \in Machine, NEW arg \in Byte \X Byte, NEW input \in Byte
  PROVE  Undoes(c, RAL, RAR, arg, input) /\ Undoes(c, RAR, RAL, arg, input)
<1>0. RAL \in Byte /\ RAR \in Byte
  BY ByteIs DEF RAL, RAR
<1> DEFINE a == c.reg[RegA]
           cy == c.flag.carry
<1>1. a \in Byte /\ cy \in BOOLEAN /\ c.flag \in Flags /\ c.reg \in [Register -> Byte]
      /\ RegA \in Register
  BY DEF Machine, Register, RegM, RegA, Flags
<1>2. Undoes(c, RAL, RAR, arg, input)
  <2> DEFINE d == Execute(c, RAL, arg, input)
             e == Execute(d, RAR, arg, input)
             v == ((2 * a) % 256) + AsBit(cy)
             out == HasBit(a, 128)
             back == (v \div 2) + 128 * AsBit(out)
  <2>1. d \in Machine /\ d = RotateLeft(c, cy) /\ e = RotateRight(d, d.flag.carry)
    BY <1>0, TwoArms DEF Arms
  <2>2. out \in BOOLEAN /\ HasBit(v, 1) \in BOOLEAN
    BY DEF HasBit
  <2>3. back = a /\ HasBit(v, 1) = cy
    BY <1>1, LeftThenRight
  <2> HIDE DEF d, e, v, out, a, cy
  <2>4. d.reg = [c.reg EXCEPT ![RegA] = v] /\ d.flag = [c.flag EXCEPT !.carry = out] /\ d.sp
            = c.sp
    BY <1>1, <2>1, RotateLeftKeeps DEF v, out, a
  <2>5. d.reg[RegA] = v /\ d.flag.carry = out
    BY <1>1, <2>4 DEF Flags
  <2>6. /\ e.reg = [d.reg EXCEPT ![RegA] = back] /\ e.sp = d.sp
        /\ e.flag = [d.flag EXCEPT !.carry = HasBit(v, 1)]
    BY <2>1, <2>2, <2>5, RotateRightKeeps
  <2> HIDE DEF back
  <2>7. e.reg = c.reg
    BY <1>1, <2>3, <2>4, <2>6, Restored DEF a
  <2>8. e.flag = c.flag
    BY <1>1, <2>3, <2>4, <2>6 DEF Flags, cy
  <2>9. QED
    BY <2>4, <2>6, <2>7, <2>8 DEF Undoes, Same, d, e
<1>3. Undoes(c, RAR, RAL, arg, input)
  <2> DEFINE d == Execute(c, RAR, arg, input)
             e == Execute(d, RAL, arg, input)
             v == (a \div 2) + 128 * AsBit(cy)
             out == HasBit(a, 1)
             back == ((2 * v) % 256) + AsBit(out)
  <2>1. d \in Machine /\ d = RotateRight(c, cy) /\ e = RotateLeft(d, d.flag.carry)
    BY <1>0, TwoArms DEF Arms
  <2>2. out \in BOOLEAN /\ HasBit(v, 128) \in BOOLEAN
    BY DEF HasBit
  <2>3. back = a /\ HasBit(v, 128) = cy
    BY <1>1, RightThenLeft
  <2> HIDE DEF d, e, v, out, a, cy
  <2>4. d.reg = [c.reg EXCEPT ![RegA] = v] /\ d.flag = [c.flag EXCEPT !.carry = out] /\ d.sp
            = c.sp
    BY <1>1, <2>1, RotateRightKeeps DEF v, out, a
  <2>5. d.reg[RegA] = v /\ d.flag.carry = out
    BY <1>1, <2>4 DEF Flags
  <2>6. /\ e.reg = [d.reg EXCEPT ![RegA] = back] /\ e.sp = d.sp
        /\ e.flag = [d.flag EXCEPT !.carry = HasBit(v, 128)]
    BY <2>1, <2>2, <2>5, RotateLeftKeeps
  <2> HIDE DEF back
  <2>7. e.reg = c.reg
    BY <1>1, <2>3, <2>4, <2>6, Restored DEF a
  <2>8. e.flag = c.flag
    BY <1>1, <2>3, <2>4, <2>6 DEF Flags, cy
  <2>9. QED
    BY <2>4, <2>6, <2>7, <2>8 DEF Undoes, Same, d, e
<1>4. QED
  BY <1>2, <1>3

LEMMA StackExchangeUndoes ==
  ASSUME NEW c \in Machine, NEW arg \in Byte \X Byte, NEW input \in Byte
  PROVE  Undoes(c, XTHL, XTHL, arg, input)
<1> DEFINE d == Execute(c, XTHL, arg, input)
           e == Execute(d, XTHL, arg, input)
           high == Peek(c, Next16(c.sp))
           low == Peek(c, c.sp)
<1>1. XTHL \in Byte
  BY ByteIs DEF XTHL
<1>2. d \in Machine /\ d = ExchangeStack(c) /\ e = ExchangeStack(d)
  BY <1>1, TwoArms DEF Arms
<1>3. c.reg \in [Register -> Byte] /\ RegH \in Register /\ RegL \in Register
  BY DEF Machine, Register, RegM, RegH, RegL
<1> HIDE DEF d, e
<1>4. /\ d.flag = c.flag /\ d.sp = c.sp
      /\ Peek(d, d.sp) = c.reg[RegL] /\ Peek(d, Next16(d.sp)) = c.reg[RegH]
      /\ d.reg = [c.reg EXCEPT ![RegH] = high, ![RegL] = low]
  BY <1>2, ExchangeStackKeeps
<1>5. /\ e.flag = d.flag /\ e.sp = d.sp
      /\ e.reg = [d.reg EXCEPT ![RegH] = Peek(d, Next16(d.sp)), ![RegL] = Peek(d, d.sp)]
  BY <1>2, ExchangeStackKeeps
<1> HIDE DEF high, low
<1>6. e.reg = c.reg
  BY <1>3, <1>4, <1>5, TwoRestored
<1>7. QED
  BY <1>4, <1>5, <1>6 DEF Undoes, Same, d, e

LEMMA StoreLoadUndoes ==
  ASSUME NEW c \in Machine, NEW arg \in Byte \X Byte, NEW input \in Byte
  PROVE  Undoes(c, SHLD, LHLD, arg, input)
<1> DEFINE word == Compose(arg[2], arg[1])
           d == Execute(c, SHLD, arg, input)
           e == Execute(d, LHLD, arg, input)
<1>1. SHLD \in Byte /\ LHLD \in Byte /\ word \in Word
  BY ByteIs, OperandType DEF SHLD, LHLD
<1>2. d \in Machine /\ d = StoreHL(c, word) /\ e = LoadHL(d, word)
  BY <1>1, TwoArms DEF Arms
<1>3. c.reg \in [Register -> Byte] /\ RegH \in Register /\ RegL \in Register
  BY DEF Machine, Register, RegM, RegH, RegL
<1> HIDE DEF d, e, word
<1>4. /\ d.reg = c.reg /\ d.flag = c.flag /\ d.sp = c.sp
      /\ Peek(d, word) = c.reg[RegL] /\ Peek(d, Next16(word)) = c.reg[RegH]
  BY <1>1, <1>2, StoreHLKeeps
<1>5. /\ e.flag = d.flag /\ e.sp = d.sp
      /\ e.reg = [d.reg EXCEPT ![RegH] = Peek(d, Next16(word)), ![RegL] = Peek(d, word)]
  BY <1>1, <1>2, LoadHLKeeps
<1>6. e.reg = c.reg
  BY <1>3, <1>4, <1>5
<1>7. QED
  BY <1>4, <1>5, <1>6 DEF Undoes, Same, d, e

\* CMC changes the carry and nothing else.
LEMMA CarryComplemented ==
  ASSUME NEW c \in Machine, NEW arg \in Byte \X Byte, NEW input \in Byte
  PROVE  LET d == Execute(c, CMC, arg, input)
         IN  /\ d.reg = c.reg /\ d.sp = c.sp
             /\ \E b \in BOOLEAN : b # c.flag.carry /\ d.flag = [c.flag EXCEPT !.carry = b]
<1> DEFINE d == Execute(c, CMC, arg, input)
<1>1. CMC \in Byte
  BY ByteIs DEF CMC
<1>2. Arms(c, CMC, arg, input)
  BY <1>1, OneArm
<1>3. PICK b \in BOOLEAN : b # c.flag.carry /\ d = [c EXCEPT !.flag.carry = b]
  BY <1>2 DEF Arms, Machine, Flags
<1> HIDE DEF d
<1>4. d.reg = c.reg /\ d.sp = c.sp /\ d.flag = [c.flag EXCEPT !.carry = b]
  BY <1>3 DEF Machine
<1>5. QED
  BY <1>3, <1>4 DEF d

LEMMA ComplementsUndo ==
  ASSUME NEW c \in Machine, NEW arg \in Byte \X Byte, NEW input \in Byte
  PROVE  Undoes(c, CMA, CMA, arg, input) /\ Undoes(c, CMC, CMC, arg, input)
<1>0. CMA \in Byte /\ CMC \in Byte
  BY ByteIs DEF CMA, CMC
<1>1. Undoes(c, CMA, CMA, arg, input)
  <2> DEFINE a == c.reg[RegA]
             v == Complement(a)
             d == Execute(c, CMA, arg, input)
             e == Execute(d, CMA, arg, input)
  <2>1. d \in Machine /\ d = SetA(c, v) /\ e = SetA(d, Complement(d.reg[RegA]))
    BY <1>0, TwoArms DEF Arms
  <2>2. /\ c.reg \in [Register -> Byte] /\ RegA \in Register /\ a \in Byte
    BY DEF Machine, Register, RegM, RegA
  <2>3. v \in Byte /\ Complement(v) = a
    BY <2>2, ByteIs DEF Complement
  <2> HIDE DEF d, e, v, a
  <2>4. d.flag = c.flag /\ d.sp = c.sp
    BY <2>1, <2>3, SetAKeeps
  <2>5. d.reg = [c.reg EXCEPT ![RegA] = v]
    BY <2>1, SetARegisters
  <2>6. e = SetA(d, a)
    BY <2>1, <2>2, <2>3, <2>5
  <2>7. e.flag = d.flag /\ e.sp = d.sp
    BY <2>1, <2>2, <2>6, SetAKeeps
  <2>8. e.reg = [d.reg EXCEPT ![RegA] = a]
    BY <2>1, <2>6, SetARegisters
  <2>9. e.reg = c.reg
    BY <2>2, <2>5, <2>8, Restored DEF a
  <2>10. QED
    BY <2>4, <2>7, <2>9 DEF Undoes, Same, d, e
<1>2. Undoes(c, CMC, CMC, arg, input)
  <2> DEFINE d == Execute(c, CMC, arg, input)
             e == Execute(d, CMC, arg, input)
  <2>1. /\ d.reg = c.reg /\ d.sp = c.sp /\ d \in Machine
        /\ \E b \in BOOLEAN : b # c.flag.carry /\ d.flag = [c.flag EXCEPT !.carry = b]
    <3>1. d \in Machine
      BY <1>0, TwoArms
    <3>2. QED
      BY <3>1, CarryComplemented, Zenon
  <2> HIDE DEF d
  <2>2. /\ e.reg = d.reg /\ e.sp = d.sp
        /\ \E b \in BOOLEAN : b # d.flag.carry /\ e.flag = [d.flag EXCEPT !.carry = b]
    <3>1. d \in Machine
      BY <2>1
    <3>2. QED
      BY <3>1, CarryComplemented, Zenon
  <2> HIDE DEF e
  <2>3. PICK b1 \in BOOLEAN : b1 # c.flag.carry /\ d.flag = [c.flag EXCEPT !.carry = b1]
    BY <2>1
  <2>4. PICK b2 \in BOOLEAN : b2 # d.flag.carry /\ e.flag = [d.flag EXCEPT !.carry = b2]
    BY <2>2
  <2>5. c.flag \in Flags
    BY DEF Machine
  <2>6. d.flag.carry = b1 /\ b2 = c.flag.carry
    BY <2>3, <2>4, <2>5 DEF Flags
  <2>7. e.flag = c.flag
    BY <2>3, <2>4, <2>5, <2>6 DEF Flags
  <2>8. QED
    BY <2>1, <2>2, <2>7 DEF Undoes, Same, d, e
<1>3. QED
  BY <1>1, <1>2

\* A pair that is set, then set back to what it was.
LEMMA PairParts ==
  ASSUME NEW c \in Machine, NEW p \in 0 .. 2
  PROVE  /\ High(Pair(c, p)) = c.reg[2 * p] /\ Low(Pair(c, p)) = c.reg[2 * p + 1]
         /\ 2 * p \in Register /\ 2 * p + 1 \in Register
<1>1. /\ p # 3 /\ 2 * p \in Register /\ 2 * p + 1 \in Register
  BY DEF Register, RegM
<1>2. c.reg[2 * p] \in Byte /\ c.reg[2 * p + 1] \in Byte
  BY <1>1 DEF Machine
<1>3. Pair(c, p) = Compose(c.reg[2 * p], c.reg[2 * p + 1])
  BY <1>1 DEF Pair, PairSP
<1>4. QED
  BY <1>1, <1>2, <1>3, Composed

LEMMA SetBack ==
  ASSUME NEW c \in Machine, NEW d \in Machine, NEW p \in 0 .. 3, NEW v \in Word,
         d = SetPair(c, p, v)
  PROVE  Same(c, SetPair(d, p, Pair(c, p)))
<1> DEFINE w == Pair(c, p)
           e == SetPair(d, p, w)
<1>1. w \in Word
  BY PairType
<1>2. d.flag = c.flag
  BY SetPairKeeps
<1> HIDE DEF w, e
<1>3. e.flag = d.flag
  BY <1>1, SetPairKeeps DEF e
<1>4. CASE p = 3
  <2>1. d.reg = c.reg
    BY <1>4, SetPairRegisters
  <2>2. e.reg = d.reg /\ e.sp = w
    BY <1>1, <1>4, SetPairRegisters DEF e
  <2>3. w = c.sp
    BY <1>4 DEF w, Pair, PairSP
  <2>4. QED
    BY <1>2, <1>3, <2>1, <2>2, <2>3 DEF Same, e, w
<1>5. CASE p # 3
  <2>1. p \in 0 .. 2
    BY <1>5
  <2>2. d.reg = [c.reg EXCEPT ![2 * p] = High(v), ![2 * p + 1] = Low(v)] /\ d.sp = c.sp
    BY <1>5, SetPairRegisters
  <2>3. e.reg = [d.reg EXCEPT ![2 * p] = High(w), ![2 * p + 1] = Low(w)] /\ e.sp = d.sp
    BY <1>1, <1>5, SetPairRegisters DEF e
  <2>4. /\ High(w) = c.reg[2 * p] /\ Low(w) = c.reg[2 * p + 1]
        /\ 2 * p \in Register /\ 2 * p + 1 \in Register
    BY <2>1, PairParts DEF w
  <2>5. c.reg \in [Register -> Byte]
    BY DEF Machine
  <2>6. e.reg = c.reg
    BY <2>2, <2>3, <2>4, <2>5, TwoRestored
  <2>7. QED
    BY <1>2, <1>3, <2>2, <2>3, <2>6 DEF Same, e, w
<1>6. QED
  BY <1>4, <1>5

LEMMA CountingUndoes ==
  ASSUME NEW c \in Machine, NEW k \in INX, NEW arg \in Byte \X Byte, NEW input \in Byte
  PROVE  Undoes(c, k, k + 8, arg, input)
<1> DEFINE p == PairOf(k)
           w == Pair(c, p)
           d == Execute(c, k, arg, input)
           e == Execute(d, k + 8, arg, input)
<1>1. /\ k \in Byte /\ k + 8 \in Byte /\ k + 8 \in DCX /\ PairOf(k + 8) = p /\ p \in 0 .. 3
  BY ByteIs DEF INX, DCX, Digits, Even, Odd, PairOf, Y
<1>2. w \in Word /\ Next16(w) \in Word /\ Previous16(Next16(w)) = w
  BY <1>1, PairType, Counting
<1>3. d \in Machine /\ d = SetPair(c, p, Next16(w)) /\ e = SetPair(d, p, Previous16(Pair(d, p)))
  BY <1>1, TwoArms DEF Arms
<1> HIDE DEF d, e, w, p
<1>4. Pair(d, p) = Next16(w)
  BY <1>1, <1>2, <1>3, SetPairKeeps
<1>5. Same(c, e)
  BY <1>1, <1>2, <1>3, <1>4, SetBack DEF w
<1>6. QED
  BY <1>5 DEF Undoes, d, e

LEMMA PushPopUndoes ==
  ASSUME NEW c \in Machine, NEW k \in PUSH, NEW arg \in Byte \X Byte, NEW input \in Byte
  PROVE  Undoes(c, k, k - 4, arg, input)
<1> DEFINE p == PairOf(k)
           w == IF p = 3 THEN Compose(c.reg[RegA], FlagsByte(c.flag)) ELSE Pair(c, p)
           d == Execute(c, k, arg, input)
           e == Execute(d, k - 4, arg, input)
<1>1. /\ k \in Byte /\ k - 4 \in Byte /\ k - 4 \in POP /\ PairOf(k - 4) = p /\ p \in 0 .. 3
  BY ByteIs DEF PUSH, POP, Digits, Even, PairOf, Y
<1>2. d \in Machine /\ d = Pushed(c, p) /\ e = PoppedTo(d, p)
  BY <1>1, TwoArms DEF Arms
<1> HIDE DEF d, e, p
<1>3. /\ d.reg = c.reg /\ d.flag = c.flag /\ d.sp = Previous16(Previous16(c.sp))
      /\ PopWord(d) = w
  BY <1>1, <1>2, PushedKeeps
<1>4. Next16(Next16(d.sp)) = c.sp
  BY <1>3, Unwound DEF Machine
<1>5. CASE p = 3
  <2>1. /\ e.reg = [d.reg EXCEPT ![RegA] = High(PopWord(d))]
        /\ e.flag = FlagsOf(Low(PopWord(d))) /\ e.sp = Next16(Next16(d.sp))
    BY <1>1, <1>2, <1>5, PoppedToKeeps
  <2>2. /\ c.reg[RegA] \in Byte /\ FlagsByte(c.flag) \in Byte
        /\ FlagsOf(FlagsByte(c.flag)) = c.flag
    BY FlagsByteIs, HLRegisters DEF Machine
  <2>3. High(w) = c.reg[RegA] /\ Low(w) = FlagsByte(c.flag)
    BY <1>5, <2>2, Composed
  <2>4. c.reg = [c.reg EXCEPT ![RegA] = c.reg[RegA]]
    BY DEF Machine
  <2> HIDE DEF w
  <2>5. e.reg = c.reg /\ e.flag = c.flag
    BY <1>3, <2>1, <2>2, <2>3, <2>4
  <2>6. QED
    BY <1>4, <2>1, <2>5 DEF Undoes, Same, d, e
<1>6. CASE p # 3
  <2> DEFINE u == Popped(d)
  <2>1. /\ w = Pair(c, p) /\ w \in Word /\ p \in 0 .. 2
    BY <1>1, <1>6, PairType
  <2> HIDE DEF w
  <2>2. u \in Machine /\ u.reg = d.reg /\ u.flag = d.flag /\ u.sp = Next16(Next16(d.sp))
    BY <1>2, PoppedKeeps DEF Kept
  <2>3. e = SetPair(u, p, w)
    BY <1>1, <1>2, <1>3, <1>6, PoppedToKeeps
  <2> HIDE DEF u
  <2>4. e.flag = u.flag
    BY <1>1, <2>1, <2>2, <2>3, SetPairKeeps
  <2>5. e.reg = [u.reg EXCEPT ![2 * p] = High(w), ![2 * p + 1] = Low(w)] /\ e.sp = u.sp
    BY <1>1, <1>6, <2>1, <2>2, <2>3, SetPairRegisters
  <2>6. High(w) = c.reg[2 * p] /\ Low(w) = c.reg[2 * p + 1]
    BY <2>1, PairParts
  <2>7. e.reg = c.reg
    <3>1. c.reg \in [Register -> Byte]
      BY DEF Machine
    <3>2. QED
      BY <1>3, <2>2, <2>5, <2>6, <3>1
  <2>8. QED
    BY <1>3, <1>4, <2>2, <2>4, <2>5, <2>7 DEF Undoes, Same, d, e
<1>7. QED
  BY <1>5, <1>6

LEMMA ExchangeUndoes ==
  ASSUME NEW c \in Machine, NEW arg \in Byte \X Byte, NEW input \in Byte
  PROVE  Undoes(c, XCHG, XCHG, arg, input)
<1> DEFINE Swapped(reg) == [reg EXCEPT ![4] = reg[2], ![5] = reg[3], ![2] = reg[4], ![3]
        = reg[5]]
<1>1. ASSUME NEW b \in Machine, NEW d,
             d = SetPair(SetPair(b, 2, Pair(b, 1)), 1, Pair(b, 2))
      PROVE  d.flag = b.flag /\ d.sp = b.sp /\ d.reg = Swapped(b.reg)
  <2> DEFINE half == SetPair(b, 2, Pair(b, 1))
             de == Pair(b, 1)
             hl == Pair(b, 2)
  <2>1. /\ de \in Word /\ hl \in Word
        /\ High(de) = b.reg[2] /\ Low(de) = b.reg[3] /\ High(hl) = b.reg[4] /\ Low(hl)
               = b.reg[5]
    <3>1. 1 \in 0 .. 2 /\ 2 \in 0 .. 2 /\ 2 * 1 = 2 /\ 2 * 2 = 4
      OBVIOUS
    <3>2. High(de) = b.reg[2 * 1] /\ Low(de) = b.reg[2 * 1 + 1]
      BY <3>1, PairParts
    <3>3. High(hl) = b.reg[2 * 2] /\ Low(hl) = b.reg[2 * 2 + 1]
      BY <3>1, PairParts
    <3>4. QED
      BY <3>2, <3>3, PairType
  <2> HIDE DEF de, hl
  <2>2. half = SetPair(b, 2, de)
    BY DEF de
  <2> HIDE DEF half
  <2>3. half \in Machine /\ half.flag = b.flag
    <3>1. 2 \in 0 .. 3
      OBVIOUS
    <3>2. Kept(b, half) /\ half.flag = b.flag
      BY <2>1, <2>2, <3>1, SetPairKeeps
    <3>3. QED
      BY <3>2 DEF Kept
  <2>4. /\ half.reg = [b.reg EXCEPT ![2 * 2] = High(de), ![2 * 2 + 1] = Low(de)]
        /\ half.sp = b.sp
    BY <2>1, <2>2, SetPairRegisters
  <2>5. d = SetPair(half, 1, hl)
    BY <1>1 DEF half, hl
  <2>6. d.flag = half.flag
    BY <2>1, <2>3, <2>5, SetPairKeeps
  <2>7. /\ d.reg = [half.reg EXCEPT ![2 * 1] = High(hl), ![2 * 1 + 1] = Low(hl)]
        /\ d.sp = half.sp
    BY <2>1, <2>3, <2>5, SetPairRegisters
  <2>8. QED
    BY <2>1, <2>3, <2>4, <2>6, <2>7
<1> HIDE DEF Swapped
<1> DEFINE d == Execute(c, XCHG, arg, input)
           e == Execute(d, XCHG, arg, input)
<1>2. XCHG \in Byte
  BY ByteIs DEF XCHG
<1>3. /\ d \in Machine /\ d = SetPair(SetPair(c, 2, Pair(c, 1)), 1, Pair(c, 2))
      /\ e = SetPair(SetPair(d, 2, Pair(d, 1)), 1, Pair(d, 2))
  BY <1>2, TwoArms DEF Arms
<1> HIDE DEF d, e
<1>4. d.flag = c.flag /\ d.sp = c.sp /\ d.reg = Swapped(c.reg)
  BY <1>1, <1>3
<1>5. e.flag = d.flag /\ e.sp = d.sp /\ e.reg = Swapped(d.reg)
  BY <1>1, <1>3
<1>6. e.reg = c.reg
  <2>1. c.reg \in [Register -> Byte]
    BY DEF Machine
  <2>2. QED
    BY <1>4, <1>5, <2>1 DEF Swapped, Register, RegM
<1>7. QED
  BY <1>4, <1>5, <1>6 DEF Undoes, Same, d, e

\* The inverses undo, from whatever machine the program has reached: any registers and
\* flags, and SP or HL also where a word wraps around the end of memory
\* (cpu.go:98-122, 174-201, execute.go:97-112, 141-150, 176-217).
THEOREM InversesAreInverse == Spec => []InversesUndo
<1>1. InstructionInv => InversesUndo
  <2> DEFINE arg == <<255, 255>>
  <2> SUFFICES ASSUME InstructionInv, NEW pair \in Inverses
               PROVE  Undoes(m, pair[1], pair[2], arg, 0)
    BY DEF InversesUndo, Undoes, Same
  <2>1. m \in Machine /\ arg \in Byte \X Byte /\ 0 \in Byte
    BY ByteIs DEF InstructionInv
  <2> HIDE DEF arg
  <2>2. CASE pair = <<RAL, RAR>> \/ pair = <<RAR, RAL>>
    BY <2>1, <2>2, RotationsUndo
  <2>3. CASE pair = <<XCHG, XCHG>>
    BY <2>1, <2>3, ExchangeUndoes
  <2>4. CASE pair = <<XTHL, XTHL>>
    BY <2>1, <2>4, StackExchangeUndoes
  <2>5. CASE pair = <<CMA, CMA>> \/ pair = <<CMC, CMC>>
    BY <2>1, <2>5, ComplementsUndo
  <2>6. CASE pair = <<SHLD, LHLD>>
    BY <2>1, <2>6, StoreLoadUndoes
  <2>7. ASSUME NEW k \in INX, pair = <<k, k + 8>>
        PROVE  Undoes(m, pair[1], pair[2], arg, 0)
    BY <2>1, <2>7, CountingUndoes
  <2>8. ASSUME NEW k \in PUSH, pair = <<k, k - 4>>
        PROVE  Undoes(m, pair[1], pair[2], arg, 0)
    BY <2>1, <2>8, PushPopUndoes
  <2>9. QED
    BY <2>2, <2>3, <2>4, <2>5, <2>6, <2>7, <2>8 DEF Inverses
<1>2. QED
  BY <1>1, InstructionInvariant, PTL

---------------------------------------------------------------------------
(* The decoder's cycles and states.                                        *)

LEMMA CountType ==
  ASSUME NEW s \in Seq(Cycle), NEW y
  PROVE  /\ IsFiniteSet({i \in DOMAIN s : s[i] = y})
         /\ Count(s, y) \in Nat
<1> DEFINE S == {i \in DOMAIN s : s[i] = y}
<1>1. Len(s) \in Nat /\ DOMAIN s = 1 .. Len(s)
  OBVIOUS
<1>2. IsFiniteSet(1 .. Len(s))
  BY <1>1, FS_Interval
<1>3. S \in SUBSET (1 .. Len(s))
  BY <1>1
<1>4. IsFiniteSet(S)
  BY <1>2, <1>3, FS_Subset
<1>5. Cardinality(S) \in Nat
  BY <1>4, FS_CardinalityType
<1>6. QED
  BY <1>4, <1>5 DEF Count

LEMMA CountAppend ==
  ASSUME NEW s \in Seq(Cycle), NEW x \in Cycle, NEW y
  PROVE  /\ x = y => Count(Append(s, x), y) = Count(s, y) + 1
         /\ x # y => Count(Append(s, x), y) = Count(s, y)
<1> DEFINE S == {i \in DOMAIN s : s[i] = y}
           t == Append(s, x)
           T == {i \in DOMAIN t : t[i] = y}
           n == Len(s)
<1>1. /\ n \in Nat /\ DOMAIN s = 1 .. n /\ DOMAIN t = 1 .. n + 1
      /\ t[n + 1] = x /\ \A i \in 1 .. n : t[i] = s[i]
  OBVIOUS
<1>2. IsFiniteSet(S) /\ n + 1 \notin S
  <2>1. IsFiniteSet(S)
    BY CountType
  <2>2. QED
    BY <1>1, <2>1
<1> HIDE DEF t, n
<1>3. x # y => T = S
  BY <1>1
<1>4. x = y => T = S \cup {n + 1}
  BY <1>1
<1> HIDE DEF S, T
<1>5. x = y => Cardinality(T) = Cardinality(S) + 1
  BY <1>2, <1>4, FS_AddElement
<1>6. Count(s, y) = Cardinality(S) /\ Count(t, y) = Cardinality(T)
  BY DEF Count, S, T
<1>7. QED
  BY <1>3, <1>5, <1>6 DEF t

\* The sequences of cycles, built as the machine builds them.
Fetch1 == <<"M1">>
Fetch2 == Append(Fetch1, "MR")
Fetch3 == Append(Fetch2, "MR")

LEMMA Tuples ==
  ASSUME NEW S, NEW a \in S, NEW b \in S, NEW c \in S, NEW d \in S
  PROVE  /\ <<a>> = Append(<<>>, a)
         /\ <<a, b>> = Append(<<a>>, b)
         /\ <<a, b, c>> = Append(<<a, b>>, c)
         /\ <<a, b, c, d>> = Append(<<a, b, c>>, d)
<1> DEFINE s0 == <<>>
           s1 == <<a>>
           s2 == <<a, b>>
           s3 == <<a, b, c>>
           s4 == <<a, b, c, d>>
<1>1. /\ s0 \in Seq(S) /\ Len(s0) = 0
      /\ s1 \in Seq(S) /\ Len(s1) = 1 /\ s1[1] = a
      /\ s2 \in Seq(S) /\ Len(s2) = 2 /\ s2[1] = a /\ s2[2] = b
      /\ s3 \in Seq(S) /\ Len(s3) = 3 /\ s3[1] = a /\ s3[2] = b /\ s3[3] = c
      /\ s4 \in Seq(S) /\ Len(s4) = 4 /\ s4[1] = a /\ s4[2] = b /\ s4[3] = c /\ s4[4] = d
  OBVIOUS
<1> HIDE DEF s0, s1, s2, s3, s4
<1>2. ASSUME NEW s \in Seq(S), NEW t \in Seq(S), NEW x \in S,
             Len(t) = Len(s) + 1, t[Len(t)] = x, \A i \in 1 .. Len(s) : t[i] = s[i]
      PROVE  t = Append(s, x)
  <2>1. Append(s, x) \in Seq(S) /\ Len(Append(s, x)) = Len(t)
    BY <1>2
  <2>2. \A i \in 1 .. Len(t) : t[i] = Append(s, x)[i]
    BY <1>2
  <2>3. QED
    BY <2>1, <2>2, SeqEqual
<1>3. s1 = Append(s0, a)
  BY <1>1, <1>2
<1>4. s2 = Append(s1, b)
  <2>1. \A i \in 1 .. 1 : s2[i] = s1[i]
    BY <1>1
  <2>2. \A i \in 1 .. Len(s1) : s2[i] = s1[i]
    BY <1>1, <2>1
  <2>3. Len(s2) = Len(s1) + 1 /\ s2[Len(s2)] = b
    BY <1>1
  <2>4. QED
    BY <1>1, <1>2, <2>2, <2>3
<1>5. s3 = Append(s2, c)
  <2>1. \A i \in 1 .. 2 : s3[i] = s2[i]
    BY <1>1
  <2>2. \A i \in 1 .. Len(s2) : s3[i] = s2[i]
    BY <1>1, <2>1
  <2>3. Len(s3) = Len(s2) + 1 /\ s3[Len(s3)] = c
    BY <1>1
  <2>4. QED
    BY <1>1, <1>2, <2>2, <2>3
<1>6. s4 = Append(s3, d)
  <2>1. \A i \in 1 .. 3 : s4[i] = s3[i]
    BY <1>1
  <2>2. \A i \in 1 .. Len(s3) : s4[i] = s3[i]
    BY <1>1, <2>1
  <2>3. Len(s4) = Len(s3) + 1 /\ s4[Len(s4)] = d
    BY <1>1
  <2>4. QED
    BY <1>1, <1>2, <2>2, <2>3
<1>7. QED
  BY <1>3, <1>4, <1>5, <1>6 DEF s0, s1, s2, s3, s4

LEMMA ConcatAppend ==
  ASSUME NEW S, NEW s \in Seq(S), NEW t \in Seq(S), NEW x \in S
  PROVE  s \o Append(t, x) = Append(s \o t, x)
OBVIOUS

LEMMA ConcatTuples ==
  ASSUME NEW S, NEW s \in Seq(S), NEW a \in S, NEW b \in S, NEW c \in S, NEW d \in S
  PROVE  /\ s \o <<>> = s
         /\ s \o <<a>> = Append(s, a)
         /\ s \o <<a, b>> = Append(Append(s, a), b)
         /\ s \o <<a, b, c>> = Append(Append(Append(s, a), b), c)
         /\ s \o <<a, b, c, d>> = Append(Append(Append(Append(s, a), b), c), d)
<1> DEFINE s0 == <<>>
           s1 == <<a>>
           s2 == <<a, b>>
           s3 == <<a, b, c>>
           s4 == <<a, b, c, d>>
<1>1. s0 \in Seq(S) /\ s1 \in Seq(S) /\ s2 \in Seq(S) /\ s3 \in Seq(S)
  OBVIOUS
<1>2. s1 = Append(s0, a) /\ s2 = Append(s1, b) /\ s3 = Append(s2, c) /\ s4 = Append(s3, d)
  BY Tuples
<1>3. s \o s0 = s
  BY ConcatEmptySeq
<1> HIDE DEF s0, s1, s2, s3, s4
<1>4. s \o s1 = Append(s, a)
  BY <1>1, <1>2, <1>3, ConcatAppend
<1>5. s \o s2 = Append(Append(s, a), b)
  BY <1>1, <1>2, <1>4, ConcatAppend
<1>6. s \o s3 = Append(Append(Append(s, a), b), c)
  <2>1. s \o Append(s2, c) = Append(s \o s2, c)
    BY <1>1, ConcatAppend
  <2>2. QED
    BY <1>2, <1>5, <2>1
<1>7. s \o s4 = Append(Append(Append(Append(s, a), b), c), d)
  <2>1. s \o Append(s3, d) = Append(s \o s3, d)
    BY <1>1, ConcatAppend
  <2>2. QED
    BY <1>2, <1>6, <2>1
<1>8. QED
  BY <1>3, <1>4, <1>5, <1>6, <1>7 DEF s0, s1, s2, s3, s4

\* What the decoder declares, opcode by opcode.
LEMMA Declared ==
  ASSUME NEW k \in Byte, k \notin Unassigned
  PROVE  /\ k \in MOV => Cycles(k) = IF Y(k) = RegM THEN Append(Fetch1, "MW")
                                     ELSE IF Z(k) = RegM THEN Append(Fetch1, "MR") ELSE Fetch1
         /\ k \in MVI \cup ALUImm => Cycles(k) = Fetch2
         /\ k \in LXI \cup Jcc \cup {JMP} => Cycles(k) = Fetch3
         /\ k \in PUSH \cup RST => Cycles(k) = Append(Append(Fetch1, "SW"), "SW")
         /\ k \in POP \cup Rcc \cup {RET} => Cycles(k) = Append(Append(Fetch1, "SR"), "SR")
         /\ k \in Ccc \cup {CALL} =>
              Cycles(k) = Append(Append(Append(Append(Fetch1, "SW"), "SW"), "MR"), "MR")
         /\ k \in {STA, SHLD} => Cycles(k) = Append(Fetch3, "MW")
         /\ k = LDA => Cycles(k) = Append(Fetch3, "MR")
         /\ k = LHLD => Cycles(k) = Append(Append(Fetch3, "MR"), "MR")
         /\ k = OUT => Cycles(k) = Append(Fetch2, "IOW")
         /\ k = IN_ => Cycles(k) = Append(Fetch2, "IOR")
         /\ k \in INR \cup DCR \cup INX \cup DCX \cup DAD \cup ALUReg \cup STAX \cup LDAX
                 \cup {NOP, HLT, RLC, RRC, RAL, RAR, DAA, CMA, STC, CMC, XTHL, XCHG, PCHL,
                       DI, EI, SPHL} => Cycles(k) = Fetch1
<1> DEFINE C1 == k \in MOV /\ Y(k) = RegM
           C2 == k \in MOV /\ Y(k) # RegM /\ Z(k) = RegM
           C3 == k = OUT
           C4 == k = IN_
           C5 == k \in PUSH \cup RST
           C6 == k \in Ccc \cup {CALL}
           C7 == k \in POP \cup Rcc \cup {RET}
           C8 == k \in {STA, SHLD}
           C9 == k = LDA
           C10 == k = LHLD
           C11 == k \in LXI \cup Jcc \cup {JMP}
           C12 == k \in MVI \cup ALUImm
           C13 == k \in INR \cup DCR \cup INX \cup DCX \cup DAD \cup ALUReg \cup STAX \cup LDAX
                         \cup {NOP, HLT, RLC, RRC, RAL, RAR, DAA, CMA, STC, CMC, XTHL, XCHG,
                             PCHL,
                               DI, EI, SPHL}
           C14 == k \in MOV /\ Y(k) # RegM /\ Z(k) # RegM
<1>1. /\ C1 => ~C2 /\ ~C3 /\ ~C4 /\ ~C5 /\ ~C6 /\ ~C7 /\ ~C8 /\ ~C9 /\ ~C10 /\ ~C11 /\ ~C12
      /\ C2 => ~C1 /\ ~C3 /\ ~C4 /\ ~C5 /\ ~C6 /\ ~C7 /\ ~C8 /\ ~C9 /\ ~C10 /\ ~C11 /\ ~C12
      /\ C3 => ~C1 /\ ~C2 /\ ~C4 /\ ~C5 /\ ~C6 /\ ~C7 /\ ~C8 /\ ~C9 /\ ~C10 /\ ~C11 /\ ~C12
      /\ C4 => ~C1 /\ ~C2 /\ ~C3 /\ ~C5 /\ ~C6 /\ ~C7 /\ ~C8 /\ ~C9 /\ ~C10 /\ ~C11 /\ ~C12
      /\ C5 => ~C1 /\ ~C2 /\ ~C3 /\ ~C4 /\ ~C6 /\ ~C7 /\ ~C8 /\ ~C9 /\ ~C10 /\ ~C11 /\ ~C12
      /\ C6 => ~C1 /\ ~C2 /\ ~C3 /\ ~C4 /\ ~C5 /\ ~C7 /\ ~C8 /\ ~C9 /\ ~C10 /\ ~C11 /\ ~C12
      /\ C7 => ~C1 /\ ~C2 /\ ~C3 /\ ~C4 /\ ~C5 /\ ~C6 /\ ~C8 /\ ~C9 /\ ~C10 /\ ~C11 /\ ~C12
      /\ C8 => ~C1 /\ ~C2 /\ ~C3 /\ ~C4 /\ ~C5 /\ ~C6 /\ ~C7 /\ ~C9 /\ ~C10 /\ ~C11 /\ ~C12
      /\ C9 => ~C1 /\ ~C2 /\ ~C3 /\ ~C4 /\ ~C5 /\ ~C6 /\ ~C7 /\ ~C8 /\ ~C10 /\ ~C11 /\ ~C12
      /\ C10 => ~C1 /\ ~C2 /\ ~C3 /\ ~C4 /\ ~C5 /\ ~C6 /\ ~C7 /\ ~C8 /\ ~C9 /\ ~C11 /\ ~C12
      /\ C11 => ~C1 /\ ~C2 /\ ~C3 /\ ~C4 /\ ~C5 /\ ~C6 /\ ~C7 /\ ~C8 /\ ~C9 /\ ~C10 /\ ~C12
      /\ C12 => ~C1 /\ ~C2 /\ ~C3 /\ ~C4 /\ ~C5 /\ ~C6 /\ ~C7 /\ ~C8 /\ ~C9 /\ ~C10 /\ ~C11
      /\ C13 => ~C1 /\ ~C2 /\ ~C3 /\ ~C4 /\ ~C5 /\ ~C6 /\ ~C7 /\ ~C8 /\ ~C9 /\ ~C10 /\ ~C11
             /\ ~C12
      /\ C14 => ~C1 /\ ~C2 /\ ~C3 /\ ~C4 /\ ~C5 /\ ~C6 /\ ~C7 /\ ~C8 /\ ~C9 /\ ~C10 /\ ~C11
             /\ ~C12
  BY Octal, FamilyOf
     DEF Families, Even, Odd, NOP, HLT, STAX, LDAX, RLC, RRC, RAL, RAR, SHLD, DAA, LHLD, CMA,
         STA, STC, LDA, CMC, JMP, RET, CALL, OUT, IN_, XTHL, PCHL, XCHG, DI, SPHL, EI
<1>2. OtherCycles(k) =
        CASE C1 -> <<"MW">>
          [] C2 -> <<"MR">>
          [] C3 -> <<"MR", "IOW">>
          [] C4 -> <<"MR", "IOR">>
          [] C5 -> <<"SW", "SW">>
          [] C6 -> <<"SW", "SW", "MR", "MR">>
          [] C7 -> <<"SR", "SR">>
          [] C8 -> <<"MR", "MR", "MW">>
          [] C9 -> <<"MR", "MR", "MR">>
          [] C10 -> <<"MR", "MR", "MR", "MR">>
          [] C11 -> <<"MR", "MR">>
          [] C12 -> <<"MR">>
          [] OTHER -> <<>>
  BY DEF OtherCycles
<1> HIDE DEF C1, C2, C3, C4, C5, C6, C7, C8, C9, C10, C11, C12, C13, C14
<1>3. /\ C1 => OtherCycles(k) = <<"MW">>
      /\ C2 => OtherCycles(k) = <<"MR">>
      /\ C3 => OtherCycles(k) = <<"MR", "IOW">>
      /\ C4 => OtherCycles(k) = <<"MR", "IOR">>
      /\ C5 => OtherCycles(k) = <<"SW", "SW">>
      /\ C6 => OtherCycles(k) = <<"SW", "SW", "MR", "MR">>
      /\ C7 => OtherCycles(k) = <<"SR", "SR">>
      /\ C8 => OtherCycles(k) = <<"MR", "MR", "MW">>
      /\ C9 => OtherCycles(k) = <<"MR", "MR", "MR">>
      /\ C10 => OtherCycles(k) = <<"MR", "MR", "MR", "MR">>
      /\ C11 => OtherCycles(k) = <<"MR", "MR">>
      /\ C12 => OtherCycles(k) = <<"MR">>
      /\ C13 \/ C14 => OtherCycles(k) = <<>>
  BY <1>1, <1>2
<1>4. /\ Fetch1 \in Seq(Cycle) /\ Fetch1 = <<"M1">>
      /\ "MR" \in Cycle /\ "MW" \in Cycle /\ "SR" \in Cycle /\ "SW" \in Cycle
      /\ "IOR" \in Cycle /\ "IOW" \in Cycle
  BY DEF Fetch1, Cycle
<1> DEFINE f == Fetch1
<1> HIDE DEF f
<1>5. /\ f \o <<>> = f
      /\ f \o <<"MR">> = Append(f, "MR")
      /\ f \o <<"MW">> = Append(f, "MW")
  BY <1>4, ConcatTuples DEF f
<1>6. /\ f \o <<"MR", "MR">> = Append(Append(f, "MR"), "MR")
      /\ f \o <<"SW", "SW">> = Append(Append(f, "SW"), "SW")
      /\ f \o <<"SR", "SR">> = Append(Append(f, "SR"), "SR")
      /\ f \o <<"MR", "IOW">> = Append(Append(f, "MR"), "IOW")
      /\ f \o <<"MR", "IOR">> = Append(Append(f, "MR"), "IOR")
  BY <1>4, ConcatTuples DEF f
<1>7. /\ f \o <<"MR", "MR", "MR">> = Append(Append(Append(f, "MR"), "MR"), "MR")
      /\ f \o <<"MR", "MR", "MW">> = Append(Append(Append(f, "MR"), "MR"), "MW")
  BY <1>4, ConcatTuples DEF f
<1>8. /\ f \o <<"MR", "MR", "MR", "MR">> =
           Append(Append(Append(Append(f, "MR"), "MR"), "MR"), "MR")
      /\ f \o <<"SW", "SW", "MR", "MR">> =
           Append(Append(Append(Append(f, "SW"), "SW"), "MR"), "MR")
  BY <1>4, ConcatTuples DEF f
<1>9. Cycles(k) = f \o OtherCycles(k)
  BY <1>4 DEF Cycles, f
<1>10. /\ C1 => Cycles(k) = Append(f, "MW")
       /\ C2 \/ C12 => Cycles(k) = Append(f, "MR")
       /\ C3 => Cycles(k) = Append(Append(f, "MR"), "IOW")
       /\ C4 => Cycles(k) = Append(Append(f, "MR"), "IOR")
       /\ C5 => Cycles(k) = Append(Append(f, "SW"), "SW")
       /\ C6 => Cycles(k) = Append(Append(Append(Append(f, "SW"), "SW"), "MR"), "MR")
       /\ C7 => Cycles(k) = Append(Append(f, "SR"), "SR")
       /\ C8 => Cycles(k) = Append(Append(Append(f, "MR"), "MR"), "MW")
       /\ C9 => Cycles(k) = Append(Append(Append(f, "MR"), "MR"), "MR")
       /\ C10 => Cycles(k) = Append(Append(Append(Append(f, "MR"), "MR"), "MR"), "MR")
       /\ C11 => Cycles(k) = Append(Append(f, "MR"), "MR")
       /\ C13 \/ C14 => Cycles(k) = f
  BY <1>3, <1>5, <1>6, <1>7, <1>8, <1>9, Zenon
<1>11. QED
  BY <1>10 DEF f, Fetch2, Fetch3, C1, C2, C3, C4, C5, C6, C7, C8, C9, C10, C11, C12, C13, C14

\* The cycles a stepped instruction performs.
LEMMA Performed ==
  ASSUME NEW c \in Machine, ~c.halted, NEW input \in Byte, NEW k \in Byte, k = Peek(c, c.pc),
         k \notin Unassigned
  PROVE  LET b == Step(c, input).bus
         IN  /\ k \in MOV => b = IF Y(k) = RegM THEN Append(Fetch1, "MW")
                                 ELSE IF Z(k) = RegM THEN Append(Fetch1, "MR") ELSE Fetch1
             /\ k \in ALUReg => b = IF Z(k) = RegM THEN Append(Fetch1, "MR") ELSE Fetch1
             /\ k \in INR \cup DCR =>
                  b = IF Y(k) = RegM THEN Append(Append(Fetch1, "MR"), "MW") ELSE Fetch1
             /\ k \in MVI => b = IF Y(k) = RegM THEN Append(Fetch2, "MW") ELSE Fetch2
             /\ k \in ALUImm => b = Fetch2
             /\ k \in LXI \cup Jcc \cup {JMP} => b = Fetch3
             /\ k \in Ccc \cup {CALL} =>
                  b = IF k = CALL \/ Taken(c, k) THEN Append(Append(Fetch3, "SW"), "SW")
                      ELSE Fetch3
             /\ k \in Rcc \cup {RET} =>
                  b = IF k = RET \/ Taken(c, k) THEN Append(Append(Fetch1, "SR"), "SR")
                      ELSE Fetch1
             /\ k \in PUSH \cup RST => b = Append(Append(Fetch1, "SW"), "SW")
             /\ k \in POP => b = Append(Append(Fetch1, "SR"), "SR")
             /\ k \in STAX => b = Append(Fetch1, "MW")
             /\ k \in LDAX => b = Append(Fetch1, "MR")
             /\ k = STA => b = Append(Fetch3, "MW")
             /\ k = LDA => b = Append(Fetch3, "MR")
             /\ k = SHLD => b = Append(Append(Fetch3, "MW"), "MW")
             /\ k = LHLD => b = Append(Append(Fetch3, "MR"), "MR")
             /\ k = OUT => b = Append(Fetch2, "IOW")
             /\ k = IN_ => b = Append(Fetch2, "IOR")
             /\ k = XTHL => b = Append(Append(Append(Append(Fetch1, "SR"), "SR"), "SW"), "SW")
             /\ k \in INX \cup DCX \cup DAD
                     \cup {NOP, HLT, RLC, RRC, RAL, RAR, DAA, CMA, STC, CMC, XCHG, PCHL, DI, EI,
                           SPHL} => b = Fetch1
<1> DEFINE f == Fetch(c)
           arg == OperandBytes(c)
           d == Execute(f, k, arg, input)
           word == Compose(arg[2], arg[1])
<1>1. Step(c, input) = d /\ arg \in Byte \X Byte
  BY StepIs
<1>2. /\ f \in Machine /\ f.flag = c.flag
      /\ Length(k) = 1 => f.bus = Fetch1
      /\ Length(k) = 2 => f.bus = Fetch2
      /\ Length(k) = 3 => f.bus = Fetch3
  BY FetchIs DEF Fetch1, Fetch2, Fetch3
<1> HIDE DEF f
<1>3. Calm(f, k, d) /\ Leaping(f, k, word, d)
  BY <1>1, <1>2, ExecuteCalm, ExecuteLeaping
<1>4. Taken(f, k) <=> Taken(c, k)
  BY <1>2, TakenIs
<1>5. CALL \notin Ccc /\ RET \notin Rcc /\ CALL \notin RST /\ HLT \notin Unassigned
  <2>1. CALL \in Byte /\ RET \in Byte
    BY ByteIs DEF CALL, RET
  <2>2. X(CALL) = 3 /\ Z(CALL) = 5 /\ X(RET) = 3 /\ Z(RET) = 1
    BY DEF CALL, RET, X, Z
  <2>3. QED
    BY <2>1, <2>2, FamilyOf DEF Families, HLT, Unassigned, Digits
<1> HIDE DEF d, arg, word
<1>6. /\ k \in LXI \cup Jcc \cup Ccc \cup {SHLD, LHLD, STA, LDA, JMP, CALL} => f.bus = Fetch3
      /\ k \in MVI \cup ALUImm \cup {IN_, OUT} => f.bus = Fetch2
      /\ k \in MOV \cup INR \cup DCR \cup INX \cup DCX \cup DAD \cup ALUReg \cup PUSH \cup POP
              \cup STAX \cup LDAX \cup Rcc \cup RST
              \cup {NOP, HLT, RLC, RRC, RAL, RAR, DAA, CMA, STC, CMC, XTHL, XCHG, PCHL, RET,
                    DI, EI, SPHL} => f.bus = Fetch1
  BY <1>2, LengthAre
<1> DEFINE g == f.bus
           b == d.bus
<1>7. /\ k \in MOV => b = IF Y(k) = RegM THEN Append(g, "MW")
                          ELSE IF Z(k) = RegM THEN Append(g, "MR") ELSE g
      /\ k \in ALUReg => b = IF Z(k) = RegM THEN Append(g, "MR") ELSE g
      /\ k \in INR \cup DCR => b = IF Y(k) = RegM THEN Append(Append(g, "MR"), "MW") ELSE g
      /\ k \in MVI => b = IF Y(k) = RegM THEN Append(g, "MW") ELSE g
      /\ k \in ALUImm \cup LXI \cup INX \cup DCX \cup DAD => b = g
      /\ k \in STAX \cup {STA} => b = Append(g, "MW")
      /\ k \in LDAX \cup {LDA} => b = Append(g, "MR")
      /\ k \in PUSH => b = Append(Append(g, "SW"), "SW")
      /\ k \in POP => b = Append(Append(g, "SR"), "SR")
  BY <1>3 DEF Calm
<1>8. /\ k = SHLD => b = Append(Append(g, "MW"), "MW")
      /\ k = LHLD => b = Append(Append(g, "MR"), "MR")
      /\ k = OUT => b = Append(g, "IOW")
      /\ k = IN_ => b = Append(g, "IOR")
      /\ k = XTHL => b = Append(Append(Append(Append(g, "SR"), "SR"), "SW"), "SW")
      /\ k \in {NOP, RLC, RRC, RAL, RAR, DAA, CMA, STC, CMC, XCHG, DI, EI, SPHL} => b = g
  BY <1>3 DEF Calm
<1>9. /\ k \in {HLT, JMP, PCHL} \cup Jcc => b = g
      /\ k \in Ccc /\ ~Taken(f, k) => b = g
      /\ k \in Rcc /\ ~Taken(f, k) => b = g
      /\ k \in RST \cup {CALL} \/ (k \in Ccc /\ Taken(f, k)) => b
             = Append(Append(g, "SW"), "SW")
      /\ k = RET \/ (k \in Rcc /\ Taken(f, k)) => b = Append(Append(g, "SR"), "SR")
  BY <1>3 DEF Leaping, Kept
<1> HIDE DEF g, b
<1>10. b = Step(c, input).bus /\ (f.bus = Fetch1 => g = Fetch1)
       /\ (f.bus = Fetch2 => g = Fetch2) /\ (f.bus = Fetch3 => g = Fetch3)
  BY <1>1 DEF b, g
<1>11. /\ k \in LXI \cup Jcc \cup Ccc \cup {SHLD, LHLD, STA, LDA, JMP, CALL} => g = Fetch3
       /\ k \in MVI \cup ALUImm \cup {IN_, OUT} => g = Fetch2
       /\ k \in MOV \cup INR \cup DCR \cup INX \cup DCX \cup DAD \cup ALUReg \cup PUSH \cup POP
               \cup STAX \cup LDAX \cup Rcc \cup RST
               \cup {NOP, HLT, RLC, RRC, RAL, RAR, DAA, CMA, STC, CMC, XTHL, XCHG, PCHL, RET,
                     DI, EI, SPHL} => g = Fetch1
  BY <1>6, <1>10
<1>12. /\ k \in MOV => b = IF Y(k) = RegM THEN Append(Fetch1, "MW")
                           ELSE IF Z(k) = RegM THEN Append(Fetch1, "MR") ELSE Fetch1
       /\ k \in ALUReg => b = IF Z(k) = RegM THEN Append(Fetch1, "MR") ELSE Fetch1
       /\ k \in INR \cup DCR =>
            b = IF Y(k) = RegM THEN Append(Append(Fetch1, "MR"), "MW") ELSE Fetch1
       /\ k \in MVI => b = IF Y(k) = RegM THEN Append(Fetch2, "MW") ELSE Fetch2
       /\ k \in ALUImm => b = Fetch2
       /\ k \in LXI => b = Fetch3
       /\ k \in INX \cup DCX \cup DAD => b = Fetch1
       /\ k \in PUSH => b = Append(Append(Fetch1, "SW"), "SW")
       /\ k \in POP => b = Append(Append(Fetch1, "SR"), "SR")
       /\ k \in STAX => b = Append(Fetch1, "MW")
       /\ k \in LDAX => b = Append(Fetch1, "MR")
       /\ k = STA => b = Append(Fetch3, "MW")
       /\ k = LDA => b = Append(Fetch3, "MR")
  BY <1>7, <1>11
<1>13. /\ k = SHLD => b = Append(Append(Fetch3, "MW"), "MW")
       /\ k = LHLD => b = Append(Append(Fetch3, "MR"), "MR")
       /\ k = OUT => b = Append(Fetch2, "IOW")
       /\ k = IN_ => b = Append(Fetch2, "IOR")
       /\ k = XTHL => b = Append(Append(Append(Append(Fetch1, "SR"), "SR"), "SW"), "SW")
       /\ k \in {NOP, RLC, RRC, RAL, RAR, DAA, CMA, STC, CMC, XCHG, DI, EI, SPHL} => b = Fetch1
  BY <1>8, <1>11
<1>14. /\ k \in {HLT, PCHL} => b = Fetch1
       /\ k \in {JMP} \cup Jcc => b = Fetch3
       /\ k \in Ccc \cup {CALL} =>
            b = IF k = CALL \/ Taken(c, k) THEN Append(Append(Fetch3, "SW"), "SW") ELSE Fetch3
       /\ k \in Rcc \cup {RET} =>
            b = IF k = RET \/ Taken(c, k) THEN Append(Append(Fetch1, "SR"), "SR") ELSE Fetch1
       /\ k \in RST => b = Append(Append(Fetch1, "SW"), "SW")
  BY <1>4, <1>5, <1>9, <1>11
<1>15. QED
  BY <1>10, <1>12, <1>13, <1>14

---------------------------------------------------------------------------
(* An instruction performs the cycles declared for it.                     *)

\* One more cycle.
LEMMA More ==
  ASSUME NEW s \in Seq(Cycle), NEW x \in Cycle
  PROVE  /\ Append(s, x) \in Seq(Cycle) /\ Len(Append(s, x)) = Len(s) + 1
         /\ \A y : Count(s, y) \in Nat /\ Count(Append(s, x), y) \in Nat
         /\ \A y : Count(Append(s, x), y) >= Count(s, y)
<1>1. Append(s, x) \in Seq(Cycle) /\ Len(Append(s, x)) = Len(s) + 1
  OBVIOUS
<1>2. \A y : Count(s, y) \in Nat /\ Count(Append(s, x), y) \in Nat
  BY <1>1, CountType
<1>3. ASSUME NEW y PROVE Count(Append(s, x), y) >= Count(s, y)
  <2>1. x = y => Count(Append(s, x), y) = Count(s, y) + 1
    BY CountAppend
  <2>2. x # y => Count(Append(s, x), y) = Count(s, y)
    BY CountAppend
  <2>3. QED
    BY <1>2, <2>1, <2>2
<1>4. QED
  BY <1>1, <1>2, <1>3

LEMMA MoreTwo ==
  ASSUME NEW s \in Seq(Cycle), NEW x \in Cycle, NEW z \in Cycle
  PROVE  LET t == Append(Append(s, x), z)
         IN  /\ t \in Seq(Cycle) /\ Len(t) = Len(s) + 2
             /\ \A y : Count(s, y) \in Nat /\ Count(t, y) \in Nat
             /\ \A y : Count(t, y) >= Count(s, y)
<1> DEFINE u == Append(s, x)
           t == Append(u, z)
<1>1. /\ u \in Seq(Cycle) /\ Len(u) = Len(s) + 1
      /\ \A y : Count(s, y) \in Nat /\ Count(u, y) \in Nat
      /\ \A y : Count(u, y) >= Count(s, y)
  BY More
<1> HIDE DEF u
<1>2. /\ t \in Seq(Cycle) /\ Len(t) = Len(u) + 1
      /\ \A y : Count(u, y) \in Nat /\ Count(t, y) \in Nat
      /\ \A y : Count(t, y) >= Count(u, y)
  BY <1>1, More
<1> HIDE DEF t
<1>3. ASSUME NEW y PROVE Count(t, y) >= Count(s, y)
  <2>1. /\ Count(s, y) \in Nat /\ Count(u, y) \in Nat /\ Count(t, y) \in Nat
        /\ Count(t, y) >= Count(u, y) /\ Count(u, y) >= Count(s, y)
    BY <1>1, <1>2
  <2>2. QED
    BY <2>1
<1>4. Len(s) \in Nat
  OBVIOUS
<1>5. QED
  BY <1>1, <1>2, <1>3, <1>4 DEF t, u

LEMMA MoreFour ==
  ASSUME NEW s \in Seq(Cycle), NEW x \in Cycle, NEW z \in Cycle
  PROVE  LET t == Append(Append(Append(Append(s, x), x), z), z)
         IN  /\ t \in Seq(Cycle) /\ Len(t) = Len(s) + 4
             /\ \A y : Count(t, y) >= Count(s, y)
<1> DEFINE u == Append(Append(s, x), x)
           t == Append(Append(u, z), z)
<1>1. /\ u \in Seq(Cycle) /\ Len(u) = Len(s) + 2
      /\ \A y : Count(s, y) \in Nat /\ Count(u, y) \in Nat
      /\ \A y : Count(u, y) >= Count(s, y)
  BY MoreTwo
<1> HIDE DEF u
<1>2. /\ t \in Seq(Cycle) /\ Len(t) = Len(u) + 2
      /\ \A y : Count(u, y) \in Nat /\ Count(t, y) \in Nat
      /\ \A y : Count(t, y) >= Count(u, y)
  BY <1>1, MoreTwo
<1> HIDE DEF t
<1>3. ASSUME NEW y PROVE Count(t, y) >= Count(s, y)
  <2>1. /\ Count(s, y) \in Nat /\ Count(u, y) \in Nat /\ Count(t, y) \in Nat
        /\ Count(t, y) >= Count(u, y) /\ Count(u, y) >= Count(s, y)
    BY <1>1, <1>2
  <2>2. QED
    BY <2>1
<1>4. Len(s) \in Nat
  OBVIOUS
<1>5. QED
  BY <1>1, <1>2, <1>3, <1>4 DEF t, u

LEMMA BusFacts ==
  /\ Fetch1 \in Seq(Cycle) /\ Len(Fetch1) = 1
  /\ Fetch2 \in Seq(Cycle) /\ Len(Fetch2) = 2
  /\ Fetch3 \in Seq(Cycle) /\ Len(Fetch3) = 3
<1>1. "MR" \in Cycle /\ "M1" \in Cycle
  BY DEF Cycle
<1>2. Fetch1 \in Seq(Cycle) /\ Len(Fetch1) = 1
  BY <1>1 DEF Fetch1
<1>3. Fetch2 \in Seq(Cycle) /\ Len(Fetch2) = 2
  <2>1. Fetch2 \in Seq(Cycle) /\ Len(Fetch2) = Len(Fetch1) + 1
    BY <1>1, <1>2, More DEF Fetch2
  <2>2. QED
    BY <1>2, <2>1
<1>4. Fetch3 \in Seq(Cycle) /\ Len(Fetch3) = 3
  <2>1. Fetch3 \in Seq(Cycle) /\ Len(Fetch3) = Len(Fetch2) + 1
    BY <1>1, <1>3, More DEF Fetch3
  <2>2. QED
    BY <1>3, <2>1
<1>5. QED
  BY <1>2, <1>3, <1>4

\* The order of two pairs of cycles does not change how many there are of each.
LEMMA Reordered ==
  ASSUME NEW s \in Seq(Cycle), NEW x \in Cycle, NEW z \in Cycle, NEW y
  PROVE  Count(Append(Append(Append(Append(s, x), x), z), z), y)
           = Count(Append(Append(Append(Append(s, z), z), x), x), y)
<1> DEFINE n(u) == IF u = y THEN 1 ELSE 0
<1>1. ASSUME NEW t \in Seq(Cycle), NEW u \in Cycle
      PROVE  /\ Append(Append(t, u), u) \in Seq(Cycle) /\ Count(t, y) \in Nat
             /\ Count(Append(Append(t, u), u), y) = Count(t, y) + 2 * n(u)
  <2>1. Append(t, u) \in Seq(Cycle) /\ Append(Append(t, u), u) \in Seq(Cycle)
    OBVIOUS
  <2>2. Count(t, y) \in Nat
    BY CountType
  <2>3. CASE u = y
    <3>1. Count(Append(t, u), y) = Count(t, y) + 1
      BY <2>3, CountAppend
    <3>2. Count(Append(Append(t, u), u), y) = Count(Append(t, u), y) + 1
      <4> DEFINE v == Append(t, u)
      <4>1. v \in Seq(Cycle)
        BY <2>1
      <4> HIDE DEF v
      <4>2. Count(Append(v, u), y) = Count(v, y) + 1
        BY <2>3, <4>1, CountAppend
      <4>3. QED
        BY <4>2 DEF v
    <3>3. QED
      BY <2>1, <2>2, <2>3, <3>1, <3>2
  <2>4. CASE u # y
    <3>1. Count(Append(t, u), y) = Count(t, y)
      BY <2>4, CountAppend
    <3>2. Count(Append(Append(t, u), u), y) = Count(Append(t, u), y)
      BY <2>1, <2>4, CountAppend
    <3>3. QED
      BY <2>1, <2>2, <2>4, <3>1, <3>2
  <2>5. QED
    BY <2>3, <2>4
<1>2. n(x) \in {0, 1} /\ n(z) \in {0, 1}
  OBVIOUS
<1> HIDE DEF n
<1> DEFINE sx == Append(Append(s, x), x)
           sz == Append(Append(s, z), z)
<1>3. /\ sx \in Seq(Cycle) /\ sz \in Seq(Cycle) /\ Count(s, y) \in Nat
      /\ Count(sx, y) = Count(s, y) + 2 * n(x) /\ Count(sz, y) = Count(s, y) + 2 * n(z)
  BY <1>1
<1> HIDE DEF sx, sz
<1>4. /\ Count(Append(Append(sx, z), z), y) = Count(sx, y) + 2 * n(z)
      /\ Count(Append(Append(sz, x), x), y) = Count(sz, y) + 2 * n(x)
  BY <1>1, <1>3
<1>5. QED
  BY <1>2, <1>3, <1>4 DEF sx, sz

\* What DecoderAgrees asks of an instruction k that performed the cycles b on c.
Agrees(c, k, b) ==
  /\ \A y \in Cycle :
       /\ k \notin Undeclared => Count(b, y) <= Count(Cycles(k), y)
       /\ (k \in Ccc \cup Rcc /\ ~Taken(c, k)) \/ Count(b, y) >= Count(Cycles(k), y)
  /\ StatesOf(c, k) >= 3 * Len(b) + 1

LEMMA SameAgrees ==
  ASSUME NEW c, NEW k, NEW b \in Seq(Cycle), NEW l \in Nat, Len(b) = l,
         Cycles(k) = b, StatesOf(c, k) >= 3 * l + 1
  PROVE  Agrees(c, k, b)
<1>1. \A y : Count(b, y) \in Nat
  BY CountType
<1>2. QED
  BY <1>1 DEF Agrees

LEMMA MoreAgrees ==
  ASSUME NEW c, NEW k \in Undeclared, NEW b, NEW l \in Nat, Len(b) = l,
         \A y : Count(b, y) >= Count(Cycles(k), y), StatesOf(c, k) >= 3 * l + 1
  PROVE  Agrees(c, k, b)
BY DEF Agrees

LEMMA FewerAgrees ==
  ASSUME NEW c, NEW k \in Ccc \cup Rcc, ~Taken(c, k), NEW b, NEW l \in Nat, Len(b) = l,
         \A y : Count(b, y) <= Count(Cycles(k), y), StatesOf(c, k) >= 3 * l + 1
  PROVE  Agrees(c, k, b)
BY DEF Agrees

\* The sequences of cycles that occur, their lengths, and which have more cycles.
LEMMA Buses ==
  /\ Fetch1 \in Seq(Cycle) /\ Len(Fetch1) = 1
  /\ Fetch2 \in Seq(Cycle) /\ Len(Fetch2) = 2
  /\ Fetch3 \in Seq(Cycle) /\ Len(Fetch3) = 3
  /\ Append(Fetch1, "MR") \in Seq(Cycle) /\ Len(Append(Fetch1, "MR")) = 2
  /\ Append(Fetch1, "MW") \in Seq(Cycle) /\ Len(Append(Fetch1, "MW")) = 2
  /\ Append(Fetch1, "SR") \in Seq(Cycle) /\ Len(Append(Fetch1, "SR")) = 2
  /\ Append(Fetch1, "SW") \in Seq(Cycle) /\ Len(Append(Fetch1, "SW")) = 2
  /\ Append(Fetch2, "IOR") \in Seq(Cycle) /\ Len(Append(Fetch2, "IOR")) = 3
  /\ Append(Fetch2, "IOW") \in Seq(Cycle) /\ Len(Append(Fetch2, "IOW")) = 3
  /\ Append(Fetch2, "MW") \in Seq(Cycle) /\ Len(Append(Fetch2, "MW")) = 3
  /\ Append(Fetch3, "MR") \in Seq(Cycle) /\ Len(Append(Fetch3, "MR")) = 4
  /\ Append(Fetch3, "MW") \in Seq(Cycle) /\ Len(Append(Fetch3, "MW")) = 4
  /\ Append(Fetch3, "SW") \in Seq(Cycle) /\ Len(Append(Fetch3, "SW")) = 4
  /\ Append(Append(Fetch1, "MR"), "MW") \in Seq(Cycle)
         /\ Len(Append(Append(Fetch1, "MR"), "MW")) = 3
  /\ Append(Append(Fetch1, "SR"), "SR") \in Seq(Cycle)
         /\ Len(Append(Append(Fetch1, "SR"), "SR")) = 3
  /\ Append(Append(Fetch1, "SW"), "SW") \in Seq(Cycle)
         /\ Len(Append(Append(Fetch1, "SW"), "SW")) = 3
  /\ Append(Append(Fetch3, "MR"), "MR") \in Seq(Cycle)
         /\ Len(Append(Append(Fetch3, "MR"), "MR")) = 5
  /\ Append(Append(Fetch3, "MW"), "MW") \in Seq(Cycle)
         /\ Len(Append(Append(Fetch3, "MW"), "MW")) = 5
  /\ Append(Append(Fetch3, "SW"), "SW") \in Seq(Cycle)
         /\ Len(Append(Append(Fetch3, "SW"), "SW")) = 5
  /\ Append(Append(Append(Fetch1, "SR"), "SR"), "SW") \in Seq(Cycle)
         /\ Len(Append(Append(Append(Fetch1, "SR"), "SR"), "SW")) = 4
  /\ Append(Append(Append(Append(Fetch1, "SR"), "SR"), "SW"), "SW") \in Seq(Cycle)
         /\ Len(Append(Append(Append(Append(Fetch1, "SR"), "SR"), "SW"), "SW")) = 5
  /\ \A y : Count(Append(Fetch1, "MR"), y) >= Count(Fetch1, y)
  /\ \A y : Count(Append(Append(Fetch1, "MR"), "MW"), y) >= Count(Fetch1, y)
  /\ \A y : Count(Append(Fetch2, "MW"), y) >= Count(Fetch2, y)
  /\ \A y : Count(Append(Fetch1, "MW"), y) >= Count(Fetch1, y)
  /\ \A y : Count(Append(Append(Fetch3, "MW"), "MW"), y) >= Count(Append(Fetch3, "MW"), y)
  /\ \A y : Count(Append(Append(Append(Append(Fetch1, "SR"), "SR"), "SW"), "SW"), y)
         >= Count(Fetch1, y)
  /\ \A y : Count(Append(Append(Fetch3, "SW"), "SW"), y) >= Count(Fetch3, y)
  /\ \A y : Count(Append(Append(Fetch1, "SR"), "SR"), y) >= Count(Fetch1, y)
<1>0. /\ "MR" \in Cycle /\ "MW" \in Cycle /\ "SR" \in Cycle /\ "SW" \in Cycle
      /\ "IOR" \in Cycle /\ "IOW" \in Cycle
  BY DEF Cycle
<1>1. Fetch1 \in Seq(Cycle) /\ Len(Fetch1) = 1
  BY BusFacts
<1>2. Fetch2 \in Seq(Cycle) /\ Len(Fetch2) = 2
  BY BusFacts
<1>3. Fetch3 \in Seq(Cycle) /\ Len(Fetch3) = 3
  BY BusFacts
<1>4. Append(Fetch1, "MR") \in Seq(Cycle) /\ Len(Append(Fetch1, "MR")) = 2
  <2>1. Append(Fetch1, "MR") \in Seq(Cycle) /\ Len(Append(Fetch1, "MR")) = Len(Fetch1) + 1
    BY <1>0, <1>1, More
  <2>2. QED
    BY <1>1, <2>1
<1>5. Append(Fetch1, "MW") \in Seq(Cycle) /\ Len(Append(Fetch1, "MW")) = 2
  <2>1. Append(Fetch1, "MW") \in Seq(Cycle) /\ Len(Append(Fetch1, "MW")) = Len(Fetch1) + 1
    BY <1>0, <1>1, More
  <2>2. QED
    BY <1>1, <2>1
<1>6. Append(Fetch1, "SR") \in Seq(Cycle) /\ Len(Append(Fetch1, "SR")) = 2
  <2>1. Append(Fetch1, "SR") \in Seq(Cycle) /\ Len(Append(Fetch1, "SR")) = Len(Fetch1) + 1
    BY <1>0, <1>1, More
  <2>2. QED
    BY <1>1, <2>1
<1>7. Append(Fetch1, "SW") \in Seq(Cycle) /\ Len(Append(Fetch1, "SW")) = 2
  <2>1. Append(Fetch1, "SW") \in Seq(Cycle) /\ Len(Append(Fetch1, "SW")) = Len(Fetch1) + 1
    BY <1>0, <1>1, More
  <2>2. QED
    BY <1>1, <2>1
<1>8. Append(Fetch2, "IOR") \in Seq(Cycle) /\ Len(Append(Fetch2, "IOR")) = 3
  <2>1. Append(Fetch2, "IOR") \in Seq(Cycle) /\ Len(Append(Fetch2, "IOR")) = Len(Fetch2) + 1
    BY <1>0, <1>2, More
  <2>2. QED
    BY <1>2, <2>1
<1>9. Append(Fetch2, "IOW") \in Seq(Cycle) /\ Len(Append(Fetch2, "IOW")) = 3
  <2>1. Append(Fetch2, "IOW") \in Seq(Cycle) /\ Len(Append(Fetch2, "IOW")) = Len(Fetch2) + 1
    BY <1>0, <1>2, More
  <2>2. QED
    BY <1>2, <2>1
<1>10. Append(Fetch2, "MW") \in Seq(Cycle) /\ Len(Append(Fetch2, "MW")) = 3
  <2>1. Append(Fetch2, "MW") \in Seq(Cycle) /\ Len(Append(Fetch2, "MW")) = Len(Fetch2) + 1
    BY <1>0, <1>2, More
  <2>2. QED
    BY <1>2, <2>1
<1>11. Append(Fetch3, "MR") \in Seq(Cycle) /\ Len(Append(Fetch3, "MR")) = 4
  <2>1. Append(Fetch3, "MR") \in Seq(Cycle) /\ Len(Append(Fetch3, "MR")) = Len(Fetch3) + 1
    BY <1>0, <1>3, More
  <2>2. QED
    BY <1>3, <2>1
<1>12. Append(Fetch3, "MW") \in Seq(Cycle) /\ Len(Append(Fetch3, "MW")) = 4
  <2>1. Append(Fetch3, "MW") \in Seq(Cycle) /\ Len(Append(Fetch3, "MW")) = Len(Fetch3) + 1
    BY <1>0, <1>3, More
  <2>2. QED
    BY <1>3, <2>1
<1>13. Append(Fetch3, "SW") \in Seq(Cycle) /\ Len(Append(Fetch3, "SW")) = 4
  <2>1. Append(Fetch3, "SW") \in Seq(Cycle) /\ Len(Append(Fetch3, "SW")) = Len(Fetch3) + 1
    BY <1>0, <1>3, More
  <2>2. QED
    BY <1>3, <2>1
<1>14. Append(Append(Fetch1, "MR"), "MW") \in Seq(Cycle)
           /\ Len(Append(Append(Fetch1, "MR"), "MW")) = 3
  <2>1. Append(Append(Fetch1, "MR"), "MW") \in Seq(Cycle)
            /\ Len(Append(Append(Fetch1, "MR"), "MW")) = Len(Append(Fetch1, "MR")) + 1
    BY <1>0, <1>4, More
  <2>2. QED
    BY <1>4, <2>1
<1>15. Append(Append(Fetch1, "SR"), "SR") \in Seq(Cycle)
           /\ Len(Append(Append(Fetch1, "SR"), "SR")) = 3
  <2>1. Append(Append(Fetch1, "SR"), "SR") \in Seq(Cycle)
            /\ Len(Append(Append(Fetch1, "SR"), "SR")) = Len(Append(Fetch1, "SR")) + 1
    BY <1>0, <1>6, More
  <2>2. QED
    BY <1>6, <2>1
<1>16. Append(Append(Fetch1, "SW"), "SW") \in Seq(Cycle)
           /\ Len(Append(Append(Fetch1, "SW"), "SW")) = 3
  <2>1. Append(Append(Fetch1, "SW"), "SW") \in Seq(Cycle)
            /\ Len(Append(Append(Fetch1, "SW"), "SW")) = Len(Append(Fetch1, "SW")) + 1
    BY <1>0, <1>7, More
  <2>2. QED
    BY <1>7, <2>1
<1>17. Append(Append(Fetch3, "MR"), "MR") \in Seq(Cycle)
           /\ Len(Append(Append(Fetch3, "MR"), "MR")) = 5
  <2>1. Append(Append(Fetch3, "MR"), "MR") \in Seq(Cycle)
            /\ Len(Append(Append(Fetch3, "MR"), "MR")) = Len(Append(Fetch3, "MR")) + 1
    BY <1>0, <1>11, More
  <2>2. QED
    BY <1>11, <2>1
<1>18. Append(Append(Fetch3, "MW"), "MW") \in Seq(Cycle)
           /\ Len(Append(Append(Fetch3, "MW"), "MW")) = 5
  <2>1. Append(Append(Fetch3, "MW"), "MW") \in Seq(Cycle)
            /\ Len(Append(Append(Fetch3, "MW"), "MW")) = Len(Append(Fetch3, "MW")) + 1
    BY <1>0, <1>12, More
  <2>2. QED
    BY <1>12, <2>1
<1>19. Append(Append(Fetch3, "SW"), "SW") \in Seq(Cycle)
           /\ Len(Append(Append(Fetch3, "SW"), "SW")) = 5
  <2>1. Append(Append(Fetch3, "SW"), "SW") \in Seq(Cycle)
            /\ Len(Append(Append(Fetch3, "SW"), "SW")) = Len(Append(Fetch3, "SW")) + 1
    BY <1>0, <1>13, More
  <2>2. QED
    BY <1>13, <2>1
<1>20. Append(Append(Append(Fetch1, "SR"), "SR"), "SW") \in Seq(Cycle)
           /\ Len(Append(Append(Append(Fetch1, "SR"), "SR"), "SW")) = 4
  <2>1. Append(Append(Append(Fetch1, "SR"), "SR"), "SW") \in Seq(Cycle)
            /\ Len(Append(Append(Append(Fetch1, "SR"), "SR"), "SW"))
            = Len(Append(Append(Fetch1, "SR"), "SR")) + 1
    BY <1>0, <1>15, More
  <2>2. QED
    BY <1>15, <2>1
<1>21. Append(Append(Append(Append(Fetch1, "SR"), "SR"), "SW"), "SW") \in Seq(Cycle)
           /\ Len(Append(Append(Append(Append(Fetch1, "SR"), "SR"), "SW"), "SW")) = 5
  <2>1. Append(Append(Append(Append(Fetch1, "SR"), "SR"), "SW"), "SW") \in Seq(Cycle)
            /\ Len(Append(Append(Append(Append(Fetch1, "SR"), "SR"), "SW"), "SW"))
            = Len(Append(Append(Append(Fetch1, "SR"), "SR"), "SW")) + 1
    BY <1>0, <1>20, More
  <2>2. QED
    BY <1>20, <2>1
<1>22. \A y : Count(Append(Fetch1, "MR"), y) >= Count(Fetch1, y)
  BY <1>0, <1>1, More
<1>23. \A y : Count(Append(Append(Fetch1, "MR"), "MW"), y) >= Count(Fetch1, y)
  BY <1>0, <1>1, MoreTwo
<1>24. \A y : Count(Append(Fetch2, "MW"), y) >= Count(Fetch2, y)
  BY <1>0, <1>2, More
<1>25. \A y : Count(Append(Fetch1, "MW"), y) >= Count(Fetch1, y)
  BY <1>0, <1>1, More
<1>26. \A y : Count(Append(Append(Fetch3, "MW"), "MW"), y) >= Count(Append(Fetch3, "MW"), y)
  BY <1>0, <1>12, More
<1>27. \A y : Count(Append(Append(Append(Append(Fetch1, "SR"), "SR"), "SW"), "SW"), y)
           >= Count(Fetch1, y)
  BY <1>0, <1>1, MoreFour
<1>28. \A y : Count(Append(Append(Fetch3, "SW"), "SW"), y) >= Count(Fetch3, y)
  BY <1>0, <1>3, MoreTwo
<1>29. \A y : Count(Append(Append(Fetch1, "SR"), "SR"), y) >= Count(Fetch1, y)
  BY <1>0, <1>1, MoreTwo
<1>30. QED
  BY <1>1, <1>2, <1>3, <1>4, <1>5, <1>6, <1>7, <1>8, <1>9, <1>10, <1>11, <1>12, <1>13, <1>14,
     <1>15, <1>16, <1>17, <1>18, <1>19, <1>20, <1>21, <1>22, <1>23, <1>24, <1>25, <1>26, <1>27,
     <1>28, <1>29

\* A call declares the cycles of its operand after those of the stack.
LEMMA CallBuses ==
  /\ \A y : Count(Append(Append(Append(Append(Fetch1, "SW"), "SW"), "MR"), "MR"), y)
         = Count(Append(Append(Fetch3, "SW"), "SW"), y)
  /\ \A y : Count(Fetch3, y)
         <= Count(Append(Append(Append(Append(Fetch1, "SW"), "SW"), "MR"), "MR"), y)
  /\ \A y : Count(Append(Append(Fetch3, "SW"), "SW"), y) \in Nat
<1> DEFINE q == Append(Append(Append(Append(Fetch1, "SW"), "SW"), "MR"), "MR")
           p == Append(Append(Fetch3, "SW"), "SW")
<1>1. "MR" \in Cycle /\ "SW" \in Cycle
  BY DEF Cycle
<1>2. ASSUME NEW y PROVE Count(q, y) = Count(p, y)
  <2>1. p = Append(Append(Append(Append(Fetch1, "MR"), "MR"), "SW"), "SW")
    BY DEF Fetch2, Fetch3
  <2>2. Fetch1 \in Seq(Cycle)
    BY BusFacts
  <2>3. Count(q, y) = Count(Append(Append(Append(Append(Fetch1, "MR"), "MR"), "SW"), "SW"), y)
    BY <1>1, <2>2, Reordered
  <2>4. QED
    BY <2>1, <2>3
<1>3. /\ \A y : Count(p, y) >= Count(Fetch3, y)
      /\ \A y : Count(p, y) \in Nat /\ Count(Fetch3, y) \in Nat
  <2>1. Fetch3 \in Seq(Cycle)
    BY BusFacts
  <2>2. QED
    BY <1>1, <2>1, MoreTwo
<1> HIDE DEF p, q
<1>4. ASSUME NEW y PROVE Count(Fetch3, y) <= Count(q, y)
  <2>1. /\ Count(q, y) = Count(p, y) /\ Count(p, y) >= Count(Fetch3, y)
        /\ Count(p, y) \in Nat /\ Count(Fetch3, y) \in Nat
    BY <1>2, <1>3
  <2>2. QED
    BY <2>1
<1>5. QED
  BY <1>2, <1>3, <1>4 DEF p, q

LEMMA ReturnBuses == \A y : Count(Fetch1, y) <= Count(Append(Append(Fetch1, "SR"), "SR"), y)
<1> DEFINE p == Append(Append(Fetch1, "SR"), "SR")
<1>1. /\ \A y : Count(p, y) >= Count(Fetch1, y)
      /\ \A y : Count(p, y) \in Nat /\ Count(Fetch1, y) \in Nat
  <2>1. "SR" \in Cycle /\ Fetch1 \in Seq(Cycle)
    BY BusFacts DEF Cycle
  <2>2. QED
    BY <2>1, MoreTwo
<1> HIDE DEF p
<1>2. ASSUME NEW y PROVE Count(Fetch1, y) <= Count(p, y)
  <2>1. /\ Count(p, y) >= Count(Fetch1, y)
        /\ Count(p, y) \in Nat /\ Count(Fetch1, y) \in Nat
    BY <1>1
  <2>2. QED
    BY <2>1
<1>3. QED
  BY <1>2 DEF p

LEMMA ExecutionAgrees ==
  ASSUME NEW c \in Machine, ~c.halted, NEW input \in Byte, NEW k \in Byte, k = Peek(c, c.pc),
         k \notin Unassigned
  PROVE  Agrees(c, k, Step(c, input).bus)
<1> DEFINE b == Step(c, input).bus
<1> HIDE DEF b
<1>1. ASSUME k \in MOV, Y(k) = RegM PROVE Agrees(c, k, b)
  <2>1. b = Append(Fetch1, "MW") /\ Cycles(k) = b /\ StatesOf(c, k) = 7
    BY <1>1, Performed, Declared, StatesAre, UsesMIs DEF b
  <2>2. b \in Seq(Cycle) /\ Len(b) = 2
    BY <2>1, Buses
  <2>3. 2 \in Nat /\ StatesOf(c, k) >= 3 * 2 + 1
    BY <2>1
  <2>4. QED
    BY <2>1, <2>2, <2>3, SameAgrees
<1>2. ASSUME k \in MOV, Y(k) # RegM, Z(k) = RegM PROVE Agrees(c, k, b)
  <2>1. b = Append(Fetch1, "MR") /\ Cycles(k) = b /\ StatesOf(c, k) = 7
    BY <1>2, Performed, Declared, StatesAre, UsesMIs DEF b
  <2>2. b \in Seq(Cycle) /\ Len(b) = 2
    BY <2>1, Buses
  <2>3. 2 \in Nat /\ StatesOf(c, k) >= 3 * 2 + 1
    BY <2>1
  <2>4. QED
    BY <2>1, <2>2, <2>3, SameAgrees
<1>3. ASSUME k \in MOV, Y(k) # RegM, Z(k) # RegM PROVE Agrees(c, k, b)
  <2>1. b = Fetch1 /\ Cycles(k) = b /\ StatesOf(c, k) = 5
    BY <1>3, Performed, Declared, StatesAre, UsesMIs DEF b
  <2>2. b \in Seq(Cycle) /\ Len(b) = 1
    BY <2>1, Buses
  <2>3. 1 \in Nat /\ StatesOf(c, k) >= 3 * 1 + 1
    BY <2>1
  <2>4. QED
    BY <2>1, <2>2, <2>3, SameAgrees
<1>4. ASSUME k \in ALUReg, Z(k) = RegM PROVE Agrees(c, k, b)
  <2>1. b = Append(Fetch1, "MR") /\ Cycles(k) = Fetch1 /\ StatesOf(c, k) = 7 /\ k \in Undeclared
    BY <1>4, Performed, Declared, StatesAre, UsesMIs DEF b, Undeclared
  <2>2. Len(b) = 2 /\ \A y : Count(b, y) >= Count(Cycles(k), y)
    BY <2>1, Buses
  <2>3. 2 \in Nat /\ StatesOf(c, k) >= 3 * 2 + 1
    BY <2>1
  <2>4. QED
    BY <2>1, <2>2, <2>3, MoreAgrees
<1>5. ASSUME k \in ALUReg, Z(k) # RegM PROVE Agrees(c, k, b)
  <2>1. b = Fetch1 /\ Cycles(k) = b /\ StatesOf(c, k) = 4
    BY <1>5, Performed, Declared, StatesAre, UsesMIs DEF b
  <2>2. b \in Seq(Cycle) /\ Len(b) = 1
    BY <2>1, Buses
  <2>3. 1 \in Nat /\ StatesOf(c, k) >= 3 * 1 + 1
    BY <2>1
  <2>4. QED
    BY <2>1, <2>2, <2>3, SameAgrees
<1>6. ASSUME k \in INR \cup DCR, Y(k) = RegM PROVE Agrees(c, k, b)
  <2>1. b = Append(Append(Fetch1, "MR"), "MW") /\ Cycles(k) = Fetch1 /\ StatesOf(c, k) = 10
            /\ k \in Undeclared
    BY <1>6, Performed, Declared, StatesAre, UsesMIs DEF b, Undeclared
  <2>2. Len(b) = 3 /\ \A y : Count(b, y) >= Count(Cycles(k), y)
    BY <2>1, Buses
  <2>3. 3 \in Nat /\ StatesOf(c, k) >= 3 * 3 + 1
    BY <2>1
  <2>4. QED
    BY <2>1, <2>2, <2>3, MoreAgrees
<1>7. ASSUME k \in INR \cup DCR, Y(k) # RegM PROVE Agrees(c, k, b)
  <2>1. b = Fetch1 /\ Cycles(k) = b /\ StatesOf(c, k) = 5
    BY <1>7, Performed, Declared, StatesAre, UsesMIs DEF b
  <2>2. b \in Seq(Cycle) /\ Len(b) = 1
    BY <2>1, Buses
  <2>3. 1 \in Nat /\ StatesOf(c, k) >= 3 * 1 + 1
    BY <2>1
  <2>4. QED
    BY <2>1, <2>2, <2>3, SameAgrees
<1>8. ASSUME k \in MVI, Y(k) = RegM PROVE Agrees(c, k, b)
  <2>1. b = Append(Fetch2, "MW") /\ Cycles(k) = Fetch2 /\ StatesOf(c, k) = 10
            /\ k \in Undeclared
    BY <1>8, Performed, Declared, StatesAre, UsesMIs DEF b, Undeclared
  <2>2. Len(b) = 3 /\ \A y : Count(b, y) >= Count(Cycles(k), y)
    BY <2>1, Buses
  <2>3. 3 \in Nat /\ StatesOf(c, k) >= 3 * 3 + 1
    BY <2>1
  <2>4. QED
    BY <2>1, <2>2, <2>3, MoreAgrees
<1>9. ASSUME k \in MVI, Y(k) # RegM PROVE Agrees(c, k, b)
  <2>1. b = Fetch2 /\ Cycles(k) = b /\ StatesOf(c, k) = 7
    BY <1>9, Performed, Declared, StatesAre, UsesMIs DEF b
  <2>2. b \in Seq(Cycle) /\ Len(b) = 2
    BY <2>1, Buses
  <2>3. 2 \in Nat /\ StatesOf(c, k) >= 3 * 2 + 1
    BY <2>1
  <2>4. QED
    BY <2>1, <2>2, <2>3, SameAgrees
<1>10. ASSUME k \in ALUImm PROVE Agrees(c, k, b)
  <2>1. b = Fetch2 /\ Cycles(k) = b /\ StatesOf(c, k) = 7
    BY <1>10, Performed, Declared, StatesAre DEF b
  <2>2. b \in Seq(Cycle) /\ Len(b) = 2
    BY <2>1, Buses
  <2>3. 2 \in Nat /\ StatesOf(c, k) >= 3 * 2 + 1
    BY <2>1
  <2>4. QED
    BY <2>1, <2>2, <2>3, SameAgrees
<1>11. ASSUME k \in LXI \cup Jcc \cup {JMP} PROVE Agrees(c, k, b)
  <2>1. b = Fetch3 /\ Cycles(k) = b /\ StatesOf(c, k) = 10
    BY <1>11, Performed, Declared, StatesAre DEF b
  <2>2. b \in Seq(Cycle) /\ Len(b) = 3
    BY <2>1, Buses
  <2>3. 3 \in Nat /\ StatesOf(c, k) >= 3 * 3 + 1
    BY <2>1
  <2>4. QED
    BY <2>1, <2>2, <2>3, SameAgrees
<1>12. ASSUME k \in PUSH \cup RST PROVE Agrees(c, k, b)
  <2>1. b = Append(Append(Fetch1, "SW"), "SW") /\ Cycles(k) = b /\ StatesOf(c, k) = 11
    BY <1>12, Performed, Declared, StatesAre DEF b
  <2>2. b \in Seq(Cycle) /\ Len(b) = 3
    BY <2>1, Buses
  <2>3. 3 \in Nat /\ StatesOf(c, k) >= 3 * 3 + 1
    BY <2>1
  <2>4. QED
    BY <2>1, <2>2, <2>3, SameAgrees
<1>13. ASSUME k \in POP PROVE Agrees(c, k, b)
  <2>1. b = Append(Append(Fetch1, "SR"), "SR") /\ Cycles(k) = b /\ StatesOf(c, k) = 10
    BY <1>13, Performed, Declared, StatesAre DEF b
  <2>2. b \in Seq(Cycle) /\ Len(b) = 3
    BY <2>1, Buses
  <2>3. 3 \in Nat /\ StatesOf(c, k) >= 3 * 3 + 1
    BY <2>1
  <2>4. QED
    BY <2>1, <2>2, <2>3, SameAgrees
<1>14. ASSUME k = RET PROVE Agrees(c, k, b)
  <2>1. b = Append(Append(Fetch1, "SR"), "SR") /\ Cycles(k) = b /\ StatesOf(c, k) = 10
    BY <1>14, Performed, Declared, StatesAre DEF b
  <2>2. b \in Seq(Cycle) /\ Len(b) = 3
    BY <2>1, Buses
  <2>3. 3 \in Nat /\ StatesOf(c, k) >= 3 * 3 + 1
    BY <2>1
  <2>4. QED
    BY <2>1, <2>2, <2>3, SameAgrees
<1>15. ASSUME k \in Rcc, Taken(c, k) PROVE Agrees(c, k, b)
  <2>1. b = Append(Append(Fetch1, "SR"), "SR") /\ Cycles(k) = b /\ StatesOf(c, k) = 11
    BY <1>15, Performed, Declared, StatesAre DEF b
  <2>2. b \in Seq(Cycle) /\ Len(b) = 3
    BY <2>1, Buses
  <2>3. 3 \in Nat /\ StatesOf(c, k) >= 3 * 3 + 1
    BY <2>1
  <2>4. QED
    BY <2>1, <2>2, <2>3, SameAgrees
<1>16. ASSUME k = STA PROVE Agrees(c, k, b)
  <2>1. b = Append(Fetch3, "MW") /\ Cycles(k) = b /\ StatesOf(c, k) = 13
    BY <1>16, Performed, Declared, StatesAre DEF b
  <2>2. b \in Seq(Cycle) /\ Len(b) = 4
    BY <2>1, Buses
  <2>3. 4 \in Nat /\ StatesOf(c, k) >= 3 * 4 + 1
    BY <2>1
  <2>4. QED
    BY <2>1, <2>2, <2>3, SameAgrees
<1>17. ASSUME k = LDA PROVE Agrees(c, k, b)
  <2>1. b = Append(Fetch3, "MR") /\ Cycles(k) = b /\ StatesOf(c, k) = 13
    BY <1>17, Performed, Declared, StatesAre DEF b
  <2>2. b \in Seq(Cycle) /\ Len(b) = 4
    BY <2>1, Buses
  <2>3. 4 \in Nat /\ StatesOf(c, k) >= 3 * 4 + 1
    BY <2>1
  <2>4. QED
    BY <2>1, <2>2, <2>3, SameAgrees
<1>18. ASSUME k = LHLD PROVE Agrees(c, k, b)
  <2>1. b = Append(Append(Fetch3, "MR"), "MR") /\ Cycles(k) = b /\ StatesOf(c, k) = 16
    BY <1>18, Performed, Declared, StatesAre DEF b
  <2>2. b \in Seq(Cycle) /\ Len(b) = 5
    BY <2>1, Buses
  <2>3. 5 \in Nat /\ StatesOf(c, k) >= 3 * 5 + 1
    BY <2>1
  <2>4. QED
    BY <2>1, <2>2, <2>3, SameAgrees
<1>19. ASSUME k = OUT PROVE Agrees(c, k, b)
  <2>1. b = Append(Fetch2, "IOW") /\ Cycles(k) = b /\ StatesOf(c, k) = 10
    BY <1>19, Performed, Declared, StatesAre DEF b
  <2>2. b \in Seq(Cycle) /\ Len(b) = 3
    BY <2>1, Buses
  <2>3. 3 \in Nat /\ StatesOf(c, k) >= 3 * 3 + 1
    BY <2>1
  <2>4. QED
    BY <2>1, <2>2, <2>3, SameAgrees
<1>20. ASSUME k = IN_ PROVE Agrees(c, k, b)
  <2>1. b = Append(Fetch2, "IOR") /\ Cycles(k) = b /\ StatesOf(c, k) = 10
    BY <1>20, Performed, Declared, StatesAre DEF b
  <2>2. b \in Seq(Cycle) /\ Len(b) = 3
    BY <2>1, Buses
  <2>3. 3 \in Nat /\ StatesOf(c, k) >= 3 * 3 + 1
    BY <2>1
  <2>4. QED
    BY <2>1, <2>2, <2>3, SameAgrees
<1>21. ASSUME k \in INX \cup DCX \cup {PCHL, SPHL} PROVE Agrees(c, k, b)
  <2>1. b = Fetch1 /\ Cycles(k) = b /\ StatesOf(c, k) = 5
    BY <1>21, Performed, Declared, StatesAre DEF b
  <2>2. b \in Seq(Cycle) /\ Len(b) = 1
    BY <2>1, Buses
  <2>3. 1 \in Nat /\ StatesOf(c, k) >= 3 * 1 + 1
    BY <2>1
  <2>4. QED
    BY <2>1, <2>2, <2>3, SameAgrees
<1>22. ASSUME k \in {NOP, RLC, RRC, RAL, RAR, DAA, CMA, STC, CMC, XCHG, DI, EI}
       PROVE Agrees(c, k, b)
  <2>1. b = Fetch1 /\ Cycles(k) = b /\ StatesOf(c, k) = 4
    BY <1>22, Performed, Declared, StatesAre DEF b
  <2>2. b \in Seq(Cycle) /\ Len(b) = 1
    BY <2>1, Buses
  <2>3. 1 \in Nat /\ StatesOf(c, k) >= 3 * 1 + 1
    BY <2>1
  <2>4. QED
    BY <2>1, <2>2, <2>3, SameAgrees
<1>23. ASSUME k = HLT PROVE Agrees(c, k, b)
  <2>1. b = Fetch1 /\ Cycles(k) = b /\ StatesOf(c, k) = 7
    BY <1>23, Performed, Declared, StatesAre DEF b
  <2>2. b \in Seq(Cycle) /\ Len(b) = 1
    BY <2>1, Buses
  <2>3. 1 \in Nat /\ StatesOf(c, k) >= 3 * 1 + 1
    BY <2>1
  <2>4. QED
    BY <2>1, <2>2, <2>3, SameAgrees
<1>24. ASSUME k \in DAD PROVE Agrees(c, k, b)
  <2>1. b = Fetch1 /\ Cycles(k) = b /\ StatesOf(c, k) = 10
    BY <1>24, Performed, Declared, StatesAre DEF b
  <2>2. b \in Seq(Cycle) /\ Len(b) = 1
    BY <2>1, Buses
  <2>3. 1 \in Nat /\ StatesOf(c, k) >= 3 * 1 + 1
    BY <2>1
  <2>4. QED
    BY <2>1, <2>2, <2>3, SameAgrees
<1>25. ASSUME k \in STAX PROVE Agrees(c, k, b)
  <2>1. b = Append(Fetch1, "MW") /\ Cycles(k) = Fetch1 /\ StatesOf(c, k) = 7 /\ k \in Undeclared
    BY <1>25, Performed, Declared, StatesAre, UsesMIs DEF b, Undeclared
  <2>2. Len(b) = 2 /\ \A y : Count(b, y) >= Count(Cycles(k), y)
    BY <2>1, Buses
  <2>3. 2 \in Nat /\ StatesOf(c, k) >= 3 * 2 + 1
    BY <2>1
  <2>4. QED
    BY <2>1, <2>2, <2>3, MoreAgrees
<1>26. ASSUME k \in LDAX PROVE Agrees(c, k, b)
  <2>1. b = Append(Fetch1, "MR") /\ Cycles(k) = Fetch1 /\ StatesOf(c, k) = 7 /\ k \in Undeclared
    BY <1>26, Performed, Declared, StatesAre, UsesMIs DEF b, Undeclared
  <2>2. Len(b) = 2 /\ \A y : Count(b, y) >= Count(Cycles(k), y)
    BY <2>1, Buses
  <2>3. 2 \in Nat /\ StatesOf(c, k) >= 3 * 2 + 1
    BY <2>1
  <2>4. QED
    BY <2>1, <2>2, <2>3, MoreAgrees
<1>27. ASSUME k = SHLD PROVE Agrees(c, k, b)
  <2>1. b = Append(Append(Fetch3, "MW"), "MW") /\ Cycles(k) = Append(Fetch3, "MW")
            /\ StatesOf(c, k) = 16 /\ k \in Undeclared
    BY <1>27, Performed, Declared, StatesAre, UsesMIs DEF b, Undeclared
  <2>2. Len(b) = 5 /\ \A y : Count(b, y) >= Count(Cycles(k), y)
    BY <2>1, Buses
  <2>3. 5 \in Nat /\ StatesOf(c, k) >= 3 * 5 + 1
    BY <2>1
  <2>4. QED
    BY <2>1, <2>2, <2>3, MoreAgrees
<1>28. ASSUME k = XTHL PROVE Agrees(c, k, b)
  <2>1. b = Append(Append(Append(Append(Fetch1, "SR"), "SR"), "SW"), "SW") /\ Cycles(k) = Fetch1
            /\ StatesOf(c, k) = 18 /\ k \in Undeclared
    BY <1>28, Performed, Declared, StatesAre, UsesMIs DEF b, Undeclared
  <2>2. Len(b) = 5 /\ \A y : Count(b, y) >= Count(Cycles(k), y)
    BY <2>1, Buses
  <2>3. 5 \in Nat /\ StatesOf(c, k) >= 3 * 5 + 1
    BY <2>1
  <2>4. QED
    BY <2>1, <2>2, <2>3, MoreAgrees
<1>29. ASSUME k = CALL \/ (k \in Ccc /\ Taken(c, k)) PROVE Agrees(c, k, b)
  <2>1. /\ b = Append(Append(Fetch3, "SW"), "SW") /\ StatesOf(c, k) = 17
        /\ Cycles(k) = Append(Append(Append(Append(Fetch1, "SW"), "SW"), "MR"), "MR")
    BY <1>29, Performed, Declared, StatesAre DEF b
  <2>2. \A y : Count(Cycles(k), y) = Count(b, y) /\ Count(b, y) \in Nat
    BY <2>1, CallBuses
  <2>3. Len(b) = 5
    BY <2>1, Buses
  <2>4. StatesOf(c, k) >= 3 * Len(b) + 1
    BY <2>1, <2>3
  <2>5. QED
    BY <2>2, <2>4 DEF Agrees
<1>30. ASSUME k \in Ccc, ~Taken(c, k) PROVE Agrees(c, k, b)
  <2>1. /\ b = Fetch3 /\ StatesOf(c, k) = 11
        /\ Cycles(k) = Append(Append(Append(Append(Fetch1, "SW"), "SW"), "MR"), "MR")
    <3>1. k # CALL
      BY <1>30, FamilyOf DEF Families, CALL, Z
    <3>2. QED
      BY <1>30, <3>1, Performed, Declared, StatesAre DEF b
  <2>2. \A y : Count(b, y) <= Count(Cycles(k), y)
    BY <2>1, CallBuses
  <2>3. Len(b) = 3 /\ 3 \in Nat
    BY <2>1, Buses
  <2>4. StatesOf(c, k) >= 3 * 3 + 1
    BY <2>1
  <2>5. QED
    BY <1>30, <2>2, <2>3, <2>4, FewerAgrees
<1>31. ASSUME k \in Rcc, ~Taken(c, k) PROVE Agrees(c, k, b)
  <2>1. /\ b = Fetch1 /\ StatesOf(c, k) = 5
        /\ Cycles(k) = Append(Append(Fetch1, "SR"), "SR")
    <3>1. k # RET
      BY <1>31, FamilyOf DEF Families, RET, Z
    <3>2. QED
      BY <1>31, <3>1, Performed, Declared, StatesAre DEF b
  <2>2. \A y : Count(b, y) <= Count(Cycles(k), y)
    BY <2>1, ReturnBuses
  <2>3. Len(b) = 1 /\ 1 \in Nat
    BY <2>1, Buses
  <2>4. StatesOf(c, k) >= 3 * 1 + 1
    BY <2>1
  <2>5. QED
    BY <1>31, <2>2, <2>3, <2>4, FewerAgrees
<1>32. k \in Plain \cup {HLT, JMP, CALL, RET, PCHL} \cup Jcc \cup Ccc \cup Rcc \cup RST
  BY DEF Plain
<1>33. QED
  BY <1>1, <1>2, <1>3, <1>4, <1>5, <1>6, <1>7, <1>8, <1>9, <1>10, <1>11, <1>12, <1>13, <1>14,
     <1>15, <1>16, <1>17, <1>18, <1>19, <1>20, <1>21, <1>22, <1>23, <1>24, <1>25, <1>26, <1>27,
     <1>28, <1>29, <1>30, <1>31, <1>32, PlainIs DEF b

\* What the decoder says of an instruction is what the execution does, of every opcode
\* on every machine the program reaches: it fails exactly on the opcodes without an
\* instruction, and performs the cycles declared, in the time declared, with the
\* exceptions DecoderAgrees names (decoder.go:35-191, step.go:4-51, execute.go).
THEOREM DecoderTellsTheTruth == Spec => []DecoderAgrees
<1>1. InstructionInv => DecoderAgrees
  <2> SUFFICES ASSUME InstructionInv PROVE DecoderAgrees
    OBVIOUS
  <2>1. ASSUME stage = "stepped"
        PROVE  /\ m.error = "unimplemented" <=> code \in Unassigned
               /\ m.error = "nil" => Agrees(before, code, m.bus)
    <3>1. PICK input \in Byte : Outcome(Step(before, input), m)
      BY <2>1 DEF InstructionInv
    <3>2. ~before.halted /\ Peek(before, before.pc) = code /\ before \in Machine
              /\ code \in Byte
      BY <2>1, PeekType DEF InstructionInv
    <3> DEFINE s == Step(before, input)
    <3>3. /\ s \in Machine /\ (s.halted <=> code = HLT)
          /\ code \in Unassigned => s.error = "unimplemented"
          /\ code \notin Unassigned => s.error = "nil"
      BY <3>2, StepType
    <3>4. code = HLT => code \notin Unassigned
      BY DEF HLT, Unassigned, Digits
    <3>5. code \notin Unassigned => Agrees(before, code, s.bus)
      BY <3>2, ExecutionAgrees
    <3>6. Outcome(s, m)
      BY <3>1
    <3> HIDE DEF s
    <3>7. CASE m = s
      BY <3>3, <3>5, <3>7
    <3>8. CASE s.halted /\ m = [s EXCEPT !.bus = <<>>, !.error = "stopped"]
      <4>1. m.error = "stopped"
        BY <3>3, <3>8 DEF Machine
      <4>2. QED
        BY <3>3, <3>4, <3>8, <4>1
    <3>9. QED
      BY <3>6, <3>7, <3>8 DEF Outcome
  <2>2. ASSUME stage = "jammed" PROVE m.error = "unimplemented" <=> code \in Unassigned
    <3>1. code \in Byte /\ before \in Machine
      BY DEF InstructionInv
    <3>2. PICK arg \in Byte \X Byte, input \in Byte : m = JamOf(before, code, arg, input)
      BY <2>2 DEF InstructionInv
    <3> DEFINE d == JamOf(before, code, arg, input)
    <3>3. /\ code \in Unassigned => d.error = "unimplemented"
          /\ code \notin Unassigned => d.error = "nil"
      BY <3>1, JamType
    <3>4. m = d
      BY <3>2
    <3> HIDE DEF d
    <3>5. QED
      BY <3>3, <3>4
  <2>3. stage = "stepped" /\ m.error = "nil" => CyclesMatch /\ TimeEnough
    BY <2>1 DEF Agrees, CyclesMatch, TimeEnough
  <2>4. QED
    BY <2>1, <2>2, <2>3 DEF DecoderAgrees, Executed
<1>2. QED
  BY <1>1, InstructionInvariant, PTL
=============================================================================
