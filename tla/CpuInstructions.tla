--------------------------- MODULE CpuInstructions ---------------------------
(***************************************************************************)
(* Every instruction, from a choice of machines: fetched by Step, or       *)
(* forced by Jam as the front panel does for an interrupt.                 *)
(***************************************************************************)
EXTENDS Cpu8080

CONSTANTS
  StartRegisters, StartFlags, StartSP,   \* the machines to begin with
  Operand                                \* operand and input bytes

ASSUME StartAssumption ==
  /\ StartRegisters \subseteq [Register -> Byte]
  /\ StartFlags \subseteq Flags
  /\ StartSP \subseteq Word
  /\ Operand \subseteq Byte

\* What Disassemble reads at pc: the operand, and where the next instruction is.
Disassemble_HighFirst(c, pc) ==
  LET second == Peek(c, Next16(pc))
      third == Peek(c, Next16(Next16(pc)))
      k == Peek(c, pc)
  IN [operand |-> IF Length(k) = 2 THEN second ELSE Compose(second, third),
      next |-> (pc + Length(k)) % 65536]
Disassemble(c, pc) ==
  LET second == Peek(c, Next16(pc))
      third == Peek(c, Next16(Next16(pc)))
      k == Peek(c, pc)
  IN [operand |-> IF Length(k) = 2 THEN second
                  ELSE IF Length(k) = 3 THEN Compose(third, second) ELSE 0,
      next |-> (pc + Length(k)) % 65536]

VARIABLES
  m,        \* the machine
  before,   \* history: the machine before the last instruction
  code,     \* history: the last instruction, or the one loaded
  stage     \* "start", "loaded", "stepped" or "jammed"

insVars == <<m, before, code, stage>>

Arguments(k) ==
  IF Length(k) = 3 THEN Operand \X Operand ELSE IF Length(k) = 2 THEN Operand \X {0} ELSE {<<0, 0>>}
Inputs(k) == IF k = IN_ THEN Operand ELSE {0}

Init ==
  /\ \E reg \in StartRegisters, flag \in StartFlags, sp \in StartSP, pc \in {0, MaxWord} :
       m = [Reset(<<>>) EXCEPT !.reg = reg, !.flag = flag, !.sp = sp, !.pc = pc]
  /\ before = m /\ code = NOP /\ stage = "start"

\* The instruction is put in memory where PC points.
Load(k, arg) ==
  /\ stage = "start"
  /\ LET second == Next16(m.pc)
         third == Next16(second)
     IN m' = [m EXCEPT !.mem = [a \in {m.pc, second, third} |->
                IF a = m.pc THEN k ELSE IF a = second THEN arg[1] ELSE arg[2]]]
  /\ code' = k /\ stage' = "loaded"
  /\ UNCHANGED before

StepOne(input) ==
  /\ stage = "loaded"
  /\ m' = Step(m, input)
  /\ before' = m /\ stage' = "stepped"
  /\ UNCHANGED code

\* A halted CPU refuses to step.
StepHalted ==
  /\ stage = "stepped" /\ m.halted
  /\ m' = Step(m, 0)
  /\ UNCHANGED <<before, code, stage>>

JamOne(k, arg, input) ==
  /\ stage = "start" \/ m.halted
  /\ m' = JamOf(m, k, arg, input)
  /\ before' = m /\ code' = k /\ stage' = "jammed"

Next ==
  \/ \E k \in Byte : \E arg \in Arguments(k) : Load(k, arg)
  \/ \E input \in Inputs(code) : StepOne(input)
  \/ StepHalted
  \/ \E k \in Byte : \E arg \in Arguments(k), input \in Inputs(k) : JamOne(k, arg, input)

Spec == Init /\ [][Next]_insVars

---------------------------------------------------------------------------

Executed == stage \in {"stepped", "jammed"}

\* The instructions that access memory on cycles the decoder does not declare, so
\* that READY is never sampled for them.
Undeclared ==
  STAX \cup LDAX \cup {SHLD, XTHL} \cup {k \in MVI \cup INR \cup DCR \cup ALUReg : UsesM(k)}

Count(cycles, c) == Cardinality({i \in DOMAIN cycles : cycles[i] = c})

\* The memory and I/O cycles a stepped instruction performs are those the decoder
\* declares for it, except for the opcodes of Undeclared, which perform more, and
\* conditional calls and returns not taken, which perform fewer.
CyclesMatch ==
  \A c \in Cycle :
    LET performed == Count(m.bus, c)
        declared == Count(Cycles(code), c)
    IN /\ code \notin Undeclared => performed <= declared
       /\ (code \in Ccc \cup Rcc /\ ~Taken(before, code)) \/ performed >= declared

\* Four states for the fetch and three for each other cycle performed.
TimeEnough == StatesOf(before, code) >= 3 * Len(m.bus) + 1

\* What the decoder says of an instruction is true of its execution: the two are written
\* apart, and the panel samples READY and the counters count by the decoder alone.  The
\* opcodes that fail are those it calls unassigned; the others perform the cycles it
\* declares and have the time for them (decoder.go:35-191, step.go:4-51, execute.go).
DecoderAgrees ==
  /\ Executed => (m.error = "unimplemented" <=> code \in Unassigned)
  /\ stage = "stepped" /\ m.error = "nil" => CyclesMatch /\ TimeEnough

\* A taken call, a restart or one forced as an interrupt, is undone by RET: control
\* comes back behind the call, or to where the interrupt was accepted
\* (execute.go:171-174, step.go:13-19, 68-87).
ReturnUndoesCall ==
  Executed /\ (code = CALL \/ code \in RST \/ (code \in Ccc /\ Taken(before, code))) =>
    LET back == Return(m)
        length == IF stage = "stepped" THEN Length(code) ELSE 0
    IN /\ back.pc = (before.pc + length) % 65536
       /\ back.sp = before.sp /\ back.reg = before.reg /\ back.flag = before.flag

\* The last instruction went to its operand, or to another place than the next.
Jumps == {JMP, CALL} \cup {k \in Jcc \cup Ccc : Taken(before, k)}
Leaves == {RET, PCHL} \cup RST \cup {k \in Rcc : Taken(before, k)}

\* The line the disassembler prints for the instruction at PC, in the trace before it
\* executes, is about what executes: its operand is where control goes, what is loaded
\* or where it is stored, and the next line is about where control falls through or is
\* to return, also over the end of memory (disasm.go:14-37, step.go:4-27).
DisassemblyAgrees ==
  stage = "stepped" =>
    LET d == Disassemble(before, before.pc)
    IN /\ code \notin Jumps \cup Leaves => m.pc = d.next
       /\ code \in Jumps => m.pc = d.operand
       /\ code \in RST \cup (Jumps \ ({JMP} \cup Jcc)) => PopWord(m) = d.next
       /\ code \in LXI => Pair(m, PairOf(code)) = d.operand
       /\ code \in MVI => Get(m, Y(code)) = d.operand
       /\ code = STA => Peek(m, d.operand) = m.reg[RegA]
       /\ code \in {LDA, LHLD} =>
            Peek(before, d.operand) = m.reg[IF code = LDA THEN RegA ELSE RegL]

\* Instructions that undo each other on the registers, the flags and the stack
\* pointer, wherever SP and HL are: PUSH and POP of a pair, with all five flags for
\* PSW; rotations through the carry; exchanges, complements, counting of words, and
\* storing and loading HL (cpu.go:98-122, 174-201, execute.go:97-112, 141-150, 176-217).
Inverses ==
  {<<RAL, RAR>>, <<RAR, RAL>>, <<XCHG, XCHG>>, <<XTHL, XTHL>>, <<CMA, CMA>>,
   <<CMC, CMC>>, <<SHLD, LHLD>>}
  \cup {<<k, k + 8>> : k \in INX} \cup {<<k, k - 4>> : k \in PUSH}
InversesUndo ==
  \A pair \in Inverses :
    LET back == Execute(Execute(m, pair[1], <<255, 255>>, 0), pair[2], <<255, 255>>, 0)
    IN back.reg = m.reg /\ back.flag = m.flag /\ back.sp = m.sp

\* The comment on ReadyCallback: it decides for each machine cycle whether it may
\* proceed, so an instruction performs no cycle that is not declared
\* (frontpanel.go:40).
AllCyclesDeclared ==
  stage = "stepped" => \A c \in Cycle : Count(m.bus, c) <= Count(Cycles(code), c)
===========================================================================
