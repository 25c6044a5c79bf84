---------------------------- MODULE CpuPrograms ----------------------------
(***************************************************************************)
(* Whole programs on the CPU: those of src/conformance/synthetic.go that   *)
(* need no front panel, and others, run to their end while interrupts      *)
(* arrive between any two instructions, as FrontPanel.Step forces them:    *)
(* by Jam, whether interrupts are enabled or not, in the handler and       *)
(* during a halt too.  Every interrupt is RST 7, with a handler at 56 that *)
(* saves what it uses.  READY may also be low for a while: the instruction *)
(* or the interrupt the panel has prepared then waits, and the CPU counts. *)
(* A definition named X_Y just before X is X with a plausible mistake Y,   *)
(* used nowhere.                                                           *)
(***************************************************************************)
EXTENDS Cpu8080

CONSTANTS
  Extra,                      \* programs besides those of the suite
  MaxSteps, MaxDisturbances   \* bounds: steps of the program; interrupts and wait states

ASSUME ExtraAssumption == \A p \in Extra : p \in Seq(Byte) /\ Len(p) <= 56
ASSUME BoundsAssumption == MaxSteps \in Nat /\ MaxDisturbances \in Nat

VARIABLES
  program,      \* the program, and the name of its case in the suite
  m,            \* the machine
  shadow,       \* history: the machine the program would be in, had no interrupt come
  depth,        \* history: handlers begun and not returned from
  interrupts,   \* history: how many came
  steps,        \* history: instructions of the program executed
  states,       \* history: the states the shadow took for them
  held,         \* what waits for READY: "nothing", a "fetched" or a "forced" instruction
  clock         \* the CPU's counters, pending wait states included; and, as history,
                \* the wait states charged to an instruction (LastTiming.WaitStates)

progVars == <<program, m, shadow, depth, interrupts, steps, states, held, clock>>

\* SyntheticSuite; the ring of restarts has the handler's place, so gets no interrupt.
Suite ==
  [load_move |-> <<62, 42, 71, HLT>>,
   alu_flags |-> <<62, 255, 198, 1, HLT>>,
   memory_indirect |-> <<33, 0, 1, 54, 165, 126, HLT>>,
   call_return |-> <<CALL, 6, 0, HLT, NOP, NOP, 62, 66, RET>>,
   conditional_jump_taken |-> <<210, 6, 0, HLT, NOP, NOP, HLT>>,
   conditional_call_not_taken |-> <<220, 6, 0, HLT, NOP, NOP, HLT>>,
   rotate_carry |-> <<62, 129, RLC, HLT>>,
   io_echo |-> <<IN_, 0, OUT, 1, HLT>>,
   interrupt_rst |-> <<NOP, NOP, NOP, NOP, NOP, NOP, NOP, NOP, HLT>>,
   rst_ring |-> [i \in 1 .. 64 |-> IF i % 8 = 1 THEN 199 + 8 * (((i \div 8) + 1) % 8) ELSE 0]]
EchoInput == 90

\* What Verify asks of the CPU, by case.
Verdict(case, c, count) ==
  CASE case = "load_move" -> c.reg[RegA] = 42 /\ c.reg[0] = 42
    [] case = "alu_flags" ->
         c.reg[RegA] = 0
         /\ c.flag = [carry |-> TRUE, zero |-> TRUE, sign |-> FALSE, parity |-> TRUE, aux |-> TRUE]
    [] case = "memory_indirect" -> c.reg[RegA] = 165 /\ Peek(c, 256) = 165
    [] case = "call_return" -> c.reg[RegA] = 66 /\ c.sp = 0 /\ c.pc = 4
    [] case = "conditional_jump_taken" -> c.pc = 7
    [] case = "conditional_call_not_taken" -> count = 18
    [] case = "rotate_carry" -> c.reg[RegA] = 3 /\ c.flag.carry
    [] case = "io_echo" -> c.reg[RegA] = EchoInput
    [] case = "rst_ring" -> c.sp = 65520
    [] case = "interrupt_rst" -> c.sp = 65534 /\ Peek(c, 65534) = 0 /\ c.pc = 9
    [] OTHER -> TRUE

\* PUSH PSW, B, H; the work: MVI B; LXI H; XRA A; DCR M; then POP H, B, PSW; EI; RET.
Handler == <<245, 197, 229, 6, 99, 33, 255, 0, 175, 53, 225, 193, 241, EI, RET>>
HandlerAt == 56
StackRoom == 64          \* bytes under the program's stack the handlers may use

MemoryOf(bytes) == [a \in 0 .. Len(bytes) - 1 |-> bytes[a + 1]]
Image(case, bytes) ==
  IF case = "rst_ring" THEN MemoryOf(bytes)
  ELSE [a \in (0 .. Len(bytes) - 1) \cup (HandlerAt .. HandlerAt + Len(Handler) - 1) |->
          IF a < HandlerAt THEN bytes[a + 1] ELSE Handler[a - HandlerAt + 1]]

Cases == {[name |-> case, bytes |-> Suite[case]] : case \in DOMAIN Suite}
         \cup {[name |-> "extra", bytes |-> p] : p \in Extra}

\* recordTiming and RecordWaitState.
RecordTiming_KeepsPending(c, taken) ==
  [c EXCEPT !.instructions = @ + 1, !.states = @ + taken, !.charged = @ + c.pending]
RecordTiming(c, taken) ==
  [c EXCEPT !.instructions = @ + 1, !.states = @ + taken,
            !.charged = @ + c.pending, !.pending = 0]
RecordWaitState(c) ==
  [c EXCEPT !.states = @ + 1, !.waits = @ + 1, !.pending = @ + 1]

\* RunCase: a new machine with the program loaded at its start.
Init ==
  /\ program \in Cases
  /\ m = Reset(Image(program.name, program.bytes))
  /\ shadow = m
  /\ depth = 0 /\ interrupts = 0 /\ steps = 0 /\ states = 0 /\ held = "nothing"
  /\ clock = [instructions |-> 0, states |-> 0, waits |-> 0, pending |-> 0, charged |-> 0]

InProgram(c) == c.pc < Len(program.bytes)

\* The case interrupt_rst requests RST 1 before the run.
Requested == program.name = "interrupt_rst" /\ clock.instructions = 0

CanFetch == ~Requested /\ ~m.halted /\ (depth > 0 \/ steps < MaxSteps)
CanForce ==
  /\ ~Requested /\ program.name # "rst_ring"
  /\ m.halted => program.name = "extra" /\ InProgram(m)

\* An instruction of the program: the shadow takes the same step.
ProgramStep ==
  /\ depth = 0 /\ CanFetch /\ held # "forced"
  /\ m' = Step(m, EchoInput)
  /\ shadow' = Step(shadow, EchoInput)
  /\ steps' = steps + 1
  /\ states' = states + StatesOf(shadow, Peek(shadow, shadow.pc))
  /\ clock' = RecordTiming(clock, StatesOf(m, Peek(m, m.pc)))
  /\ held' = "nothing"
  /\ UNCHANGED <<program, depth, interrupts>>

\* An instruction of a handler; its RET ends it.
HandlerStep ==
  /\ depth > 0 /\ CanFetch /\ held # "forced"
  /\ m' = Step(m, EchoInput)
  /\ depth' = IF Peek(m, m.pc) = RET THEN depth - 1 ELSE depth
  /\ clock' = RecordTiming(clock, StatesOf(m, Peek(m, m.pc)))
  /\ held' = "nothing"
  /\ UNCHANGED <<program, shadow, interrupts, steps, states>>

Disturbances == interrupts + clock.waits

\* RST 7 forced between two instructions: it ends a halt, so the shadow's too.
Interrupt ==
  /\ Disturbances < MaxDisturbances
  /\ CanForce /\ held # "fetched"
  /\ m' = JamOf(m, 255, <<0, 0>>, 0)
  /\ shadow' = [shadow EXCEPT !.halted = FALSE]
  /\ depth' = depth + 1 /\ interrupts' = interrupts + 1
  /\ clock' = RecordTiming(clock, StatesOf(m, 255))
  /\ held' = "nothing"
  /\ UNCHANGED <<program, steps, states>>

\* The interrupt a case asks for belongs to its program.
OwnInterrupt ==
  /\ Requested
  /\ m' = JamOf(m, 207, <<0, 0>>, 0)
  /\ shadow' = m'
  /\ steps' = steps + 1
  /\ states' = states + StatesOf(m, 207)
  /\ clock' = RecordTiming(clock, StatesOf(m, 207))
  /\ UNCHANGED <<program, depth, interrupts, held>>

\* READY is low at a cycle of the instruction prepared, which stays the same until it
\* is executed; a forced one keeps room in the bound for itself.
Wait(what) ==
  /\ held \in {"nothing", what}
  /\ IF what = "forced" THEN CanForce /\ Disturbances + 2 <= MaxDisturbances
     ELSE CanFetch /\ Disturbances < MaxDisturbances
  /\ clock' = RecordWaitState(clock) /\ held' = what
  /\ UNCHANGED <<program, m, shadow, depth, interrupts, steps, states>>

Next ==
  \/ ProgramStep \/ HandlerStep \/ Interrupt \/ OwnInterrupt
  \/ \E what \in {"fetched", "forced"} : Wait(what)

Spec ==
  /\ Init /\ [][Next]_progVars
  /\ WF_progVars(ProgramStep) /\ WF_progVars(HandlerStep) /\ WF_progVars(OwnInterrupt)
  /\ WF_progVars(held = "forced" /\ Interrupt)

---------------------------------------------------------------------------

\* The bytes under the stack of a program that would be in state c.
FreeStack(c, a) == (c.sp - 1 - a) % 65536 < StackRoom
UnderStack(a) == FreeStack(shadow, a)

\* An interrupt between any two instructions, nested or not, is invisible to the
\* program: whenever no handler is active the CPU is in the state it would have
\* without it, and so is the memory it uses, but for the free part of the
\* stack
\* (frontpanel.go:286-299, step.go:68-87, execute.go:171-217, cpu.go:174-201).
InterruptsTransparent ==
  depth = 0 =>
    /\ <<m.reg, m.flag, m.pc, m.sp, m.halted>>
         = <<shadow.reg, shadow.flag, shadow.pc, shadow.sp, shadow.halted>>
    /\ \A a \in DOMAIN shadow.mem : UnderStack(a) \/ m.mem[a] = shadow.mem[a]

\* Each case of the suite ends with the result its Verify expects, wherever interrupts
\* came (synthetic.go:11-121).
SuiteVerdicts ==
  (depth = 0 /\ m.halted) \/ (program.name = "rst_ring" /\ steps = 8) =>
    Verdict(program.name, m, states)

\* RST 7 takes 11 states; the handler's three PUSH, three POP, MVI, LXI, XRA, DCR M, EI
\* and RET take 33, 30 and 45.
InterruptTime == 11 + 33 + 30 + 45

\* Time is accounted for: interrupts and wait states cost what they take and nothing
\* else, the program takes the time it would without them, and every wait state is
\* charged to one instruction, the one that waited (step.go:35-65, 68-87).
TimeAccounted ==
  depth = 0 /\ held = "nothing" =>
    /\ clock.states = states + clock.waits + InterruptTime * interrupts
    /\ clock.instructions = steps + 13 * interrupts
    /\ clock.charged = clock.waits /\ clock.pending = 0

\* Handlers return and the program goes on: the stack unwinds and the program reaches
\* its halt or the bound of its steps.
ProgramsEnd == <>[](depth = 0 /\ (m.halted \/ steps = MaxSteps))

---------------------------------------------------------------------------
(* What the theorems of ProgramProofs ask of a program: that what it does  *)
(* never depends on the bytes under its stack, which the handlers use.     *)
(* The module MCCpuPrograms has TLC check it of the programs of the run.   *)

\* The cells that are the program's.
Own(c) == {a \in DOMAIN c.mem : ~FreeStack(c, a)}

\* The cells an instruction reads, itself among them, and those it writes.
Only(holds, cells) == IF holds THEN cells ELSE {}
StackTop(c) == {c.sp, Next16(c.sp)}
PushCells(c) == {Previous16(c.sp), Previous16(Previous16(c.sp))}
Fetches(c) ==
  LET k == Peek(c, c.pc)
  IN {c.pc} \cup Only(Length(k) > 1, {Next16(c.pc)})
     \cup Only(Length(k) > 2, {Next16(Next16(c.pc))})
Loads(c, k, word) ==
  Only((k \in MOV \cup ALUReg /\ Z(k) = RegM) \/ (k \in INR \cup DCR /\ Y(k) = RegM), {HL(c)})
  \cup Only(k \in LDAX, {Pair(c, PairOf(k))})
  \cup Only(k \in {LDA, LHLD}, {word}) \cup Only(k = LHLD, {Next16(word)})
  \cup Only(k \in POP \cup {RET, XTHL} \/ (k \in Rcc /\ Taken(c, k)), StackTop(c))
Stores(c, k, word) ==
  Only(k \in MOV \cup MVI \cup INR \cup DCR /\ Y(k) = RegM, {HL(c)})
  \cup Only(k \in STAX, {Pair(c, PairOf(k))})
  \cup Only(k \in {STA, SHLD}, {word}) \cup Only(k = SHLD, {Next16(word)})
  \cup Only(k \in PUSH \cup RST \cup {CALL} \/ (k \in Ccc /\ Taken(c, k)), PushCells(c))
  \cup Only(k = XTHL, StackTop(c))
OperandWord(c) == Compose(Peek(c, Next16(Next16(c.pc))), Peek(c, Next16(c.pc)))
Reads(c) == Fetches(c) \cup Loads(c, Peek(c, c.pc), OperandWord(c))
Writes(c) == Stores(c, Peek(c, c.pc), OperandWord(c))

\* The next instruction reads cells of the program only, and what comes out of the free
\* part of the stack was not in use or is written by it.
Private(c) ==
  /\ Reads(c) \subseteq Own(c)
  /\ \A a \in DOMAIN c.mem :
       FreeStack(c, a) => FreeStack(Step(c, EchoInput), a) \/ a \in Writes(c)

\* The handler is in memory, and the cell it counts in is not the program's.
WorkCell == 255
Serviceable(c) ==
  /\ \A i \in DOMAIN Handler :
       HandlerAt + i - 1 \in Own(c) /\ c.mem[HandlerAt + i - 1] = Handler[i]
  /\ WorkCell \notin DOMAIN c.mem /\ ~FreeStack(c, WorkCell)

\* The program alone is so in every state, and the handlers nest no deeper than the room
\* they are left.
Disciplined ==
  /\ 8 * depth <= StackRoom
  /\ program.name # "rst_ring" => Serviceable(shadow)
  /\ ~shadow.halted /\ steps < MaxSteps => Private(shadow)
===========================================================================
