# A verification of retronet-8080

retronet-8080 is an Intel 8080 emulator in Go: an instruction-level CPU (`cpu`), a machine
around it (`machine`: memory bus, I/O ports, peripherals, a front panel with READY/WAIT and
interrupts, a debugger), a conformance suite and a command line. This directory holds TLA+
models of it, the TLC configurations that check them on small instances, and theorems checked by
TLAPS. File and line references are to `src/`.

To repeat a run: `tlc -config FrontPanel_safety.cfg MCFrontPanel`. To repeat a proof: `tlapm
FrontPanelProofs.tla`. `PROJECT.json` lists the runs, the theorems, the hazards and the lines
each definition models.

## 1. Inventory

| Part | State | Operations | Modules |
| --- | --- | --- | --- |
| Front panel, `machine/frontpanel.go` | atomics `running`, `stopRequested`, `ready`, `waiting`; the cycles of the instruction in progress; `pendingInterrupt` behind a mutex | `Run`, `Step`, `Stop`, `Reset`, `Jam`, `Deposit`, `SetReady`, `SetReadyCallback`, `RequestInterrupt` | `FrontPanel`, `InterruptLatch`, `FrontPanelProofs` |
| Debugger, `machine/debugger.go`, `observable_memory.go` | breakpoints, watchpoints, recorded accesses, sequence number | `Step`, `Run`, `Add...` | `Debugger`, `DebuggerProofs`; its events and their sink in `Command` |
| CPU, `cpu/step.go`, `execute.go`, `cpu.go` | registers, flags, PC, SP, halt, interrupt enable, counters | `Step`, `Jam`, `Reset` | `Cpu8080`, `CpuInstructions`, `CpuPrograms`, `MachineProofs`, `CpuProofs`, `ProgramProofs` |
| ALU, `cpu/alu*.go` | none | add, sub, logic, inc, dec, rotate, DAA, DAD | `Alu8080`, `AluSweep`, `AluProofs` |
| Decoder, `cpu/decoder.go`, `opcode.go` | none: a table | `Decode` | `Decoder8080` |
| Memory bus, `machine/memory.go` | cells, the region map | `Read`, `Write`, `LoadBytes`, `LoadROM` | `MemoryBus`, `CommandProofs` |
| Peripheral bus, `machine/peripheral.go`, `io.go` | owners of ports, callback table, latches | `Attach`, `Detach`, `OnInput`, `OnOutput` | `PeripheralBus`, `IoProofs`; the CPU's accesses in `IoPorts` |
| Terminal, `machine/terminal.go` | input queue, writer, sticky error | `QueueInput`, `Attach...`, the two callbacks | `IoPorts`, `ByteStream`, `IoProofs` |
| Profiles, `machine/profile.go` | static tables | `Lookup`, `LoadROM`, `LoadBytes` | `MemoryBus`, `Command` |
| Conformance suite, `conformance/` | none | `RunCase`, `RunSuite`, `VerifyLocalROM`, CP/M diagnostics | the synthetic programs, in `CpuPrograms`; verification in `Command` |
| Disassembler and encoders, `cpu/disasm.go`, `helpers.go` | none | `Disassemble`, text; opcode families | `CpuInstructions`, `Decoder8080` |
| Command line, `cmd/retronet-8080` | the trace file and its error, the exit status | `run` | `Command`, `CommandProofs` |
| Scripts, docs, CI | none | | not modelled |

**How they interact.** All calls are synchronous, apart from those on the panel.
`FrontPanel.Run` loops over `FrontPanel.Step`, which decodes the instruction at PC (or the
pending interrupt), submits each of its declared machine cycles to `ReadyCallback` and then
calls `CPU.Step` or `CPU.Jam`. The CPU reads and writes memory through an interface (flat
memory, the memory bus, or the observable memory that records for the debugger) and ports
through the callback table of `CallbackIO`, which `PeripheralBus` guards with owners. The
debugger calls `FrontPanel.Run(1)` for each of its steps. Other goroutines may call `Stop`,
`SetReady`, `RequestInterrupt` and the terminal's `QueueInput` at any time. The command builds
one machine, loads ROM images and a program into it, runs the panel or the debugger once, and
turns all that went wrong into an exit status.

**What is hard, and what makes each part correct.**

- *Front panel.* Several goroutines, atomics read and acted upon later, an instruction that may
  be suspended between two machine cycles and resumed by another call. Correct when one
  goroutine at most is in the CPU; no stop and no interrupt is lost or served twice; a suspended
  instruction is resumed as it was left; `Run` reports the truth; `Run` returns when asked.
- *Debugger.* It reads the panel before it runs it, while requests keep coming. Correct when a
  step executes at most one instruction and never one at a breakpoint, the event carries the
  accesses of that instruction and no others, and a hit watchpoint stops the run.
- *CPU and decoder.* Arithmetic at the width of its registers, two tables (cycles and execution)
  written apart, instructions forced without a fetch. Correct when tables agree, time covers the
  accesses, pairs of instructions undo each other, and interrupts are invisible to programs that
  are written for them.
- *ALU.* Carries from exclusive ors, a borrow inverted in one place and not in the other, DAA.
  Correct when results and flags mean the numbers they stand for.
- *Memory and peripheral bus.* Operations refused halfway; two tables that must agree, one of
  which others write. Correct when a refusal changes nothing, ROM survives, nobody loses a port
  to another.
- *Terminal.* A queue filled on other goroutines, a writer that fails once and then works again,
  a port that is taken away between two bytes. Correct when each direction is a stream: in order,
  each byte once, and an end that is told.
- *Command.* Many things fail and one number is returned. Correct when it is 0 exactly if nothing
  went wrong, when the trace file is closed and has no hole, and when a program starts only as
  its file has it.

The hazards are listed one by one, at their lines, in `PROJECT.json`, with the properties that
would catch each of them.

## 2. The modules

### FrontPanel (with InterruptLatch)

A goroutine inside `Run` or `Step` is a runner with a program counter `at`, which `BeginRun` sets
after it acquired `running`: `top` (the head of the loop: the limit, and a stop request to
consume), `check` (halted and nothing pending?), `observe` (the observer's turn), `prepare` (go on
with the suspended instruction, or take the pending interrupt, or decode the opcode at PC),
`cycle` (one cycle submitted to READY, and after the last one the execution), `clear` (empty the
latch after a forced instruction), `classify` (why the loop ended), `return` (release `running`).
One action is the code between two accesses to something another goroutine may touch, so every
interleaving of the Go program has a counterpart. `Stop`, `SetReady` and `RequestInterrupt` may
come in every state. `Reset`, `Jam`, `Deposit`, `SetReadyCallback` and a bare `Step` belong to the
owner of the panel while nothing runs, as the comment on the type (frontpanel.go:80-81) demands.

Instructions are reduced to the classes the panel can tell apart: NOP falls through, RST writes
memory and jumps, OUT uses a port, HLT halts, UNDEF fails to execute. RST writes any class at
any address and jumps anywhere, so the model has more programs than the CPU, never fewer. Memory
wraps at `MemSize` as the PC does at 65536.

`InterruptLatch` is what the panel promises for interrupts: a place for one request, which is
accepted only when the place is empty and leaves it by being forced or by being discarded. The
panel implements it (`LatchSpec`), by a mapping that empties the place when the instruction has
been executed although the code clears the latch later, under another acquisition of its mutex
(frontpanel.go:293-298).

The variables `accepted`, `forced`, `dropped`, `lastForced` are history: no guard of
the code reads them.

### Debugger

Extends `FrontPanel`: the debugger is its one runner, and everything others may do to the panel
may happen between two actions of a debugger step. `Snapshot` reads PC and clears the records,
`Decide` takes the pending interrupt or the opcode and looks at the breakpoints, `CallRun`
enters `panel.Run(1)`, the panel's own actions follow, `ReturnFromRun` brings the result, and
the report is made from it and from what the observers of memory and ports recorded. `executed`,
a history variable, says what the CPU really executed.

### Alu8080, Decoder8080, Cpu8080

`Alu8080` has the native arithmetic as the code computes it, carries from `a ^ b ^ sum`
included, with bitwise operators of its own on digits so that it can be proved about.
`Decoder8080` is the table: length, states and machine cycles of every opcode, written by
families as octal digits, where the code has a switch. `Cpu8080` is one record for the machine
and pure functions `Step` and `JamOf` on it; the field `bus` logs the machine cycles
an instruction makes, to be compared with those the decoder declares. The result of arithmetic
is that of `Alu8080`.

`AluSweep` counts through every input of the arithmetic unit, one per state. `CpuInstructions`
puts an instruction at PC (or jams it), executes it, and compares the machine with the one
before. `CpuPrograms` runs programs: one action is `CPU.Step` or the `CPU.Jam` of an interrupt,
as the panel calls them, or a wait state of what the panel has prepared (`held`): a prepared
instruction is never replaced by an interrupt. Its history variable `shadow` is the machine the
program would be in had no interrupt come: `InterruptsTransparent` says that the two agree
whenever no handler is in progress, on everything but the interrupt enable and the stack below
SP. Its last section has the cells each instruction reads and writes, and `Disciplined`, the
hypothesis of the theorems about programs. `clock` has the CPU's counters, with `recordTiming` and `RecordWaitState`; `TimeAccounted`
compares them with what the shadow takes.

### MemoryBus, PeripheralBus

`MemoryBus` merges the arrays `kinds` and `mapped` (kind `none` for an unmapped cell); the
region map is chosen in `Init` among those `NewMemoryBus` accepts; maps with cells in two
regions or upside down are offered and refused. `burned` is history: what `LoadROM` put in each
cell last.

`PeripheralBus` works on places, pairs of a direction and a port; each call holds the mutex of
the bus and is one step. `granted` and `direct` are history: what each owner attached where, and
which places were written behind the bus's back. `On` and `AttachPorts` write the callback table
only, as `OnInput`, `OnOutput` and the terminal do.

### IoPorts (with ByteStream)

Extends `PeripheralBus` with the ports at work. The CPU's access is two steps, `Input` or `Output`
(latch) and `CallInput` or `CallOutput` (the handler); `QueueInput` may come in between and at
any other time. Handlers are what the callback table says at that moment; one of them, `TTY`, is
the terminal's, with its queue, writer and sticky error. The calls of `PeripheralBus` happen
between two accesses, as `CallbackIO` has no lock and its comment promises none. `ByteStream` is
what the terminal promises in each direction; `InputStreams` and `OutputStreams` are the
refinements, the one with a stream that never breaks, the other with one broken by the first
failed write. TLC checks the second; the first follows from the stronger `InputInOrder` and is
proved.

### Command

Extends `MemoryBus` with one run of `main.run`, in stages: `start` (flags, modes, profile,
attachments), `roms`, `program`, `prepare` (`-disasm`, the trace file), `running`, `ending`
(the trace file closed, errors told), `exit`. The request is a record of what `runConfig` holds;
every error path of the code is a disjunct that adds its cause to the history variable `faults`.
Instructions are reduced to what main can see of them; the debugger's events are the pairs of
sequence and kind that `emit` numbers, the sink writes and `Debugger.Run` counts. What a step of
the panel or of the debugger does in detail is in `FrontPanel` and `Debugger`.

A definition named `X_Y`, just before `X`, is `X` with the plausible mistake `Y`. Nothing uses
it: it stands in for `X` when the strength of a property is measured.

## 3. The runs

| Run | Instance | Shows |
| --- | --- | --- |
| `FrontPanel_safety` | 2 goroutines, classes NOP RST HLT UNDEF, 2 cells, limit 0, 1 or none, 2 requests, symmetric goroutines | mutual exclusion, the ledger of requests, the coherence of a suspended instruction, the reason of `Run`, the fate of a stop request, the order of cycles, the latch refinement |
| `Debugger_safety` | 1 goroutine, classes RST OUT HLT, 2 cells, 1 breakpoint of any kind, 1 request | what a debugger step executes, reports and stops at |
| `Liveness` | the same modules: 1 goroutine, used as debugger and as plain runner, classes RST HLT UNDEF, 1 cell, limits to 2, 2 requests, fairness | a stop or a limit ends `Run`, a pending interrupt is served, a debugger run with a finite count returns |
| `AluSweep` | 131072 inputs: all pairs of bytes, both carries | arithmetic means numbers; DAA adds decimals |
| `CpuInstructions` | 256 opcodes, stepped and jammed; operands 0, 1, 255; SP 0, 1, 65534; PC 0 and 65535; several registers and flags | decoder and executor agree on failures, cycles and time where they claim to; CALL and RET, and pairs of inverse instructions, undo each other; the disassembler's line is about what executes |
| `CpuPrograms` | the suite's programs and more, 20 steps, 2 interrupts or wait states at any instruction | interrupts are transparent, verdicts hold, time is accounted for, programs end |
| `MemoryBus` | 4 cells, 4 values, maps with all kinds of region, blocks up to the size of memory | ROM survives, refusals leave nothing behind |
| `IoPorts` | 1 port number (2 places), 2 peripherals, the terminal's handlers and another's, 3 bytes of traffic, symmetric names | owners and handlers agree, attaching is all or nothing, the terminal's input keeps its order, its output is a stream whose end is told |
| `Command` | several hundred command lines over 3 cells, 2 overlapping ROM images, `-steps` up to 3, each failure at any time | the exit status is honest, the trace has no gaps and is closed, programs start whole |

Three more runs (`Debugger_stop`, `CpuInstructions_cycles`, `PeripheralBus_detach`) end in a
violation, each of one statement that a comment of the repository makes and the code does not
keep; see section 6.

**Why these bounds are enough.** *Panel:* two goroutines are the smallest race; each conflict is
between a runner and one caller, and callers are not bounded in number, only the requests they
get accepted are: two requests make the second arrive in every phase of the first. Two cells
tell the address being suspended from another; limit 1 has a run that ends by its limit and one
that does not begin (0), and the unlimited run saturates its count. *Debugger:* one breakpoint
or watchpoint can be of each kind; two cells tell a watched address from another. The `VIEW`
drops the history of requests, which no property of that run reads. *CPU:* the wide state is PC,
SP, HL and the flags: all are set at the places where they wrap or flip; the function is per
instruction, so no sequence is needed. *Programs:* two interrupts are the first that nest, and
arrive at any two instructions. *Memory:* four cells hold two regions, a gap and a load that
ends exactly at the end. *Ports:* two names and an input and an output place make every conflict:
same place other owner, same owner other place, direct handler under an owner, a refusal at the
second place; three bytes are one read, one waiting and one more, or one written, one lost and
one sent after the loss. `PeripheralBus_detach` uses two port numbers. *Command:* the images are
shorter than memory, as long as it and longer; programs lie beside, over and beyond them; three
events are one before an error of the encoder, one at it and one after. The theorems of
section 5 remove most of these bounds.

**Deadlock** is checked for the panel and the debugger. It is switched off for runs whose system
stops by nature (one step per input; a program or a command that has ended) and for the two
buses, whose callers owe no call.

**Fairness** is weak and only on what the program itself schedules: the next action of the
goroutine inside the debugger or in a `Run` of the panel that the owner began between two
debugger calls (`DebugStep`), of the program, its handler or an interrupt that is already
prepared in `CpuPrograms`. The Go scheduler runs
every runnable goroutine, `Run` is a `for` loop without blocking calls, and the atomics and
mutexes it uses are released by their holders in one action. Callers owe nothing: nobody has to
stop, to raise READY, to request or to call again. Hence an instruction suspended by READY may
stay suspended for ever; no property says otherwise.

## 4. The properties

The comment above each property states it and names the lines it is about. Those worth a
reader's first look:

- `InterruptLedger`: accepted requests = forced + discarded + pending, in every interleaving of
  the latch's separate acquisitions (frontpanel.go:293-298, 306).
- `StopAnswered` and `StopEndsRun`: the flag `stopRequested` is lowered only by a `Run` that
  then reports a reason which explains its end, or by `Reset`; and a stop does end the run.
- `WaitCoherent` and `CyclesInOrder`: what is suspended is what the WAIT light shows and what
  resumes.
- `AccessesBelong`, `EventNamesOpcode`: the accesses in an event are those of the one
  instruction of that step, and its opcode too when the event is right about whether it was
  forced.
- `DecimalSum`: adding two packed decimals and DAA gives the decimal sum and carry.
- `DecoderAgrees`: which instructions fail, their bus traffic and the time they need are what the
  decoder declares, apart from the opcodes of `Undeclared`, for which `AllCyclesDeclared` is violated.
- `InterruptsTransparent`: `PUSH PSW` / `POP PSW`, `RST` by `Jam`, and the resumption after a
  halt fit together.
- `TimeAccounted`: states = those of the program alone + wait states + those of the interrupts,
  and every wait state is charged to exactly one instruction, the one that waited.
- `DisassemblyAgrees`: the operand and the next address of a disassembled line are where the
  instruction goes, loads or stores.
- `RefusedChangesNothing`, `AttachAllOrNothing`: nothing is left behind by what was refused at
  its last element.
- `InputInOrder`, `OutputStreams`, `LossIsTold`: the terminal through any history of its ports.
- `TraceIsSound`: the trace file is a prefix of the events, whatever fails, and is closed.
- `StatusIsHonest`: the status is 0 exactly if nothing went wrong, although the errors of the
  run, of the sink, of closing and of the terminal travel by different ways.
- `ProgramIsWhole`: the byte-by-byte loading of `profile.go`, had the command come to it, would
  start programs with ROM in their middle.

## 5. The proofs

All by TLAPS, for every value of the constants that satisfies the named assumptions.

| Module | Theorems | Argument |
| --- | --- | --- |
| `FrontPanelProofs` | `PanelInvariant`; from it `TypeCorrect`, `MutualExclusion`, `RequestsAccounted`, `WaitIsCoherent`, `ReasonsTrue`, `StopsAnswered`, `CyclesSampledInOrder`, `PanelImplementsLatch` | inductive invariant `PanelInv`, below |
| `DebuggerProofs` | `DebuggerRunsPanel`, `DebugInvariant`; from them `OneInstructionHolds`, `BreakpointsHold`, `EventsAreTrue`, `EventsNameOpcode`, `WatchpointsStop` | every step of the debugger is one of the panel; inductive invariant `DebugInv`, below |
| `AluProofs` | `AdditionIsExact`, `SubtractionIsExact`, `LogicIsConsistent`, `DecimalSumIsExact` | a byte is its binary digits; exclusive or by digits; carry chain unrolled; the adjustment of each decimal digit by cases |
| `MachineProofs` | none listed: the lemmas the next two share | what each operator of `Cpu8080` keeps of a machine; an opcode is its octal digits; one lemma per kind of instruction |
| `CpuProofs` | `InstructionInvariant`; from it `DecoderTellsTheTruth`, `CallsReturn`, `DisassemblyTellsTheTruth`, `InversesAreInverse` | the machine is what one instruction made of another; below |
| `ProgramProofs` | `StepTwin`, `WaitStatesCharged`, `TransparentWhenDisciplined`, `TimeAccountedWhenDisciplined`, `SuiteVerdictsHold` | inductive invariants `InterruptsNest`, a list of contexts with one for each nested handler, and `SuiteGoesOn`, where each case of the suite is; below |
| `IoProofs` | of the bus `OwnersAlwaysMatch`, `AttachIsPolite`, `RefusedAttach`; of the ports `PortsKeepTheBus`, `IoTypes`, `InputKept`, `LossTold`, `InputIsAStream`, `OutputIsAStream` | `Grant` keeps owners, handlers and grants together; every step of the ports is a step of the bus or leaves it alone, so its theorems carry over; below |
| `CommandProofs` | of the memory `TypesHold`, `RomIsKept`, `RomIsProtected`, `RefusedLoad`; of the command `MemoryIsKept`, `CommandIsHonest`, `TraceHasNoGaps`, `ProgramsStartWhole` | a burned cell is ROM and holds what was burned; a refusal changes `result` only; every step of the command is a step of the memory or leaves it alone; below |

`PanelInv` is the conjunction of the type invariant, mutual exclusion (`OneRunner`), the
invariant of the cycle in progress (`CycleInv`), the ledger, the count (`CountInv`) and
`ReasonTruthful`. None of the properties is inductive alone: that the reason "limit" is true
needs to know, at each place of the loop, how steps compare with the limit; that the light shows
the suspended instruction needs to know which places of the loop hold an active instruction and
that a runner between two cycles is the only one; the ledger needs that only the one runner is
between forcing and clearing, and that no Reset is then possible. The proof has one step per
action and below it one per conjunct. The refinement and the action properties follow from the
invariant and a case split on the same actions.

`InputInOrder` is inductive with the types of the sequences, and gives the refinement of the
input: what has been read is a prefix of what was queued. `LossIsTold` needs that a byte is in
flight exactly while an output is at its second step. `OutputStreams` needs more, since the bytes
written must be a prefix of those sent also after the error: once `err` is set nothing is written.
`StatusIsHonest` is about the last step; its invariant says at every stage which faults the
variables `terminalErr`, `runErr` and `file.err` stand for, that there is no other before `ending`,
and where the file can be open. `TraceIsSound` needs that the file has all the
events as long as no line of it failed, and takes none after one did (`TraceInv`); `ProgramIsWhole`
that the program is loaded last, by a call that wrote all its bytes or refused (`ProgramInv`).

`DebugInv` extends `PanelInv` to a program that reads the panel, calls it and reads it again.
`DebuggerRunsPanel` comes first: every step of the debugger, of the owner and of the others is a
step of the panel or leaves the panel alone, so `PanelInv` holds under the debugger without a
second proof. The rest says what the debugger may rely on at each of its places: until the panel
has tried to execute, nothing is recorded, PC is that of the event and no breakpoint (`FreshInv`),
and what the event names is what would be executed (`NamedInv`); the place inside `panel.Run(1)`
tells whether the one instruction was executed (`OnceInv`, `ResultInv`), since a limit of 1 ends
the run after it; what was executed is what the event and the records say until they are reported
(`ExecutedInv`). The hard case is an execution that fails: it has moved PC and has no event. The
one assumption added is that a run of one instruction is a finite run (`FiniteLimitAssumption`).

`CpuProofs` is about one instruction from any machine, which `CpuInstructions` begins with any
registers, flags and stack pointer. In `MachineProofs`, an opcode is 64x + 8y + z, and its family a
condition on x, y and z (`FamilyOf`), so that no two arms of `Execute` apply to it (`OneArm`). For each kind of
instruction a lemma says what it keeps and changes and which bus cycles it adds; `ExecuteType`
puts them together: every opcode maps a well-formed machine to a well-formed one. The invariant
`InstructionInv` is that `m` is what the last instruction made of `before`, or that and the
refusals of a CPU it halted; no property about `m` and `before` is inductive without it. Then

- `CallsReturn`, `DisassemblyTellsTheTruth` follow from where each instruction leaves PC and SP
  (`Leaping`), with words that wrap at 65536;
- `InversesAreInverse` executes the two arms one after the other; a byte on the stack or under HL
  is found again also when the word lies across the end of memory, and the rotations are inverse
  as arithmetic on A and the carry, not by listing values;
- `DecoderTellsTheTruth` counts the cycles of each family twice, as the decoder declares them
  (`Declared`) and as the execution performs them (`Performed`), and compares the counts and the
  states (`StatesAre`).

`ProgramProofs` is about whole programs. That interrupts are invisible is not true of every program:
one may read below its stack pointer, or overwrite the handler. `Disciplined` says of the program
*alone*, the history variable `shadow`, that its next instruction reads only cells that are its
own, that what comes out of the free part of the stack is not in use, that the handler is in
memory and its counter elsewhere; and that handlers nest at most eight deep, which is the room they
have. The module `MCCpuPrograms` has TLC check it of every program of the run, executed alone
(`CasesAreDisciplined`), so the theorems' hypothesis is one that the programs meet. Then:

- `StepTwin` is non-interference for one instruction: with `Reads` and `Writes`, the cells it may
  read and write, two machines that agree on the registers, the flags and what is read agree
  afterwards. It is proved opcode family by opcode family (`ExecuteTwin`), and shows that `Reads`
  leaves out nothing.
- `InterruptsNest`, the invariant, has a list `f` of contexts, `f[0]` the program's and one for each
  handler begun and not returned from. A handler is in one of twelve places; in each, `ServingAt`
  says which saved bytes are on the stack, which registers still hold what they did, and the time
  since the interrupt. No weaker statement is inductive: a RET is right only if all that the handler
  below will pop is still where it was pushed, so all contexts are needed, and each must lie above
  the one before (`Nested`).
- The handler is executed symbolically, one lemma for each of its instructions (`MovePush`,
  `MoveRegisters`, `MoveCount`, `MovePop`, `MoveReturn`); `FramesAdvance`, `FramesReturn` and
  `FramesInterrupt` say that the other contexts do not notice.
- `CpuTime` and `CpuCount` are the CPU's counters with wait states and finished interrupts deducted;
  the last context holds them, the first the program's own, and each place of the handler knows
  the difference. That gives `TimeAccounted`. That wait states are charged once needs no discipline
  (`WaitStatesCharged`).

- `SuiteVerdictsHold` is about the ten programs of `synthetic.go`, and does not take their
  discipline as a hypothesis. Its invariant `SuiteGoesOn` adds to `InterruptsNest` where the program
  alone is after each of its instructions, what its registers, flags and cells hold there and
  how long it took (`SuiteRuns`); from that follows that the next instruction is `Private` and the
  handler `Serviceable` (`SuiteDisciplined`), hence that `InterruptsNest` is kept, and at the halt the
  verdict (`SuiteJudged`). The ring of restarts, which gets no interrupts, is followed by its stack
  pointer. Two hypotheses are left: `HandlersFit`, that handlers nest at most eight deep, and
  `2 * MaxSteps + 64 <= 65536`, without which the ring's stack would reach the ring itself; its case
  ends after 8 steps.

Before they were proved, TLC checked `InterruptsNest`, `Disciplined` and `SuiteRuns` as invariants
of the run, with the list of contexts computed from the stack.

Type invariants (`TypeOK`, `IoTypeOK`) are proved for all constants, as the other proofs need
them, and no run repeats them.

**Only model-checked:**

- liveness (`StopEndsRun`, `LimitEndsRun`, `InterruptServed`, `DebugRunEnds`, `ProgramsEnd`): the
  prover has no proof rules for `ENABLED` here;
- what a recursive definition computes for every input: induction over data is out of this
  prover's reach. `Alone` in `MCCpuPrograms` is the one such definition that matters; TLC computes it.

No instance assumption is hidden: the constants of each run satisfy the `ASSUME`s of the modules,
which TLC evaluates.

## 6. Where the comments and the code differ

Each of these has a run that ends in the violation:

1. `Debugger_stop`: a stop request that arrives while the debugger's one instruction executes is
   consumed by the panel, and the debugger goes on (debugger.go:204, comment at
   frontpanel.go:334).
2. `CpuInstructions_cycles`: STAX, LDAX, XTHL, INR M, DCR M and others access memory in cycles
   that are not declared, so READY is not sampled for them (decoder.go:188, comments at
   frontpanel.go:30, 40).
3. `PeripheralBus_detach`: `Detach("")` removes the handlers of all ports without an owner
   (peripheral.go:120, comment at 114).

Behaviour met while modelling that a reader may not expect, and that no comment clearly
excludes. The model keeps it, and the properties say what remains true:

- The opcode whose cycles were submitted to READY is fetched again to be executed. After a
  `Deposit` while the instruction waits, the CPU executes cycles READY never saw
  (frontpanel.go:290, 317).
- A forced instruction whose execution fails stays in the latch and is forced again at each
  step; further requests are refused until a `Reset` (frontpanel.go:293). `InterruptLedger`
  counts it as pending.
- A trace event may call a forced instruction fetched, or the reverse, because it is written
  before the panel decides (debugger.go:232). `EventNamesOpcode` and `AccessesBelong` say that
  the rest of it is right.
- `-trace` is ignored without a word when `-trace-json`, a breakpoint or a watchpoint is given
  (main.go:341-373); `-panel-switches` wins over `-input 0=...` (main.go:248-259).
- Both ROM slots of a profile begin at address 0: the later image overwrites the earlier one
  (profile.go:142-159). `RomKept` speaks of the last image at each address.
- An instruction that fails emits no event (debugger.go:171), so a trace ends before it.
- What the command prints on stdout may fail to be written; nobody looks.
- The comment at terminal.go:41 names output port 8 for the terminal's default attachment; the
  code attaches port 1 (line 12).

## 7. What is not modelled, and why

- *Gate-level ALU backend*: it is in another repository; `alu_diff_test.go` compares it with the
  native one.
- *I/O latches, observers, the register peripheral's value*: one assignment each, read back by
  the caller; nothing decides on them.
- *Text*: the disassembler's, the JSON of an event, everything the command prints, the syntax of
  its flags.
- *CP/M diagnostics*: large binaries, beyond an explicit-state checker.
- *The five profiles*: two kinds of memory map, which `Command` has; their names and hints are
  documentation.
- *Calls the type's comment forbids* (`Deposit`, `Reset`, `Jam`, a bare `Step` during a `Run`):
  the guards on `running` in the code are advisory, and the hazard list says so.

## 8. Plan

Done: the panel, the debugger, the ALU, the decoder, the CPU by instruction and by program with
its time, the memory and the peripheral bus, the ports with the terminal, the command, and proofs
of the safety properties of all of them. Next, in this order:

1. `PanelCpu`: the panel over the real CPU on a few opcodes, shown to implement `FrontPanel`
   with the classes as abstraction of opcodes.
2. The counters of the CPU (`recordTiming`) in `Cpu8080` itself, with their overflow.
3. `Disciplined` in a form that can be read off a program's text, for programs without computed
   addresses.
