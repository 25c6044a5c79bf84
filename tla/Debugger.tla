----------------------------- MODULE Debugger -----------------------------
(***************************************************************************)
(* The debugger of src/machine/debugger.go on top of the front panel.      *)
(*                                                                         *)
(* A debugger step reads the panel (Snapshot, PendingInterrupt), decides   *)
(* on breakpoints, calls panel.Run(1) and reports what it read before and  *)
(* what the observers of memory and I/O recorded meanwhile.  Only one      *)
(* goroutine uses the debugger and the panel; Stop, SetReady and           *)
(* RequestInterrupt come from others and may fall between any two of those *)
(* readings.                                                               *)
(*                                                                         *)
(* `executed` is a history variable: the instruction the CPU executed      *)
(* since the debugger step began.  The events are compared with it.        *)
(***************************************************************************)
EXTENDS FrontPanel, FiniteSets

CONSTANTS
  Dbg,             \* the goroutine of the debugger
  MaxBreakpoints   \* bound on the breakpoints and watchpoints set

ASSUME DbgAssumption == Dbg \in Runner
ASSUME MaxBreakpointsAssumption == MaxBreakpoints \in Nat
ASSUME FiniteLimitAssumption == MaxLimit >= 1    \* Run(1) is a finite run

VARIABLES
  pcBreakpoints, opcodeBreakpoints, memoryWatchpoints, ioBreakpoints,
  dbgAt,        \* where Debugger.Step is
  left,         \* instructions Debugger.Run may still execute
  event,        \* the event under construction, then the last one emitted
  result,       \* what panel.Run(1) returned: steps and reason
  accesses,     \* memoryWrites and ioAccesses
  outcome,      \* the DebugStopReason of the last debugger step
  executed      \* history: what was executed since the step began

breakVars == <<pcBreakpoints, opcodeBreakpoints, memoryWatchpoints, ioBreakpoints>>
stepVars == <<dbgAt, left, event, result, outcome>>
dbgVars == <<breakVars, stepVars, accesses, executed>>

NoAccess == [writes |-> {}, ports |-> {}]
NoEvent == [kind |-> "none", pc |-> 0, opcode |-> NoOpcode, interrupt |-> FALSE,
            accesses |-> NoAccess]
NoExecution == [pc |-> 0, opcode |-> NoOpcode, interrupt |-> FALSE, accesses |-> NoAccess]
NoResult == [steps |-> 0, reason |-> "none"]
Unlimited == MaxLimit + 1

---------------------------------------------------------------------------
(* Breakpoints, set while nothing runs.                                    *)

Breakpoints == Cardinality(pcBreakpoints) + Cardinality(opcodeBreakpoints)
               + Cardinality(memoryWatchpoints) + Cardinality(ioBreakpoints)

Configure(v, x, rest) ==
  /\ dbgAt = "idle" /\ Quiet
  /\ Breakpoints < MaxBreakpoints
  /\ v' = v \cup {x}
  /\ UNCHANGED <<vars, rest, stepVars, accesses, executed>>

AddPCBreakpoint(a) == Configure(pcBreakpoints, a,
  <<opcodeBreakpoints, memoryWatchpoints, ioBreakpoints>>)
AddOpcodeBreakpoint(k) == Configure(opcodeBreakpoints, k,
  <<pcBreakpoints, memoryWatchpoints, ioBreakpoints>>)
AddMemoryWatchpoint(a) == Configure(memoryWatchpoints, a,
  <<pcBreakpoints, opcodeBreakpoints, ioBreakpoints>>)
AddIOBreakpoint(p) == Configure(ioBreakpoints, p,
  <<pcBreakpoints, opcodeBreakpoints, memoryWatchpoints>>)

---------------------------------------------------------------------------
(* Debugger.Step and Debugger.Run.                                         *)

\* clearAccesses at the head of a step.
Cleared_Not == accesses
Cleared == NoAccess

\* Forget the last step and begin one: clear the records, take the snapshot.
Snapshot ==
  /\ accesses' = Cleared
  /\ event' = [NoEvent EXCEPT !.pc = PC]
  /\ result' = NoResult
  /\ outcome' = "none"
  /\ executed' = NoExecution
  /\ dbgAt' = "event"

\* Step, or Run(n), called on a quiet panel; a step is a run of one instruction
\* that does not report the limit.
BeginDebug(n) ==
  /\ dbgAt = "idle" /\ Quiet
  /\ left' = n
  /\ Snapshot
  /\ UNCHANGED <<vars, breakVars>>

\* nextEvent: the pending interrupt if there is one now, otherwise the
\* instruction at PC, nothing on a halted CPU.
NextEvent_NamesFetched ==
  [event EXCEPT !.opcode = IF halted THEN pendingInterrupt ELSE mem[event.pc],
                !.interrupt = pendingInterrupt # NoOpcode]
NextEvent ==
  IF pendingInterrupt # NoOpcode
  THEN [event EXCEPT !.opcode = pendingInterrupt, !.interrupt = TRUE]
  ELSE [event EXCEPT !.opcode = IF halted THEN NoOpcode ELSE mem[event.pc]]

\* breakpointReason: PC first, whatever would be executed there; then the opcode.
HitsBreakpoint_SkipsInterrupt(e) ==
  ~e.interrupt /\ (e.pc \in pcBreakpoints \/ e.opcode \in opcodeBreakpoints)
HitsBreakpoint(e) == e.pc \in pcBreakpoints \/ e.opcode \in opcodeBreakpoints

\* The step ends with reason `why`.
Finish(why) == outcome' = why /\ dbgAt' = "done"

Decide ==
  /\ dbgAt = "event"
  /\ \/ /\ HitsBreakpoint(NextEvent)
        /\ event' = [NextEvent EXCEPT !.kind = "breakpoint"]
        /\ Finish("breakpoint")
     \/ /\ ~HitsBreakpoint(NextEvent)
        /\ event' = NextEvent
        /\ dbgAt' = "call"
        /\ UNCHANGED outcome
  /\ UNCHANGED <<vars, breakVars, left, result, accesses, executed>>

\* The panel is called for one instruction, and its result comes back.
CallLimit_Whole == left
CallLimit == 1
CallRun ==
  /\ dbgAt = "call"
  /\ BeginRun(Dbg, CallLimit)
  /\ dbgAt' = "running"
  /\ UNCHANGED <<breakVars, left, event, result, outcome, accesses, executed>>

ReturnFromRun ==
  /\ Return(Dbg)
  /\ IF dbgAt = "running"
     THEN /\ result' = [steps |-> steps[Dbg], reason |-> reason[Dbg]]
          /\ dbgAt' = "report"
     ELSE UNCHANGED <<result, dbgAt>>
  /\ UNCHANGED <<breakVars, left, event, outcome, accesses, executed>>

\* The reason reported after an executed instruction: watchpoint before I/O
\* breakpoint before a CPU that stopped.
AfterInstruction_NotForced ==
  IF accesses.writes \cap memoryWatchpoints # {} /\ ~event.interrupt THEN "watchpoint"
  ELSE IF accesses.ports \cap ioBreakpoints # {} THEN "io"
  ELSE IF result.reason = "cpu" THEN "cpu" ELSE "continue"
AfterInstruction ==
  IF accesses.writes \cap memoryWatchpoints # {} THEN "watchpoint"
  ELSE IF accesses.ports \cap ioBreakpoints # {} THEN "io"
  ELSE IF result.reason = "cpu" THEN "cpu" ELSE "continue"

\* Debugger.Run counts an executed instruction.
LeftAfter_Not(n) == n
LeftAfter(n) == IF n = Unlimited THEN n ELSE n - 1

Report ==
  /\ dbgAt = "report"
  /\ \/ /\ result.reason = "error"
        /\ event' = NoEvent
        /\ Finish("error")
        /\ UNCHANGED left
     \/ /\ result.reason # "error" /\ result.steps = 0
        /\ event' = IF result.reason = "waiting" THEN [event EXCEPT !.kind = "wait"] ELSE NoEvent
        /\ Finish(result.reason)
        /\ UNCHANGED left
     \/ /\ result.reason # "error" /\ result.steps > 0
        /\ event' = [event EXCEPT !.kind = "instruction", !.accesses = accesses]
        /\ Finish(AfterInstruction)
        /\ left' = LeftAfter(left)
  /\ UNCHANGED <<vars, breakVars, result, accesses, executed>>

\* Run goes on with the next instruction, or the call returns.
Continues == outcome = "continue" /\ left > 0

Loop ==
  /\ dbgAt = "done" /\ Continues
  /\ Snapshot
  /\ UNCHANGED <<vars, breakVars, left>>

ReturnDebug ==
  /\ dbgAt = "done" /\ ~Continues
  /\ dbgAt' = "idle" /\ left' = 0
  /\ event' = NoEvent /\ result' = NoResult /\ outcome' = "none"
  /\ executed' = NoExecution
  /\ UNCHANGED <<vars, breakVars, accesses>>

---------------------------------------------------------------------------
(* The panel, observed.  Every write that goes through the memory of the   *)
(* panel and every port access is recorded, also those made while no       *)
(* debugger step is in progress.                                           *)

Record(writes, ports) ==
  accesses' = [writes |-> accesses.writes \cup writes, ports |-> accesses.ports \cup ports]

\* One instruction executed by the runner.
ObservedExecute(k, interrupt, o) ==
  /\ Record(o.writes, o.ports)
  /\ executed' = IF o.error # "nil" \/ dbgAt # "running" THEN executed
                 ELSE [pc |-> PC, opcode |-> k, interrupt |-> interrupt,
                       accesses |-> [writes |-> o.writes, ports |-> o.ports]]
  /\ UNCHANGED <<breakVars, stepVars>>

PanelStep ==
  \/ \E o \in StepOutcomes : ExecuteStep(Dbg, o) /\ ObservedExecute(mem[PC], FALSE, o)
  \/ \E o \in JamOutcomes(activeOpcode) :
       ExecuteJam(Dbg, o) /\ ObservedExecute(activeOpcode, TRUE, o)
  \/ /\ \/ Top(Dbg) \/ CheckHalt(Dbg) \/ Prepare(Dbg) \/ SampleReady(Dbg)
        \/ ClearInterrupt(Dbg) \/ Classify(Dbg)
     /\ UNCHANGED dbgVars
  \/ /\ Observe(Dbg) /\ at'[Dbg] = "prepare"    \* the debugger passes no observer
     /\ UNCHANGED dbgVars

\* The owner uses the panel directly between two debugger calls.  Of Run and Step
\* only Step is used here: what they leave behind for the debugger is the same.
OwnerStep ==
  /\ dbgAt = "idle"
  /\ \/ (Reset \/ BeginStep(Dbg)) /\ UNCHANGED dbgVars
     \/ \E k \in Opcode : \E o \in OwnerJamOutcomes(k) :
          Jam(o) /\ Record(o.writes, o.ports) /\ UNCHANGED <<breakVars, stepVars, executed>>
     \/ \E a \in Addr, v \in Opcode :
          Deposit(a, v) /\ Record({a}, {}) /\ UNCHANGED <<breakVars, stepVars, executed>>

DebugStep == Decide \/ CallRun \/ ReturnFromRun \/ Report \/ Loop \/ ReturnDebug \/ PanelStep

DebugInit ==
  /\ Init
  /\ pcBreakpoints = {} /\ opcodeBreakpoints = {}
  /\ memoryWatchpoints = {} /\ ioBreakpoints = {}
  /\ dbgAt = "idle" /\ left = 0 /\ event = NoEvent /\ result = NoResult
  /\ outcome = "none" /\ accesses = NoAccess /\ executed = NoExecution

DebugNext ==
  \/ \E a \in Addr : AddPCBreakpoint(a) \/ AddMemoryWatchpoint(a)
  \/ \E k \in Opcode : AddOpcodeBreakpoint(k)
  \/ \E p \in Port : AddIOBreakpoint(p)
  \/ \E n \in 1 .. Unlimited : BeginDebug(n)
  \/ DebugStep
  \/ OwnerStep
  \/ Environment /\ UNCHANGED dbgVars

DebugSpec == DebugInit /\ [][DebugNext]_<<vars, dbgVars>>

\* The goroutine is scheduled in the debugger and, when the owner runs the panel
\* between two debugger calls without observer, in that run.
OwnerRun ==
  /\ dbgAt = "idle"
  /\ \E n \in 0 .. Unlimited : BeginRun(Dbg, n)
  /\ UNCHANGED dbgVars

FairDebugSpec ==
  /\ DebugInit /\ [][DebugNext \/ OwnerRun]_<<vars, dbgVars>>
  /\ WF_<<vars, dbgVars>>(DebugStep)

---------------------------------------------------------------------------
(* Properties.                                                             *)

\* One debugger step executes at most one instruction, and reports an instruction
\* exactly if one was executed (debugger.go:154-208).
OneInstruction ==
  /\ dbgAt = "done" => (event.kind = "instruction" <=> executed # NoExecution)
  /\ dbgAt = "running" /\ executed # NoExecution =>
       at[Dbg] \in {"clear", "top", "classify", "return"}

\* No instruction is executed by the debugger while PC is at a breakpoint, not
\* even one forced by an interrupt that arrives after the check
\* (debugger.go:162-170, 253-256).
BreakpointHolds == executed # NoExecution => executed.pc \notin pcBreakpoints

\* The address and the memory and port accesses of an instruction event are those
\* of the instruction executed, whatever was recorded before the step: deposits,
\* jams and runs of the panel (debugger.go:156, 195, 286-317).
AccessesBelong ==
  dbgAt = "done" /\ event.kind = "instruction" =>
    event.pc = executed.pc /\ event.accesses = executed.accesses

\* An event that is right about whether its instruction was forced or fetched names
\* its opcode, though it is written before the panel decides, and memory may have
\* changed since the instruction was suspended (debugger.go:230-251).
EventNamesOpcode ==
  dbgAt = "done" /\ event.kind = "instruction" /\ event.interrupt = executed.interrupt =>
    event.opcode = executed.opcode

\* A step that wrote a watched address, used a watched port or halted the CPU, also
\* through an interrupt instruction, says so and ends Debugger.Run
\* (debugger.go:198-207).
WatchpointStops ==
  dbgAt = "done" =>
    /\ executed.accesses.writes \cap memoryWatchpoints # {} => outcome = "watchpoint"
    /\ executed.accesses.ports \cap ioBreakpoints # {} => outcome \in {"watchpoint", "io"}
    /\ outcome = "continue" => ~halted

\* A debugger call with a finite count returns (debugger.go:211-228).
DebugRunEnds == dbgAt # "idle" /\ left # Unlimited ~> dbgAt = "idle"

\* The comment on Stop and the reason DebugStoppedRequested: a stop request ends
\* the run of the debugger (frontpanel.go:334, debugger.go:26).
StopEndsDebugRun == dbgAt # "idle" /\ stopRequested ~> dbgAt = "idle"
===========================================================================
