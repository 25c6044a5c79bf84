-------------------------- MODULE DebuggerProofs --------------------------
(***************************************************************************)
(* Proofs about Debugger for every memory size, finite limit, number of    *)
(* requests and of breakpoints.                                            *)
(*                                                                         *)
(* Every step of the debugger is a step of the panel or leaves the panel   *)
(* alone, so the panel's invariant carries over.  The properties of events *)
(* need more: what Decide read stays true until the panel executes, and    *)
(* what the observers recorded stays what was executed until it is         *)
(* reported.  DebugInv says so for each place where Debugger.Step can be.  *)
(***************************************************************************)
EXTENDS Debugger, FrontPanelProofs

Accesses == [writes : SUBSET Addr, ports : SUBSET Port]
Event == [kind : {"none", "breakpoint", "wait", "instruction"}, pc : Addr,
          opcode : Opcode \cup {NoOpcode}, interrupt : BOOLEAN, accesses : Accesses]
Execution == [pc : Addr, opcode : Opcode \cup {NoOpcode}, interrupt : BOOLEAN,
              accesses : Accesses]

DebugTypes ==
  /\ dbgAt \in {"idle", "event", "call", "running", "report", "done"}
  /\ event \in Event
  /\ result \in [steps : 0 .. MaxLimit, reason : Reason]
  /\ accesses \in Accesses
  /\ executed \in Execution

\* Nothing was executed since the debugger step began.
Fresh == executed = NoExecution

\* The panel has not tried to execute either: a failed execution moves PC.
Ahead == Fresh /\ at[Dbg] # "return"

\* Only the goroutine of the debugger is ever inside the panel, and it is there
\* for one instruction exactly while Debugger.Step waits for panel.Run.
WhereInv ==
  /\ \A r \in Runner : r # Dbg => at[r] = "idle"
  /\ dbgAt \in {"event", "call", "report", "done"} => at[Dbg] = "idle"
  /\ dbgAt = "running" => InRun(Dbg) /\ limit[Dbg] = 1

\* Before the execution: nothing is recorded, the event is at PC, which is no
\* breakpoint once they were looked up.
FreshInv ==
  /\ dbgAt \in {"idle", "event", "call"} => Fresh
  /\ dbgAt \in {"event", "call", "running"} /\ Ahead => accesses = NoAccess /\ event.pc = PC
  /\ dbgAt \in {"event", "call", "running", "report"} => event.kind = "none"
  /\ dbgAt = "event" => ~event.interrupt
  /\ dbgAt \in {"call", "running", "report"} => event.pc \notin pcBreakpoints

\* What the event says will be executed still would be.
NamedInv ==
  dbgAt \in {"call", "running"} /\ Ahead =>
    /\ event.interrupt => event.opcode = pendingInterrupt /\ pendingInterrupt # NoOpcode
    /\ ~event.interrupt /\ ~halted => event.opcode = mem[PC]

\* The panel executes once: where it is in Run tells whether it has.
OnceInv ==
  dbgAt = "running" =>
    /\ Fresh => /\ steps[Dbg] = 0
                /\ at[Dbg] \in {"top", "check", "observe", "prepare", "cycle", "return"}
    /\ ~Fresh => /\ at[Dbg] \in {"clear", "top", "classify", "return"}
                 /\ at[Dbg] # "clear" => steps[Dbg] = 1
                 /\ at[Dbg] = "return" => reason[Dbg] \in {"cpu", "requested", "limit"}
                 /\ at[Dbg] = "return" /\ reason[Dbg] # "cpu" => ~halted

\* The event and the records are about the instruction executed.
Matches ==
  /\ executed.pc = event.pc
  /\ executed.interrupt = event.interrupt => executed.opcode = event.opcode

ExecutedInv ==
  ~Fresh =>
    /\ executed.pc \notin pcBreakpoints
    /\ accesses = executed.accesses
    /\ dbgAt \in {"running", "report"} => Matches

\* The result of the panel tells whether an instruction was executed.
ResultInv ==
  dbgAt = "report" =>
    /\ Fresh => result.steps = 0
    /\ ~Fresh => /\ result.steps = 1
                 /\ result.reason \in {"cpu", "requested", "limit"}
                 /\ result.reason # "cpu" => ~halted

DoneInv ==
  dbgAt = "done" =>
    /\ event.kind = "instruction" <=> ~Fresh
    /\ ~Fresh => Matches /\ event.accesses = accesses
    /\ WatchpointStops

DebugInv ==
  /\ DebugTypes /\ WhereInv /\ FreshInv /\ NamedInv /\ OnceInv
  /\ ExecutedInv /\ ResultInv /\ DoneInv

---------------------------------------------------------------------------
(* The panel under the debugger.                                           *)

DebugAny == [DebugNext \/ OwnerRun]_<<vars, dbgVars>>

\* Whatever the debugger or the owner does is a step of the panel or none.
LEMMA PanelOfDebugger ==
  ASSUME DebugAny
  PROVE  [Next]_vars
<1> USE DbgAssumption
<1>1. CASE UNCHANGED <<vars, dbgVars>>
  BY <1>1
<1>2. CASE \/ \E a \in Addr : AddPCBreakpoint(a) \/ AddMemoryWatchpoint(a)
           \/ \E k \in Opcode : AddOpcodeBreakpoint(k)
           \/ \E p \in Port : AddIOBreakpoint(p)
           \/ \E n \in 1 .. Unlimited : BeginDebug(n)
  BY <1>2 DEF AddPCBreakpoint, AddMemoryWatchpoint, AddOpcodeBreakpoint, AddIOBreakpoint,
              Configure, BeginDebug
<1>3. CASE Decide \/ Report \/ Loop \/ ReturnDebug
  BY <1>3 DEF Decide, Report, Loop, ReturnDebug
<1>4. CASE CallRun
  <2>1. CallLimit \in 0 .. NoLimit
    BY MaxLimitAssumption DEF CallLimit, NoLimit
  <2> QED BY <1>4, <2>1 DEF CallRun, Next, Begin
<1>5. CASE ReturnFromRun
  BY <1>5 DEF ReturnFromRun, Next, RunnerStep
<1>6. CASE PanelStep
  BY <1>6 DEF PanelStep, Next, RunnerStep, ExecuteAny
<1>7. CASE OwnerStep
  BY <1>7 DEF OwnerStep, Next, Owner, Begin
<1>8. CASE Environment
  BY <1>8 DEF Next
<1>9. CASE OwnerRun
  <2>1. Unlimited = NoLimit
    BY DEF Unlimited, NoLimit
  <2> QED BY <1>9, <2>1 DEF OwnerRun, Next, Begin
<1> QED BY <1>1, <1>2, <1>3, <1>4, <1>5, <1>6, <1>7, <1>8, <1>9
        DEF DebugAny, DebugNext, DebugStep

---------------------------------------------------------------------------
(* Between two debugger calls.                                             *)

\* Nothing is claimed of an idle debugger but types and the absence of others.
LEMMA IdleInv ==
  ASSUME DebugTypes', dbgAt' = "idle", executed' = NoExecution,
         \A r \in Runner : r # Dbg => at'[r] = "idle"
  PROVE  DebugInv'
BY DEF DebugInv, WhereInv, FreshInv, NamedInv, OnceInv, ExecutedInv, ResultInv, DoneInv,
       Fresh, Ahead

\* What is recorded stays a record.
LEMMA RecordType ==
  ASSUME accesses \in Accesses, NEW w \in SUBSET Addr, NEW p \in SUBSET Port, Record(w, p)
  PROVE  accesses' \in Accesses
<1>1. accesses.writes \cup w \in SUBSET Addr /\ accesses.ports \cup p \in SUBSET Port
  BY DEF Accesses
<1> QED BY <1>1 DEF Record, Accesses

\* The accesses of an execution; one that fails makes none.
LEMMA OutcomeAccesses ==
  ASSUME NEW from, NEW k, NEW o \in Outcomes(k, from)
  PROVE  /\ o.writes \in SUBSET Addr /\ o.ports \in SUBSET Port
         /\ o.error # "nil" => o.writes = {} /\ o.ports = {}
<1>1. CASE k = "RST"
  <2>1. PICK to \in Addr, a \in Addr, v \in Opcode :
          o = [pc |-> to, halted |-> FALSE, error |-> "nil",
               mem |-> [mem EXCEPT ![a] = v], writes |-> {a}, ports |-> {}]
    BY <1>1 DEF Outcomes
  <2> QED BY <2>1
<1>2. CASE k # "RST"
  <2>1. o = [pc |-> from, halted |-> k = "HLT",
             error |-> IF k = "UNDEF" THEN "unimplemented" ELSE "nil",
             mem |-> mem, writes |-> {}, ports |-> IF k = "OUT" THEN Port ELSE {}]
    BY <1>2 DEF Outcomes
  <2> QED BY <2>1
<1> QED BY <1>1, <1>2

LEMMA StepAccesses ==
  ASSUME NEW o \in StepOutcomes
  PROVE  /\ o.writes \in SUBSET Addr /\ o.ports \in SUBSET Port
         /\ o.error # "nil" => o.writes = {} /\ o.ports = {}
<1>1. CASE halted
  BY <1>1 DEF StepOutcomes, Refused
<1>2. CASE ~halted
  BY <1>2, OutcomeAccesses DEF StepOutcomes
<1> QED BY <1>1, <1>2

LEMMA JamAccesses ==
  ASSUME NEW k, NEW o \in JamOutcomes(k)
  PROVE  /\ o.writes \in SUBSET Addr /\ o.ports \in SUBSET Port
         /\ o.error # "nil" => o.writes = {} /\ o.ports = {}
BY OutcomeAccesses DEF JamOutcomes

\* The owner's calls and new breakpoints.
LEMMA OwnerDebug ==
  ASSUME PanelInv, DebugInv, dbgAt = "idle",
         \/ OwnerStep \/ OwnerRun
         \/ \E a \in Addr : AddPCBreakpoint(a) \/ AddMemoryWatchpoint(a)
         \/ \E k \in Opcode : AddOpcodeBreakpoint(k)
         \/ \E p \in Port : AddIOBreakpoint(p)
  PROVE  DebugInv'
<1> USE DEF PanelInv, TypeOK, CallTypes
<1>1. UNCHANGED <<stepVars, executed>>
  BY DEF OwnerStep, OwnerRun, AddPCBreakpoint, AddMemoryWatchpoint, AddOpcodeBreakpoint,
         AddIOBreakpoint, Configure, dbgVars
<1>2. accesses' \in Accesses
  <2>0. accesses \in Accesses
    BY DEF DebugInv, DebugTypes
  <2>1. ASSUME NEW k \in Opcode, NEW o \in OwnerJamOutcomes(k), Record(o.writes, o.ports)
        PROVE  accesses' \in Accesses
    <3>1. o.writes \in SUBSET Addr /\ o.ports \in SUBSET Port
      BY <2>1, JamAccesses DEF OwnerJamOutcomes, Refused
    <3> QED BY <2>0, <2>1, <3>1, RecordType
  <2>2. ASSUME NEW a \in Addr, Record({a}, {}) PROVE accesses' \in Accesses
    BY <2>0, <2>2, RecordType
  <2>3. CASE UNCHANGED accesses
    BY <2>0, <2>3
  <2> QED BY <2>1, <2>2, <2>3 DEF OwnerStep, OwnerRun, AddPCBreakpoint, AddMemoryWatchpoint,
             AddOpcodeBreakpoint, AddIOBreakpoint, Configure, dbgVars
<1>3. \A r \in Runner : r # Dbg => at'[r] = "idle"
  BY DbgAssumption DEF DebugInv, WhereInv, OwnerStep, OwnerRun, AddPCBreakpoint,
     AddMemoryWatchpoint, AddOpcodeBreakpoint, AddIOBreakpoint, Configure, vars, Reset, Jam,
     Deposit, BeginStep, BeginRun, Goto
<1>4. DebugTypes'
  BY <1>1, <1>2 DEF DebugInv, DebugTypes, stepVars
<1>5. executed' = NoExecution /\ dbgAt' = "idle"
  BY <1>1 DEF DebugInv, FreshInv, Fresh, stepVars
<1> QED BY <1>3, <1>4, <1>5, IdleInv

---------------------------------------------------------------------------
(* The steps of Debugger.Step.                                             *)

\* A debugger step that begins knows nothing yet.
LEMMA SnapshotInv ==
  ASSUME PanelInv, DebugInv, at[Dbg] = "idle", Snapshot, UNCHANGED <<vars, breakVars>>
  PROVE  DebugInv'
<1> USE DEF Snapshot, Cleared, vars, cpuVars
<1>1. NoAccess \in Accesses /\ 0 \in Addr
  BY AddrFacts DEF NoAccess, Accesses
<1>2. /\ event' \in Event /\ executed' \in Execution
      /\ event'.pc = PC /\ event'.kind = "none" /\ ~event'.interrupt
  BY <1>1 DEF Event, Execution, NoEvent, NoExecution, PanelInv, TypeOK, CPUTypes
<1>3. DebugTypes'
  BY <1>1, <1>2, MaxLimitAssumption DEF DebugTypes, NoResult, Reason
<1>4. WhereInv' /\ FreshInv'
  BY <1>2 DEF DebugInv, WhereInv, FreshInv, Fresh
<1> QED BY <1>3, <1>4
        DEF DebugInv, NamedInv, OnceInv, ExecutedInv, ResultInv, DoneInv, Fresh

\* The event Decide builds names what PC and the latch hold.
LEMMA NextEventFacts ==
  ASSUME PanelInv, DebugInv, dbgAt = "event"
  PROVE  /\ NextEvent \in Event
         /\ NextEvent.pc = PC /\ NextEvent.kind = "none"
         /\ NextEvent.interrupt =>
              NextEvent.opcode = pendingInterrupt /\ pendingInterrupt # NoOpcode
         /\ ~NextEvent.interrupt /\ ~halted => NextEvent.opcode = mem[PC]
<1>1. /\ event \in Event /\ event.pc = PC /\ event.kind = "none"
  BY DEF DebugInv, DebugTypes, FreshInv, WhereInv, Fresh, Ahead
<1>2. mem[PC] \in Opcode /\ pendingInterrupt \in Opcode \cup {NoOpcode}
  BY DEF PanelInv, TypeOK, CPUTypes, PanelTypes
<1>3. CASE pendingInterrupt # NoOpcode
  <2>1. NextEvent = [event EXCEPT !.opcode = pendingInterrupt, !.interrupt = TRUE]
    BY <1>3 DEF NextEvent
  <2> QED BY <1>1, <1>2, <1>3, <2>1 DEF Event
<1>4. CASE pendingInterrupt = NoOpcode
  <2>1. NextEvent = [event EXCEPT !.opcode = IF halted THEN NoOpcode ELSE mem[PC]]
    BY <1>1, <1>4 DEF NextEvent
  <2>2. event.interrupt = FALSE
    BY <1>1 DEF DebugInv, FreshInv, Event
  <2> QED BY <1>1, <1>2, <2>1, <2>2 DEF Event
<1> QED BY <1>3, <1>4

LEMMA DecideInv ==
  ASSUME PanelInv, DebugInv, Decide
  PROVE  DebugInv'
<1> USE DEF Decide, breakVars, vars, cpuVars
<1>1. /\ dbgAt = "event" /\ Fresh /\ at[Dbg] = "idle"
      /\ accesses = NoAccess
  BY DEF DebugInv, FreshInv, WhereInv, Ahead
<1>2. Fresh' /\ at'[Dbg] = "idle"
  BY <1>1 DEF Fresh
<1>3. CASE HitsBreakpoint(NextEvent)
  <2>1. event' = [NextEvent EXCEPT !.kind = "breakpoint"] /\ dbgAt' = "done"
        /\ outcome' = "breakpoint"
    BY <1>3 DEF Finish
  <2>2. event' \in Event /\ event'.kind = "breakpoint"
    BY <1>1, <2>1, NextEventFacts DEF Event
  <2>3. DebugTypes' /\ WhereInv' /\ FreshInv'
    BY <2>1, <2>2 DEF DebugInv, DebugTypes, WhereInv, FreshInv
  <2>4. DoneInv'
    BY <1>2, <2>1, <2>2 DEF DoneInv, WatchpointStops, Fresh, NoExecution, NoAccess
  <2> QED BY <1>2, <2>1, <2>3, <2>4
          DEF DebugInv, NamedInv, OnceInv, ExecutedInv, ResultInv
<1>4. CASE ~HitsBreakpoint(NextEvent)
  <2>1. event' = NextEvent /\ dbgAt' = "call"
    BY <1>4
  <2>2. event'.pc \notin pcBreakpoints
    BY <1>4, <2>1 DEF HitsBreakpoint
  <2>3. DebugTypes' /\ WhereInv'
    BY <1>1, <2>1, NextEventFacts DEF DebugInv, DebugTypes, WhereInv
  <2>4. FreshInv' /\ NamedInv'
    BY <1>1, <1>2, <2>1, <2>2, NextEventFacts DEF FreshInv, NamedInv, Ahead
  <2> QED BY <1>2, <2>1, <2>3, <2>4 DEF DebugInv, OnceInv, ExecutedInv, ResultInv, DoneInv
<1> QED BY <1>3, <1>4

LEMMA CallRunInv ==
  ASSUME PanelInv, DebugInv, CallRun
  PROVE  DebugInv'
<1> USE DEF CallRun, BeginRun, Goto, breakVars, cpuVars
<1>1. dbgAt = "call" /\ dbgAt' = "running" /\ Fresh /\ Fresh'
  BY DEF DebugInv, FreshInv, Fresh
<1>2. /\ at'[Dbg] = "top" /\ call'[Dbg] = "run" /\ limit'[Dbg] = 1 /\ steps'[Dbg] = 0
      /\ \A r \in Runner : r # Dbg => at'[r] = "idle"
  BY <1>1, DbgAssumption
     DEF PanelInv, TypeOK, CallTypes, CountInv, CallLimit, DebugInv, WhereInv
<1>3. Ahead
  BY <1>1 DEF DebugInv, WhereInv, Ahead
<1>4. DebugTypes' /\ WhereInv' /\ FreshInv'
  BY <1>1, <1>2, <1>3 DEF DebugInv, DebugTypes, WhereInv, FreshInv, InRun, Inside
<1>5. NamedInv' /\ OnceInv'
  BY <1>1, <1>2, <1>3 DEF DebugInv, NamedInv, OnceInv
<1> QED BY <1>1, <1>4, <1>5 DEF DebugInv, ExecutedInv, ResultInv, DoneInv

LEMMA ReturnFromRunInv ==
  ASSUME PanelInv, DebugInv, ReturnFromRun
  PROVE  DebugInv'
<1> USE DEF ReturnFromRun, Return, Goto, breakVars, cpuVars
<1>1. /\ at[Dbg] = "return" /\ at'[Dbg] = "idle"
      /\ \A r \in Runner : r # Dbg => at'[r] = "idle"
  BY DbgAssumption DEF PanelInv, TypeOK, CallTypes, DebugInv, WhereInv
<1>2. CASE dbgAt = "running"
  <2>1. /\ dbgAt' = "report" /\ result' = [steps |-> steps[Dbg], reason |-> reason[Dbg]]
        /\ UNCHANGED <<event, accesses, executed, halted>>
    BY <1>2
  <2>2. DebugTypes'
    BY <2>1, DbgAssumption DEF DebugInv, DebugTypes, PanelInv, TypeOK, CallTypes
  <2>3. WhereInv' /\ FreshInv'
    BY <1>1, <1>2, <2>1 DEF DebugInv, WhereInv, FreshInv
  <2>4. ResultInv'
    BY <1>1, <1>2, <2>1 DEF DebugInv, OnceInv, ResultInv, Fresh
  <2>5. ExecutedInv'
    BY <1>2, <2>1 DEF DebugInv, ExecutedInv, Matches, Fresh
  <2> QED BY <2>1, <2>2, <2>3, <2>4, <2>5 DEF DebugInv, NamedInv, OnceInv, DoneInv
<1>3. CASE dbgAt # "running"
  <2>1. dbgAt = "idle" /\ UNCHANGED <<dbgAt, event, result, accesses, executed>>
    BY <1>1, <1>3 DEF DebugInv, DebugTypes, WhereInv
  <2>2. DebugTypes' /\ executed' = NoExecution
    BY <2>1 DEF DebugInv, DebugTypes, FreshInv, Fresh
  <2> QED BY <1>1, <2>1, <2>2, IdleInv
<1> QED BY <1>2, <1>3

LEMMA ReportInv ==
  ASSUME PanelInv, DebugInv, Report
  PROVE  DebugInv'
<1> USE DEF Report, Finish, breakVars, vars, cpuVars
<1>1. dbgAt = "report" /\ dbgAt' = "done"
  BY DEF DebugInv
<1>2. /\ UNCHANGED <<vars, breakVars, result, accesses, executed>>
      /\ Fresh' = Fresh
  BY DEF Fresh
<1>3. /\ event \in Event /\ event.kind = "none" /\ accesses \in Accesses
      /\ result.reason \in Reason
  BY <1>1 DEF DebugInv, DebugTypes, FreshInv
<1>4. WhereInv'
  BY <1>1, <1>2 DEF DebugInv, WhereInv
<1>5. event' \in Event /\ FreshInv' /\ DoneInv'
  <2>1. FreshInv'
    BY <1>1 DEF FreshInv
  <2>2. CASE result.steps = 0 \/ result.reason = "error"
    <3>1. Fresh
      BY <1>1, <2>2 DEF DebugInv, ResultInv
    <3>2. event' \in Event /\ event'.kind # "instruction"
      <4>1. NoEvent \in Event /\ NoEvent.kind = "none"
        BY AddrFacts DEF NoEvent, NoAccess, Event, Accesses
      <4> QED BY <1>3, <2>2, <4>1 DEF Event
    <3>3. outcome' # "continue"
      BY <1>3, <2>2 DEF Reason
    <3> QED BY <1>2, <2>1, <3>1, <3>2, <3>3
            DEF DoneInv, WatchpointStops, Fresh, NoExecution, NoAccess
  <2>3. CASE result.steps > 0 /\ result.reason # "error"
    <3>1. /\ event' = [event EXCEPT !.kind = "instruction", !.accesses = accesses]
          /\ outcome' = AfterInstruction
      BY <2>3
    <3>2. ~Fresh
      BY <1>1, <2>3 DEF DebugInv, ResultInv
    <3>3. /\ event' \in Event /\ event'.kind = "instruction" /\ event'.accesses = accesses
          /\ event'.pc = event.pc /\ event'.interrupt = event.interrupt
          /\ event'.opcode = event.opcode
      BY <1>3, <3>1 DEF Event
    <3>4. accesses = executed.accesses /\ Matches
      BY <1>1, <3>2 DEF DebugInv, ExecutedInv
    <3>5. Matches'
      BY <1>2, <3>3, <3>4 DEF Matches
    <3>6. WatchpointStops'
      <4>1. outcome' = "continue" => ~halted
        BY <1>1, <3>1, <3>2 DEF AfterInstruction, DebugInv, ResultInv
      <4>2. /\ accesses.writes \cap memoryWatchpoints # {} => outcome' = "watchpoint"
            /\ accesses.ports \cap ioBreakpoints # {} => outcome' \in {"watchpoint", "io"}
        BY <3>1 DEF AfterInstruction
      <4> QED BY <1>2, <3>4, <4>1, <4>2 DEF WatchpointStops
    <3> QED BY <1>2, <2>1, <3>2, <3>3, <3>4, <3>5, <3>6 DEF DoneInv
  <2>4. result.steps \in 0 .. MaxLimit
    BY DEF DebugInv, DebugTypes
  <2> QED BY <2>2, <2>3, <2>4
<1>6. DebugTypes'
  BY <1>1, <1>2, <1>5 DEF DebugInv, DebugTypes
<1>7. ExecutedInv'
  BY <1>1, <1>2 DEF DebugInv, ExecutedInv
<1> QED BY <1>1, <1>4, <1>5, <1>6, <1>7 DEF DebugInv, NamedInv, OnceInv, ResultInv

LEMMA ReturnDebugInv ==
  ASSUME PanelInv, DebugInv, ReturnDebug
  PROVE  DebugInv'
<1>1. /\ NoEvent \in Event /\ NoExecution \in Execution
      /\ NoResult \in [steps : 0 .. MaxLimit, reason : Reason]
  BY AddrFacts, MaxLimitAssumption
     DEF NoEvent, NoExecution, NoResult, NoAccess, Event, Execution, Accesses, Reason
<1>2. DebugTypes'
  BY <1>1 DEF ReturnDebug, DebugInv, DebugTypes
<1>3. \A r \in Runner : r # Dbg => at'[r] = "idle"
  BY DEF ReturnDebug, vars, DebugInv, WhereInv
<1> QED BY <1>2, <1>3, IdleInv DEF ReturnDebug

---------------------------------------------------------------------------
(* The steps of the panel and of the other goroutines.                     *)

LEMMA EnvironmentInv ==
  ASSUME PanelInv, DebugInv, Environment, UNCHANGED dbgVars
  PROVE  DebugInv'
<1> USE DEF dbgVars, stepVars, breakVars, cpuVars, callVars
<1>1. UNCHANGED <<cpuVars, at, callVars, reason, dbgVars>>
  BY DEF Environment, Stop, SetReady, RequestInterrupt
<1>2. pendingInterrupt' = pendingInterrupt \/ pendingInterrupt = NoOpcode
  BY DEF Environment, Stop, SetReady, RequestInterrupt, LatchFree
<1>3. DebugTypes'
  BY <1>1 DEF DebugInv, DebugTypes
<1>4. WhereInv' /\ FreshInv' /\ OnceInv'
  BY <1>1 DEF DebugInv, WhereInv, FreshInv, OnceInv, Fresh, Ahead, InRun, Inside
<1>5. NamedInv'
  BY <1>1, <1>2 DEF DebugInv, NamedInv, Fresh, Ahead
<1>6. ExecutedInv' /\ ResultInv' /\ DoneInv'
  BY <1>1 DEF DebugInv, ExecutedInv, ResultInv, DoneInv, Matches, Fresh, WatchpointStops
<1> QED BY <1>3, <1>4, <1>5, <1>6 DEF DebugInv

\* The panel moves within one debugger step, or for the owner between two.
LEMMA InsidePanel ==
  ASSUME PanelInv, DebugInv, PanelStep
  PROVE  /\ dbgAt \in {"idle", "running"} /\ UNCHANGED <<stepVars, breakVars>>
         /\ at[Dbg] \notin {"idle", "return"} /\ at'[Dbg] # "idle"
         /\ UNCHANGED <<call, limit>>
         /\ \A r \in Runner : r # Dbg => at'[r] = "idle"
<1> USE DbgAssumption DEF PanelInv, TypeOK, CallTypes, callVars, Goto, Leave, Advance,
        dbgVars
<1>1. at[Dbg] \notin {"idle", "return"} /\ at'[Dbg] # "idle"
  BY DEF PanelStep, Top, CheckHalt, Observe, Prepare, SampleReady, ExecuteStep, ExecuteJam,
         ClearInterrupt, Classify
<1>2. UNCHANGED <<call, limit>> /\ UNCHANGED <<stepVars, breakVars>>
  BY DEF PanelStep, Top, CheckHalt, Observe, Prepare, SampleReady, ExecuteStep, ExecuteJam,
         ClearInterrupt, Classify, ObservedExecute
<1>3. \A r \in Runner : r # Dbg => at'[r] = at[r]
  BY DEF PanelStep, Top, CheckHalt, Observe, Prepare, SampleReady, ExecuteStep, ExecuteJam,
         ClearInterrupt, Classify
<1> QED BY <1>1, <1>2, <1>3 DEF DebugInv, DebugTypes, WhereInv

\* A step of the panel that executes nothing.
LEMMA PlainPanelInv ==
  ASSUME PanelInv, DebugInv, PanelStep, UNCHANGED <<dbgVars, cpuVars>>, dbgAt = "running",
         \/ Top(Dbg) \/ CheckHalt(Dbg) \/ Prepare(Dbg) \/ SampleReady(Dbg)
         \/ ClearInterrupt(Dbg) \/ Classify(Dbg)
         \/ Observe(Dbg) /\ at'[Dbg] = "prepare"
  PROVE  DebugInv'
<1> USE DbgAssumption DEF dbgVars, stepVars, breakVars, cpuVars
<1>1. UNCHANGED <<dbgAt, event, result, accesses, executed, outcome, breakVars, mem, PC, halted>>
  OBVIOUS
<1>2. Fresh' = Fresh /\ (Ahead' => Ahead)
  BY <1>1, InsidePanel DEF Fresh, Ahead
<1>3. DebugTypes' /\ WhereInv'
  BY <1>1, InsidePanel DEF DebugInv, DebugTypes, WhereInv, InRun, Inside
<1>4. FreshInv'
  BY <1>1, <1>2 DEF DebugInv, FreshInv
<1>5. OnceInv'
  <2>1. limit[Dbg] = 1 /\ call[Dbg] = "run" /\ steps[Dbg] \in 0 .. MaxLimit
    BY DEF DebugInv, WhereInv, InRun, PanelInv, TypeOK, CallTypes
  <2> USE <1>2, <2>1 DEF DebugInv, OnceInv, PanelInv, TypeOK, CallTypes, callVars, Goto, Leave
  <2>2. CASE Top(Dbg) BY <2>2 DEF Top
  <2>3. CASE CheckHalt(Dbg) BY <2>3 DEF CheckHalt
  <2>4. CASE Prepare(Dbg) BY <2>4 DEF Prepare
  <2>5. CASE SampleReady(Dbg) BY <2>5 DEF SampleReady
  <2>6. CASE ClearInterrupt(Dbg)
    BY <2>6, FiniteLimitAssumption, MaxLimitAssumption
       DEF ClearInterrupt, Advance, Counted, CountInv
  <2>7. CASE Classify(Dbg)
    BY <2>7 DEF Classify, FinalReason, FinalReason_IgnoresHalt
  <2>8. CASE Observe(Dbg) /\ at'[Dbg] = "prepare" BY <2>8 DEF Observe
  <2> QED BY <2>2, <2>3, <2>4, <2>5, <2>6, <2>7, <2>8
<1>6. NamedInv'
  <2>1. CASE ~Fresh
    BY <1>2, <2>1 DEF NamedInv, Ahead
  <2>2. CASE Fresh
    <3>1. at[Dbg] # "clear"
      BY <2>2 DEF DebugInv, OnceInv
    <3>2. UNCHANGED pendingInterrupt
      BY <3>1 DEF Top, CheckHalt, Prepare, SampleReady, ClearInterrupt, Classify, Observe
    <3> QED BY <1>1, <1>2, <3>2 DEF DebugInv, NamedInv
  <2> QED BY <2>1, <2>2
<1>7. ExecutedInv' /\ ResultInv' /\ DoneInv'
  BY <1>1, <1>2 DEF DebugInv, ExecutedInv, ResultInv, DoneInv, Matches
<1> QED BY <1>3, <1>4, <1>5, <1>6, <1>7 DEF DebugInv

\* The execution itself, of opcode k with outcome o.
LEMMA ExecuteInv ==
  ASSUME PanelInv, DebugInv, PanelStep, dbgAt = "running",
         at[Dbg] = "cycle", NEW k \in Opcode, NEW interrupt \in BOOLEAN, NEW o,
         o.writes \in SUBSET Addr, o.ports \in SUBSET Port,
         o.error # "nil" => o.writes = {} /\ o.ports = {},
         ObservedExecute(k, interrupt, o),
         interrupt => k = pendingInterrupt,
         ~interrupt /\ o.error = "nil" => ~halted /\ k = mem[PC],
         o.error # "nil" => at'[Dbg] = "return" /\ UNCHANGED steps,
         o.error = "nil" => \/ at'[Dbg] = "clear"
                            \/ at'[Dbg] = "top" /\ steps'[Dbg] = Counted(steps[Dbg])
  PROVE  DebugInv'
<1> USE DEF ObservedExecute, stepVars, breakVars
<1>1. UNCHANGED <<dbgAt, event, result, outcome, breakVars>>
  OBVIOUS
<1>2. /\ Fresh /\ Ahead /\ accesses = NoAccess /\ event.pc = PC /\ event.kind = "none"
      /\ event.pc \notin pcBreakpoints /\ steps[Dbg] = 0 /\ event.interrupt \in BOOLEAN
  BY DEF DebugInv, DebugTypes, Event, FreshInv, OnceInv, Ahead
<1>3. accesses' \in Accesses /\ accesses' = [writes |-> o.writes, ports |-> o.ports]
  BY <1>2 DEF Record, NoAccess, Accesses
<1>4. WhereInv'
  BY <1>1, InsidePanel DEF DebugInv, WhereInv, InRun, Inside
<1>5. CASE o.error # "nil"
  <2>1. UNCHANGED executed /\ accesses' = NoAccess
    BY <1>3, <1>5 DEF NoAccess
  <2>2. Fresh' /\ ~Ahead'
    BY <1>2, <1>5, <2>1 DEF Fresh, Ahead
  <2>3. DebugTypes' /\ FreshInv' /\ OnceInv'
    BY <1>1, <1>2, <1>3, <1>5, <2>1, <2>2 DEF DebugInv, DebugTypes, FreshInv, OnceInv
  <2> QED BY <1>1, <1>4, <2>2, <2>3
          DEF DebugInv, NamedInv, ExecutedInv, ResultInv, DoneInv
<1>6. CASE o.error = "nil"
  <2>1. executed' = [pc |-> PC, opcode |-> k, interrupt |-> interrupt, accesses |-> accesses']
    BY <1>3, <1>6
  <2>2. /\ executed'.pc = PC /\ executed'.opcode = k /\ executed'.interrupt = interrupt
        /\ executed'.accesses = accesses'
    BY <2>1
  <2>3. ~Fresh' /\ ~Ahead'
    BY <2>2, OpcodeFacts DEF Fresh, Ahead, NoExecution
  <2>4. executed' \in Execution
    BY <1>3, <2>1 DEF Execution, PanelInv, TypeOK, CPUTypes
  <2>5. DebugTypes' /\ FreshInv'
    BY <1>1, <1>2, <1>3, <2>3, <2>4 DEF DebugInv, DebugTypes, FreshInv
  <2>6. OnceInv'
    BY <1>2, <1>6, <2>3, MaxLimitAssumption, FiniteLimitAssumption DEF OnceInv, Counted
  <2>7. ExecutedInv'
    <3>1. event.interrupt => event.opcode = pendingInterrupt
      BY <1>2 DEF DebugInv, NamedInv
    <3>2. ~event.interrupt /\ ~halted => event.opcode = mem[PC]
      BY <1>2 DEF DebugInv, NamedInv
    <3>3. interrupt = event.interrupt => k = event.opcode
      BY <1>6, <3>1, <3>2
    <3>4. Matches'
      BY <1>1, <1>2, <2>2, <3>3 DEF Matches
    <3> QED BY <1>1, <1>2, <2>2, <3>4 DEF ExecutedInv
  <2> QED BY <1>1, <1>4, <2>3, <2>5, <2>6, <2>7
          DEF DebugInv, NamedInv, ResultInv, DoneInv
<1> QED BY <1>5, <1>6

LEMMA PanelStepInv ==
  ASSUME PanelInv, DebugInv, PanelStep
  PROVE  DebugInv'
<1> USE DbgAssumption
<1>0. at \in [Runner -> RunnerState] /\ steps \in [Runner -> 0 .. MaxLimit]
      /\ mem[PC] \in Opcode
  BY DEF PanelInv, TypeOK, CallTypes, CPUTypes
<1>1. ASSUME NEW o \in StepOutcomes, ExecuteStep(Dbg, o), ObservedExecute(mem[PC], FALSE, o)
      PROVE  DebugInv'
  <2>1. /\ o.writes \in SUBSET Addr /\ o.ports \in SUBSET Port
        /\ o.error # "nil" => o.writes = {} /\ o.ports = {}
    BY StepAccesses
  <2>2. CASE dbgAt = "idle"
    <3>1. accesses' \in Accesses
      BY <1>1, <2>1, RecordType DEF ObservedExecute, DebugInv, DebugTypes
    <3>2. UNCHANGED <<dbgAt, event, result, executed>>
      BY <1>1, <2>2 DEF ObservedExecute, stepVars
    <3>3. DebugTypes' /\ executed' = NoExecution
      BY <2>2, <3>1, <3>2 DEF DebugInv, DebugTypes, FreshInv, Fresh
    <3> QED BY <2>2, <3>2, <3>3, IdleInv, InsidePanel
  <2>3. CASE dbgAt = "running"
    <3>1. call[Dbg] = "run"
      BY <2>3 DEF DebugInv, WhereInv, InRun
    <3>2. o.error = "nil" => ~halted
      BY DEF StepOutcomes, Refused
    <3>3. o.error # "nil" => at'[Dbg] = "return" /\ UNCHANGED steps
      BY <1>0, <1>1 DEF ExecuteStep, Leave, Goto, callVars
    <3>4. o.error = "nil" => at'[Dbg] = "top" /\ steps'[Dbg] = Counted(steps[Dbg])
      BY <1>0, <1>1, <3>1 DEF ExecuteStep, Advance, Goto
    <3>5. at[Dbg] = "cycle"
      BY <1>1 DEF ExecuteStep
    <3> QED BY <1>0, <1>1, <2>1, <2>3, <3>2, <3>3, <3>4, <3>5, ExecuteInv
  <2> QED BY <2>2, <2>3, InsidePanel
<1>2. ASSUME NEW o \in JamOutcomes(activeOpcode), ExecuteJam(Dbg, o),
             ObservedExecute(activeOpcode, TRUE, o)
      PROVE  DebugInv'
  <2>1. /\ o.writes \in SUBSET Addr /\ o.ports \in SUBSET Port
        /\ o.error # "nil" => o.writes = {} /\ o.ports = {}
    BY JamAccesses
  <2>2. CASE dbgAt = "idle"
    <3>1. accesses' \in Accesses
      BY <1>2, <2>1, RecordType DEF ObservedExecute, DebugInv, DebugTypes
    <3>2. UNCHANGED <<dbgAt, event, result, executed>>
      BY <1>2, <2>2 DEF ObservedExecute, stepVars
    <3>3. DebugTypes' /\ executed' = NoExecution
      BY <2>2, <3>1, <3>2 DEF DebugInv, DebugTypes, FreshInv, Fresh
    <3> QED BY <2>2, <3>2, <3>3, IdleInv, InsidePanel
  <2>3. CASE dbgAt = "running"
    <3>1. activeOpcode \in Opcode /\ activeOpcode = pendingInterrupt /\ at[Dbg] = "cycle"
      BY <1>2 DEF ExecuteJam, PanelInv, CycleInv, RunnerCycle, ActiveInv
    <3>2. o.error # "nil" => at'[Dbg] = "return" /\ UNCHANGED steps
      BY <1>0, <1>2 DEF ExecuteJam, Leave, Goto, callVars
    <3>3. o.error = "nil" => at'[Dbg] = "clear"
      BY <1>0, <1>2 DEF ExecuteJam, Goto
    <3> QED BY <1>2, <2>1, <2>3, <3>1, <3>2, <3>3, ExecuteInv
  <2> QED BY <2>2, <2>3, InsidePanel
<1>3. ASSUME UNCHANGED dbgVars,
             \/ Top(Dbg) \/ CheckHalt(Dbg) \/ Prepare(Dbg) \/ SampleReady(Dbg)
             \/ ClearInterrupt(Dbg) \/ Classify(Dbg)
             \/ Observe(Dbg) /\ at'[Dbg] = "prepare"
      PROVE  DebugInv'
  <2>1. UNCHANGED cpuVars
    BY <1>3 DEF Top, CheckHalt, Prepare, SampleReady, ClearInterrupt, Classify, Observe
  <2>2. CASE dbgAt = "idle"
    <3>1. UNCHANGED <<dbgAt, event, result, accesses, executed>>
      BY <1>3 DEF dbgVars, stepVars
    <3>2. DebugTypes' /\ executed' = NoExecution
      BY <2>2, <3>1 DEF DebugInv, DebugTypes, FreshInv, Fresh
    <3> QED BY <2>2, <3>1, <3>2, IdleInv, InsidePanel
  <2>3. CASE dbgAt = "running"
    BY <1>3, <2>1, <2>3, PlainPanelInv
  <2> QED BY <2>2, <2>3, InsidePanel
<1> QED BY <1>1, <1>2, <1>3 DEF PanelStep

---------------------------------------------------------------------------
(* The theorems.                                                           *)

LEMMA DebugInitInv == DebugInit => DebugInv
<1> SUFFICES ASSUME DebugInit PROVE DebugInv
  OBVIOUS
<1> USE DEF DebugInit
<1>1. /\ NoEvent \in Event /\ NoExecution \in Execution /\ NoAccess \in Accesses
      /\ NoResult \in [steps : 0 .. MaxLimit, reason : Reason]
  BY AddrFacts, MaxLimitAssumption
     DEF NoEvent, NoExecution, NoResult, NoAccess, Event, Execution, Accesses, Reason
<1>2. DebugTypes
  BY <1>1 DEF DebugTypes
<1>3. \A r \in Runner : at[r] = "idle"
  BY DEF Init
<1> QED BY <1>2, <1>3
        DEF DebugInv, WhereInv, FreshInv, NamedInv, OnceInv, ExecutedInv, ResultInv, DoneInv,
            Fresh, Ahead

LEMMA DebugStutterInv ==
  ASSUME DebugInv, UNCHANGED <<vars, dbgVars>>
  PROVE  DebugInv'
BY DEF vars, cpuVars, callVars, dbgVars, stepVars, breakVars, DebugInv, DebugTypes, WhereInv,
       FreshInv, NamedInv, OnceInv, ExecutedInv, ResultInv, DoneInv, Fresh, Ahead, Matches,
       InRun, Inside, WatchpointStops

LEMMA DebugInvStep ==
  ASSUME PanelInv, DebugInv, DebugAny
  PROVE  DebugInv'
<1>1. CASE UNCHANGED <<vars, dbgVars>>
  BY <1>1, DebugStutterInv
<1>2. CASE \/ OwnerStep \/ OwnerRun
           \/ \E a \in Addr : AddPCBreakpoint(a) \/ AddMemoryWatchpoint(a)
           \/ \E k \in Opcode : AddOpcodeBreakpoint(k)
           \/ \E p \in Port : AddIOBreakpoint(p)
  <2>1. dbgAt = "idle"
    BY <1>2 DEF OwnerStep, OwnerRun, AddPCBreakpoint, AddMemoryWatchpoint,
                AddOpcodeBreakpoint, AddIOBreakpoint, Configure
  <2> QED BY <1>2, <2>1, OwnerDebug
<1>3. ASSUME NEW n \in 1 .. Unlimited, BeginDebug(n) PROVE DebugInv'
  <2>1. at[Dbg] = "idle"
    BY <1>3, DbgAssumption DEF BeginDebug, Quiet, Inside
  <2> QED BY <1>3, <2>1, SnapshotInv DEF BeginDebug
<1>4. CASE Decide BY <1>4, DecideInv
<1>5. CASE CallRun BY <1>5, CallRunInv
<1>6. CASE ReturnFromRun BY <1>6, ReturnFromRunInv
<1>7. CASE Report BY <1>7, ReportInv
<1>8. CASE Loop
  <2>1. at[Dbg] = "idle"
    BY <1>8 DEF Loop, DebugInv, WhereInv
  <2> QED BY <1>8, <2>1, SnapshotInv DEF Loop
<1>9. CASE ReturnDebug BY <1>9, ReturnDebugInv
<1>10. CASE PanelStep BY <1>10, PanelStepInv
<1>11. CASE Environment /\ UNCHANGED dbgVars BY <1>11, EnvironmentInv
<1> QED BY <1>1, <1>2, <1>3, <1>4, <1>5, <1>6, <1>7, <1>8, <1>9, <1>10, <1>11
        DEF DebugAny, DebugNext, DebugStep

\* The debugger uses the panel as a caller may: every behaviour of the debugger,
\* with or without runs of the owner between its calls, is a behaviour of the
\* panel, so everything proved of the panel holds under the debugger.
THEOREM DebuggerRunsPanel == DebugSpec \/ FairDebugSpec => Spec
<1>1. DebugInit => Init
  BY DEF DebugInit
<1>2. [DebugNext]_<<vars, dbgVars>> => DebugAny
  BY DEF DebugAny
<1>3. [DebugNext \/ OwnerRun]_<<vars, dbgVars>> => DebugAny
  BY DEF DebugAny
<1>4. DebugAny => [Next]_vars
  BY PanelOfDebugger
<1> QED BY <1>1, <1>2, <1>3, <1>4, PTL DEF DebugSpec, FairDebugSpec, Spec

\* The inductive invariant holds in every reachable state of the debugger.
THEOREM DebugInvariant == DebugSpec \/ FairDebugSpec => []DebugInv
<1>1. Spec => []PanelInv
  BY PanelInvariant
<1>2. DebugInit => DebugInv
  BY DebugInitInv
<1>3. [DebugNext]_<<vars, dbgVars>> => DebugAny
  BY DEF DebugAny
<1>4. [DebugNext \/ OwnerRun]_<<vars, dbgVars>> => DebugAny
  BY DEF DebugAny
<1>5. PanelInv /\ DebugInv /\ DebugAny => DebugInv'
  BY DebugInvStep
<1> QED BY <1>1, <1>2, <1>3, <1>4, <1>5, DebuggerRunsPanel, PTL DEF DebugSpec, FairDebugSpec

\* A debugger step executes at most one instruction, and reports one exactly if it
\* executed one, wherever stops, waits and interrupts fall.
THEOREM OneInstructionHolds == DebugSpec \/ FairDebugSpec => []OneInstruction
<1>1. DebugInv => OneInstruction
  BY DEF DebugInv, DoneInv, OnceInv, Fresh, OneInstruction
<1> QED BY DebugInvariant, <1>1, PTL

\* No instruction is executed at a breakpoint, not even one forced after the check.
THEOREM BreakpointsHold == DebugSpec \/ FairDebugSpec => []BreakpointHolds
<1>1. DebugInv => BreakpointHolds
  BY DEF DebugInv, ExecutedInv, Fresh, BreakpointHolds
<1> QED BY DebugInvariant, <1>1, PTL

\* The address and the accesses an event reports are those of the instruction
\* executed, whatever was recorded before.
THEOREM EventsAreTrue == DebugSpec \/ FairDebugSpec => []AccessesBelong
<1>1. DebugInv => AccessesBelong
  BY DEF DebugInv, DoneInv, ExecutedInv, Fresh, Matches, AccessesBelong
<1> QED BY DebugInvariant, <1>1, PTL

\* An event right about whether its instruction was forced names its opcode,
\* although the panel decides what to execute after the event was written.
THEOREM EventsNameOpcode == DebugSpec \/ FairDebugSpec => []EventNamesOpcode
<1>1. DebugInv => EventNamesOpcode
  BY DEF DebugInv, DoneInv, Fresh, Matches, EventNamesOpcode
<1> QED BY DebugInvariant, <1>1, PTL

\* A watched write, a watched port and a CPU that halted end the debugger's run with
\* a reason that says so.
THEOREM WatchpointsStop == DebugSpec \/ FairDebugSpec => []WatchpointStops
<1>1. DebugInv => WatchpointStops
  BY DEF DebugInv, DoneInv, WatchpointStops
<1> QED BY DebugInvariant, <1>1, PTL
===========================================================================
