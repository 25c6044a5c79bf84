------------------------- MODULE FrontPanelProofs -------------------------
(***************************************************************************)
(* Proofs about FrontPanel for every set of runners, memory size, finite   *)
(* limit and number of requests.                                           *)
(*                                                                         *)
(* None of the properties is inductive alone.  That a runner in its cycle  *)
(* loop has an instruction in progress depends on no other runner having   *)
(* cleared it, hence on OneRunner; that the latch still holds the active   *)
(* request depends on where the only runner is; that the index stays in    *)
(* range depends on the active opcode being an opcode.  PanelInv is their  *)
(* conjunction with what they need from each other.                        *)
(***************************************************************************)
EXTENDS FrontPanel, TLAPS

\* A runner in its cycle loop has an instruction in progress; one that is about to
\* empty the latch has none, and the latch is full.
RunnerCycle ==
  /\ \A r \in Runner : at[r] = "cycle" => cycleActive
  /\ \A r \in Runner : at[r] = "clear" => ~cycleActive /\ pendingInterrupt # NoOpcode

\* Which instruction is in progress.
ActiveInv ==
  /\ cycleActive => activeOpcode \in Opcode
  /\ ~cycleActive => ~waiting /\ ~activeInterrupt
  /\ cycleActive /\ activeInterrupt => pendingInterrupt = activeOpcode
  /\ cycleActive /\ ~activeInterrupt => ~halted

\* The WAIT light describes the instruction in progress.
LightInv ==
  waiting => /\ waitCycle.pc = PC
             /\ waitCycle.opcode = activeOpcode
             /\ waitCycle.interrupt = activeInterrupt
             /\ waitCycle.index <= cycleIndex

\* An instruction in progress that no runner is sampling was suspended by WAIT.
SuspendInv ==
  cycleActive /\ (\A r \in Runner : at[r] # "cycle") =>
    /\ waiting
    /\ waitCycle.index = cycleIndex
    /\ cycleIndex < CycleCount[activeOpcode]

CycleInv == RunnerCycle /\ ActiveInv /\ LightInv /\ SuspendInv

\* Where a Run is in its loop tells how its count compares with its limit.
CountInv ==
  /\ \A r \in Runner : at[r] = "idle" => steps[r] = 0
  /\ \A r \in Runner : call[r] = "run" =>
    /\ steps[r] <= limit[r]
    /\ at[r] \in {"check", "observe", "prepare", "cycle", "clear"} => steps[r] < limit[r]
    /\ at[r] = "classify" => steps[r] = limit[r]

PanelInv ==
  TypeOK /\ OneRunner /\ CycleInv /\ InterruptLedger /\ CountInv /\ ReasonTruthful

---------------------------------------------------------------------------
(* Facts about the operators.                                              *)

\* Zero and the next address are addresses.
LEMMA AddrFacts ==
  /\ 0 \in Addr
  /\ \A a \in Addr : Next16(a) \in Addr
<1>1. MemSize \in Nat /\ MemSize > 0
  BY MemSizeAssumption
<1>2. 0 \in Addr
  BY <1>1 DEF Addr
<1>3. \A a \in Addr : Next16(a) \in Addr
  BY <1>1 DEF Next16, Addr
<1> QED BY <1>2, <1>3

\* "none" is not an opcode, and no instruction has more than three cycles.
LEMMA OpcodeFacts ==
  /\ NoOpcode \notin Opcode
  /\ \A k \in Opcode : CycleCount[k] \in 1 .. 3
  BY OpcodeAssumption DEF NoOpcode, CycleCount

\* Whatever is executed, the CPU and the memory stay in their domains.
LEMMA OutcomeType ==
  ASSUME mem \in [Addr -> Opcode], NEW from \in Addr, NEW k, NEW o \in Outcomes(k, from)
  PROVE  o.pc \in Addr /\ o.halted \in BOOLEAN /\ o.mem \in [Addr -> Opcode]
<1>1. CASE k = "RST"
  <2>1. PICK to \in Addr, a \in Addr, v \in Opcode :
          o = [pc |-> to, halted |-> FALSE, error |-> "nil",
               mem |-> [mem EXCEPT ![a] = v], writes |-> {a}, ports |-> {}]
    BY <1>1 DEF Outcomes
  <2> QED BY <2>1
<1>2. CASE k # "RST"
  <2>1. o = [pc |-> from, halted |-> k = "HLT",
             error |-> IF k = "UNDEF" THEN "unimplemented" ELSE "nil",
             mem |-> mem, writes |-> {}, ports |-> IF k = "OUT" THEN Port ELSE {}]
    BY <1>2 DEF Outcomes
  <2> QED BY <2>1
<1> QED BY <1>1, <1>2

LEMMA StepOutcomeType ==
  ASSUME TypeOK, NEW o \in StepOutcomes
  PROVE  o.pc \in Addr /\ o.halted \in BOOLEAN /\ o.mem \in [Addr -> Opcode]
<1>1. CASE halted
  <2>1. o = Refused("stopped")
    BY <1>1 DEF StepOutcomes
  <2> QED BY <2>1 DEF Refused, TypeOK, CPUTypes
<1>2. CASE ~halted
  BY <1>2, OutcomeType, AddrFacts DEF StepOutcomes, TypeOK, CPUTypes
<1> QED BY <1>1, <1>2

\* A step is refused only by a CPU that is, and stays, halted.
LEMMA StoppedOutcome ==
  ASSUME NEW o \in StepOutcomes, o.error = "stopped"
  PROVE  o.halted
<1>1. CASE halted
  BY <1>1 DEF StepOutcomes, Refused
<1>2. CASE ~halted
  BY <1>2 DEF StepOutcomes, Outcomes
<1> QED BY <1>1, <1>2

LEMMA JamOutcomeType ==
  ASSUME TypeOK, NEW k, NEW o \in JamOutcomes(k)
  PROVE  o.pc \in Addr /\ o.halted \in BOOLEAN /\ o.mem \in [Addr -> Opcode]
  BY OutcomeType DEF JamOutcomes, TypeOK, CPUTypes

LEMMA OwnerJamOutcomeType ==
  ASSUME TypeOK, NEW k, NEW o \in OwnerJamOutcomes(k)
  PROVE  o.pc \in Addr /\ o.halted \in BOOLEAN /\ o.mem \in [Addr -> Opcode]
<1>1. CASE o = Refused("invalid")
  BY <1>1 DEF Refused, TypeOK, CPUTypes
<1> QED BY <1>1, JamOutcomeType DEF OwnerJamOutcomes

---------------------------------------------------------------------------
(* One runner at a time.                                                   *)

LEMMA OneRunnerStep ==
  ASSUME TypeOK, OneRunner, Next
  PROVE  OneRunner'
<1> USE DEF OneRunner, Inside, InRun, TypeOK, CallTypes, PanelTypes
<1>1. CASE Environment
  BY <1>1 DEF Environment, Stop, SetReady, RequestInterrupt, callVars
<1>2. CASE Owner
  BY <1>2 DEF Owner, Reset, Jam, Deposit, SetReadyCallback, callVars
<1>3. ASSUME NEW r \in Runner, Begin(r) PROVE OneRunner'
  <2>1. ASSUME NEW n \in 0 .. NoLimit, BeginRun(r, n) PROVE OneRunner'
    BY <2>1 DEF BeginRun, TryAcquire, NoBareStep, Goto
  <2>2. CASE BeginStep(r)
    BY <2>2 DEF BeginStep, Quiet, Goto
  <2> QED BY <1>3, <2>1, <2>2 DEF Begin
<1>4. ASSUME NEW r \in Runner, RunnerStep(r) PROVE OneRunner'
  <2> USE DEF Goto, Leave, callVars
  <2>1. CASE Top(r) BY <2>1 DEF Top
  <2>2. CASE CheckHalt(r) BY <2>2 DEF CheckHalt
  <2>3. CASE Observe(r) BY <2>3 DEF Observe
  <2>4. CASE Prepare(r) BY <2>4 DEF Prepare
  <2>5. CASE SampleReady(r) BY <2>5 DEF SampleReady
  <2>6. CASE ExecuteAny(r) BY <2>6 DEF ExecuteAny, ExecuteStep, ExecuteJam, Advance
  <2>7. CASE ClearInterrupt(r) BY <2>7 DEF ClearInterrupt, Advance
  <2>8. CASE Classify(r) BY <2>8 DEF Classify
  <2>9. CASE Return(r) BY <2>9 DEF Return
  <2> QED BY <1>4, <2>1, <2>2, <2>3, <2>4, <2>5, <2>6, <2>7, <2>8, <2>9 DEF RunnerStep
<1> QED BY <1>1, <1>2, <1>3, <1>4 DEF Next

---------------------------------------------------------------------------
(* Types.  The cycle index is bounded because the active opcode is an      *)
(* opcode whenever a runner samples READY.                                 *)

LEMMA CPUTypesStep ==
  ASSUME TypeOK, Next
  PROVE  CPUTypes'
<1> USE DEF TypeOK, CPUTypes, cpuVars
<1>1. CASE Environment
  BY <1>1 DEF Environment, Stop, SetReady, RequestInterrupt
<1>2. CASE Owner
  <2>1. CASE Reset
    BY <2>1, AddrFacts DEF Reset
  <2>2. ASSUME NEW k \in Opcode, NEW o \in OwnerJamOutcomes(k), Jam(o)
        PROVE  CPUTypes'
    BY <2>2, OwnerJamOutcomeType DEF Jam, ApplyCPU
  <2> QED BY <1>2, <2>1, <2>2 DEF Owner, Deposit, SetReadyCallback
<1>3. ASSUME NEW r \in Runner, Begin(r) PROVE CPUTypes'
  BY <1>3 DEF Begin, BeginRun, BeginStep
<1>4. ASSUME NEW r \in Runner, ExecuteAny(r) PROVE CPUTypes'
  <2>1. ASSUME NEW o \in StepOutcomes, ExecuteStep(r, o) PROVE CPUTypes'
    BY <2>1, StepOutcomeType DEF ExecuteStep, ApplyCPU
  <2>2. ASSUME NEW o \in JamOutcomes(activeOpcode), ExecuteJam(r, o) PROVE CPUTypes'
    BY <2>2, JamOutcomeType DEF ExecuteJam, ApplyCPU
  <2> QED BY <1>4, <2>1, <2>2 DEF ExecuteAny
<1>5. ASSUME NEW r \in Runner, RunnerStep(r), ~ExecuteAny(r) PROVE CPUTypes'
  BY <1>5 DEF RunnerStep, Top, CheckHalt, Observe, Prepare, SampleReady,
              ClearInterrupt, Classify, Return
<1> QED BY <1>1, <1>2, <1>3, <1>4, <1>5 DEF Next

LEMMA PanelTypesStep ==
  ASSUME TypeOK, Next
  PROVE  PanelTypes'
<1> USE DEF TypeOK, PanelTypes
<1>1. CASE Environment
  BY <1>1 DEF Environment, Stop, SetReady, RequestInterrupt
<1>2. CASE Owner
  BY <1>2 DEF Owner, Reset, Jam, Deposit, SetReadyCallback
<1>3. ASSUME NEW r \in Runner, Begin(r) PROVE PanelTypes'
  BY <1>3 DEF Begin, BeginRun, TryAcquire, BeginStep
<1>4. ASSUME NEW r \in Runner, RunnerStep(r) PROVE PanelTypes'
  BY <1>4 DEF RunnerStep, Top, CheckHalt, Observe, Prepare, SampleReady, ExecuteAny,
              ExecuteStep, ExecuteJam, ClearInterrupt, Classify, StopAfter, Return
<1> QED BY <1>1, <1>2, <1>3, <1>4 DEF Next

LEMMA CycleTypesStep ==
  ASSUME TypeOK, CycleInv, Next
  PROVE  CycleTypes'
<1> USE DEF TypeOK, CycleTypes, cycleVars
<1>1. ClearCycle => CycleTypes'
  <2>1. NoContext \in CycleContext
    BY AddrFacts DEF CycleContext, NoContext
  <2> SUFFICES ASSUME ClearCycle PROVE CycleTypes'
    OBVIOUS
  <2>2. cycleIndex' \in 0 .. 3
    BY DEF ClearCycle
  <2> QED BY <2>1, <2>2, Zenon DEF ClearCycle
<1>2. CASE Environment
  BY <1>2 DEF Environment, Stop, SetReady, RequestInterrupt
<1>3. CASE Owner
  BY <1>1, <1>3 DEF Owner, Reset, Jam, Deposit, SetReadyCallback
<1>4. ASSUME NEW r \in Runner, Begin(r) PROVE CycleTypes'
  BY <1>4 DEF Begin, BeginRun, BeginStep
<1>5. ASSUME NEW r \in Runner, RunnerStep(r) PROVE CycleTypes'
  <2>1. CASE Prepare(r)
    <3>1. mem[PC] \in Opcode
      BY DEF CPUTypes
    <3>2. CASE KeepsInstruction
      BY <2>1, <3>2 DEF Prepare
    <3>3. CASE ~KeepsInstruction
      <4>1. activeInterrupt' \in BOOLEAN /\ cycleActive' \in BOOLEAN
        <5>1. \/ activeInterrupt' = TakesInterrupt /\ cycleActive' = TRUE
              \/ UNCHANGED cycleVars
          BY <2>1, <3>3 DEF Prepare
        <5>2. TakesInterrupt \in BOOLEAN
          BY Zenon DEF TakesInterrupt
        <5> QED BY <5>1, <5>2
      <4>2. cycleIndex' \in 0 .. 3 /\ activeOpcode' \in Opcode \cup {NoOpcode}
        BY <2>1, <3>1, <3>3 DEF Prepare, PanelTypes, TakesInterrupt
      <4>3. UNCHANGED <<waiting, waitCycle>>
        BY <2>1, <3>3 DEF Prepare
      <4> QED BY <4>1, <4>2, <4>3
    <3> QED BY <3>2, <3>3
  <2>2. CASE SampleReady(r)
    <3>1. cycleIndex < 3
      BY <2>2, OpcodeFacts DEF SampleReady, CycleInv, RunnerCycle, ActiveInv
    <3>2. cycleIndex' \in 0 .. 3
      BY <2>2, <3>1 DEF SampleReady
    <3>3. waitCycle' \in CycleContext
      BY <2>2 DEF SampleReady, CycleContext, CPUTypes
    <3> QED BY <2>2, <3>2, <3>3 DEF SampleReady
  <2>3. CASE ExecuteAny(r)
    BY <2>3, <1>1 DEF ExecuteAny, ExecuteStep, ExecuteJam
  <2> QED BY <1>5, <2>1, <2>2, <2>3
          DEF RunnerStep, Top, CheckHalt, Observe, ClearInterrupt, Classify, Return
<1> QED BY <1>2, <1>3, <1>4, <1>5 DEF Next

LEMMA CallTypesStep ==
  ASSUME TypeOK, Next
  PROVE  CallTypes'
<1> USE DEF TypeOK, CallTypes, callVars, Goto, Leave, RunnerState, Reason
<1>1. CASE Environment
  BY <1>1 DEF Environment, Stop, SetReady, RequestInterrupt
<1>2. CASE Owner
  BY <1>2 DEF Owner, Reset, Jam, Deposit, SetReadyCallback
<1>3. ASSUME NEW r \in Runner, Begin(r) PROVE CallTypes'
  BY <1>3 DEF Begin, BeginRun, BeginStep
<1>4. ASSUME NEW r \in Runner, RunnerStep(r) PROVE CallTypes'
  <2>1. Advance(r) => CallTypes'
    BY MaxLimitAssumption DEF Advance, Counted
  <2>2. CASE Top(r) \/ CheckHalt(r) \/ Observe(r)
    BY <2>2 DEF Top, CheckHalt, Observe
  <2>3. CASE Prepare(r) \/ SampleReady(r)
    BY <2>3 DEF Prepare, SampleReady
  <2>4. CASE ExecuteAny(r)
    BY <2>4, <2>1 DEF ExecuteAny, ExecuteStep, ExecuteJam
  <2>5. CASE ClearInterrupt(r)
    BY <2>5, <2>1 DEF ClearInterrupt
  <2>6. CASE Classify(r)
    BY <2>6 DEF Classify, FinalReason, FinalReason_IgnoresHalt
  <2>7. CASE Return(r)
    BY <2>7, MaxLimitAssumption DEF Return, NoLimit
  <2> QED BY <1>4, <2>2, <2>3, <2>4, <2>5, <2>6, <2>7 DEF RunnerStep
<1> QED BY <1>1, <1>2, <1>3, <1>4 DEF Next

LEMMA HistoryTypesStep ==
  ASSUME TypeOK, Next
  PROVE  HistoryTypes'
<1> USE DEF TypeOK, HistoryTypes, history
<1>1. CASE Environment
  BY <1>1 DEF Environment, Stop, SetReady, RequestInterrupt
<1>2. CASE Owner
  BY <1>2 DEF Owner, Reset, Jam, Deposit, SetReadyCallback
<1>3. ASSUME NEW r \in Runner, Begin(r) PROVE HistoryTypes'
  BY <1>3 DEF Begin, BeginRun, BeginStep
<1>4. ASSUME NEW r \in Runner, RunnerStep(r) PROVE HistoryTypes'
  <2>1. ASSUME NEW o \in JamOutcomes(activeOpcode), ExecuteJam(r, o) PROVE HistoryTypes'
    BY <2>1 DEF ExecuteJam, CycleTypes
  <2>2. CASE ClearInterrupt(r)
    BY <2>2 DEF ClearInterrupt
  <2>3. ASSUME NEW o \in StepOutcomes, ExecuteStep(r, o) PROVE HistoryTypes'
    BY <2>3 DEF ExecuteStep
  <2> QED BY <1>4, <2>1, <2>2, <2>3
          DEF RunnerStep, Top, CheckHalt, Observe, Prepare, SampleReady, ExecuteAny,
              Classify, Return
<1> QED BY <1>1, <1>2, <1>3, <1>4 DEF Next

LEMMA TypeStep ==
  ASSUME TypeOK, CycleInv, Next
  PROVE  TypeOK'
BY CPUTypesStep, PanelTypesStep, CycleTypesStep, CallTypesStep, HistoryTypesStep DEF TypeOK

---------------------------------------------------------------------------
(* The instruction in progress.                                            *)

\* Owner calls and new calls find no runner inside.
LEMMA OwnerQuiet ==
  ASSUME TypeOK, OneRunner, ~running, NoBareStep
  PROVE  Quiet
  BY DEF OneRunner, NoBareStep, Quiet, InRun, TypeOK, CallTypes

\* Where the other runners are while one is inside.
LEMMA Alone ==
  ASSUME OneRunner, NEW r \in Runner, Inside(r)
  PROVE  \A s \in Runner : s # r => at[s] = "idle"
  BY DEF OneRunner, Inside

\* Clearing the cycle state when nobody is left in "cycle" or "clear" makes the
\* invariant true.
LEMMA ClearedCycle ==
  ASSUME TypeOK, ClearCycle, \A s \in Runner : at'[s] # "cycle",
         \A s \in Runner : at'[s] = "clear" => pendingInterrupt' # NoOpcode
  PROVE  CycleInv'
  BY DEF ClearCycle, CycleInv, RunnerCycle, ActiveInv, LightInv, SuspendInv

LEMMA CycleStep ==
  ASSUME TypeOK, OneRunner, CycleInv, Next
  PROVE  CycleInv'
<1> USE DEF cycleVars, cpuVars
<1>0. NoOpcode \notin Opcode
  BY OpcodeFacts
<1>1. CASE Environment
  <2> USE DEF CycleInv, RunnerCycle, ActiveInv, LightInv, SuspendInv
  <2>1. CASE Stop \/ \E level \in BOOLEAN : SetReady(level)
    BY <2>1 DEF Stop, SetReady
  <2>2. ASSUME NEW k \in Opcode, RequestInterrupt(k) PROVE CycleInv'
    BY <1>0, <2>2 DEF RequestInterrupt, LatchFree
  <2> QED BY <1>1, <2>1, <2>2 DEF Environment
<1>2. CASE Owner
  <2>1. Quiet
    BY <1>2, OwnerQuiet DEF Owner, Reset, Jam, Deposit, SetReadyCallback
  <2>2. UNCHANGED at
    BY <1>2 DEF Owner, Reset, Jam, Deposit, SetReadyCallback
  <2>3. ASSUME ClearCycle PROVE CycleInv'
    BY <2>1, <2>2, <2>3, ClearedCycle DEF Quiet, Inside
  <2>4. CASE UNCHANGED <<cycleVars, PC, halted, pendingInterrupt>>
    BY <2>2, <2>4 DEF CycleInv, RunnerCycle, ActiveInv, LightInv, SuspendInv
  <2> QED BY <1>2, <2>3, <2>4 DEF Owner, Reset, Jam, Deposit, SetReadyCallback
<1>3. ASSUME NEW r \in Runner, Begin(r) PROVE CycleInv'
  <2>1. at[r] = "idle" /\ at' \in {[at EXCEPT ![r] = "top"], [at EXCEPT ![r] = "prepare"]}
    BY <1>3 DEF Begin, BeginRun, BeginStep, Quiet, Inside, Goto
  <2>2. UNCHANGED <<cycleVars, PC, halted, pendingInterrupt>>
    BY <1>3 DEF Begin, BeginRun, BeginStep
  <2> QED BY <2>1, <2>2
          DEF CycleInv, RunnerCycle, ActiveInv, LightInv, SuspendInv, TypeOK, CallTypes
<1>4. ASSUME NEW r \in Runner, RunnerStep(r) PROVE CycleInv'
  <2>1. Inside(r)
    BY <1>4 DEF RunnerStep, Top, CheckHalt, Observe, Prepare, SampleReady, ExecuteAny,
                ExecuteStep, ExecuteJam, ClearInterrupt, Classify, Return, Inside
  <2>2. \A s \in Runner : s # r => at[s] = "idle"
    BY <2>1, Alone
  <2> USE DEF TypeOK, CallTypes, Goto, Leave
  <2>3. CASE Top(r) \/ CheckHalt(r) \/ Observe(r) \/ Classify(r) \/ Return(r)
    <3>1. at[r] \notin {"cycle", "clear"} /\ at'[r] \notin {"cycle", "clear"}
      BY <2>3 DEF Top, CheckHalt, Observe, Classify, Return
    <3>2. \A s \in Runner : s # r => at'[s] = at[s]
      BY <2>3 DEF Top, CheckHalt, Observe, Classify, Return
    <3>3. UNCHANGED <<cycleVars, PC, halted, pendingInterrupt>>
      BY <2>3 DEF Top, CheckHalt, Observe, Classify, Return
    <3> QED BY <3>1, <3>2, <3>3 DEF CycleInv, RunnerCycle, ActiveInv, LightInv, SuspendInv
  <2>4. CASE Prepare(r)
    <3> USE DEF CycleInv, RunnerCycle, ActiveInv, LightInv, SuspendInv
    <3>1. CASE KeepsInstruction
      BY <2>2, <2>4, <3>1 DEF Prepare, KeepsInstruction
    <3>2. CASE ~KeepsInstruction /\ ~TakesInterrupt /\ halted
      BY <2>2, <2>4, <3>2 DEF Prepare, KeepsInstruction, TakesInterrupt
    <3>3. CASE ~KeepsInstruction /\ (TakesInterrupt \/ ~halted)
      BY <2>2, <2>4, <3>3 DEF Prepare, KeepsInstruction, TakesInterrupt, CPUTypes, PanelTypes
    <3> QED BY <2>4, <3>1, <3>2, <3>3 DEF Prepare
  <2>5. CASE SampleReady(r)
    <3> USE DEF CycleTypes
    <3>1. cycleActive /\ at[r] = "cycle"
      BY <2>5 DEF SampleReady, CycleInv, RunnerCycle
    <3>2. RunnerCycle' /\ ActiveInv'
      BY <2>2, <2>5, <3>1 DEF SampleReady, CycleInv, RunnerCycle, ActiveInv
    <3>3. CASE cycleIndex' = cycleIndex + 1 /\ UNCHANGED <<at, waiting, waitCycle>>
      <4>1. LightInv'
        BY <2>5, <3>3 DEF SampleReady, CycleInv, LightInv, CycleContext
      <4>2. SuspendInv'
        BY <3>1, <3>3 DEF SuspendInv
      <4> QED BY <3>2, <4>1, <4>2 DEF CycleInv
    <3>4. CASE UNCHANGED cycleIndex /\ waiting'
               /\ waitCycle' = [pc |-> PC, opcode |-> activeOpcode, index |-> cycleIndex,
                                interrupt |-> activeInterrupt]
      BY <2>5, <3>2, <3>4 DEF SampleReady, CycleInv, LightInv, SuspendInv
    <3> QED BY <2>5, <3>3, <3>4 DEF SampleReady
  <2>6. CASE ExecuteAny(r)
    <3>1. ClearCycle /\ at'[r] # "cycle" /\ (\A s \in Runner : s # r => at'[s] = at[s])
      BY <2>6 DEF ExecuteAny, ExecuteStep, ExecuteJam, Advance
    <3>2. at'[r] = "clear" => pendingInterrupt' # NoOpcode
      BY <1>0, <2>6 DEF ExecuteAny, ExecuteStep, ExecuteJam, Advance, CycleInv, RunnerCycle,
                        ActiveInv
    <3> QED BY <2>2, <3>1, <3>2, ClearedCycle
  <2>7. CASE ClearInterrupt(r)
    BY <2>2, <2>7 DEF ClearInterrupt, Advance, CycleInv, RunnerCycle, ActiveInv, LightInv,
                      SuspendInv
  <2> QED BY <1>4, <2>3, <2>4, <2>5, <2>6, <2>7 DEF RunnerStep
<1> QED BY <1>1, <1>2, <1>3, <1>4 DEF Next

---------------------------------------------------------------------------
(* The ledger of interrupt requests.                                       *)

LEMMA LedgerStep ==
  ASSUME TypeOK, OneRunner, CycleInv, InterruptLedger, Next
  PROVE  InterruptLedger'
<1> USE DEF InterruptLedger, Retiring
<1>0. NoOpcode \notin Opcode
  BY OpcodeFacts
<1>1. CASE Environment
  <2>1. CASE Stop \/ \E level \in BOOLEAN : SetReady(level)
    BY <2>1 DEF Stop, SetReady, history
  <2>2. ASSUME NEW k \in Opcode, RequestInterrupt(k) PROVE InterruptLedger'
    BY <1>0, <2>2 DEF RequestInterrupt, LatchFree, TypeOK, HistoryTypes
  <2> QED BY <1>1, <2>1, <2>2 DEF Environment
<1>2. CASE Owner
  <2>1. CASE Reset
    <3>1. Quiet
      BY <2>1, OwnerQuiet DEF Reset
    <3> QED BY <2>1, <3>1 DEF Reset, Quiet, Inside, TypeOK, HistoryTypes
  <2> QED BY <1>2, <2>1 DEF Owner, Jam, Deposit, SetReadyCallback, history
<1>3. ASSUME NEW r \in Runner, Begin(r) PROVE InterruptLedger'
  BY <1>3 DEF Begin, BeginRun, BeginStep, Quiet, Inside, Goto, history, TypeOK, CallTypes
<1>4. ASSUME NEW r \in Runner, RunnerStep(r) PROVE InterruptLedger'
  <2>1. Inside(r)
    BY <1>4 DEF RunnerStep, Top, CheckHalt, Observe, Prepare, SampleReady, ExecuteAny,
                ExecuteStep, ExecuteJam, ClearInterrupt, Classify, Return, Inside
  <2>2. \A s \in Runner : s # r => at[s] = "idle"
    BY <2>1, Alone
  <2> USE DEF TypeOK, CallTypes, Goto, Leave, history
  <2>3. CASE Top(r) \/ CheckHalt(r) \/ Observe(r) \/ Prepare(r) \/ SampleReady(r)
             \/ Classify(r) \/ Return(r)
    <3>1. at[r] # "clear" /\ at'[r] # "clear" /\ (\A s \in Runner : s # r => at'[s] = at[s])
      BY <2>3 DEF Top, CheckHalt, Observe, Prepare, SampleReady, Classify, Return
    <3>2. UNCHANGED <<pendingInterrupt, history>>
      BY <2>3 DEF Top, CheckHalt, Observe, Prepare, SampleReady, Classify, Return
    <3> QED BY <3>1, <3>2
  <2>4. ASSUME NEW o \in StepOutcomes, ExecuteStep(r, o) PROVE InterruptLedger'
    BY <2>2, <2>4 DEF ExecuteStep, Advance
  <2>5. ASSUME NEW o \in JamOutcomes(activeOpcode), ExecuteJam(r, o) PROVE InterruptLedger'
    <3>1. pendingInterrupt # NoOpcode /\ at[r] = "cycle"
      BY <1>0, <2>5 DEF ExecuteJam, CycleInv, RunnerCycle, ActiveInv
    <3> QED BY <2>2, <2>5, <3>1 DEF ExecuteJam, HistoryTypes
  <2>6. CASE ClearInterrupt(r)
    BY <2>2, <2>6 DEF ClearInterrupt, Advance
  <2> QED BY <1>4, <2>3, <2>4, <2>5, <2>6 DEF RunnerStep, ExecuteAny
<1> QED BY <1>1, <1>2, <1>3, <1>4 DEF Next

---------------------------------------------------------------------------
(* Counts and reasons of a run.                                            *)

LEMMA CountStep ==
  ASSUME TypeOK, CountInv, Next
  PROVE  CountInv'
<1> USE DEF CountInv, TypeOK, CallTypes, callVars
<1>1. CASE Environment
  BY <1>1 DEF Environment, Stop, SetReady, RequestInterrupt
<1>2. CASE Owner
  BY <1>2 DEF Owner, Reset, Jam, Deposit, SetReadyCallback
<1>3. ASSUME NEW r \in Runner, Begin(r) PROVE CountInv'
  <2>1. ASSUME NEW n \in 0 .. NoLimit, BeginRun(r, n) PROVE CountInv'
    BY <2>1 DEF BeginRun, Goto, Inside
  <2>2. CASE BeginStep(r)
    BY <2>2 DEF BeginStep, Quiet, Inside, Goto
  <2> QED BY <1>3, <2>1, <2>2 DEF Begin
<1>4. ASSUME NEW r \in Runner, RunnerStep(r) PROVE CountInv'
  <2> USE DEF Goto, Leave
  <2>1. ASSUME call[r] = "run" => steps[r] < limit[r], Advance(r) PROVE CountInv'
    BY <2>1, MaxLimitAssumption DEF Advance, Counted, NoLimit
  <2>2. CASE Top(r) BY <2>2, MaxLimitAssumption DEF Top, NoLimit
  <2>3. CASE CheckHalt(r) \/ Observe(r) BY <2>3 DEF CheckHalt, Observe
  <2>4. CASE Prepare(r) \/ SampleReady(r) BY <2>4 DEF Prepare, SampleReady
  <2>5. CASE ExecuteAny(r) BY <2>1, <2>5 DEF ExecuteAny, ExecuteStep, ExecuteJam
  <2>6. CASE ClearInterrupt(r) BY <2>1, <2>6 DEF ClearInterrupt
  <2>7. CASE Classify(r) BY <2>7 DEF Classify
  <2>8. CASE Return(r) BY <2>8, MaxLimitAssumption DEF Return
  <2> QED BY <1>4, <2>2, <2>3, <2>4, <2>5, <2>6, <2>7, <2>8 DEF RunnerStep
<1> QED BY <1>1, <1>2, <1>3, <1>4 DEF Next

LEMMA ReasonStep ==
  ASSUME TypeOK, OneRunner, CycleInv, CountInv, ReasonTruthful, Next
  PROVE  ReasonTruthful'
<1> USE DEF ReasonTruthful, TypeOK, CallTypes, callVars
<1>1. CASE Environment
  BY <1>1 DEF Environment, Stop, SetReady, RequestInterrupt, cpuVars, cycleVars
<1>2. CASE Owner
  <2>1. Quiet
    BY <1>2, OwnerQuiet DEF Owner, Reset, Jam, Deposit, SetReadyCallback
  <2>2. UNCHANGED at
    BY <1>2 DEF Owner, Reset, Jam, Deposit, SetReadyCallback
  <2> QED BY <2>1, <2>2 DEF Quiet, Inside
<1>3. ASSUME NEW r \in Runner, Begin(r) PROVE ReasonTruthful'
  <2>1. \A s \in Runner : at'[s] = "return" => at[s] = "return" /\ call'[s] = call[s]
                                               /\ limit'[s] = limit[s]
    BY <1>3 DEF Begin, BeginRun, BeginStep, Goto
  <2>2. UNCHANGED <<cpuVars, cycleVars, steps, reason>>
    BY <1>3 DEF Begin, BeginRun, BeginStep
  <2> QED BY <2>1, <2>2 DEF cpuVars, cycleVars
<1>4. ASSUME NEW r \in Runner, RunnerStep(r) PROVE ReasonTruthful'
  <2>1. Inside(r)
    BY <1>4 DEF RunnerStep, Top, CheckHalt, Observe, Prepare, SampleReady, ExecuteAny,
                ExecuteStep, ExecuteJam, ClearInterrupt, Classify, Return, Inside
  <2>2. \A s \in Runner : s # r => at[s] = "idle"
    BY <2>1, Alone
  <2>3. \A s \in Runner : s # r => at'[s] = "idle"
    BY <1>4, <2>2 DEF RunnerStep, Top, CheckHalt, Observe, Prepare, SampleReady, ExecuteAny,
       ExecuteStep, ExecuteJam, ClearInterrupt, Classify, Return, Goto, Leave, Advance
  <2> USE DEF Goto, Leave
  <2>4. CASE Top(r) \/ Observe(r)
    BY <2>3, <2>4 DEF Top, Observe
  <2>5. CASE CheckHalt(r)
    BY <2>3, <2>5 DEF CheckHalt, cpuVars, cycleVars
  <2>6. CASE Prepare(r)
    BY <2>3, <2>6 DEF Prepare, KeepsInstruction, cpuVars, cycleVars
  <2>7. CASE SampleReady(r)
    BY <2>3, <2>7 DEF SampleReady, CountInv, cpuVars
  <2>8. CASE ExecuteAny(r)
    <3>1. at'[r] = "return" => \/ reason'[r] \in {"nil", "error"}
                               \/ halted' /\ ~cycleActive' /\ reason'[r] = "cpu"
      <4>1. ASSUME NEW o \in StepOutcomes, ExecuteStep(r, o), o.error = "stopped"
            PROVE  o.halted
        BY <4>1, StoppedOutcome
      <4>2. ASSUME NEW o \in StepOutcomes, ExecuteStep(r, o), at'[r] = "return"
            PROVE  \/ reason'[r] \in {"nil", "error"}
                   \/ reason'[r] = "cpu" /\ o.error = "stopped"
        BY <4>2 DEF ExecuteStep, Advance
      <4>3. ASSUME NEW o \in JamOutcomes(activeOpcode), ExecuteJam(r, o), at'[r] = "return"
            PROVE  reason'[r] = "error"
        BY <4>3 DEF ExecuteJam
      <4>4. ASSUME NEW o \in StepOutcomes, ExecuteStep(r, o)
            PROVE  halted' = o.halted /\ ~cycleActive'
        BY <4>4 DEF ExecuteStep, ApplyCPU, ClearCycle
      <4>5. ASSUME NEW o \in StepOutcomes, ExecuteStep(r, o)
            PROVE  at'[r] = "return" => \/ reason'[r] \in {"nil", "error"}
                                        \/ halted' /\ ~cycleActive' /\ reason'[r] = "cpu"
        BY <4>1, <4>2, <4>4, <4>5
      <4> QED BY <2>8, <4>3, <4>5 DEF ExecuteAny
    <3> QED BY <2>3, <3>1
  <2>9. CASE ClearInterrupt(r)
    BY <2>3, <2>9 DEF ClearInterrupt, Advance
  <2>10. CASE Classify(r)
    BY <2>3, <2>10 DEF Classify, FinalReason, FinalReason_IgnoresHalt, CountInv, cpuVars,
                       cycleVars
  <2>11. CASE Return(r)
    BY <2>3, <2>11 DEF Return
  <2> QED BY <1>4, <2>4, <2>5, <2>6, <2>7, <2>8, <2>9, <2>10, <2>11 DEF RunnerStep
<1> QED BY <1>1, <1>2, <1>3, <1>4 DEF Next

---------------------------------------------------------------------------
(* The theorems.                                                           *)

LEMMA InitInv == Init => PanelInv
<1> SUFFICES ASSUME Init PROVE PanelInv
  OBVIOUS
<1> USE DEF Init
<1>1. NoContext \in CycleContext
  BY AddrFacts DEF NoContext, CycleContext
<1>2. CallTypes
  BY MaxLimitAssumption DEF CallTypes, RunnerState, Reason, NoLimit
<1>3. HistoryTypes /\ cycleIndex \in 0 .. 3
  BY DEF HistoryTypes
<1>7. CPUTypes /\ PanelTypes /\ CycleTypes
  BY <1>1, <1>3, AddrFacts, Zenon DEF CPUTypes, PanelTypes, CycleTypes
<1>4. OneRunner
  BY DEF OneRunner, Inside, InRun
<1>5. CycleInv
  BY DEF CycleInv, RunnerCycle, ActiveInv, LightInv, SuspendInv
<1>6. InterruptLedger /\ CountInv /\ ReasonTruthful
  BY DEF InterruptLedger, Retiring, CountInv, ReasonTruthful
<1> QED BY <1>2, <1>3, <1>4, <1>5, <1>6, <1>7 DEF PanelInv, TypeOK

LEMMA StutterInv == PanelInv /\ UNCHANGED vars => PanelInv'
<1> SUFFICES ASSUME PanelInv, UNCHANGED vars PROVE PanelInv'
  OBVIOUS
<1> USE DEF vars, cpuVars, cycleVars, callVars, history
<1>1. TypeOK'
  BY DEF PanelInv, TypeOK, CPUTypes, PanelTypes, CycleTypes, CallTypes, HistoryTypes
<1>2. OneRunner'
  BY DEF PanelInv, OneRunner, Inside, InRun
<1>3. CycleInv'
  BY DEF PanelInv, CycleInv, RunnerCycle, ActiveInv, LightInv, SuspendInv
<1>4. InterruptLedger'
  BY DEF PanelInv, InterruptLedger, Retiring
<1>5. CountInv' /\ ReasonTruthful'
  BY DEF PanelInv, CountInv, ReasonTruthful
<1> QED BY <1>1, <1>2, <1>3, <1>4, <1>5 DEF PanelInv

\* The inductive invariant holds in every reachable state of the panel.
THEOREM PanelInvariant == Spec => []PanelInv
<1>1. PanelInv /\ [Next]_vars => PanelInv'
  <2> SUFFICES ASSUME PanelInv, [Next]_vars PROVE PanelInv'
    OBVIOUS
  <2>1. CASE Next
    BY <2>1, TypeStep, OneRunnerStep, CycleStep, LedgerStep, CountStep, ReasonStep DEF PanelInv
  <2>2. CASE UNCHANGED vars
    BY <2>2, StutterInv
  <2> QED BY <2>1, <2>2
<1> QED BY InitInv, <1>1, PTL DEF Spec

\* Every variable of the panel stays in its domain, whatever the callers do.
THEOREM TypeCorrect == Spec => []TypeOK
<1>1. PanelInv => TypeOK
  BY DEF PanelInv
<1> QED BY PanelInvariant, <1>1, PTL

\* The compare-and-swap of Run excludes every second runner, and the running flag
\* tells the truth, for any number of goroutines.
THEOREM MutualExclusion == Spec => []OneRunner
<1>1. PanelInv => OneRunner
  BY DEF PanelInv
<1> QED BY PanelInvariant, <1>1, PTL

\* No accepted interrupt request is lost, overwritten or forced twice, for any
\* number of requests.
THEOREM RequestsAccounted == Spec => []InterruptLedger
<1>1. PanelInv => InterruptLedger
  BY DEF PanelInv
<1> QED BY PanelInvariant, <1>1, PTL

\* The panel implements the one-place latch, for any number of requests, runners
\* and reset, stop and wait events between a request and its execution.
THEOREM PanelImplementsLatch == Spec => LatchSpec
<1> USE DEF Retiring
<1>1. Init => Latch!Init
  BY DEF Init, Latch!Init
<1>2. PanelInv /\ [Next]_vars => [Latch!Next]_(Latch!latchVars)
  <2> SUFFICES ASSUME PanelInv, [Next]_vars
               PROVE  Latch!Next \/ UNCHANGED Latch!latchVars
    OBVIOUS
  <2> USE DEF Latch!Next, Latch!latchVars
  <2>0. NoOpcode \notin Opcode
    BY OpcodeFacts
  <2>1. CASE UNCHANGED vars
    BY <2>1 DEF vars, history
  <2>2. CASE Environment
    <3>1. CASE Stop \/ \E level \in BOOLEAN : SetReady(level)
      BY <3>1 DEF Stop, SetReady, history
    <3>2. ASSUME NEW k \in Opcode, RequestInterrupt(k) PROVE Latch!Accept(k)
      <4>1. ~Retiring /\ ~Retiring'
        BY <3>2 DEF RequestInterrupt, LatchFree, PanelInv, CycleInv, RunnerCycle
      <4> QED BY <2>0, <3>2, <4>1 DEF RequestInterrupt, LatchFree, Latch!Accept
    <3> QED BY <2>2, <3>1, <3>2 DEF Environment
  <2>3. CASE Owner
    <3>1. CASE Reset
      <4>1. ~Retiring /\ ~Retiring'
        BY <3>1, OwnerQuiet DEF Reset, Quiet, Inside, PanelInv
      <4>2. CASE pendingInterrupt = NoOpcode
        BY <3>1, <4>1, <4>2 DEF Reset, PanelInv, TypeOK, HistoryTypes
      <4>3. CASE pendingInterrupt # NoOpcode
        BY <3>1, <4>1, <4>3 DEF Reset, Latch!Drop
      <4> QED BY <4>2, <4>3
    <3> QED BY <2>3, <3>1 DEF Owner, Jam, Deposit, SetReadyCallback, history
  <2>4. ASSUME NEW r \in Runner, Begin(r) PROVE UNCHANGED Latch!latchVars
    <3>1. Retiring' = Retiring
      BY <2>4 DEF Begin, BeginRun, BeginStep, Quiet, Inside, Goto, PanelInv, TypeOK, CallTypes
    <3> QED BY <2>4, <3>1 DEF Begin, BeginRun, BeginStep, history
  <2>5. ASSUME NEW r \in Runner, RunnerStep(r)
        PROVE  Latch!Next \/ UNCHANGED Latch!latchVars
    <3>1. Inside(r)
      BY <2>5 DEF RunnerStep, Top, CheckHalt, Observe, Prepare, SampleReady, ExecuteAny,
                  ExecuteStep, ExecuteJam, ClearInterrupt, Classify, Return, Inside
    <3>2. \A s \in Runner : s # r => at[s] = "idle"
      BY <3>1, Alone DEF PanelInv
    <3> USE DEF PanelInv, TypeOK, CallTypes, Goto, Leave, history
    <3>3. CASE Top(r) \/ CheckHalt(r) \/ Observe(r) \/ Prepare(r) \/ SampleReady(r)
               \/ Classify(r) \/ Return(r)
      <4>1. at[r] # "clear" /\ at'[r] # "clear" /\ (\A s \in Runner : s # r => at'[s] = at[s])
        BY <3>3 DEF Top, CheckHalt, Observe, Prepare, SampleReady, Classify, Return
      <4>2. UNCHANGED <<pendingInterrupt, history>>
        BY <3>3 DEF Top, CheckHalt, Observe, Prepare, SampleReady, Classify, Return
      <4> QED BY <4>1, <4>2
    <3>4. ASSUME NEW o \in StepOutcomes, ExecuteStep(r, o) PROVE UNCHANGED Latch!latchVars
      BY <3>2, <3>4 DEF ExecuteStep, Advance
    <3>5. ASSUME NEW o \in JamOutcomes(activeOpcode), ExecuteJam(r, o)
          PROVE  Latch!Next \/ UNCHANGED Latch!latchVars
      <4>1. ~Retiring
        BY <3>2, <3>5 DEF ExecuteJam
      <4>2. pendingInterrupt = activeOpcode /\ pendingInterrupt # NoOpcode
        BY <2>0, <3>5 DEF ExecuteJam, CycleInv, RunnerCycle, ActiveInv
      <4>3. CASE o.error = "nil"
        <5>1. Retiring'
          BY <3>5, <4>3 DEF ExecuteJam
        <5> QED BY <3>5, <4>1, <4>2, <4>3, <5>1 DEF ExecuteJam, Latch!Force
      <4>4. CASE o.error # "nil"
        <5>1. ~Retiring'
          BY <3>2, <3>5, <4>4 DEF ExecuteJam
        <5> QED BY <3>5, <4>1, <4>4, <5>1 DEF ExecuteJam
      <4> QED BY <4>3, <4>4
    <3>6. CASE ClearInterrupt(r)
      <4>1. Retiring /\ ~Retiring'
        BY <3>2, <3>6 DEF ClearInterrupt, Advance
      <4> QED BY <3>6, <4>1 DEF ClearInterrupt
    <3> QED BY <2>5, <3>3, <3>4, <3>5, <3>6 DEF RunnerStep, ExecuteAny
  <2> QED BY <2>1, <2>2, <2>3, <2>4, <2>5 DEF Next
<1> QED BY PanelInvariant, <1>1, <1>2, PTL DEF Spec, LatchSpec, Latch!Spec

\* The instruction in progress and the WAIT light agree between any two steps.
THEOREM WaitIsCoherent == Spec => []WaitCoherent
<1>1. PanelInv => WaitCoherent
  BY DEF PanelInv, CycleInv, ActiveInv, LightInv, SuspendInv, WaitCoherent, Quiet, Inside
<1> QED BY PanelInvariant, <1>1, PTL

\* The reason a Run returns is true when it returns.
THEOREM ReasonsTrue == Spec => []ReasonTruthful
<1>1. PanelInv => ReasonTruthful
  BY DEF PanelInv
<1> QED BY PanelInvariant, <1>1, PTL

\* A stop request disappears only into a run that reports it, or by Reset.
THEOREM StopsAnswered == Spec => StopAnswered
<1>1. PanelInv /\ [Next]_vars =>
        [stopRequested /\ ~stopRequested' =>
           Reset \/ \E r \in Runner : at'[r] = "return" /\ reason'[r] = "requested"]_vars
  <2> SUFFICES ASSUME PanelInv, Next, stopRequested, ~stopRequested', ~Reset
               PROVE  \E r \in Runner : at'[r] = "return" /\ reason'[r] = "requested"
    BY DEF vars
  <2>1. \E r \in Runner : Top(r) \/ Classify(r)
    <3>1. ~Environment
      BY DEF Environment, Stop, SetReady, RequestInterrupt
    <3>2. ~Owner
      BY DEF Owner, Jam, Deposit, SetReadyCallback
    <3>3. \A r \in Runner : ~Begin(r)
      BY DEF Begin, BeginRun, BeginStep
    <3>4. PICK r \in Runner : RunnerStep(r)
      BY <3>1, <3>2, <3>3 DEF Next
    <3> QED BY <3>4 DEF RunnerStep, CheckHalt, Observe, Prepare, SampleReady, ExecuteAny,
                        ExecuteStep, ExecuteJam, ClearInterrupt, Return
  <2>2. PICK r \in Runner : Top(r) \/ Classify(r)
    BY <2>1
  <2>3. at \in [Runner -> RunnerState] /\ reason \in [Runner -> Reason]
    BY DEF PanelInv, TypeOK, CallTypes
  <2> QED BY <2>2, <2>3 DEF Top, Classify, Leave, Goto, FinalReason, StopAfter
<1> QED BY PanelInvariant, <1>1, PTL DEF Spec, StopAnswered

\* An instruction in progress is not replaced, and its machine cycles are sampled
\* in order.
THEOREM CyclesSampledInOrder == Spec => CyclesInOrder
<1>1. PanelInv /\ [Next]_vars =>
        [cycleActive /\ cycleActive' =>
           /\ UNCHANGED <<activeOpcode, activeInterrupt, PC>>
           /\ cycleIndex' \in {cycleIndex, cycleIndex + 1}]_vars
  <2> SUFFICES ASSUME PanelInv, Next, cycleActive, cycleActive'
               PROVE  /\ UNCHANGED <<activeOpcode, activeInterrupt, PC>>
                      /\ cycleIndex' \in {cycleIndex, cycleIndex + 1}
    BY DEF vars
  <2> USE DEF cpuVars, cycleVars, ClearCycle
  <2>1. CASE Environment
    BY <2>1 DEF Environment, Stop, SetReady, RequestInterrupt
  <2>2. CASE Owner
    BY <2>2 DEF Owner, Reset, Jam, Deposit, SetReadyCallback
  <2>3. ASSUME NEW r \in Runner, Begin(r) \/ RunnerStep(r)
        PROVE  /\ UNCHANGED <<activeOpcode, activeInterrupt, PC>>
               /\ cycleIndex' \in {cycleIndex, cycleIndex + 1}
    BY <2>3 DEF Begin, BeginRun, BeginStep, RunnerStep, Top, CheckHalt, Observe, Prepare,
                KeepsInstruction, SampleReady, ExecuteAny, ExecuteStep, ExecuteJam,
                ClearInterrupt, Classify, Return
  <2> QED BY <2>1, <2>2, <2>3 DEF Next
<1> QED BY PanelInvariant, <1>1, PTL DEF Spec, CyclesInOrder
===========================================================================
