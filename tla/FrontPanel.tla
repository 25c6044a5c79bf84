---------------------------- MODULE FrontPanel ----------------------------
(***************************************************************************)
(* The front panel of src/machine/frontpanel.go: the device that owns the  *)
(* CPU, samples READY before each machine cycle, forces interrupt          *)
(* instructions at instruction boundaries and runs programs until somebody *)
(* stops it.                                                               *)
(*                                                                         *)
(* The interleaving is the subject.  A goroutine inside Run or Step is a   *)
(* runner with a program counter, and one action is the code between two   *)
(* accesses to state that another goroutine may touch (an atomic, or the   *)
(* fields behind interruptMu).  Stop, SetReady and RequestInterrupt may    *)
(* happen between any two of those actions.  Reset, Jam, Deposit,          *)
(* SetReadyCallback and a bare Step are called by the owner of the panel   *)
(* while no call is in progress, as the comment on the type demands.       *)
(*                                                                         *)
(* Instructions are reduced to five classes, which is all the panel can    *)
(* tell apart: NOP falls through, RST writes memory and jumps, OUT uses a  *)
(* port, HLT halts, UNDEF is an opcode whose execution fails.  A memory    *)
(* cell holds a class.                                                     *)
(***************************************************************************)
EXTENDS Integers

CONSTANTS
  Runner,       \* goroutines that may call Run or Step
  Opcode,       \* instruction classes in use
  MemSize,      \* memory cells; addresses wrap as the 16-bit PC does
  MaxLimit,     \* largest finite limit passed to Run
  MaxRequests   \* bound on accepted interrupt requests in a behaviour

ASSUME OpcodeAssumption == Opcode \subseteq {"NOP", "RST", "OUT", "HLT", "UNDEF"}
ASSUME MemSizeAssumption == MemSize \in Nat \ {0}
ASSUME MaxLimitAssumption == MaxLimit \in Nat
ASSUME MaxRequestsAssumption == MaxRequests \in Nat

Addr == 0 .. MemSize - 1
Port == {0}
NoOpcode == "none"
CycleCount == [k \in Opcode |-> IF k \in {"RST", "OUT"} THEN 3 ELSE 1]

\* An unlimited run passes a limit that Steps never reaches: Steps saturates
\* one below it.
NoLimit == MaxLimit + 1

RunnerState == {"idle", "top", "check", "observe", "prepare", "cycle", "clear",
                "classify", "return"}
Reason == {"none", "nil", "error", "cpu", "requested", "limit", "waiting"}

CycleContext == [pc : Addr, opcode : Opcode \cup {NoOpcode},
                 index : 0 .. 3, interrupt : BOOLEAN]
NoContext == [pc |-> 0, opcode |-> NoOpcode, index |-> 0, interrupt |-> FALSE]

VARIABLES
  mem, PC, halted,                               \* the CPU and its memory
  running, stopRequested, ready, readyCallback,  \* atomics and READY policy
  cycleActive, cycleIndex, activeOpcode, activeInterrupt, waiting, waitCycle,
  pendingInterrupt,                              \* behind interruptMu
  at, call, limit, steps, reason,                \* the runners
  accepted, forced, dropped, lastForced          \* history of the requests

cpuVars == <<mem, PC, halted>>
cycleVars == <<cycleActive, cycleIndex, activeOpcode, activeInterrupt, waiting, waitCycle>>
callVars == <<call, limit, steps>>
history == <<accepted, forced, dropped, lastForced>>
vars == <<cpuVars, running, stopRequested, ready, readyCallback, cycleVars,
          pendingInterrupt, at, callVars, reason, history>>

Inside(r) == at[r] # "idle"
InRun(r) == Inside(r) /\ call[r] = "run"
Quiet == \A r \in Runner : ~Inside(r)
NoBareStep == \A r \in Runner : Inside(r) => call[r] = "run"

---------------------------------------------------------------------------
(* The CPU, as far as the panel sees it.                                   *)

Next16(a) == (a + 1) % MemSize

\* What executing opcode k may do once PC is `from`: next PC, halt, the addresses
\* written and ports used, or failure.
Outcomes(k, from) ==
  CASE k = "RST" -> {[pc |-> to, halted |-> FALSE, error |-> "nil",
                      mem |-> [mem EXCEPT ![a] = v], writes |-> {a},
                      ports |-> {}] :
                       to \in Addr, a \in Addr, v \in Opcode}
    [] OTHER -> {[pc |-> from, halted |-> k = "HLT",
                  error |-> IF k = "UNDEF" THEN "unimplemented" ELSE "nil",
                  mem |-> mem, writes |-> {},
                  ports |-> IF k = "OUT" THEN Port ELSE {}]}

\* The CPU returns an error before it does anything.
Refused(why) == [pc |-> PC, halted |-> halted, error |-> why, mem |-> mem,
                 writes |-> {}, ports |-> {}]

\* cpu.Step: refuses a halted CPU, otherwise fetches the byte that is in memory
\* now (PC moves even if the execution fails) and executes it.
StepOutcomes ==
  IF halted
  THEN {Refused("stopped")}
  ELSE Outcomes(mem[PC], Next16(PC))

\* cpu.Jam: no fetch; the CPU leaves the halt state before the execution.
JamOutcomes(k) == Outcomes(k, PC)

\* A Jam called by the owner may have the wrong number of operands.
OwnerJamOutcomes(k) == JamOutcomes(k) \cup {Refused("invalid")}

ApplyCPU(o) == PC' = o.pc /\ halted' = o.halted /\ mem' = o.mem

---------------------------------------------------------------------------
(* Helpers of the panel.  A definition named X_Y just before X is X with a *)
(* plausible mistake Y; no specification uses it.                          *)

\* The compare-and-swap on the running flag.
TryAcquire_NoCompare == running' = TRUE
TryAcquire == ~running /\ running' = TRUE

\* The test of RequestInterrupt under the lock.
LatchFree_Overwrites == TRUE
LatchFree == pendingInterrupt = NoOpcode

\* prepareCycles goes on with the instruction suspended in WAIT.
KeepsInstruction_UnlessInterrupt == cycleActive /\ pendingInterrupt = NoOpcode
KeepsInstruction == cycleActive

\* prepareCycles prefers the pending request to the program.
TakesInterrupt_OnlyHalted == pendingInterrupt # NoOpcode /\ halted
TakesInterrupt == pendingInterrupt # NoOpcode

\* The Swap at the head of the loop.
StopSeen_IfPending == stopRequested /\ pendingInterrupt # NoOpcode
StopSeen == stopRequested

\* result.Steps++
Counted_Not(n) == n
Counted(n) == IF n < MaxLimit THEN n + 1 ELSE n

\* The reason after the loop, and what is left of the stop request: it is
\* swapped only if the CPU is not halted.
FinalReason_IgnoresHalt == IF stopRequested THEN "requested" ELSE "limit"
FinalReason == IF halted THEN "cpu" ELSE FinalReason_IgnoresHalt
StopAfter_SwapsFirst(why) == FALSE
StopAfter(why) == stopRequested /\ why # "requested"

ClearCycle_KeepsLight ==
  /\ cycleActive' = FALSE /\ cycleIndex' = 0
  /\ activeOpcode' = NoOpcode /\ activeInterrupt' = FALSE
  /\ UNCHANGED <<waiting, waitCycle>>
ClearCycle ==
  /\ cycleActive' = FALSE
  /\ cycleIndex' = 0
  /\ activeOpcode' = NoOpcode
  /\ activeInterrupt' = FALSE
  /\ waiting' = FALSE
  /\ waitCycle' = NoContext

Goto(r, label) == at' = [at EXCEPT ![r] = label]

\* The call made by r ends with result `why` and is about to return.
Leave(r, why) == Goto(r, "return") /\ reason' = [reason EXCEPT ![r] = why]

\* One instruction is done: Run counts it and goes round its loop.
Advance(r) ==
  IF call[r] = "run"
  THEN /\ Goto(r, "top")
       /\ steps' = [steps EXCEPT ![r] = Counted(@)]
       /\ UNCHANGED <<call, limit, reason>>
  ELSE Leave(r, "nil") /\ UNCHANGED callVars

---------------------------------------------------------------------------
(* The runner: Run, Step, prepareCycles.                                   *)

\* Entry of Run; the compare-and-swap lets one caller in.  A refused call
\* returns ErrFrontPanelRunning and changes nothing.
BeginRun(r, n) ==
  /\ ~Inside(r) /\ NoBareStep
  /\ TryAcquire
  /\ Goto(r, "top")
  /\ call' = [call EXCEPT ![r] = "run"]
  /\ limit' = [limit EXCEPT ![r] = n]
  /\ UNCHANGED <<cpuVars, stopRequested, ready, readyCallback, cycleVars,
                 pendingInterrupt, steps, reason, history>>

\* Entry of Step called directly by the owner of a quiet panel.
BeginStep(r) ==
  /\ Quiet
  /\ Goto(r, "prepare")
  /\ call' = [call EXCEPT ![r] = "step"]
  /\ UNCHANGED <<cpuVars, running, stopRequested, ready, readyCallback, cycleVars,
                 pendingInterrupt, limit, steps, reason, history>>

\* Head of the loop: limit, then Swap of the stop request.
Top(r) ==
  /\ at[r] = "top"
  /\ \/ /\ steps[r] >= limit[r]
        /\ Goto(r, "classify")
        /\ UNCHANGED <<stopRequested, reason>>
     \/ /\ steps[r] < limit[r] /\ StopSeen
        /\ stopRequested' = FALSE
        /\ Leave(r, "requested")
     \/ /\ steps[r] < limit[r] /\ ~StopSeen
        /\ Goto(r, "check")
        /\ UNCHANGED <<stopRequested, reason>>
  /\ UNCHANGED <<cpuVars, running, ready, readyCallback, cycleVars,
                 pendingInterrupt, callVars, history>>

\* A halted CPU ends the run unless an interrupt can wake it up.
CheckHalt(r) ==
  /\ at[r] = "check"
  /\ IF halted /\ pendingInterrupt = NoOpcode /\ ~cycleActive
     THEN Leave(r, "cpu")
     ELSE Goto(r, "observe") /\ UNCHANGED reason
  /\ UNCHANGED <<cpuVars, running, stopRequested, ready, readyCallback, cycleVars,
                 pendingInterrupt, callVars, history>>

\* The observer sees the CPU and may end the run with an error.
Observe(r) ==
  /\ at[r] = "observe"
  /\ \/ Goto(r, "prepare") /\ UNCHANGED reason
     \/ Leave(r, "error")
  /\ UNCHANGED <<cpuVars, running, stopRequested, ready, readyCallback, cycleVars,
                 pendingInterrupt, callVars, history>>

\* prepareCycles: keep an instruction suspended in WAIT, otherwise choose the
\* pending interrupt, otherwise the opcode PC points to.
Prepare(r) ==
  /\ at[r] = "prepare"
  /\ \/ /\ KeepsInstruction
        /\ Goto(r, "cycle")
        /\ UNCHANGED <<cycleVars, reason>>
     \/ /\ ~KeepsInstruction /\ ~TakesInterrupt /\ halted
        /\ Leave(r, "cpu")
        /\ UNCHANGED cycleVars
     \/ /\ ~KeepsInstruction /\ (TakesInterrupt \/ ~halted)
        /\ cycleActive' = TRUE
        /\ cycleIndex' = 0
        /\ activeInterrupt' = TakesInterrupt
        /\ activeOpcode' = IF TakesInterrupt THEN pendingInterrupt ELSE mem[PC]
        /\ Goto(r, "cycle")
        /\ UNCHANGED <<waiting, waitCycle, reason>>
  /\ UNCHANGED <<cpuVars, running, stopRequested, ready, readyCallback,
                 pendingInterrupt, callVars, history>>

\* One turn of the machine cycle loop: READY is sampled, from the callback if
\* there is one; a low level suspends the instruction.
SampleReady(r) ==
  /\ at[r] = "cycle"
  /\ cycleIndex < CycleCount[activeOpcode]
  /\ \E level \in (IF readyCallback THEN BOOLEAN ELSE {ready}) :
       \/ /\ level
          /\ cycleIndex' = cycleIndex + 1
          /\ UNCHANGED <<at, reason, waiting, waitCycle>>
       \/ /\ ~level
          /\ waiting' = TRUE
          /\ waitCycle' = [pc |-> PC, opcode |-> activeOpcode, index |-> cycleIndex,
                           interrupt |-> activeInterrupt]
          /\ Leave(r, "waiting")
          /\ UNCHANGED cycleIndex
  /\ UNCHANGED <<cpuVars, running, stopRequested, ready, readyCallback, cycleActive,
                 activeOpcode, activeInterrupt, pendingInterrupt, callVars, history>>

\* All cycles sampled, not an interrupt: cpu.Step with outcome o.
ExecuteStep(r, o) ==
  /\ at[r] = "cycle"
  /\ cycleIndex >= CycleCount[activeOpcode]
  /\ ~activeInterrupt
  /\ ClearCycle
  /\ ApplyCPU(o)
  /\ IF o.error = "nil"
     THEN Advance(r)
     ELSE Leave(r, IF o.error = "stopped" THEN "cpu" ELSE "error") /\ UNCHANGED callVars
  /\ UNCHANGED <<running, stopRequested, ready, readyCallback, pendingInterrupt, history>>

\* All cycles sampled, interrupt: cpu.Jam with outcome o.  The request is still
\* in pendingInterrupt, and stays there if the execution failed.
ExecuteJam(r, o) ==
  /\ at[r] = "cycle"
  /\ cycleIndex >= CycleCount[activeOpcode]
  /\ activeInterrupt
  /\ ClearCycle
  /\ ApplyCPU(o)
  /\ IF o.error = "nil"
     THEN Goto(r, "clear") /\ forced' = forced + 1 /\ lastForced' = activeOpcode
          /\ UNCHANGED reason
     ELSE Leave(r, "error") /\ UNCHANGED <<forced, lastForced>>
  /\ UNCHANGED <<running, stopRequested, ready, readyCallback, pendingInterrupt,
                 callVars, accepted, dropped>>

\* The forced instruction is done: the request is removed under the lock.
ClearInterrupt(r) ==
  /\ at[r] = "clear"
  /\ pendingInterrupt' = NoOpcode
  /\ Advance(r)
  /\ UNCHANGED <<cpuVars, running, stopRequested, ready, readyCallback, cycleVars,
                 accepted, forced, dropped, lastForced>>

\* After the loop: the reason of a run that used up its limit.
Classify(r) ==
  /\ at[r] = "classify"
  /\ Leave(r, FinalReason)
  /\ stopRequested' = StopAfter(FinalReason)
  /\ UNCHANGED <<cpuVars, running, ready, readyCallback, cycleVars,
                 pendingInterrupt, callVars, history>>

\* The call returns its result, a Run after its deferred Store(false); what was
\* local to the call is gone.
Return(r) ==
  /\ at[r] = "return"
  /\ running' = (running /\ call[r] # "run")
  /\ Goto(r, "idle")
  /\ call' = [call EXCEPT ![r] = "run"]
  /\ limit' = [limit EXCEPT ![r] = 0]
  /\ steps' = [steps EXCEPT ![r] = 0]
  /\ reason' = [reason EXCEPT ![r] = "none"]
  /\ UNCHANGED <<cpuVars, stopRequested, ready, readyCallback, cycleVars,
                 pendingInterrupt, history>>

ExecuteAny(r) ==
  \/ \E o \in StepOutcomes : ExecuteStep(r, o)
  \/ \E o \in JamOutcomes(activeOpcode) : ExecuteJam(r, o)

RunnerStep(r) ==
  \/ Top(r) \/ CheckHalt(r) \/ Observe(r) \/ Prepare(r) \/ SampleReady(r)
  \/ ExecuteAny(r) \/ ClearInterrupt(r) \/ Classify(r) \/ Return(r)

---------------------------------------------------------------------------
(* Concurrent callers.                                                     *)

Stop ==
  /\ stopRequested' = TRUE
  /\ UNCHANGED <<cpuVars, running, ready, readyCallback, cycleVars,
                 pendingInterrupt, at, callVars, reason, history>>

SetReady(level) ==
  /\ ready' = level
  /\ UNCHANGED <<cpuVars, running, stopRequested, readyCallback, cycleVars,
                 pendingInterrupt, at, callVars, reason, history>>

\* Accepted only if no request is pending; any well-formed opcode is accepted,
\* unassigned ones too.
RequestInterrupt(k) ==
  /\ accepted < MaxRequests
  /\ LatchFree
  /\ pendingInterrupt' = k
  /\ accepted' = accepted + 1
  /\ UNCHANGED <<cpuVars, running, stopRequested, ready, readyCallback, cycleVars,
                 at, callVars, reason, forced, dropped, lastForced>>

(* Calls of the owner; each refuses while running.                         *)

Reset ==
  /\ ~running /\ NoBareStep
  /\ stopRequested' = FALSE
  /\ ClearCycle
  /\ pendingInterrupt' = NoOpcode
  /\ dropped' = dropped + (IF pendingInterrupt = NoOpcode THEN 0 ELSE 1)
  /\ PC' = 0 /\ halted' = FALSE
  /\ UNCHANGED <<mem, running, ready, readyCallback, at, callVars, reason,
                 accepted, forced, lastForced>>

\* Jam forces an instruction, with outcome o, whatever instruction was suspended in
\* WAIT: that one is forgotten even if the CPU refuses the new one.
Jam(o) ==
  /\ ~running /\ NoBareStep
  /\ ClearCycle
  /\ ApplyCPU(o)
  /\ UNCHANGED <<running, stopRequested, ready, readyCallback, pendingInterrupt,
                 at, callVars, reason, history>>

Deposit(a, v) ==
  /\ ~running /\ NoBareStep
  /\ mem' = [mem EXCEPT ![a] = v]
  /\ UNCHANGED <<PC, halted, running, stopRequested, ready, readyCallback, cycleVars,
                 pendingInterrupt, at, callVars, reason, history>>

SetReadyCallback(present) ==
  /\ ~running /\ NoBareStep
  /\ readyCallback' = present
  /\ UNCHANGED <<cpuVars, running, stopRequested, ready, cycleVars,
                 pendingInterrupt, at, callVars, reason, history>>

Environment ==
  \/ Stop
  \/ \E level \in BOOLEAN : SetReady(level)
  \/ \E k \in Opcode : RequestInterrupt(k)

Owner ==
  \/ Reset
  \/ \E k \in Opcode : \E o \in OwnerJamOutcomes(k) : Jam(o)
  \/ \E a \in Addr, v \in Opcode : Deposit(a, v)
  \/ \E present \in BOOLEAN : SetReadyCallback(present)

---------------------------------------------------------------------------

Init ==
  /\ mem \in [Addr -> Opcode] /\ PC = 0 /\ halted = FALSE
  /\ running = FALSE /\ stopRequested = FALSE
  /\ ready = TRUE /\ readyCallback = FALSE
  /\ cycleActive = FALSE /\ cycleIndex = 0 /\ activeOpcode = NoOpcode
  /\ activeInterrupt = FALSE /\ waiting = FALSE /\ waitCycle = NoContext
  /\ pendingInterrupt = NoOpcode
  /\ at = [r \in Runner |-> "idle"]
  /\ call = [r \in Runner |-> "run"]
  /\ limit = [r \in Runner |-> 0]
  /\ steps = [r \in Runner |-> 0]
  /\ reason = [r \in Runner |-> "none"]
  /\ accepted = 0 /\ forced = 0 /\ dropped = 0
  /\ lastForced = NoOpcode

Begin(r) == BeginStep(r) \/ \E n \in 0 .. NoLimit : BeginRun(r, n)

Next ==
  \/ Environment
  \/ Owner
  \/ \E r \in Runner : Begin(r) \/ RunnerStep(r)

Spec == Init /\ [][Next]_vars

---------------------------------------------------------------------------
(* Properties.                                                             *)

CPUTypes == mem \in [Addr -> Opcode] /\ PC \in Addr /\ halted \in BOOLEAN

PanelTypes ==
  /\ running \in BOOLEAN /\ stopRequested \in BOOLEAN
  /\ ready \in BOOLEAN /\ readyCallback \in BOOLEAN
  /\ pendingInterrupt \in Opcode \cup {NoOpcode}

CycleTypes ==
  /\ cycleActive \in BOOLEAN /\ cycleIndex \in 0 .. 3
  /\ activeOpcode \in Opcode \cup {NoOpcode} /\ activeInterrupt \in BOOLEAN
  /\ waiting \in BOOLEAN /\ waitCycle \in CycleContext

CallTypes ==
  /\ at \in [Runner -> RunnerState]
  /\ call \in [Runner -> {"run", "step"}]
  /\ limit \in [Runner -> 0 .. NoLimit]
  /\ steps \in [Runner -> 0 .. MaxLimit]
  /\ reason \in [Runner -> Reason]

HistoryTypes ==
  /\ accepted \in Nat /\ forced \in Nat /\ dropped \in Nat
  /\ lastForced \in Opcode \cup {NoOpcode}

\* Every variable stays in its domain.
TypeOK == CPUTypes /\ PanelTypes /\ CycleTypes /\ CallTypes /\ HistoryTypes

\* The compare-and-swap of Run, together with its deferred release, keeps at most
\* one goroutine in the CPU, and the running flag that every owner call consults
\* is up exactly while a Run is in progress (frontpanel.go:341-344).
OneRunner ==
  /\ \A r, s \in Runner : Inside(r) /\ Inside(s) => r = s
  /\ running <=> \E r \in Runner : InRun(r)

\* The request a runner has executed but not yet removed from the latch.
Retiring == \E r \in Runner : at[r] = "clear"

\* No interrupt request is lost, overwritten or forced twice: each accepted one is
\* forced, discarded by Reset, or still in the latch, although it is executed
\* before the latch is emptied (frontpanel.go:189-205, 293-298).
InterruptLedger ==
  /\ Retiring => pendingInterrupt # NoOpcode
  /\ accepted = forced + dropped +
                (IF pendingInterrupt # NoOpcode /\ ~Retiring THEN 1 ELSE 0)

\* The panel implements the one-place latch: the instruction the CPU is forced to
\* execute is the one requested, however many stops, waits and restarts lie
\* between the request and the execution (frontpanel.go:189-205, 286-318).  A
\* request that is executed counts as gone although it still blocks the latch.
Latch == INSTANCE InterruptLatch WITH
  Request <- Opcode, Empty <- NoOpcode,
  slot <- IF Retiring THEN NoOpcode ELSE pendingInterrupt
LatchSpec == Latch!Spec

\* An instruction that has begun its machine cycles keeps the identity it was
\* chosen with: an interrupt instruction is the one in the latch, a normal one
\* never meets a halted CPU, and between calls an instruction is in progress
\* exactly when the WAIT light is on, at the cycle the light describes
\* (frontpanel.go:260-332).
WaitCoherent ==
  /\ ~cycleActive => ~waiting /\ ~activeInterrupt
  /\ cycleActive /\ activeInterrupt => pendingInterrupt = activeOpcode
  /\ cycleActive /\ ~activeInterrupt => ~halted
  /\ waiting => /\ waitCycle.pc = PC
                /\ waitCycle.opcode = activeOpcode
                /\ waitCycle.interrupt = activeInterrupt
                /\ waitCycle.index <= cycleIndex
  /\ Quiet /\ cycleActive => /\ waiting
                             /\ waitCycle.index = cycleIndex
                             /\ cycleIndex < CycleCount[activeOpcode]

\* What a Run reports is true when it returns: cpu means the CPU is halted, with
\* nothing suspended unless the limit was used up; waiting means a suspended
\* instruction; limit means a full count on a CPU that could go on
\* (frontpanel.go:347-382).
ReasonTruthful ==
  \A r \in Runner : at[r] = "return" /\ call[r] = "run" =>
    /\ reason[r] = "cpu" => halted /\ (steps[r] < limit[r] => ~cycleActive)
    /\ reason[r] = "waiting" => waiting /\ steps[r] < limit[r]
    /\ reason[r] = "limit" => steps[r] = limit[r] /\ ~halted

\* A stop request disappears only into a run that reports it, or by Reset
\* (frontpanel.go:233, 335, 348, 377).
StopAnswered ==
  [][stopRequested /\ ~stopRequested' =>
       Reset \/ \E r \in Runner : at'[r] = "return" /\ reason'[r] = "requested"]_vars

\* While an instruction goes through its cycles it is not replaced, even if an
\* interrupt arrives or a run is stopped and resumed in the middle, and its
\* cycles are sampled in order, each once (frontpanel.go:264-284, 302-305).
CyclesInOrder ==
  [][cycleActive /\ cycleActive' =>
       /\ UNCHANGED <<activeOpcode, activeInterrupt, PC>>
       /\ cycleIndex' \in {cycleIndex, cycleIndex + 1}]_vars

\* A stop request ends the run that is in progress, whatever the program and the
\* other callers do (frontpanel.go:348, 377).
StopEndsRun == \A r \in Runner : InRun(r) /\ stopRequested ~> ~Inside(r)

\* A run with a finite limit returns (frontpanel.go:347-373).
LimitEndsRun == \A r \in Runner : InRun(r) /\ limit[r] # NoLimit ~> ~Inside(r)

\* With READY high for good, a request that is pending during an unlimited run
\* leaves the latch or the run ends: a halted CPU wakes up for it and the program
\* cannot keep it out (frontpanel.go:302-322, 352).
InterruptServed ==
  <>[](ready /\ ~readyCallback) =>
    \A r \in Runner :
      InRun(r) /\ pendingInterrupt # NoOpcode ~> ~Inside(r) \/ pendingInterrupt = NoOpcode
===========================================================================
