--------------------------- MODULE CommandProofs ---------------------------
(***************************************************************************)
(* Proofs about MemoryBus, for every size of memory, region map and block, *)
(* and then about Command, for every set of command lines and contents of  *)
(* the images.                                                             *)
(***************************************************************************)
EXTENDS Command, TLAPS

\* The element of a block that goes to cell x.
LEMMA BlockElement ==
  ASSUME NEW a \in Address, NEW block \in Blocks, NEW x \in Target(a, block)
  PROVE  block[x - a + 1] \in Value
<1>1. block \in Seq(Value)
  BY BlocksAssumption
<1>2. Len(block) \in Nat
  BY <1>1
<1>3. x - a + 1 \in 1 .. Len(block)
  BY <1>2, SizeAssumption DEF Target, Address
<1>4. QED
  BY <1>1, <1>3

\* The regions of a map given to NewMemoryBus.
LEMMA RegionsOfMap ==
  ASSUME NEW map \in Seq([start : Address, end : Address, kind : Kind]), NEW i \in DOMAIN map
  PROVE  map[i].kind \in Kind
<1> DEFINE R == [start : Address, end : Address, kind : Kind]
<1>1. ASSUME NEW S, NEW s \in Seq(S), NEW j \in DOMAIN s PROVE s[j] \in S
  BY <1>1
<1>2. map[i] \in R
  BY <1>1
<1>3. QED
  BY <1>2

\* A cell keeps holding a value, a kind and a burned value, and a cell of no region
\* its first one: the types of MemoryBus (memory.go:18-40, 66-117).
THEOREM TypesHold == Spec => []TypeOK
<1>1. Init => TypeOK
  <2> SUFFICES ASSUME Init PROVE TypeOK
    OBVIOUS
  <2>1. PICK map \in Maps : Accepted(map) /\ kinds = [a \in Address |-> KindIn(map, a)]
    BY DEF Init
  <2>2. ASSUME NEW a \in Address PROVE KindIn(map, a) \in Kind \cup {"none"}
    <3>1. map \in Seq([start : Address, end : Address, kind : Kind])
      BY MapsAssumption
    <3>2. CASE \E i \in DOMAIN map : a \in Cells(map[i])
      <4>1. PICK i \in DOMAIN map : i = CHOOSE j \in DOMAIN map : a \in Cells(map[j])
        BY <3>2
      <4>2. map[i].kind \in Kind
        BY <3>1, RegionsOfMap
      <4>3. QED
        BY <3>2, <4>1, <4>2 DEF KindIn
    <3>3. CASE ~(\E i \in DOMAIN map : a \in Cells(map[i]))
      BY <3>3 DEF KindIn
    <3>4. QED
      BY <3>2, <3>3
  <2>3. QED
    BY <2>1, <2>2, ValueAssumption DEF Init, TypeOK
<1>2. TypeOK /\ [Next]_memVars => TypeOK'
  <2> SUFFICES ASSUME TypeOK, [Next]_memVars PROVE TypeOK'
    OBVIOUS
  <2>1. ASSUME NEW a \in Address, NEW v \in Value, Write(a, v) PROVE TypeOK'
    BY <2>1 DEF TypeOK, Write, Writable, Kind
  <2>2. ASSUME NEW a \in Address, NEW block \in Blocks, LoadBytes(a, block) PROVE TypeOK'
    <3>1. CASE Refuse
      BY <3>1 DEF TypeOK, Refuse
    <3>2. CASE ~Refuse
      <4>1. \A x \in Target(a, block) : Writable(x)
        BY <2>2, <3>2 DEF LoadBytes
      <4>2. data' = Copied(data, a, block) /\ result' = "load" /\ UNCHANGED <<kinds, burned>>
        BY <2>2, <3>2 DEF LoadBytes
      <4>3. data' \in [Address -> Value]
        BY <4>2, BlockElement DEF Copied, TypeOK
      <4>4. \A x \in Address : kinds[x] = "none" => data'[x] = data[x]
        BY <4>1, <4>2 DEF Copied, Writable
      <4>5. QED
        BY <4>2, <4>3, <4>4 DEF TypeOK
    <3>3. QED
      BY <3>1, <3>2
  <2>3. ASSUME NEW a \in Address, NEW block \in Blocks, LoadROM(a, block) PROVE TypeOK'
    <3>1. CASE Refuse
      BY <3>1 DEF TypeOK, Refuse
    <3>2. CASE ~Refuse
      <4>1. \A x \in Target(a, block) : kinds[x] # "none"
        BY <2>3, <3>2 DEF LoadROM
      <4>2. /\ data' = Copied(data, a, block) /\ burned' = Copied(burned, a, block)
            /\ kinds' = Protected(a, block) /\ result' = "rom"
        BY <2>3, <3>2 DEF LoadROM
      <4>3. data' \in [Address -> Value] /\ burned' \in [Address -> Value \cup {NotBurned}]
        BY <4>2, BlockElement DEF Copied, TypeOK
      <4>4. kinds' \in [Address -> Kind \cup {"none"}]
        BY <4>2 DEF Protected, TypeOK, Kind
      <4>5. ASSUME NEW x \in Address, kinds'[x] = "none" PROVE data'[x] = Zero
        BY <4>1, <4>2, <4>5 DEF Copied, Protected, TypeOK
      <4>6. QED
        BY <4>2, <4>3, <4>4, <4>5 DEF TypeOK
    <3>3. QED
      BY <3>1, <3>2
  <2>4. CASE UNCHANGED memVars
    BY <2>4 DEF TypeOK, memVars
  <2>5. QED
    BY <2>1, <2>2, <2>3, <2>4 DEF Next
<1>3. QED
  BY <1>1, <1>2, PTL DEF Spec

\* A burned cell is ROM and holds what was burned.
BurnedIsROM == \A a \in Address : burned[a] # NotBurned => kinds[a] = "rom" /\ data[a] = burned[a]

\* A ROM image is read back as it was loaded after any sequence of writes and loads
\* (memory.go:68-74, 83-98, 101-117).
THEOREM RomIsKept == Spec => []RomKept
<1>1. Init => BurnedIsROM
  BY DEF Init, BurnedIsROM
<1>2. TypeOK /\ BurnedIsROM /\ [Next]_memVars => BurnedIsROM'
  <2> SUFFICES ASSUME TypeOK, BurnedIsROM, [Next]_memVars,
                      NEW x \in Address, burned'[x] # NotBurned
               PROVE  kinds'[x] = "rom" /\ data'[x] = burned'[x]
    BY DEF BurnedIsROM
  <2>1. ASSUME NEW a \in Address, NEW v \in Value, Write(a, v)
        PROVE  kinds'[x] = "rom" /\ data'[x] = burned'[x]
    BY <2>1 DEF BurnedIsROM, TypeOK, Write, Writable
  <2>2. ASSUME NEW a \in Address, NEW block \in Blocks, LoadBytes(a, block)
        PROVE  kinds'[x] = "rom" /\ data'[x] = burned'[x]
    BY <2>2 DEF BurnedIsROM, LoadBytes, Refuse, Copied, Writable
  <2>3. ASSUME NEW a \in Address, NEW block \in Blocks, LoadROM(a, block)
        PROVE  kinds'[x] = "rom" /\ data'[x] = burned'[x]
    BY <2>3 DEF BurnedIsROM, LoadROM, Refuse, Copied, Protected
  <2>4. CASE UNCHANGED memVars
    BY <2>4 DEF BurnedIsROM, memVars
  <2>5. QED
    BY <2>1, <2>2, <2>3, <2>4 DEF Next
<1>3. BurnedIsROM => RomKept
  BY DEF BurnedIsROM, RomKept, Read
<1>4. QED
  BY <1>1, <1>2, <1>3, TypesHold, PTL DEF Spec

\* ROM stays ROM and only LoadROM changes it (memory.go:66-74, 82-98).
THEOREM RomIsProtected == Spec => RomProtected
<1>1. ASSUME TypeOK, [Next]_memVars, NEW x \in Address, kinds[x] = "rom"
      PROVE  kinds'[x] = "rom" /\ (result' # "rom" => data'[x] = data[x])
  <2>1. ASSUME NEW a \in Address, NEW v \in Value, Write(a, v)
        PROVE  kinds'[x] = "rom" /\ data'[x] = data[x]
    BY <1>1, <2>1 DEF TypeOK, Write, Writable
  <2>2. ASSUME NEW a \in Address, NEW block \in Blocks, LoadBytes(a, block)
        PROVE  kinds'[x] = "rom" /\ data'[x] = data[x]
    BY <1>1, <2>2 DEF LoadBytes, Refuse, Copied, Writable
  <2>3. ASSUME NEW a \in Address, NEW block \in Blocks, LoadROM(a, block)
        PROVE  kinds'[x] = "rom" /\ (result' # "rom" => data'[x] = data[x])
    BY <1>1, <2>3 DEF LoadROM, Refuse, Protected
  <2>4. CASE UNCHANGED memVars
    BY <1>1, <2>4 DEF memVars
  <2>5. QED
    BY <1>1, <2>1, <2>2, <2>3, <2>4 DEF Next
<1>2. TypeOK /\ [Next]_memVars =>
        [\A a \in Address : kinds[a] = "rom" =>
           kinds'[a] = "rom" /\ (result' # "rom" => data'[a] = data[a])]_memVars
  BY <1>1
<1>3. QED
  BY <1>2, TypesHold, PTL DEF Spec, RomProtected

\* A refused load changes no cell and no kind, wherever in its range it is refused
\* (memory.go:83-96, 101-110).
THEOREM RefusedLoad == Spec => RefusedChangesNothing
<1>1. ASSUME [Next]_memVars, result' = "refused" PROVE UNCHANGED <<data, kinds>>
  <2>1. ASSUME NEW a \in Address, NEW v \in Value, Write(a, v) PROVE FALSE
    BY <1>1, <2>1 DEF Write
  <2>2. ASSUME NEW a \in Address, NEW block \in Blocks, LoadBytes(a, block)
        PROVE  UNCHANGED <<data, kinds>>
    BY <1>1, <2>2 DEF LoadBytes, Refuse
  <2>3. ASSUME NEW a \in Address, NEW block \in Blocks, LoadROM(a, block)
        PROVE  UNCHANGED <<data, kinds>>
    BY <1>1, <2>3 DEF LoadROM, Refuse
  <2>4. CASE UNCHANGED memVars
    BY <2>4 DEF memVars
  <2>5. QED
    BY <1>1, <2>1, <2>2, <2>3, <2>4 DEF Next
<1>2. [Next]_memVars => [result' = "refused" => UNCHANGED <<data, kinds>>]_memVars
  BY <1>1
<1>3. QED
  BY <1>2, PTL DEF Spec, RefusedChangesNothing

---------------------------------------------------------------------------
(* The command.                                                            *)

\* What the requests, and the images and programs in them, are.
LEMMA RequestTypes ==
  ASSUME request \in Requests
  PROVE  /\ request \in RequestType
         /\ \A i \in 1 .. Len(request.roms) : request.roms[i] \in Image
<1>1. request \in RequestType /\ request.roms \in Seq(Image)
  BY RequestAssumption DEF RequestType
<1> QED
  BY <1>1

---------------------------------------------------------------------------

\* The request does not change, and images are counted.
Frame == request \in Requests /\ loaded \in Nat

LEMMA FrameInit == CmdInit => Frame
BY DEF CmdInit, Frame

LEMMA FrameStep == Frame /\ [CmdNext]_cmdVars => Frame'
<1> SUFFICES ASSUME Frame, [CmdNext]_cmdVars PROVE Frame'
  OBVIOUS
<1> USE DEF Frame
<1>1. CASE Start
  BY <1>1 DEF Start, Exit, Go, OtherMode
<1>2. CASE LoadImages
  BY <1>2 DEF LoadImages, LoadImage, Exit, Go
<1>3. CASE LoadProgram
  BY <1>3 DEF LoadProgram, Exit, Go
<1>4. CASE Prepare
  BY <1>4 DEF Prepare, Exit, Go
<1>5. CASE Execute
  BY <1>5 DEF Execute, Breakpoint, Wait, Limit, Calculate, Store, SendByte, FailInstruction,
              Instruction, Step, Go
<1>6. CASE Finish
  BY <1>6 DEF Finish
<1>7. CASE UNCHANGED cmdVars
  BY <1>7 DEF cmdVars
<1> QED
  BY <1>1, <1>2, <1>3, <1>4, <1>5, <1>6, <1>7 DEF CmdNext

\* A run of the command uses its memory as MemoryBus says, so that ROM images and
\* protected memory are kept in it too (main.go:216-317).
THEOREM MemoryIsKept == CmdSpec => KeepsMemory
<1>1. CmdInit => Init
  BY DEF CmdInit
<1>2. Frame /\ [CmdNext]_cmdVars => [Next]_memVars
  <2> SUFFICES ASSUME Frame, [CmdNext]_cmdVars PROVE [Next]_memVars
    OBVIOUS
  <2>1. CASE Start \/ Prepare \/ Finish
    BY <2>1 DEF Start, Prepare, Finish
  <2>2. CASE LoadImages
    <3>1. CASE UNCHANGED memVars
      BY <3>1
    <3>2. CASE ~UNCHANGED memVars
      <4>1. /\ loaded < Len(request.roms)
            /\ LoadROM(0, request.roms[loaded + 1].block)
        BY <2>2, <3>2 DEF LoadImages, LoadImage
      <4>2. Len(request.roms) \in Nat
        BY RequestTypes DEF Frame, RequestType
      <4>3. loaded + 1 \in 1 .. Len(request.roms)
        BY <4>1, <4>2 DEF Frame
      <4>4. request.roms[loaded + 1].block \in Blocks
        BY <4>3, RequestTypes DEF Frame, Image
      <4>5. 0 \in Address
        BY SizeAssumption DEF Address
      <4> QED
        BY <4>1, <4>4, <4>5 DEF Next
    <3> QED
      BY <3>1, <3>2
  <2>3. CASE LoadProgram
    <3>1. CASE UNCHANGED memVars
      BY <3>1
    <3>2. CASE ~UNCHANGED memVars
      <4>1. request.bin # NoProgram /\ LoadBytes(request.bin.at, request.bin.block)
        BY <2>3, <3>2 DEF LoadProgram, Copy
      <4>2. request.bin \in Program
        BY <4>1, RequestTypes DEF Frame, RequestType
      <4>3. request.bin.at \in Address /\ request.bin.block \in Blocks
        BY <4>2 DEF Program
      <4> QED
        BY <4>1, <4>3 DEF Next
    <3> QED
      BY <3>1, <3>2
  <2>4. CASE Execute
    BY <2>4 DEF Execute, Breakpoint, Wait, Limit, Calculate, Store, SendByte, FailInstruction, Next
  <2>5. CASE UNCHANGED cmdVars
    BY <2>5 DEF cmdVars
  <2> QED
    BY <2>1, <2>2, <2>3, <2>4, <2>5 DEF CmdNext
<1> QED
  BY <1>1, <1>2, FrameInit, FrameStep, PTL DEF CmdSpec, Spec, KeepsMemory

---------------------------------------------------------------------------

\* Until the exit, what went wrong is what the command remembers; the trace file is
\* open only during a run.  On this rests the honesty of the status.
Early == {"start", "roms", "program", "prepare"}
KnowsFaults ==
  /\ terminalErr \in BOOLEAN /\ runErr \in BOOLEAN /\ file.err \in BOOLEAN
  /\ stage # "exit" => (faults = {} <=> terminalErr = FALSE /\ runErr = FALSE /\ file.err = FALSE)
  /\ stage \in Early => terminalErr = FALSE /\ runErr = FALSE /\ file.err = FALSE
  /\ stage # "exit" => status = NoStatus
  /\ file.state = "open" => stage \in {"running", "ending"}
  /\ file = [state |-> file.state, lines |-> file.lines, err |-> file.err]

HonestAndClosed == KnowsFaults /\ StatusIsHonest /\ TraceIsClosed

LEMMA HonestInit == CmdInit => HonestAndClosed
<1> SUFFICES ASSUME CmdInit PROVE HonestAndClosed
  OBVIOUS
<1>1. file = [state |-> "none", lines |-> <<>>, err |-> FALSE]
  BY DEF CmdInit
<1>2. file.state = "none" /\ file.err = FALSE /\ file.lines = <<>>
  BY <1>1
<1>3. /\ stage = "start" /\ status = NoStatus /\ faults = {}
      /\ terminalErr = FALSE /\ runErr = FALSE
  BY DEF CmdInit
<1> QED
  BY <1>1, <1>2, <1>3 DEF HonestAndClosed, KnowsFaults, StatusIsHonest, TraceIsClosed

\* Leaving with an error, or without one when nothing is wrong.
LEMMA ExitIsHonest ==
  ASSUME HonestAndClosed, stage \in Early,
         NEW code, NEW wrong, Exit(code, wrong), code = 0 <=> wrong = {}
  PROVE  HonestAndClosed'
<1>1. faults = {} /\ faults' = wrong /\ status' = code /\ stage' = "exit"
  BY DEF HonestAndClosed, KnowsFaults, Exit, Early
<1>2. UNCHANGED <<file, terminalErr, runErr>>
  BY DEF Exit, traceVars
<1>3. StatusIsHonest' /\ TraceIsClosed'
  BY <1>1, <1>2 DEF HonestAndClosed, KnowsFaults, StatusIsHonest, TraceIsClosed, Early
<1>4. KnowsFaults'
  BY <1>1, <1>2 DEF HonestAndClosed, KnowsFaults, Early
<1> QED
  BY <1>3, <1>4 DEF HonestAndClosed

\* A step that fails nowhere, opens nothing and does not leave.
LEMMA GoIsHonest ==
  ASSUME HonestAndClosed, stage # "exit", NEW to, Go(to),
         to \in {"running", "ending"} \/ (stage \in Early /\ to \in Early)
  PROVE  HonestAndClosed'
BY DEF HonestAndClosed, KnowsFaults, StatusIsHonest, TraceIsClosed, Early, Go, traceVars, outcomeVars

\* A step of the machine adds to what went wrong exactly what it remembers.
LEMMA StepIsHonest ==
  ASSUME HonestAndClosed, stage = "running", stage' \in {"running", "ending"},
         NEW kind, NEW wrong, Step(kind, wrong), UNCHANGED runErr,
         \/ wrong = {} /\ UNCHANGED terminalErr
         \/ wrong # {} /\ terminalErr' = TRUE
  PROVE  HonestAndClosed'
<1> DEFINE event == [sequence |-> Len(emitted), kind |-> kind]
<1>1. stage' \notin Early \cup {"exit"} /\ status' = NoStatus
  BY DEF HonestAndClosed, KnowsFaults, Step, Early
<1>2. StatusIsHonest' /\ TraceIsClosed'
  BY <1>1 DEF StatusIsHonest, TraceIsClosed
<1>3. terminalErr' \in BOOLEAN /\ runErr' \in BOOLEAN
  BY DEF HonestAndClosed, KnowsFaults
<1>4. CASE UNCHANGED file /\ faults' = faults \cup wrong
  BY <1>1, <1>2, <1>3, <1>4 DEF HonestAndClosed, KnowsFaults
<1>5. CASE file' = [file EXCEPT !.lines = Append(@, event)] /\ faults' = faults \cup wrong
  <2>1. /\ file'.state = file.state /\ file'.err = file.err
        /\ file' = [state |-> file'.state, lines |-> file'.lines, err |-> file'.err]
    BY <1>5 DEF HonestAndClosed, KnowsFaults
  <2> QED
    BY <1>1, <1>2, <1>3, <1>5, <2>1 DEF HonestAndClosed, KnowsFaults
<1>6. CASE file' = [file EXCEPT !.err = TRUE] /\ faults' = faults \cup wrong \cup {"encode"}
  <2>1. /\ file'.state = file.state /\ file'.err = TRUE
        /\ file' = [state |-> file'.state, lines |-> file'.lines, err |-> file'.err]
    BY <1>6 DEF HonestAndClosed, KnowsFaults
  <2>2. faults' # {}
    BY <1>6
  <2> QED
    BY <1>1, <1>2, <1>3, <2>1, <2>2 DEF HonestAndClosed, KnowsFaults
<1> QED
  BY <1>4, <1>5, <1>6 DEF Step

LEMMA HonestStep == HonestAndClosed /\ [CmdNext]_cmdVars => HonestAndClosed'
<1> SUFFICES ASSUME HonestAndClosed, [CmdNext]_cmdVars PROVE HonestAndClosed'
  OBVIOUS
<1>1. CASE Start
  <2>1. stage \in Early
    BY <1>1 DEF Start, Early
  <2>2. \/ Exit(0, {}) \/ Exit(2, {"flags"}) \/ Exit(1, {"verify"})
        \/ Exit(2, {"profile"}) \/ Exit(2, {"ports"}) \/ Go("roms")
    BY <1>1 DEF Start, OtherMode
  <2> QED
    BY <2>1, <2>2, ExitIsHonest, GoIsHonest DEF Early
<1>2. CASE LoadImages \/ LoadProgram
  <2>1. stage \in Early
    BY <1>2 DEF LoadImages, LoadImage, LoadProgram, Early
  <2>2. \/ Exit(1, {"unreadable"}) \/ Exit(1, {"slot"}) \/ Exit(1, {"rom"}) \/ Exit(1, {"program"})
        \/ Go("roms") \/ Go("program") \/ Go("prepare")
    BY <1>2 DEF LoadImages, LoadImage, LoadProgram, LoadFailed
  <2> QED
    BY <2>1, <2>2, ExitIsHonest, GoIsHonest DEF Early
<1>3. CASE Prepare
  <2>1. stage \in Early
    BY <1>3 DEF Prepare, Early
  <2>2. CASE Exit(0, {}) \/ Exit(1, {"create"}) \/ Go("running")
    BY <2>1, <2>2, ExitIsHonest, GoIsHonest DEF Early
  <2>3. CASE /\ stage' = "running" /\ file' = [file EXCEPT !.state = "open"]
             /\ UNCHANGED outcomeVars
    <3>1. /\ file'.state = "open" /\ file'.err = file.err
          /\ file' = [state |-> file'.state, lines |-> file'.lines, err |-> file'.err]
      BY <2>3 DEF HonestAndClosed, KnowsFaults
    <3> QED
      BY <2>1, <2>3, <3>1
         DEF HonestAndClosed, KnowsFaults, StatusIsHonest, TraceIsClosed, Early, outcomeVars
  <2> QED
    BY <1>3, <2>2, <2>3 DEF Prepare
<1>4. CASE Breakpoint \/ Wait
  BY <1>4, StepIsHonest DEF Breakpoint, Wait, Running
<1>5. CASE Limit
  BY <1>5, GoIsHonest DEF Limit
<1>6. CASE Calculate \/ Store
  BY <1>6, StepIsHonest DEF Calculate, Store, Instruction, Running
<1>7. CASE SendByte
  BY <1>7, StepIsHonest DEF SendByte, Instruction, Running
<1>8. CASE FailInstruction
  <2>1. /\ stage = "running" /\ stage' = "ending" /\ runErr' = TRUE /\ faults' # {}
        /\ UNCHANGED <<file, terminalErr, status>>
    BY <1>8 DEF FailInstruction, Running, traceVars
  <2>2. StatusIsHonest' /\ TraceIsClosed'
    BY <2>1 DEF StatusIsHonest, TraceIsClosed
  <2>3. KnowsFaults'
    BY <2>1 DEF HonestAndClosed, KnowsFaults, Early
  <2> QED
    BY <2>2, <2>3 DEF HonestAndClosed
<1>9. CASE Finish
  <2>1. PICK closeErr \in BOOLEAN :
          /\ file' = IF Closes THEN [file EXCEPT !.state = "closed"] ELSE file
          /\ faults' = IF closeErr THEN faults \cup {"close"} ELSE faults
          /\ status' = IF terminalErr \/ runErr \/ TraceErr(closeErr) THEN 1 ELSE 0
    BY <1>9 DEF Finish
  <2>2. /\ stage' = "exit" /\ UNCHANGED <<terminalErr, runErr>>
        /\ faults = {} <=> terminalErr = FALSE /\ runErr = FALSE /\ file.err = FALSE
    BY <1>9 DEF Finish, HonestAndClosed, KnowsFaults
  <2>3. /\ file'.state # "open" /\ file'.err = file.err
        /\ file' = [state |-> file'.state, lines |-> file'.lines, err |-> file'.err]
    BY <2>1 DEF Closes, HonestAndClosed, KnowsFaults
  <2>4. status' = 0 <=> terminalErr = FALSE /\ runErr = FALSE /\ file.err = FALSE /\ closeErr = FALSE
    BY <2>1 DEF TraceErr, HonestAndClosed, KnowsFaults
  <2>5. faults' = {} <=> faults = {} /\ closeErr = FALSE
    BY <2>1
  <2>6. StatusIsHonest' /\ TraceIsClosed'
    BY <2>2, <2>3, <2>4, <2>5 DEF StatusIsHonest, TraceIsClosed
  <2> QED
    BY <2>2, <2>3, <2>6 DEF HonestAndClosed, KnowsFaults, Early
<1>10. CASE UNCHANGED cmdVars
  BY <1>10 DEF cmdVars, traceVars, outcomeVars, HonestAndClosed, KnowsFaults, StatusIsHonest,
               TraceIsClosed
<1> QED
  BY <1>1, <1>2, <1>3, <1>4, <1>5, <1>6, <1>7, <1>8, <1>9, <1>10 DEF CmdNext, Execute

\* The status tells the truth, and no trace file stays open, whatever fails and in
\* whatever order (main.go:202-388, 598-622).
THEOREM CommandIsHonest == CmdSpec => [](StatusIsHonest /\ TraceIsClosed)
<1>1. HonestAndClosed => StatusIsHonest /\ TraceIsClosed
  BY DEF HonestAndClosed
<1> QED
  BY <1>1, HonestInit, HonestStep, PTL DEF CmdSpec

---------------------------------------------------------------------------

\* What is in the trace file beside what was emitted: as long as no line failed, all of
\* it; nothing was emitted before the file is opened.
TraceEvent == [sequence : Nat, kind : {"breakpoint", "wait", "instruction"}]
TraceInv ==
  /\ emitted \in Seq(TraceEvent) /\ file.lines \in Seq(TraceEvent)
  /\ Len(file.lines) <= Len(emitted)
  /\ NoGaps
  /\ file.state = "open" /\ ~file.err => file.lines = emitted
  /\ stage \in Early => emitted = <<>> /\ file.lines = <<>> /\ file.state = "none"

\* A prefix of what was emitted stays one when more is emitted.
LEMMA PrefixStays ==
  ASSUME NEW s \in Seq(TraceEvent), NEW e \in TraceEvent, NEW n \in Nat, n <= Len(s)
  PROVE  SubSeq(Append(s, e), 1, n) = SubSeq(s, 1, n)
OBVIOUS

LEMMA WholePrefix ==
  ASSUME NEW s \in Seq(TraceEvent)
  PROVE  s = SubSeq(s, 1, Len(s))
OBVIOUS

LEMMA TraceInit == CmdInit => TraceInv
<1> SUFFICES ASSUME CmdInit PROVE TraceInv
  OBVIOUS
<1>1. /\ stage = "start" /\ emitted = <<>>
      /\ file.state = "none" /\ file.lines = <<>>
  BY DEF CmdInit
<1>2. NoGaps
  BY <1>1 DEF NoGaps
<1> QED
  BY <1>1, <1>2 DEF TraceInv

\* Steps that neither emit nor write a line, and do not open the file.
LEMMA TraceKept ==
  ASSUME TraceInv, UNCHANGED emitted,
         UNCHANGED <<file.lines, file.err>>, file'.state = "open" => file.state = "open",
         stage' \in Early => stage \in Early /\ UNCHANGED file.state
  PROVE  TraceInv'
BY DEF TraceInv, NoGaps

\* An event goes to the file, or fails there and ends the lines, or there is none.
LEMMA TraceOfStep ==
  ASSUME TraceInv, KnowsFaults, stage' \notin Early,
         NEW kind \in {"breakpoint", "wait", "instruction"}, NEW wrong, Step(kind, wrong)
  PROVE  TraceInv'
<1> DEFINE event == [sequence |-> Len(emitted), kind |-> kind]
<1>0. /\ emitted \in Seq(TraceEvent) /\ file.lines \in Seq(TraceEvent)
      /\ event \in TraceEvent /\ Len(emitted) \in Nat /\ Len(file.lines) \in Nat
      /\ Len(file.lines) <= Len(emitted) /\ NoGaps
      /\ file = [state |-> file.state, lines |-> file.lines, err |-> file.err]
  BY DEF TraceInv, TraceEvent, KnowsFaults
<1>1. CASE ~request.debug
  <2>1. UNCHANGED <<emitted, file>>
    BY <1>1 DEF Step
  <2> QED
    BY <2>1 DEF TraceInv, NoGaps
<1>2. CASE request.debug
  <2> HIDE DEF event
  <2>1. emitted' = Append(emitted, event)
    BY <1>2 DEF Step, event
  <2>2. emitted' \in Seq(TraceEvent) /\ Len(emitted') = Len(emitted) + 1
    BY <1>0, <2>1
  <2>3. CASE Encodes /\ file' = [file EXCEPT !.lines = Append(@, event)]
    <3>1. file.lines = emitted
      BY <2>3 DEF TraceInv, Encodes
    <3>2. file'.lines = Append(file.lines, event)
      BY <1>0, <2>3
    <3>3. file'.lines = emitted'
      BY <2>1, <3>1, <3>2
    <3>4. NoGaps'
      BY <2>2, <3>3, WholePrefix DEF NoGaps
    <3>5. Len(emitted') \in Nat
      BY <2>2
    <3> QED
      BY <2>2, <3>3, <3>4, <3>5 DEF TraceInv
  <2>4. CASE UNCHANGED file.lines /\ (file'.state = "open" => file'.err)
    <3>1. NoGaps'
      BY <1>0, <2>1, <2>4, PrefixStays DEF NoGaps
    <3> QED
      BY <1>0, <2>2, <2>4, <3>1 DEF TraceInv
  <2>5. CASE Encodes /\ file' = [file EXCEPT !.err = TRUE]
    <3>1. UNCHANGED file.lines /\ file'.err
      BY <1>0, <2>5
    <3> QED
      BY <2>4, <3>1
  <2>6. CASE ~Encodes /\ UNCHANGED file
    BY <2>4, <2>6 DEF Encodes
  <2> QED
    BY <1>2, <2>3, <2>5, <2>6 DEF Step, event
<1> QED
  BY <1>1, <1>2

LEMMA TraceStep == TraceInv /\ KnowsFaults /\ [CmdNext]_cmdVars => TraceInv'
<1> SUFFICES ASSUME TraceInv, KnowsFaults, [CmdNext]_cmdVars PROVE TraceInv'
  OBVIOUS
<1>1. CASE Start \/ LoadImages \/ LoadProgram
  <2>1. UNCHANGED traceVars /\ stage \in Early
    BY <1>1 DEF Start, OtherMode, LoadImages, LoadImage, LoadProgram, Exit, Go, Early
  <2> QED
    BY <2>1, TraceKept DEF traceVars
<1>2. CASE Prepare
  <2>1. stage \in Early /\ stage' \notin Early
    BY <1>2 DEF Prepare, Exit, Go, Early
  <2>2. CASE UNCHANGED traceVars
    BY <2>1, <2>2, TraceKept DEF traceVars
  <2>3. CASE UNCHANGED emitted /\ file' = [file EXCEPT !.state = "open"]
    <3>1. /\ UNCHANGED file.lines /\ emitted = <<>> /\ file.lines = <<>>
      BY <2>1, <2>3 DEF KnowsFaults, TraceInv
    <3> QED
      BY <2>1, <2>3, <3>1 DEF TraceInv, NoGaps
  <2> QED
    BY <1>2, <2>2, <2>3 DEF Prepare, Exit, Go
<1>3. CASE Breakpoint \/ Wait
  BY <1>3, TraceOfStep DEF Breakpoint, Wait, Early
<1>4. CASE Calculate \/ Store \/ SendByte
  <2>1. \E wrong : Step("instruction", wrong) /\ stage' \notin Early
    BY <1>4 DEF Calculate, Store, SendByte, Instruction, Early
  <2> QED
    BY <2>1, TraceOfStep
<1>5. CASE Limit \/ FailInstruction
  <2>1. UNCHANGED traceVars /\ stage' \notin Early
    BY <1>5 DEF Limit, FailInstruction, Go, Early
  <2> QED
    BY <2>1, TraceKept DEF traceVars
<1>6. CASE Finish
  <2>1. UNCHANGED emitted /\ stage' \notin Early
    BY <1>6 DEF Finish, Early
  <2>2. file' = IF Closes THEN [file EXCEPT !.state = "closed"] ELSE file
    BY <1>6 DEF Finish
  <2>3. UNCHANGED <<file.lines, file.err>> /\ file'.state # "open"
    BY <2>2 DEF KnowsFaults, Closes
  <2> QED
    BY <2>1, <2>3, TraceKept
<1>7. CASE UNCHANGED cmdVars
  BY <1>7, TraceKept DEF cmdVars, traceVars
<1> QED
  BY <1>1, <1>2, <1>3, <1>4, <1>5, <1>6, <1>7 DEF CmdNext, Execute

\* The trace file holds the first events of the run with none missing in between, also
\* when a line of it failed, and is closed at exit, for any number of events
\* (main.go:355-366, 612-625).
THEOREM TraceHasNoGaps == CmdSpec => []TraceIsSound
<1>1. HonestAndClosed => KnowsFaults /\ TraceIsClosed
  BY DEF HonestAndClosed
<1>2. TraceInv => NoGaps
  BY DEF TraceInv
<1>3. NoGaps /\ TraceIsClosed => TraceIsSound
  BY DEF TraceIsSound
<1> QED
  BY <1>1, <1>2, <1>3, HonestInit, HonestStep, TraceInit, TraceStep, PTL DEF CmdSpec

---------------------------------------------------------------------------

\* The program can be read as its file has it.
Whole(bin) == \A x \in Target(bin.at, bin.block) : Read(x) = bin.block[x - bin.at + 1]

\* Nothing is executed before the run, and from the load of the program to its first
\* instruction nothing writes where it was loaded.
ProgramInv ==
  /\ request \in Requests /\ steps \in Nat
  /\ stage \in Early => steps = 0
  /\ stage = "prepare" \/ (stage = "running" /\ steps = 0) =>
       (request.bin # NoProgram => Whole(request.bin))

\* A load that is not refused leaves the block where it was to go, in writable memory.
LEMMA LoadedIsRead ==
  ASSUME NEW a \in Address, NEW block \in Blocks, LoadBytes(a, block), result' # "refused"
  PROVE  \A x \in Target(a, block) : Read(x)' = block[x - a + 1]
<1>1. /\ Fits(a, block) /\ \A x \in Target(a, block) : Writable(x)
      /\ data' = Copied(data, a, block) /\ UNCHANGED kinds
  BY DEF LoadBytes, Refuse
<1>2. block \in Seq(Value) /\ Len(block) \in Nat
  BY BlocksAssumption
<1>3. Target(a, block) \subseteq Address
  BY <1>1, <1>2, SizeAssumption DEF Target, Address, Fits
<1> SUFFICES ASSUME NEW x \in Target(a, block) PROVE Read(x)' = block[x - a + 1]
  OBVIOUS
<1>4. kinds'[x] # "none"
  BY <1>1 DEF Writable
<1>5. data'[x] = block[x - a + 1]
  BY <1>1, <1>3 DEF Copied
<1> QED
  BY <1>4, <1>5 DEF Read

LEMMA ProgramInit == CmdInit => ProgramInv
BY DEF CmdInit, ProgramInv, Early

LEMMA ProgramStep == ProgramInv /\ [CmdNext]_cmdVars => ProgramInv'
<1> SUFFICES ASSUME ProgramInv, [CmdNext]_cmdVars PROVE ProgramInv'
  OBVIOUS
<1> USE DEF ProgramInv
<1>1. ASSUME UNCHANGED memVars, UNCHANGED request PROVE Whole(request.bin)' = Whole(request.bin)
  BY <1>1 DEF Whole, Read, memVars
<1>2. CASE Start \/ LoadImages
  BY <1>2 DEF Start, OtherMode, LoadImages, LoadImage, Exit, Go, Early
<1>3. CASE LoadProgram
  <2>1. stage = "program" /\ UNCHANGED <<request, steps>> /\ steps = 0
    BY <1>3 DEF LoadProgram, Exit, Go, Early
  <2>2. CASE request.bin = NoProgram \/ stage' = "exit"
    BY <1>3, <2>1, <2>2 DEF LoadProgram, Exit, Go, Early
  <2>3. CASE request.bin # NoProgram /\ stage' # "exit"
    <3>1. Copy(request.bin.at, request.bin.block) /\ result' # "refused" /\ stage' = "prepare"
      BY <1>3, <2>3 DEF LoadProgram, Exit, Go
    <3>2. request.bin \in Program
      BY <2>3, RequestTypes DEF RequestType
    <3>3. request.bin.at \in Address /\ request.bin.block \in Blocks
      BY <3>2 DEF Program
    <3>4. \A x \in Target(request.bin.at, request.bin.block) :
            Read(x)' = request.bin.block[x - request.bin.at + 1]
      BY <3>1, <3>3, LoadedIsRead DEF Copy
    <3>5. Whole(request.bin)'
      BY <2>1, <3>4 DEF Whole, Target
    <3> QED
      BY <2>1, <3>1, <3>5 DEF Early
  <2> QED
    BY <2>2, <2>3
<1>4. CASE Prepare
  <2>1. UNCHANGED <<memVars, request, steps>> /\ stage = "prepare"
    BY <1>4 DEF Prepare, Exit, Go
  <2>2. stage' \in {"exit", "running"}
    BY <1>4 DEF Prepare, Exit, Go
  <2> QED
    BY <1>1, <2>1, <2>2 DEF Early
<1>5. CASE Breakpoint \/ Wait \/ Limit \/ FailInstruction \/ Finish
  BY <1>5 DEF Breakpoint, Wait, Limit, FailInstruction, Finish, Step, Go, Early
<1>6. CASE Calculate \/ Store \/ SendByte
  <2>1. \E wrong : Step("instruction", wrong) /\ stage' \in {"running", "ending"}
    BY <1>6 DEF Calculate, Store, SendByte, Instruction
  <2>2. steps' = steps + 1 /\ UNCHANGED request
    BY <2>1 DEF Step, Counted
  <2> QED
    BY <2>1, <2>2 DEF Early
<1>7. CASE UNCHANGED cmdVars
  BY <1>1, <1>7 DEF cmdVars
<1> QED
  BY <1>2, <1>3, <1>4, <1>5, <1>6, <1>7 DEF CmdNext, Execute

\* A program that starts is in memory as its file has it, for every memory, image and
\* program: one that would lie in ROM or beyond the memory never starts
\* (main.go:296-319).
THEOREM ProgramsStartWhole == CmdSpec => []ProgramIsWhole
<1>1. ProgramInv => ProgramIsWhole
  BY DEF ProgramInv, ProgramIsWhole, Whole
<1> QED
  BY <1>1, ProgramInit, ProgramStep, PTL DEF CmdSpec
===========================================================================
