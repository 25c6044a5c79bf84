------------------------------ MODULE Command ------------------------------
(***************************************************************************)
(* One run of the command, main.run of src/cmd/retronet-8080/main.go: from *)
(* its flags to its exit status, over the memory of MemoryBus.             *)
(*                                                                         *)
(* Around the machine, files are unreadable, the trace file cannot be      *)
(* created, written or closed, the terminal's writer fails: each whenever  *)
(* it likes.  The machine is seen as main sees it: instructions that write *)
(* memory, send a byte to the terminal, stop the CPU or fail, and the      *)
(* reasons why the panel and the debugger end a run.  Printing is left     *)
(* out.  A definition named X_Y just before X is X with a plausible        *)
(* mistake Y, used nowhere.                                                *)
(***************************************************************************)
EXTENDS MemoryBus

CONSTANTS
  Requests,       \* the command lines
  NoProgram       \* no -bin

\* A command line: the verdict of the flag parser, the mode that -profiles, -conformance
\* and -verify-rom select, and what runConfig holds.
Profile == {"generic", "altair"}
Image == [slot : STRING, block : Blocks]
Program == [at : Address, block : Blocks]
RequestType ==
  [flags : {"good", "bad", "help"}, mode : {"run", "profiles", "conformance", "verify"},
   profile : Profile \cup {"unknown"}, ports : Seq(Nat \X Nat), terminal : BOOLEAN,
   roms : Seq(Image), bin : Program \cup {NoProgram}, disasm : BOOLEAN,
   limit : Nat, ready : BOOLEAN, debug : BOOLEAN, traced : BOOLEAN]

RegionsOf(profile) ==
  <<[start |-> 0, end |-> Size - 1, kind |-> IF profile = "generic" THEN "ram" ELSE "mixed"]>>

ASSUME RequestAssumption == \A r \in Requests : r \in RequestType /\ (r.traced => r.debug)
ASSUME NoProgramAssumption == NoProgram \notin Program
ASSUME ProfileAssumption == \A p \in Profile : RegionsOf(p) \in Maps /\ Accepted(RegionsOf(p))

VARIABLES
  request,
  stage,        \* "start", "roms", "program", "prepare", "running", "ending", "exit"
  loaded,       \* ROM images loaded
  steps,        \* instructions executed
  emitted,      \* history: the events the debugger emitted
  file,         \* the trace file: its state, its lines, and the sink's encodeErr
  terminalErr, runErr,
  faults,       \* history: everything that went wrong
  status        \* the exit status

outcomeVars == <<terminalErr, runErr, faults, status>>
traceVars == <<emitted, file>>
cmdVars == <<memVars, request, stage, loaded, steps, traceVars, outcomeVars>>

NoStatus == -1

CmdInit ==
  /\ request \in Requests
  /\ Init
  /\ request.profile # "unknown" =>
       kinds = [a \in Address |-> KindIn(RegionsOf(request.profile), a)]
  /\ stage = "start" /\ loaded = 0 /\ steps = 0
  /\ emitted = <<>> /\ file = [state |-> "none", lines |-> <<>>, err |-> FALSE]
  /\ terminalErr = FALSE /\ runErr = FALSE /\ faults = {} /\ status = NoStatus

Go(to) ==
  /\ stage' = to
  /\ UNCHANGED <<request, steps, traceVars, outcomeVars>>

Exit(code, wrong) ==
  /\ stage' = "exit" /\ status' = code /\ faults' = faults \cup wrong
  /\ UNCHANGED <<request, loaded, steps, traceVars, terminalErr, runErr>>

\* parseFlags wants something to load, except in the modes that load nothing.
Usable == request.flags = "good" /\ (request.mode = "run" => request.bin # NoProgram \/ request.roms # <<>>)

\* The terminal and the loopbacks are attached in turn; the bus refuses a port that is
\* taken (see PeripheralBus).
PortsCollide ==
  \E i, j \in DOMAIN request.ports :
    i # j /\ \E k \in {1, 2} : request.ports[i][k] = request.ports[j][k]

\* The modes that do not run a program; RunSuite always passes (see CpuPrograms), a ROM
\* to verify may be unreadable or not match.
OtherMode ==
  \/ request.mode \in {"profiles", "conformance"} /\ Exit(0, {})
  \/ request.mode = "verify" /\ Exit(0, {})
  \/ request.mode = "verify" /\ Exit(1, {"verify"})

Start ==
  /\ stage = "start"
  /\ UNCHANGED memVars
  /\ \/ request.flags = "help" /\ Exit(0, {})
     \/ request.flags # "help" /\ ~Usable /\ Exit(2, {"flags"})
     \/ Usable /\ request.mode # "run" /\ OtherMode
     \/ /\ Usable /\ request.mode = "run"
        /\ IF request.profile = "unknown" THEN Exit(2, {"profile"})
           ELSE IF PortsCollide THEN Exit(2, {"ports"})
           ELSE Go("roms") /\ UNCHANGED loaded

\* The status of a load that failed.
LoadFailed == 1

HasSlot(slot) == request.profile # "generic" /\ slot \in {"monitor", "test"}

\* One image of -rom: both slots of a profile are at address 0.
LoadImage ==
  /\ stage = "roms" /\ loaded < Len(request.roms)
  /\ LET image == request.roms[loaded + 1]
     IN \/ UNCHANGED memVars /\ Exit(LoadFailed, {"unreadable"})
        \/ ~HasSlot(image.slot) /\ UNCHANGED memVars /\ Exit(LoadFailed, {"slot"})
        \/ /\ HasSlot(image.slot)
           /\ LoadROM(0, image.block)
           /\ IF result' = "refused" THEN Exit(LoadFailed, {"rom"})
              ELSE Go("roms") /\ loaded' = loaded + 1

LoadImages ==
  \/ LoadImage
  \/ stage = "roms" /\ loaded = Len(request.roms) /\ Go("program") /\ UNCHANGED <<memVars, loaded>>

\* -bin, into what the ROMs left writable: LoadBytes of profile.go, which would fall
\* back on writing byte by byte if the memory had no loader.
Copy_ByWriting(at, block) ==
  IF Fits(at, block)
  THEN /\ data' = [x \in Address |->
                     IF x \in Target(at, block) /\ Writable(x) THEN block[x - at + 1] ELSE data[x]]
       /\ result' = "load"
       /\ UNCHANGED <<kinds, burned>>
  ELSE Refuse
Copy(at, block) == LoadBytes(at, block)
LoadProgram ==
  /\ stage = "program"
  /\ IF request.bin = NoProgram THEN Go("prepare") /\ UNCHANGED <<memVars, loaded>>
     ELSE \/ UNCHANGED memVars /\ Exit(LoadFailed, {"unreadable"})
          \/ /\ Copy(request.bin.at, request.bin.block)
             /\ IF result' = "refused" THEN Exit(LoadFailed, {"program"})
                ELSE Go("prepare") /\ UNCHANGED loaded

\* -disasm ends here; -trace-json creates its file, over the one there was.
Prepare ==
  /\ stage = "prepare"
  /\ UNCHANGED <<memVars, loaded>>
  /\ \/ request.disasm /\ Exit(0, {})
     \/ ~request.disasm /\ ~request.traced /\ Go("running")
     \/ ~request.disasm /\ request.traced /\ Exit(1, {"create"})
     \/ /\ ~request.disasm /\ request.traced
        /\ stage' = "running" /\ file' = [file EXCEPT !.state = "open"]
        /\ UNCHANGED <<request, steps, emitted, outcomeVars>>

---------------------------------------------------------------------------

\* The sink stops at its first error; without -trace-json there is none.
Encodes_Always == file.state = "open"
Encodes == file.state = "open" /\ ~file.err

\* Debugger.Run counts the events that are instructions, panel.Run its instructions.
Counted(kind) == kind = "instruction"

\* The end of Debugger.Step or of the panel's turn; wrong is what went wrong in it.
Step(kind, wrong) ==
  LET event == [sequence |-> Len(emitted), kind |-> kind]
  IN /\ steps' = IF Counted(kind) THEN steps + 1 ELSE steps
     /\ emitted' = IF request.debug THEN Append(emitted, event) ELSE emitted
     /\ IF request.debug /\ Encodes
        THEN \/ /\ file' = [file EXCEPT !.lines = Append(@, event)]
                /\ faults' = faults \cup wrong
             \/ /\ file' = [file EXCEPT !.err = TRUE]
                /\ faults' = faults \cup wrong \cup {"encode"}
        ELSE UNCHANGED file /\ faults' = faults \cup wrong
     /\ UNCHANGED <<request, loaded, status>>

Running == stage = "running" /\ steps < request.limit

\* What ends a run before the next instruction: a breakpoint, READY low, the limit.
Breakpoint ==
  /\ Running /\ request.debug
  /\ Step("breakpoint", {})
  /\ stage' = "ending"
  /\ UNCHANGED <<memVars, terminalErr, runErr>>

Wait ==
  /\ Running /\ ~request.ready
  /\ Step("wait", {})
  /\ stage' = "ending"
  /\ UNCHANGED <<memVars, terminalErr, runErr>>

Limit ==
  /\ stage = "running" /\ steps = request.limit
  /\ Go("ending")
  /\ UNCHANGED <<memVars, loaded>>

\* An instruction; HLT stops a run, watchpoints and I/O breakpoints a debugged one.
Instruction(wrong, mayStop) ==
  /\ Running /\ request.ready
  /\ Step("instruction", wrong)
  /\ stage' \in {"running"} \cup IF mayStop THEN {"ending"} ELSE {}
  /\ UNCHANGED runErr

Calculate == Instruction({}, TRUE) /\ UNCHANGED <<memVars, terminalErr>>

Store ==
  /\ Instruction({}, request.debug)
  /\ \E a \in Address, v \in Value : Write(a, v)
  /\ UNCHANGED terminalErr

\* OUT to the terminal: after an error the byte is dropped.
SendByte ==
  /\ request.terminal
  /\ UNCHANGED memVars
  /\ \/ Instruction({}, request.debug) /\ UNCHANGED terminalErr
     \/ Instruction({"terminal"}, request.debug) /\ terminalErr' = TRUE

\* An unassigned opcode: the run ends with an error, and no event tells of it.
FailInstruction ==
  /\ Running /\ request.ready
  /\ stage' = "ending" /\ runErr' = TRUE /\ faults' = faults \cup {"run"}
  /\ UNCHANGED <<memVars, request, loaded, steps, traceVars, terminalErr, status>>

Execute == Breakpoint \/ Wait \/ Limit \/ Calculate \/ Store \/ SendByte \/ FailInstruction

---------------------------------------------------------------------------

\* finishTrace, called also after a run that failed: closes the file, which may fail.
Closes == file.state = "open"
TraceErr_CloseOnly(closeErr) == closeErr
TraceErr(closeErr) == file.err \/ closeErr

\* The terminal's error is told first, then that of the run or of the trace.
Finish ==
  /\ stage = "ending"
  /\ \E closeErr \in BOOLEAN :
       /\ closeErr => Closes
       /\ file' = IF Closes THEN [file EXCEPT !.state = "closed"] ELSE file
       /\ faults' = IF closeErr THEN faults \cup {"close"} ELSE faults
       /\ status' = IF terminalErr \/ runErr \/ TraceErr(closeErr) THEN 1 ELSE 0
  /\ stage' = "exit"
  /\ UNCHANGED <<memVars, request, loaded, steps, emitted, terminalErr, runErr>>

CmdNext ==
  Start \/ LoadImages \/ LoadProgram \/ Prepare \/ Execute \/ Finish

CmdSpec == CmdInit /\ [][CmdNext]_cmdVars

---------------------------------------------------------------------------

\* The exit status is 0 exactly if nothing went wrong, on any path: no failed load,
\* instruction, byte for the terminal, line of the trace or close goes unreported, and
\* no error of one hides behind another's success (main.go:205-388, 604-626).
StatusIsHonest == stage = "exit" => (status = 0 <=> faults = {})

\* The trace file holds the first events of the run, in order and with none missing in
\* between, also when lines of it could not be written; and it is not left open at
\* exit, whatever failed (main.go:355-366, 612-625).
NoGaps == file.lines = SubSeq(emitted, 1, Len(file.lines))
TraceIsClosed == stage = "exit" => file.state # "open"
TraceIsSound == NoGaps /\ TraceIsClosed

\* The program starts as its file has it: what is loaded after it does not overwrite it,
\* and a program that does not fit in writable memory never starts (main.go:296-319).
ProgramIsWhole ==
  stage = "running" /\ steps = 0 /\ request.bin # NoProgram =>
    LET bin == request.bin
    IN \A x \in Target(bin.at, bin.block) : Read(x) = bin.block[x - bin.at + 1]

\* The command uses memory only through the operations of MemoryBus, so that all that
\* holds of it holds of a run of the command (main.go:226-319).
KeepsMemory == Spec
=============================================================================
