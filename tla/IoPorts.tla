------------------------------ MODULE IoPorts ------------------------------
(***************************************************************************)
(* The I/O ports at work: the CPU reads and writes ports                   *)
(* (src/machine/io.go) and reaches, through the handlers PeripheralBus     *)
(* hands out, a terminal (src/machine/terminal.go).                        *)
(*                                                                         *)
(* The goroutine of the CPU accesses a port in two steps: it latches, then *)
(* calls the handler.  It also attaches and detaches, between two          *)
(* accesses, since CallbackIO has no lock.  Hosts on other goroutines      *)
(* queue input whenever they like: what they share with the handlers is    *)
(* behind a mutex and each use of it is one step.  A handler other than    *)
(* TTY is any other device, a register say; latched values and what        *)
(* observers are told are copies and left out.  A definition named X_Y     *)
(* just before X is X with a plausible mistake Y, used nowhere.            *)
(***************************************************************************)
EXTENDS PeripheralBus, Integers, Sequences

CONSTANTS
  Byte, NoByte,
  TTY,            \* the terminal's handlers
  Data,           \* what QueueInput is given
  MaxTraffic      \* bound: bytes queued and bytes sent to the terminal

ASSUME PortAssumption == Port # {}
ASSUME TTYAssumption == TTY \in Handler
ASSUME DataAssumption == Data \subseteq Seq(Byte)
ASSUME NoByteAssumption == NoByte \notin Byte
ASSUME MaxTrafficAssumption == MaxTraffic \in Nat

VARIABLES
  at, place, value,   \* the CPU: the access in progress, its place, the value sent
  input,              \* Terminal: the bytes waiting
  err,                \* Terminal: a write has failed
  queued, taken,      \* history: bytes given to QueueInput, bytes of them the CPU read
  sent, written       \* history: bytes the CPU sent to the terminal, bytes written

accessVars == <<at, place, value>>
inputVars == <<input, queued, taken>>
outputVars == <<err, sent, written>>
ioVars == <<busVars, accessVars, inputVars, outputVars>>

Traffic == Len(queued) + Len(sent)
Reaches(p, h) == callbacks[p] = h

\* QueueInput, on any goroutine.
QueueInput(data) ==
  /\ Traffic + Len(data) <= MaxTraffic
  /\ input' = input \o data
  /\ queued' = queued \o data
  /\ UNCHANGED <<busVars, accessVars, taken, outputVars>>

\* CallbackIO.Input and Output up to the call of the handler.
Begin(access, p, v) ==
  /\ at = "idle"
  /\ at' = access /\ place' = p /\ value' = v
  /\ UNCHANGED <<busVars, inputVars, err, written>>

Input(port) == Begin("input", <<"input", port>>, NoByte) /\ UNCHANGED sent

Output(port, v) ==
  /\ Begin("output", <<"output", port>>, v)
  /\ IF Reaches(<<"output", port>>, TTY)
     THEN Traffic < MaxTraffic /\ sent' = Append(sent, v)
     ELSE UNCHANGED sent

\* readInput: an empty queue gives the latched value back.
Rest_Newest(q) == SubSeq(q, 1, Len(q) - 1)
Rest(q) == Tail(q)
ReadInput ==
  IF input = <<>>
  THEN UNCHANGED inputVars
  ELSE /\ input' = Rest(input)
       /\ taken' = Append(taken, Head(input))
       /\ UNCHANGED queued

\* writeOutput: nothing is written after a write that failed.
MayWrite_Retries == TRUE
MayWrite == ~err
Remembered_Not == FALSE
Remembered == TRUE
WriteOutput ==
  /\ \/ ~MayWrite /\ UNCHANGED <<err, written>>
     \/ MayWrite /\ written' = Append(written, value) /\ UNCHANGED err
     \/ MayWrite /\ err' = Remembered /\ UNCHANGED written
  /\ UNCHANGED sent

\* The handler is called, and the access is over.
Finish ==
  /\ at' = "idle" /\ value' = NoByte
  /\ UNCHANGED <<busVars, place>>

CallInput ==
  /\ at = "input"
  /\ IF Reaches(place, TTY) THEN ReadInput ELSE UNCHANGED inputVars
  /\ Finish
  /\ UNCHANGED outputVars

CallOutput ==
  /\ at = "output"
  /\ IF Reaches(place, TTY) THEN WriteOutput ELSE UNCHANGED outputVars
  /\ Finish
  /\ UNCHANGED inputVars

\* Calls of the owner of the bus, between two accesses of the CPU.
Owner ==
  /\ at = "idle"
  /\ \/ \E name \in Name \cup {Nobody}, b \in Binding : Attach(name, b)
     \/ \E name \in Name \cup {Nobody} : Detach(name)
     \/ \E p \in Place, h \in Handler \cup {NoHandler} : On(p, h)
     \/ \E h \in Handler, in, out \in Port : AttachPorts(h, in, out)
  /\ UNCHANGED <<accessVars, inputVars, outputVars>>

IoInit ==
  /\ Init
  /\ at = "idle" /\ place = <<"input", CHOOSE port \in Port : TRUE>> /\ value = NoByte
  /\ input = <<>> /\ queued = <<>> /\ taken = <<>>
  /\ err = FALSE /\ sent = <<>> /\ written = <<>>

IoNext ==
  \/ \E data \in Data : QueueInput(data)
  \/ \E port \in Port : Input(port) \/ \E v \in Byte : Output(port, v)
  \/ CallInput \/ CallOutput
  \/ Owner

IoSpec == IoInit /\ [][IoNext]_ioVars

---------------------------------------------------------------------------

AccessTypes ==
  /\ at \in {"idle", "input", "output"}
  /\ place \in Place /\ (at # "idle" => place[1] = at)
  /\ value \in Byte \cup {NoByte} /\ (value # NoByte <=> at = "output")

StreamTypes ==
  /\ err \in BOOLEAN
  /\ input \in Seq(Byte) /\ queued \in Seq(Byte) /\ taken \in Seq(Byte)
  /\ sent \in Seq(Byte) /\ written \in Seq(Byte)

\* Types; and a byte is on its way exactly during an output.
IoTypeOK == TypeOK /\ AccessTypes /\ StreamTypes

\* The bytes queued for the terminal are those the CPU has read and those still
\* waiting, in that order: none is lost, repeated or overtaken, although others queue
\* while the CPU reads, and the terminal may lose its port, be attached to more
\* places or detached and attached again (terminal.go:76-112, io.go:93-106).
InputInOrder == queued = taken \o input

\* The terminal has written all the CPU sent it, save the byte in flight, or has an
\* error to tell: a lost byte is never silent (terminal.go:95-99, 112-119).
InFlight == IF at = "output" /\ Reaches(place, TTY) THEN <<value>> ELSE <<>>
LossIsTold == err \/ sent = written \o InFlight

\* Each direction of the terminal is a stream of bytes; the output breaks for good at
\* the first failed write, also when later ones would succeed (terminal.go:101-119).
InputStream == INSTANCE ByteStream WITH sent <- queued, received <- taken, broken <- FALSE
OutputStream == INSTANCE ByteStream WITH received <- written, broken <- err
InputStreams == InputStream!Spec
OutputStreams == OutputStream!Spec
===========================================================================
