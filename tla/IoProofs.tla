------------------------------ MODULE IoProofs ------------------------------
(***************************************************************************)
(* Proofs about PeripheralBus, for any ports, names and handlers, and then *)
(* about IoPorts, for any ports, peripherals, bytes and bounds.            *)
(***************************************************************************)
EXTENDS IoPorts, SequenceTheorems, TLAPS

\* Giving places to a peripheral, or taking them back, keeps owners, handlers and the
\* history in step.
LEMMA GrantKeeps ==
  ASSUME TypeOK, OwnersMatchHandlers,
         NEW name \in Name \cup {Nobody}, NEW places \in SUBSET Place,
         NEW h \in Handler \cup {NoHandler}, Grant(name, places, h),
         places = {} \/ (name = Nobody <=> h = NoHandler)
  PROVE  TypeOK' /\ OwnersMatchHandlers'
<1>1. /\ owners' \in [Place -> Name \cup {Nobody}]
      /\ callbacks' \in [Place -> Handler \cup {NoHandler}]
      /\ granted' \in [Place -> Handler \cup {NoHandler}]
      /\ direct' \subseteq Place
  BY DEF TypeOK, Grant, At
<1>2. ASSUME NEW p \in Place PROVE owners'[p] = Nobody <=> granted'[p] = NoHandler
  BY DEF TypeOK, Grant, At
<1>3. ASSUME NEW p \in Place, p \notin direct' PROVE callbacks'[p] = granted'[p]
  BY <1>3 DEF OwnersMatchHandlers, Grant, At
<1>4. QED
  BY <1>1, <1>2, <1>3 DEF TypeOK, OwnersMatchHandlers

\* Owners, handlers and history agree in every reachable state: no refused, repeated or
\* interleaved sequence of attach, detach and direct calls leaves a place that nobody
\* wrote directly with another handler than its owner's (peripheral.go:61-137).
THEOREM OwnersAlwaysMatch == Spec => [](TypeOK /\ OwnersMatchHandlers)
<1> DEFINE Inv == TypeOK /\ OwnersMatchHandlers
<1>1. Init => Inv
  BY NobodyAssumption, NoHandlerAssumption DEF Init, TypeOK, OwnersMatchHandlers
<1>2. Inv /\ [Next]_busVars => Inv'
  <2> SUFFICES ASSUME TypeOK, OwnersMatchHandlers, [Next]_busVars
               PROVE  TypeOK' /\ OwnersMatchHandlers'
    OBVIOUS
  <2>1. ASSUME NEW name \in Name \cup {Nobody}, NEW b \in Binding, Attach(name, b)
        PROVE  TypeOK' /\ OwnersMatchHandlers'
    <3> DEFINE places == IF Valid(name, b) THEN b.places ELSE {}
    <3>1. b.places \in SUBSET Place /\ b.handler \in Handler \cup {NoHandler}
      BY DEF Binding
    <3>2. Grant(name, places, b.handler)
      BY <2>1 DEF Attach
    <3>3. places = {} \/ (name # Nobody /\ b.handler # NoHandler)
      BY DEF Valid
    <3>4. QED
      BY <3>1, <3>2, <3>3, GrantKeeps
  <2>2. ASSUME NEW name \in Name \cup {Nobody}, Detach(name)
        PROVE  TypeOK' /\ OwnersMatchHandlers'
    <3>1. Holdings(name) \in SUBSET Place
      BY DEF Holdings
    <3>2. QED
      BY <2>2, <3>1, GrantKeeps DEF Detach
  <2>3. ASSUME NEW p \in Place, NEW h \in Handler \cup {NoHandler}, On(p, h)
        PROVE  TypeOK' /\ OwnersMatchHandlers'
    BY <2>3 DEF TypeOK, OwnersMatchHandlers, On
  <2>4. ASSUME NEW h \in Handler, NEW in \in Port, NEW out \in Port, AttachPorts(h, in, out)
        PROVE  TypeOK' /\ OwnersMatchHandlers'
    <3>1. {<<"input", in>>, <<"output", out>>} \subseteq Place
      BY DEF Place, Direction
    <3>2. TypeOK'
      BY <2>4, <3>1 DEF TypeOK, AttachPorts, At
    <3>3. OwnersMatchHandlers'
      BY <2>4 DEF OwnersMatchHandlers, AttachPorts, At
    <3>4. QED
      BY <3>2, <3>3
  <2>5. CASE UNCHANGED busVars
    BY <2>5 DEF TypeOK, OwnersMatchHandlers, busVars
  <2>6. QED
    BY <2>1, <2>2, <2>3, <2>4, <2>5 DEF Next
<1>3. QED
  BY <1>1, <1>2, PTL DEF Spec

\* Attaching never takes a place that has an owner or a handler (peripheral.go:81-100,
\* 163-181).
THEOREM AttachIsPolite == Spec => AttachTakesOnlyFree
<1>1. ASSUME TypeOK, [Next]_busVars, call' # call \/ owners' # owners \/ callbacks' # callbacks,
             call'.op = "attach", NEW p \in Place, callbacks[p] # NoHandler \/ owners[p] # Nobody
      PROVE  callbacks'[p] = callbacks[p] /\ owners'[p] = owners[p]
  <2>1. ASSUME NEW name \in Name \cup {Nobody}, NEW b \in Binding, Attach(name, b)
        PROVE  callbacks'[p] = callbacks[p] /\ owners'[p] = owners[p]
    BY <1>1, <2>1 DEF Attach, Grant, At, Valid, Free
  <2>2. \A name \in Name \cup {Nobody} : ~Detach(name)
    BY <1>1 DEF Detach
  <2>3. \A q \in Place, h \in Handler \cup {NoHandler} : ~On(q, h)
    BY <1>1 DEF On
  <2>4. \A h \in Handler, in, out \in Port : ~AttachPorts(h, in, out)
    BY <1>1 DEF AttachPorts
  <2>5. CASE UNCHANGED busVars
    BY <2>5 DEF busVars
  <2>6. QED
    BY <1>1, <2>1, <2>2, <2>3, <2>4, <2>5 DEF Next
<1>2. TypeOK /\ [Next]_busVars =>
        [call'.op = "attach" =>
           \A p \in Place : callbacks[p] # NoHandler \/ owners[p] # Nobody =>
             callbacks'[p] = callbacks[p] /\ owners'[p] = owners[p]]_busVars
  BY <1>1 DEF busVars
<1>3. QED
  BY <1>2, OwnersAlwaysMatch, PTL DEF Spec, AttachTakesOnlyFree

\* A refused attach changes neither an owner nor a handler (peripheral.go:61-112).
THEOREM RefusedAttach == Spec => AttachAllOrNothing
<1>1. ASSUME TypeOK, [Next]_busVars, call'.op = "attach", call'.refused
      PROVE  UNCHANGED <<owners, callbacks>>
  <2>1. ASSUME NEW name \in Name \cup {Nobody}, NEW b \in Binding, Attach(name, b)
        PROVE  UNCHANGED <<owners, callbacks>>
    <3>1. owners' = At(owners, {}, name) /\ callbacks' = At(callbacks, {}, b.handler)
      BY <1>1, <2>1 DEF Attach, Grant
    <3> QED
      BY <1>1, <3>1 DEF At, TypeOK
  <2>2. \A name \in Name \cup {Nobody} : ~Detach(name)
    BY <1>1 DEF Detach
  <2>3. \A q \in Place, h \in Handler \cup {NoHandler} : ~On(q, h)
    BY <1>1 DEF On
  <2>4. \A h \in Handler, in, out \in Port : ~AttachPorts(h, in, out)
    BY <1>1 DEF AttachPorts
  <2>5. CASE UNCHANGED busVars
    BY <2>5 DEF busVars
  <2>6. QED
    BY <1>1, <2>1, <2>2, <2>3, <2>4, <2>5 DEF Next
<1>2. TypeOK /\ [Next]_busVars =>
        [call'.op = "attach" /\ call'.refused => UNCHANGED <<owners, callbacks>>]_busVars
  BY <1>1
<1>3. QED
  BY <1>2, OwnersAlwaysMatch, PTL DEF Spec, AttachAllOrNothing

---------------------------------------------------------------------------
(* The ports at work.                                                      *)

\* The ports at work do to the bus what PeripheralBus says, and nothing else, so that
\* what is proved of the bus holds while the CPU uses it (peripheral.go:61-137).
THEOREM PortsKeepTheBus == IoSpec => Spec
<1>1. IoInit => Init
  BY DEF IoInit
<1>2. [IoNext]_ioVars => [Next]_busVars
  <2> SUFFICES ASSUME [IoNext]_ioVars PROVE [Next]_busVars
    OBVIOUS
  <2>1. ASSUME NEW data \in Data, QueueInput(data) PROVE UNCHANGED busVars
    BY <2>1 DEF QueueInput
  <2>2. ASSUME NEW port \in Port, Input(port) PROVE UNCHANGED busVars
    BY <2>2 DEF Input, Begin
  <2>3. ASSUME NEW port \in Port, NEW v \in Byte, Output(port, v) PROVE UNCHANGED busVars
    BY <2>3 DEF Output, Begin
  <2>4. CASE CallInput \/ CallOutput
    BY <2>4 DEF CallInput, CallOutput, Finish
  <2>5. CASE Owner
    BY <2>5 DEF Owner, Next
  <2>6. CASE UNCHANGED ioVars
    BY <2>6 DEF ioVars
  <2> QED
    BY <2>1, <2>2, <2>3, <2>4, <2>5, <2>6 DEF IoNext
<1> QED
  BY <1>1, <1>2, PTL DEF IoSpec, Spec

---------------------------------------------------------------------------

LEMMA TypesInit == IoInit => AccessTypes /\ StreamTypes
<1> SUFFICES ASSUME IoInit PROVE AccessTypes /\ StreamTypes
  OBVIOUS
<1>1. (CHOOSE port \in Port : TRUE) \in Port
  BY PortAssumption
<1>2. AccessTypes
  BY <1>1 DEF IoInit, AccessTypes, Place, Direction
<1>3. <<>> \in Seq(Byte)
  BY EmptySeq
<1>4. StreamTypes
  BY <1>3 DEF IoInit, StreamTypes
<1> QED
  BY <1>2, <1>4

\* Reading the terminal moves one byte from the queue to the CPU.
LEMMA ReadMovesOne ==
  ASSUME StreamTypes, ReadInput, input # <<>>
  PROVE  /\ input' \in Seq(Byte) /\ taken' \in Seq(Byte) /\ queued' = queued
         /\ taken' \o input' = taken \o input
         /\ taken' = Append(taken, (taken \o input)[Len(taken) + 1])
         /\ Len(taken) < Len(taken \o input)
<1>1. /\ input' = Tail(input) /\ taken' = Append(taken, Head(input)) /\ queued' = queued
      /\ input \in Seq(Byte) /\ taken \in Seq(Byte)
  BY DEF ReadInput, Rest, StreamTypes
<1>2. Head(input) \in Byte /\ Tail(input) \in Seq(Byte) /\ Len(input) \in Nat \ {0}
  BY <1>1, HeadTailProperties, EmptySeq
<1>3. taken' = taken \o <<Head(input)>>
  BY <1>1, <1>2, AppendIsConcat
<1>4. <<Head(input)>> \o Tail(input) = input
  BY <1>1, <1>2
<1>5. taken' \o input' = taken \o input
  <2>1. <<Head(input)>> \in Seq(Byte)
    BY <1>2
  <2> QED
    BY <1>1, <1>2, <1>3, <1>4, <2>1, ConcatAssociative
<1>6. /\ Len(taken) < Len(taken \o input)
      /\ (taken \o input)[Len(taken) + 1] = Head(input)
  BY <1>1, <1>2
<1> QED
  BY <1>1, <1>2, <1>5, <1>6, AppendProperties

LEMMA TypesStep == AccessTypes /\ StreamTypes /\ [IoNext]_ioVars => AccessTypes' /\ StreamTypes'
<1> SUFFICES ASSUME AccessTypes, StreamTypes, [IoNext]_ioVars
             PROVE  AccessTypes' /\ StreamTypes'
  OBVIOUS
<1>1. ASSUME NEW data \in Data, QueueInput(data) PROVE AccessTypes' /\ StreamTypes'
  <2>1. data \in Seq(Byte)
    BY DataAssumption
  <2>2. input' \in Seq(Byte) /\ queued' \in Seq(Byte)
    BY <1>1, <2>1, ConcatProperties DEF QueueInput, StreamTypes
  <2> QED
    BY <1>1, <2>2 DEF QueueInput, accessVars, outputVars, AccessTypes, StreamTypes
<1>2. ASSUME NEW port \in Port, Input(port) PROVE AccessTypes' /\ StreamTypes'
  BY <1>2 DEF Input, Begin, inputVars, AccessTypes, StreamTypes, Place, Direction
<1>3. ASSUME NEW port \in Port, NEW v \in Byte, Output(port, v)
      PROVE  AccessTypes' /\ StreamTypes'
  <2>1. v # NoByte
    BY NoByteAssumption
  <2>2. AccessTypes'
    BY <1>3, <2>1 DEF Output, Begin, AccessTypes, Place, Direction
  <2>3. sent \in Seq(Byte) /\ Append(sent, v) \in Seq(Byte)
    BY AppendProperties DEF StreamTypes
  <2>4. sent' \in Seq(Byte)
    BY <1>3, <2>3 DEF Output
  <2> QED
    BY <1>3, <2>2, <2>4 DEF Output, Begin, inputVars, StreamTypes
<1>4. CASE CallInput
  <2>1. input' \in Seq(Byte) /\ taken' \in Seq(Byte) /\ queued' \in Seq(Byte)
    BY <1>4, ReadMovesOne DEF CallInput, ReadInput, inputVars, StreamTypes
  <2> QED
    BY <1>4, <2>1 DEF CallInput, Finish, outputVars, AccessTypes, StreamTypes
<1>5. CASE CallOutput
  <2>1. value \in Byte /\ written \in Seq(Byte)
    BY <1>5 DEF CallOutput, AccessTypes, StreamTypes
  <2>2. Append(written, value) \in Seq(Byte)
    BY <2>1, AppendProperties
  <2>3. err' \in BOOLEAN /\ written' \in Seq(Byte) /\ sent' = sent
    BY <1>5, <2>2 DEF CallOutput, WriteOutput, Remembered, outputVars, StreamTypes
  <2> QED
    BY <1>5, <2>3 DEF CallOutput, Finish, inputVars, AccessTypes, StreamTypes
<1>6. CASE Owner
  BY <1>6 DEF Owner, accessVars, inputVars, outputVars, AccessTypes, StreamTypes
<1>7. CASE UNCHANGED ioVars
  BY <1>7 DEF ioVars, accessVars, inputVars, outputVars, AccessTypes, StreamTypes
<1> QED
  BY <1>1, <1>2, <1>3, <1>4, <1>5, <1>6, <1>7 DEF IoNext

\* Types hold, of the bus as of the streams.
THEOREM IoTypes == IoSpec => []IoTypeOK
<1>1. IoSpec => [](AccessTypes /\ StreamTypes)
  BY TypesInit, TypesStep, PTL DEF IoSpec
<1>2. IoSpec => []TypeOK
  BY PortsKeepTheBus, OwnersAlwaysMatch, PTL
<1> QED
  BY <1>1, <1>2, PTL DEF IoTypeOK

---------------------------------------------------------------------------

LEMMA InputInit == IoInit => InputInOrder
<1>1. <<>> \o <<>> = <<>>
  BY EmptySeq, ConcatEmptySeq
<1> QED
  BY <1>1 DEF IoInit, InputInOrder

LEMMA InputStep == StreamTypes /\ InputInOrder /\ [IoNext]_ioVars => InputInOrder'
<1> SUFFICES ASSUME StreamTypes, InputInOrder, [IoNext]_ioVars PROVE InputInOrder'
  OBVIOUS
<1>1. ASSUME NEW data \in Data, QueueInput(data) PROVE InputInOrder'
  <2>1. data \in Seq(Byte) /\ taken \in Seq(Byte) /\ input \in Seq(Byte)
    BY DataAssumption DEF StreamTypes
  <2>2. (taken \o input) \o data = taken \o (input \o data)
    BY <2>1, ConcatAssociative
  <2> QED
    BY <1>1, <2>2 DEF QueueInput, InputInOrder
<1>2. CASE CallInput
  <2>1. CASE UNCHANGED inputVars
    BY <2>1 DEF inputVars, InputInOrder
  <2>2. CASE ReadInput /\ input # <<>>
    BY <2>2, ReadMovesOne DEF InputInOrder
  <2> QED
    BY <1>2, <2>1, <2>2 DEF CallInput, ReadInput
<1>3. ASSUME \A data \in Data : ~QueueInput(data), ~CallInput PROVE UNCHANGED inputVars
  BY <1>3 DEF IoNext, Input, Output, Begin, CallOutput, Owner, ioVars
<1> QED
  BY <1>1, <1>2, <1>3 DEF inputVars, InputInOrder

\* No byte of input is lost, repeated or overtaken, whoever queues and whatever is
\* attached or detached meanwhile (terminal.go:76-112).
THEOREM InputKept == IoSpec => []InputInOrder
<1>1. IoInit => StreamTypes /\ InputInOrder
  BY TypesInit, InputInit
<1>2. IoSpec => [](AccessTypes /\ StreamTypes)
  BY TypesInit, TypesStep, PTL DEF IoSpec
<1> QED
  BY <1>1, <1>2, InputStep, PTL DEF IoSpec

---------------------------------------------------------------------------

\* What the CPU and the terminal do with a byte on its way out.
LEMMA OutputSends ==
  ASSUME AccessTypes, StreamTypes, NEW port \in Port, NEW v \in Byte, Output(port, v)
  PROVE  /\ InFlight = <<>> /\ UNCHANGED <<err, written>>
         /\ \/ sent' = sent /\ InFlight' = <<>>
            \/ sent' = sent \o <<v>> /\ InFlight' = <<v>>
<1>1. InFlight = <<>> /\ UNCHANGED <<err, written, callbacks>>
  BY DEF Output, Begin, InFlight, busVars
<1>2. Append(sent, v) = sent \o <<v>>
  BY AppendIsConcat DEF StreamTypes
<1>3. at' = "output" /\ place' = <<"output", port>> /\ value' = v
  BY DEF Output, Begin
<1> QED
  BY <1>1, <1>2, <1>3 DEF Output, InFlight, Reaches

LEMMA CallWrites ==
  ASSUME AccessTypes, StreamTypes, CallOutput
  PROVE  /\ InFlight' = <<>> /\ UNCHANGED sent
         /\ \/ err' = err /\ written' = written /\ (err = TRUE \/ InFlight = <<>>)
            \/ ~err /\ err' = err /\ InFlight = <<value>> /\ written' = written \o <<value>>
            \/ err' = TRUE /\ written' = written
<1>1. InFlight' = <<>>
  BY DEF CallOutput, Finish, InFlight
<1>2. value \in Byte /\ Append(written, value) = written \o <<value>>
  BY AppendIsConcat DEF CallOutput, AccessTypes, StreamTypes
<1>3. CASE Reaches(place, TTY)
  BY <1>1, <1>2, <1>3 DEF CallOutput, WriteOutput, MayWrite, Remembered, InFlight, StreamTypes
<1>4. CASE ~Reaches(place, TTY)
  BY <1>1, <1>4 DEF CallOutput, outputVars, InFlight
<1> QED
  BY <1>3, <1>4

\* Steps that are not about the output leave it alone, the byte in flight included.
LEMMA OthersKeepOutput ==
  ASSUME AccessTypes, [IoNext]_ioVars, ~CallOutput,
         \A port \in Port, v \in Byte : ~Output(port, v)
  PROVE  UNCHANGED outputVars /\ InFlight' = InFlight
<1>1. ASSUME NEW data \in Data, QueueInput(data)
      PROVE  UNCHANGED outputVars /\ InFlight' = InFlight
  BY <1>1 DEF QueueInput, busVars, accessVars, InFlight, Reaches
<1>2. ASSUME NEW port \in Port, Input(port)
      PROVE  UNCHANGED outputVars /\ InFlight' = InFlight
  BY <1>2 DEF Input, Begin, outputVars, InFlight
<1>3. CASE CallInput
  BY <1>3 DEF CallInput, Finish, InFlight
<1>4. CASE Owner
  BY <1>4 DEF Owner, accessVars, InFlight
<1>5. CASE UNCHANGED ioVars
  BY <1>5 DEF ioVars, busVars, accessVars, outputVars, InFlight, Reaches
<1> QED
  BY <1>1, <1>2, <1>3, <1>4, <1>5 DEF IoNext

LEMMA LossInit == IoInit => LossIsTold
<1>1. <<>> \o <<>> = <<>>
  BY EmptySeq, ConcatEmptySeq
<1> QED
  BY <1>1 DEF IoInit, LossIsTold, InFlight

LEMMA LossStep ==
  AccessTypes /\ StreamTypes /\ LossIsTold /\ [IoNext]_ioVars => LossIsTold'
<1> SUFFICES ASSUME AccessTypes, StreamTypes, LossIsTold, [IoNext]_ioVars PROVE LossIsTold'
  OBVIOUS
<1>1. sent \o <<>> = sent /\ written \o <<>> = written
  BY ConcatEmptySeq DEF StreamTypes
<1>2. ASSUME NEW port \in Port, NEW v \in Byte, Output(port, v) PROVE LossIsTold'
  BY <1>1, <1>2, OutputSends DEF LossIsTold
<1>3. CASE CallOutput
  <2>1. CASE ~err /\ err' = err /\ InFlight = <<value>> /\ written' = written \o <<value>>
    <3>1. value \in Byte
      BY <1>3 DEF CallOutput, AccessTypes
    <3>2. written' \in Seq(Byte)
      BY <2>1, <3>1, ConcatProperties DEF StreamTypes
    <3>3. written' \o <<>> = written'
      BY <3>2, ConcatEmptySeq
    <3>4. sent' = sent /\ InFlight' = <<>>
      BY <1>3, CallWrites
    <3> QED
      BY <2>1, <3>3, <3>4 DEF LossIsTold
  <2>2. CASE err' = err /\ written' = written /\ (err = TRUE \/ InFlight = <<>>)
    BY <1>1, <1>3, <2>2, CallWrites DEF LossIsTold
  <2>3. CASE err' = TRUE
    BY <2>3 DEF LossIsTold
  <2> QED
    BY <1>3, <2>1, <2>2, <2>3, CallWrites
<1>4. CASE ~CallOutput /\ \A port \in Port, v \in Byte : ~Output(port, v)
  BY <1>4, OthersKeepOutput DEF outputVars, LossIsTold
<1> QED
  BY <1>2, <1>3, <1>4

\* A byte sent to the terminal is written, on its way, or the terminal has an error to
\* tell (terminal.go:95-119).
THEOREM LossTold == IoSpec => []LossIsTold
<1>1. IoInit => AccessTypes /\ StreamTypes /\ LossIsTold
  BY TypesInit, LossInit
<1> QED
  BY <1>1, TypesStep, LossStep, PTL DEF IoSpec

---------------------------------------------------------------------------

LEMMA PrefixOfConcat ==
  ASSUME NEW S, NEW s \in Seq(S), NEW t \in Seq(S)
  PROVE  SubSeq(s \o t, 1, Len(s)) = s
<1>1. CASE s = <<>>
  BY <1>1, SubSeqEmpty
<1>2. CASE s # <<>>
  <2>1. 1 \in 1..Len(s) /\ Len(s) \in 1..Len(s)
    BY <1>2, EmptySeq, LenProperties
  <2>2. SubSeq(s \o t, 1, Len(s)) = SubSeq(s, 1, Len(s))
    BY <2>1, SubSeqOfConcat1
  <2> QED
    BY <2>2, SubSeqFull
<1> QED
  BY <1>1, <1>2

\* The input is a stream of bytes from those who queue to the CPU (terminal.go:76-112).
THEOREM InputIsAStream == IoSpec => InputStreams
<1>1. IoInit => InputStream!Init
  BY DEF IoInit, InputStream!Init
<1>2. StreamTypes /\ InputInOrder /\ [IoNext]_ioVars =>
        [InputStream!Next]_(InputStream!streamVars)
  <2> SUFFICES ASSUME StreamTypes, InputInOrder, [IoNext]_ioVars
               PROVE  [InputStream!Next]_(InputStream!streamVars)
    OBVIOUS
  <2>1. ASSUME NEW data \in Data, QueueInput(data) PROVE InputStream!Send
    <3>1. data \in Seq(Byte) /\ queued \in Seq(Byte)
      BY DataAssumption DEF StreamTypes
    <3>2. queued \o data \in Seq(Byte) /\ SubSeq(queued \o data, 1, Len(queued)) = queued
      BY <3>1, ConcatProperties, PrefixOfConcat
    <3> QED
      BY <2>1, <3>2 DEF QueueInput, InputStream!Send
  <2>2. CASE CallInput
    <3>1. CASE UNCHANGED inputVars
      BY <3>1 DEF inputVars, InputStream!streamVars
    <3>2. CASE ReadInput /\ input # <<>>
      <4>1. InputStream!Receive
        BY <3>2, ReadMovesOne DEF InputInOrder, InputStream!Receive
      <4> QED
        BY <4>1 DEF InputStream!Next
    <3> QED
      BY <2>2, <3>1, <3>2 DEF CallInput, ReadInput
  <2>3. ASSUME \A data \in Data : ~QueueInput(data), ~CallInput PROVE UNCHANGED inputVars
    BY <2>3 DEF IoNext, Input, Output, Begin, CallOutput, Owner, ioVars
  <2> QED
    BY <2>1, <2>2, <2>3 DEF inputVars, InputStream!Next, InputStream!streamVars
<1>3. IoSpec => [](AccessTypes /\ StreamTypes)
  BY TypesInit, TypesStep, PTL DEF IoSpec
<1> QED
  BY <1>1, <1>2, <1>3, InputKept, PTL DEF IoSpec, InputStreams, InputStream!Spec

\* The output is a stream of bytes from the CPU to the writer, which breaks for good at
\* its first error (terminal.go:112-119).
THEOREM OutputIsAStream == IoSpec => OutputStreams
<1>1. IoInit => OutputStream!Init
  BY DEF IoInit, OutputStream!Init
<1>2. AccessTypes /\ StreamTypes /\ LossIsTold /\ [IoNext]_ioVars =>
        [OutputStream!Next]_(OutputStream!streamVars)
  <2> SUFFICES ASSUME AccessTypes, StreamTypes, LossIsTold, [IoNext]_ioVars
               PROVE  [OutputStream!Next]_(OutputStream!streamVars)
    OBVIOUS
  <2>1. ASSUME NEW port \in Port, NEW v \in Byte, Output(port, v), sent' # sent
        PROVE  OutputStream!Send
    <3>1. sent' = sent \o <<v>> /\ UNCHANGED <<err, written>>
      BY <2>1, OutputSends
    <3>2. sent \in Seq(Byte) /\ <<v>> \in Seq(Byte)
      BY DEF StreamTypes
    <3>3. sent \o <<v>> \in Seq(Byte) /\ SubSeq(sent \o <<v>>, 1, Len(sent)) = sent
      BY <3>2, ConcatProperties, PrefixOfConcat
    <3> QED
      BY <3>1, <3>3 DEF OutputStream!Send
  <2>2. CASE CallOutput
    <3>1. ASSUME ~err, err' = err, InFlight = <<value>>, written' = written \o <<value>>
          PROVE  OutputStream!Receive
      <4>1. value \in Byte /\ written \in Seq(Byte)
        BY <2>2 DEF CallOutput, AccessTypes, StreamTypes
      <4>2. sent = written \o <<value>> /\ UNCHANGED sent /\ err' = err
        BY <2>2, <3>1, CallWrites DEF LossIsTold
      <4>3. Len(written) < Len(sent) /\ sent[Len(written) + 1] = value
        BY <4>1, <4>2
      <4>4. written' = Append(written, value)
        BY <3>1, <4>1, AppendIsConcat
      <4> QED
        BY <3>1, <4>2, <4>3, <4>4 DEF OutputStream!Receive
    <3>2. ASSUME err' = TRUE, written' = written PROVE OutputStream!Break
      BY <2>2, <3>2, CallWrites DEF OutputStream!Break
    <3> QED
      BY <2>2, <3>1, <3>2, CallWrites DEF OutputStream!Next, OutputStream!streamVars
  <2>3. CASE ~CallOutput /\ \A port \in Port, v \in Byte : ~Output(port, v)
    BY <2>3, OthersKeepOutput DEF outputVars, OutputStream!streamVars
  <2>4. ASSUME NEW port \in Port, NEW v \in Byte, Output(port, v), sent' = sent
        PROVE  UNCHANGED OutputStream!streamVars
    BY <2>4, OutputSends DEF OutputStream!streamVars
  <2> QED
    BY <2>1, <2>2, <2>3, <2>4 DEF OutputStream!Next
<1>3. IoSpec => [](AccessTypes /\ StreamTypes)
  BY TypesInit, TypesStep, PTL DEF IoSpec
<1> QED
  BY <1>1, <1>2, <1>3, LossTold, PTL DEF IoSpec, OutputStreams, OutputStream!Spec
===========================================================================
