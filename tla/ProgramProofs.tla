---------------------------- MODULE ProgramProofs ----------------------------
(***************************************************************************)
(* Proofs about CpuPrograms: for every program that is Disciplined, and    *)
(* any number of interrupts and wait states.                               *)
(* InterruptsNest, the invariant, relates the CPU to the machine in which  *)
(* no interrupt came (the history variable shadow) by a list of contexts,  *)
(* one for the program and one for each handler not returned from: the     *)
(* stack holds what each needs to go back to the one before it.  A step of *)
(* the program is one of both machines, which agree on all it reads        *)
(* (StepTwin); a step of a handler changes the last context and leaves the *)
(* others alone (MoveOn, MoveReturn); an interrupt adds one (JamRestart).  *)
(* Last come the programs of the suite: SuiteRuns says where each is after *)
(* each of its instructions, which shows that they are disciplined and end *)
(* with their verdicts.                                                    *)
(***************************************************************************)
EXTENDS CpuPrograms, MachineProofs

---------------------------------------------------------------------------
(* Two machines that agree on what an instruction reads agree after it.    *)

\* On the cells of S, two memories hold the same.
Agree(S, p, q) == \A a \in S : a \in DOMAIN p /\ a \in DOMAIN q /\ q[a] = p[a]

\* The two machines differ outside S at most, and in what no instruction depends on;
\* the first has no cell outside D.
Twin(S, D, c, d) ==
  /\ c \in Machine /\ d \in Machine
  /\ d.reg = c.reg /\ d.flag = c.flag /\ d.pc = c.pc /\ d.sp = c.sp /\ d.halted = c.halted
  /\ DOMAIN c.mem \subseteq D
  /\ Agree(S, c.mem, d.mem)

LEMMA TwinPeek ==
  ASSUME NEW S, NEW D, NEW c, NEW d, Twin(S, D, c, d), NEW a \in S
  PROVE  Peek(d, a) = Peek(c, a)
BY DEF Twin, Agree, Peek

LEMMA TwinValues ==
  ASSUME NEW S, NEW D, NEW c, NEW d, Twin(S, D, c, d)
  PROVE  /\ c \in Machine /\ d \in Machine
         /\ HL(d) = HL(c) /\ \A p : Pair(d, p) = Pair(c, p)
         /\ \A k : Taken(d, k) <=> Taken(c, k)
         /\ d.reg = c.reg /\ d.flag = c.flag /\ d.pc = c.pc /\ d.sp = c.sp
<1>1. c \in Machine /\ d \in Machine /\ d.reg = c.reg /\ d.flag = c.flag /\ d.pc = c.pc /\ d.sp = c.sp
  BY DEF Twin
<1>2. HL(d) = HL(c) /\ \A p : Pair(d, p) = Pair(c, p)
  BY <1>1 DEF HL, Pair
<1>3. \A k : Taken(d, k) <=> Taken(c, k)
  BY <1>1, TakenIs
<1>4. QED
  BY <1>1, <1>2, <1>3

\* Fewer cells to agree on, more cells to have.
LEMMA TwinWeaken ==
  ASSUME NEW S, NEW D, NEW c, NEW d, Twin(S, D, c, d), NEW S1, NEW D1, S1 \subseteq S, D \subseteq D1
  PROVE  Twin(S1, D1, c, d)
BY DEF Twin, Agree

\* What leaves memory alone and does the same to both.
LEMMA TwinSame ==
  ASSUME NEW S, NEW D, NEW c, NEW d, Twin(S, D, c, d),
         NEW c1 \in Machine, NEW d1 \in Machine, c1.mem = c.mem, d1.mem = d.mem,
         d1.reg = c1.reg, d1.flag = c1.flag, d1.pc = c1.pc, d1.sp = c1.sp, d1.halted = c1.halted
  PROVE  Twin(S, D, c1, d1)
BY DEF Twin

LEMMA TwinLog ==
  ASSUME NEW S, NEW D, NEW c, NEW d, Twin(S, D, c, d), NEW y \in Cycle
  PROVE  Twin(S, D, Log(c, y), Log(d, y))
BY LogKeeps DEF Twin, Kept

LEMMA StoreMemory ==
  ASSUME NEW c \in Machine, NEW a, NEW v, NEW y
  PROVE  Store(c, a, v, y).mem = [b \in DOMAIN c.mem \cup {a} |-> IF b = a THEN v ELSE c.mem[b]]
BY DEF Store, Log, Machine

LEMMA TwinStore ==
  ASSUME NEW S, NEW D, NEW c, NEW d, Twin(S, D, c, d), NEW a \in Word, NEW v \in Byte, NEW y \in Cycle
  PROVE  Twin(S \cup {a}, D \cup {a}, Store(c, a, v, y), Store(d, a, v, y))
<1> DEFINE c1 == Store(c, a, v, y)
           d1 == Store(d, a, v, y)
<1>1. c \in Machine /\ d \in Machine
  BY DEF Twin
<1>2. /\ Kept(c, c1) /\ c1.reg = c.reg /\ c1.flag = c.flag /\ c1.sp = c.sp
      /\ Kept(d, d1) /\ d1.reg = d.reg /\ d1.flag = d.flag /\ d1.sp = d.sp
  BY <1>1, StoreKeeps
<1>3. /\ c1.mem = [b \in DOMAIN c.mem \cup {a} |-> IF b = a THEN v ELSE c.mem[b]]
      /\ d1.mem = [b \in DOMAIN d.mem \cup {a} |-> IF b = a THEN v ELSE d.mem[b]]
  BY <1>1, StoreMemory
<1> HIDE DEF c1, d1
<1>4. DOMAIN c1.mem \subseteq D \cup {a} /\ Agree(S \cup {a}, c1.mem, d1.mem)
  BY <1>3 DEF Twin, Agree
<1>5. QED
  BY <1>2, <1>4 DEF Twin, Kept, c1, d1

LEMMA TwinSetPair ==
  ASSUME NEW S, NEW D, NEW c, NEW d, Twin(S, D, c, d), NEW p \in 0 .. 3, NEW w \in Word
  PROVE  Twin(S, D, SetPair(c, p, w), SetPair(d, p, w))
<1> DEFINE c1 == SetPair(c, p, w)
           d1 == SetPair(d, p, w)
<1>1. c \in Machine /\ d \in Machine /\ d.reg = c.reg /\ d.sp = c.sp /\ d.flag = c.flag
      /\ d.pc = c.pc /\ d.halted = c.halted
  BY DEF Twin
<1>2. Kept(c, c1) /\ c1.flag = c.flag /\ c1.mem = c.mem /\ Kept(d, d1) /\ d1.flag = d.flag
      /\ d1.mem = d.mem
  BY <1>1, SetPairKeeps
<1>3. d1.reg = c1.reg /\ d1.sp = c1.sp
  BY <1>1 DEF SetPair, PairSP, Machine
<1> HIDE DEF c1, d1
<1>4. /\ c1 \in Machine /\ d1 \in Machine /\ c1.mem = c.mem /\ d1.mem = d.mem /\ d1.flag = c1.flag
      /\ d1.pc = c1.pc /\ d1.sp = c1.sp /\ d1.halted = c1.halted /\ d1.reg = c1.reg
  BY <1>1, <1>2, <1>3 DEF Kept
<1>5. Twin(S, D, c1, d1)
  BY <1>4, TwinSame
<1>6. QED
  BY <1>5 DEF c1, d1

LEMMA TwinSetA ==
  ASSUME NEW S, NEW D, NEW c, NEW d, Twin(S, D, c, d), NEW v \in Byte
  PROVE  Twin(S, D, SetA(c, v), SetA(d, v))
<1> DEFINE c1 == SetA(c, v)
           d1 == SetA(d, v)
<1>1. c \in Machine /\ d \in Machine /\ d.reg = c.reg /\ d.sp = c.sp /\ d.flag = c.flag
      /\ d.pc = c.pc /\ d.halted = c.halted
  BY DEF Twin
<1>2. /\ Kept(c, c1) /\ c1.flag = c.flag /\ c1.mem = c.mem /\ c1.sp = c.sp
      /\ Kept(d, d1) /\ d1.flag = d.flag /\ d1.mem = d.mem /\ d1.sp = d.sp
  BY <1>1, SetAKeeps
<1>3. d1.reg = c1.reg
  BY <1>1 DEF SetA, Machine
<1> HIDE DEF c1, d1
<1>4. /\ c1 \in Machine /\ d1 \in Machine /\ c1.mem = c.mem /\ d1.mem = d.mem /\ d1.flag = c1.flag
      /\ d1.pc = c1.pc /\ d1.sp = c1.sp /\ d1.halted = c1.halted /\ d1.reg = c1.reg
  BY <1>1, <1>2, <1>3 DEF Kept
<1>5. Twin(S, D, c1, d1)
  BY <1>4, TwinSame
<1>6. QED
  BY <1>5 DEF c1, d1

LEMMA TwinFlags ==
  ASSUME NEW S, NEW D, NEW c, NEW d, Twin(S, D, c, d), NEW f \in Flags
  PROVE  Twin(S, D, [c EXCEPT !.flag = f], [d EXCEPT !.flag = f])
<1> DEFINE c1 == [c EXCEPT !.flag = f]
           d1 == [d EXCEPT !.flag = f]
<1>1. c \in Machine /\ d \in Machine /\ d.reg = c.reg /\ d.sp = c.sp /\ d.pc = c.pc
      /\ d.halted = c.halted
  BY DEF Twin
<1>2. /\ Kept(c, c1) /\ c1.flag = f /\ c1.mem = c.mem /\ c1.sp = c.sp /\ c1.reg = c.reg
      /\ Kept(d, d1) /\ d1.flag = f /\ d1.mem = d.mem /\ d1.sp = d.sp /\ d1.reg = d.reg
  BY <1>1, SetFlagsKeeps
<1> HIDE DEF c1, d1
<1>4. QED
  BY <1>1, <1>2, TwinSame DEF Kept, c1, d1

LEMMA TwinPC ==
  ASSUME NEW S, NEW D, NEW c, NEW d, Twin(S, D, c, d), NEW w \in Word
  PROVE  Twin(S, D, [c EXCEPT !.pc = w], [d EXCEPT !.pc = w])
<1> DEFINE c1 == [c EXCEPT !.pc = w]
           d1 == [d EXCEPT !.pc = w]
<1>1. c \in Machine /\ d \in Machine /\ d.reg = c.reg /\ d.sp = c.sp /\ d.flag = c.flag
      /\ d.halted = c.halted
  BY DEF Twin
<1>2. /\ c1 \in Machine /\ c1.flag = c.flag /\ c1.mem = c.mem /\ c1.sp = c.sp /\ c1.reg = c.reg
      /\ d1 \in Machine /\ d1.flag = d.flag /\ d1.mem = d.mem /\ d1.sp = d.sp /\ d1.reg = d.reg
      /\ c1.pc = w /\ d1.pc = w /\ c1.halted = c.halted /\ d1.halted = d.halted
  BY <1>1 DEF Machine
<1> HIDE DEF c1, d1
<1>4. QED
  BY <1>1, <1>2, TwinSame DEF c1, d1

LEMMA TwinSP ==
  ASSUME NEW S, NEW D, NEW c, NEW d, Twin(S, D, c, d), NEW w \in Word
  PROVE  Twin(S, D, [c EXCEPT !.sp = w], [d EXCEPT !.sp = w])
<1>1. \A e : SetPair(e, 3, w) = [e EXCEPT !.sp = w]
  BY DEF SetPair, PairSP
<1>2. 3 \in 0 .. 3
  OBVIOUS
<1>3. Twin(S, D, SetPair(c, 3, w), SetPair(d, 3, w))
  BY <1>2, TwinSetPair
<1>4. QED
  BY <1>1, <1>3

LEMMA TwinTouch ==
  ASSUME NEW S, NEW D, NEW c, NEW d, Twin(S, D, c, d), NEW r
  PROVE  Twin(S, D, Touch(c, r), Touch(d, r))
BY TwinLog DEF Touch, Cycle

LEMMA TwinGet ==
  ASSUME NEW S, NEW D, NEW c, NEW d, Twin(S, D, c, d), NEW r \in 0 .. 7, r = RegM => HL(c) \in S
  PROVE  Get(d, r) = Get(c, r)
BY TwinPeek, TwinValues DEF Get

LEMMA TwinSet ==
  ASSUME NEW S, NEW D, NEW c, NEW d, Twin(S, D, c, d), NEW r \in 0 .. 7, NEW v \in Byte
  PROVE  LET W == Only(r = RegM, {HL(c)}) IN Twin(S \cup W, D \cup W, Set(c, r, v), Set(d, r, v))
<1>1. c \in Machine /\ d \in Machine /\ HL(d) = HL(c) /\ HL(c) \in Word /\ "MW" \in Cycle
  BY TwinValues, HLType DEF Cycle
<1>2. CASE r = RegM
  BY <1>1, <1>2, TwinStore DEF Set, Only
<1>3. CASE r # RegM
  <2> DEFINE c1 == [c EXCEPT !.reg[r] = v]
             d1 == [d EXCEPT !.reg[r] = v]
  <2>1. r \in Register
    BY <1>3 DEF Register
  <2>2. /\ c1 \in Machine /\ c1.flag = c.flag /\ c1.mem = c.mem /\ c1.sp = c.sp
        /\ c1.pc = c.pc /\ c1.halted = c.halted /\ c1.reg = [c.reg EXCEPT ![r] = v]
        /\ d1 \in Machine /\ d1.flag = d.flag /\ d1.mem = d.mem /\ d1.sp = d.sp
        /\ d1.pc = d.pc /\ d1.halted = d.halted /\ d1.reg = [d.reg EXCEPT ![r] = v]
    BY <1>1, <2>1 DEF Machine
  <2>3. d.reg = c.reg /\ d.sp = c.sp /\ d.pc = c.pc /\ d.halted = c.halted /\ d.flag = c.flag
    BY DEF Twin
  <2> HIDE DEF c1, d1
  <2>4. Twin(S, D, c1, d1)
    BY <2>2, <2>3, TwinSame
  <2>5. QED
    BY <1>3, <2>4 DEF Set, Only, c1, d1
<1>4. QED
  BY <1>2, <1>3

\* pushWord, one store after the other.
LEMMA PushWordIs ==
  ASSUME NEW c \in Machine, NEW w \in Word
  PROVE  LET above == Previous16(c.sp)
             below == Previous16(above)
             c2 == Store([c EXCEPT !.sp = above], above, High(w), "SW")
         IN  /\ PushWord(c, w) = Store([c2 EXCEPT !.sp = below], below, Low(w), "SW")
             /\ above \in Word /\ below \in Word /\ above # below
             /\ High(w) \in Byte /\ Low(w) \in Byte
<1> DEFINE above == Previous16(c.sp)
           below == Previous16(above)
           c1 == [c EXCEPT !.sp = above]
           c2 == Store(c1, above, High(w), "SW")
<1>1. /\ above \in Word /\ below \in Word /\ above # below
      /\ High(w) \in Byte /\ Low(w) \in Byte /\ "SW" \in Cycle
  BY Counting, Parts DEF Machine, Cycle
<1>2. PushWord(c, w) = Store([c2 EXCEPT !.sp = Previous16(@)], Previous16(c2.sp), Low(w), "SW")
  BY DEF PushWord
<1> HIDE DEF above, below
<1>3. c1 \in Machine /\ c1.sp = above
  BY <1>1 DEF Machine
<1> HIDE DEF c1
<1>4. c2 \in Machine /\ c2.sp = above
  BY <1>1, <1>3, StoreKeeps DEF Kept
<1> HIDE DEF c2
<1>5. [c2 EXCEPT !.sp = Previous16(@)] = [c2 EXCEPT !.sp = below] /\ Previous16(c2.sp) = below
  BY <1>4 DEF below
<1>6. QED
  BY <1>1, <1>2, <1>5 DEF below, above, c2, c1

LEMMA TwinPushWord ==
  ASSUME NEW S, NEW D, NEW c, NEW d, Twin(S, D, c, d), NEW w \in Word
  PROVE  Twin(S \cup PushCells(c), D \cup PushCells(c), PushWord(c, w), PushWord(d, w))
<1> DEFINE above == Previous16(c.sp)
           below == Previous16(above)
           high == High(w)
           low == Low(w)
           C1 == [c EXCEPT !.sp = above]
           D1 == [d EXCEPT !.sp = above]
           C2 == Store(C1, above, high, "SW")
           D2 == Store(D1, above, high, "SW")
           C3 == [C2 EXCEPT !.sp = below]
           D3 == [D2 EXCEPT !.sp = below]
           C4 == Store(C3, below, low, "SW")
           D4 == Store(D3, below, low, "SW")
<1>1. c \in Machine /\ d \in Machine /\ d.sp = c.sp /\ "SW" \in Cycle
  BY DEF Twin, Cycle
<1>2. PushWord(c, w) = C4 /\ PushWord(d, w) = D4 /\ above \in Word /\ below \in Word
      /\ high \in Byte /\ low \in Byte
  BY <1>1, PushWordIs
<1> HIDE DEF above, below, high, low
<1>3. Twin(S, D, C1, D1)
  BY <1>2, TwinSP
<1> HIDE DEF C1, D1
<1>4. Twin(S \cup {above}, D \cup {above}, C2, D2)
  BY <1>1, <1>2, <1>3, TwinStore
<1> HIDE DEF C2, D2
<1>5. Twin(S \cup {above}, D \cup {above}, C3, D3)
  BY <1>2, <1>4, TwinSP
<1> HIDE DEF C3, D3
<1>6. Twin((S \cup {above}) \cup {below}, (D \cup {above}) \cup {below}, C4, D4)
  BY <1>1, <1>2, <1>5, TwinStore
<1> HIDE DEF C4, D4
<1>7. PushCells(c) = {above, below}
  BY DEF PushCells, above, below
<1>8. (S \cup {above}) \cup {below} = S \cup {above, below} /\ (D \cup {above}) \cup {below} = D \cup {above, below}
  OBVIOUS
<1>9. QED
  BY <1>2, <1>6, <1>7, <1>8 

LEMMA TwinPushed ==
  ASSUME NEW S, NEW D, NEW c, NEW d, Twin(S, D, c, d), NEW p \in 0 .. 3
  PROVE  Twin(S \cup PushCells(c), D \cup PushCells(c), Pushed(c, p), Pushed(d, p))
<1> DEFINE w == IF p = 3 THEN Compose(c.reg[RegA], FlagsByte(c.flag)) ELSE Pair(c, p)
<1>1. c \in Machine /\ d \in Machine /\ d.reg = c.reg /\ d.flag = c.flag /\ Pair(d, p) = Pair(c, p)
  BY TwinValues
<1>2. c.reg[RegA] \in Byte /\ FlagsByte(c.flag) \in Byte
  BY <1>1, FlagsByteIs, HLRegisters DEF Machine
<1>3. w \in Word
  BY <1>1, <1>2, Composed, PairType
<1>4. Pushed(c, p) = PushWord(c, w) /\ Pushed(d, p) = PushWord(d, w)
  BY <1>1 DEF Pushed
<1> HIDE DEF w
<1>5. QED
  BY <1>3, <1>4, TwinPushWord

LEMMA TwinCall ==
  ASSUME NEW S, NEW D, NEW c, NEW d, Twin(S, D, c, d), NEW target \in Word
  PROVE  Twin(S \cup PushCells(c), D \cup PushCells(c), CallTo(c, target), CallTo(d, target))
<1> DEFINE c1 == PushWord(c, c.pc)
           d1 == PushWord(d, c.pc)
<1>1. c.pc \in Word /\ d.pc = c.pc
  BY DEF Twin, Machine
<1>2. Twin(S \cup PushCells(c), D \cup PushCells(c), c1, d1)
  BY <1>1, TwinPushWord
<1>3. CallTo(c, target) = [c1 EXCEPT !.pc = target] /\ CallTo(d, target) = [d1 EXCEPT !.pc = target]
  BY <1>1 DEF CallTo
<1> HIDE DEF c1, d1
<1>4. QED
  BY <1>2, <1>3, TwinPC

LEMMA TwinPopped ==
  ASSUME NEW S, NEW D, NEW c, NEW d, Twin(S, D, c, d), StackTop(c) \subseteq S
  PROVE  Twin(S, D, Popped(c), Popped(d)) /\ PopWord(d) = PopWord(c) /\ PopWord(c) \in Word
<1> DEFINE up == Next16(Next16(c.sp))
           c1 == [c EXCEPT !.sp = up]
           d1 == [d EXCEPT !.sp = up]
           c2 == Log(c1, "SR")
           d2 == Log(d1, "SR")
<1>1. c \in Machine /\ d.sp = c.sp /\ up \in Word /\ "SR" \in Cycle
  BY Counting DEF Twin, Machine, Cycle
<1>2. Popped(c) = Log(c2, "SR") /\ Popped(d) = Log(d2, "SR")
  BY <1>1 DEF Popped
<1> HIDE DEF up
<1>3. Twin(S, D, c1, d1)
  BY <1>1, TwinSP
<1> HIDE DEF c1, d1
<1>4. Twin(S, D, c2, d2)
  BY <1>1, <1>3, TwinLog
<1> HIDE DEF c2, d2
<1>5. Twin(S, D, Popped(c), Popped(d))
  BY <1>1, <1>2, <1>4, TwinLog
<1>6. Peek(d, c.sp) = Peek(c, c.sp) /\ Peek(d, Next16(c.sp)) = Peek(c, Next16(c.sp))
  BY TwinPeek DEF StackTop
<1>7. PopWord(d) = PopWord(c)
  BY <1>1, <1>6 DEF PopWord
<1>8. QED
  BY <1>1, <1>5, <1>7, PoppedKeeps

LEMMA TwinPoppedTo ==
  ASSUME NEW S, NEW D, NEW c, NEW d, Twin(S, D, c, d), StackTop(c) \subseteq S, NEW p \in 0 .. 3
  PROVE  Twin(S, D, PoppedTo(c, p), PoppedTo(d, p))
<1> DEFINE w == PopWord(c)
           c1 == Popped(c)
           d1 == Popped(d)
           c2 == SetA(c1, High(w))
           d2 == SetA(d1, High(w))
           f == FlagsOf(Low(w))
<1>1. Twin(S, D, c1, d1) /\ PopWord(d) = w /\ w \in Word
  BY TwinPopped
<1>2. PoppedTo(c, p) = (IF p = 3 THEN [c2 EXCEPT !.flag = f] ELSE SetPair(c1, p, w))
      /\ PoppedTo(d, p) = (IF p = 3 THEN [d2 EXCEPT !.flag = f] ELSE SetPair(d1, p, w))
  BY <1>1 DEF PoppedTo
<1>3. High(w) \in Byte /\ f \in Flags
  BY <1>1, Parts, FlagsOfType
<1> HIDE DEF w, c1, d1, f
<1>4. Twin(S, D, c2, d2)
  BY <1>1, <1>3, TwinSetA
<1> HIDE DEF c2, d2
<1>5. Twin(S, D, [c2 EXCEPT !.flag = f], [d2 EXCEPT !.flag = f])
  BY <1>3, <1>4, TwinFlags
<1>6. Twin(S, D, SetPair(c1, p, w), SetPair(d1, p, w))
  BY <1>1, TwinSetPair
<1>7. QED
  BY <1>2, <1>5, <1>6

LEMMA TwinReturn ==
  ASSUME NEW S, NEW D, NEW c, NEW d, Twin(S, D, c, d), StackTop(c) \subseteq S
  PROVE  Twin(S, D, Return(c), Return(d))
<1> DEFINE w == PopWord(c)
           c1 == Popped(c)
           d1 == Popped(d)
<1>1. Twin(S, D, c1, d1) /\ PopWord(d) = w /\ w \in Word
  BY TwinPopped
<1>2. Return(c) = [c1 EXCEPT !.pc = w] /\ Return(d) = [d1 EXCEPT !.pc = w]
  BY <1>1 DEF Return
<1> HIDE DEF w, c1, d1
<1>3. QED
  BY <1>1, <1>2, TwinPC

LEMMA TwinArithmetic ==
  ASSUME NEW S, NEW D, NEW c, NEW d, Twin(S, D, c, d), NEW group \in Group, NEW v \in Byte
  PROVE  Twin(S, D, Arithmetic(c, group, v), Arithmetic(d, group, v))
<1> DEFINE r == ALU(group, c.reg[RegA], v, c.flag.carry)
           f == r.flags
           out == r.out
           c1 == [c EXCEPT !.flag = f]
           d1 == [d EXCEPT !.flag = f]
<1>1. c \in Machine /\ d.reg = c.reg /\ d.flag = c.flag
  BY DEF Twin
<1>2. c.reg[RegA] \in Byte /\ c.flag.carry \in BOOLEAN
  BY <1>1, HLRegisters DEF Machine, Flags
<1>3. out \in Byte /\ f \in Flags
  BY <1>2, ALUType
<1>4. Arithmetic(c, group, v) = (IF group = "CMP" THEN c1 ELSE SetA(c1, out))
      /\ Arithmetic(d, group, v) = (IF group = "CMP" THEN d1 ELSE SetA(d1, out))
  BY <1>1, Zenon DEF Arithmetic
<1> HIDE DEF r, f, out
<1>5. Twin(S, D, c1, d1)
  BY <1>3, TwinFlags
<1> HIDE DEF c1, d1
<1>6. Twin(S, D, SetA(c1, out), SetA(d1, out))
  BY <1>3, <1>5, TwinSetA
<1>7. QED
  BY <1>4, <1>5, <1>6

LEMMA TwinStep1 ==
  ASSUME NEW S, NEW D, NEW c, NEW d, Twin(S, D, c, d), NEW r \in 0 .. 7, NEW group \in Group,
         r = RegM => HL(c) \in S
  PROVE  LET W == Only(r = RegM, {HL(c)})
         IN  Twin(S \cup W, D \cup W, Step1(c, r, group), Step1(d, r, group))
<1> DEFINE step == ALU(group, Get(c, r), 1, FALSE)
           out == step.out
           f == [step.flags EXCEPT !.carry = c.flag.carry]
           c1 == Touch(c, r)
           d1 == Touch(d, r)
           c2 == [c1 EXCEPT !.flag = f]
           d2 == [d1 EXCEPT !.flag = f]
<1>1. c \in Machine /\ d.flag = c.flag /\ Get(d, r) = Get(c, r) /\ Get(c, r) \in Byte /\ 1 \in Byte
  BY TwinGet, TwinValues, GetType, ByteIs
<1>2. out \in Byte /\ step.flags \in Flags
  BY <1>1, ALUType
<1>3. Step1(c, r, group) = Set(c2, r, out) /\ Step1(d, r, group) = Set(d2, r, out)
  BY <1>1 DEF Step1
<1> HIDE DEF step, out
<1>4. f \in Flags
  BY <1>1, <1>2 DEF Flags, Machine
<1> HIDE DEF f
<1>5. Twin(S, D, c1, d1)
  BY TwinTouch
<1>6. c1.reg = c.reg
  BY <1>1, TouchKeeps
<1>7. c1 \in Machine
  BY <1>5 DEF Twin
<1> HIDE DEF c1, d1
<1>8. Twin(S, D, c2, d2)
  BY <1>4, <1>5, TwinFlags
<1>9. HL(c2) = HL(c)
  BY <1>6, <1>7 DEF HL, Machine
<1> HIDE DEF c2, d2
<1> DEFINE W == Only(r = RegM, {HL(c2)})
<1>10. Twin(S \cup W, D \cup W, Set(c2, r, out), Set(d2, r, out))
  BY <1>2, <1>8, TwinSet
<1>11. QED
  BY <1>3, <1>9, <1>10

LEMMA TwinAddToHL ==
  ASSUME NEW S, NEW D, NEW c, NEW d, Twin(S, D, c, d), NEW w \in Word
  PROVE  Twin(S, D, AddToHL(c, w), AddToHL(d, w))
<1> DEFINE sum == Add16(HL(c), w)
           out == sum.out
           carry == sum.carry
           c1 == SetPair(c, 2, out)
           d1 == SetPair(d, 2, out)
           f == [c1.flag EXCEPT !.carry = carry]
<1>1. c \in Machine /\ HL(d) = HL(c) /\ HL(c) \in Word
  BY TwinValues, HLType
<1>2. out \in Word /\ carry \in BOOLEAN
  BY <1>1, WordIs DEF Add16
<1>3. AddToHL(c, w) = [c1 EXCEPT !.flag.carry = carry]
      /\ AddToHL(d, w) = [d1 EXCEPT !.flag.carry = carry]
  BY <1>1 DEF AddToHL
<1> HIDE DEF sum, out, carry
<1>4. Twin(S, D, c1, d1)
  BY <1>2, TwinSetPair
<1>5. d1.flag = c1.flag /\ c1.flag \in Flags
  BY <1>4 DEF Twin, Machine
<1> HIDE DEF c1, d1
<1>6. f \in Flags
  BY <1>2, <1>5 DEF Flags
<1>7. AddToHL(c, w) = [c1 EXCEPT !.flag = f] /\ AddToHL(d, w) = [d1 EXCEPT !.flag = f]
  BY <1>3, <1>5
<1> HIDE DEF f
<1>8. QED
  BY <1>4, <1>6, <1>7, TwinFlags

LEMMA TwinAdjustA ==
  ASSUME NEW S, NEW D, NEW c, NEW d, Twin(S, D, c, d)
  PROVE  Twin(S, D, AdjustA(c), AdjustA(d))
<1> DEFINE c1 == AdjustA(c)
           d1 == AdjustA(d)
<1>1. c \in Machine /\ d \in Machine /\ d.reg = c.reg /\ d.flag = c.flag /\ d.pc = c.pc
      /\ d.sp = c.sp /\ d.halted = c.halted
  BY DEF Twin
<1>2. Kept(c, c1) /\ Kept(d, d1)
  BY <1>1, AdjustAKeeps
<1>3. /\ c1.mem = c.mem /\ d1.mem = d.mem /\ d1.reg = c1.reg /\ d1.flag = c1.flag
      /\ d1.sp = c1.sp
  <2> DEFINE r == DecimalAdjust(c.reg[RegA], c.flag)
             out == r.out
             f == r.flags
  <2>1. c1 = [SetA(c, out) EXCEPT !.flag = f] /\ d1 = [SetA(d, out) EXCEPT !.flag = f]
    BY <1>1 DEF AdjustA
  <2> HIDE DEF r, out, f, c1, d1
  <2>2. QED
    BY <1>1, <2>1 DEF SetA, Machine
<1> HIDE DEF c1, d1
<1>4. c1 \in Machine /\ d1 \in Machine /\ d1.pc = c1.pc /\ d1.halted = c1.halted
  BY <1>1, <1>2 DEF Kept
<1>5. Twin(S, D, c1, d1)
  BY <1>3, <1>4, TwinSame
<1>6. QED
  BY <1>5 DEF c1, d1

\* Any change of the accumulator and the carry together, as the rotations make it.
LEMMA TwinRotated ==
  ASSUME NEW S, NEW D, NEW c, NEW d, Twin(S, D, c, d), NEW v, NEW b,
         LET c1 == [SetA(c, v) EXCEPT !.flag.carry = b]
             d1 == [SetA(d, v) EXCEPT !.flag.carry = b]
         IN  Kept(c, c1) /\ Kept(d, d1)
  PROVE  Twin(S, D, [SetA(c, v) EXCEPT !.flag.carry = b], [SetA(d, v) EXCEPT !.flag.carry = b])
<1> DEFINE c1 == [SetA(c, v) EXCEPT !.flag.carry = b]
           d1 == [SetA(d, v) EXCEPT !.flag.carry = b]
<1>1. c \in Machine /\ d \in Machine /\ d.reg = c.reg /\ d.flag = c.flag /\ d.pc = c.pc
      /\ d.sp = c.sp /\ d.halted = c.halted
  BY DEF Twin
<1>2. /\ c1.mem = c.mem /\ d1.mem = d.mem /\ d1.reg = c1.reg /\ d1.flag = c1.flag
      /\ d1.sp = c1.sp
  BY <1>1 DEF SetA, Machine
<1>3. Kept(c, c1) /\ Kept(d, d1)
  OBVIOUS
<1> HIDE DEF c1, d1
<1>4. c1 \in Machine /\ d1 \in Machine /\ d1.pc = c1.pc /\ d1.halted = c1.halted
  BY <1>1, <1>3 DEF Kept
<1>5. Twin(S, D, c1, d1)
  BY <1>2, <1>4, TwinSame
<1>6. QED
  BY <1>5 DEF c1, d1

LEMMA TwinRotateLeft ==
  ASSUME NEW S, NEW D, NEW c, NEW d, Twin(S, D, c, d), NEW entering \in BOOLEAN
  PROVE  Twin(S, D, RotateLeft(c, entering), RotateLeft(d, entering))
<1> DEFINE v == ((2 * c.reg[RegA]) % 256) + AsBit(entering)
           b == HasBit(c.reg[RegA], 128)
<1>1. c \in Machine /\ d \in Machine /\ d.reg = c.reg
  BY DEF Twin
<1>2. Kept(c, RotateLeft(c, entering)) /\ Kept(d, RotateLeft(d, entering))
  BY <1>1, RotateLeftKeeps
<1>3. RotateLeft(c, entering) = [SetA(c, v) EXCEPT !.flag.carry = b]
      /\ RotateLeft(d, entering) = [SetA(d, v) EXCEPT !.flag.carry = b]
  BY <1>1 DEF RotateLeft
<1> HIDE DEF v, b
<1>4. QED
  BY <1>2, <1>3, TwinRotated

LEMMA TwinRotateRight ==
  ASSUME NEW S, NEW D, NEW c, NEW d, Twin(S, D, c, d), NEW entering \in BOOLEAN
  PROVE  Twin(S, D, RotateRight(c, entering), RotateRight(d, entering))
<1> DEFINE v == (c.reg[RegA] \div 2) + 128 * AsBit(entering)
           b == HasBit(c.reg[RegA], 1)
<1>1. c \in Machine /\ d \in Machine /\ d.reg = c.reg
  BY DEF Twin
<1>2. Kept(c, RotateRight(c, entering)) /\ Kept(d, RotateRight(d, entering))
  BY <1>1, RotateRightKeeps
<1>3. RotateRight(c, entering) = [SetA(c, v) EXCEPT !.flag.carry = b]
      /\ RotateRight(d, entering) = [SetA(d, v) EXCEPT !.flag.carry = b]
  BY <1>1 DEF RotateRight
<1> HIDE DEF v, b
<1>4. QED
  BY <1>2, <1>3, TwinRotated

LEMMA TwinCarry ==
  ASSUME NEW S, NEW D, NEW c, NEW d, Twin(S, D, c, d), NEW b \in BOOLEAN
  PROVE  Twin(S, D, [c EXCEPT !.flag.carry = b], [d EXCEPT !.flag.carry = b])
<1> DEFINE f == [c.flag EXCEPT !.carry = b]
<1>1. c.flag \in Flags /\ d.flag = c.flag
  BY DEF Twin, Machine
<1>2. f \in Flags
  BY <1>1 DEF Flags
<1>3. [c EXCEPT !.flag.carry = b] = [c EXCEPT !.flag = f]
      /\ [d EXCEPT !.flag.carry = b] = [d EXCEPT !.flag = f]
  BY <1>1
<1> HIDE DEF f
<1>4. QED
  BY <1>2, <1>3, TwinFlags

\* Two stores at consecutive addresses.
LEMMA TwinStoreTwo ==
  ASSUME NEW S, NEW D, NEW c, NEW d, Twin(S, D, c, d), NEW a \in Word, NEW low \in Byte,
         NEW high \in Byte, NEW y \in Cycle
  PROVE  LET W == {a, Next16(a)}
         IN  Twin(S \cup W, D \cup W, Store(Store(c, a, low, y), Next16(a), high, y),
                  Store(Store(d, a, low, y), Next16(a), high, y))
<1> DEFINE next == Next16(a)
           c1 == Store(c, a, low, y)
           d1 == Store(d, a, low, y)
           c2 == Store(c1, next, high, y)
           d2 == Store(d1, next, high, y)
<1>1. next \in Word
  BY Counting
<1> HIDE DEF next
<1>2. Twin(S \cup {a}, D \cup {a}, c1, d1)
  BY TwinStore
<1> HIDE DEF c1, d1
<1>3. Twin((S \cup {a}) \cup {next}, (D \cup {a}) \cup {next}, c2, d2)
  BY <1>1, <1>2, TwinStore
<1> HIDE DEF c2, d2
<1>4. (S \cup {a}) \cup {next} = S \cup {a, next} /\ (D \cup {a}) \cup {next} = D \cup {a, next}
  OBVIOUS
<1>5. Twin(S \cup {a, next}, D \cup {a, next}, c2, d2)
  BY <1>3, <1>4
<1>6. QED
  BY <1>5 DEF c2, d2, c1, d1, next

LEMMA TwinStoreHL ==
  ASSUME NEW S, NEW D, NEW c, NEW d, Twin(S, D, c, d), NEW a \in Word
  PROVE  LET W == {a, Next16(a)} IN Twin(S \cup W, D \cup W, StoreHL(c, a), StoreHL(d, a))
<1>1. c.reg[RegL] \in Byte /\ c.reg[RegH] \in Byte /\ d.reg = c.reg /\ "MW" \in Cycle
  BY HLRegisters DEF Twin, Cycle
<1> DEFINE low == c.reg[RegL]
           high == c.reg[RegH]
<1>2. StoreHL(c, a) = Store(Store(c, a, low, "MW"), Next16(a), high, "MW")
      /\ StoreHL(d, a) = Store(Store(d, a, low, "MW"), Next16(a), high, "MW")
  BY <1>1 DEF StoreHL
<1> HIDE DEF low, high
<1>3. low \in Byte /\ high \in Byte
  BY <1>1 DEF low, high
<1>4. QED
  BY <1>1, <1>2, <1>3, TwinStoreTwo

LEMMA TwinLoadHL ==
  ASSUME NEW S, NEW D, NEW c, NEW d, Twin(S, D, c, d), NEW a, a \in S, Next16(a) \in S
  PROVE  Twin(S, D, LoadHL(c, a), LoadHL(d, a))
<1> DEFINE c1 == Log(c, "MR")
           d1 == Log(d, "MR")
           c2 == Log(c1, "MR")
           d2 == Log(d1, "MR")
           w == Compose(Peek(c, Next16(a)), Peek(c, a))
<1>1. c \in Machine /\ "MR" \in Cycle
  BY DEF Twin, Cycle
<1>2. Peek(d, a) = Peek(c, a) /\ Peek(d, Next16(a)) = Peek(c, Next16(a))
  BY TwinPeek
<1>3. LoadHL(c, a) = SetPair(c2, 2, w) /\ LoadHL(d, a) = SetPair(d2, 2, w)
  BY <1>2 DEF LoadHL
<1>4. w \in Word
  BY <1>1, PeekType, Composed
<1> HIDE DEF w
<1>5. Twin(S, D, c1, d1)
  BY <1>1, TwinLog
<1> HIDE DEF c1, d1
<1>6. Twin(S, D, c2, d2)
  BY <1>1, <1>5, TwinLog
<1> HIDE DEF c2, d2
<1>7. QED
  BY <1>3, <1>4, <1>6, TwinSetPair

LEMMA TwinExchangeStack ==
  ASSUME NEW S, NEW D, NEW c, NEW d, Twin(S, D, c, d), StackTop(c) \subseteq S
  PROVE  Twin(S \cup StackTop(c), D \cup StackTop(c), ExchangeStack(c), ExchangeStack(d))
<1> DEFINE low == c.reg[RegL]
           high == c.reg[RegH]
           c1 == Log(c, "SR")
           d1 == Log(d, "SR")
           c2 == Log(c1, "SR")
           d2 == Log(d1, "SR")
           c3 == Store(Store(c2, c.sp, low, "SW"), Next16(c.sp), high, "SW")
           d3 == Store(Store(d2, c.sp, low, "SW"), Next16(c.sp), high, "SW")
           w == Compose(Peek(c, Next16(c.sp)), Peek(c, c.sp))
<1>1. c \in Machine /\ "SR" \in Cycle /\ "SW" \in Cycle /\ d.reg = c.reg /\ d.sp = c.sp /\ c.sp \in Word
  BY DEF Twin, Cycle, Machine
<1>2. Peek(d, c.sp) = Peek(c, c.sp) /\ Peek(d, Next16(c.sp)) = Peek(c, Next16(c.sp))
  BY TwinPeek DEF StackTop
<1>3. ExchangeStack(c) = SetPair(c3, 2, w) /\ ExchangeStack(d) = SetPair(d3, 2, w)
  BY <1>1, <1>2 DEF ExchangeStack
<1>4. w \in Word /\ low \in Byte /\ high \in Byte
  BY <1>1, PeekType, Composed, HLRegisters
<1> HIDE DEF w, low, high
<1>5. Twin(S, D, c1, d1)
  BY <1>1, TwinLog
<1> HIDE DEF c1, d1
<1>6. Twin(S, D, c2, d2)
  BY <1>1, <1>5, TwinLog
<1> HIDE DEF c2, d2
<1>7. Twin(S \cup StackTop(c), D \cup StackTop(c), c3, d3)
  BY <1>1, <1>4, <1>6, TwinStoreTwo DEF StackTop
<1> HIDE DEF c3, d3
<1>8. QED
  BY <1>3, <1>4, <1>7, TwinSetPair

LEMMA TwinFetched ==
  ASSUME NEW S, NEW D, NEW c, NEW d, Twin(S, D, c, d), Peek(d, c.pc) = Peek(c, c.pc)
  PROVE  Twin(S, D, Fetch(c), Fetch(d))
<1>1. c \in Machine /\ d \in Machine /\ d.reg = c.reg /\ d.flag = c.flag /\ d.pc = c.pc
      /\ d.sp = c.sp /\ d.halted = c.halted
  BY DEF Twin
<1> DEFINE c1 == Fetch(c)
           d1 == Fetch(d)
<1>2. /\ c1 \in Machine /\ c1.pc = (c.pc + Length(Peek(c, c.pc))) % 65536 /\ c1.reg = c.reg
      /\ c1.flag = c.flag /\ c1.sp = c.sp /\ c1.mem = c.mem /\ c1.halted = c.halted
  BY <1>1, FetchIs
<1>3. /\ d1 \in Machine /\ d1.pc = (d.pc + Length(Peek(d, d.pc))) % 65536 /\ d1.reg = d.reg
      /\ d1.flag = d.flag /\ d1.sp = d.sp /\ d1.mem = d.mem /\ d1.halted = d.halted
  BY <1>1, FetchIs
<1> HIDE DEF c1, d1
<1>4. Twin(S, D, c1, d1)
  BY <1>1, <1>2, <1>3, TwinSame
<1>5. QED
  BY <1>4 DEF c1, d1

\* The cells an instruction writes, by family.
LEMMA StoresAre ==
  ASSUME NEW c, NEW k \in Byte, NEW word
  PROVE  LET W == Stores(c, k, word)
         IN  /\ k \in MOV \cup MVI \cup INR \cup DCR => W = Only(Y(k) = RegM, {HL(c)})
             /\ k \in STAX => W = {Pair(c, PairOf(k))}
             /\ k = STA => W = {word}
             /\ k = SHLD => W = {word, Next16(word)}
             /\ k \in PUSH \cup RST \cup {CALL} \/ (k \in Ccc /\ Taken(c, k)) => W = PushCells(c)
             /\ k = XTHL => W = StackTop(c)
             /\ \/ k \in Unassigned \cup LXI \cup INX \cup DCX \cup DAD \cup ALUReg \cup ALUImm
                       \cup POP \cup LDAX \cup Jcc \cup Rcc
                \/ k \in {NOP, HLT, RLC, RRC, RAL, RAR, LHLD, DAA, CMA, LDA, STC, CMC, OUT, IN_,
                          PCHL, XCHG, DI, EI, SPHL, JMP, RET}
                \/ k \in Ccc /\ ~Taken(c, k)
                => W = {}
<1> DEFINE W == Stores(c, k, word)
           M0 == k \in MOV \cup MVI \cup INR \cup DCR
           G1 == k \in MOV \cup MVI \cup INR \cup DCR /\ Y(k) = RegM
           G2 == k \in STAX
           G3 == k \in {STA, SHLD}
           G4 == k = SHLD
           G5 == k \in PUSH \cup RST \cup {CALL} \/ (k \in Ccc /\ Taken(c, k))
           G6 == k = XTHL
           G7 == k = STA
           N0 == \/ k \in Unassigned \cup LXI \cup INX \cup DCX \cup DAD \cup ALUReg \cup ALUImm
                       \cup POP \cup LDAX \cup Jcc \cup Rcc
                 \/ k \in {NOP, HLT, RLC, RRC, RAL, RAR, LHLD, DAA, CMA, LDA, STC, CMC, OUT, IN_,
                           PCHL, XCHG, DI, EI, SPHL, JMP, RET}
                 \/ k \in Ccc /\ ~Taken(c, k)
<1>1. /\ M0 => ~G2 /\ ~G3 /\ ~G4 /\ ~G5 /\ ~G6
      /\ G2 => ~G1 /\ ~G3 /\ ~G4 /\ ~G5 /\ ~G6
      /\ G7 => ~G1 /\ ~G2 /\ G3 /\ ~G4 /\ ~G5 /\ ~G6
      /\ G4 => ~G1 /\ ~G2 /\ G3 /\ ~G5 /\ ~G6
      /\ G5 => ~G1 /\ ~G2 /\ ~G3 /\ ~G4 /\ ~G6
      /\ G6 => ~G1 /\ ~G2 /\ ~G3 /\ ~G4 /\ ~G5
      /\ M0 => (G1 <=> Y(k) = RegM)
  BY Octal, FamilyOf
     DEF Families, Even, Odd, STAX, SHLD, STA, CALL, XTHL, HLT
<1>2. N0 => ~G1 /\ ~G2 /\ ~G3 /\ ~G4 /\ ~G5 /\ ~G6
  BY Octal, FamilyOf
     DEF Families, Even, Odd, NOP, HLT, STAX, LDAX, RLC, RRC, RAL, RAR, SHLD, DAA, LHLD, CMA,
         STA, STC, LDA, CMC, JMP, RET, CALL, OUT, IN_, XTHL, PCHL, XCHG, DI, SPHL, EI
<1>3. W = Only(G1, {HL(c)}) \cup Only(G2, {Pair(c, PairOf(k))}) \cup Only(G3, {word})
          \cup Only(G4, {Next16(word)}) \cup Only(G5, PushCells(c)) \cup Only(G6, StackTop(c))
  BY DEF Stores
<1>6. M0 => W = Only(Y(k) = RegM, {HL(c)})
  BY <1>1, <1>3 DEF Only
<1>7. G2 => W = {Pair(c, PairOf(k))}
  BY <1>1, <1>3 DEF Only
<1>8. G7 => W = {word}
  BY <1>1, <1>3 DEF Only
<1>9. G4 => W = {word, Next16(word)}
  BY <1>1, <1>3 DEF Only
<1>10. G5 => W = PushCells(c)
  BY <1>1, <1>3 DEF Only
<1>11. G6 => W = StackTop(c)
  BY <1>1, <1>3 DEF Only
<1>12. N0 => W = {}
  BY <1>2, <1>3 DEF Only
<1> HIDE DEF W
<1>13. QED
  BY <1>6, <1>7, <1>8, <1>9, <1>10, <1>11, <1>12 DEF W

\* An instruction executed by two machines that agree on its operands and on what it
\* loads leaves machines that agree, on what it stored too.
LEMMA ExecuteTwin ==
  ASSUME NEW S, NEW D, NEW c, NEW d, Twin(S, D, c, d), NEW k \in Byte,
         NEW arg \in Byte \X Byte, NEW arg2 \in Byte \X Byte, NEW input \in Byte,
         Length(k) > 1 => arg2[1] = arg[1], Length(k) > 2 => arg2[2] = arg[2],
         Loads(c, k, Compose(arg[2], arg[1])) \subseteq S
  PROVE  LET W == Stores(c, k, Compose(arg[2], arg[1]))
         IN  Twin(S \cup W, D \cup W, Execute(c, k, arg, input), Execute(d, k, arg2, input))
<1> DEFINE word == Compose(arg[2], arg[1])
           word2 == Compose(arg2[2], arg2[1])
           p == PairOf(k)
           A == c.reg[RegA]
           b == arg[1]
           W == Stores(c, k, word)
           c1 == Execute(c, k, arg, input)
           d1 == Execute(d, k, arg2, input)
           Good == Twin(S \cup W, D \cup W, c1, d1)
<1>1. /\ c \in Machine /\ d \in Machine /\ d.reg = c.reg /\ d.flag = c.flag /\ d.pc = c.pc
      /\ d.sp = c.sp /\ HL(d) = HL(c) /\ Pair(d, p) = Pair(c, p) /\ Pair(d, 1) = Pair(c, 1)
      /\ Pair(d, 2) = Pair(c, 2)
      /\ Taken(d, k) <=> Taken(c, k)
  BY TwinValues
<1>2. /\ word \in Word /\ b \in Byte /\ p \in 0 .. 3 /\ Y(k) \in 0 .. 7 /\ Z(k) \in 0 .. 7
      /\ Pair(c, p) \in Word /\ A \in Byte /\ HL(c) \in Word
  BY <1>1, OperandType, HLType
<1>3. Arms(c, k, arg, input) /\ Arms(d, k, arg2, input)
  BY OneArm
<1>4. /\ Length(k) > 1 => arg2[1] = b
      /\ Length(k) > 2 => word2 = word
  <2>1. Length(k) > 2 => Length(k) > 1
    BY DEF Length
  <2>2. QED
    BY <2>1
<1>5. /\ k \in LXI \cup Jcc \cup Ccc \cup {SHLD, LHLD, STA, LDA, JMP, CALL} => word2 = word
      /\ k \in MVI \cup ALUImm => arg2[1] = b
  BY <1>4, LengthAre
<1>6. /\ k \in MOV \cup ALUReg /\ Z(k) = RegM => HL(c) \in S
      /\ k \in INR \cup DCR /\ Y(k) = RegM => HL(c) \in S
      /\ k \in LDAX => Pair(c, p) \in S
      /\ k \in {LDA, LHLD} => word \in S
      /\ k = LHLD => Next16(word) \in S
      /\ k \in POP \cup {RET, XTHL} \/ (k \in Rcc /\ Taken(c, k)) => StackTop(c) \subseteq S
  BY DEF Loads, Only
<1>7. /\ k \in MOV \cup MVI \cup INR \cup DCR => W = Only(Y(k) = RegM, {HL(c)})
      /\ k \in STAX => W = {Pair(c, p)}
      /\ k = STA => W = {word}
      /\ k = SHLD => W = {word, Next16(word)}
      /\ k \in PUSH \cup RST \cup {CALL} \/ (k \in Ccc /\ Taken(c, k)) => W = PushCells(c)
      /\ k = XTHL => W = StackTop(c)
      /\ \/ k \in Unassigned \cup LXI \cup INX \cup DCX \cup DAD \cup ALUReg \cup ALUImm
                \cup POP \cup LDAX \cup Jcc \cup Rcc
         \/ k \in {NOP, HLT, RLC, RRC, RAL, RAR, LHLD, DAA, CMA, LDA, STC, CMC, OUT, IN_,
                   PCHL, XCHG, DI, EI, SPHL, JMP, RET}
         \/ k \in Ccc /\ ~Taken(c, k)
         => W = {}
  BY StoresAre
<1> DEFINE Quiet == Twin(S, D, c1, d1) /\ W = {}
<1>8. Quiet => Good
  OBVIOUS
<1>9. /\ "ADD" \in Group /\ "SUB" \in Group /\ GroupOf(k) \in Group
      /\ "MW" \in Cycle /\ "MR" \in Cycle /\ "IOW" \in Cycle /\ "IOR" \in Cycle
  BY GroupType DEF Group, Cycle
<1> SUFFICES Good
  OBVIOUS
<1> HIDE DEF word, word2, p, A, b, W, c1, d1, Good, Quiet
<1>10. CASE k \in Unassigned
  <2>1. c1 = [c EXCEPT !.error = "unimplemented"] /\ d1 = [d EXCEPT !.error = "unimplemented"]
    BY <1>3, <1>10 DEF Arms, c1, d1
  <2>2. c1 \in Machine /\ d1 \in Machine /\ c1.mem = c.mem /\ d1.mem = d.mem /\ d1.reg = c1.reg
        /\ d1.flag = c1.flag /\ d1.pc = c1.pc /\ d1.sp = c1.sp /\ d1.halted = c1.halted
    BY <1>1, <2>1 DEF Machine, Twin
  <2>3. QED
    BY <1>7, <1>8, <1>10, <2>2, TwinSame DEF Quiet
<1>11. CASE k = HLT
  <2>1. c1 = [c EXCEPT !.halted = TRUE] /\ d1 = [d EXCEPT !.halted = TRUE]
    BY <1>3, <1>11 DEF Arms, c1, d1
  <2>2. c1 \in Machine /\ d1 \in Machine /\ c1.mem = c.mem /\ d1.mem = d.mem /\ d1.reg = c1.reg
        /\ d1.flag = c1.flag /\ d1.pc = c1.pc /\ d1.sp = c1.sp /\ d1.halted = c1.halted
    BY <1>1, <2>1 DEF Machine
  <2>3. QED
    BY <1>7, <1>8, <1>11, <2>2, TwinSame DEF Quiet
<1>12. CASE k = NOP \/ (k \in Jcc \cup Ccc \cup Rcc /\ ~Taken(c, k))
  <2>1. c1 = c /\ d1 = d
    BY <1>1, <1>3, <1>12 DEF Arms, c1, d1
  <2>2. QED
    BY <1>7, <1>8, <1>12, <2>1 DEF Quiet
<1>13. CASE k \in MOV
  <2> DEFINE v == Get(c, Z(k))
             c2 == Touch(c, Z(k))
             d2 == Touch(d, Z(k))
  <2>1. Get(d, Z(k)) = v /\ v \in Byte
    BY <1>1, <1>2, <1>6, <1>13, TwinGet, GetType
  <2>2. c1 = Set(c2, Y(k), v) /\ d1 = Set(d2, Y(k), v)
    BY <1>3, <1>13, <2>1 DEF Arms, c1, d1
  <2>3. Twin(S, D, c2, d2)
    BY TwinTouch
  <2>4. HL(c2) = HL(c)
    BY <1>1, <1>2, TouchKeeps DEF HL
  <2> HIDE DEF v, c2, d2
  <2> DEFINE V == Only(Y(k) = RegM, {HL(c2)})
  <2>5. Twin(S \cup V, D \cup V, Set(c2, Y(k), v), Set(d2, Y(k), v))
    BY <1>2, <2>1, <2>3, TwinSet
  <2>6. V = W
    BY <1>7, <1>13, <2>4
  <2>7. QED
    BY <2>2, <2>5, <2>6 DEF Good
<1>14. CASE k \in MVI
  <2>1. c1 = Set(c, Y(k), b) /\ d1 = Set(d, Y(k), b)
    BY <1>3, <1>5, <1>14 DEF Arms, c1, d1, b
  <2> DEFINE V == Only(Y(k) = RegM, {HL(c)})
  <2>2. Twin(S \cup V, D \cup V, Set(c, Y(k), b), Set(d, Y(k), b))
    BY <1>2, TwinSet
  <2>3. QED
    BY <1>7, <1>14, <2>1, <2>2 DEF Good
<1>15. ASSUME NEW w \in Word, NEW q \in 0 .. 3, c1 = SetPair(c, q, w), d1 = SetPair(d, q, w), W = {}
       PROVE  Good
  BY <1>8, <1>15, TwinSetPair DEF Quiet
<1>16. CASE k \in LXI
  <2>1. c1 = SetPair(c, p, word) /\ d1 = SetPair(d, p, word)
    BY <1>3, <1>5, <1>16 DEF Arms, c1, d1, word, word2, p
  <2>2. QED
    BY <1>2, <1>7, <1>15, <1>16, <2>1
<1>17. CASE k \in INX
  <2>1. c1 = SetPair(c, p, Next16(Pair(c, p))) /\ d1 = SetPair(d, p, Next16(Pair(c, p)))
    BY <1>1, <1>3, <1>17 DEF Arms, c1, d1, p
  <2>2. Next16(Pair(c, p)) \in Word
    BY <1>2, Counting
  <2>3. QED
    BY <1>2, <1>7, <1>15, <1>17, <2>1, <2>2
<1>18. CASE k \in DCX
  <2>1. c1 = SetPair(c, p, Previous16(Pair(c, p))) /\ d1 = SetPair(d, p, Previous16(Pair(c, p)))
    BY <1>1, <1>3, <1>18 DEF Arms, c1, d1, p
  <2>2. Previous16(Pair(c, p)) \in Word
    BY <1>2, Counting
  <2>3. QED
    BY <1>2, <1>7, <1>15, <1>18, <2>1, <2>2
<1>19. CASE k \in INR \cup DCR
  <2> DEFINE V == Only(Y(k) = RegM, {HL(c)})
  <2>1. ASSUME NEW g \in Group, c1 = Step1(c, Y(k), g), d1 = Step1(d, Y(k), g) PROVE Good
    <3>1. Twin(S \cup V, D \cup V, Step1(c, Y(k), g), Step1(d, Y(k), g))
      BY <1>2, <1>6, <1>19, TwinStep1
    <3>2. QED
      BY <1>7, <1>19, <2>1, <3>1 DEF Good
  <2>2. \/ c1 = Step1(c, Y(k), "ADD") /\ d1 = Step1(d, Y(k), "ADD")
        \/ c1 = Step1(c, Y(k), "SUB") /\ d1 = Step1(d, Y(k), "SUB")
    BY <1>3, <1>19 DEF Arms, c1, d1
  <2>3. QED
    BY <1>9, <2>1, <2>2
<1>20. CASE k \in DAD
  <2>1. c1 = AddToHL(c, Pair(c, p)) /\ d1 = AddToHL(d, Pair(c, p))
    BY <1>1, <1>3, <1>20 DEF Arms, c1, d1, p
  <2>2. QED
    BY <1>2, <1>7, <1>8, <1>20, <2>1, TwinAddToHL DEF Quiet
<1>21. CASE k \in ALUReg
  <2> DEFINE v == Get(c, Z(k))
             c2 == Touch(c, Z(k))
             d2 == Touch(d, Z(k))
  <2>1. Get(d, Z(k)) = v /\ v \in Byte
    BY <1>1, <1>2, <1>6, <1>21, TwinGet, GetType
  <2>2. c1 = Arithmetic(c2, GroupOf(k), v) /\ d1 = Arithmetic(d2, GroupOf(k), v)
    BY <1>3, <1>21, <2>1 DEF Arms, c1, d1
  <2>3. Twin(S, D, c2, d2)
    BY TwinTouch
  <2> HIDE DEF v, c2, d2
  <2>4. QED
    BY <1>7, <1>8, <1>9, <1>21, <2>1, <2>2, <2>3, TwinArithmetic DEF Quiet
<1>22. CASE k \in ALUImm
  <2>1. c1 = Arithmetic(c, GroupOf(k), b) /\ d1 = Arithmetic(d, GroupOf(k), b)
    BY <1>3, <1>5, <1>22 DEF Arms, c1, d1, b
  <2>2. QED
    BY <1>2, <1>7, <1>8, <1>9, <1>22, <2>1, TwinArithmetic DEF Quiet
<1>23. CASE k = JMP \/ (k \in Jcc /\ Taken(c, k))
  <2>1. c1 = [c EXCEPT !.pc = word] /\ d1 = [d EXCEPT !.pc = word]
    BY <1>1, <1>3, <1>5, <1>23 DEF Arms, c1, d1, word, word2
  <2>2. QED
    BY <1>2, <1>7, <1>8, <1>23, <2>1, TwinPC DEF Quiet
<1>24. ASSUME NEW w \in Word, c1 = CallTo(c, w), d1 = CallTo(d, w), W = PushCells(c) PROVE Good
  BY <1>24, TwinCall DEF Good
<1>25. CASE k = CALL \/ (k \in Ccc /\ Taken(c, k))
  <2>1. c1 = CallTo(c, word) /\ d1 = CallTo(d, word)
    BY <1>1, <1>3, <1>5, <1>25 DEF Arms, c1, d1, word, word2
  <2>2. QED
    BY <1>2, <1>7, <1>24, <1>25, <2>1
<1>26. CASE k \in RST
  <2>1. c1 = CallTo(c, 8 * Y(k)) /\ d1 = CallTo(d, 8 * Y(k))
    BY <1>3, <1>26 DEF Arms, c1, d1
  <2>2. 8 * Y(k) \in Word
    BY <1>2, WordIs
  <2>3. QED
    BY <1>7, <1>24, <1>26, <2>1, <2>2
<1>27. CASE k = RET \/ (k \in Rcc /\ Taken(c, k))
  <2>1. c1 = Return(c) /\ d1 = Return(d)
    BY <1>1, <1>3, <1>27 DEF Arms, c1, d1
  <2>2. QED
    BY <1>6, <1>7, <1>8, <1>27, <2>1, TwinReturn DEF Quiet
<1>28. CASE k \in POP
  <2>1. c1 = PoppedTo(c, p) /\ d1 = PoppedTo(d, p)
    BY <1>3, <1>28 DEF Arms, c1, d1, p
  <2>2. QED
    BY <1>2, <1>6, <1>7, <1>8, <1>28, <2>1, TwinPoppedTo DEF Quiet
<1>29. CASE k \in PUSH
  <2>1. c1 = Pushed(c, p) /\ d1 = Pushed(d, p)
    BY <1>3, <1>29 DEF Arms, c1, d1, p
  <2>2. QED
    BY <1>2, <1>7, <1>29, <2>1, TwinPushed DEF Good
<1>30. CASE k \in STAX
  <2>1. c1 = Store(c, Pair(c, p), A, "MW") /\ d1 = Store(d, Pair(c, p), A, "MW")
    BY <1>1, <1>3, <1>30 DEF Arms, c1, d1, p, A
  <2>2. QED
    BY <1>2, <1>7, <1>9, <1>30, <2>1, TwinStore DEF Good
<1>31. CASE k = STA
  <2>1. c1 = Store(c, word, A, "MW") /\ d1 = Store(d, word, A, "MW")
    BY <1>1, <1>3, <1>5, <1>31 DEF Arms, c1, d1, word, word2, A
  <2>2. QED
    BY <1>2, <1>7, <1>9, <1>31, <2>1, TwinStore DEF Good
<1>32. ASSUME NEW a \in S, NEW y \in Cycle, c1 = SetA(Log(c, y), Peek(c, a)),
              d1 = SetA(Log(d, y), Peek(d, a)), W = {}
       PROVE  Good
  <2>1. Peek(d, a) = Peek(c, a) /\ Peek(c, a) \in Byte
    BY <1>1, TwinPeek, PeekType
  <2>2. Twin(S, D, Log(c, y), Log(d, y))
    BY TwinLog
  <2> DEFINE c2 == Log(c, y)
             d2 == Log(d, y)
  <2>3. Twin(S, D, c2, d2)
    BY <2>2
  <2> HIDE DEF c2, d2
  <2>4. Twin(S, D, SetA(c2, Peek(c, a)), SetA(d2, Peek(c, a)))
    BY <2>1, <2>3, TwinSetA
  <2>5. QED
    BY <1>8, <1>32, <2>1, <2>4 DEF Quiet, c2, d2
<1>33. CASE k \in LDAX
  <2>1. c1 = SetA(Log(c, "MR"), Peek(c, Pair(c, p))) /\ d1 = SetA(Log(d, "MR"), Peek(d, Pair(c, p)))
    BY <1>1, <1>3, <1>33 DEF Arms, c1, d1, p
  <2>2. QED
    BY <1>6, <1>7, <1>9, <1>32, <1>33, <2>1
<1>34. CASE k = LDA
  <2>1. c1 = SetA(Log(c, "MR"), Peek(c, word)) /\ d1 = SetA(Log(d, "MR"), Peek(d, word))
    BY <1>1, <1>3, <1>5, <1>34 DEF Arms, c1, d1, word, word2
  <2>2. QED
    BY <1>6, <1>7, <1>9, <1>32, <1>34, <2>1
<1>35. CASE k \in {RLC, RAL}
  <2>1. HasBit(A, 128) \in BOOLEAN /\ c.flag.carry \in BOOLEAN
    BY <1>1 DEF HasBit, Machine, Flags
  <2>2. \/ c1 = RotateLeft(c, HasBit(A, 128)) /\ d1 = RotateLeft(d, HasBit(A, 128))
        \/ c1 = RotateLeft(c, c.flag.carry) /\ d1 = RotateLeft(d, c.flag.carry)
    BY <1>1, <1>3, <1>35 DEF Arms, c1, d1, A
  <2>3. Twin(S, D, c1, d1)
    BY <2>1, <2>2, TwinRotateLeft
  <2>4. QED
    BY <1>7, <1>8, <1>35, <2>3 DEF Quiet
<1>36. CASE k \in {RRC, RAR}
  <2>1. HasBit(A, 1) \in BOOLEAN /\ c.flag.carry \in BOOLEAN
    BY <1>1 DEF HasBit, Machine, Flags
  <2>2. \/ c1 = RotateRight(c, HasBit(A, 1)) /\ d1 = RotateRight(d, HasBit(A, 1))
        \/ c1 = RotateRight(c, c.flag.carry) /\ d1 = RotateRight(d, c.flag.carry)
    BY <1>1, <1>3, <1>36 DEF Arms, c1, d1, A
  <2>3. Twin(S, D, c1, d1)
    BY <2>1, <2>2, TwinRotateRight
  <2>4. QED
    BY <1>7, <1>8, <1>36, <2>3 DEF Quiet
<1>37. CASE k = SHLD
  <2>1. c1 = StoreHL(c, word) /\ d1 = StoreHL(d, word)
    BY <1>3, <1>5, <1>37 DEF Arms, c1, d1, word, word2
  <2>2. QED
    BY <1>2, <1>7, <1>37, <2>1, TwinStoreHL DEF Good
<1>38. CASE k = LHLD
  <2>1. c1 = LoadHL(c, word) /\ d1 = LoadHL(d, word)
    BY <1>3, <1>5, <1>38 DEF Arms, c1, d1, word, word2
  <2>2. QED
    BY <1>2, <1>6, <1>7, <1>8, <1>38, <2>1, TwinLoadHL DEF Quiet
<1>39. CASE k = DAA
  <2>1. c1 = AdjustA(c) /\ d1 = AdjustA(d)
    BY <1>3, <1>39 DEF Arms, c1, d1
  <2>2. QED
    BY <1>7, <1>8, <1>39, <2>1, TwinAdjustA DEF Quiet
<1>40. CASE k = CMA
  <2>1. c1 = SetA(c, Complement(A)) /\ d1 = SetA(d, Complement(A))
    BY <1>1, <1>3, <1>40 DEF Arms, c1, d1, A
  <2>2. Complement(A) \in Byte
    BY <1>2, ByteIs DEF Complement
  <2>3. QED
    BY <1>7, <1>8, <1>40, <2>1, <2>2, TwinSetA DEF Quiet
<1>41. CASE k \in {STC, CMC}
  <2>1. \/ c1 = [c EXCEPT !.flag.carry = TRUE] /\ d1 = [d EXCEPT !.flag.carry = TRUE]
        \/ c1 = [c EXCEPT !.flag.carry = ~@] /\ d1 = [d EXCEPT !.flag.carry = ~@]
    BY <1>3, <1>41 DEF Arms, c1, d1
  <2> DEFINE n == ~c.flag.carry
  <2>2. \/ c1 = [c EXCEPT !.flag.carry = TRUE] /\ d1 = [d EXCEPT !.flag.carry = TRUE]
        \/ c1 = [c EXCEPT !.flag.carry = n] /\ d1 = [d EXCEPT !.flag.carry = n]
    BY <1>1, <2>1 DEF Machine
  <2>3. n \in BOOLEAN
    OBVIOUS
  <2> HIDE DEF n
  <2>4. /\ Twin(S, D, [c EXCEPT !.flag.carry = TRUE], [d EXCEPT !.flag.carry = TRUE])
        /\ Twin(S, D, [c EXCEPT !.flag.carry = n], [d EXCEPT !.flag.carry = n])
    BY <2>3, TwinCarry
  <2>5. QED
    BY <1>7, <1>8, <1>41, <2>2, <2>4 DEF Quiet
<1>42. CASE k = OUT
  <2>1. c1 = Log(c, "IOW") /\ d1 = Log(d, "IOW")
    BY <1>3, <1>42 DEF Arms, c1, d1
  <2>2. QED
    BY <1>7, <1>8, <1>9, <1>42, <2>1, TwinLog DEF Quiet
<1>43. CASE k = IN_
  <2>1. c1 = SetA(Log(c, "IOR"), input) /\ d1 = SetA(Log(d, "IOR"), input)
    BY <1>3, <1>43 DEF Arms, c1, d1
  <2> DEFINE c2 == Log(c, "IOR")
             d2 == Log(d, "IOR")
  <2>2. Twin(S, D, c2, d2)
    BY <1>9, TwinLog
  <2> HIDE DEF c2, d2
  <2>3. Twin(S, D, SetA(c2, input), SetA(d2, input))
    BY <2>2, TwinSetA
  <2>4. QED
    BY <1>7, <1>8, <1>43, <2>1, <2>3 DEF Quiet, c2, d2
<1>44. CASE k = XTHL
  <2>1. c1 = ExchangeStack(c) /\ d1 = ExchangeStack(d)
    BY <1>3, <1>44 DEF Arms, c1, d1
  <2>2. QED
    BY <1>6, <1>7, <1>44, <2>1, TwinExchangeStack DEF Good
<1>45. CASE k = PCHL
  <2>1. c1 = [c EXCEPT !.pc = HL(c)] /\ d1 = [d EXCEPT !.pc = HL(c)]
    BY <1>1, <1>3, <1>45 DEF Arms, c1, d1
  <2>2. QED
    BY <1>2, <1>7, <1>8, <1>45, <2>1, TwinPC DEF Quiet
<1>46. CASE k = SPHL
  <2>1. c1 = [c EXCEPT !.sp = HL(c)] /\ d1 = [d EXCEPT !.sp = HL(c)]
    BY <1>1, <1>3, <1>46 DEF Arms, c1, d1
  <2>2. QED
    BY <1>2, <1>7, <1>8, <1>46, <2>1, TwinSP DEF Quiet
<1>47. CASE k = XCHG
  <2> DEFINE h == Pair(c, 2)
             e == Pair(c, 1)
             c2 == SetPair(c, 2, e)
             d2 == SetPair(d, 2, e)
  <2>1. c1 = SetPair(c2, 1, h) /\ d1 = SetPair(d2, 1, h)
    BY <1>1, <1>3, <1>47 DEF Arms, c1, d1
  <2>2. h \in Word /\ e \in Word
    BY <1>1, PairType
  <2> HIDE DEF h, e
  <2>3. Twin(S, D, c2, d2)
    BY <2>2, TwinSetPair
  <2> HIDE DEF c2, d2
  <2>4. Twin(S, D, c1, d1)
    BY <2>1, <2>2, <2>3, TwinSetPair
  <2>5. QED
    BY <1>7, <1>8, <1>47, <2>4 DEF Quiet
<1>48. CASE k \in {DI, EI}
  <2> DEFINE e == (k = EI)
  <2>1. c1 = [c EXCEPT !.enabled = e] /\ d1 = [d EXCEPT !.enabled = e] /\ e \in BOOLEAN
    BY <1>3, <1>48 DEF Arms, c1, d1
  <2> HIDE DEF e
  <2>2. c1 \in Machine /\ d1 \in Machine /\ c1.mem = c.mem /\ d1.mem = d.mem /\ d1.reg = c1.reg
        /\ d1.flag = c1.flag /\ d1.pc = c1.pc /\ d1.sp = c1.sp /\ d1.halted = c1.halted
    BY <1>1, <2>1 DEF Machine, Twin
  <2>3. QED
    BY <1>7, <1>8, <1>48, <2>2, TwinSame DEF Quiet
<1>49. \/ k \in Plain \cup Unassigned \cup {HLT, JMP, CALL, RET, PCHL} \cup RST
       \/ k \in Jcc /\ Taken(c, k)
       \/ k \in Ccc /\ Taken(c, k)
       \/ k \in Rcc /\ Taken(c, k)
       \/ k \in Jcc \cup Ccc \cup Rcc /\ ~Taken(c, k)
  BY DEF Plain
<1>50. CASE k \in Plain
  <2>1. \/ k \in MOV \cup MVI \cup LXI \cup INR \cup DCR \cup INX \cup DCX \cup DAD \cup ALUReg
                   \cup ALUImm \cup POP \cup PUSH \cup STAX \cup LDAX
        \/ k \in {NOP, RLC, RRC, RAL, RAR, SHLD, LHLD, DAA, CMA, STA, LDA, STC, CMC, OUT, IN_,
                   XTHL, XCHG, DI, EI, SPHL}
    BY <1>50, PlainIs
  <2>2. QED
    BY <2>1, <1>12, <1>13, <1>14, <1>16, <1>17, <1>18, <1>19, <1>20, <1>21, <1>22, <1>28, <1>29,
       <1>30, <1>31, <1>33, <1>34, <1>35, <1>36, <1>37, <1>38, <1>39, <1>40, <1>41, <1>42, <1>43,
       <1>44, <1>46, <1>47, <1>48
<1>51. QED
  BY <1>49, <1>50, <1>10, <1>11, <1>12, <1>23, <1>25, <1>26, <1>27, <1>45

\* What an instruction loads and stores does not change while it is fetched.
LEMMA FetchedCells ==
  ASSUME NEW c \in Machine, NEW k \in Byte, NEW word
  PROVE  Loads(Fetch(c), k, word) = Loads(c, k, word) /\ Stores(Fetch(c), k, word) = Stores(c, k, word)
<1> DEFINE f == Fetch(c)
<1>1. f.reg = c.reg /\ f.flag = c.flag /\ f.sp = c.sp
  BY FetchIs
<1> HIDE DEF f
<1>2. HL(f) = HL(c) /\ Pair(f, PairOf(k)) = Pair(c, PairOf(k)) /\ StackTop(f) = StackTop(c)
      /\ PushCells(f) = PushCells(c)
  BY <1>1 DEF HL, Pair, StackTop, PushCells
<1>3. Taken(f, k) <=> Taken(c, k)
  BY <1>1, TakenIs
<1>4. Loads(f, k, word) = Loads(c, k, word)
  BY <1>2, <1>3 DEF Loads
<1>5. Stores(f, k, word) = Stores(c, k, word)
  BY <1>2, <1>3 DEF Stores
<1>6. QED
  BY <1>4, <1>5 DEF f

\* What an instruction does depends on the registers, the flags, and the cells that Reads
\* names, and it writes those that Writes names: two machines that agree on them go on to
\* agree, on what was written too (step.go:35-65, execute.go:7-217).
THEOREM StepTwin ==
  ASSUME NEW S, NEW D, NEW c, NEW d, Twin(S, D, c, d), ~c.halted, Reads(c) \subseteq S,
         NEW input \in Byte
  PROVE  /\ Twin(S \cup Writes(c), D \cup Writes(c), Step(c, input), Step(d, input))
         /\ Peek(d, d.pc) = Peek(c, c.pc)
<1> DEFINE k == Peek(c, c.pc)
           arg == OperandBytes(c)
           arg2 == OperandBytes(d)
           f == Fetch(c)
           g == Fetch(d)
           word == Compose(arg[2], arg[1])
           W == Stores(f, k, word)
<1>1. c \in Machine /\ d \in Machine /\ d.pc = c.pc /\ d.halted = c.halted
  BY DEF Twin
<1>2. c.pc \in S /\ (Length(k) > 1 => Next16(c.pc) \in S) /\ (Length(k) > 2 => Next16(Next16(c.pc)) \in S)
  BY DEF Reads, Fetches, Only
<1>3. Peek(d, c.pc) = k
  BY <1>2, TwinPeek
<1>4. /\ Length(k) > 1 => Peek(d, Next16(c.pc)) = Peek(c, Next16(c.pc))
      /\ Length(k) > 2 => Peek(d, Next16(Next16(c.pc))) = Peek(c, Next16(Next16(c.pc)))
  BY <1>2, TwinPeek
<1>5. /\ Length(k) > 1 => arg2[1] = arg[1]
      /\ Length(k) > 2 => arg2[2] = arg[2]
  BY <1>1, <1>4 DEF OperandBytes
<1>6. /\ arg \in Byte \X Byte /\ arg2 \in Byte \X Byte /\ k \in Byte
      /\ Step(c, input) = Execute(f, k, arg, input)
      /\ Step(d, input) = Execute(g, k, arg2, input)
  BY <1>1, <1>3, StepIs
<1>7. word = OperandWord(c)
  BY DEF OperandBytes, OperandWord
<1>8. Loads(f, k, word) = Loads(c, k, OperandWord(c)) /\ W = Writes(c)
  BY <1>1, <1>6, <1>7, FetchedCells DEF Writes
<1>9. Loads(f, k, word) \subseteq S
  BY <1>8 DEF Reads
<1>10. Twin(S, D, f, g)
  BY <1>3, TwinFetched
<1> HIDE DEF f, g, k, arg, arg2
<1>11. Twin(S \cup W, D \cup W, Execute(f, k, arg, input), Execute(g, k, arg2, input))
  BY <1>5, <1>6, <1>9, <1>10, ExecuteTwin
<1>12. QED
  BY <1>1, <1>3, <1>6, <1>8, <1>11 DEF k

---------------------------------------------------------------------------
(* The nest of handlers.                                                   *)

\* The address n bytes under sp.
Down(sp, n) == (sp - n) % 65536

\* What the CPU goes back to: where, with which registers, with how many bytes of the
\* stack taken by handlers, and after how much time and how many instructions, those of
\* complete interrupts not counted.
Context == [reg : [Register -> Byte], flag : Flags, pc : Word, low : Nat, time : Int, count : Int]

\* The instructions of the handler; at each, the bytes that are on the stack, the states
\* taken and the instructions executed since the interrupt, and the registers that hold
\* what they did before it.
Offsets == {0, 1, 2, 3, 5, 8, 9, 10, 11, 12, 13, 14}
Room(o) == IF o \in {0, 13, 14} THEN 2 ELSE IF o \in {1, 12} THEN 4
           ELSE IF o \in {2, 11} THEN 6 ELSE 8
Taking(o) == CASE o = 0 -> 11 [] o = 1 -> 22 [] o = 2 -> 33 [] o = 3 -> 44 [] o = 5 -> 51
               [] o = 8 -> 61 [] o = 9 -> 65 [] o = 10 -> 75 [] o = 11 -> 85 [] o = 12 -> 95
               [] o = 13 -> 105 [] OTHER -> 109
Number(o) == CASE o \in {0, 1, 2, 3} -> o + 1 [] o = 5 -> 5 [] OTHER -> o - 2
Intact(o) == IF o \in {0, 1, 2, 3, 13, 14} THEN Register
             ELSE IF o = 12 THEN Register \ {RegA}
             ELSE IF o = 11 THEN {2, 3, RegH, RegL} ELSE {2, 3}

\* The bytes a handler saves, in their order.
Saved(x, k) == CASE k = 1 -> High(x.pc) [] k = 2 -> Low(x.pc)
                 [] k = 3 -> x.reg[RegA] [] k = 4 -> FlagsByte(x.flag)
                 [] k = 5 -> x.reg[0] [] k = 6 -> x.reg[1]
                 [] k = 7 -> x.reg[RegH] [] OTHER -> x.reg[RegL]

\* A handler that interrupted context x has got to context y, at its offset o.
ServingAt(sp, c, x, y, o) ==
  /\ y.pc = HandlerAt + o /\ y.low = x.low + Room(o)
  /\ y.time = x.time + Taking(o) /\ y.count = x.count + Number(o)
  /\ \A k \in 1 .. Room(o) : Peek(c, Down(sp, x.low + k)) = Saved(x, k)
  /\ \A r \in Intact(o) : y.reg[r] = x.reg[r]
  /\ o \in {0, 1, 2, 3, 13, 14} => y.flag = x.flag
  /\ o \in {8, 9} => y.reg[RegH] = 0 /\ y.reg[RegL] = WorkCell
Serving(sp, c, x, y) == \E o \in Offsets : ServingAt(sp, c, x, y, o)

\* Machine c has n handlers to return from, each interrupted by the next, the first of
\* which interrupted the program in the state of h; f lists the contexts.
Frames(f, n, h, c) ==
  /\ f \in [0 .. n -> Context]
  /\ f[0].reg = h.reg /\ f[0].flag = h.flag /\ f[0].pc = h.pc /\ f[0].low = 0
  /\ f[n].reg = c.reg /\ f[n].flag = c.flag /\ f[n].pc = c.pc /\ c.sp = Down(h.sp, f[n].low)
  /\ \A i \in 1 .. n : Serving(h.sp, c, f[i - 1], f[i])
  /\ \A i, j \in 0 .. n : i <= j => f[i].low <= f[j].low
  /\ \A i \in 0 .. n : f[i].low <= 8 * i

\* The same, with the time of the program and that of the CPU, interrupts that have ended
\* deducted.
Nested(f, n, h, c, time, count, time2, count2) ==
  /\ Frames(f, n, h, c)
  /\ f[0].time = time /\ f[0].count = count
  /\ f[n].time = time2 /\ f[n].count = count2

---------------------------------------------------------------------------
(* Addresses and memory.                                                   *)

LEMMA DownIs ==
  ASSUME NEW sp \in Word, NEW n \in Nat, n <= 1000
  PROVE  Down(sp, n) \in Word /\ Down(sp, n) = IF n <= sp THEN sp - n ELSE sp - n + 65536
<1>1. sp \in Int /\ 0 <= sp /\ sp <= 65535
  BY WordIs
<1>2. Down(sp, n) = IF n <= sp THEN sp - n ELSE sp - n + 65536
  BY <1>1 DEF Down
<1>3. QED
  BY <1>1, <1>2, WordIs

LEMMA Downs ==
  ASSUME NEW sp \in Word, NEW n \in Nat, n < 1000
  PROVE  /\ Previous16(Down(sp, n)) = Down(sp, n + 1) /\ Next16(Down(sp, n + 1)) = Down(sp, n)
         /\ Down(sp, n) \in Word
<1>1. sp \in Int /\ 0 <= sp /\ sp <= 65535 /\ n + 1 \in Nat
  BY WordIs
<1>2. /\ Down(sp, n) \in Word /\ Down(sp, n) = IF n <= sp THEN sp - n ELSE sp - n + 65536
      /\ Down(sp, n + 1) \in Word
      /\ Down(sp, n + 1) = IF n + 1 <= sp THEN sp - (n + 1) ELSE sp - (n + 1) + 65536
  BY <1>1, DownIs
<1>3. Previous16(Down(sp, n)) = IF Down(sp, n) = 0 THEN 65535 ELSE Down(sp, n) - 1
  BY <1>2, PreviousIs
<1>4. Next16(Down(sp, n + 1)) = IF Down(sp, n + 1) = 65535 THEN 0 ELSE Down(sp, n + 1) + 1
  BY <1>2, NextIs
<1>5. QED
  BY <1>1, <1>2, <1>3, <1>4

LEMMA DownZero == ASSUME NEW sp \in Word PROVE Down(sp, 0) = sp
BY WordIs DEF Down

\* Cells at different distances are different.
LEMMA DownApart ==
  ASSUME NEW sp \in Word, NEW i \in Nat, NEW j \in Nat, i <= 1000, j <= 1000, i # j
  PROVE  Down(sp, i) # Down(sp, j)
BY DownIs, WordIs

LEMMA DownFree ==
  ASSUME NEW c, c.sp \in Word, NEW k \in Nat, 1 <= k, k <= StackRoom
  PROVE  FreeStack(c, Down(c.sp, k))
<1>1. c.sp \in Int /\ 0 <= c.sp /\ c.sp <= 65535 /\ k <= 64
  BY WordIs DEF StackRoom
<1>2. Down(c.sp, k) = IF k <= c.sp THEN c.sp - k ELSE c.sp - k + 65536
  BY <1>1, DownIs
<1>3. c.sp - 1 - Down(c.sp, k) = k - 1 \/ c.sp - 1 - Down(c.sp, k) = k - 1 - 65536
  BY <1>1, <1>2
<1>4. (c.sp - 1 - Down(c.sp, k)) % 65536 = k - 1
  <2> DEFINE u == c.sp - 1 - Down(c.sp, k)
  <2>1. u = k - 1 \/ u = k - 1 - 65536
    BY <1>3
  <2> HIDE DEF u
  <2>2. u % 65536 = k - 1
    BY <1>1, <2>1
  <2>3. QED
    BY <2>2 DEF u
<1>5. QED
  BY <1>1, <1>4 DEF FreeStack, StackRoom

\* The memory of d is that of c but for some cells.
Spares(c, d, cells) ==
  /\ DOMAIN c.mem \subseteq DOMAIN d.mem
  /\ \A a : a \notin cells => Peek(d, a) = Peek(c, a)

LEMMA SparesAgree ==
  ASSUME NEW S, NEW mem, NEW c, NEW d, NEW cells, Spares(c, d, cells), Agree(S, mem, c.mem),
         S \cap cells = {}
  PROVE  Agree(S, mem, d.mem)
BY DEF Spares, Agree, Peek

LEMMA SparesStore ==
  ASSUME NEW c \in Machine, NEW a \in Word, NEW v \in Byte, NEW y \in Cycle
  PROVE  Spares(c, Store(c, a, v, y), {a}) /\ Peek(Store(c, a, v, y), a) = v
<1> DEFINE d == Store(c, a, v, y)
<1>1. \A b : Peek(d, b) = IF b = a THEN v ELSE Peek(c, b)
  BY StoreKeeps
<1>2. d.mem = [b \in DOMAIN c.mem \cup {a} |-> IF b = a THEN v ELSE c.mem[b]]
  BY StoreMemory
<1> HIDE DEF d
<1>3. DOMAIN c.mem \subseteq DOMAIN d.mem
  BY <1>2
<1>4. QED
  BY <1>1, <1>3 DEF Spares, d

LEMMA SparesSame ==
  ASSUME NEW c, NEW d, d.mem = c.mem, NEW cells
  PROVE  Spares(c, d, cells) /\ \A a : Peek(d, a) = Peek(c, a)
BY DEF Spares, Peek

LEMMA SparesWeaken ==
  ASSUME NEW c, NEW d, NEW S, NEW T, Spares(c, d, S), S \subseteq T
  PROVE  Spares(c, d, T)
BY DEF Spares

\* pushWord writes two cells.
LEMMA PushWordCells ==
  ASSUME NEW c \in Machine, NEW w \in Word
  PROVE  LET d == PushWord(c, w)
             above == Previous16(c.sp)
             below == Previous16(above)
         IN  /\ Spares(c, d, {above, below})
             /\ Peek(d, above) = High(w) /\ Peek(d, below) = Low(w)
<1> DEFINE above == Previous16(c.sp)
           below == Previous16(above)
           high == High(w)
           low == Low(w)
           c1 == [c EXCEPT !.sp = above]
           c2 == Store(c1, above, high, "SW")
           c3 == [c2 EXCEPT !.sp = below]
           d == Store(c3, below, low, "SW")
<1>1. /\ PushWord(c, w) = d /\ above \in Word /\ below \in Word /\ above # below
      /\ high \in Byte /\ low \in Byte /\ "SW" \in Cycle
  BY PushWordIs DEF Cycle
<1> HIDE DEF above, below, high, low
<1>2. c1 \in Machine /\ c1.mem = c.mem
  BY <1>1 DEF Machine
<1> HIDE DEF c1
<1>3. /\ c2 \in Machine /\ Spares(c1, c2, {above}) /\ Peek(c2, above) = high
  BY <1>1, <1>2, StoreKeeps, SparesStore DEF Kept
<1> HIDE DEF c2
<1>4. c3 \in Machine /\ c3.mem = c2.mem
  BY <1>1, <1>3 DEF Machine
<1> HIDE DEF c3
<1>5. Spares(c3, d, {below}) /\ Peek(d, below) = low
  BY <1>1, <1>4, SparesStore
<1> HIDE DEF d
<1>6. (\A a : Peek(c1, a) = Peek(c, a)) /\ (\A a : Peek(c3, a) = Peek(c2, a))
  BY <1>2, <1>4 DEF Peek
<1>7. Spares(c, d, {above, below})
  BY <1>2, <1>3, <1>4, <1>5, <1>6 DEF Spares
<1>8. Peek(d, above) = high
  BY <1>1, <1>3, <1>5, <1>6 DEF Spares
<1>9. QED
  BY <1>1, <1>5, <1>7, <1>8 DEF above, below, high, low

LEMMA PoppedMemory == ASSUME NEW c \in Machine PROVE Popped(c).mem = c.mem
BY DEF Popped, Log, Machine

---------------------------------------------------------------------------
(* The instructions of the handler.                                        *)

LEMMA HandlerCodes ==
  /\ 245 \in PUSH /\ 197 \in PUSH /\ 229 \in PUSH /\ 241 \in POP /\ 193 \in POP /\ 225 \in POP
  /\ PairOf(245) = 3 /\ PairOf(241) = 3 /\ PairOf(197) = 0 /\ PairOf(193) = 0
  /\ PairOf(229) = 2 /\ PairOf(225) = 2
  /\ 6 \in MVI /\ Y(6) = 0 /\ 33 \in LXI /\ PairOf(33) = 2
  /\ 175 \in ALUReg /\ Z(175) = RegA /\ GroupOf(175) = "XRA"
  /\ 53 \in DCR /\ Y(53) = RegM
  /\ 255 \in RST /\ Y(255) = 7 /\ 207 \in RST /\ Y(207) = 1
  /\ RET \notin Unassigned /\ EI \notin Unassigned
<1>1. /\ 245 \in Byte /\ 197 \in Byte /\ 229 \in Byte /\ 241 \in Byte /\ 193 \in Byte
      /\ 225 \in Byte /\ 6 \in Byte /\ 33 \in Byte /\ 175 \in Byte /\ 53 \in Byte
      /\ 255 \in Byte /\ 207 \in Byte /\ 201 \in Byte /\ 251 \in Byte
  BY ByteIs
<1>2. /\ X(245) = 3 /\ Y(245) = 6 /\ Z(245) = 5 /\ X(197) = 3 /\ Y(197) = 0 /\ Z(197) = 5
      /\ X(229) = 3 /\ Y(229) = 4 /\ Z(229) = 5 /\ X(241) = 3 /\ Y(241) = 6 /\ Z(241) = 1
      /\ X(193) = 3 /\ Y(193) = 0 /\ Z(193) = 1 /\ X(225) = 3 /\ Y(225) = 4 /\ Z(225) = 1
      /\ X(6) = 0 /\ Y(6) = 0 /\ Z(6) = 6 /\ X(33) = 0 /\ Y(33) = 4 /\ Z(33) = 1
      /\ X(175) = 2 /\ Y(175) = 5 /\ Z(175) = 7 /\ X(53) = 0 /\ Y(53) = 6 /\ Z(53) = 5
      /\ X(255) = 3 /\ Y(255) = 7 /\ Z(255) = 7 /\ X(207) = 3 /\ Y(207) = 1 /\ Z(207) = 7
      /\ X(201) = 3 /\ X(251) = 3
  BY DEF X, Y, Z
<1>3. /\ Families(245) /\ Families(197) /\ Families(229) /\ Families(241) /\ Families(193)
      /\ Families(225) /\ Families(6) /\ Families(33) /\ Families(175) /\ Families(53)
      /\ Families(255) /\ Families(207) /\ Families(201) /\ Families(251)
  BY <1>1, FamilyOf
<1>4. /\ 245 \in PUSH /\ 197 \in PUSH /\ 229 \in PUSH /\ 241 \in POP /\ 193 \in POP
      /\ 225 \in POP /\ 6 \in MVI /\ 33 \in LXI /\ 175 \in ALUReg /\ 53 \in DCR
      /\ 255 \in RST /\ 207 \in RST
  BY <1>2, <1>3 DEF Families, Even
<1>5. PairOf(245) = 3 /\ PairOf(241) = 3 /\ PairOf(197) = 0 /\ PairOf(193) = 0
      /\ PairOf(229) = 2 /\ PairOf(225) = 2 /\ PairOf(33) = 2
  BY DEF PairOf, Y
<1>6. GroupOf(175) = "XRA" /\ Z(175) = RegA /\ Y(53) = RegM
  BY <1>2 DEF GroupOf, RegA, RegM
<1>7. 201 \notin Unassigned /\ 251 \notin Unassigned
  BY <1>2, <1>3 DEF Families
<1>8. Y(6) = 0 /\ Y(255) = 7 /\ Y(207) = 1
  BY <1>2
<1>9. QED
  BY <1>4, <1>5, <1>6, <1>7, <1>8 DEF RET, EI

\* An instruction is fetched, and executed in one way.
LEMMA StepAs ==
  ASSUME NEW c \in Machine, ~c.halted, NEW input \in Byte
  PROVE  LET k == Peek(c, c.pc)
             f == Fetch(c)
         IN  /\ f \in Machine /\ f.pc = (c.pc + Length(k)) % 65536 /\ f.reg = c.reg
             /\ f.flag = c.flag /\ f.sp = c.sp /\ f.mem = c.mem /\ ~f.halted
             /\ Step(c, input) = Execute(f, k, OperandBytes(c), input)
             /\ Arms(f, k, OperandBytes(c), input)
             /\ Step(c, input) \in Machine
             /\ Step(c, input).halted <=> k = HLT
<1>1. Peek(c, c.pc) \in Byte /\ Step(c, input) = Execute(Fetch(c), Peek(c, c.pc), OperandBytes(c), input)
  BY StepIs
<1>2. Arms(Fetch(c), Peek(c, c.pc), OperandBytes(c), input)
  BY <1>1, OneArm
<1>3. Step(c, input) \in Machine /\ (Step(c, input).halted <=> Peek(c, c.pc) = HLT)
  BY StepType
<1>4. QED
  BY <1>1, <1>2, <1>3, FetchIs

\* The next instruction, of n bytes, goes on to the one after it, and takes some time.
Goes(c, d, n, time) ==
  /\ d \in Machine /\ ~d.halted /\ d.pc = (c.pc + n) % 65536
  /\ StatesOf(c, Peek(c, c.pc)) = time

LEMMA StepPush ==
  ASSUME NEW c \in Machine, ~c.halted, NEW input \in Byte, Peek(c, c.pc) \in {245, 197, 229}
  PROVE  LET d == Step(c, input)
             k == Peek(c, c.pc)
             above == Previous16(c.sp)
         IN  /\ Goes(c, d, 1, 11) /\ d.reg = c.reg /\ d.flag = c.flag
             /\ d.sp = Previous16(above) /\ Spares(c, d, {above, Previous16(above)})
             /\ Peek(d, above) = (IF k = 245 THEN c.reg[RegA] ELSE IF k = 197 THEN c.reg[0]
                                  ELSE c.reg[RegH])
             /\ Peek(d, Previous16(above))
                  = (IF k = 245 THEN FlagsByte(c.flag) ELSE IF k = 197 THEN c.reg[1]
                     ELSE c.reg[RegL])
<1> DEFINE d == Step(c, input)
           k == Peek(c, c.pc)
           f == Fetch(c)
           p == PairOf(k)
           high == IF k = 245 THEN c.reg[RegA] ELSE IF k = 197 THEN c.reg[0] ELSE c.reg[RegH]
           low == IF k = 245 THEN FlagsByte(c.flag) ELSE IF k = 197 THEN c.reg[1] ELSE c.reg[RegL]
           w == Compose(high, low)
           e == PushWord(f, w)
<1>1. /\ f \in Machine /\ f.pc = (c.pc + Length(k)) % 65536 /\ f.reg = c.reg
      /\ f.flag = c.flag /\ f.sp = c.sp /\ f.mem = c.mem /\ ~f.halted
      /\ d = Execute(f, k, OperandBytes(c), input) /\ Arms(f, k, OperandBytes(c), input)
      /\ d \in Machine
  BY StepAs
<1>2. k \in PUSH /\ k \in Byte /\ p = (IF k = 245 THEN 3 ELSE IF k = 197 THEN 0 ELSE 2)
  <2>1. k = 245 \/ k = 197 \/ k = 229
    OBVIOUS
  <2>2. k \in Byte
    BY StepIs
  <2> HIDE DEF k
  <2>3. QED
    BY <2>1, <2>2, HandlerCodes
<1>3. Length(k) = 1 /\ k \notin Unassigned
  BY <1>2, LengthAre, Octal, FamilyOf DEF Families, Even
<1>4. StatesOf(c, k) = 11
  BY <1>2, <1>3, StatesAre
<1>5. \A r \in Register : c.reg[r] \in Byte
  BY DEF Machine
<1>6. high \in Byte /\ low \in Byte
  BY <1>5, FlagsByteIs DEF Machine, Register, RegA, RegH, RegL, RegM
<1>7. w \in Word /\ High(w) = high /\ Low(w) = low
  BY <1>6, Composed
<1> HIDE DEF f, d, k
<1>8. d = Pushed(f, p)
  BY <1>1, <1>2 DEF Arms
<1>9. d = e
  BY <1>1, <1>2, <1>8 DEF Pushed, Pair, PairSP, RegH, RegL
<1> HIDE DEF w
<1>10. Kept(f, e) /\ e.reg = f.reg /\ e.flag = f.flag /\ e.sp = Previous16(Previous16(f.sp))
  BY <1>1, <1>7, PushWordKeeps
<1>11. /\ Spares(f, e, {Previous16(f.sp), Previous16(Previous16(f.sp))})
       /\ Peek(e, Previous16(f.sp)) = high /\ Peek(e, Previous16(Previous16(f.sp))) = low
  BY <1>1, <1>7, PushWordCells
<1> HIDE DEF e, high, low
<1>12. Spares(c, d, {Previous16(c.sp), Previous16(Previous16(c.sp))})
  BY <1>1, <1>9, <1>11 DEF Spares, Peek
<1>13. Goes(c, d, 1, 11)
  BY <1>1, <1>3, <1>4, <1>9, <1>10 DEF Goes, Kept, k
<1>14. QED
  BY <1>1, <1>9, <1>10, <1>11, <1>12, <1>13 DEF d, high, low, k

LEMMA StepPop ==
  ASSUME NEW c \in Machine, ~c.halted, NEW input \in Byte, Peek(c, c.pc) \in {241, 193, 225}
  PROVE  LET d == Step(c, input)
             k == Peek(c, c.pc)
             low == Peek(c, c.sp)
             high == Peek(c, Next16(c.sp))
         IN  /\ Goes(c, d, 1, 10) /\ d.mem = c.mem /\ d.sp = Next16(Next16(c.sp))
             /\ d.flag = (IF k = 241 THEN FlagsOf(low) ELSE c.flag)
             /\ d.reg = IF k = 241 THEN [c.reg EXCEPT ![RegA] = high]
                        ELSE IF k = 193 THEN [c.reg EXCEPT ![0] = high, ![1] = low]
                        ELSE [c.reg EXCEPT ![RegH] = high, ![RegL] = low]
<1> DEFINE d == Step(c, input)
           k == Peek(c, c.pc)
           f == Fetch(c)
           p == PairOf(k)
           low == Peek(c, c.sp)
           high == Peek(c, Next16(c.sp))
           w == PopWord(f)
           g == Popped(f)
<1>1. /\ f \in Machine /\ f.pc = (c.pc + Length(k)) % 65536 /\ f.reg = c.reg
      /\ f.flag = c.flag /\ f.sp = c.sp /\ f.mem = c.mem /\ ~f.halted
      /\ d = Execute(f, k, OperandBytes(c), input) /\ Arms(f, k, OperandBytes(c), input)
      /\ d \in Machine
  BY StepAs
<1>2. k \in POP /\ k \in Byte /\ p = (IF k = 241 THEN 3 ELSE IF k = 193 THEN 0 ELSE 2)
  <2>1. k = 241 \/ k = 193 \/ k = 225
    OBVIOUS
  <2>2. k \in Byte
    BY StepIs
  <2> HIDE DEF k
  <2>3. QED
    BY <2>1, <2>2, HandlerCodes
<1>3. Length(k) = 1 /\ k \notin Unassigned
  BY <1>2, LengthAre, Octal, FamilyOf DEF Families, Even
<1>4. StatesOf(c, k) = 10
  BY <1>2, <1>3, StatesAre
<1>5. high \in Byte /\ low \in Byte
  BY PeekType
<1>6. w = Compose(high, low)
  BY <1>1 DEF PopWord, Peek
<1>7. w \in Word /\ High(w) = high /\ Low(w) = low
  BY <1>5, <1>6, Composed
<1> HIDE DEF f, d, k
<1>8. d = PoppedTo(f, p)
  BY <1>1, <1>2 DEF Arms
<1>9. /\ Kept(f, g) /\ g.reg = f.reg /\ g.flag = f.flag /\ g.sp = Next16(Next16(f.sp)) /\ g.mem = f.mem
  BY <1>1, PoppedKeeps, PoppedMemory
<1>10. d = IF p = 3 THEN [SetA(g, High(w)) EXCEPT !.flag = FlagsOf(Low(w))] ELSE SetPair(g, p, w)
  BY <1>8 DEF PoppedTo
<1> HIDE DEF g, w, high, low
<1>11. CASE k = 241
  <2> DEFINE e == SetA(g, high)
             fl == FlagsOf(low)
  <2>1. d = [e EXCEPT !.flag = fl]
    BY <1>2, <1>7, <1>10, <1>11
  <2>2. /\ Kept(g, e) /\ e.mem = g.mem /\ e.sp = g.sp /\ e.reg = [g.reg EXCEPT ![RegA] = high]
    BY <1>5, <1>9, SetAKeeps, SetARegisters DEF Kept, high
  <2>3. fl \in Flags
    BY FlagsOfType
  <2> HIDE DEF e, fl
  <2>4. /\ Kept(e, d) /\ d.mem = e.mem /\ d.sp = e.sp /\ d.reg = e.reg /\ d.flag = fl
    BY <2>1, <2>2, <2>3, SetFlagsKeeps DEF Kept
  <2>5. Goes(c, d, 1, 10)
    BY <1>1, <1>3, <1>4, <1>9, <2>2, <2>4 DEF Goes, Kept, k
  <2>6. QED
    BY <1>1, <1>9, <1>11, <2>2, <2>4, <2>5 DEF d, high, low, k, fl
<1>12. CASE k # 241
  <2>1. d = SetPair(g, p, w) /\ p \in 0 .. 3 /\ p # 3
    BY <1>2, <1>10, <1>12
  <2> HIDE DEF p
  <2>2. /\ Kept(g, d) /\ d.mem = g.mem /\ d.flag = g.flag /\ d.sp = g.sp
        /\ d.reg = [g.reg EXCEPT ![2 * p] = High(w), ![2 * p + 1] = Low(w)]
    <3>1. g \in Machine /\ w \in Word
      BY <1>7, <1>9 DEF Kept
    <3>2. /\ Kept(g, SetPair(g, p, w)) /\ SetPair(g, p, w).mem = g.mem
          /\ SetPair(g, p, w).flag = g.flag /\ SetPair(g, p, w).sp = g.sp
      BY <2>1, <3>1, SetPairKeeps
    <3>3. SetPair(g, p, w).reg = [g.reg EXCEPT ![2 * p] = High(w), ![2 * p + 1] = Low(w)]
      BY <2>1, <3>1, SetPairRegisters
    <3>4. QED
      BY <2>1, <3>2, <3>3
  <2>3. d.reg = IF k = 193 THEN [c.reg EXCEPT ![0] = high, ![1] = low]
                ELSE [c.reg EXCEPT ![RegH] = high, ![RegL] = low]
    BY <1>1, <1>2, <1>7, <1>9, <1>12, <2>2 DEF RegH, RegL
  <2>4. Goes(c, d, 1, 10)
    BY <1>1, <1>3, <1>4, <1>9, <2>2 DEF Goes, Kept, k
  <2>5. QED
    BY <1>1, <1>9, <1>12, <2>2, <2>3, <2>4 DEF d, high, low, k
<1>13. QED
  BY <1>11, <1>12

LEMMA StepReturn ==
  ASSUME NEW c \in Machine, ~c.halted, NEW input \in Byte, Peek(c, c.pc) = RET
  PROVE  LET d == Step(c, input)
         IN  /\ d \in Machine /\ ~d.halted /\ StatesOf(c, Peek(c, c.pc)) = 10
             /\ d.pc = Compose(Peek(c, Next16(c.sp)), Peek(c, c.sp)) /\ d.mem = c.mem
             /\ d.sp = Next16(Next16(c.sp)) /\ d.flag = c.flag /\ d.reg = c.reg
<1> DEFINE d == Step(c, input)
           k == Peek(c, c.pc)
           f == Fetch(c)
           g == Popped(f)
           w == PopWord(f)
<1>1. /\ f \in Machine /\ f.reg = c.reg
      /\ f.flag = c.flag /\ f.sp = c.sp /\ f.mem = c.mem /\ ~f.halted
      /\ d = Execute(f, k, OperandBytes(c), input) /\ Arms(f, k, OperandBytes(c), input)
      /\ d \in Machine
  BY StepAs
<1>2. k = RET /\ k \in Byte /\ k \notin Unassigned
  BY HandlerCodes, StepIs
<1>3. StatesOf(c, k) = 10
  BY <1>2, StatesAre
<1>4. w = Compose(Peek(c, Next16(c.sp)), Peek(c, c.sp))
  BY <1>1 DEF PopWord, Peek
<1> HIDE DEF f, d, k
<1>5. d = Return(f)
  BY <1>1, <1>2 DEF Arms
<1>6. /\ Kept(f, g) /\ g.reg = f.reg /\ g.flag = f.flag /\ g.sp = Next16(Next16(f.sp)) /\ g.mem = f.mem
      /\ w \in Word
  BY <1>1, PoppedKeeps, PoppedMemory
<1>7. d = [g EXCEPT !.pc = w]
  BY <1>5 DEF Return
<1> HIDE DEF g, w
<1>8. /\ d.pc = w /\ d.reg = g.reg /\ d.flag = g.flag /\ d.sp = g.sp /\ d.mem = g.mem /\ d.halted = g.halted
  BY <1>6, <1>7 DEF Kept, Machine
<1>9. QED
  BY <1>1, <1>3, <1>4, <1>6, <1>8 DEF Kept, d, k

LEMMA StepMoveB ==
  ASSUME NEW c \in Machine, ~c.halted, NEW input \in Byte, Peek(c, c.pc) = 6
  PROVE  LET d == Step(c, input)
         IN  /\ Goes(c, d, 2, 7) /\ d.mem = c.mem /\ d.sp = c.sp
             /\ \A r \in Register : r # 0 => d.reg[r] = c.reg[r]
<1> DEFINE d == Step(c, input)
           k == Peek(c, c.pc)
           f == Fetch(c)
           b == OperandBytes(c)[1]
<1>1. /\ f \in Machine /\ f.pc = (c.pc + Length(k)) % 65536 /\ f.reg = c.reg
      /\ f.flag = c.flag /\ f.sp = c.sp /\ f.mem = c.mem /\ ~f.halted
      /\ d = Execute(f, k, OperandBytes(c), input) /\ Arms(f, k, OperandBytes(c), input)
      /\ d \in Machine
  BY StepAs
<1>2. k \in MVI /\ k \in Byte /\ Y(k) = 0
  BY HandlerCodes, StepIs
<1>3. Length(k) = 2 /\ k \notin Unassigned /\ ~UsesM(k)
  BY <1>2, LengthAre, Octal, FamilyOf, UsesMIs DEF Families, RegM
<1>4. StatesOf(c, k) = 7
  BY <1>2, <1>3, StatesAre
<1> HIDE DEF f, d, k, b
<1>5. d = Set(f, 0, b)
  BY <1>1, <1>2 DEF Arms, b
<1>6. d = [f EXCEPT !.reg[0] = b]
  BY <1>5 DEF Set, RegM
<1>7. /\ d.pc = f.pc /\ d.halted = f.halted /\ d.mem = f.mem /\ d.sp = f.sp
      /\ d.reg = [f.reg EXCEPT ![0] = b]
  BY <1>1, <1>6 DEF Machine
<1>8. \A r \in Register : r # 0 => d.reg[r] = c.reg[r]
  BY <1>1, <1>7 DEF Machine
<1>9. Goes(c, d, 2, 7)
  BY <1>1, <1>3, <1>4, <1>7 DEF Goes, k
<1>10. QED
  BY <1>1, <1>7, <1>8, <1>9 DEF d

LEMMA StepLoadHL ==
  ASSUME NEW c \in Machine, ~c.halted, NEW input \in Byte, Peek(c, c.pc) = 33
  PROVE  LET d == Step(c, input)
         IN  /\ Goes(c, d, 3, 10) /\ d.mem = c.mem /\ d.sp = c.sp
             /\ \A r \in Register : r # RegH /\ r # RegL => d.reg[r] = c.reg[r]
             /\ d.reg[RegH] = Peek(c, Next16(Next16(c.pc))) /\ d.reg[RegL] = Peek(c, Next16(c.pc))
<1> DEFINE d == Step(c, input)
           k == Peek(c, c.pc)
           f == Fetch(c)
           high == Peek(c, Next16(Next16(c.pc)))
           low == Peek(c, Next16(c.pc))
           w == Compose(high, low)
<1>1. /\ f \in Machine /\ f.pc = (c.pc + Length(k)) % 65536 /\ f.reg = c.reg
      /\ f.flag = c.flag /\ f.sp = c.sp /\ f.mem = c.mem /\ ~f.halted
      /\ d = Execute(f, k, OperandBytes(c), input) /\ Arms(f, k, OperandBytes(c), input)
      /\ d \in Machine
  BY StepAs
<1>2. k \in LXI /\ k \in Byte /\ PairOf(k) = 2
  BY HandlerCodes, StepIs
<1>3. Length(k) = 3 /\ k \notin Unassigned
  BY <1>2, LengthAre, Octal, FamilyOf DEF Families, Even
<1>4. StatesOf(c, k) = 10
  BY <1>2, <1>3, StatesAre
<1>5. high \in Byte /\ low \in Byte
  BY PeekType
<1>6. w \in Word /\ High(w) = high /\ Low(w) = low
  BY <1>5, Composed
<1> HIDE DEF f, d, k
<1>7. d = SetPair(f, 2, w)
  BY <1>1, <1>2 DEF Arms, OperandBytes
<1> HIDE DEF w, high, low
<1>8. 2 \in 0 .. 3 /\ 2 # 3
  OBVIOUS
<1>9. /\ Kept(f, d) /\ d.mem = f.mem /\ d.sp = f.sp
  BY <1>1, <1>6, <1>7, <1>8, SetPairKeeps
<1>10. d.reg = [f.reg EXCEPT ![2 * 2] = High(w), ![2 * 2 + 1] = Low(w)]
  BY <1>1, <1>6, <1>7, <1>8, SetPairRegisters
<1>11. /\ \A r \in Register : r # RegH /\ r # RegL => d.reg[r] = c.reg[r]
       /\ d.reg[RegH] = high /\ d.reg[RegL] = low
  BY <1>1, <1>6, <1>10 DEF Machine, Register, RegM, RegH, RegL
<1>12. Goes(c, d, 3, 10)
  BY <1>1, <1>3, <1>4, <1>9 DEF Goes, Kept, k
<1>13. QED
  BY <1>1, <1>9, <1>11, <1>12 DEF d, high, low

LEMMA StepClearA ==
  ASSUME NEW c \in Machine, ~c.halted, NEW input \in Byte, Peek(c, c.pc) = 175
  PROVE  LET d == Step(c, input)
         IN  /\ Goes(c, d, 1, 4) /\ d.mem = c.mem /\ d.sp = c.sp
             /\ \A r \in Register : r # RegA => d.reg[r] = c.reg[r]
<1> DEFINE d == Step(c, input)
           k == Peek(c, c.pc)
           f == Fetch(c)
           v == Get(f, RegA)
           r1 == ALU("XRA", f.reg[RegA], v, f.flag.carry)
           g == [f EXCEPT !.flag = r1.flags]
<1>1. /\ f \in Machine /\ f.pc = (c.pc + Length(k)) % 65536 /\ f.reg = c.reg
      /\ f.flag = c.flag /\ f.sp = c.sp /\ f.mem = c.mem /\ ~f.halted
      /\ d = Execute(f, k, OperandBytes(c), input) /\ Arms(f, k, OperandBytes(c), input)
      /\ d \in Machine
  BY StepAs
<1>2. k \in ALUReg /\ k \in Byte /\ Z(k) = RegA /\ GroupOf(k) = "XRA"
  BY HandlerCodes, StepIs
<1>3. Length(k) = 1 /\ k \notin Unassigned /\ ~UsesM(k)
  BY <1>2, LengthAre, Octal, FamilyOf, UsesMIs DEF Families, RegM, RegA
<1>4. StatesOf(c, k) = 4
  BY <1>2, <1>3, StatesAre
<1> HIDE DEF f, d, k
<1>5. d = Arithmetic(Touch(f, RegA), "XRA", v)
  BY <1>1, <1>2 DEF Arms
<1>6. Touch(f, RegA) = f
  BY DEF Touch, RegA, RegM
<1>7. d = SetA(g, r1.out)
  BY <1>5, <1>6 DEF Arithmetic
<1>8. v \in Byte /\ f.reg[RegA] \in Byte /\ f.flag.carry \in BOOLEAN /\ "XRA" \in Group
  BY <1>1, GetType, HLRegisters DEF RegA, Machine, Flags, Group
<1>9. r1.out \in Byte /\ r1.flags \in Flags
  BY <1>8, ALUType
<1> HIDE DEF v, r1
<1>10. Kept(f, g) /\ g.mem = f.mem /\ g.reg = f.reg /\ g.sp = f.sp
  BY <1>1, <1>9, SetFlagsKeeps
<1> HIDE DEF g
<1>11. /\ Kept(g, d) /\ d.mem = g.mem /\ d.sp = g.sp /\ d.reg = [g.reg EXCEPT ![RegA] = r1.out]
  BY <1>7, <1>9, <1>10, SetAKeeps, SetARegisters DEF Kept
<1>12. \A r \in Register : r # RegA => d.reg[r] = c.reg[r]
  BY <1>1, <1>10, <1>11 DEF Machine
<1>13. Goes(c, d, 1, 4)
  BY <1>1, <1>3, <1>4, <1>10, <1>11 DEF Goes, Kept, k
<1>14. QED
  BY <1>1, <1>10, <1>11, <1>12, <1>13 DEF d

LEMMA StepCountCell ==
  ASSUME NEW c \in Machine, ~c.halted, NEW input \in Byte, Peek(c, c.pc) = 53
  PROVE  LET d == Step(c, input)
         IN  /\ Goes(c, d, 1, 10) /\ Spares(c, d, {HL(c)}) /\ d.sp = c.sp /\ d.reg = c.reg
<1> DEFINE d == Step(c, input)
           k == Peek(c, c.pc)
           f == Fetch(c)
           t == Touch(f, RegM)
           v == Get(f, RegM)
           r1 == ALU("SUB", v, 1, FALSE)
           fl == [r1.flags EXCEPT !.carry = f.flag.carry]
           g == [t EXCEPT !.flag = fl]
           out == r1.out
<1>1. /\ f \in Machine /\ f.pc = (c.pc + Length(k)) % 65536 /\ f.reg = c.reg
      /\ f.flag = c.flag /\ f.sp = c.sp /\ f.mem = c.mem /\ ~f.halted
      /\ d = Execute(f, k, OperandBytes(c), input) /\ Arms(f, k, OperandBytes(c), input)
      /\ d \in Machine
  BY StepAs
<1>2. k \in DCR /\ k \in Byte /\ Y(k) = RegM
  BY HandlerCodes, StepIs
<1>3. Length(k) = 1 /\ k \notin Unassigned /\ UsesM(k)
  BY <1>2, LengthAre, Octal, FamilyOf, UsesMIs DEF Families, RegM
<1>4. StatesOf(c, k) = 10
  BY <1>2, <1>3, StatesAre
<1> HIDE DEF f, d, k
<1>5. d = Step1(f, RegM, "SUB")
  BY <1>1, <1>2 DEF Arms
<1>6. d = Set(g, RegM, out)
  BY <1>5 DEF Step1
<1>7. t = Log(f, "MR") /\ "MR" \in Cycle /\ "MW" \in Cycle
  BY DEF Touch, Cycle
<1>8. v \in Byte /\ 1 \in Byte /\ FALSE \in BOOLEAN /\ "SUB" \in Group
  BY <1>1, GetType, ByteIs DEF RegM, Group
<1>9. r1.out \in Byte /\ r1.flags \in Flags
  BY <1>8, ALUType
<1>10. out \in Byte /\ fl \in Flags
  <2> HIDE DEF r1
  <2>1. f.flag.carry \in BOOLEAN
    BY <1>1 DEF Machine, Flags
  <2>2. QED
    BY <1>9, <2>1 DEF Flags
<1> HIDE DEF v, r1, fl, t, out
<1>11. Kept(f, t) /\ t.mem = f.mem /\ t.reg = f.reg /\ t.sp = f.sp
  BY <1>1, <1>7, LogKeeps
<1>12. Kept(t, g) /\ g.mem = t.mem /\ g.reg = t.reg /\ g.sp = t.sp
  BY <1>10, <1>11, SetFlagsKeeps DEF Kept
<1> HIDE DEF g
<1>13. HL(g) = HL(c) /\ HL(c) \in Word
  BY <1>1, <1>11, <1>12, HLType DEF HL
<1>14. d = Store(g, HL(c), out, "MW")
  BY <1>6, <1>13 DEF Set, RegM
<1>15. g \in Machine
  BY <1>12 DEF Kept
<1>16. Kept(g, d) /\ d.reg = g.reg /\ d.sp = g.sp /\ Spares(g, d, {HL(c)})
  BY <1>7, <1>10, <1>13, <1>14, <1>15, StoreKeeps, SparesStore
<1>17. Spares(c, d, {HL(c)})
  BY <1>1, <1>11, <1>12, <1>16 DEF Spares, Peek
<1>18. Goes(c, d, 1, 10)
  BY <1>1, <1>3, <1>4, <1>11, <1>12, <1>16 DEF Goes, Kept, k
<1>19. QED
  BY <1>1, <1>11, <1>12, <1>16, <1>17, <1>18 DEF d

LEMMA StepEnable ==
  ASSUME NEW c \in Machine, ~c.halted, NEW input \in Byte, Peek(c, c.pc) = EI
  PROVE  LET d == Step(c, input)
         IN  /\ Goes(c, d, 1, 4) /\ d.mem = c.mem /\ d.sp = c.sp
             /\ d.reg = c.reg /\ d.flag = c.flag
<1> DEFINE d == Step(c, input)
           k == Peek(c, c.pc)
           f == Fetch(c)
<1>1. /\ f \in Machine /\ f.pc = (c.pc + Length(k)) % 65536 /\ f.reg = c.reg
      /\ f.flag = c.flag /\ f.sp = c.sp /\ f.mem = c.mem /\ ~f.halted
      /\ d = Execute(f, k, OperandBytes(c), input) /\ Arms(f, k, OperandBytes(c), input)
      /\ d \in Machine
  BY StepAs
<1>2. k = EI /\ k \in Byte /\ k \notin Unassigned
  BY HandlerCodes, StepIs
<1>3. Length(k) = 1
  BY <1>2, LengthAre
<1>4. StatesOf(c, k) = 4
  BY <1>2, <1>3, StatesAre
<1> HIDE DEF f, d, k
<1>5. d = [f EXCEPT !.enabled = (k = EI)]
  BY <1>1, <1>2 DEF Arms
<1>6. /\ d.pc = f.pc /\ d.halted = f.halted /\ d.mem = f.mem /\ d.sp = f.sp /\ d.reg = f.reg
      /\ d.flag = f.flag
  BY <1>1, <1>5 DEF Machine
<1>7. Goes(c, d, 1, 4)
  BY <1>1, <1>3, <1>4, <1>6 DEF Goes, k
<1>8. QED
  BY <1>1, <1>6, <1>7 DEF d

\* A restart that is forced.
LEMMA JamRestart ==
  ASSUME NEW c \in Machine, NEW k \in {255, 207}
  PROVE  LET d == JamOf(c, k, <<0, 0>>, 0)
             above == Previous16(c.sp)
         IN  /\ d \in Machine /\ ~d.halted /\ d.pc = (IF k = 255 THEN 56 ELSE 8)
             /\ d.reg = c.reg /\ d.flag = c.flag /\ StatesOf(c, k) = 11
             /\ d.sp = Previous16(above) /\ Spares(c, d, {above, Previous16(above)})
             /\ Peek(d, above) = High(c.pc) /\ Peek(d, Previous16(above)) = Low(c.pc)
<1> DEFINE d == JamOf(c, k, <<0, 0>>, 0)
           w == Woken(c)
           target == 8 * Y(k)
           e == PushWord(w, w.pc)
<1>1. k \in Byte /\ k \in RST /\ Y(k) = (IF k = 255 THEN 7 ELSE 1) /\ 0 \in Byte
  <2>1. k = 255 \/ k = 207
    OBVIOUS
  <2>2. k \in Byte /\ 0 \in Byte
    BY <2>1, ByteIs
  <2>3. QED
    BY <2>1, <2>2, HandlerCodes
<1>2. <<0, 0>> \in Byte \X Byte
  BY <1>1
<1>3. d = Execute(w, k, <<0, 0>>, 0) /\ d \in Machine
  BY <1>1, <1>2, JamType
<1>4. /\ w \in Machine /\ w.pc = c.pc /\ w.reg = c.reg /\ w.flag = c.flag /\ w.sp = c.sp
      /\ w.mem = c.mem /\ w.halted = FALSE
  BY WokenIs
<1>5. Arms(w, k, <<0, 0>>, 0)
  BY <1>1, OneArm
<1>6. k \notin Unassigned
  BY <1>1, Octal, FamilyOf DEF Families
<1>7. StatesOf(c, k) = 11
  BY <1>1, <1>6, StatesAre
<1> HIDE DEF d, w
<1>8. d = CallTo(w, target)
  BY <1>1, <1>3, <1>5 DEF Arms
<1>9. target = (IF k = 255 THEN 56 ELSE 8) /\ target \in Word
  BY <1>1, WordIs
<1> HIDE DEF target
<1>10. d = [e EXCEPT !.pc = target]
  BY <1>8 DEF CallTo
<1>11. /\ d.pc = target /\ d.halted = w.halted /\ d.reg = w.reg /\ d.flag = w.flag
       /\ d.sp = Previous16(Previous16(w.sp))
  BY <1>4, <1>8, <1>9, CallToKeeps
<1>12. w.pc \in Word
  BY <1>4 DEF Machine
<1>13. /\ Spares(w, e, {Previous16(w.sp), Previous16(Previous16(w.sp))}) /\ e \in Machine
       /\ Peek(e, Previous16(w.sp)) = High(w.pc) /\ Peek(e, Previous16(Previous16(w.sp))) = Low(w.pc)
  BY <1>4, <1>12, PushWordCells, PushWordKeeps DEF Kept
<1> HIDE DEF e
<1>14. d.mem = e.mem
  BY <1>10, <1>13 DEF Machine
<1>15. /\ Spares(c, d, {Previous16(c.sp), Previous16(Previous16(c.sp))})
       /\ Peek(d, Previous16(c.sp)) = High(c.pc) /\ Peek(d, Previous16(Previous16(c.sp))) = Low(c.pc)
  BY <1>4, <1>13, <1>14 DEF Spares, Peek
<1>16. QED
  BY <1>3, <1>4, <1>7, <1>9, <1>11, <1>15 DEF d

---------------------------------------------------------------------------
(* One instruction of a handler.                                           *)

\* The cells of the stack a handler that interrupted context x may use.
Zone(sp, x) == {Down(sp, x.low + k) : k \in 1 .. 8}

\* Machine c is at offset o of a handler that interrupted context x, in context y.
Running(sp, c, x, y, o) ==
  /\ sp \in Word /\ c \in Machine /\ ~c.halted /\ x \in Context /\ y \in Context /\ x.low <= 56
  /\ o \in Offsets /\ ServingAt(sp, c, x, y, o)
  /\ c.reg = y.reg /\ c.flag = y.flag /\ c.pc = y.pc /\ c.sp = Down(sp, y.low)
  /\ \A i \in DOMAIN Handler : Peek(c, HandlerAt + i - 1) = Handler[i]

\* The context of d after one more instruction.
Later(x, y, d, o, cost) ==
  [reg |-> d.reg, flag |-> d.flag, pc |-> d.pc, low |-> x.low + Room(o),
   time |-> y.time + cost, count |-> y.count + 1]

\* Machine c has gone on to d, at offset o.
Advances(sp, c, x, y, d, o, cost) ==
  /\ d \in Machine /\ ~d.halted /\ StatesOf(c, Peek(c, c.pc)) = cost
  /\ Later(x, y, d, o, cost) \in Context /\ ServingAt(sp, d, x, Later(x, y, d, o, cost), o)
  /\ d.sp = Down(sp, x.low + Room(o))
  /\ Spares(c, d, {WorkCell} \cup Zone(sp, x))

LEMMA HandlerBytes ==
  ASSUME NEW c, \A i \in DOMAIN Handler : Peek(c, HandlerAt + i - 1) = Handler[i]
  PROVE  /\ Peek(c, 56) = 245 /\ Peek(c, 57) = 197 /\ Peek(c, 58) = 229 /\ Peek(c, 59) = 6
         /\ Peek(c, 61) = 33 /\ Peek(c, 62) = 255 /\ Peek(c, 63) = 0 /\ Peek(c, 64) = 175
         /\ Peek(c, 65) = 53 /\ Peek(c, 66) = 225 /\ Peek(c, 67) = 193 /\ Peek(c, 68) = 241
         /\ Peek(c, 69) = EI /\ Peek(c, 70) = RET
<1>1. DOMAIN Handler = 1 .. 15
  BY DEF Handler
<1>2. \A i \in 1 .. 15 : Peek(c, HandlerAt + i - 1) = Handler[i]
  BY <1>1
<1>3. /\ Handler[1] = 245 /\ Handler[2] = 197 /\ Handler[3] = 229 /\ Handler[4] = 6
      /\ Handler[6] = 33 /\ Handler[7] = 255 /\ Handler[8] = 0 /\ Handler[9] = 175
      /\ Handler[10] = 53 /\ Handler[11] = 225 /\ Handler[12] = 193 /\ Handler[13] = 241
      /\ Handler[14] = EI /\ Handler[15] = RET
  BY DEF Handler
<1>4. /\ Peek(c, HandlerAt + 1 - 1) = Handler[1] /\ Peek(c, HandlerAt + 2 - 1) = Handler[2]
      /\ Peek(c, HandlerAt + 3 - 1) = Handler[3] /\ Peek(c, HandlerAt + 4 - 1) = Handler[4]
      /\ Peek(c, HandlerAt + 6 - 1) = Handler[6] /\ Peek(c, HandlerAt + 7 - 1) = Handler[7]
      /\ Peek(c, HandlerAt + 8 - 1) = Handler[8] /\ Peek(c, HandlerAt + 9 - 1) = Handler[9]
      /\ Peek(c, HandlerAt + 10 - 1) = Handler[10] /\ Peek(c, HandlerAt + 11 - 1) = Handler[11]
      /\ Peek(c, HandlerAt + 12 - 1) = Handler[12] /\ Peek(c, HandlerAt + 13 - 1) = Handler[13]
      /\ Peek(c, HandlerAt + 14 - 1) = Handler[14] /\ Peek(c, HandlerAt + 15 - 1) = Handler[15]
  <2> HIDE DEF Handler
  <2> QED BY <1>2
<1>5. QED
  <2> HIDE DEF Handler, EI, RET
  <2> QED BY <1>3, <1>4 DEF HandlerAt

\* What is known of the machine, by numbers.
LEMMA RunningIs ==
  ASSUME NEW sp, NEW c, NEW x, NEW y, NEW o, Running(sp, c, x, y, o)
  PROVE  /\ sp \in Word /\ c \in Machine /\ ~c.halted /\ x \in Context /\ y \in Context
         /\ x.low \in Nat /\ x.low <= 56 /\ Room(o) \in 2 .. 8
         /\ c.pc = 56 + o /\ c.sp = Down(sp, x.low + Room(o))
         /\ y.low = x.low + Room(o)
         /\ y.time = x.time + Taking(o) /\ y.count = x.count + Number(o)
         /\ x.time \in Int /\ x.count \in Int
         /\ c.reg \in [Register -> Byte] /\ x.reg \in [Register -> Byte]
         /\ \A r \in Intact(o) : c.reg[r] = x.reg[r]
         /\ o \in {0, 1, 2, 3, 13, 14} => c.flag = x.flag
         /\ o \in {8, 9} => c.reg[RegH] = 0 /\ c.reg[RegL] = WorkCell
         /\ \A k \in 1 .. Room(o) : Peek(c, Down(sp, x.low + k)) = Saved(x, k)
<1>1. Room(o) \in 2 .. 8
  BY DEF Room
<1>2. c.pc = 56 + o /\ c.sp = Down(sp, x.low + Room(o))
  BY DEF Running, ServingAt, HandlerAt
<1>3. /\ \A r \in Intact(o) : c.reg[r] = x.reg[r]
      /\ o \in {0, 1, 2, 3, 13, 14} => c.flag = x.flag
      /\ o \in {8, 9} => c.reg[RegH] = 0 /\ c.reg[RegL] = WorkCell
  BY DEF Running, ServingAt
<1>4. x.low \in Nat /\ x.time \in Int /\ x.count \in Int /\ x.reg \in [Register -> Byte]
  BY DEF Running, Context
<1>5. c.reg \in [Register -> Byte]
  BY DEF Running, Machine
<1>6. QED
  BY <1>1, <1>2, <1>3, <1>4, <1>5 DEF Running, ServingAt

\* The context after an instruction that leaves the right bytes in the right places.
LEMMA LaterIs ==
  ASSUME NEW sp, NEW c, NEW x, NEW y, NEW o, Running(sp, c, x, y, o),
         NEW d \in Machine, ~d.halted, NEW o2 \in Offsets, NEW cost \in Int,
         StatesOf(c, Peek(c, c.pc)) = cost, d.pc = 56 + o2,
         Taking(o) + cost = Taking(o2), Number(o) + 1 = Number(o2),
         d.sp = Down(sp, x.low + Room(o2)), Spares(c, d, {WorkCell} \cup Zone(sp, x)),
         \A k \in 1 .. Room(o2) : Peek(d, Down(sp, x.low + k)) = Saved(x, k),
         \A r \in Intact(o2) : d.reg[r] = x.reg[r],
         o2 \in {0, 1, 2, 3, 13, 14} => d.flag = x.flag,
         o2 \in {8, 9} => d.reg[RegH] = 0 /\ d.reg[RegL] = WorkCell
  PROVE  Advances(sp, c, x, y, d, o2, cost)
<1> DEFINE z == Later(x, y, d, o2, cost)
<1>1. /\ x.low \in Nat /\ x.time \in Int /\ x.count \in Int
      /\ y.time = x.time + Taking(o) /\ y.count = x.count + Number(o)
  BY RunningIs
<1>2. Taking(o) \in Int /\ Number(o) \in Int /\ Room(o2) \in Nat
  <2>1. o \in Offsets
    BY DEF Running
  <2>2. QED
    BY <2>1 DEF Taking, Number, Room, Offsets
<1>3. /\ z.reg = d.reg /\ z.flag = d.flag /\ z.pc = d.pc /\ z.low = x.low + Room(o2)
      /\ z.time = y.time + cost /\ z.count = y.count + 1
      /\ z = [reg |-> z.reg, flag |-> z.flag, pc |-> z.pc, low |-> z.low, time |-> z.time, count |-> z.count]
  BY DEF Later
<1> HIDE DEF z
<1>4. d.reg \in [Register -> Byte] /\ d.flag \in Flags /\ d.pc \in Word
  BY DEF Machine
<1>5. z.low \in Nat /\ z.time \in Int /\ z.count \in Int
  BY <1>1, <1>2, <1>3
<1>6. z \in Context
  BY <1>3, <1>4, <1>5 DEF Context
<1>7. z.time = x.time + Taking(o2) /\ z.count = x.count + Number(o2)
  BY <1>1, <1>2, <1>3
<1>8. ServingAt(sp, d, x, z, o2)
  BY <1>3, <1>7 DEF ServingAt, HandlerAt
<1>9. QED
  BY <1>6, <1>8 DEF Advances, z

\* An instruction that leaves the stack alone.
LEMMA Undisturbed ==
  ASSUME NEW sp, NEW c, NEW x, NEW y, NEW o, Running(sp, c, x, y, o), NEW d,
         \A k \in 1 .. Room(o) : Peek(d, Down(sp, x.low + k)) = Peek(c, Down(sp, x.low + k)),
         NEW n \in 0 .. Room(o)
  PROVE  \A k \in 1 .. n : Peek(d, Down(sp, x.low + k)) = Saved(x, k)
<1>1. Room(o) \in Nat
  BY RunningIs
<1>2. \A k \in 1 .. Room(o) : Peek(c, Down(sp, x.low + k)) = Saved(x, k)
  BY RunningIs
<1>3. \A k \in 1 .. n : k \in 1 .. Room(o)
  BY <1>1
<1>4. QED
  BY <1>2, <1>3

\* PUSH PSW, B and H.
LEMMA MovePush ==
  ASSUME NEW sp, NEW c, NEW x, NEW y, NEW o \in {0, 1, 2}, Running(sp, c, x, y, o), NEW input \in Byte
  PROVE  Advances(sp, c, x, y, Step(c, input), o + 1, 11)
<1> DEFINE d == Step(c, input)
           L == x.low
           n == L + Room(o)
           above == Down(sp, n + 1)
           below == Down(sp, n + 2)
<1>1. /\ sp \in Word /\ c \in Machine /\ ~c.halted /\ L \in Nat /\ L <= 56
      /\ c.pc = 56 + o /\ c.sp = Down(sp, n)
      /\ c.reg \in [Register -> Byte] /\ x.reg \in [Register -> Byte]
      /\ \A r \in Intact(o) : c.reg[r] = x.reg[r]
      /\ o \in {0, 1, 2, 3, 13, 14} => c.flag = x.flag
      /\ \A k \in 1 .. Room(o) : Peek(c, Down(sp, L + k)) = Saved(x, k)
  BY RunningIs
<1>2. o = 0 \/ o = 1 \/ o = 2
  OBVIOUS
<1>3. Room(o) = 2 * (o + 1) /\ Room(o + 1) = 2 * (o + 1) + 2 /\ o \in Int
  BY <1>2 DEF Room
<1>4. Intact(o) = Register /\ Intact(o + 1) = Register
  BY <1>2 DEF Intact
<1>5. c.reg = x.reg /\ c.flag = x.flag
  BY <1>1, <1>2, <1>4
<1>6. Peek(c, c.pc) = (IF o = 0 THEN 245 ELSE IF o = 1 THEN 197 ELSE 229)
  BY <1>1, <1>2, HandlerBytes DEF Running
<1>7. n \in Nat /\ n < 900
  BY <1>1, <1>2, <1>3
<1>8. Previous16(c.sp) = above /\ Previous16(above) = below
  <2> HIDE DEF n
  <2>1. n + 1 \in Nat /\ n + 1 < 1000 /\ n < 1000 /\ n + 1 + 1 = n + 2
    BY <1>7
  <2>2. Previous16(Down(sp, n)) = Down(sp, n + 1) /\ Previous16(Down(sp, n + 1)) = Down(sp, n + 1 + 1)
    BY <1>1, <1>7, <2>1, Downs
  <2>3. QED
    BY <1>1, <2>1, <2>2
<1>9. Peek(c, c.pc) \in {245, 197, 229}
  BY <1>2, <1>6
<1> DEFINE k0 == Peek(c, c.pc)
           high == IF k0 = 245 THEN c.reg[RegA] ELSE IF k0 = 197 THEN c.reg[0] ELSE c.reg[RegH]
           low == IF k0 = 245 THEN FlagsByte(c.flag) ELSE IF k0 = 197 THEN c.reg[1] ELSE c.reg[RegL]
<1>10. /\ Goes(c, d, 1, 11) /\ d.reg = c.reg /\ d.flag = c.flag
       /\ d.sp = Previous16(Previous16(c.sp)) /\ Spares(c, d, {Previous16(c.sp), Previous16(Previous16(c.sp))})
       /\ Peek(d, Previous16(c.sp)) = high /\ Peek(d, Previous16(Previous16(c.sp))) = low
  BY <1>1, <1>9, StepPush
<1>11. high = Saved(x, Room(o) + 1) /\ low = Saved(x, Room(o) + 2)
  BY <1>2, <1>3, <1>5, <1>6 DEF Saved
<1> HIDE DEF d, high, low, L, n
<1>12. d.sp = below /\ Spares(c, d, {above, below}) /\ Peek(d, above) = Saved(x, Room(o) + 1)
       /\ Peek(d, below) = Saved(x, Room(o) + 2)
  BY <1>8, <1>10, <1>11
<1>13. /\ above = Down(sp, L + (Room(o) + 1)) /\ below = Down(sp, L + (Room(o) + 2))
       /\ below = Down(sp, L + Room(o + 1))
  BY <1>1, <1>3 DEF n
<1>14. \A k \in 1 .. Room(o) : Down(sp, L + k) # above /\ Down(sp, L + k) # below
  <2> SUFFICES ASSUME NEW k \in 1 .. Room(o) PROVE Down(sp, L + k) # above /\ Down(sp, L + k) # below
    OBVIOUS
  <2>1. /\ L + k \in Nat /\ n + 1 \in Nat /\ n + 2 \in Nat /\ L + k # n + 1 /\ L + k # n + 2
        /\ L + k <= 1000 /\ n + 1 <= 1000 /\ n + 2 <= 1000
    BY <1>1, <1>2, <1>3 DEF n
  <2>2. QED
    BY <1>1, <2>1, DownApart
<1>15. \A k \in 1 .. Room(o + 1) : Peek(d, Down(sp, L + k)) = Saved(x, k)
  <2> SUFFICES ASSUME NEW k \in 1 .. Room(o + 1) PROVE Peek(d, Down(sp, L + k)) = Saved(x, k)
    OBVIOUS
  <2>1. k \in 1 .. Room(o) \/ k = Room(o) + 1 \/ k = Room(o) + 2
    BY <1>2, <1>3
  <2>2. CASE k \in 1 .. Room(o)
    BY <1>1, <1>12, <1>14, <2>2 DEF Spares, L
  <2>3. QED
    BY <1>12, <1>13, <2>1, <2>2
<1>16. Spares(c, d, {WorkCell} \cup Zone(sp, x))
  <2>1. Room(o) + 1 \in 1 .. 8 /\ Room(o) + 2 \in 1 .. 8
    BY <1>2, <1>3
  <2>2. above \in Zone(sp, x) /\ below \in Zone(sp, x)
    BY <1>13, <2>1 DEF Zone, L
  <2>3. QED
    BY <1>12, <2>2, SparesWeaken
<1>17. /\ o + 1 \in Offsets /\ Taking(o) + 11 = Taking(o + 1) /\ Number(o) + 1 = Number(o + 1)
       /\ 11 \in Int
  BY <1>2 DEF Offsets, Taking, Number
<1>18. /\ d \in Machine /\ ~d.halted /\ d.pc = 56 + (o + 1) /\ StatesOf(c, Peek(c, c.pc)) = 11
  <2>1. (56 + o + 1) % 65536 = 56 + (o + 1)
    BY <1>2
  <2>2. QED
    BY <1>1, <1>10, <2>1 DEF Goes
<1>19. \A r \in Intact(o + 1) : d.reg[r] = x.reg[r]
  BY <1>5, <1>10
<1>20. d.flag = x.flag
  BY <1>5, <1>10
<1>21. ~(o + 1 \in {8, 9})
  BY <1>2
<1>22. Advances(sp, c, x, y, d, o + 1, 11)
  <2>1. d.sp = Down(sp, x.low + Room(o + 1)) /\ \A k \in 1 .. Room(o + 1) : Peek(d, Down(sp, x.low + k)) = Saved(x, k)
    BY <1>12, <1>13, <1>15 DEF L
  <2>2. QED
    BY <2>1, <1>16, <1>17, <1>18, <1>19, <1>20, <1>21, LaterIs
<1>23. QED
  BY <1>22 DEF d

\* POP H, B and PSW.
LEMMA MovePop ==
  ASSUME NEW sp, NEW c, NEW x, NEW y, NEW o \in {10, 11, 12}, Running(sp, c, x, y, o), NEW input \in Byte
  PROVE  Advances(sp, c, x, y, Step(c, input), o + 1, 10)
<1> DEFINE d == Step(c, input)
           L == x.low
           n == L + Room(o)
           j == L + Room(o + 1)
           k0 == Peek(c, c.pc)
           low == Peek(c, c.sp)
           high == Peek(c, Next16(c.sp))
<1>1. /\ sp \in Word /\ c \in Machine /\ ~c.halted /\ L \in Nat /\ L <= 56
      /\ c.pc = 56 + o /\ c.sp = Down(sp, n)
      /\ c.reg \in [Register -> Byte] /\ x.reg \in [Register -> Byte]
      /\ \A r \in Intact(o) : c.reg[r] = x.reg[r]
      /\ \A k \in 1 .. Room(o) : Peek(c, Down(sp, L + k)) = Saved(x, k)
  BY RunningIs
<1>2. o = 10 \/ o = 11 \/ o = 12
  OBVIOUS
<1>3. Room(o) = 28 - 2 * o /\ Room(o + 1) = 26 - 2 * o /\ o \in Int
  BY <1>2 DEF Room
<1>4. k0 = (IF o = 10 THEN 225 ELSE IF o = 11 THEN 193 ELSE 241)
  BY <1>1, <1>2, HandlerBytes DEF Running
<1>5. k0 \in {241, 193, 225}
  BY <1>2, <1>4
<1>6. n \in Nat /\ n < 900 /\ j \in Nat /\ n = j + 1 + 1 /\ j + 1 \in Nat
  BY <1>1, <1>2, <1>3
<1>7. Next16(c.sp) = Down(sp, j + 1) /\ Next16(Down(sp, j + 1)) = Down(sp, j)
  <2> HIDE DEF n, j
  <2>0. j + 1 < 1000 /\ j < 1000
    BY <1>6
  <2>1. Next16(Down(sp, j + 1 + 1)) = Down(sp, j + 1) /\ Next16(Down(sp, j + 1)) = Down(sp, j)
    BY <1>1, <1>6, <2>0, Downs
  <2>2. QED
    BY <1>1, <1>6, <2>1
<1>8. low = Saved(x, Room(o)) /\ high = Saved(x, Room(o) - 1)
  <2>1. Room(o) \in 1 .. Room(o) /\ Room(o) - 1 \in 1 .. Room(o) /\ L + (Room(o) - 1) = j + 1
    BY <1>1, <1>2, <1>3
  <2>2. Peek(c, Down(sp, L + Room(o))) = Saved(x, Room(o)) /\ Peek(c, Down(sp, L + (Room(o) - 1))) = Saved(x, Room(o) - 1)
    BY <1>1, <2>1
  <2>3. QED
    BY <1>1, <1>7, <2>1, <2>2
<1>9. /\ Goes(c, d, 1, 10) /\ d.mem = c.mem /\ d.sp = Next16(Next16(c.sp))
      /\ d.flag = (IF k0 = 241 THEN FlagsOf(low) ELSE c.flag)
      /\ d.reg = IF k0 = 241 THEN [c.reg EXCEPT ![RegA] = high]
                 ELSE IF k0 = 193 THEN [c.reg EXCEPT ![0] = high, ![1] = low]
                 ELSE [c.reg EXCEPT ![RegH] = high, ![RegL] = low]
  BY <1>1, <1>5, StepPop
<1> HIDE DEF d, low, high, L, n, j, k0
<1>10. d.sp = Down(sp, L + Room(o + 1))
  BY <1>7, <1>9 DEF j
<1>11. \A r \in Intact(o + 1) : d.reg[r] = x.reg[r]
  <2>1. CASE o = 10
    <3>1. d.reg = [c.reg EXCEPT ![RegH] = high, ![RegL] = low] /\ high = x.reg[RegH] /\ low = x.reg[RegL]
      BY <1>3, <1>4, <1>8, <1>9, <2>1 DEF Saved
    <3>2. Intact(o) = {2, 3} /\ Intact(o + 1) = {2, 3, RegH, RegL}
      BY <2>1 DEF Intact
    <3>3. QED
      BY <1>1, <3>1, <3>2 DEF Register, RegH, RegL, RegM
  <2>2. CASE o = 11
    <3>1. d.reg = [c.reg EXCEPT ![0] = high, ![1] = low] /\ high = x.reg[0] /\ low = x.reg[1]
      BY <1>3, <1>4, <1>8, <1>9, <2>2 DEF Saved
    <3>2. Intact(o) = {2, 3, RegH, RegL} /\ Intact(o + 1) = Register \ {RegA}
      BY <2>2 DEF Intact
    <3>3. QED
      BY <1>1, <3>1, <3>2 DEF Register, RegH, RegL, RegM, RegA
  <2>3. CASE o = 12
    <3>1. d.reg = [c.reg EXCEPT ![RegA] = high] /\ high = x.reg[RegA]
      BY <1>3, <1>4, <1>8, <1>9, <2>3 DEF Saved
    <3>2. Intact(o) = Register \ {RegA} /\ Intact(o + 1) = Register
      BY <2>3 DEF Intact
    <3>3. QED
      BY <1>1, <3>1, <3>2 DEF Register, RegM, RegA
  <2>4. QED
    BY <1>2, <2>1, <2>2, <2>3
<1>12. o + 1 \in {0, 1, 2, 3, 13, 14} => d.flag = x.flag
  <2> SUFFICES ASSUME o = 12 PROVE d.flag = x.flag
    BY <1>2
  <2>1. d.flag = FlagsOf(low) /\ low = FlagsByte(x.flag)
    BY <1>3, <1>4, <1>8, <1>9 DEF Saved
  <2>2. x.flag \in Flags
    BY DEF Running, Context
  <2>3. QED
    BY <2>1, <2>2, FlagsByteIs
<1>13. \A k \in 1 .. Room(o + 1) : Peek(d, Down(sp, x.low + k)) = Saved(x, k)
  <2>1. \A k \in 1 .. Room(o) : Peek(d, Down(sp, x.low + k)) = Peek(c, Down(sp, x.low + k))
    BY <1>9 DEF Peek
  <2>2. Room(o + 1) \in 0 .. Room(o)
    BY <1>2, <1>3
  <2>3. QED
    BY <2>1, <2>2, Undisturbed
<1>14. Spares(c, d, {WorkCell} \cup Zone(sp, x))
  BY <1>9, SparesSame
<1>15. /\ o + 1 \in Offsets /\ Taking(o) + 10 = Taking(o + 1) /\ Number(o) + 1 = Number(o + 1)
       /\ 10 \in Int
  BY <1>2 DEF Offsets, Taking, Number
<1>16. /\ d \in Machine /\ ~d.halted /\ d.pc = 56 + (o + 1) /\ StatesOf(c, Peek(c, c.pc)) = 10
  <2>1. (56 + o + 1) % 65536 = 56 + (o + 1)
    BY <1>2
  <2>2. QED
    BY <1>1, <1>9, <2>1 DEF Goes
<1>17. ~(o + 1 \in {8, 9})
  BY <1>2
<1>18. Advances(sp, c, x, y, d, o + 1, 10)
  <2>1. d.sp = Down(sp, x.low + Room(o + 1))
    BY <1>10 DEF L
  <2>2. QED
    BY <2>1, <1>11, <1>12, <1>13, <1>14, <1>15, <1>16, <1>17, LaterIs
<1>19. QED
  BY <1>18 DEF d

\* MVI B, LXI H, XRA A and EI: nothing but registers and flags.
LEMMA MoveRegisters ==
  ASSUME NEW sp, NEW c, NEW x, NEW y, NEW o \in {3, 5, 8, 13}, Running(sp, c, x, y, o),
         NEW input \in Byte
  PROVE  LET o2 == IF o = 3 THEN 5 ELSE IF o = 5 THEN 8 ELSE o + 1
         IN  Advances(sp, c, x, y, Step(c, input), o2, Taking(o2) - Taking(o))
<1> DEFINE d == Step(c, input)
           o2 == IF o = 3 THEN 5 ELSE IF o = 5 THEN 8 ELSE o + 1
           cost == Taking(o2) - Taking(o)
<1>1. /\ sp \in Word /\ c \in Machine /\ ~c.halted
      /\ c.pc = 56 + o /\ c.sp = Down(sp, x.low + Room(o))
      /\ c.reg \in [Register -> Byte] /\ x.reg \in [Register -> Byte]
      /\ \A r \in Intact(o) : c.reg[r] = x.reg[r]
      /\ o \in {0, 1, 2, 3, 13, 14} => c.flag = x.flag
      /\ o \in {8, 9} => c.reg[RegH] = 0 /\ c.reg[RegL] = WorkCell
  BY RunningIs
<1>2. o = 3 \/ o = 5 \/ o = 8 \/ o = 13
  OBVIOUS
<1>3. /\ Room(o2) = Room(o) /\ o2 \in Offsets /\ Number(o) + 1 = Number(o2) /\ cost \in Int
      /\ Taking(o) + cost = Taking(o2)
  BY <1>2 DEF Room, Offsets, Number, Taking
<1>4. /\ d \in Machine /\ ~d.halted /\ d.mem = c.mem /\ d.sp = c.sp /\ d.pc = 56 + o2
      /\ StatesOf(c, Peek(c, c.pc)) = cost
      /\ \A r \in Intact(o2) : d.reg[r] = x.reg[r]
      /\ o2 \in {0, 1, 2, 3, 13, 14} => d.flag = x.flag
      /\ o2 \in {8, 9} => d.reg[RegH] = 0 /\ d.reg[RegL] = WorkCell
  <2> HIDE DEF d
  <2>1. CASE o = 3
    <3>1. Peek(c, c.pc) = 6
      BY <1>1, <2>1, HandlerBytes DEF Running
    <3>2. Goes(c, d, 2, 7) /\ d.mem = c.mem /\ d.sp = c.sp /\ \A r \in Register : r # 0 => d.reg[r] = c.reg[r]
      BY <1>1, <3>1, StepMoveB DEF d
    <3>3. Intact(o2) = {2, 3} /\ Intact(o) = Register /\ cost = 7 /\ o2 = 5
      BY <2>1 DEF Intact, Taking
    <3>4. \A r \in Intact(o2) : d.reg[r] = x.reg[r]
      BY <1>1, <3>2, <3>3 DEF Register, RegM
    <3>5. (c.pc + 2) % 65536 = 61
      BY <1>1, <2>1
    <3>6. QED
      BY <3>2, <3>3, <3>4, <3>5 DEF Goes
  <2>2. CASE o = 5
    <3>1. Peek(c, c.pc) = 33 /\ Peek(c, 62) = 255 /\ Peek(c, 63) = 0
      BY <1>1, <2>2, HandlerBytes DEF Running
    <3>2. c.pc = 61 /\ Next16(c.pc) = 62 /\ Next16(Next16(c.pc)) = 63 /\ (c.pc + 3) % 65536 = 64
      BY <1>1, <2>2 DEF Next16
    <3>3. /\ Goes(c, d, 3, 10) /\ d.mem = c.mem /\ d.sp = c.sp
          /\ \A r \in Register : r # RegH /\ r # RegL => d.reg[r] = c.reg[r]
          /\ d.reg[RegH] = Peek(c, Next16(Next16(c.pc))) /\ d.reg[RegL] = Peek(c, Next16(c.pc))
      BY <1>1, <3>1, StepLoadHL DEF d
    <3>4. Intact(o2) = {2, 3} /\ Intact(o) = {2, 3} /\ cost = 10 /\ o2 = 8
      BY <2>2 DEF Intact, Taking
    <3>5. \A r \in Intact(o2) : d.reg[r] = x.reg[r]
      BY <1>1, <3>3, <3>4 DEF Register, RegM, RegH, RegL
    <3>6. d.reg[RegH] = 0 /\ d.reg[RegL] = WorkCell
      BY <3>1, <3>2, <3>3 DEF WorkCell
    <3>7. QED
      BY <3>2, <3>3, <3>4, <3>5, <3>6 DEF Goes
  <2>3. CASE o = 8
    <3>1. Peek(c, c.pc) = 175
      BY <1>1, <2>3, HandlerBytes DEF Running
    <3>2. Goes(c, d, 1, 4) /\ d.mem = c.mem /\ d.sp = c.sp /\ \A r \in Register : r # RegA => d.reg[r] = c.reg[r]
      BY <1>1, <3>1, StepClearA DEF d
    <3>3. Intact(o2) = {2, 3} /\ Intact(o) = {2, 3} /\ cost = 4 /\ o2 = 9
      BY <2>3 DEF Intact, Taking
    <3>4. \A r \in Intact(o2) : d.reg[r] = x.reg[r]
      BY <1>1, <3>2, <3>3 DEF Register, RegM, RegA
    <3>5. (c.pc + 1) % 65536 = 65
      BY <1>1, <2>3
    <3>6. d.reg[RegH] = 0 /\ d.reg[RegL] = WorkCell
      BY <1>1, <2>3, <3>2 DEF Register, RegM, RegA, RegH, RegL
    <3>7. QED
      BY <3>2, <3>3, <3>4, <3>5, <3>6 DEF Goes
  <2>4. CASE o = 13
    <3>1. Peek(c, c.pc) = EI
      BY <1>1, <2>4, HandlerBytes DEF Running
    <3>2. Goes(c, d, 1, 4) /\ d.mem = c.mem /\ d.sp = c.sp /\ d.reg = c.reg /\ d.flag = c.flag
      BY <1>1, <3>1, StepEnable DEF d
    <3>3. Intact(o2) = Register /\ Intact(o) = Register /\ cost = 4 /\ o2 = 14
      BY <2>4 DEF Intact, Taking
    <3>4. (c.pc + 1) % 65536 = 70
      BY <1>1, <2>4
    <3>5. QED
      BY <1>1, <2>4, <3>2, <3>3, <3>4 DEF Goes
  <2>5. QED
    BY <1>2, <2>1, <2>2, <2>3, <2>4
<1> HIDE DEF d, o2, cost
<1>5. \A k \in 1 .. Room(o2) : Peek(d, Down(sp, x.low + k)) = Saved(x, k)
  <2>1. \A k \in 1 .. Room(o) : Peek(d, Down(sp, x.low + k)) = Peek(c, Down(sp, x.low + k))
    BY <1>4 DEF Peek
  <2>2. Room(o2) \in 0 .. Room(o)
    BY <1>3, RunningIs
  <2>3. QED
    BY <2>1, <2>2, Undisturbed
<1>6. Spares(c, d, {WorkCell} \cup Zone(sp, x))
  BY <1>4, SparesSame
<1>7. d.sp = Down(sp, x.low + Room(o2))
  BY <1>1, <1>3, <1>4
<1>8. Advances(sp, c, x, y, d, o2, cost)
  BY <1>3, <1>4, <1>5, <1>6, <1>7, LaterIs
<1>9. QED
  BY <1>8 DEF d, o2, cost

\* DCR M, in the cell of the handlers.
LEMMA MoveCount ==
  ASSUME NEW sp, NEW c, NEW x, NEW y, Running(sp, c, x, y, 9), NEW input \in Byte,
         \A k \in 1 .. StackRoom : Down(sp, k) # WorkCell
  PROVE  Advances(sp, c, x, y, Step(c, input), 10, 10)
<1> DEFINE d == Step(c, input)
<1>1. /\ sp \in Word /\ c \in Machine /\ ~c.halted /\ x.low \in Nat /\ x.low <= 56
      /\ c.pc = 56 + 9 /\ c.sp = Down(sp, x.low + Room(9))
      /\ \A r \in Intact(9) : c.reg[r] = x.reg[r]
      /\ c.reg[RegH] = 0 /\ c.reg[RegL] = WorkCell
  BY RunningIs
<1>2. Peek(c, c.pc) = 53
  BY <1>1, HandlerBytes DEF Running
<1>3. HL(c) = WorkCell
  BY <1>1 DEF HL, Compose, WorkCell
<1>4. Goes(c, d, 1, 10) /\ Spares(c, d, {HL(c)}) /\ d.sp = c.sp /\ d.reg = c.reg
  BY <1>1, <1>2, StepCountCell
<1> HIDE DEF d
<1>5. /\ Room(9) = 8 /\ Room(10) = 8 /\ Intact(9) = {2, 3} /\ Intact(10) = {2, 3} /\ 10 \in Offsets
      /\ Number(9) + 1 = Number(10) /\ Taking(9) + 10 = Taking(10) /\ 10 \in Int
  BY DEF Room, Intact, Offsets, Number, Taking
<1>6. (c.pc + 1) % 65536 = 56 + 10
  BY <1>1
<1>7. d \in Machine /\ ~d.halted /\ d.pc = 56 + 10 /\ StatesOf(c, Peek(c, c.pc)) = 10
  BY <1>4, <1>6 DEF Goes
<1>8. \A k \in 1 .. 8 : Peek(d, Down(sp, x.low + k)) = Peek(c, Down(sp, x.low + k))
  <2>1. \A k \in 1 .. 8 : x.low + k \in 1 .. StackRoom
    BY <1>1 DEF StackRoom
  <2>2. \A k \in 1 .. 8 : Down(sp, x.low + k) # WorkCell
    BY <2>1
  <2>3. QED
    BY <1>3, <1>4, <2>2 DEF Spares
<1>9. \A k \in 1 .. Room(10) : Peek(d, Down(sp, x.low + k)) = Saved(x, k)
  <2>1. 8 \in 0 .. Room(9)
    BY <1>5
  <2>2. \A k \in 1 .. 8 : Peek(d, Down(sp, x.low + k)) = Saved(x, k)
    BY <1>5, <1>8, <2>1, Undisturbed
  <2>3. QED
    BY <1>5, <2>2
<1>10. Spares(c, d, {WorkCell} \cup Zone(sp, x))
  BY <1>3, <1>4, SparesWeaken
<1>11. /\ d.sp = Down(sp, x.low + Room(10)) /\ \A r \in Intact(10) : d.reg[r] = x.reg[r]
  BY <1>1, <1>4, <1>5
<1>12. ~(10 \in {0, 1, 2, 3, 13, 14}) /\ ~(10 \in {8, 9})
  OBVIOUS
<1>13. Advances(sp, c, x, y, d, 10, 10)
  BY <1>5, <1>7, <1>9, <1>10, <1>11, <1>12, LaterIs
<1>14. QED
  BY <1>13 DEF d

\* RET: back to the context interrupted.
LEMMA MoveReturn ==
  ASSUME NEW sp, NEW c, NEW x, NEW y, Running(sp, c, x, y, 14), NEW input \in Byte
  PROVE  LET d == Step(c, input)
         IN  /\ d \in Machine /\ ~d.halted /\ d.mem = c.mem
             /\ d.reg = x.reg /\ d.flag = x.flag /\ d.pc = x.pc /\ d.sp = Down(sp, x.low)
             /\ StatesOf(c, Peek(c, c.pc)) = 10
             /\ y.time + 10 = x.time + InterruptTime /\ y.count + 1 = x.count + 13
<1> DEFINE d == Step(c, input)
           L == x.low
<1>1. /\ sp \in Word /\ c \in Machine /\ ~c.halted /\ L \in Nat /\ L <= 56
      /\ c.pc = 56 + 14 /\ c.sp = Down(sp, L + Room(14))
      /\ c.reg \in [Register -> Byte] /\ x.reg \in [Register -> Byte]
      /\ \A r \in Intact(14) : c.reg[r] = x.reg[r]
      /\ c.flag = x.flag
      /\ \A k \in 1 .. Room(14) : Peek(c, Down(sp, L + k)) = Saved(x, k)
      /\ y.time = x.time + Taking(14) /\ y.count = x.count + Number(14)
      /\ x.time \in Int /\ x.count \in Int
  BY RunningIs
<1>2. Peek(c, c.pc) = RET
  BY <1>1, HandlerBytes DEF Running
<1>3. Room(14) = 2 /\ Intact(14) = Register /\ Taking(14) = 109 /\ Number(14) = 12
  BY DEF Room, Intact, Taking, Number
<1>4. c.reg = x.reg
  BY <1>1, <1>3
<1>5. /\ Peek(c, Down(sp, L + 1)) = High(x.pc) /\ Peek(c, Down(sp, L + 2)) = Low(x.pc)
  <2>1. 1 \in 1 .. Room(14) /\ 2 \in 1 .. Room(14)
    BY <1>3
  <2>2. Peek(c, Down(sp, L + 1)) = Saved(x, 1) /\ Peek(c, Down(sp, L + 2)) = Saved(x, 2)
    BY <1>1, <2>1
  <2>3. QED
    BY <2>2 DEF Saved
<1>6. Next16(c.sp) = Down(sp, L + 1) /\ Next16(Down(sp, L + 1)) = Down(sp, L) /\ c.sp = Down(sp, L + 2)
  <2> HIDE DEF L
  <2>1. L + 1 \in Nat /\ L + 1 < 1000 /\ L < 1000 /\ L + 1 + 1 = L + 2
    BY <1>1
  <2>2. Next16(Down(sp, L + 1 + 1)) = Down(sp, L + 1) /\ Next16(Down(sp, L + 1)) = Down(sp, L)
    BY <1>1, <2>1, Downs
  <2>3. QED
    BY <1>1, <1>3, <2>1, <2>2
<1>7. /\ d \in Machine /\ ~d.halted /\ StatesOf(c, Peek(c, c.pc)) = 10
      /\ d.pc = Compose(Peek(c, Next16(c.sp)), Peek(c, c.sp)) /\ d.mem = c.mem
      /\ d.sp = Next16(Next16(c.sp)) /\ d.flag = c.flag /\ d.reg = c.reg
  BY <1>1, <1>2, StepReturn
<1> HIDE DEF d
<1>8. x.pc \in Word
  BY DEF Running, Context
<1>9. d.pc = x.pc
  BY <1>5, <1>6, <1>7, <1>8, Parts
<1>10. y.time + 10 = x.time + InterruptTime /\ y.count + 1 = x.count + 13
  BY <1>1, <1>3 DEF InterruptTime
<1>11. QED
  BY <1>1, <1>4, <1>6, <1>7, <1>9, <1>10 DEF d

\* At every offset but the last the handler goes on, and only RET ends it.
LEMMA MoveOn ==
  ASSUME NEW sp, NEW c, NEW x, NEW y, NEW o, Running(sp, c, x, y, o), NEW input \in Byte,
         \A k \in 1 .. StackRoom : Down(sp, k) # WorkCell, o # 14
  PROVE  /\ \E o2 \in Offsets : \E cost \in Int : Advances(sp, c, x, y, Step(c, input), o2, cost)
         /\ Peek(c, c.pc) # RET
<1>1. o \in Offsets
  BY DEF Running
<1>2. o \in {0, 1, 2} \/ o \in {10, 11, 12} \/ o \in {3, 5, 8, 13} \/ o = 9
  BY <1>1 DEF Offsets
<1>3. Peek(c, c.pc) # RET
  <2>1. c.pc = 56 + o
    BY RunningIs
  <2>2. QED
    BY <1>2, <2>1, HandlerBytes DEF Running, EI, RET
<1>4. CASE o \in {0, 1, 2}
  <2>1. Advances(sp, c, x, y, Step(c, input), o + 1, 11) /\ o + 1 \in Offsets /\ 11 \in Int
    BY <1>4, MovePush DEF Offsets
  <2>2. QED
    BY <1>3, <2>1
<1>5. CASE o \in {10, 11, 12}
  <2>1. Advances(sp, c, x, y, Step(c, input), o + 1, 10) /\ o + 1 \in Offsets /\ 10 \in Int
    BY <1>5, MovePop DEF Offsets
  <2>2. QED
    BY <1>3, <2>1
<1>6. CASE o \in {3, 5, 8, 13}
  <2> DEFINE o2 == IF o = 3 THEN 5 ELSE IF o = 5 THEN 8 ELSE o + 1
             cost == Taking(o2) - Taking(o)
  <2>1. Advances(sp, c, x, y, Step(c, input), o2, cost)
    BY <1>6, MoveRegisters
  <2>2. o2 \in Offsets /\ cost \in Int
    BY <1>6 DEF Offsets, Taking
  <2> HIDE DEF o2, cost
  <2>3. QED
    BY <1>3, <2>1, <2>2
<1>7. CASE o = 9
  <2>1. Advances(sp, c, x, y, Step(c, input), 10, 10) /\ 10 \in Offsets /\ 10 \in Int
    BY <1>7, MoveCount DEF Offsets
  <2>2. QED
    BY <1>3, <2>1
<1>8. QED
  BY <1>2, <1>4, <1>5, <1>6, <1>7

---------------------------------------------------------------------------
(* The nest after a step.                                                  *)

\* A handler that was interrupted does not notice what happens above the bytes it has on
\* the stack.
LEMMA ServingKept ==
  ASSUME NEW sp, NEW c, NEW d, NEW x, x.low \in Nat, NEW y, Serving(sp, c, x, y),
         \A k \in Nat : 1 <= k /\ k <= y.low => Peek(d, Down(sp, k)) = Peek(c, Down(sp, k))
  PROVE  Serving(sp, d, x, y)
<1>1. PICK o \in Offsets : ServingAt(sp, c, x, y, o)
  BY DEF Serving
<1>2. Room(o) \in Nat /\ y.low = x.low + Room(o)
  BY <1>1 DEF Room, ServingAt
<1>3. \A k \in 1 .. Room(o) : Peek(d, Down(sp, x.low + k)) = Peek(c, Down(sp, x.low + k))
  <2> SUFFICES ASSUME NEW k \in 1 .. Room(o)
               PROVE  Peek(d, Down(sp, x.low + k)) = Peek(c, Down(sp, x.low + k))
    OBVIOUS
  <2>1. x.low + k \in Nat /\ 1 <= x.low + k /\ x.low + k <= y.low
    BY <1>2
  <2>2. QED
    BY <2>1
<1>4. ServingAt(sp, d, x, y, o)
  BY <1>1, <1>3 DEF ServingAt
<1>5. QED
  BY <1>4 DEF Serving

\* What is known of the contexts, by numbers.
LEMMA FramesAre ==
  ASSUME NEW f, NEW n \in Nat, NEW h, NEW c, Frames(f, n, h, c)
  PROVE  /\ \A i \in 0 .. n : f[i] \in Context /\ f[i].low \in Nat /\ f[i].low <= 8 * i
         /\ \A i, j \in 0 .. n : i <= j => f[i].low <= f[j].low
         /\ \A i \in 1 .. n : Serving(h.sp, c, f[i - 1], f[i])
         /\ f[0].reg = h.reg /\ f[0].flag = h.flag /\ f[0].pc = h.pc /\ f[0].low = 0
         /\ f[n].reg = c.reg /\ f[n].flag = c.flag /\ f[n].pc = c.pc /\ c.sp = Down(h.sp, f[n].low)
<1>1. \A i \in 0 .. n : f[i] \in Context
  BY DEF Frames
<1>2. \A z \in Context : z.low \in Nat
  BY DEF Context
<1>3. QED
  BY <1>1, <1>2 DEF Frames

\* The handler that runs goes on.
LEMMA FramesAdvance ==
  ASSUME NEW f, NEW n \in Nat, 1 <= n, n <= 8, NEW h, h.sp \in Word, NEW c,
         Frames(f, n, h, c), NEW d, NEW o \in Offsets, NEW cost,
         Advances(h.sp, c, f[n - 1], f[n], d, o, cost),
         \A k \in 1 .. StackRoom : Down(h.sp, k) # WorkCell
  PROVE  Frames([i \in 0 .. n |-> IF i = n THEN Later(f[n - 1], f[n], d, o, cost) ELSE f[i]],
                n, h, d)
<1> DEFINE x == f[n - 1]
           z == Later(x, f[n], d, o, cost)
           g == [i \in 0 .. n |-> IF i = n THEN z ELSE f[i]]
           sp == h.sp
<1>1. /\ z \in Context /\ ServingAt(sp, d, x, z, o) /\ d.sp = Down(sp, x.low + Room(o))
      /\ Spares(c, d, {WorkCell} \cup Zone(sp, x))
  BY DEF Advances
<1>2. /\ z.reg = d.reg /\ z.flag = d.flag /\ z.pc = d.pc /\ z.low = x.low + Room(o)
  BY DEF Later
<1>3. Room(o) \in Nat /\ Room(o) <= 8
  BY DEF Room
<1> HIDE DEF z
<1>4. /\ \A i \in 0 .. n : f[i] \in Context /\ f[i].low \in Nat /\ f[i].low <= 8 * i
      /\ \A i, j \in 0 .. n : i <= j => f[i].low <= f[j].low
      /\ \A i \in 1 .. n : Serving(sp, c, f[i - 1], f[i])
      /\ f[0].reg = h.reg /\ f[0].flag = h.flag /\ f[0].pc = h.pc /\ f[0].low = 0
  BY FramesAre
<1>5. n - 1 \in 0 .. n /\ x.low \in Nat /\ x.low <= 8 * (n - 1) /\ 8 * (n - 1) <= 56
  BY <1>4
<1>6. /\ g[n] = z /\ \A i \in 0 .. n : i # n => g[i] = f[i]
  OBVIOUS
<1>7. g \in [0 .. n -> Context]
  BY <1>1, <1>4
<1> HIDE DEF g, x
<1>8. g[0] = f[0] /\ n # 0 /\ 0 \in 0 .. n
  BY <1>6
<1>9. \A i \in 0 .. n : i # n => f[i].low <= x.low
  <2> SUFFICES ASSUME NEW i \in 0 .. n, i # n PROVE f[i].low <= x.low
    OBVIOUS
  <2>1. i <= n - 1
    OBVIOUS
  <2>2. QED
    BY <1>4, <1>5, <2>1 DEF x
<1>10. \A k \in Nat : 1 <= k /\ k <= x.low => Peek(d, Down(sp, k)) = Peek(c, Down(sp, k))
  <2> SUFFICES ASSUME NEW k \in Nat, 1 <= k, k <= x.low
               PROVE  Peek(d, Down(sp, k)) = Peek(c, Down(sp, k))
    OBVIOUS
  <2>1. k \in 1 .. StackRoom
    BY <1>5 DEF StackRoom
  <2>2. Down(sp, k) \notin Zone(sp, x)
    <3> SUFFICES ASSUME NEW j \in 1 .. 8 PROVE Down(sp, k) # Down(sp, x.low + j)
      BY DEF Zone
    <3>1. x.low + j \in Nat /\ x.low + j <= 1000 /\ k <= 1000 /\ k # x.low + j
      BY <1>5
    <3>2. QED
      BY <3>1, DownApart
  <2>3. Down(sp, k) \notin {WorkCell} \cup Zone(sp, x)
    BY <2>1, <2>2
  <2>4. QED
    BY <1>1, <2>3 DEF Spares
<1>11. \A i \in 1 .. n : Serving(sp, d, g[i - 1], g[i])
  <2> SUFFICES ASSUME NEW i \in 1 .. n PROVE Serving(sp, d, g[i - 1], g[i])
    OBVIOUS
  <2>1. i \in 0 .. n /\ i - 1 \in 0 .. n /\ i - 1 # n /\ g[i - 1] = f[i - 1]
    BY <1>6
  <2>2. CASE i = n
    <3>1. g[i - 1] = x /\ g[i] = z
      BY <1>6, <2>1, <2>2 DEF x
    <3>2. QED
      BY <1>1, <3>1 DEF Serving
  <2>3. CASE i # n
    <3>1. g[i] = f[i] /\ f[i].low <= x.low /\ f[i].low \in Nat /\ f[i - 1].low \in Nat
      BY <1>4, <1>6, <1>9, <2>1, <2>3
    <3>2. \A k \in Nat : 1 <= k /\ k <= f[i].low => Peek(d, Down(sp, k)) = Peek(c, Down(sp, k))
      BY <1>5, <1>10, <3>1
    <3>3. Serving(sp, c, f[i - 1], f[i])
      BY <1>4
    <3>4. Serving(sp, d, f[i - 1], f[i])
      BY <3>1, <3>2, <3>3, ServingKept
    <3>5. QED
      BY <2>1, <3>1, <3>4
  <2>4. QED
    BY <2>2, <2>3
<1>12. z.low \in Nat /\ x.low <= z.low /\ z.low <= 8 * n
  BY <1>2, <1>3, <1>5
<1>13. \A i, j \in 0 .. n : i <= j => g[i].low <= g[j].low
  <2> SUFFICES ASSUME NEW i \in 0 .. n, NEW j \in 0 .. n, i <= j
               PROVE  g[i].low <= g[j].low
    OBVIOUS
  <2>1. CASE i = n
    <3>1. j = n
      BY <2>1
    <3>2. QED
      BY <1>6, <1>12, <2>1, <3>1
  <2>2. CASE i # n /\ j = n
    <3>1. f[i].low <= x.low /\ f[i].low \in Nat /\ g[i] = f[i] /\ g[j] = z
      BY <1>4, <1>6, <1>9, <2>2
    <3>2. QED
      BY <1>5, <1>12, <3>1
  <2>3. CASE i # n /\ j # n
    BY <1>4, <1>6, <2>3
  <2>4. QED
    BY <2>1, <2>2, <2>3
<1>14. \A i \in 0 .. n : g[i].low <= 8 * i
  BY <1>4, <1>6, <1>12
<1>15. Frames(g, n, h, d)
  BY <1>1, <1>2, <1>4, <1>6, <1>7, <1>8, <1>11, <1>13, <1>14 DEF Frames
<1>16. QED
  BY <1>15 DEF g, z, x

\* The handler that runs returns to the context it interrupted.
LEMMA FramesReturn ==
  ASSUME NEW f, NEW n \in Nat, 1 <= n, NEW h, NEW c, Frames(f, n, h, c), NEW d, d.mem = c.mem,
         d.reg = f[n - 1].reg, d.flag = f[n - 1].flag, d.pc = f[n - 1].pc,
         d.sp = Down(h.sp, f[n - 1].low)
  PROVE  Frames([i \in 0 .. n - 1 |-> f[i]], n - 1, h, d)
<1> DEFINE g == [i \in 0 .. n - 1 |-> f[i]]
<1>1. /\ \A i \in 0 .. n : f[i] \in Context /\ f[i].low \in Nat /\ f[i].low <= 8 * i
      /\ \A i, j \in 0 .. n : i <= j => f[i].low <= f[j].low
      /\ \A i \in 1 .. n : Serving(h.sp, c, f[i - 1], f[i])
      /\ f[0].reg = h.reg /\ f[0].flag = h.flag /\ f[0].pc = h.pc /\ f[0].low = 0
  BY FramesAre
<1>2. \A i \in 0 .. n - 1 : g[i] = f[i] /\ i \in 0 .. n
  OBVIOUS
<1>3. g \in [0 .. n - 1 -> Context]
  BY <1>1, <1>2
<1> HIDE DEF g
<1>4. 0 \in 0 .. n - 1 /\ n - 1 \in 0 .. n - 1
  OBVIOUS
<1>5. \A i \in 1 .. n - 1 : Serving(h.sp, d, g[i - 1], g[i])
  <2> SUFFICES ASSUME NEW i \in 1 .. n - 1 PROVE Serving(h.sp, d, g[i - 1], g[i])
    OBVIOUS
  <2>1. i \in 0 .. n - 1 /\ i - 1 \in 0 .. n - 1 /\ i \in 1 .. n
    OBVIOUS
  <2>2. g[i] = f[i] /\ g[i - 1] = f[i - 1] /\ f[i - 1].low \in Nat /\ Serving(h.sp, c, f[i - 1], f[i])
    BY <1>1, <1>2, <2>1
  <2>3. \A k : Peek(d, Down(h.sp, k)) = Peek(c, Down(h.sp, k))
    BY DEF Peek
  <2>4. Serving(h.sp, d, f[i - 1], f[i])
    BY <2>2, <2>3, ServingKept
  <2>5. QED
    BY <2>2, <2>4
<1>6. Frames(g, n - 1, h, d)
  BY <1>1, <1>2, <1>3, <1>4, <1>5 DEF Frames
<1>7. QED
  BY <1>6 DEF g

\* A context interrupted, and the first of the handler.
LEMMA FramesInterrupt ==
  ASSUME NEW f, NEW n \in Nat, 8 * (n + 1) <= StackRoom, NEW h \in Machine, NEW c \in Machine,
         Frames(f, n, h, c), NEW d \in Machine, ~d.halted, d.pc = HandlerAt,
         d.reg = c.reg, d.flag = c.flag,
         d.sp = Previous16(Previous16(c.sp)),
         Spares(c, d, {Previous16(c.sp), Previous16(Previous16(c.sp))}),
         Peek(d, Previous16(c.sp)) = High(c.pc),
         Peek(d, Previous16(Previous16(c.sp))) = Low(c.pc)
  PROVE  LET y == [reg |-> d.reg, flag |-> d.flag, pc |-> d.pc, low |-> f[n].low + 2,
                   time |-> f[n].time + 11, count |-> f[n].count + 1]
         IN  Frames([i \in 0 .. n + 1 |-> IF i = n + 1 THEN y ELSE f[i]], n + 1, h, d)
<1> DEFINE y == [reg |-> d.reg, flag |-> d.flag, pc |-> d.pc, low |-> f[n].low + 2,
                 time |-> f[n].time + 11, count |-> f[n].count + 1]
           g == [i \in 0 .. n + 1 |-> IF i = n + 1 THEN y ELSE f[i]]
           sp == h.sp
           L == f[n].low
           above == Previous16(c.sp)
           below == Previous16(above)
<1>1. /\ \A i \in 0 .. n : f[i] \in Context /\ f[i].low \in Nat /\ f[i].low <= 8 * i
      /\ \A i, j \in 0 .. n : i <= j => f[i].low <= f[j].low
      /\ \A i \in 1 .. n : Serving(sp, c, f[i - 1], f[i])
      /\ f[0].reg = h.reg /\ f[0].flag = h.flag /\ f[0].pc = h.pc /\ f[0].low = 0
      /\ f[n].reg = c.reg /\ f[n].flag = c.flag /\ f[n].pc = c.pc /\ c.sp = Down(sp, L)
  BY FramesAre
<1>2. n \in 0 .. n /\ 0 \in 0 .. n /\ n + 1 \in Nat /\ n <= 7
  BY DEF StackRoom
<1>3. f[n] \in Context /\ L \in Nat /\ L <= 56 /\ L <= 8 * n
  BY <1>1, <1>2
<1>4. f[n].time \in Int /\ f[n].count \in Int
  BY <1>3 DEF Context
<1>5. sp \in Word /\ d.reg \in [Register -> Byte] /\ d.flag \in Flags /\ d.pc \in Word
  BY DEF Machine
<1>6. above = Down(sp, L + 1) /\ below = Down(sp, L + 2)
  <2> HIDE DEF sp, L
  <2>1. L + 1 \in Nat /\ L < 1000 /\ L + 1 < 1000 /\ L + 1 + 1 = L + 2
    BY <1>3
  <2>2. Previous16(Down(sp, L)) = Down(sp, L + 1)
    BY <1>5, <1>3, <2>1, Downs
  <2>3. Previous16(Down(sp, L + 1)) = Down(sp, L + 1 + 1)
    BY <1>5, <2>1, Downs
  <2>4. QED
    BY <1>1, <2>1, <2>2, <2>3
<1>7. /\ y.reg = d.reg /\ y.flag = d.flag /\ y.pc = d.pc /\ y.low = L + 2
      /\ y.time = f[n].time + 11 /\ y.count = f[n].count + 1
  OBVIOUS
<1>8. y \in Context
  <2>1. f[n].low + 2 \in Nat /\ f[n].time + 11 \in Int /\ f[n].count + 1 \in Int
    BY <1>3, <1>4
  <2>2. QED
    BY <1>5, <2>1 DEF Context
<1> HIDE DEF y
<1>9. g[n + 1] = y /\ \A i \in 0 .. n : g[i] = f[i] /\ i \in 0 .. n + 1 /\ i # n + 1
  BY <1>2
<1>10. g \in [0 .. n + 1 -> Context]
  <2>1. \A i \in 0 .. n + 1 : i # n + 1 => i \in 0 .. n
    BY <1>2
  <2>2. QED
    BY <1>1, <1>8, <2>1
<1> HIDE DEF g
<1>11. ServingAt(sp, d, f[n], y, 0)
  <2>1. Room(0) = 2 /\ Taking(0) = 11 /\ Number(0) = 1
    BY DEF Room, Taking, Number
  <2>2. Peek(d, Down(sp, L + 1)) = Saved(f[n], 1) /\ Peek(d, Down(sp, L + 2)) = Saved(f[n], 2)
    BY <1>1, <1>6 DEF Saved
  <2>3. \A k \in 1 .. Room(0) : Peek(d, Down(sp, L + k)) = Saved(f[n], k)
    <3>1. \A k \in 1 .. 2 : k = 1 \/ k = 2
      OBVIOUS
    <3> HIDE DEF L
    <3>2. QED
      BY <2>1, <2>2, <3>1
  <2>4. y.reg = f[n].reg /\ y.flag = f[n].flag
    BY <1>1, <1>7
  <2>5. y.pc = HandlerAt + 0
    BY <1>7 DEF HandlerAt
  <2>6. ~(0 \in {8, 9})
    OBVIOUS
  <2>7. QED
    BY <1>7, <2>1, <2>3, <2>4, <2>5, <2>6 DEF ServingAt
<1>12. \A k \in Nat : 1 <= k /\ k <= L => Peek(d, Down(sp, k)) = Peek(c, Down(sp, k))
  <2> SUFFICES ASSUME NEW k \in Nat, 1 <= k, k <= L
               PROVE  Peek(d, Down(sp, k)) = Peek(c, Down(sp, k))
    OBVIOUS
  <2> HIDE DEF L, sp
  <2>1. k <= 1000 /\ L + 1 \in Nat /\ L + 2 \in Nat /\ L + 1 <= 1000 /\ L + 2 <= 1000
        /\ k # L + 1 /\ k # L + 2
    BY <1>3
  <2>2. Down(sp, k) # Down(sp, L + 1)
    BY <1>5, <2>1, DownApart
  <2>3. Down(sp, k) # Down(sp, L + 2)
    BY <1>5, <2>1, DownApart
  <2>4. QED
    BY <1>6, <2>2, <2>3 DEF Spares
<1>13. \A i \in 1 .. n + 1 : Serving(sp, d, g[i - 1], g[i])
  <2> SUFFICES ASSUME NEW i \in 1 .. n + 1 PROVE Serving(sp, d, g[i - 1], g[i])
    OBVIOUS
  <2>1. CASE i = n + 1
    <3>1. i - 1 = n /\ g[i - 1] = f[n] /\ g[i] = y
      BY <1>2, <1>9, <2>1
    <3>2. 0 \in Offsets
      BY DEF Offsets
    <3>3. QED
      BY <1>11, <3>1, <3>2 DEF Serving
  <2>2. CASE i # n + 1
    <3>1. i \in 1 .. n /\ i \in 0 .. n /\ i - 1 \in 0 .. n /\ i <= n
      BY <2>2
    <3>2. /\ g[i] = f[i] /\ g[i - 1] = f[i - 1] /\ f[i].low \in Nat /\ f[i].low <= L
          /\ f[i - 1].low \in Nat /\ Serving(sp, c, f[i - 1], f[i])
      BY <1>1, <1>2, <1>9, <3>1
    <3>3. \A k \in Nat : 1 <= k /\ k <= f[i].low => Peek(d, Down(sp, k)) = Peek(c, Down(sp, k))
      BY <1>3, <1>12, <3>2
    <3>4. Serving(sp, d, f[i - 1], f[i])
      BY <3>2, <3>3, ServingKept
    <3>5. QED
      BY <3>2, <3>4
  <2>3. QED
    BY <2>1, <2>2
<1>14. \A i, j \in 0 .. n + 1 : i <= j => g[i].low <= g[j].low
  <2> SUFFICES ASSUME NEW i \in 0 .. n + 1, NEW j \in 0 .. n + 1, i <= j
               PROVE  g[i].low <= g[j].low
    OBVIOUS
  <2>1. CASE i = n + 1
    <3>1. j = n + 1 /\ y.low \in Nat
      BY <1>3, <1>7, <2>1
    <3>2. QED
      BY <1>9, <2>1, <3>1
  <2>2. CASE i # n + 1 /\ j = n + 1
    <3>1. i \in 0 .. n
      BY <2>2
    <3>2. f[i].low <= L /\ f[i].low \in Nat /\ g[i] = f[i] /\ g[j] = y
      BY <1>1, <1>2, <1>9, <2>2, <3>1
    <3>3. QED
      BY <1>3, <1>7, <3>2
  <2>3. CASE i # n + 1 /\ j # n + 1
    <3>1. i \in 0 .. n /\ j \in 0 .. n
      BY <2>3
    <3>2. QED
      BY <1>1, <1>9, <3>1
  <2>4. QED
    BY <2>1, <2>2, <2>3
<1>15. \A i \in 0 .. n + 1 : g[i].low <= 8 * i
  <2> SUFFICES ASSUME NEW i \in 0 .. n + 1 PROVE g[i].low <= 8 * i
    OBVIOUS
  <2>1. CASE i = n + 1
    BY <1>3, <1>7, <1>9, <2>1
  <2>2. CASE i # n + 1
    <3>1. i \in 0 .. n
      BY <2>2
    <3>2. QED
      BY <1>1, <1>9, <3>1
  <2>3. QED
    BY <2>1, <2>2
<1>16. g[0] = f[0] /\ d.sp = Down(sp, y.low)
  BY <1>2, <1>6, <1>7, <1>9
<1>17. Frames(g, n + 1, h, d)
  BY <1>1, <1>7, <1>9, <1>10, <1>13, <1>14, <1>15, <1>16 DEF Frames
<1>18. QED
  BY <1>17 DEF g, y

\* Only these fields of the program's machine matter.
LEMMA FramesAlike ==
  ASSUME NEW f, NEW n, NEW h, NEW c, Frames(f, n, h, c), NEW h2,
         h2.reg = h.reg, h2.flag = h.flag, h2.pc = h.pc, h2.sp = h.sp
  PROVE  Frames(f, n, h2, c)
BY DEF Frames

\* No handler: the CPU is where the program is.
LEMMA FramesNone ==
  ASSUME NEW f, NEW h, h.sp \in Word, NEW c, Frames(f, 0, h, c)
  PROVE  c.reg = h.reg /\ c.flag = h.flag /\ c.pc = h.pc /\ c.sp = h.sp
<1>1. 0 \in Nat
  OBVIOUS
<1>2. /\ f[0].reg = h.reg /\ f[0].flag = h.flag /\ f[0].pc = h.pc /\ f[0].low = 0
      /\ f[0].reg = c.reg /\ f[0].flag = c.flag /\ f[0].pc = c.pc /\ c.sp = Down(h.sp, f[0].low)
  BY <1>1, FramesAre
<1>3. QED
  BY <1>2, DownZero

LEMMA NestedNone ==
  ASSUME NEW h \in Machine, NEW c,
         c.reg = h.reg, c.flag = h.flag, c.pc = h.pc, c.sp = h.sp, NEW time \in Int, NEW count \in Int
  PROVE  \E f : Nested(f, 0, h, c, time, count, time, count)
<1> DEFINE z == [reg |-> h.reg, flag |-> h.flag, pc |-> h.pc, low |-> 0,
                 time |-> time, count |-> count]
           f == [i \in 0 .. 0 |-> z]
<1>1. h.reg \in [Register -> Byte] /\ h.flag \in Flags /\ h.pc \in Word /\ h.sp \in Word
  BY DEF Machine
<1>2. z \in Context
  BY <1>1 DEF Context
<1>3. /\ z.reg = h.reg /\ z.flag = h.flag /\ z.pc = h.pc /\ z.low = 0
      /\ z.time = time /\ z.count = count
  OBVIOUS
<1> HIDE DEF z
<1>4. f \in [0 .. 0 -> Context] /\ f[0] = z /\ \A i \in 0 .. 0 : i = 0
  BY <1>2
<1> HIDE DEF f
<1>5. c.sp = Down(h.sp, f[0].low)
  BY <1>1, <1>3, <1>4, DownZero
<1>6. Frames(f, 0, h, c)
  BY <1>3, <1>4, <1>5 DEF Frames
<1>7. QED
  BY <1>3, <1>4, <1>6 DEF Nested

---------------------------------------------------------------------------
(* The types, and the wait states.                                         *)

Clock == [instructions : Nat, states : Nat, waits : Nat, pending : Nat, charged : Nat]

\* Wait states are charged once, to the instruction that waited.
WaitsCharged ==
  /\ clock.charged + clock.pending = clock.waits
  /\ held = "nothing" => clock.pending = 0

ProgramTypeOK ==
  /\ program \in Cases /\ m \in Machine /\ shadow \in Machine
  /\ depth \in Nat /\ interrupts \in Nat /\ steps \in Nat /\ states \in Nat
  /\ held \in {"nothing", "fetched", "forced"} /\ clock \in Clock

LEMMA StatesType == ASSUME NEW c, NEW k \in Byte PROVE StatesOf(c, k) \in Nat
<1>1. \A n \in Nat : Fixed(n) \in [min : Nat, max : Nat]
  BY DEF Fixed
<1>2. StateRange(k) \in [min : Nat, max : Nat]
  BY <1>1 DEF StateRange, CallStates
<1>3. QED
  BY <1>2 DEF StatesOf

\* The programs are bytes, and fit under the handler.
LEMMA SuiteBytes ==
  /\ \A case \in DOMAIN Suite : Suite[case] \in Seq(Byte)
  /\ \A case \in DOMAIN Suite : case # "rst_ring" => Len(Suite[case]) <= 56
  /\ Len(Suite["rst_ring"]) = 64
<1>1. /\ HLT \in Byte /\ CALL \in Byte /\ NOP \in Byte /\ RET \in Byte /\ RLC \in Byte
      /\ IN_ \in Byte /\ OUT \in Byte
  BY ByteIs DEF HLT, CALL, NOP, RET, RLC, IN_, OUT
<1>2. \A n \in {62, 42, 71, 255, 198, 1, 33, 0, 54, 165, 126, 6, 66, 210, 220, 129} : n \in Byte
  BY ByteIs
<1> DEFINE ring == [i \in 1 .. 64 |-> IF i % 8 = 1 THEN 199 + 8 * (((i \div 8) + 1) % 8) ELSE 0]
<1>3. ring \in Seq(Byte) /\ Len(ring) = 64
  <2>1. ASSUME NEW i \in 1 .. 64 PROVE ring[i] \in Byte
    <3>1. ((i \div 8) + 1) % 8 \in 0 .. 7
      OBVIOUS
    <3>2. 199 + 8 * (((i \div 8) + 1) % 8) \in Byte /\ 0 \in Byte
      BY <3>1, ByteIs
    <3>3. QED
      BY <3>2
  <2>2. ring \in [1 .. 64 -> Byte]
    BY <2>1
  <2>3. QED
    BY <2>2
<1> HIDE DEF ring
<1> DEFINE B(s, n) == s \in Seq(Byte) /\ Len(s) = n
<1>4. B(Suite["load_move"], 4)
  BY <1>1, <1>2 DEF Suite
<1>5. B(Suite["alu_flags"], 5)
  BY <1>1, <1>2 DEF Suite
<1>6. B(Suite["memory_indirect"], 7)
  BY <1>1, <1>2 DEF Suite
<1>7. B(Suite["call_return"], 9)
  BY <1>1, <1>2 DEF Suite
<1>8. B(Suite["conditional_jump_taken"], 7)
  BY <1>1, <1>2 DEF Suite
<1>9. B(Suite["conditional_call_not_taken"], 7)
  BY <1>1, <1>2 DEF Suite
<1>10. B(Suite["rotate_carry"], 4)
  BY <1>1, <1>2 DEF Suite
<1>11. B(Suite["io_echo"], 5)
  BY <1>1, <1>2 DEF Suite
<1>12. B(Suite["interrupt_rst"], 9)
  BY <1>1, <1>2 DEF Suite
<1>13. B(Suite["rst_ring"], 64)
  BY <1>3 DEF Suite, ring
<1>14. DOMAIN Suite = {"load_move", "alu_flags", "memory_indirect", "call_return",
                       "conditional_jump_taken", "conditional_call_not_taken",
                       "rotate_carry", "io_echo", "interrupt_rst", "rst_ring"}
  BY DEF Suite
<1>15. ASSUME NEW case \in DOMAIN Suite
       PROVE  /\ Suite[case] \in Seq(Byte)
              /\ case # "rst_ring" => Len(Suite[case]) <= 56
  <2>1. \/ case = "load_move" \/ case = "alu_flags" \/ case = "memory_indirect"
        \/ case = "call_return" \/ case = "conditional_jump_taken"
        \/ case = "conditional_call_not_taken" \/ case = "rotate_carry" \/ case = "io_echo"
        \/ case = "interrupt_rst" \/ case = "rst_ring"
    BY <1>14
  <2>2. \A n \in Nat : n <= 56 /\ B(Suite[case], n) => /\ Suite[case] \in Seq(Byte)
                                                   /\ Len(Suite[case]) <= 56
    OBVIOUS
  <2>3. case # "rst_ring" => \E n \in Nat : n <= 56 /\ B(Suite[case], n)
    <3> HIDE DEF B
    <3>1. QED
      BY <1>4, <1>5, <1>6, <1>7, <1>8, <1>9, <1>10, <1>11, <1>12, <2>1
  <2>4. case = "rst_ring" => Suite[case] \in Seq(Byte)
    BY <1>13
  <2>5. QED
    BY <2>2, <2>3, <2>4
<1>16. QED
  BY <1>13, <1>15

LEMMA ImageIs ==
  ASSUME NEW case \in Cases
  PROVE  Reset(Image(case.name, case.bytes)) \in Machine
<1>1. /\ case.bytes \in Seq(Byte)
      /\ case.name = "rst_ring" => Len(case.bytes) = 64
      /\ case.name # "rst_ring" => Len(case.bytes) <= 56
  <2>1. \/ case.name \in DOMAIN Suite /\ case.bytes = Suite[case.name]
        \/ case.name = "extra" /\ case.bytes \in Extra
    BY DEF Cases
  <2>2. "extra" # "rst_ring"
    OBVIOUS
  <2>3. QED
    BY <2>1, <2>2, SuiteBytes, ExtraAssumption
<1>2. MemoryOf(case.bytes) \in Memory /\ Len(case.bytes) <= 64
  <2>1. \A a \in 0 .. Len(case.bytes) - 1 : case.bytes[a + 1] \in Byte
    BY <1>1
  <2>2. Len(case.bytes) <= 64
    <3>1. Len(case.bytes) \in Nat
      BY <1>1
    <3>2. \A n \in Nat : n = 64 \/ n <= 56 => n <= 64
      OBVIOUS
    <3>3. Len(case.bytes) = 64 \/ Len(case.bytes) <= 56
      BY <1>1
    <3>4. QED
      BY <3>1, <3>2, <3>3
  <2>3. (0 .. Len(case.bytes) - 1) \subseteq Word
    BY <1>1, <2>2, WordIs
  <2>4. MemoryOf(case.bytes) \in [0 .. Len(case.bytes) - 1 -> Byte]
    BY <2>1 DEF MemoryOf
  <2>5. QED
    BY <2>2, <2>3, <2>4 DEF Memory
<1>3. Image(case.name, case.bytes) \in Memory
  <2>1. CASE case.name = "rst_ring"
    BY <1>2, <2>1 DEF Image
  <2>2. CASE case.name # "rst_ring"
    <3> DEFINE S == (0 .. Len(case.bytes) - 1) \cup (HandlerAt .. HandlerAt + Len(Handler) - 1)
               v(a) == IF a < HandlerAt THEN case.bytes[a + 1] ELSE Handler[a - HandlerAt + 1]
    <3>1. Handler \in Seq(Byte) /\ Len(Handler) = 15
      <4>1. EI \in Byte /\ RET \in Byte
        BY ByteIs DEF EI, RET
      <4>2. \A n \in {245, 197, 229, 6, 99, 33, 255, 0, 175, 53, 225, 193, 241} : n \in Byte
        BY ByteIs
      <4>3. QED
        BY <4>1, <4>2, SMTT(60) DEF Handler
    <3>2. \A a \in S : a \in Word /\ v(a) \in Byte
      <4> HIDE DEF Handler
      <4> SUFFICES ASSUME NEW a \in S PROVE a \in Word /\ v(a) \in Byte
        OBVIOUS
      <4> DEFINE L == Len(case.bytes)
      <4>1. L \in Nat /\ L <= 56
        BY <1>1, <2>2
      <4>2. a \in 0 .. L - 1 \/ a \in 56 .. 56 + 15 - 1
        BY <3>1 DEF HandlerAt
      <4> HIDE DEF L, S, v
      <4>3. a \in Int /\ 0 <= a /\ a <= 70 /\ (a < 56 => a + 1 \in 1 .. L)
            /\ (~(a < 56) => a - 56 + 1 \in 1 .. 15)
        BY <4>1, <4>2
      <4>4. \A i \in 1 .. L : case.bytes[i] \in Byte
        BY <1>1 DEF L
      <4>5. \A i \in 1 .. 15 : Handler[i] \in Byte
        <5>1. \A s \in Seq(Byte) : \A i \in 1 .. Len(s) : s[i] \in Byte
          OBVIOUS
        <5>2. \A i \in 1 .. Len(Handler) : Handler[i] \in Byte
          BY <3>1, <5>1
        <5>3. QED
          BY <3>1, <5>2
      <4>6. a \in Word
        BY <4>3, WordIs
      <4>7. v(a) \in Byte
        <5>1. HandlerAt = 56 /\ v(a) = IF a < HandlerAt THEN case.bytes[a + 1]
                                     ELSE Handler[a - HandlerAt + 1]
          BY DEF v, HandlerAt
        <5>2. CASE a < 56
          BY <4>3, <4>4, <5>1, <5>2
        <5>3. CASE ~(a < 56)
          BY <4>3, <4>5, <5>1, <5>3
        <5>4. QED
          BY <5>2, <5>3
      <4>8. QED
        BY <4>6, <4>7
    <3>3. Image(case.name, case.bytes) = [a \in S |-> v(a)]
      BY <2>2 DEF Image
    <3> HIDE DEF S, v
    <3>4. S \in SUBSET Word /\ [a \in S |-> v(a)] \in [S -> Byte]
      BY <3>2
    <3>5. QED
      BY <3>3, <3>4 DEF Memory
  <2>3. QED
    BY <2>1, <2>2
<1>4. QED
  <2> DEFINE mem == Image(case.name, case.bytes)
  <2> HIDE DEF mem
  <2>1. mem \in Memory
    BY <1>3 DEF mem
  <2>2. [r \in Register |-> 0] \in [Register -> Byte] /\ NoFlags \in Flags /\ 0 \in Word
    BY ByteIs, WordIs DEF NoFlags, Flags
  <2>3. <<>> \in Seq(Cycle)
    OBVIOUS
  <2>4. Reset(mem) \in Machine
    BY <2>1, <2>2, <2>3 DEF Reset, Machine
  <2>5. QED
    BY <2>4 DEF mem

\* The machines stay machines, and the counters numbers, whatever the program.
LEMMA ProgramTypeInit == Init => ProgramTypeOK
<1> SUFFICES ASSUME Init PROVE ProgramTypeOK
  OBVIOUS
<1>1. m \in Machine
  BY ImageIs DEF Init
<1>2. clock \in Clock
  BY DEF Init, Clock
<1>3. QED
  BY <1>1, <1>2 DEF Init, ProgramTypeOK

\* recordTiming and RecordWaitState.
LEMMA ClockKeeps ==
  ASSUME NEW k \in Clock, NEW n \in Nat
  PROVE  LET t == RecordTiming(k, n)
             w == RecordWaitState(k)
         IN  /\ t \in Clock /\ t.instructions = k.instructions + 1 /\ t.states = k.states + n
             /\ t.waits = k.waits /\ t.pending = 0 /\ t.charged = k.charged + k.pending
             /\ w \in Clock /\ w.instructions = k.instructions /\ w.states = k.states + 1
             /\ w.waits = k.waits + 1 /\ w.pending = k.pending + 1 /\ w.charged = k.charged
<1> DEFINE t == RecordTiming(k, n)
           w == RecordWaitState(k)
<1>1. /\ k.instructions \in Nat /\ k.states \in Nat /\ k.waits \in Nat /\ k.pending \in Nat
      /\ k.charged \in Nat
      /\ k = [instructions |-> k.instructions, states |-> k.states, waits |-> k.waits,
              pending |-> k.pending, charged |-> k.charged]
  BY DEF Clock
<1>2. /\ t.instructions = k.instructions + 1 /\ t.states = k.states + n /\ t.waits = k.waits
      /\ t.pending = 0 /\ t.charged = k.charged + k.pending
  BY <1>1 DEF RecordTiming
<1>3. /\ w.instructions = k.instructions /\ w.states = k.states + 1 /\ w.waits = k.waits + 1
      /\ w.pending = k.pending + 1 /\ w.charged = k.charged
  BY <1>1 DEF RecordWaitState
<1>4. t \in Clock
  <2>1. \A p, q, r \in Nat :
          [k EXCEPT !.instructions = p, !.states = q, !.charged = r, !.pending = 0] \in Clock
    BY DEF Clock
  <2>2. t = [k EXCEPT !.instructions = k.instructions + 1, !.states = k.states + n,
                      !.charged = k.charged + k.pending, !.pending = 0]
    BY DEF RecordTiming
  <2>3. /\ k.instructions + 1 \in Nat /\ k.states + n \in Nat
        /\ k.charged + k.pending \in Nat
    BY <1>1
  <2> HIDE DEF t
  <2>4. QED
    BY <2>1, <2>2, <2>3
<1>5. w \in Clock
  <2>1. \A p, q, r \in Nat : [k EXCEPT !.states = p, !.waits = q, !.pending = r] \in Clock
    BY DEF Clock
  <2>2. w = [k EXCEPT !.states = k.states + 1, !.waits = k.waits + 1, !.pending = k.pending + 1]
    BY DEF RecordWaitState
  <2>3. k.states + 1 \in Nat /\ k.waits + 1 \in Nat /\ k.pending + 1 \in Nat
    BY <1>1
  <2> HIDE DEF w
  <2>4. QED
    BY <2>1, <2>2, <2>3
<1>6. QED
  BY <1>2, <1>3, <1>4, <1>5

LEMMA EchoByte == EchoInput \in Byte /\ 0 \in Byte /\ <<0, 0>> \in Byte \X Byte
                  /\ 255 \in Byte /\ 207 \in Byte
BY ByteIs DEF EchoInput

LEMMA ProgramTypeNext ==
  ProgramTypeOK /\ WaitsCharged /\ [Next]_progVars => ProgramTypeOK' /\ WaitsCharged'
<1> SUFFICES ASSUME ProgramTypeOK, WaitsCharged, [Next]_progVars
             PROVE  ProgramTypeOK' /\ WaitsCharged'
  OBVIOUS
<1>1. /\ program \in Cases /\ m \in Machine /\ shadow \in Machine
      /\ depth \in Nat /\ interrupts \in Nat /\ steps \in Nat /\ states \in Nat
      /\ held \in {"nothing", "fetched", "forced"} /\ clock \in Clock
  BY DEF ProgramTypeOK
<1>2. Step(m, EchoInput) \in Machine /\ Step(shadow, EchoInput) \in Machine
  BY <1>1, StepType, EchoByte
<1>3. JamOf(m, 255, <<0, 0>>, 0) \in Machine /\ JamOf(m, 207, <<0, 0>>, 0) \in Machine
  BY <1>1, JamType, EchoByte
<1>4. /\ StatesOf(m, Peek(m, m.pc)) \in Nat /\ StatesOf(shadow, Peek(shadow, shadow.pc)) \in Nat
      /\ StatesOf(m, 255) \in Nat /\ StatesOf(m, 207) \in Nat
  <2>1. Peek(m, m.pc) \in Byte /\ Peek(shadow, shadow.pc) \in Byte
    BY <1>1, PeekType
  <2>2. QED
    BY <2>1, StatesType, EchoByte
<1>5. /\ clock.instructions \in Nat /\ clock.states \in Nat /\ clock.waits \in Nat
      /\ clock.pending \in Nat /\ clock.charged \in Nat
  BY <1>1 DEF Clock
<1>6. ASSUME NEW n \in Nat, clock' = RecordTiming(clock, n)
      PROVE  clock' \in Clock /\ (held' = "nothing" \/ held' = held => WaitsCharged')
  <2>1. /\ clock' \in Clock /\ clock'.waits = clock.waits /\ clock'.pending = 0
        /\ clock'.charged = clock.charged + clock.pending
    BY <1>1, <1>6, ClockKeeps
  <2>2. QED
    BY <1>5, <2>1 DEF WaitsCharged
<1>7. CASE ProgramStep
  BY <1>1, <1>2, <1>4, <1>6, <1>7 DEF ProgramStep, ProgramTypeOK
<1>8. CASE HandlerStep
  <2>1. depth' \in Nat
    BY <1>1, <1>8 DEF HandlerStep
  <2>2. QED
    BY <1>1, <1>2, <1>4, <1>6, <1>8, <2>1 DEF HandlerStep, ProgramTypeOK
<1>9. CASE Interrupt
  <2>1. shadow' \in Machine
    BY <1>1, <1>9 DEF Interrupt, Machine
  <2>2. QED
    BY <1>1, <1>3, <1>4, <1>6, <1>9, <2>1 DEF Interrupt, ProgramTypeOK
<1>10. CASE OwnInterrupt
  BY <1>1, <1>3, <1>4, <1>6, <1>10 DEF OwnInterrupt, ProgramTypeOK
<1>11. ASSUME NEW what \in {"fetched", "forced"}, Wait(what)
       PROVE  ProgramTypeOK' /\ WaitsCharged'
  <2>1. /\ clock' \in Clock /\ clock'.waits = clock.waits + 1
        /\ clock'.pending = clock.pending + 1 /\ clock'.charged = clock.charged
    <3>1. clock' = RecordWaitState(clock) /\ 0 \in Nat
      BY <1>11 DEF Wait
    <3>2. QED
      BY <1>1, <3>1, ClockKeeps
  <2>2. held' = what /\ what # "nothing" /\ what \in {"nothing", "fetched", "forced"}
    BY <1>11 DEF Wait
  <2>3. WaitsCharged'
    BY <1>5, <2>1, <2>2 DEF WaitsCharged
  <2>4. ProgramTypeOK'
    BY <1>1, <1>11, <2>1, <2>2 DEF Wait, ProgramTypeOK
  <2>5. QED
    BY <2>3, <2>4
<1>12. CASE UNCHANGED progVars
  BY <1>12 DEF progVars, ProgramTypeOK, WaitsCharged
<1>13. QED
  BY <1>7, <1>8, <1>9, <1>10, <1>11, <1>12 DEF Next

\* Of any program, disciplined or not: between two instructions of it or of a handler, each
\* wait state counted so far has been charged to one instruction, and none is left over for
\* the next (step.go:35-65, 68-87).
THEOREM WaitStatesCharged == Spec => [](ProgramTypeOK /\ WaitsCharged)
<1>1. Init => ProgramTypeOK /\ WaitsCharged
  <2>1. Init => WaitsCharged
    BY DEF Init, WaitsCharged
  <2>2. QED
    BY <2>1, ProgramTypeInit
<1>2. QED
  BY <1>1, ProgramTypeNext, PTL DEF Spec

---------------------------------------------------------------------------
(* The steps, by what they do to the nest.                                 *)

\* The handler is where the program left it.
LEMMA HandlerThere ==
  ASSUME NEW h, Serviceable(h), NEW c, Agree(Own(h), h.mem, c.mem)
  PROVE  \A i \in DOMAIN Handler : Peek(c, HandlerAt + i - 1) = Handler[i]
<1> SUFFICES ASSUME NEW i \in DOMAIN Handler PROVE Peek(c, HandlerAt + i - 1) = Handler[i]
  OBVIOUS
<1> DEFINE a == HandlerAt + i - 1
<1>1. a \in Own(h) /\ h.mem[a] = Handler[i]
  BY DEF Serviceable
<1> HIDE DEF a
<1>2. a \in DOMAIN c.mem /\ c.mem[a] = h.mem[a]
  BY <1>1 DEF Agree
<1>3. QED
  BY <1>1, <1>2 DEF Peek, a

\* No handler writes a cell of the program.
LEMMA HandlerApart ==
  ASSUME NEW h \in Machine, Serviceable(h)
  PROVE  /\ \A k \in 1 .. StackRoom : Down(h.sp, k) # WorkCell
         /\ \A k \in 1 .. StackRoom : Down(h.sp, k) \notin Own(h)
         /\ WorkCell \notin Own(h)
<1>1. h.sp \in Word
  BY DEF Machine
<1>2. \A k \in 1 .. StackRoom : k \in Nat /\ 1 <= k /\ k <= StackRoom
  BY DEF StackRoom
<1>3. \A k \in 1 .. StackRoom : FreeStack(h, Down(h.sp, k))
  BY <1>1, <1>2, DownFree
<1>4. WorkCell \notin DOMAIN h.mem /\ ~FreeStack(h, WorkCell)
  BY DEF Serviceable
<1>5. QED
  BY <1>3, <1>4 DEF Own

LEMMA HandlerMoves ==
  ASSUME NEW n \in Nat, 1 <= n, 8 * n <= StackRoom, NEW h \in Machine, Serviceable(h),
         NEW c \in Machine, ~c.halted, Agree(Own(h), h.mem, c.mem), NEW input \in Byte,
         NEW f, NEW t, NEW k, NEW t2, NEW k2, Nested(f, n, h, c, t, k, t2, k2)
  PROVE  LET d == Step(c, input)
             op == Peek(c, c.pc)
             cost == StatesOf(c, op)
         IN  /\ d \in Machine /\ ~d.halted /\ Agree(Own(h), h.mem, d.mem)
             /\ op = RET => \E g : Nested(g, n - 1, h, d, t, k, t2 + cost - InterruptTime, k2 + 1 - 13)
             /\ op # RET => \E g : Nested(g, n, h, d, t, k, t2 + cost, k2 + 1)
<1> DEFINE d == Step(c, input)
           op == Peek(c, c.pc)
           cost == StatesOf(c, op)
           sp == h.sp
           x == f[n - 1]
           y == f[n]
<1>1. Frames(f, n, h, c) /\ f[0].time = t /\ f[0].count = k /\ y.time = t2 /\ y.count = k2
  BY DEF Nested
<1>2. /\ \A i \in 0 .. n : f[i] \in Context /\ f[i].low \in Nat /\ f[i].low <= 8 * i
      /\ \A i \in 1 .. n : Serving(sp, c, f[i - 1], f[i])
      /\ y.reg = c.reg /\ y.flag = c.flag /\ y.pc = c.pc /\ c.sp = Down(sp, y.low)
  BY <1>1, FramesAre
<1>3. n \in 1 .. n /\ n \in 0 .. n /\ n - 1 \in 0 .. n /\ 8 * (n - 1) <= 56 /\ n <= 8 /\ n - 1 # n
  BY DEF StackRoom
<1>4. x \in Context /\ y \in Context /\ x.low \in Nat /\ x.low <= 56
  BY <1>2, <1>3
<1>5. sp \in Word
  BY DEF Machine
<1>6. \A i \in DOMAIN Handler : Peek(c, HandlerAt + i - 1) = Handler[i]
  BY HandlerThere
<1>7. /\ \A j \in 1 .. StackRoom : Down(sp, j) # WorkCell
      /\ \A j \in 1 .. StackRoom : Down(sp, j) \notin Own(h)
      /\ WorkCell \notin Own(h)
  BY HandlerApart
<1>8. PICK o \in Offsets : ServingAt(sp, c, x, y, o)
  BY <1>2, <1>3 DEF Serving
<1> HIDE DEF d, sp, x, y
<1>9. Running(sp, c, x, y, o)
  BY <1>2, <1>4, <1>5, <1>6, <1>8 DEF Running
<1>10. x.time \in Int /\ x.count \in Int /\ y.time \in Int /\ y.count \in Int
  BY <1>4 DEF Context
<1>11. Own(h) \cap ({WorkCell} \cup Zone(sp, x)) = {}
  <2>1. \A j \in 1 .. 8 : x.low + j \in 1 .. StackRoom
    BY <1>4 DEF StackRoom
  <2>2. \A j \in 1 .. 8 : Down(sp, x.low + j) \notin Own(h)
    BY <1>7, <2>1
  <2>3. QED
    BY <1>7, <2>2 DEF Zone
<1>12. CASE o = 14
  <2>1. /\ d \in Machine /\ ~d.halted /\ d.mem = c.mem
        /\ d.reg = x.reg /\ d.flag = x.flag /\ d.pc = x.pc /\ d.sp = Down(sp, x.low)
        /\ cost = 10
        /\ y.time + 10 = x.time + InterruptTime /\ y.count + 1 = x.count + 13
    BY <1>9, <1>12, MoveReturn DEF d
  <2>2. op = RET
    <3>1. c.pc = 56 + 14
      BY <1>9, <1>12, RunningIs
    <3>2. QED
      BY <1>6, <3>1, HandlerBytes
  <2> DEFINE g == [i \in 0 .. n - 1 |-> f[i]]
  <2>3. Frames(g, n - 1, h, d)
    BY <1>1, <2>1, FramesReturn DEF x, sp
  <2>4. g[0] = f[0] /\ g[n - 1] = x
    BY DEF x
  <2> HIDE DEF g
  <2>5. InterruptTime \in Int
    BY DEF InterruptTime
  <2>6. x.time = t2 + cost - InterruptTime /\ x.count = k2 + 1 - 13
    BY <1>1, <1>10, <2>1, <2>5 DEF y
  <2>7. Nested(g, n - 1, h, d, t, k, t2 + cost - InterruptTime, k2 + 1 - 13)
    BY <1>1, <2>3, <2>4, <2>6 DEF Nested
  <2>8. Agree(Own(h), h.mem, d.mem)
    BY <2>1
  <2>9. QED
    BY <2>1, <2>2, <2>7, <2>8 DEF d
<1>13. CASE o # 14
  <2>1. (\E o2 \in Offsets : \E e \in Int : Advances(sp, c, x, y, d, o2, e)) /\ op # RET
    BY <1>7, <1>9, <1>13, MoveOn DEF d
  <2>2. PICK o2 \in Offsets, e \in Int : Advances(sp, c, x, y, d, o2, e)
    BY <2>1
  <2>3. /\ d \in Machine /\ ~d.halted /\ cost = e /\ Spares(c, d, {WorkCell} \cup Zone(sp, x))
    BY <2>2 DEF Advances
  <2> DEFINE z == Later(x, y, d, o2, e)
             g == [i \in 0 .. n |-> IF i = n THEN z ELSE f[i]]
  <2>4. Frames(g, n, h, d)
    BY <1>1, <1>3, <1>5, <1>7, <2>2, FramesAdvance DEF x, y, sp
  <2>5. z.time = y.time + e /\ z.count = y.count + 1
    BY DEF Later
  <2> HIDE DEF z
  <2>6. g[0] = f[0] /\ g[n] = z
    BY <1>3
  <2> HIDE DEF g
  <2>7. Nested(g, n, h, d, t, k, t2 + cost, k2 + 1)
    BY <1>1, <2>3, <2>4, <2>5, <2>6 DEF Nested, y
  <2>8. Agree(Own(h), h.mem, d.mem)
    BY <1>11, <2>3, SparesAgree
  <2>9. QED
    BY <2>1, <2>3, <2>7, <2>8 DEF d
<1>14. QED
  BY <1>12, <1>13

\* An interrupt, in the program or in a handler, during a halt or not.
LEMMA InterruptMoves ==
  ASSUME NEW n \in Nat, 8 * (n + 1) <= StackRoom, NEW h \in Machine, NEW c \in Machine,
         Agree(Own(h), h.mem, c.mem),
         NEW f, NEW t, NEW k, NEW t2, NEW k2, Nested(f, n, h, c, t, k, t2, k2)
  PROVE  LET d == JamOf(c, 255, <<0, 0>>, 0)
             h2 == [h EXCEPT !.halted = FALSE]
         IN  /\ d \in Machine /\ ~d.halted /\ ~h2.halted /\ Agree(Own(h2), h2.mem, d.mem)
             /\ StatesOf(c, 255) = 11
             /\ \E g : Nested(g, n + 1, h2, d, t, k, t2 + 11, k2 + 1)
<1> DEFINE d == JamOf(c, 255, <<0, 0>>, 0)
           h2 == [h EXCEPT !.halted = FALSE]
           y == [reg |-> d.reg, flag |-> d.flag, pc |-> d.pc, low |-> f[n].low + 2,
                 time |-> f[n].time + 11, count |-> f[n].count + 1]
           g == [i \in 0 .. n + 1 |-> IF i = n + 1 THEN y ELSE f[i]]
           above == Previous16(c.sp)
           below == Previous16(above)
<1>1. Frames(f, n, h, c) /\ f[0].time = t /\ f[0].count = k /\ f[n].time = t2 /\ f[n].count = k2
  BY DEF Nested
<1>2. /\ d \in Machine /\ ~d.halted /\ d.pc = HandlerAt /\ d.reg = c.reg /\ d.flag = c.flag
      /\ StatesOf(c, 255) = 11 /\ d.sp = below /\ Spares(c, d, {above, below})
      /\ Peek(d, above) = High(c.pc) /\ Peek(d, below) = Low(c.pc)
  BY JamRestart DEF HandlerAt
<1> HIDE DEF d
<1>3. Frames(g, n + 1, h, d)
  BY <1>1, <1>2, FramesInterrupt
<1>4. /\ h2.reg = h.reg /\ h2.flag = h.flag /\ h2.pc = h.pc /\ h2.sp = h.sp /\ h2.mem = h.mem
      /\ ~h2.halted
  BY DEF Machine
<1>5. y.time = f[n].time + 11 /\ y.count = f[n].count + 1
  OBVIOUS
<1> HIDE DEF h2, y
<1>6. g[0] = f[0] /\ g[n + 1] = y
  OBVIOUS
<1> HIDE DEF g
<1>7. Frames(g, n + 1, h2, d)
  BY <1>3, <1>4, FramesAlike
<1>8. Nested(g, n + 1, h2, d, t, k, t2 + 11, k2 + 1)
  BY <1>1, <1>5, <1>6, <1>7 DEF Nested
<1>9. Own(h2) = Own(h)
  BY <1>4 DEF Own, FreeStack
<1>10. Own(h) \cap {above, below} = {}
  <2>1. f[n].low \in Nat /\ f[n].low <= 8 * n /\ c.sp = Down(h.sp, f[n].low) /\ h.sp \in Word
    <3>1. n \in 0 .. n
      OBVIOUS
    <3>2. QED
      BY <1>1, <3>1, FramesAre DEF Machine
  <2> DEFINE L == f[n].low
  <2>2. L \in Nat /\ L < 1000 /\ L + 1 \in Nat /\ L + 1 < 1000 /\ L + 1 + 1 = L + 2
        /\ 1 <= L + 1 /\ L + 1 <= StackRoom /\ L + 2 \in Nat /\ 1 <= L + 2 /\ L + 2 <= StackRoom
    BY <2>1 DEF StackRoom
  <2> HIDE DEF L
  <2>3. Previous16(Down(h.sp, L)) = Down(h.sp, L + 1)
    BY <2>1, <2>2, Downs
  <2>4. Previous16(Down(h.sp, L + 1)) = Down(h.sp, L + 1 + 1)
    BY <2>1, <2>2, Downs
  <2>5. above = Down(h.sp, L + 1) /\ below = Down(h.sp, L + 2)
    BY <2>1, <2>2, <2>3, <2>4 DEF L
  <2>6. FreeStack(h, Down(h.sp, L + 1))
    BY <2>1, <2>2, DownFree
  <2>7. FreeStack(h, Down(h.sp, L + 2))
    BY <2>1, <2>2, DownFree
  <2>8. QED
    BY <2>5, <2>6, <2>7 DEF Own
<1>11. Agree(Own(h2), h2.mem, d.mem)
  <2>1. Agree(Own(h), h.mem, d.mem)
    BY <1>2, <1>10, SparesAgree
  <2>2. QED
    BY <1>4, <1>9, <2>1
<1>12. QED
  BY <1>2, <1>4, <1>8, <1>11 DEF d, h2

\* An instruction of the program, in the CPU and in the machine without interrupts.
LEMMA ProgramMoves ==
  ASSUME NEW h \in Machine, NEW c \in Machine, ~h.halted, ~c.halted,
         Agree(Own(h), h.mem, c.mem),
         c.reg = h.reg, c.flag = h.flag, c.pc = h.pc, c.sp = h.sp, Private(h)
  PROVE  LET h2 == Step(h, EchoInput)
             d == Step(c, EchoInput)
         IN  /\ h2 \in Machine /\ d \in Machine
             /\ d.reg = h2.reg /\ d.flag = h2.flag /\ d.pc = h2.pc /\ d.sp = h2.sp
             /\ d.halted = h2.halted /\ Agree(Own(h2), h2.mem, d.mem)
             /\ StatesOf(c, Peek(c, c.pc)) = StatesOf(h, Peek(h, h.pc))
<1> DEFINE h2 == Step(h, EchoInput)
           d == Step(c, EchoInput)
           S == Own(h)
           D == DOMAIN h.mem
           W == Writes(h)
<1>1. Twin(S, D, h, c)
  <2>1. c.halted = h.halted
    BY DEF Machine
  <2>2. QED
    BY <2>1 DEF Twin
<1>2. Reads(h) \subseteq S /\ \A a \in D : FreeStack(h, a) => FreeStack(h2, a) \/ a \in W
  BY DEF Private
<1>3. \A a : a \in S <=> a \in D /\ ~FreeStack(h, a)
  BY DEF Own
<1>4. \A a : a \in Own(h2) <=> a \in DOMAIN h2.mem /\ ~FreeStack(h2, a)
  BY DEF Own
<1> HIDE DEF h2, d, S, D, W
<1>5. Twin(S \cup W, D \cup W, h2, d) /\ Peek(c, c.pc) = Peek(h, h.pc)
  BY <1>1, <1>2, StepTwin, EchoByte DEF h2, d, W
<1>6. /\ h2 \in Machine /\ d \in Machine
      /\ d.reg = h2.reg /\ d.flag = h2.flag /\ d.pc = h2.pc /\ d.sp = h2.sp
      /\ d.halted = h2.halted /\ DOMAIN h2.mem \subseteq D \cup W
      /\ Agree(S \cup W, h2.mem, d.mem)
  BY <1>5 DEF Twin
<1>7. Own(h2) \subseteq S \cup W
  BY <1>2, <1>3, <1>4, <1>6
<1>8. Agree(Own(h2), h2.mem, d.mem)
  BY <1>6, <1>7 DEF Agree
<1>9. StatesOf(c, Peek(c, c.pc)) = StatesOf(h, Peek(h, h.pc))
  <2> DEFINE k == Peek(h, h.pc)
  <2>1. Taken(c, k) <=> Taken(h, k)
    BY TakenIs
  <2>2. StatesOf(c, k) = StatesOf(h, k)
    BY <2>1 DEF StatesOf
  <2>3. QED
    BY <1>5, <2>2
<1>10. QED
  BY <1>6, <1>8, <1>9 DEF h2, d

---------------------------------------------------------------------------
(* The inductive invariant.                                                *)

\* The time and the instructions of the CPU, those of wait states and of the interrupts
\* that have ended deducted.
CpuTime == clock.states - clock.waits - InterruptTime * (interrupts - depth)
CpuCount == clock.instructions - 13 * (interrupts - depth)

InterruptsNest ==
  /\ depth = 0 => m.halted = shadow.halted
  /\ depth > 0 => ~m.halted /\ ~shadow.halted
  /\ Requested => depth = 0
  /\ program.name = "rst_ring" => depth = 0
  /\ Agree(Own(shadow), shadow.mem, m.mem)
  /\ \E f : Nested(f, depth, shadow, m, states, steps, CpuTime, CpuCount)

\* With no handler to return from, the CPU and the program without interrupts are in the
\* same state and have taken the same time.
LEMMA NoneNested ==
  ASSUME NEW f, NEW h \in Machine, NEW c, NEW t, NEW k, NEW t2, NEW k2,
         Nested(f, 0, h, c, t, k, t2, k2)
  PROVE  c.reg = h.reg /\ c.flag = h.flag /\ c.pc = h.pc /\ c.sp = h.sp /\ t2 = t /\ k2 = k
<1>1. Frames(f, 0, h, c) /\ f[0].time = t /\ f[0].count = k /\ f[0].time = t2 /\ f[0].count = k2
  BY DEF Nested
<1>2. h.sp \in Word
  BY DEF Machine
<1>3. QED
  BY <1>1, <1>2, FramesNone

LEMMA NestInit == Init => InterruptsNest
<1> SUFFICES ASSUME Init PROVE InterruptsNest
  OBVIOUS
<1>1. shadow \in Machine /\ m = shadow
  BY ImageIs DEF Init
<1>2. depth = 0 /\ states = 0 /\ steps = 0 /\ CpuTime = 0 /\ CpuCount = 0
  <2>1. InterruptTime \in Int
    BY DEF InterruptTime
  <2>2. InterruptTime * (0 - 0) = 0
    BY <2>1
  <2>3. QED
    BY <2>2 DEF Init, CpuTime, CpuCount
<1>3. \E f : Nested(f, 0, shadow, m, 0, 0, 0, 0)
  <2>1. 0 \in Int
    OBVIOUS
  <2>2. QED
    BY <1>1, <2>1, NestedNone
<1>4. Agree(Own(shadow), shadow.mem, m.mem)
  BY <1>1 DEF Agree, Own
<1>5. QED
  BY <1>1, <1>2, <1>3, <1>4 DEF InterruptsNest

LEMMA NestProgramStep ==
  ASSUME ProgramTypeOK, InterruptsNest, Disciplined, ProgramStep
  PROVE  InterruptsNest'
<1>1. /\ m \in Machine /\ shadow \in Machine /\ clock \in Clock
      /\ steps \in Nat /\ states \in Nat /\ interrupts \in Nat
  BY DEF ProgramTypeOK
<1>2. depth = 0 /\ ~m.halted /\ steps < MaxSteps
  BY DEF ProgramStep, CanFetch
<1>3. ~shadow.halted /\ Private(shadow) /\ Agree(Own(shadow), shadow.mem, m.mem)
  BY <1>2 DEF InterruptsNest, Disciplined
<1>4. PICK f : Nested(f, 0, shadow, m, states, steps, CpuTime, CpuCount)
  BY <1>2 DEF InterruptsNest
<1>5. /\ m.reg = shadow.reg /\ m.flag = shadow.flag /\ m.pc = shadow.pc /\ m.sp = shadow.sp
      /\ CpuTime = states /\ CpuCount = steps
  BY <1>1, <1>4, NoneNested
<1> DEFINE cost == StatesOf(shadow, Peek(shadow, shadow.pc))
<1>6. /\ m' = Step(m, EchoInput) /\ shadow' = Step(shadow, EchoInput)
      /\ steps' = steps + 1 /\ states' = states + cost
      /\ clock' = RecordTiming(clock, StatesOf(m, Peek(m, m.pc)))
      /\ depth' = depth /\ interrupts' = interrupts /\ program' = program
  BY DEF ProgramStep
<1>7. /\ shadow' \in Machine /\ m' \in Machine
      /\ m'.reg = shadow'.reg /\ m'.flag = shadow'.flag /\ m'.pc = shadow'.pc
      /\ m'.sp = shadow'.sp /\ m'.halted = shadow'.halted
      /\ Agree(Own(shadow'), shadow'.mem, m'.mem)
      /\ StatesOf(m, Peek(m, m.pc)) = cost
  BY <1>1, <1>2, <1>3, <1>5, <1>6, ProgramMoves
<1>8. cost \in Nat
  BY <1>1, PeekType, StatesType
<1> HIDE DEF cost
<1>9. /\ clock'.instructions = clock.instructions + 1 /\ clock'.states = clock.states + cost
      /\ clock'.waits = clock.waits
  BY <1>1, <1>6, <1>7, <1>8, ClockKeeps
<1>10. clock.instructions \in Nat /\ clock.states \in Nat /\ clock.waits \in Nat /\ InterruptTime \in Int
  BY <1>1 DEF Clock, InterruptTime
<1>11. CpuTime' = states' /\ CpuCount' = steps'
  <2>1. depth' = 0 /\ InterruptTime * (interrupts - 0) \in Int
    BY <1>1, <1>2, <1>6, <1>10
  <2>2. states = clock.states - clock.waits - InterruptTime * (interrupts - 0)
    BY <1>2, <1>5 DEF CpuTime
  <2>3. steps = clock.instructions - 13 * (interrupts - 0)
    BY <1>2, <1>5 DEF CpuCount
  <2> DEFINE done == InterruptTime * (interrupts - 0)
  <2>4. CpuTime' = clock'.states - clock'.waits - done
    BY <1>6, <2>1 DEF CpuTime
  <2>5. CpuCount' = clock'.instructions - 13 * (interrupts - 0)
    BY <1>6, <2>1 DEF CpuCount
  <2> HIDE DEF done
  <2>6. CpuTime' = states'
    BY <1>6, <1>8, <1>9, <1>10, <2>1, <2>2, <2>4 DEF done
  <2>7. CpuCount' = steps'
    BY <1>1, <1>6, <1>9, <1>10, <2>3, <2>5
  <2>8. QED
    BY <2>6, <2>7
<1>12. states' \in Int /\ steps' \in Int
  BY <1>1, <1>6, <1>8
<1>13. \E g : Nested(g, 0, shadow', m', states', steps', states', steps')
  BY <1>7, <1>12, NestedNone
<1>14. depth' = 0
  BY <1>2, <1>6
<1>15. \E g : Nested(g, 0, shadow', m', states', steps', CpuTime', CpuCount')
  BY <1>11, <1>13
<1>16. QED
  BY <1>7, <1>14, <1>15 DEF InterruptsNest

LEMMA NestHandlerStep ==
  ASSUME ProgramTypeOK, InterruptsNest, Disciplined, HandlerStep
  PROVE  InterruptsNest'
<1>1. /\ m \in Machine /\ shadow \in Machine /\ clock \in Clock
      /\ depth \in Nat /\ interrupts \in Nat
  BY DEF ProgramTypeOK
<1>2. depth > 0 /\ 1 <= depth /\ 8 * depth <= StackRoom
  BY <1>1 DEF HandlerStep, Disciplined
<1>3. ~m.halted /\ ~shadow.halted /\ Agree(Own(shadow), shadow.mem, m.mem) /\ program.name # "rst_ring"
  BY <1>1, <1>2 DEF InterruptsNest
<1>4. Serviceable(shadow)
  BY <1>3 DEF Disciplined
<1>5. PICK f : Nested(f, depth, shadow, m, states, steps, CpuTime, CpuCount)
  BY DEF InterruptsNest
<1> DEFINE op == Peek(m, m.pc)
           cost == StatesOf(m, op)
           d == Step(m, EchoInput)
<1>6. /\ d \in Machine /\ ~d.halted /\ Agree(Own(shadow), shadow.mem, d.mem)
      /\ op = RET => \E g : Nested(g, depth - 1, shadow, d, states, steps,
                                   CpuTime + cost - InterruptTime, CpuCount + 1 - 13)
      /\ op # RET => \E g : Nested(g, depth, shadow, d, states, steps, CpuTime + cost, CpuCount + 1)
  BY <1>1, <1>2, <1>3, <1>4, <1>5, HandlerMoves, EchoByte
<1>7. /\ m' = d /\ depth' = (IF op = RET THEN depth - 1 ELSE depth)
      /\ clock' = RecordTiming(clock, cost)
      /\ program' = program /\ shadow' = shadow /\ interrupts' = interrupts
      /\ steps' = steps /\ states' = states
  BY DEF HandlerStep
<1>8. cost \in Nat
  BY <1>1, PeekType, StatesType
<1> HIDE DEF d, op, cost
<1>9. /\ clock'.instructions = clock.instructions + 1 /\ clock'.states = clock.states + cost
      /\ clock'.waits = clock.waits
  BY <1>1, <1>7, <1>8, ClockKeeps
<1>10. clock.instructions \in Nat /\ clock.states \in Nat /\ clock.waits \in Nat
  BY <1>1 DEF Clock
<1>11. ~Requested'
  BY <1>9, <1>10 DEF Requested
<1>12. CASE op = RET
  <2>1. depth' = depth - 1
    BY <1>7, <1>12
  <2>2. CpuTime' = CpuTime + cost - InterruptTime
    BY <1>1, <1>7, <1>8, <1>9, <1>10, <2>1 DEF CpuTime, InterruptTime
  <2>3. CpuCount' = CpuCount + 1 - 13
    BY <1>1, <1>7, <1>9, <1>10, <2>1 DEF CpuCount
  <2>4. \E g : Nested(g, depth', shadow', m', states', steps', CpuTime', CpuCount')
    BY <1>6, <1>7, <1>12, <2>1, <2>2, <2>3
  <2>5. m'.halted = shadow'.halted
    BY <1>1, <1>3, <1>6, <1>7 DEF Machine
  <2>6. QED
    BY <1>3, <1>6, <1>7, <1>11, <2>4, <2>5 DEF InterruptsNest
<1>13. CASE op # RET
  <2>1. depth' = depth
    BY <1>7, <1>13
  <2>2. CpuTime' = CpuTime + cost
    BY <1>1, <1>7, <1>8, <1>9, <1>10, <2>1 DEF CpuTime, InterruptTime
  <2>3. CpuCount' = CpuCount + 1
    BY <1>1, <1>7, <1>9, <1>10, <2>1 DEF CpuCount
  <2>4. \E g : Nested(g, depth', shadow', m', states', steps', CpuTime', CpuCount')
    BY <1>6, <1>7, <1>13, <2>1, <2>2, <2>3
  <2>5. depth' # 0
    BY <1>2, <2>1
  <2>6. QED
    BY <1>3, <1>6, <1>7, <1>11, <2>4, <2>5 DEF InterruptsNest
<1>14. QED
  BY <1>12, <1>13

LEMMA NestInterrupt ==
  ASSUME ProgramTypeOK, InterruptsNest, 8 * depth' <= StackRoom, Interrupt
  PROVE  InterruptsNest'
<1>1. /\ m \in Machine /\ shadow \in Machine /\ clock \in Clock
      /\ depth \in Nat /\ interrupts \in Nat
  BY DEF ProgramTypeOK
<1> DEFINE d == JamOf(m, 255, <<0, 0>>, 0)
           h2 == [shadow EXCEPT !.halted = FALSE]
<1>2. /\ m' = d /\ shadow' = h2 /\ depth' = depth + 1 /\ interrupts' = interrupts + 1
      /\ clock' = RecordTiming(clock, StatesOf(m, 255)) /\ program' = program
      /\ steps' = steps /\ states' = states /\ program.name # "rst_ring"
  BY DEF Interrupt, CanForce
<1>3. 8 * (depth + 1) <= StackRoom
  BY <1>2
<1>4. PICK f : Nested(f, depth, shadow, m, states, steps, CpuTime, CpuCount)
  BY DEF InterruptsNest
<1>5. Agree(Own(shadow), shadow.mem, m.mem)
  BY DEF InterruptsNest
<1>6. /\ d \in Machine /\ ~d.halted /\ ~h2.halted /\ Agree(Own(h2), h2.mem, d.mem)
      /\ StatesOf(m, 255) = 11
      /\ \E g : Nested(g, depth + 1, h2, d, states, steps, CpuTime + 11, CpuCount + 1)
  BY <1>1, <1>3, <1>4, <1>5, InterruptMoves
<1> HIDE DEF d, h2
<1>7. /\ clock'.instructions = clock.instructions + 1 /\ clock'.states = clock.states + 11
      /\ clock'.waits = clock.waits
  <2>1. 11 \in Nat
    OBVIOUS
  <2>2. QED
    BY <1>1, <1>2, <1>6, <2>1, ClockKeeps
<1>8. clock.instructions \in Nat /\ clock.states \in Nat /\ clock.waits \in Nat
  BY <1>1 DEF Clock
<1>9. ~Requested'
  BY <1>7, <1>8 DEF Requested
<1>10. CpuTime' = CpuTime + 11
  BY <1>1, <1>2, <1>7, <1>8 DEF CpuTime, InterruptTime
<1>11. CpuCount' = CpuCount + 1
  BY <1>1, <1>2, <1>7, <1>8 DEF CpuCount
<1>12. \E g : Nested(g, depth', shadow', m', states', steps', CpuTime', CpuCount')
  BY <1>2, <1>6, <1>10, <1>11
<1>13. depth' # 0
  BY <1>1, <1>2
<1>14. QED
  BY <1>2, <1>6, <1>9, <1>12, <1>13 DEF InterruptsNest

LEMMA NestOwnInterrupt ==
  ASSUME ProgramTypeOK, InterruptsNest, OwnInterrupt
  PROVE  InterruptsNest'
<1>1. /\ m \in Machine /\ shadow \in Machine /\ clock \in Clock
      /\ depth \in Nat /\ interrupts \in Nat /\ steps \in Nat /\ states \in Nat
  BY DEF ProgramTypeOK
<1>2. depth = 0
  BY DEF InterruptsNest, OwnInterrupt
<1>3. PICK f : Nested(f, 0, shadow, m, states, steps, CpuTime, CpuCount)
  BY <1>2 DEF InterruptsNest
<1>4. CpuTime = states /\ CpuCount = steps
  BY <1>1, <1>3, NoneNested
<1> DEFINE d == JamOf(m, 207, <<0, 0>>, 0)
<1>5. d \in Machine /\ StatesOf(m, 207) = 11
  <2>1. d \in Machine
    BY <1>1, JamType, EchoByte
  <2>2. 207 \notin Unassigned /\ 207 \in RST
    BY HandlerCodes, EchoByte, Octal, FamilyOf DEF Families
  <2>3. QED
    BY <2>1, <2>2, EchoByte, StatesAre
<1>6. /\ m' = d /\ shadow' = d /\ depth' = 0 /\ interrupts' = interrupts
      /\ steps' = steps + 1 /\ states' = states + 11 /\ clock' = RecordTiming(clock, 11)
      /\ program' = program
  BY <1>2, <1>5 DEF OwnInterrupt
<1> HIDE DEF d
<1>7. /\ clock'.instructions = clock.instructions + 1 /\ clock'.states = clock.states + 11
      /\ clock'.waits = clock.waits
  <2>1. 11 \in Nat
    OBVIOUS
  <2>2. QED
    BY <1>1, <1>6, <2>1, ClockKeeps
<1>8. clock.instructions \in Nat /\ clock.states \in Nat /\ clock.waits \in Nat
  BY <1>1 DEF Clock
<1>9. CpuTime' = CpuTime + 11 /\ CpuTime' = states'
  BY <1>1, <1>2, <1>4, <1>6, <1>7, <1>8 DEF CpuTime, InterruptTime
<1>10. CpuCount' = CpuCount + 1 /\ CpuCount' = steps'
  BY <1>1, <1>2, <1>4, <1>6, <1>7, <1>8 DEF CpuCount
<1>11. states' \in Int /\ steps' \in Int
  BY <1>1, <1>6
<1>12. \E g : Nested(g, 0, d, d, states', steps', states', steps')
  BY <1>5, <1>11, NestedNone
<1>13. Agree(Own(d), d.mem, d.mem)
  BY DEF Agree, Own
<1>14. \E g : Nested(g, depth', shadow', m', states', steps', CpuTime', CpuCount')
  BY <1>6, <1>9, <1>10, <1>12
<1>15. Agree(Own(shadow'), shadow'.mem, m'.mem)
  BY <1>6, <1>13
<1>16. QED
  BY <1>6, <1>14, <1>15 DEF InterruptsNest

LEMMA NestNext ==
  ASSUME ProgramTypeOK, InterruptsNest, Requested \/ Disciplined, 8 * depth' <= StackRoom,
         [Next]_progVars
  PROVE  InterruptsNest'
<1>1. ASSUME NEW what \in {"fetched", "forced"}, Wait(what)
      PROVE  InterruptsNest'
  <2>1. /\ program' = program /\ m' = m /\ shadow' = shadow /\ depth' = depth
        /\ interrupts' = interrupts /\ steps' = steps /\ states' = states
        /\ clock' = RecordWaitState(clock)
    BY <1>1 DEF Wait
  <2>2. clock \in Clock /\ clock.states \in Nat /\ clock.waits \in Nat /\ 0 \in Nat
    BY DEF ProgramTypeOK, Clock
  <2>3. /\ clock'.instructions = clock.instructions /\ clock'.states = clock.states + 1
        /\ clock'.waits = clock.waits + 1
    BY <2>1, <2>2, ClockKeeps
  <2>4. Requested' <=> Requested
    BY <2>1, <2>3 DEF Requested
  <2>5. CpuCount' = CpuCount
    BY <2>1, <2>3 DEF CpuCount
  <2>6. CpuTime' = CpuTime
    <3>1. clock'.states - clock'.waits = clock.states - clock.waits
      BY <2>2, <2>3
    <3>2. QED
      BY <2>1, <3>1 DEF CpuTime
  <2>7. \E f : Nested(f, depth', shadow', m', states', steps', CpuTime', CpuCount')
    BY <2>1, <2>5, <2>6 DEF InterruptsNest
  <2>8. QED
    BY <2>1, <2>4, <2>7 DEF InterruptsNest
<1>2. CASE UNCHANGED progVars
  <2>1. /\ program' = program /\ m' = m /\ shadow' = shadow /\ depth' = depth
        /\ interrupts' = interrupts /\ steps' = steps /\ states' = states /\ clock' = clock
    BY <1>2 DEF progVars
  <2>2. CpuTime' = CpuTime /\ CpuCount' = CpuCount /\ (Requested' <=> Requested)
    BY <2>1 DEF CpuTime, CpuCount, Requested
  <2>3. \E f : Nested(f, depth', shadow', m', states', steps', CpuTime', CpuCount')
    BY <2>1, <2>2 DEF InterruptsNest
  <2>4. QED
    BY <2>1, <2>2, <2>3 DEF InterruptsNest
<1>3. ProgramStep \/ HandlerStep => Disciplined
  BY DEF ProgramStep, HandlerStep, CanFetch
<1>4. QED
  BY <1>1, <1>2, <1>3, NestProgramStep, NestHandlerStep, NestInterrupt, NestOwnInterrupt DEF Next

LEMMA NestAlways == Spec /\ []Disciplined => [](ProgramTypeOK /\ WaitsCharged /\ InterruptsNest)
<1>1. Init => InterruptsNest
  BY NestInit
<1>2. ProgramTypeOK /\ InterruptsNest /\ Disciplined /\ Disciplined' /\ [Next]_progVars
        => InterruptsNest'
  BY NestNext DEF Disciplined
<1>3. QED
  BY <1>1, <1>2, WaitStatesCharged, PTL DEF Spec

\* Of every disciplined program: an interrupt between any two instructions, in the program, in
\* a handler or in a halt, leaves no trace once its handlers have returned, except under
\* the stack (frontpanel.go:286-299, step.go:68-87, execute.go:171-217, cpu.go:174-201).
THEOREM TransparentWhenDisciplined == Spec /\ []Disciplined => []InterruptsTransparent
<1>1. ASSUME ProgramTypeOK, InterruptsNest PROVE InterruptsTransparent
  <2> SUFFICES ASSUME depth = 0
               PROVE  /\ <<m.reg, m.flag, m.pc, m.sp, m.halted>>
                           = <<shadow.reg, shadow.flag, shadow.pc, shadow.sp, shadow.halted>>
                      /\ \A a \in DOMAIN shadow.mem : UnderStack(a) \/ m.mem[a] = shadow.mem[a]
    BY DEF InterruptsTransparent
  <2>1. PICK f : Nested(f, 0, shadow, m, states, steps, CpuTime, CpuCount)
    BY <1>1 DEF InterruptsNest
  <2>2. shadow \in Machine
    BY <1>1 DEF ProgramTypeOK
  <2>3. m.reg = shadow.reg /\ m.flag = shadow.flag /\ m.pc = shadow.pc /\ m.sp = shadow.sp
    BY <2>1, <2>2, NoneNested
  <2>4. m.halted = shadow.halted
    BY <1>1 DEF InterruptsNest
  <2>5. \A a \in DOMAIN shadow.mem : UnderStack(a) \/ m.mem[a] = shadow.mem[a]
    BY <1>1 DEF InterruptsNest, Agree, Own, UnderStack
  <2>6. QED
    BY <2>3, <2>4, <2>5
<1>2. QED
  BY <1>1, NestAlways, PTL

\* Of every disciplined program: with no handler active, the CPU's counters are those of
\* the program alone, plus 119 states and 13 instructions for each interrupt, plus the wait
\* states, each charged to one instruction (step.go:35-65, 68-87).
THEOREM TimeAccountedWhenDisciplined == Spec /\ []Disciplined => []TimeAccounted
<1>1. ASSUME ProgramTypeOK, WaitsCharged, InterruptsNest PROVE TimeAccounted
  <2> SUFFICES ASSUME depth = 0, held = "nothing"
               PROVE  /\ clock.states = states + clock.waits + InterruptTime * interrupts
                      /\ clock.instructions = steps + 13 * interrupts
                      /\ clock.charged = clock.waits /\ clock.pending = 0
    BY DEF TimeAccounted
  <2>1. PICK f : Nested(f, 0, shadow, m, states, steps, CpuTime, CpuCount)
    BY <1>1 DEF InterruptsNest
  <2>2. /\ shadow \in Machine /\ clock \in Clock /\ interrupts \in Nat /\ states \in Nat
        /\ steps \in Nat
    BY <1>1 DEF ProgramTypeOK
  <2>3. CpuTime = states /\ CpuCount = steps
    BY <2>1, <2>2, NoneNested
  <2>4. /\ clock.instructions \in Nat /\ clock.states \in Nat /\ clock.waits \in Nat
        /\ clock.pending \in Nat /\ clock.charged \in Nat
    BY <2>2 DEF Clock
  <2>5. clock.states = states + clock.waits + InterruptTime * interrupts
    BY <2>2, <2>3, <2>4 DEF CpuTime, InterruptTime
  <2>6. clock.instructions = steps + 13 * interrupts
    BY <2>2, <2>3, <2>4 DEF CpuCount
  <2>7. clock.pending = 0 /\ clock.charged = clock.waits
    BY <1>1, <2>4 DEF WaitsCharged
  <2>8. QED
    BY <2>5, <2>6, <2>7
<1>2. QED
  BY <1>1, NestAlways, PTL

---------------------------------------------------------------------------
(* The instructions of the suite.                                          *)

SuiteCode == {62, 54, 71, 126, 198, 33, 210, 220, HLT, CALL, RET, RLC, IN_, OUT}

LEMMA SuiteCodes ==
  /\ 62 \in MVI /\ Y(62) = RegA /\ 54 \in MVI /\ Y(54) = RegM
  /\ 71 \in MOV /\ Y(71) = 0 /\ Z(71) = RegA /\ 126 \in MOV /\ Y(126) = RegA /\ Z(126) = RegM
  /\ 198 \in ALUImm /\ GroupOf(198) = "ADD" /\ 33 \in LXI
  /\ 210 \in Jcc /\ Y(210) = 2 /\ 220 \in Ccc /\ Y(220) = 3
  /\ \A k \in SuiteCode : k \in Byte /\ k \notin Unassigned
<1>1. \A k \in {62, 54, 71, 126, 198, 33, 210, 220, 118, 205, 201, 7, 219, 211} : k \in Byte
  BY ByteIs
<1>2. /\ X(62) = 0 /\ Y(62) = 7 /\ Z(62) = 6 /\ X(54) = 0 /\ Y(54) = 6 /\ Z(54) = 6
      /\ X(71) = 1 /\ Y(71) = 0 /\ Z(71) = 7 /\ X(126) = 1 /\ Y(126) = 7 /\ Z(126) = 6
      /\ X(198) = 3 /\ Y(198) = 0 /\ Z(198) = 6 /\ X(33) = 0 /\ Y(33) = 4 /\ Z(33) = 1
      /\ X(210) = 3 /\ Y(210) = 2 /\ Z(210) = 2 /\ X(220) = 3 /\ Y(220) = 3 /\ Z(220) = 4
      /\ X(118) = 1 /\ X(205) = 3 /\ X(201) = 3 /\ X(7) = 0 /\ Z(7) = 7 /\ X(219) = 3 /\ X(211) = 3
  BY DEF X, Y, Z
<1>3. \A k \in {62, 54, 71, 126, 198, 33, 210, 220, 118, 205, 201, 7, 219, 211} : Families(k)
  BY <1>1, FamilyOf
<1>4. Families(62) /\ Families(54) /\ Families(71) /\ Families(126) /\ Families(198)
      /\ Families(33) /\ Families(210) /\ Families(220)
  BY <1>3
<1>5. /\ 62 \in MVI /\ 54 \in MVI /\ 71 \in MOV /\ 126 \in MOV /\ 198 \in ALUImm /\ 33 \in LXI
      /\ 210 \in Jcc /\ 220 \in Ccc
  BY <1>2, <1>4 DEF Families, Even, HLT
<1>6. \A k \in {62, 54, 71, 126, 198, 33, 210, 220, 118, 205, 201, 7, 219, 211} :
        k \notin Unassigned
  BY <1>2, <1>3 DEF Families
<1>7. GroupOf(198) = "ADD"
  BY <1>2 DEF GroupOf
<1>8. QED
  BY <1>1, <1>2, <1>5, <1>6, <1>7 DEF SuiteCode, RegA, RegM, HLT, CALL, RET, RLC, IN_, OUT

\* What the instructions of the suite load; the stack has lemmas of its own.
LEMMA SuiteLoads ==
  ASSUME NEW c \in Machine, NEW word, NEW k \in SuiteCode
  PROVE  Loads(c, k, word) \subseteq (IF k = 126 THEN {HL(c)} ELSE IF k = RET THEN StackTop(c) ELSE {})
<1>1. k \in Byte /\ Families(k)
  BY SuiteCodes, FamilyOf
<1>2. /\ k \in MOV \cup ALUReg /\ Z(k) = RegM => k = 126
      /\ ~(k \in INR \cup DCR /\ Y(k) = RegM)
      /\ k \notin LDAX /\ k \notin {LDA, LHLD} /\ k # LHLD
      /\ k \in POP \cup {RET, XTHL} \/ (k \in Rcc /\ Taken(c, k)) => k = RET
  <2>1. \/ k = 62 \/ k = 54 \/ k = 71 \/ k = 126 \/ k = 198 \/ k = 33 \/ k = 210 \/ k = 220
        \/ k = 118 \/ k = 205 \/ k = 201 \/ k = 7 \/ k = 219 \/ k = 211
    BY DEF SuiteCode, HLT, CALL, RET, RLC, IN_, OUT
  <2>2. /\ X(62) = 0 /\ Y(62) = 7 /\ Z(62) = 6 /\ X(54) = 0 /\ Y(54) = 6 /\ Z(54) = 6
        /\ X(71) = 1 /\ Y(71) = 0 /\ Z(71) = 7 /\ X(126) = 1 /\ Y(126) = 7 /\ Z(126) = 6
        /\ X(198) = 3 /\ Y(198) = 0 /\ Z(198) = 6 /\ X(33) = 0 /\ Y(33) = 4 /\ Z(33) = 1
        /\ X(210) = 3 /\ Y(210) = 2 /\ Z(210) = 2 /\ X(220) = 3 /\ Y(220) = 3 /\ Z(220) = 4
        /\ X(118) = 1 /\ Z(118) = 6 /\ X(205) = 3 /\ Z(205) = 5 /\ X(201) = 3 /\ Y(201) = 1
        /\ Z(201) = 1 /\ X(7) = 0 /\ Z(7) = 7 /\ X(219) = 3 /\ Z(219) = 3 /\ X(211) = 3
        /\ Z(211) = 3
    BY DEF X, Y, Z
  <2>3. k \in MOV \cup ALUReg /\ Z(k) = RegM => k = 126
    BY <1>1, <2>1, <2>2 DEF Families, RegM, HLT
  <2>4. ~(k \in INR \cup DCR)
    BY <1>1, <2>1, <2>2 DEF Families
  <2>5. k \notin POP /\ k \notin Rcc
    BY <1>1, <2>1, <2>2 DEF Families, Even
  <2>6. k \notin LDAX /\ k \notin {LDA, LHLD} /\ k # LHLD /\ k # XTHL
    BY <2>1 DEF LDAX, LDA, LHLD, XTHL
  <2>7. QED
    BY <2>3, <2>4, <2>5, <2>6
<1>3. 126 # RET
  BY DEF RET
<1> DEFINE P1 == (k \in MOV \cup ALUReg /\ Z(k) = RegM) \/ (k \in INR \cup DCR /\ Y(k) = RegM)
           P2 == k \in LDAX
           P3 == k \in {LDA, LHLD}
           P4 == k = LHLD
           P5 == k \in POP \cup {RET, XTHL} \/ (k \in Rcc /\ Taken(c, k))
<1>4. (P1 => k = 126) /\ ~P2 /\ ~P3 /\ ~P4 /\ (P5 => k = RET)
  BY <1>2
<1>5. Loads(c, k, word) = Only(P1, {HL(c)}) \cup Only(P2, {Pair(c, PairOf(k))}) \cup Only(P3, {word})
                          \cup Only(P4, {Next16(word)}) \cup Only(P5, StackTop(c))
  BY DEF Loads
<1> HIDE DEF P1, P2, P3, P4, P5
<1>6. QED
  BY <1>3, <1>4, <1>5 DEF Only

LEMMA SuiteLengths ==
  /\ Length(71) = 1 /\ Length(126) = 1 /\ Length(HLT) = 1 /\ Length(RET) = 1 /\ Length(RLC) = 1
  /\ Length(62) = 2 /\ Length(54) = 2 /\ Length(198) = 2 /\ Length(IN_) = 2 /\ Length(OUT) = 2
  /\ Length(33) = 3 /\ Length(210) = 3 /\ Length(220) = 3 /\ Length(CALL) = 3
<1>1. /\ 62 \in Byte /\ 54 \in Byte /\ 71 \in Byte /\ 126 \in Byte /\ 198 \in Byte /\ 33 \in Byte
      /\ 210 \in Byte /\ 220 \in Byte /\ HLT \in Byte /\ CALL \in Byte /\ RET \in Byte
      /\ RLC \in Byte /\ IN_ \in Byte /\ OUT \in Byte
  BY SuiteCodes DEF SuiteCode
<1>2. Length(71) = 1 /\ Length(126) = 1 /\ Length(HLT) = 1 /\ Length(RET) = 1 /\ Length(RLC) = 1
  BY <1>1, SuiteCodes, LengthAre
<1>3. Length(62) = 2 /\ Length(54) = 2 /\ Length(198) = 2 /\ Length(IN_) = 2 /\ Length(OUT) = 2
  BY <1>1, SuiteCodes, LengthAre
<1>4. Length(33) = 3 /\ Length(210) = 3 /\ Length(220) = 3 /\ Length(CALL) = 3
  BY <1>1, SuiteCodes, LengthAre
<1>5. QED
  BY <1>2, <1>3, <1>4

LEMMA StepImmediateA ==
  ASSUME NEW c \in Machine, ~c.halted, NEW input \in Byte, Peek(c, c.pc) = 62
  PROVE  LET d == Step(c, input)
         IN  /\ Goes(c, d, 2, 7) /\ d.mem = c.mem /\ d.sp = c.sp /\ d.flag = c.flag
             /\ d.reg = [c.reg EXCEPT ![RegA] = Peek(c, Next16(c.pc))]
<1> DEFINE d == Step(c, input)
           k == Peek(c, c.pc)
           f == Fetch(c)
           v == Peek(c, Next16(c.pc))
<1>1. /\ f \in Machine /\ f.pc = (c.pc + Length(k)) % 65536 /\ f.reg = c.reg
      /\ f.flag = c.flag /\ f.sp = c.sp /\ f.mem = c.mem /\ ~f.halted
      /\ d = Execute(f, k, OperandBytes(c), input) /\ Arms(f, k, OperandBytes(c), input)
      /\ d \in Machine
  BY StepAs
<1>2. k \in MVI /\ k \in Byte /\ Y(k) = RegA /\ k \notin Unassigned
  BY SuiteCodes DEF SuiteCode
<1>3. Length(k) = 2 /\ ~UsesM(k)
  BY <1>2, LengthAre, UsesMIs DEF RegM, RegA
<1>4. StatesOf(c, k) = 7
  BY <1>2, <1>3, StatesAre
<1> HIDE DEF f, d, k
<1>5. d = Set(f, RegA, v)
  BY <1>1, <1>2 DEF Arms, OperandBytes
<1> HIDE DEF v
<1>6. d = [f EXCEPT !.reg[RegA] = v]
  BY <1>5 DEF Set, RegM, RegA
<1>7. /\ d.pc = f.pc /\ d.halted = f.halted /\ d.mem = f.mem /\ d.sp = f.sp /\ d.flag = f.flag
      /\ d.reg = [f.reg EXCEPT ![RegA] = v]
  BY <1>1, <1>6 DEF Machine
<1>8. Goes(c, d, 2, 7)
  BY <1>1, <1>3, <1>4, <1>7 DEF Goes, k
<1>9. QED
  BY <1>1, <1>7, <1>8 DEF d, v

LEMMA StepCopyA ==
  ASSUME NEW c \in Machine, ~c.halted, NEW input \in Byte, Peek(c, c.pc) = 71
  PROVE  LET d == Step(c, input)
         IN  /\ Goes(c, d, 1, 5) /\ d.mem = c.mem /\ d.sp = c.sp /\ d.flag = c.flag
             /\ d.reg = [c.reg EXCEPT ![0] = c.reg[RegA]]
<1> DEFINE d == Step(c, input)
           k == Peek(c, c.pc)
           f == Fetch(c)
<1>1. /\ f \in Machine /\ f.pc = (c.pc + Length(k)) % 65536 /\ f.reg = c.reg
      /\ f.flag = c.flag /\ f.sp = c.sp /\ f.mem = c.mem /\ ~f.halted
      /\ d = Execute(f, k, OperandBytes(c), input) /\ Arms(f, k, OperandBytes(c), input)
      /\ d \in Machine
  BY StepAs
<1>2. k \in MOV /\ k \in Byte /\ Y(k) = 0 /\ Z(k) = RegA /\ k \notin Unassigned
  BY SuiteCodes DEF SuiteCode
<1>3. Length(k) = 1 /\ ~UsesM(k)
  BY <1>2, LengthAre, UsesMIs DEF RegM, RegA
<1>4. StatesOf(c, k) = 5
  BY <1>2, <1>3, StatesAre
<1> HIDE DEF f, d, k
<1>5. d = Set(Touch(f, RegA), 0, Get(f, RegA))
  BY <1>1, <1>2 DEF Arms
<1>6. d = [f EXCEPT !.reg[0] = c.reg[RegA]]
  BY <1>1, <1>5 DEF Set, Touch, Get, RegM, RegA
<1>7. /\ d.pc = f.pc /\ d.halted = f.halted /\ d.mem = f.mem /\ d.sp = f.sp /\ d.flag = f.flag
      /\ d.reg = [f.reg EXCEPT ![0] = c.reg[RegA]]
  BY <1>1, <1>6 DEF Machine
<1>8. Goes(c, d, 1, 5)
  BY <1>1, <1>3, <1>4, <1>7 DEF Goes, k
<1>9. QED
  BY <1>1, <1>7, <1>8 DEF d

LEMMA StepFromMemory ==
  ASSUME NEW c \in Machine, ~c.halted, NEW input \in Byte, Peek(c, c.pc) = 126
  PROVE  LET d == Step(c, input)
         IN  /\ Goes(c, d, 1, 7) /\ d.mem = c.mem /\ d.sp = c.sp /\ d.flag = c.flag
             /\ d.reg = [c.reg EXCEPT ![RegA] = Peek(c, HL(c))]
<1> DEFINE d == Step(c, input)
           k == Peek(c, c.pc)
           f == Fetch(c)
           v == Peek(c, HL(c))
           g == Log(f, "MR")
<1>1. /\ f \in Machine /\ f.pc = (c.pc + Length(k)) % 65536 /\ f.reg = c.reg
      /\ f.flag = c.flag /\ f.sp = c.sp /\ f.mem = c.mem /\ ~f.halted
      /\ d = Execute(f, k, OperandBytes(c), input) /\ Arms(f, k, OperandBytes(c), input)
      /\ d \in Machine
  BY StepAs
<1>2. k \in MOV /\ k \in Byte /\ Y(k) = RegA /\ Z(k) = RegM /\ k \notin Unassigned
  BY SuiteCodes DEF SuiteCode
<1>3. Length(k) = 1 /\ UsesM(k)
  BY <1>2, LengthAre, UsesMIs
<1>4. StatesOf(c, k) = 7
  BY <1>2, <1>3, StatesAre
<1>5. Get(f, RegM) = v
  BY <1>1 DEF Get, HL, Peek
<1> HIDE DEF f, d, k, v
<1>6. d = Set(g, RegA, v)
  BY <1>1, <1>2, <1>5 DEF Arms, Touch
<1>7. Kept(f, g) /\ g.reg = f.reg /\ g.flag = f.flag /\ g.sp = f.sp /\ g.mem = f.mem
  BY <1>1, LogKeeps DEF Cycle
<1> HIDE DEF g
<1>8. d = [g EXCEPT !.reg[RegA] = v]
  BY <1>6 DEF Set, RegM, RegA
<1>9. /\ d.pc = g.pc /\ d.halted = g.halted /\ d.mem = g.mem /\ d.sp = g.sp /\ d.flag = g.flag
      /\ d.reg = [g.reg EXCEPT ![RegA] = v]
  BY <1>7, <1>8 DEF Kept, Machine
<1>10. Goes(c, d, 1, 7)
  BY <1>1, <1>3, <1>4, <1>7, <1>9 DEF Goes, Kept, k
<1>11. QED
  BY <1>1, <1>7, <1>9, <1>10 DEF d, v

LEMMA StepHalt ==
  ASSUME NEW c \in Machine, ~c.halted, NEW input \in Byte, Peek(c, c.pc) = HLT
  PROVE  LET d == Step(c, input)
         IN  /\ d \in Machine /\ d.halted /\ d.pc = (c.pc + 1) % 65536
             /\ StatesOf(c, Peek(c, c.pc)) = 7
             /\ d.mem = c.mem /\ d.sp = c.sp /\ d.flag = c.flag /\ d.reg = c.reg
<1> DEFINE d == Step(c, input)
           k == Peek(c, c.pc)
           f == Fetch(c)
<1>1. /\ f \in Machine /\ f.pc = (c.pc + Length(k)) % 65536 /\ f.reg = c.reg
      /\ f.flag = c.flag /\ f.sp = c.sp /\ f.mem = c.mem /\ ~f.halted
      /\ d = Execute(f, k, OperandBytes(c), input) /\ Arms(f, k, OperandBytes(c), input)
      /\ d \in Machine
  BY StepAs
<1>2. k = HLT /\ k \in Byte /\ k \notin Unassigned
  BY SuiteCodes DEF SuiteCode
<1>3. Length(k) = 1 /\ StatesOf(c, k) = 7
  BY <1>2, LengthAre, StatesAre
<1> HIDE DEF f, d, k
<1>4. d = [f EXCEPT !.halted = TRUE]
  BY <1>1, <1>2 DEF Arms
<1>5. /\ d.pc = f.pc /\ d.halted /\ d.mem = f.mem /\ d.sp = f.sp /\ d.flag = f.flag
      /\ d.reg = f.reg
  BY <1>1, <1>4 DEF Machine
<1>6. QED
  BY <1>1, <1>3, <1>5 DEF d, k

LEMMA StepInput ==
  ASSUME NEW c \in Machine, ~c.halted, NEW input \in Byte, Peek(c, c.pc) = IN_
  PROVE  LET d == Step(c, input)
         IN  /\ Goes(c, d, 2, 10) /\ d.mem = c.mem /\ d.sp = c.sp /\ d.flag = c.flag
             /\ d.reg = [c.reg EXCEPT ![RegA] = input]
<1> DEFINE d == Step(c, input)
           k == Peek(c, c.pc)
           f == Fetch(c)
           g == Log(f, "IOR")
<1>1. /\ f \in Machine /\ f.pc = (c.pc + Length(k)) % 65536 /\ f.reg = c.reg
      /\ f.flag = c.flag /\ f.sp = c.sp /\ f.mem = c.mem /\ ~f.halted
      /\ d = Execute(f, k, OperandBytes(c), input) /\ Arms(f, k, OperandBytes(c), input)
      /\ d \in Machine
  BY StepAs
<1>2. k = IN_ /\ k \in Byte /\ k \notin Unassigned
  BY SuiteCodes DEF SuiteCode
<1>3. Length(k) = 2 /\ StatesOf(c, k) = 10
  BY <1>2, LengthAre, StatesAre
<1> HIDE DEF f, d, k
<1>4. d = SetA(g, input)
  BY <1>1, <1>2 DEF Arms
<1>5. Kept(f, g) /\ g.reg = f.reg /\ g.flag = f.flag /\ g.sp = f.sp /\ g.mem = f.mem
  BY <1>1, LogKeeps DEF Cycle
<1> HIDE DEF g
<1>6. d = [g EXCEPT !.reg[RegA] = input]
  BY <1>4 DEF SetA
<1>7. /\ d.pc = g.pc /\ d.halted = g.halted /\ d.mem = g.mem /\ d.sp = g.sp /\ d.flag = g.flag
      /\ d.reg = [g.reg EXCEPT ![RegA] = input]
  BY <1>5, <1>6 DEF Kept, Machine
<1>8. Goes(c, d, 2, 10)
  BY <1>1, <1>3, <1>5, <1>7 DEF Goes, Kept, k
<1>9. QED
  BY <1>1, <1>5, <1>7, <1>8 DEF d

LEMMA StepOutput ==
  ASSUME NEW c \in Machine, ~c.halted, NEW input \in Byte, Peek(c, c.pc) = OUT
  PROVE  LET d == Step(c, input)
         IN  /\ Goes(c, d, 2, 10) /\ d.mem = c.mem /\ d.sp = c.sp /\ d.flag = c.flag
             /\ d.reg = c.reg
<1> DEFINE d == Step(c, input)
           k == Peek(c, c.pc)
           f == Fetch(c)
<1>1. /\ f \in Machine /\ f.pc = (c.pc + Length(k)) % 65536 /\ f.reg = c.reg
      /\ f.flag = c.flag /\ f.sp = c.sp /\ f.mem = c.mem /\ ~f.halted
      /\ d = Execute(f, k, OperandBytes(c), input) /\ Arms(f, k, OperandBytes(c), input)
      /\ d \in Machine
  BY StepAs
<1>2. k = OUT /\ k \in Byte /\ k \notin Unassigned
  BY SuiteCodes DEF SuiteCode
<1>3. Length(k) = 2 /\ StatesOf(c, k) = 10
  BY <1>2, LengthAre, StatesAre
<1> HIDE DEF f, d, k
<1>4. d = Log(f, "IOW")
  BY <1>1, <1>2 DEF Arms
<1>5. Kept(f, d) /\ d.reg = f.reg /\ d.flag = f.flag /\ d.sp = f.sp /\ d.mem = f.mem
  BY <1>1, <1>4, LogKeeps DEF Cycle
<1>6. Goes(c, d, 2, 10)
  BY <1>1, <1>3, <1>5 DEF Goes, Kept, k
<1>7. QED
  BY <1>1, <1>5, <1>6 DEF d

\* The cells written, and no other, change or become memory.
Writing(c, d, cells) ==
  /\ DOMAIN d.mem = DOMAIN c.mem \cup cells
  /\ \A a : a \notin cells => Peek(d, a) = Peek(c, a)

LEMMA StepToMemory ==
  ASSUME NEW c \in Machine, ~c.halted, NEW input \in Byte, Peek(c, c.pc) = 54
  PROVE  LET d == Step(c, input)
         IN  /\ Goes(c, d, 2, 10) /\ d.sp = c.sp /\ d.flag = c.flag /\ d.reg = c.reg
             /\ Writing(c, d, {HL(c)}) /\ Peek(d, HL(c)) = Peek(c, Next16(c.pc))
<1> DEFINE d == Step(c, input)
           k == Peek(c, c.pc)
           f == Fetch(c)
           v == Peek(c, Next16(c.pc))
           a == HL(c)
<1>1. /\ f \in Machine /\ f.pc = (c.pc + Length(k)) % 65536 /\ f.reg = c.reg
      /\ f.flag = c.flag /\ f.sp = c.sp /\ f.mem = c.mem /\ ~f.halted
      /\ d = Execute(f, k, OperandBytes(c), input) /\ Arms(f, k, OperandBytes(c), input)
      /\ d \in Machine
  BY StepAs
<1>2. k \in MVI /\ k \in Byte /\ Y(k) = RegM /\ k \notin Unassigned
  BY SuiteCodes DEF SuiteCode
<1>3. Length(k) = 2 /\ UsesM(k)
  BY <1>2, LengthAre, UsesMIs
<1>4. StatesOf(c, k) = 10
  BY <1>2, <1>3, StatesAre
<1>5. HL(f) = a /\ a \in Word /\ v \in Byte
  BY <1>1, HLType, PeekType DEF HL
<1> HIDE DEF f, d, k, a
<1>6. d = Set(f, RegM, v)
  BY <1>1, <1>2 DEF Arms, OperandBytes
<1> HIDE DEF v
<1>7. d = Store(f, a, v, "MW")
  BY <1>5, <1>6 DEF Set
<1>8. /\ Kept(f, d) /\ d.reg = f.reg /\ d.flag = f.flag /\ d.sp = f.sp
      /\ \A b : Peek(d, b) = IF b = a THEN v ELSE Peek(f, b)
  BY <1>1, <1>5, <1>7, StoreKeeps DEF Cycle
<1>9. DOMAIN d.mem = DOMAIN f.mem \cup {a}
  <2>1. d.mem = [b \in DOMAIN f.mem \cup {a} |-> IF b = a THEN v ELSE f.mem[b]]
    BY <1>1, <1>7, StoreMemory
  <2>2. QED
    BY <2>1
<1>10. \A b : Peek(f, b) = Peek(c, b)
  BY <1>1 DEF Peek
<1>11. Writing(c, d, {a}) /\ Peek(d, a) = v
  BY <1>1, <1>8, <1>9, <1>10 DEF Writing
<1>12. Goes(c, d, 2, 10)
  BY <1>1, <1>3, <1>4, <1>8 DEF Goes, Kept, k
<1>13. QED
  BY <1>1, <1>8, <1>11, <1>12 DEF d, v, a

\* The two cells of pushWord, when the stack starts at the top of the memory.
LEMMA PushWordWrites ==
  ASSUME NEW c \in Machine, NEW w \in Word
  PROVE  Writing(c, PushWord(c, w), {Previous16(c.sp), Previous16(Previous16(c.sp))})
<1> DEFINE above == Previous16(c.sp)
           below == Previous16(above)
           high == High(w)
           low == Low(w)
           c1 == [c EXCEPT !.sp = above]
           c2 == Store(c1, above, high, "SW")
           c3 == [c2 EXCEPT !.sp = below]
           d == Store(c3, below, low, "SW")
<1>1. /\ PushWord(c, w) = d /\ above \in Word /\ below \in Word
      /\ high \in Byte /\ low \in Byte /\ "SW" \in Cycle
  BY PushWordIs DEF Cycle
<1>2. Spares(c, d, {above, below})
  BY <1>1, PushWordCells
<1> HIDE DEF above, below, high, low
<1>3. c1 \in Machine /\ c1.mem = c.mem
  BY <1>1 DEF Machine
<1> HIDE DEF c1
<1>4. c2 \in Machine /\ DOMAIN c2.mem = DOMAIN c1.mem \cup {above}
  <2>1. c2.mem = [b \in DOMAIN c1.mem \cup {above} |-> IF b = above THEN high ELSE c1.mem[b]]
    BY <1>1, <1>3, StoreMemory
  <2>2. c2 \in Machine
    BY <1>1, <1>3, StoreKeeps DEF Kept
  <2>3. QED
    BY <2>1, <2>2
<1> HIDE DEF c2
<1>5. c3 \in Machine /\ c3.mem = c2.mem
  BY <1>1, <1>4 DEF Machine
<1> HIDE DEF c3
<1>6. DOMAIN d.mem = DOMAIN c3.mem \cup {below}
  <2>1. d.mem = [b \in DOMAIN c3.mem \cup {below} |-> IF b = below THEN low ELSE c3.mem[b]]
    BY <1>1, <1>5, StoreMemory
  <2>2. QED
    BY <2>1
<1> HIDE DEF d
<1>7. Writing(c, d, {above, below})
  BY <1>2, <1>3, <1>4, <1>5, <1>6 DEF Writing, Spares
<1>8. QED
  BY <1>1, <1>7 DEF above, below

\* A call to a target, forced, fetched, or a restart.
LEMMA CallWrites ==
  ASSUME NEW c \in Machine, NEW target \in Word
  PROVE  LET d == CallTo(c, target)
             above == Previous16(c.sp)
         IN  /\ d \in Machine /\ d.pc = target /\ d.halted = c.halted /\ d.reg = c.reg
             /\ d.flag = c.flag /\ d.sp = Previous16(above)
             /\ Writing(c, d, {above, Previous16(above)})
             /\ Peek(d, above) = High(c.pc) /\ Peek(d, Previous16(above)) = Low(c.pc)
<1> DEFINE d == CallTo(c, target)
           e == PushWord(c, c.pc)
           above == Previous16(c.sp)
           below == Previous16(above)
<1>1. c.pc \in Word
  BY DEF Machine
<1>2. /\ e \in Machine /\ Writing(c, e, {above, below})
      /\ Peek(e, above) = High(c.pc) /\ Peek(e, below) = Low(c.pc)
  BY <1>1, PushWordWrites, PushWordCells, PushWordKeeps DEF Kept
<1>3. /\ d \in Machine /\ d.pc = target /\ d.halted = c.halted /\ d.reg = c.reg
      /\ d.flag = c.flag /\ d.sp = below
  BY CallToKeeps
<1>4. d = [e EXCEPT !.pc = target]
  BY DEF CallTo
<1> HIDE DEF d, e, above, below
<1>5. d.mem = e.mem
  BY <1>2, <1>4 DEF Machine
<1>6. Writing(c, d, {above, below}) /\ Peek(d, above) = High(c.pc) /\ Peek(d, below) = Low(c.pc)
  BY <1>2, <1>5 DEF Writing, Peek
<1>7. QED
  BY <1>3, <1>6 DEF d, above, below

LEMMA StepCall ==
  ASSUME NEW c \in Machine, ~c.halted, NEW input \in Byte, Peek(c, c.pc) = CALL
  PROVE  LET d == Step(c, input)
             above == Previous16(c.sp)
             back == Fetch(c).pc
         IN  /\ d \in Machine /\ ~d.halted /\ d.pc = OperandWord(c) /\ d.reg = c.reg
             /\ d.flag = c.flag /\ d.sp = Previous16(above)
             /\ Writing(c, d, {above, Previous16(above)})
             /\ Peek(d, above) = High(back) /\ Peek(d, Previous16(above)) = Low(back)
<1> DEFINE d == Step(c, input)
           k == Peek(c, c.pc)
           f == Fetch(c)
           w == OperandWord(c)
<1>1. /\ f \in Machine /\ f.pc = (c.pc + Length(k)) % 65536 /\ f.reg = c.reg
      /\ f.flag = c.flag /\ f.sp = c.sp /\ f.mem = c.mem /\ ~f.halted
      /\ d = Execute(f, k, OperandBytes(c), input) /\ Arms(f, k, OperandBytes(c), input)
      /\ d \in Machine
  BY StepAs
<1>2. k = CALL /\ k \in Byte
  BY SuiteCodes DEF SuiteCode
<1>3. w \in Word
  BY PeekType, Composed DEF OperandWord
<1>4. \A a : Peek(f, a) = Peek(c, a)
  BY <1>1 DEF Peek
<1> HIDE DEF f, d, k
<1>5. d = CallTo(f, w)
  BY <1>1, <1>2 DEF Arms, OperandBytes, OperandWord
<1> HIDE DEF w
<1> DEFINE above == Previous16(f.sp)
<1>6. /\ d \in Machine /\ d.pc = w /\ d.halted = f.halted /\ d.reg = f.reg
      /\ d.flag = f.flag /\ d.sp = Previous16(above)
      /\ Writing(f, d, {above, Previous16(above)})
      /\ Peek(d, above) = High(f.pc) /\ Peek(d, Previous16(above)) = Low(f.pc)
  <2>1. LET e == CallTo(f, w)
        IN  /\ e \in Machine /\ e.pc = w /\ e.halted = f.halted /\ e.reg = f.reg
            /\ e.flag = f.flag /\ e.sp = Previous16(above)
            /\ Writing(f, e, {above, Previous16(above)})
            /\ Peek(e, above) = High(f.pc) /\ Peek(e, Previous16(above)) = Low(f.pc)
    BY <1>1, <1>3, CallWrites
  <2>2. QED
    BY <1>5, <2>1
<1>7. Writing(c, d, {above, Previous16(above)})
  BY <1>1, <1>4, <1>6 DEF Writing
<1>8. QED
  BY <1>1, <1>6, <1>7 DEF d, f, w

\* A restart of the ring.
LEMMA StepRestart ==
  ASSUME NEW c \in Machine, ~c.halted, NEW input \in Byte, NEW n \in 0 .. 7,
         Peek(c, c.pc) = 199 + 8 * n
  PROVE  LET d == Step(c, input)
             above == Previous16(c.sp)
         IN  /\ d \in Machine /\ ~d.halted /\ d.pc = 8 * n /\ d.sp = Previous16(above)
             /\ Writing(c, d, {above, Previous16(above)})
<1> DEFINE d == Step(c, input)
           k == Peek(c, c.pc)
           f == Fetch(c)
<1>1. /\ f \in Machine /\ f.pc = (c.pc + Length(k)) % 65536 /\ f.reg = c.reg
      /\ f.flag = c.flag /\ f.sp = c.sp /\ f.mem = c.mem /\ ~f.halted
      /\ d = Execute(f, k, OperandBytes(c), input) /\ Arms(f, k, OperandBytes(c), input)
      /\ d \in Machine
  BY StepAs
<1>2. k \in Byte /\ X(k) = 3 /\ Y(k) = n /\ Z(k) = 7
  BY ByteIs DEF X, Y, Z
<1>3. k \in RST /\ 8 * Y(k) \in Word
  BY <1>2, FamilyOf, WordIs DEF Families
<1>4. \A a : Peek(f, a) = Peek(c, a)
  BY <1>1 DEF Peek
<1> HIDE DEF f, d, k
<1>5. d = CallTo(f, 8 * n)
  BY <1>1, <1>2, <1>3 DEF Arms
<1> DEFINE above == Previous16(f.sp)
<1>6. /\ d \in Machine /\ d.pc = 8 * n /\ d.halted = f.halted /\ d.sp = Previous16(above)
      /\ Writing(f, d, {above, Previous16(above)})
  <2> DEFINE t == 8 * n
  <2>1. t \in Word /\ d = CallTo(f, t)
    BY <1>2, <1>3, <1>5
  <2> HIDE DEF t
  <2>2. LET e == CallTo(f, t)
        IN  /\ e \in Machine /\ e.pc = t /\ e.halted = f.halted /\ e.sp = Previous16(above)
            /\ Writing(f, e, {above, Previous16(above)})
    BY <1>1, <2>1, CallWrites
  <2>3. d.pc = t
    BY <2>1, <2>2
  <2>4. QED
    BY <2>1, <2>2, <2>3 DEF t
<1>7. Writing(c, d, {above, Previous16(above)})
  BY <1>1, <1>4, <1>6 DEF Writing
<1>8. QED
  BY <1>1, <1>6, <1>7 DEF d

\* 255 and 1 make 0, with every flag but the sign.
AllButSign == [carry |-> TRUE, zero |-> TRUE, sign |-> FALSE, parity |-> TRUE, aux |-> TRUE]

LEMMA AddWraps == ALU("ADD", 255, 1, FALSE) = [out |-> 0, flags |-> AllButSign]
               /\ ALU("ADD", 255, 1, TRUE) = [out |-> 0, flags |-> AllButSign]
<1>1. (255 + 1 + 0) % 256 = 0
  OBVIOUS
<1>2. CarryInto(256, 255, 1, 0) = TRUE
  <2>1. HasBit(255 + 1 + 0, 256) /\ ~HasBit(255, 256) /\ ~HasBit(1, 256)
    BY DEF HasBit
  <2>2. QED
    BY <2>1 DEF CarryInto, Differ
<1>3. CarryInto(16, 255, 1, 0) = TRUE
  <2>1. ~HasBit(255 + 1 + 0, 16) /\ HasBit(255, 16) /\ ~HasBit(1, 16)
    BY DEF HasBit
  <2>2. QED
    BY <2>1 DEF CarryInto, Differ
<1>4. ParityEven(0)
  <2>1. \A w \in Weight : ~HasBit(0, w)
    BY DEF HasBit, Weight
  <2>2. Bits(0) = {}
    BY <2>1 DEF Bits
  <2>3. Cardinality({}) = 0
    BY FS_EmptySet
  <2>4. QED
    BY <2>2, <2>3 DEF ParityEven
<1>5. ParityEven(0) \in BOOLEAN
  BY DEF ParityEven
<1>6. ResultFlags(0, TRUE, TRUE) = AllButSign
  <2>1. (0 = 0) = TRUE /\ (0 >= 128) = FALSE /\ ParityEven(0) = TRUE
    BY <1>4, <1>5
  <2>2. QED
    BY <2>1, Zenon DEF ResultFlags, AllButSign
<1>7. NativeAdd(255, 1, 0) = [out |-> 0, flags |-> AllButSign]
  <2>1. NativeAdd(255, 1, 0) = [out |-> (255 + 1 + 0) % 256,
                                flags |-> ResultFlags((255 + 1 + 0) % 256, CarryInto(256, 255, 1, 0),
                                                      CarryInto(16, 255, 1, 0))]
    BY DEF NativeAdd
  <2>2. QED
    BY <1>1, <1>2, <1>3, <1>6, <2>1, Zenon
<1>8. QED
  BY <1>7 DEF ALU

LEMMA StepAddOne ==
  ASSUME NEW c \in Machine, ~c.halted, NEW input \in Byte, Peek(c, c.pc) = 198,
         c.reg[RegA] = 255, Peek(c, Next16(c.pc)) = 1
  PROVE  LET d == Step(c, input)
         IN  /\ Goes(c, d, 2, 7) /\ d.mem = c.mem /\ d.sp = c.sp /\ d.flag = AllButSign
             /\ d.reg = [c.reg EXCEPT ![RegA] = 0]
<1> DEFINE d == Step(c, input)
           k == Peek(c, c.pc)
           f == Fetch(c)
           g == [f EXCEPT !.flag = AllButSign]
<1>1. /\ f \in Machine /\ f.pc = (c.pc + Length(k)) % 65536 /\ f.reg = c.reg
      /\ f.flag = c.flag /\ f.sp = c.sp /\ f.mem = c.mem /\ ~f.halted
      /\ d = Execute(f, k, OperandBytes(c), input) /\ Arms(f, k, OperandBytes(c), input)
      /\ d \in Machine
  BY StepAs
<1>2. k \in ALUImm /\ k \in Byte /\ GroupOf(k) = "ADD" /\ k \notin Unassigned
  BY SuiteCodes DEF SuiteCode
<1>3. Length(k) = 2 /\ StatesOf(c, k) = 7
  BY <1>2, LengthAre, StatesAre
<1> HIDE DEF f, d, k
<1>4. d = Arithmetic(f, "ADD", 1)
  BY <1>1, <1>2 DEF Arms, OperandBytes
<1>5. f.reg[RegA] = 255 /\ f.flag.carry \in BOOLEAN
  BY <1>1 DEF Machine, Flags
<1>6. ALU("ADD", f.reg[RegA], 1, f.flag.carry) = [out |-> 0, flags |-> AllButSign]
  BY <1>5, AddWraps
<1>7. d = SetA(g, 0)
  BY <1>4, <1>6 DEF Arithmetic
<1>8. AllButSign \in Flags /\ 0 \in Byte
  BY EchoByte DEF AllButSign, Flags
<1>9. Kept(f, g) /\ g.mem = f.mem /\ g.reg = f.reg /\ g.sp = f.sp /\ g.flag = AllButSign
  <2>1. Kept(f, g) /\ g.mem = f.mem /\ g.reg = f.reg /\ g.sp = f.sp
    BY <1>1, <1>8, SetFlagsKeeps
  <2>2. g.flag = AllButSign
    BY <1>1 DEF Machine
  <2>3. QED
    BY <2>1, <2>2
<1> HIDE DEF g
<1>10. d = [g EXCEPT !.reg[RegA] = 0]
  BY <1>7 DEF SetA
<1>11. /\ d.pc = g.pc /\ d.halted = g.halted /\ d.mem = g.mem /\ d.sp = g.sp /\ d.flag = g.flag
       /\ d.reg = [g.reg EXCEPT ![RegA] = 0]
  BY <1>9, <1>10 DEF Kept, Machine
<1>12. Goes(c, d, 2, 7)
  BY <1>1, <1>3, <1>9, <1>11 DEF Goes, Kept, k
<1>13. QED
  BY <1>1, <1>9, <1>11, <1>12 DEF d

LEMMA StepRotateLeft ==
  ASSUME NEW c \in Machine, ~c.halted, NEW input \in Byte, Peek(c, c.pc) = RLC,
         c.reg[RegA] = 129
  PROVE  LET d == Step(c, input)
         IN  /\ Goes(c, d, 1, 4) /\ d.mem = c.mem /\ d.sp = c.sp /\ d.flag.carry
             /\ d.reg = [c.reg EXCEPT ![RegA] = 3]
<1> DEFINE d == Step(c, input)
           k == Peek(c, c.pc)
           f == Fetch(c)
<1>1. /\ f \in Machine /\ f.pc = (c.pc + Length(k)) % 65536 /\ f.reg = c.reg
      /\ f.flag = c.flag /\ f.sp = c.sp /\ f.mem = c.mem /\ ~f.halted
      /\ d = Execute(f, k, OperandBytes(c), input) /\ Arms(f, k, OperandBytes(c), input)
      /\ d \in Machine
  BY StepAs
<1>2. k = RLC /\ k \in Byte /\ k \notin Unassigned
  BY SuiteCodes DEF SuiteCode
<1>3. Length(k) = 1 /\ StatesOf(c, k) = 4
  BY <1>2, LengthAre, StatesAre
<1> HIDE DEF f, d, k
<1> DEFINE A == f.reg[RegA]
           e == HasBit(A, 128)
<1>4. A = 129
  BY <1>1
<1>5. e = TRUE
  BY <1>4 DEF HasBit
<1>6. d = RotateLeft(f, TRUE)
  <2>1. d = RotateLeft(f, e)
    BY <1>1, <1>2 DEF Arms
  <2>2. QED
    BY <1>5, <2>1, Zenon
<1>7. /\ d.pc = f.pc /\ d.halted = f.halted /\ d.mem = f.mem /\ d.sp = f.sp
      /\ d.reg = [f.reg EXCEPT ![RegA] = 3] /\ d.flag.carry
  <2>1. ((2 * A) % 256) + AsBit(TRUE) = 3
    BY <1>4 DEF AsBit
  <2>2. RotateLeft(f, TRUE) = [SetA(f, ((2 * A) % 256) + AsBit(TRUE)) EXCEPT !.flag.carry = e]
    BY DEF RotateLeft
  <2> HIDE DEF A, e
  <2>3. d = [SetA(f, 3) EXCEPT !.flag.carry = TRUE]
    BY <1>5, <1>6, <2>1, <2>2, Zenon
  <2>4. DOMAIN f.flag = {"carry", "zero", "sign", "parity", "aux"}
    BY <1>1 DEF Machine, Flags
  <2>5. QED
    BY <1>1, <2>3, <2>4 DEF SetA, Machine
<1>8. Goes(c, d, 1, 4)
  BY <1>1, <1>3, <1>7 DEF Goes, k
<1>9. QED
  BY <1>1, <1>7, <1>8 DEF d

\* With the carry clear, JNC jumps and CC does not call.
LEMMA StepNoCarry ==
  ASSUME NEW c \in Machine, ~c.halted, NEW input \in Byte, Peek(c, c.pc) \in {210, 220},
         ~c.flag.carry
  PROVE  LET d == Step(c, input)
         IN  /\ d \in Machine /\ ~d.halted /\ d.mem = c.mem /\ d.sp = c.sp /\ d.flag = c.flag
             /\ d.reg = c.reg
             /\ Peek(c, c.pc) = 210 => d.pc = OperandWord(c)
             /\ Peek(c, c.pc) = 220 => /\ d.pc = (c.pc + 3) % 65536 /\ ~Taken(c, 220)
                                       /\ StatesOf(c, Peek(c, c.pc)) = 11
<1> DEFINE d == Step(c, input)
           k == Peek(c, c.pc)
           f == Fetch(c)
           w == OperandWord(c)
<1>1. /\ f \in Machine /\ f.pc = (c.pc + Length(k)) % 65536 /\ f.reg = c.reg
      /\ f.flag = c.flag /\ f.sp = c.sp /\ f.mem = c.mem /\ ~f.halted
      /\ d = Execute(f, k, OperandBytes(c), input) /\ Arms(f, k, OperandBytes(c), input)
      /\ d \in Machine
  BY StepAs
<1>2. k \in Byte /\ k \notin Unassigned /\ (k = 210 => k \in Jcc) /\ (k = 220 => k \in Ccc)
  BY SuiteCodes DEF SuiteCode
<1>3. Length(k) = 3
  BY <1>2, LengthAre
<1>4. Taken(f, 210) /\ ~Taken(f, 220) /\ ~Taken(c, 220)
  <2> DEFINE holds(n) == CASE n = 0 -> c.flag.zero [] n = 1 -> c.flag.carry
                          [] n = 2 -> c.flag.parity [] n = 3 -> c.flag.sign
  <2>1. holds(2 \div 2) = c.flag.carry /\ holds(3 \div 2) = c.flag.carry
    <3>1. \A n : n = 1 => holds(n) = c.flag.carry
      OBVIOUS
    <3>2. 2 \div 2 = 1 /\ 3 \div 2 = 1
      OBVIOUS
    <3> HIDE DEF holds
    <3>3. QED
      BY <3>1, <3>2
  <2>2. Y(210) = 2 /\ Y(220) = 3 /\ ~(2 % 2 = 1) /\ 3 % 2 = 1
    BY SuiteCodes DEF SuiteCode
  <2>3. /\ Taken(c, 210) <=> (holds(2 \div 2) <=> 2 % 2 = 1)
        /\ Taken(c, 220) <=> (holds(3 \div 2) <=> 3 % 2 = 1)
    BY <2>2, Zenon DEF Taken
  <2> HIDE DEF holds
  <2>4. ~Taken(c, 220) /\ Taken(c, 210)
    BY <2>1, <2>2, <2>3, Zenon
  <2>5. (Taken(f, 210) <=> Taken(c, 210)) /\ (Taken(f, 220) <=> Taken(c, 220))
    BY <1>1, TakenIs
  <2>6. QED
    BY <2>4, <2>5
<1>5. k = 220 => StatesOf(c, k) = 11
  BY <1>2, <1>4, StatesAre
<1> HIDE DEF f, d, k
<1>6. (k = 210 => d = [f EXCEPT !.pc = w]) /\ (k = 220 => d = f)
  BY <1>1, <1>2, <1>4 DEF Arms, OperandBytes, OperandWord
<1> HIDE DEF w
<1>7. k = 210 \/ k = 220
  BY DEF k
<1>8. CASE k = 210
  <2>1. /\ d.pc = w /\ d.halted = f.halted /\ d.mem = f.mem /\ d.sp = f.sp /\ d.flag = f.flag
        /\ d.reg = f.reg
    BY <1>1, <1>6, <1>8 DEF Machine
  <2>2. QED
    BY <1>1, <1>8, <2>1 DEF d, k, w
<1>9. CASE k = 220
  BY <1>1, <1>3, <1>4, <1>5, <1>6, <1>9 DEF d, k
<1>10. QED
  BY <1>7, <1>8, <1>9

---------------------------------------------------------------------------
(* The programs of the suite, instruction by instruction.                  *)

\* Where they are after each instruction; they halt at the last.
Journey ==
  [load_move |-> <<0, 2, 3, 4>>,
   alu_flags |-> <<0, 2, 4, 5>>,
   memory_indirect |-> <<0, 3, 5, 6, 7>>,
   call_return |-> <<0, 6, 8, 3, 4>>,
   conditional_jump_taken |-> <<0, 6, 7>>,
   conditional_call_not_taken |-> <<0, 3, 4>>,
   rotate_carry |-> <<0, 2, 3, 4>>,
   io_echo |-> <<0, 2, 4, 5>>,
   interrupt_rst |-> <<0, 8, 9>>]
Travelling == DOMAIN Journey
Place(case, n) == Journey[case][n + 1]
End(case) == Len(Journey[case]) - 1

\* Inside its subroutine, or after the restart it asked for, a program has a word on the stack.
StackAt(case, n) ==
  IF (case = "call_return" /\ n \in {1, 2}) \/ (case = "interrupt_rst" /\ n >= 1) THEN 65534 ELSE 0

\* Program and handler are in memory, and nothing else but a cell of data and the stack.
Laid(case, c) ==
  /\ \A i \in DOMAIN Suite[case] : i - 1 \in DOMAIN c.mem /\ Peek(c, i - 1) = Suite[case][i]
  /\ \A i \in DOMAIN Handler :
       HandlerAt + i - 1 \in DOMAIN c.mem /\ Peek(c, HandlerAt + i - 1) = Handler[i]
  /\ DOMAIN c.mem \subseteq (0 .. 70) \cup {256, 65534, 65535}

\* What a program has worked out after n instructions and t states.
KnowsMoved(n, c) ==
  /\ n >= 1 => c.reg[RegA] = 42
  /\ n >= 2 => c.reg[0] = 42
KnowsSum(n, c) ==
  /\ n = 1 => c.reg[RegA] = 255
  /\ n >= 2 => c.reg[RegA] = 0 /\ c.flag = AllButSign
KnowsStored(n, c) ==
  /\ n >= 1 => HL(c) = 256
  /\ n >= 2 => 256 \in DOMAIN c.mem /\ Peek(c, 256) = 165
  /\ n >= 3 => c.reg[RegA] = 165
KnowsReturn(n, c) ==
  /\ n \in {1, 2} => {65534, 65535} \subseteq DOMAIN c.mem
                     /\ Peek(c, 65535) = 0 /\ Peek(c, 65534) = 3
  /\ n >= 2 => c.reg[RegA] = 66
KnowsRotated(n, c) ==
  /\ n = 1 => c.reg[RegA] = 129
  /\ n >= 2 => c.reg[RegA] = 3 /\ c.flag.carry
Known(case, n, c, t) ==
  /\ case = "load_move" => KnowsMoved(n, c)
  /\ case = "alu_flags" => KnowsSum(n, c)
  /\ case = "memory_indirect" => KnowsStored(n, c)
  /\ case = "call_return" => KnowsReturn(n, c)
  /\ case \in {"conditional_jump_taken", "conditional_call_not_taken"} => ~c.flag.carry
  /\ case = "conditional_call_not_taken" =>
       t = IF n = 0 THEN 0 ELSE IF n = 1 THEN 11 ELSE 18
  /\ case = "rotate_carry" => KnowsRotated(n, c)
  /\ case = "io_echo" /\ n >= 1 => c.reg[RegA] = EchoInput
  /\ case = "interrupt_rst" /\ n >= 1 => 65534 \in DOMAIN c.mem /\ Peek(c, 65534) = 0

Along(case, n, c, t) ==
  /\ n \in Nat /\ n <= End(case)
  /\ c.pc = Place(case, n) /\ (c.halted <=> n = End(case))
  /\ c.sp = StackAt(case, n) /\ Laid(case, c) /\ Known(case, n, c, t)

\* The ring of restarts goes round, pushing the way back at each step.
RingTop(n) == (65536 - 2 * n) % 65536
OnRing(n, c) ==
  /\ ~c.halted /\ c.pc = 8 * (n % 8) /\ c.sp = RingTop(n)
  /\ \A j \in 0 .. 7 : Peek(c, 8 * j) = 199 + 8 * ((j + 1) % 8)

\* The machine without interrupts goes through the suite's programs as it should, those on
\* which interrupts come as well as the ring, on which none does.
SuiteRuns ==
  /\ program.name \in Travelling => Along(program.name, steps, shadow, states)
  /\ program.name = "interrupt_rst" => (steps = 0 <=> Requested) /\ (Requested => m = shadow)
  /\ program.name = "rst_ring" =>
       depth = 0 /\ m = shadow /\ OnRing(steps, m) /\ steps <= MaxSteps

\* Where a program of the suite and its data may be.
Ground == (0 .. 300) \cup {65534, 65535}

LEMMA ApartFrom ==
  ASSUME NEW c, c.sp \in {0, 65534}, NEW a \in Ground
  PROVE  FreeStack(c, a) => c.sp = 0 /\ a \in {65534, 65535}
<1>1. CASE a \in 0 .. 300
  <2>1. c.sp = 0 \/ c.sp = 65534
    OBVIOUS
  <2>2. ~((0 - 1 - a) % 65536 < 64) /\ ~((65534 - 1 - a) % 65536 < 64)
    BY <1>1
  <2>3. QED
    BY <2>1, <2>2 DEF FreeStack, StackRoom
<1>2. CASE a \in {65534, 65535} /\ c.sp = 65534
  <2>1. ~((65534 - 1 - a) % 65536 < 64)
    BY <1>2
  <2>2. QED
    BY <1>2, <2>1 DEF FreeStack, StackRoom
<1>3. QED
  BY <1>1, <1>2 DEF Ground

LEMMA LaidServiceable ==
  ASSUME NEW case, NEW c, Laid(case, c), c.sp \in {0, 65534}
  PROVE  Serviceable(c)
<1>1. DOMAIN Handler = 1 .. 15
  BY DEF Handler
<1>2. ASSUME NEW i \in DOMAIN Handler
      PROVE  HandlerAt + i - 1 \in Own(c) /\ c.mem[HandlerAt + i - 1] = Handler[i]
  <2> DEFINE a == HandlerAt + i - 1
  <2>1. a \in DOMAIN c.mem /\ Peek(c, a) = Handler[i]
    BY <1>2 DEF Laid
  <2>2. a \in 0 .. 300 /\ a # 65534 /\ a # 65535
    BY <1>1, <1>2 DEF HandlerAt
  <2> HIDE DEF a
  <2>3. ~FreeStack(c, a)
    <3>1. a \in Ground
      BY <2>2 DEF Ground
    <3>2. QED
      BY <2>2, <3>1, ApartFrom
  <2>4. a \in Own(c) /\ c.mem[a] = Handler[i]
    BY <2>1, <2>3 DEF Own, Peek
  <2>5. QED
    BY <2>4 DEF a
<1>3. 255 \notin DOMAIN c.mem
  BY DEF Laid
<1>4. ~FreeStack(c, 255)
  <2>1. 255 \in Ground /\ 255 \notin {65534, 65535}
    BY DEF Ground
  <2>2. QED
    BY <2>1, ApartFrom
<1>5. QED
  BY <1>2, <1>3, <1>4 DEF Serviceable, WorkCell

LEMMA LaidCells ==
  ASSUME NEW case, NEW c, Laid(case, c), NEW a \in DOMAIN c.mem
  PROVE  a \in Ground
<1>1. a \in (0 .. 70) \cup {256, 65534, 65535}
  BY DEF Laid
<1>2. QED
  BY <1>1 DEF Ground

LEMMA TravellingBytes ==
  ASSUME NEW case \in Travelling
  PROVE  /\ case \in DOMAIN Suite /\ case # "rst_ring" /\ Suite[case] \in Seq(Byte)
         /\ Len(Suite[case]) \in Nat /\ Len(Suite[case]) <= 56
         /\ DOMAIN Suite[case] = 1 .. Len(Suite[case])
<1>1. case \in DOMAIN Suite /\ case # "rst_ring"
  BY DEF Travelling, Journey, Suite
<1>2. Suite[case] \in Seq(Byte) /\ Len(Suite[case]) <= 56
  BY <1>1, SuiteBytes
<1>3. \A s \in Seq(Byte) : Len(s) \in Nat /\ DOMAIN s = 1 .. Len(s)
  OBVIOUS
<1>4. QED
  BY <1>1, <1>2, <1>3

\* A program's cells stay as they are when only data and stack are written.
LEMMA LaidKept ==
  ASSUME NEW case \in Travelling, NEW c, NEW d, NEW cells \in SUBSET {256, 65534, 65535},
         Laid(case, c), Writing(c, d, cells)
  PROVE  Laid(case, d)
<1>1. DOMAIN Handler = 1 .. 15
  BY DEF Handler
<1>2. \A i \in DOMAIN Suite[case] : i \in Int /\ i <= 56
  <2>1. Len(Suite[case]) \in Nat /\ Len(Suite[case]) <= 56 /\ DOMAIN Suite[case] = 1 .. Len(Suite[case])
    BY TravellingBytes
  <2>2. QED
    BY <2>1
<1>3. ASSUME NEW i \in DOMAIN Suite[case]
      PROVE  i - 1 \in DOMAIN d.mem /\ Peek(d, i - 1) = Suite[case][i]
  <2>1. i - 1 \notin cells
    BY <1>2, <1>3
  <2>2. i - 1 \in DOMAIN c.mem /\ Peek(c, i - 1) = Suite[case][i]
    BY <1>3 DEF Laid
  <2>3. QED
    BY <2>1, <2>2 DEF Writing
<1>4. ASSUME NEW i \in DOMAIN Handler
      PROVE  HandlerAt + i - 1 \in DOMAIN d.mem /\ Peek(d, HandlerAt + i - 1) = Handler[i]
  <2>1. HandlerAt + i - 1 \notin cells
    BY <1>1, <1>4 DEF HandlerAt
  <2>2. HandlerAt + i - 1 \in DOMAIN c.mem /\ Peek(c, HandlerAt + i - 1) = Handler[i]
    BY <1>4 DEF Laid
  <2>3. QED
    BY <2>1, <2>2 DEF Writing
<1>5. DOMAIN d.mem \subseteq (0 .. 70) \cup {256, 65534, 65535}
  <2> DEFINE D == (0 .. 70) \cup {256, 65534, 65535}
  <2>1. DOMAIN c.mem \subseteq D /\ cells \subseteq D
    BY DEF Laid
  <2>2. DOMAIN d.mem = DOMAIN c.mem \cup cells
    BY DEF Writing
  <2> HIDE DEF D
  <2>3. DOMAIN d.mem \subseteq D
    BY <2>1, <2>2
  <2>4. QED
    BY <2>3 DEF D
<1>6. QED
  BY <1>3, <1>4, <1>5 DEF Laid

LEMMA WritingNone == ASSUME NEW c, NEW d, d.mem = c.mem PROVE Writing(c, d, {})
BY DEF Writing, Peek

LEMMA Journeys ==
  /\ Travelling = {"load_move", "alu_flags", "memory_indirect", "call_return",
                   "conditional_jump_taken", "conditional_call_not_taken", "rotate_carry",
                   "io_echo", "interrupt_rst"}
  /\ End("load_move") = 3 /\ End("alu_flags") = 3 /\ End("memory_indirect") = 4
  /\ End("call_return") = 4 /\ End("conditional_jump_taken") = 2
  /\ End("conditional_call_not_taken") = 2 /\ End("rotate_carry") = 3 /\ End("io_echo") = 3
  /\ End("interrupt_rst") = 2
<1>1. Travelling = {"load_move", "alu_flags", "memory_indirect", "call_return",
                    "conditional_jump_taken", "conditional_call_not_taken", "rotate_carry",
                    "io_echo", "interrupt_rst"}
  BY DEF Travelling, Journey
<1>2. /\ Len(Journey["load_move"]) = 4 /\ Len(Journey["alu_flags"]) = 4
      /\ Len(Journey["memory_indirect"]) = 5 /\ Len(Journey["call_return"]) = 5
      /\ Len(Journey["conditional_jump_taken"]) = 3
      /\ Len(Journey["conditional_call_not_taken"]) = 3
      /\ Len(Journey["rotate_carry"]) = 4 /\ Len(Journey["io_echo"]) = 4
      /\ Len(Journey["interrupt_rst"]) = 3
  BY DEF Journey
<1>3. QED
  BY <1>1, <1>2 DEF End

LEMMA CallStores == ASSUME NEW c, NEW w PROVE Stores(c, CALL, w) = PushCells(c)
<1>1. 205 \in Byte /\ X(205) = 3 /\ Y(205) = 1 /\ Z(205) = 5
  BY ByteIs DEF X, Y, Z
<1>2. Families(205)
  BY <1>1, FamilyOf
<1> DEFINE P1 == 205 \in MOV \cup MVI \cup INR \cup DCR /\ Y(205) = RegM
           P2 == 205 \in STAX
           P3 == 205 \in {STA, SHLD}
           P4 == 205 = SHLD
           P5 == 205 \in PUSH \cup RST \cup {CALL} \/ (205 \in Ccc /\ Taken(c, 205))
           P6 == 205 = XTHL
<1>3. ~P1 /\ ~P2 /\ ~P3 /\ ~P4 /\ P5 /\ ~P6
  BY <1>1, <1>2 DEF Families, RegM, STAX, STA, SHLD, CALL, XTHL
<1>4. Stores(c, 205, w) = Only(P1, {HL(c)}) \cup Only(P2, {Pair(c, PairOf(205))}) \cup Only(P3, {w})
                          \cup Only(P4, {Next16(w)}) \cup Only(P5, PushCells(c)) \cup Only(P6, StackTop(c))
  BY DEF Stores
<1> HIDE DEF P1, P2, P3, P4, P5, P6
<1>5. Stores(c, 205, w) = PushCells(c)
  BY <1>3, <1>4 DEF Only
<1>6. QED
  BY <1>5 DEF CALL

LEMMA FirstPush == ASSUME NEW c, c.sp = 0 PROVE PushCells(c) = {65534, 65535}
<1>1. 0 \in Word /\ 65535 \in Word
  BY WordIs
<1>2. Previous16(0) = 65535 /\ Previous16(65535) = 65534
  BY <1>1, PreviousIs
<1>3. PushCells(c) = {Previous16(0), Previous16(Previous16(0))}
  BY DEF PushCells
<1>4. QED
  BY <1>2, <1>3

LEMMA LaidBytes ==
  ASSUME NEW case \in Travelling, NEW c, Laid(case, c), NEW a \in 0 .. Len(Suite[case]) - 1
  PROVE  a \in DOMAIN c.mem /\ Peek(c, a) = Suite[case][a + 1]
<1> DEFINE L == Len(Suite[case])
           i == a + 1
<1>1. L \in Nat /\ DOMAIN Suite[case] = 1 .. L
  BY TravellingBytes
<1>2. a \in 0 .. L - 1
  OBVIOUS
<1> HIDE DEF L
<1>3. i \in DOMAIN Suite[case] /\ i - 1 = a
  BY <1>1, <1>2
<1> HIDE DEF i
<1>4. i - 1 \in DOMAIN c.mem /\ Peek(c, i - 1) = Suite[case][i]
  <2>1. \A j \in DOMAIN Suite[case] : j - 1 \in DOMAIN c.mem /\ Peek(c, j - 1) = Suite[case][j]
    BY DEF Laid
  <2>2. QED
    BY <1>3, <2>1
<1>5. QED
  BY <1>3, <1>4, Zenon DEF i

\* What an instruction reads is the program's, when it lies in the program or, for MOV A,M and
\* RET, is a cell the program has written.
LEMMA LaidPrivate ==
  ASSUME NEW case \in Travelling, NEW c \in Machine, Laid(case, c), c.sp \in {0, 65534},
         NEW k, k = Peek(c, c.pc), k \in SuiteCode, c.pc + Length(k) <= Len(Suite[case]),
         k = 126 => HL(c) = 256 /\ 256 \in DOMAIN c.mem,
         k = RET => c.sp = 65534 /\ {65534, 65535} \subseteq DOMAIN c.mem,
         Step(c, EchoInput).sp = c.sp \/ c.sp = 65534 \/ k = CALL
  PROVE  Private(c)
<1> DEFINE w == OperandWord(c)
           L == Len(Suite[case])
           d == Step(c, EchoInput)
<1>1. L \in Nat /\ L <= 56 /\ DOMAIN Suite[case] = 1 .. L
  BY TravellingBytes
<1>2. c.pc + Length(k) <= L /\ (d.sp = c.sp \/ c.sp = 65534 \/ k = CALL)
  OBVIOUS
<1> HIDE DEF w, L, d
<1>3. \A a : a \in DOMAIN c.mem /\ FreeStack(c, a) => c.sp = 0 /\ a \in {65534, 65535}
  <2>1. \A a \in DOMAIN c.mem : a \in Ground
    BY LaidCells
  <2>2. QED
    BY <2>1, ApartFrom
<1>4. \A a \in 0 .. L - 1 : a \in Own(c)
  <2> SUFFICES ASSUME NEW a \in 0 .. L - 1 PROVE a \in Own(c)
    OBVIOUS
  <2>1. a \notin {65534, 65535}
    BY <1>1
  <2>2. a \in DOMAIN c.mem
    BY LaidBytes DEF L
  <2>3. QED
    BY <1>3, <2>1, <2>2 DEF Own
<1>5. Length(k) \in {1, 2, 3}
  BY DEF Length
<1>6. Fetches(c) \subseteq Own(c)
  <2>1. c.pc \in Word
    BY DEF Machine
  <2>2. c.pc \in Int /\ 0 <= c.pc /\ c.pc < 60
    BY <1>1, <1>2, <1>5, <2>1, WordIs
  <2>3. Next16(c.pc) = c.pc + 1 /\ Next16(Next16(c.pc)) = c.pc + 2
    BY <2>2 DEF Next16
  <2>4. /\ c.pc \in 0 .. L - 1
        /\ Length(k) > 1 => c.pc + 1 \in 0 .. L - 1
        /\ Length(k) > 2 => c.pc + 2 \in 0 .. L - 1
    BY <1>1, <1>2, <1>5, <2>2
  <2>5. /\ c.pc \in Own(c)
        /\ Length(k) > 1 => Next16(c.pc) \in Own(c)
        /\ Length(k) > 2 => Next16(Next16(c.pc)) \in Own(c)
    BY <1>4, <2>3, <2>4
  <2>6. Fetches(c) = {c.pc} \cup Only(Length(k) > 1, {Next16(c.pc)})
                     \cup Only(Length(k) > 2, {Next16(Next16(c.pc))})
    BY DEF Fetches
  <2>7. QED
    BY <2>5, <2>6 DEF Only
<1>7. Loads(c, k, w) \subseteq Own(c)
  <2>1. Loads(c, k, w) \subseteq (IF k = 126 THEN {HL(c)} ELSE IF k = RET THEN StackTop(c) ELSE {})
    BY SuiteLoads
  <2>2. k = 126 => HL(c) \in Own(c)
    BY <1>3 DEF Own
  <2>3. k = RET => StackTop(c) \subseteq Own(c)
    <3>1. SUFFICES ASSUME k = RET PROVE StackTop(c) \subseteq Own(c)
      OBVIOUS
    <3>2. c.sp = 65534 /\ {65534, 65535} \subseteq DOMAIN c.mem
      BY <3>1
    <3>3. StackTop(c) = {65534, 65535}
      BY <3>2 DEF StackTop, Next16
    <3>4. QED
      BY <1>3, <3>2, <3>3 DEF Own
  <2>4. QED
    BY <2>1, <2>2, <2>3
<1>8. \A a \in DOMAIN c.mem : FreeStack(c, a) => FreeStack(d, a) \/ a \in Writes(c)
  <2> SUFFICES ASSUME NEW a \in DOMAIN c.mem, FreeStack(c, a)
               PROVE  FreeStack(d, a) \/ a \in Writes(c)
    OBVIOUS
  <2>1. c.sp = 0 /\ a \in {65534, 65535}
    BY <1>3
  <2>2. CASE d.sp = c.sp
    BY <2>2 DEF FreeStack
  <2>3. CASE k = CALL
    <3>1. Writes(c) = PushCells(c)
      BY <2>3, CallStores DEF Writes
    <3>2. PushCells(c) = {65534, 65535}
      BY <2>1, FirstPush
    <3>3. QED
      BY <2>1, <3>1, <3>2
  <2>4. QED
    BY <1>2, <2>1, <2>2, <2>3
<1>9. Reads(c) \subseteq Own(c)
  BY <1>6, <1>7 DEF Reads, w
<1>10. QED
  BY <1>8, <1>9 DEF Private, d

\* A step along the way.
Onward(case, n, c, t) ==
  LET d == Step(c, EchoInput)
  IN Private(c) /\ Along(case, n + 1, d, t + StatesOf(c, Peek(c, c.pc)))

LEMMA Onwards ==
  ASSUME NEW case \in Travelling, NEW n \in Nat, NEW i \in Nat, i = n + 1, i <= End(case),
         NEW c, NEW t, Laid(case, c), Private(c), NEW d, d = Step(c, EchoInput),
         NEW cells \in SUBSET {256, 65534, 65535}, Writing(c, d, cells),
         d.pc = Place(case, i), d.halted <=> i = End(case), d.sp = StackAt(case, i),
         Known(case, i, d, t + StatesOf(c, Peek(c, c.pc)))
  PROVE  Onward(case, n, c, t)
<1>1. Laid(case, d)
  BY LaidKept
<1>2. Along(case, n + 1, d, t + StatesOf(c, Peek(c, c.pc)))
  BY <1>1 DEF Along
<1>3. QED
  BY <1>2 DEF Onward

LEMMA KnownAre ==
  ASSUME NEW n, NEW c, NEW t
  PROVE  /\ Known("load_move", n, c, t) <=> KnowsMoved(n, c)
         /\ Known("alu_flags", n, c, t) <=> KnowsSum(n, c)
         /\ Known("memory_indirect", n, c, t) <=> KnowsStored(n, c)
         /\ Known("call_return", n, c, t) <=> KnowsReturn(n, c)
         /\ Known("rotate_carry", n, c, t) <=> KnowsRotated(n, c)
         /\ Known("conditional_jump_taken", n, c, t) <=> ~c.flag.carry
         /\ Known("conditional_call_not_taken", n, c, t)
              <=> ~c.flag.carry /\ t = IF n = 0 THEN 0 ELSE IF n = 1 THEN 11 ELSE 18
         /\ Known("io_echo", n, c, t) <=> (n >= 1 => c.reg[RegA] = EchoInput)
         /\ Known("interrupt_rst", n, c, t)
              <=> (n >= 1 => 65534 \in DOMAIN c.mem /\ Peek(c, 65534) = 0)
BY DEF Known

\* The instructions of the suite that neither load from memory nor store in it.
QuietCode == {62, 71, 198, 33, 210, 220, HLT, RLC, IN_, OUT}

LEMMA QuietCodes ==
  /\ 62 \in QuietCode /\ 71 \in QuietCode /\ 198 \in QuietCode /\ 33 \in QuietCode
  /\ 210 \in QuietCode /\ 220 \in QuietCode /\ HLT \in QuietCode /\ RLC \in QuietCode
  /\ IN_ \in QuietCode /\ OUT \in QuietCode
  /\ \A k \in QuietCode : k \in SuiteCode /\ k # 126 /\ k # RET
<1>1. /\ 62 \in QuietCode /\ 71 \in QuietCode /\ 198 \in QuietCode /\ 33 \in QuietCode
      /\ 210 \in QuietCode /\ 220 \in QuietCode /\ HLT \in QuietCode /\ RLC \in QuietCode
      /\ IN_ \in QuietCode /\ OUT \in QuietCode
  BY DEF QuietCode
<1>2. \A k \in QuietCode : k \in SuiteCode
  BY DEF QuietCode, SuiteCode
<1>3. \A k \in QuietCode : k # 126 /\ k # RET
  BY DEF QuietCode, HLT, RLC, IN_, OUT, RET
<1>4. QED
  BY <1>1, <1>2, <1>3

LEMMA QuietOnward ==
  ASSUME NEW case \in Travelling, NEW n \in Nat, NEW i \in Nat, i = n + 1, i <= End(case),
         NEW c \in Machine, NEW t, Laid(case, c), c.sp \in {0, 65534},
         NEW k, k = Peek(c, c.pc), k \in QuietCode, c.pc + Length(k) <= Len(Suite[case]),
         NEW d, d = Step(c, EchoInput), d.mem = c.mem, d.sp = c.sp,
         d.pc = Place(case, i), d.halted <=> i = End(case), StackAt(case, i) = c.sp,
         NEW t2, t2 = t + StatesOf(c, k), Known(case, i, d, t2)
  PROVE  Onward(case, n, c, t)
<1>1. k \in SuiteCode /\ k # 126 /\ k # RET
  BY QuietCodes
<1>2. Private(c)
  BY <1>1, LaidPrivate
<1>3. Writing(c, d, {})
  BY WritingNone
<1>4. {} \in SUBSET {256, 65534, 65535} /\ d.sp = StackAt(case, i)
  OBVIOUS
<1>5. Known(case, i, d, t + StatesOf(c, Peek(c, c.pc)))
  OBVIOUS
<1>6. QED
  BY <1>2, <1>3, <1>4, <1>5, Onwards

\* The call of the suite, the first thing its program does.
LEMMA FirstCall ==
  ASSUME NEW c \in Machine, ~c.halted, Peek(c, c.pc) = CALL
  PROVE  LET d == Step(c, EchoInput)
         IN  c.pc = 0 /\ c.sp = 0 =>
               /\ d \in Machine /\ d.pc = OperandWord(c) /\ ~d.halted /\ d.sp = 65534
               /\ Writing(c, d, {65535, 65534}) /\ Peek(d, 65535) = 0 /\ Peek(d, 65534) = 3
<1> DEFINE d == Step(c, EchoInput)
           a == Previous16(c.sp)
           b == Previous16(a)
           back == Fetch(c).pc
<1>1. /\ d \in Machine /\ ~d.halted /\ d.pc = OperandWord(c) /\ d.sp = b
      /\ Writing(c, d, {a, b}) /\ Peek(d, a) = High(back) /\ Peek(d, b) = Low(back)
  BY StepCall, EchoByte
<1>2. c.pc = 0 => back = 3
  <2>1. Fetch(c).pc = (c.pc + Length(CALL)) % 65536
    BY StepAs, EchoByte
  <2>2. Length(CALL) = 3
    BY SuiteLengths
  <2>3. QED
    BY <2>1, <2>2
<1>3. c.sp = 0 => a = 65535 /\ b = 65534
  <2>1. 0 \in Word /\ 65535 \in Word
    BY WordIs
  <2>2. Previous16(0) = 65535 /\ Previous16(65535) = 65534
    BY <2>1, PreviousIs
  <2>3. QED
    BY <2>2
<1>4. High(3) = 0 /\ Low(3) = 3
  BY DEF High, Low
<1> HIDE DEF d, a, b, back
<1>5. ASSUME c.pc = 0, c.sp = 0
      PROVE  d.sp = 65534 /\ Writing(c, d, {65535, 65534}) /\ Peek(d, 65535) = 0 /\ Peek(d, 65534) = 3
  <2>1. a = 65535 /\ b = 65534 /\ back = 3
    BY <1>2, <1>3, <1>5
  <2>2. Writing(c, d, {a, b}) /\ Peek(d, a) = High(back) /\ Peek(d, b) = Low(back) /\ d.sp = b
    BY <1>1
  <2>3. QED
    BY <1>4, <2>1, <2>2
<1>6. QED
  BY <1>1, <1>5 DEF d

LEMMA LoadMoveOnward ==
  ASSUME NEW q, q = "load_move", NEW n, NEW c \in Machine, NEW t, Along(q, n, c, t),
         ~c.halted
  PROVE  Onward(q, n, c, t)
<1> DEFINE d == Step(c, EchoInput)
           t2 == t + StatesOf(c, Peek(c, c.pc))
<1>1. q \in Travelling /\ End(q) = 3
  BY Journeys
<1>2. /\ n \in Nat /\ n < 3 /\ c.pc = Place(q, n) /\ c.sp = StackAt(q, n)
      /\ Laid(q, c) /\ KnowsMoved(n, c)
  BY <1>1, KnownAre DEF Along
<1>3. /\ Place(q, 0) = 0 /\ Place(q, 1) = 2 /\ Place(q, 2) = 3 /\ Place(q, 3) = 4
      /\ (\A i : StackAt(q, i) = 0)
  BY DEF Place, Journey, StackAt
<1>4. /\ Peek(c, 0) = 62 /\ Peek(c, 1) = 42 /\ Peek(c, 2) = 71 /\ Peek(c, 3) = HLT
      /\ Len(Suite[q]) = 4
  <2>1. Len(Suite[q]) = 4
    BY DEF Suite
  <2>2. \A a \in 0 .. Len(Suite[q]) - 1 : Peek(c, a) = Suite[q][a + 1]
    BY <1>1, <1>2, LaidBytes
  <2>3. /\ Peek(c, 0) = Suite[q][1] /\ Peek(c, 1) = Suite[q][2] /\ Peek(c, 2) = Suite[q][3]
        /\ Peek(c, 3) = Suite[q][4]
    BY <2>1, <2>2
  <2>4. Suite[q][1] = 62 /\ Suite[q][2] = 42 /\ Suite[q][3] = 71 /\ Suite[q][4] = HLT
    BY DEF Suite
  <2>5. QED
    BY <2>1, <2>3, <2>4
<1>5. d = Step(c, EchoInput) /\ t2 = t + StatesOf(c, Peek(c, c.pc))
  OBVIOUS
<1>6. \A i : Known(q, i, d, t2) <=> KnowsMoved(i, d)
  BY KnownAre
<1>7. DOMAIN c.reg = Register /\ RegA \in Register /\ 0 \in Register /\ RegA # 0
  BY DEF Machine, Register, RegA, RegM
<1> HIDE DEF d, t2
<1>8. CASE n = 0
  <2>1. c.pc = 0 /\ c.sp = 0 /\ Peek(c, c.pc) = 62
    BY <1>2, <1>3, <1>4, <1>8
  <2>2. Next16(c.pc) = 1
    BY <2>1 DEF Next16
  <2>3. /\ d \in Machine /\ d.pc = 2 /\ ~d.halted /\ d.sp = 0
        /\ d.mem = c.mem /\ d.reg = [c.reg EXCEPT ![RegA] = 42]
    BY <1>2, <1>4, <1>5, <2>1, <2>2, StepImmediateA, EchoByte DEF Goes
  <2>4. d.reg[RegA] = 42
    BY <1>7, <2>3
  <2>5. KnowsMoved(1, d)
    BY <2>3, <2>4 DEF KnowsMoved
  <2>6. Known(q, 1, d, t2)
    BY <1>6, <2>5
  <2>7. Length(Peek(c, c.pc)) = 2
    BY <2>1, SuiteLengths
  <2>8. c.pc + Length(Peek(c, c.pc)) <= Len(Suite[q])
    BY <1>4, <2>1, <2>7
  <2>9. d.pc = Place(q, 1) /\ (d.halted <=> 1 = End(q)) /\ d.sp = StackAt(q, 1)
    BY <1>1, <1>3, <2>3
  <2>10. Peek(c, c.pc) \in QuietCode
    BY <2>1, QuietCodes
  <2>11. d.sp = c.sp /\ c.sp \in {0, 65534}
    BY <2>1, <2>3
  <2>12. QED
    BY <1>1, <1>2, <1>5, <1>8, <2>3, <2>6, <2>8, <2>9, <2>10, <2>11, QuietOnward
<1>9. CASE n = 1
  <2>1. c.pc = 2 /\ c.sp = 0 /\ Peek(c, c.pc) = 71
    BY <1>2, <1>3, <1>4, <1>9
  <2>2. c.reg[RegA] = 42
    BY <1>2, <1>9 DEF KnowsMoved
  <2>3. /\ d \in Machine /\ d.pc = 3 /\ ~d.halted /\ d.sp = 0
        /\ d.mem = c.mem /\ d.reg = [c.reg EXCEPT ![0] = c.reg[RegA]]
    BY <1>2, <1>4, <1>5, <2>1, <2>2, StepCopyA, EchoByte DEF Goes
  <2>4. d.reg[0] = 42 /\ d.reg[RegA] = 42
    BY <1>7, <2>3, <2>2
  <2>5. KnowsMoved(2, d)
    BY <2>2, <2>3, <2>4 DEF KnowsMoved
  <2>6. Known(q, 2, d, t2)
    BY <1>6, <2>5
  <2>7. Length(Peek(c, c.pc)) = 1
    BY <2>1, SuiteLengths
  <2>8. c.pc + Length(Peek(c, c.pc)) <= Len(Suite[q])
    BY <1>4, <2>1, <2>7
  <2>9. d.pc = Place(q, 2) /\ (d.halted <=> 2 = End(q)) /\ d.sp = StackAt(q, 2)
    BY <1>1, <1>3, <2>3
  <2>10. Peek(c, c.pc) \in QuietCode
    BY <2>1, QuietCodes
  <2>11. d.sp = c.sp /\ c.sp \in {0, 65534}
    BY <2>1, <2>3
  <2>12. QED
    BY <1>1, <1>2, <1>5, <1>9, <2>3, <2>6, <2>8, <2>9, <2>10, <2>11, QuietOnward
<1>10. CASE n = 2
  <2>1. c.pc = 3 /\ c.sp = 0 /\ Peek(c, c.pc) = HLT
    BY <1>2, <1>3, <1>4, <1>10
  <2>2. c.reg[RegA] = 42 /\ c.reg[0] = 42
    BY <1>2, <1>10 DEF KnowsMoved
  <2>3. /\ d \in Machine /\ d.pc = 4 /\ d.halted /\ d.sp = 0
        /\ d.mem = c.mem /\ d.reg = c.reg /\ d.flag = c.flag
    BY <1>2, <1>4, <1>5, <2>1, <2>2, StepHalt, EchoByte
  <2>4. KnowsMoved(3, d)
    BY <2>2, <2>3 DEF KnowsMoved
  <2>5. Known(q, 3, d, t2)
    BY <1>6, <2>4
  <2>6. Length(Peek(c, c.pc)) = 1
    BY <2>1, SuiteLengths
  <2>7. c.pc + Length(Peek(c, c.pc)) <= Len(Suite[q])
    BY <1>4, <2>1, <2>6
  <2>8. d.pc = Place(q, 3) /\ (d.halted <=> 3 = End(q)) /\ d.sp = StackAt(q, 3)
    BY <1>1, <1>3, <2>3
  <2>9. Peek(c, c.pc) \in QuietCode
    BY <2>1, QuietCodes
  <2>10. d.sp = c.sp /\ c.sp \in {0, 65534}
    BY <2>1, <2>3
  <2>11. QED
    BY <1>1, <1>2, <1>5, <1>10, <2>3, <2>5, <2>7, <2>8, <2>9, <2>10, QuietOnward
<1>11. QED
  BY <1>2, <1>8, <1>9, <1>10

LEMMA AluFlagsOnward ==
  ASSUME NEW q, q = "alu_flags", NEW n, NEW c \in Machine, NEW t, Along(q, n, c, t),
         ~c.halted
  PROVE  Onward(q, n, c, t)
<1> DEFINE d == Step(c, EchoInput)
           t2 == t + StatesOf(c, Peek(c, c.pc))
<1>1. q \in Travelling /\ End(q) = 3
  BY Journeys
<1>2. /\ n \in Nat /\ n < 3 /\ c.pc = Place(q, n) /\ c.sp = StackAt(q, n)
      /\ Laid(q, c) /\ KnowsSum(n, c)
  BY <1>1, KnownAre DEF Along
<1>3. /\ Place(q, 0) = 0 /\ Place(q, 1) = 2 /\ Place(q, 2) = 4 /\ Place(q, 3) = 5
      /\ (\A i : StackAt(q, i) = 0)
  BY DEF Place, Journey, StackAt
<1>4. /\ Peek(c, 0) = 62 /\ Peek(c, 1) = 255 /\ Peek(c, 2) = 198 /\ Peek(c, 3) = 1
      /\ Peek(c, 4) = HLT /\ Len(Suite[q]) = 5
  <2>1. Len(Suite[q]) = 5
    BY DEF Suite
  <2>2. \A a \in 0 .. Len(Suite[q]) - 1 : Peek(c, a) = Suite[q][a + 1]
    BY <1>1, <1>2, LaidBytes
  <2>3. /\ Peek(c, 0) = Suite[q][1] /\ Peek(c, 1) = Suite[q][2] /\ Peek(c, 2) = Suite[q][3]
        /\ Peek(c, 3) = Suite[q][4] /\ Peek(c, 4) = Suite[q][5]
    BY <2>1, <2>2
  <2>4. /\ Suite[q][1] = 62 /\ Suite[q][2] = 255 /\ Suite[q][3] = 198 /\ Suite[q][4] = 1
        /\ Suite[q][5] = HLT
    BY DEF Suite
  <2>5. QED
    BY <2>1, <2>3, <2>4
<1>5. d = Step(c, EchoInput) /\ t2 = t + StatesOf(c, Peek(c, c.pc))
  OBVIOUS
<1>6. \A i : Known(q, i, d, t2) <=> KnowsSum(i, d)
  BY KnownAre
<1>7. DOMAIN c.reg = Register /\ RegA \in Register /\ 0 \in Register /\ RegA # 0
  BY DEF Machine, Register, RegA, RegM
<1> HIDE DEF d, t2
<1>8. CASE n = 0
  <2>1. c.pc = 0 /\ c.sp = 0 /\ Peek(c, c.pc) = 62
    BY <1>2, <1>3, <1>4, <1>8
  <2>2. Next16(c.pc) = 1
    BY <2>1 DEF Next16
  <2>3. /\ d \in Machine /\ d.pc = 2 /\ ~d.halted /\ d.sp = 0
        /\ d.mem = c.mem /\ d.reg = [c.reg EXCEPT ![RegA] = 255]
    BY <1>2, <1>4, <1>5, <2>1, <2>2, StepImmediateA, EchoByte DEF Goes
  <2>4. d.reg[RegA] = 255
    BY <1>7, <2>3
  <2>5. KnowsSum(1, d)
    BY <2>3, <2>4 DEF KnowsSum
  <2>6. Known(q, 1, d, t2)
    BY <1>6, <2>5
  <2>7. Length(Peek(c, c.pc)) = 2
    BY <2>1, SuiteLengths
  <2>8. c.pc + Length(Peek(c, c.pc)) <= Len(Suite[q])
    BY <1>4, <2>1, <2>7
  <2>9. d.pc = Place(q, 1) /\ (d.halted <=> 1 = End(q)) /\ d.sp = StackAt(q, 1)
    BY <1>1, <1>3, <2>3
  <2>10. Peek(c, c.pc) \in QuietCode
    BY <2>1, QuietCodes
  <2>11. d.sp = c.sp /\ c.sp \in {0, 65534}
    BY <2>1, <2>3
  <2>12. QED
    BY <1>1, <1>2, <1>5, <1>8, <2>3, <2>6, <2>8, <2>9, <2>10, <2>11, QuietOnward
<1>9. CASE n = 1
  <2>1. c.pc = 2 /\ c.sp = 0 /\ Peek(c, c.pc) = 198
    BY <1>2, <1>3, <1>4, <1>9
  <2>2. Next16(c.pc) = 3
    BY <2>1 DEF Next16
  <2>3. c.reg[RegA] = 255
    BY <1>2, <1>9 DEF KnowsSum
  <2>4. /\ d \in Machine /\ d.pc = 4 /\ ~d.halted /\ d.sp = 0
        /\ d.mem = c.mem /\ d.reg = [c.reg EXCEPT ![RegA] = 0] /\ d.flag = AllButSign
    BY <1>2, <1>4, <1>5, <2>1, <2>2, <2>3, StepAddOne, EchoByte DEF Goes
  <2>5. d.reg[RegA] = 0
    BY <1>7, <2>4, <2>3
  <2>6. KnowsSum(2, d)
    BY <2>3, <2>4, <2>5 DEF KnowsSum
  <2>7. Known(q, 2, d, t2)
    BY <1>6, <2>6
  <2>8. Length(Peek(c, c.pc)) = 2
    BY <2>1, SuiteLengths
  <2>9. c.pc + Length(Peek(c, c.pc)) <= Len(Suite[q])
    BY <1>4, <2>1, <2>8
  <2>10. d.pc = Place(q, 2) /\ (d.halted <=> 2 = End(q)) /\ d.sp = StackAt(q, 2)
    BY <1>1, <1>3, <2>4
  <2>11. Peek(c, c.pc) \in QuietCode
    BY <2>1, QuietCodes
  <2>12. d.sp = c.sp /\ c.sp \in {0, 65534}
    BY <2>1, <2>4
  <2>13. QED
    BY <1>1, <1>2, <1>5, <1>9, <2>4, <2>7, <2>9, <2>10, <2>11, <2>12, QuietOnward
<1>10. CASE n = 2
  <2>1. c.pc = 4 /\ c.sp = 0 /\ Peek(c, c.pc) = HLT
    BY <1>2, <1>3, <1>4, <1>10
  <2>2. c.reg[RegA] = 0 /\ c.flag = AllButSign
    BY <1>2, <1>10 DEF KnowsSum
  <2>3. /\ d \in Machine /\ d.pc = 5 /\ d.halted /\ d.sp = 0
        /\ d.mem = c.mem /\ d.reg = c.reg /\ d.flag = c.flag
    BY <1>2, <1>4, <1>5, <2>1, <2>2, StepHalt, EchoByte
  <2>4. KnowsSum(3, d)
    BY <2>2, <2>3 DEF KnowsSum
  <2>5. Known(q, 3, d, t2)
    BY <1>6, <2>4
  <2>6. Length(Peek(c, c.pc)) = 1
    BY <2>1, SuiteLengths
  <2>7. c.pc + Length(Peek(c, c.pc)) <= Len(Suite[q])
    BY <1>4, <2>1, <2>6
  <2>8. d.pc = Place(q, 3) /\ (d.halted <=> 3 = End(q)) /\ d.sp = StackAt(q, 3)
    BY <1>1, <1>3, <2>3
  <2>9. Peek(c, c.pc) \in QuietCode
    BY <2>1, QuietCodes
  <2>10. d.sp = c.sp /\ c.sp \in {0, 65534}
    BY <2>1, <2>3
  <2>11. QED
    BY <1>1, <1>2, <1>5, <1>10, <2>3, <2>5, <2>7, <2>8, <2>9, <2>10, QuietOnward
<1>11. QED
  BY <1>2, <1>8, <1>9, <1>10

LEMMA MemoryIndirectOnward ==
  ASSUME NEW q, q = "memory_indirect", NEW n, NEW c \in Machine, NEW t, Along(q, n, c, t),
         ~c.halted
  PROVE  Onward(q, n, c, t)
<1> DEFINE d == Step(c, EchoInput)
           t2 == t + StatesOf(c, Peek(c, c.pc))
<1>1. q \in Travelling /\ End(q) = 4
  BY Journeys
<1>2. /\ n \in Nat /\ n < 4 /\ c.pc = Place(q, n) /\ c.sp = StackAt(q, n)
      /\ Laid(q, c) /\ KnowsStored(n, c)
  BY <1>1, KnownAre DEF Along
<1>3. /\ Place(q, 0) = 0 /\ Place(q, 1) = 3 /\ Place(q, 2) = 5 /\ Place(q, 3) = 6
      /\ Place(q, 4) = 7 /\ (\A i : StackAt(q, i) = 0)
  BY DEF Place, Journey, StackAt
<1>4. /\ Peek(c, 0) = 33 /\ Peek(c, 1) = 0 /\ Peek(c, 2) = 1 /\ Peek(c, 3) = 54
      /\ Peek(c, 4) = 165 /\ Peek(c, 5) = 126 /\ Peek(c, 6) = HLT /\ Len(Suite[q]) = 7
  <2>1. Len(Suite[q]) = 7
    BY DEF Suite
  <2>2. \A a \in 0 .. Len(Suite[q]) - 1 : Peek(c, a) = Suite[q][a + 1]
    BY <1>1, <1>2, LaidBytes
  <2>3. /\ Peek(c, 0) = Suite[q][1] /\ Peek(c, 1) = Suite[q][2] /\ Peek(c, 2) = Suite[q][3]
        /\ Peek(c, 3) = Suite[q][4] /\ Peek(c, 4) = Suite[q][5] /\ Peek(c, 5) = Suite[q][6]
        /\ Peek(c, 6) = Suite[q][7]
    BY <2>1, <2>2
  <2>4. /\ Suite[q][1] = 33 /\ Suite[q][2] = 0 /\ Suite[q][3] = 1 /\ Suite[q][4] = 54
        /\ Suite[q][5] = 165 /\ Suite[q][6] = 126 /\ Suite[q][7] = HLT
    BY DEF Suite
  <2>5. QED
    BY <2>1, <2>3, <2>4
<1>5. d = Step(c, EchoInput) /\ t2 = t + StatesOf(c, Peek(c, c.pc))
  OBVIOUS
<1>6. \A i : Known(q, i, d, t2) <=> KnowsStored(i, d)
  BY KnownAre
<1>7. DOMAIN c.reg = Register /\ RegA \in Register /\ 0 \in Register /\ RegA # 0
  BY DEF Machine, Register, RegA, RegM
<1> HIDE DEF d, t2
<1>8. CASE n = 0
  <2>1. c.pc = 0 /\ c.sp = 0 /\ Peek(c, c.pc) = 33
    BY <1>2, <1>3, <1>4, <1>8
  <2>2. Next16(c.pc) = 1 /\ Next16(Next16(c.pc)) = 2
    BY <2>1 DEF Next16
  <2>3. /\ d \in Machine /\ d.pc = 3 /\ ~d.halted /\ d.sp = 0
        /\ d.mem = c.mem /\ d.reg[RegH] = 1 /\ d.reg[RegL] = 0
    BY <1>2, <1>4, <1>5, <2>1, <2>2, StepLoadHL, EchoByte DEF Goes
  <2>4. HL(d) = 256
    BY <2>3 DEF HL, Compose
  <2>5. KnowsStored(1, d)
    BY <2>3, <2>4 DEF KnowsStored
  <2>6. Known(q, 1, d, t2)
    BY <1>6, <2>5
  <2>7. Length(Peek(c, c.pc)) = 3
    BY <2>1, SuiteLengths
  <2>8. c.pc + Length(Peek(c, c.pc)) <= Len(Suite[q])
    BY <1>4, <2>1, <2>7
  <2>9. d.pc = Place(q, 1) /\ (d.halted <=> 1 = End(q)) /\ d.sp = StackAt(q, 1)
    BY <1>1, <1>3, <2>3
  <2>10. Peek(c, c.pc) \in QuietCode
    BY <2>1, QuietCodes
  <2>11. d.sp = c.sp /\ c.sp \in {0, 65534}
    BY <2>1, <2>3
  <2>12. QED
    BY <1>1, <1>2, <1>5, <1>8, <2>3, <2>6, <2>8, <2>9, <2>10, <2>11, QuietOnward
<1>9. CASE n = 1
  <2>1. c.pc = 3 /\ c.sp = 0 /\ Peek(c, c.pc) = 54
    BY <1>2, <1>3, <1>4, <1>9
  <2>2. Next16(c.pc) = 4
    BY <2>1 DEF Next16
  <2>3. HL(c) = 256
    BY <1>2, <1>9 DEF KnowsStored
  <2>4. /\ d \in Machine /\ d.pc = 5 /\ ~d.halted /\ d.sp = 0
        /\ d.reg = c.reg /\ Writing(c, d, {256}) /\ Peek(d, 256) = 165
    BY <1>2, <1>4, <1>5, <2>1, <2>2, <2>3, StepToMemory, EchoByte DEF Goes
  <2>5. HL(d) = 256 /\ 256 \in DOMAIN d.mem
    BY <2>3, <2>4 DEF HL, Writing
  <2>6. KnowsStored(2, d)
    BY <2>3, <2>4, <2>5 DEF KnowsStored
  <2>7. Known(q, 2, d, t2)
    BY <1>6, <2>6
  <2>8. Length(Peek(c, c.pc)) = 2
    BY <2>1, SuiteLengths
  <2>9. c.pc + Length(Peek(c, c.pc)) <= Len(Suite[q])
    BY <1>4, <2>1, <2>8
  <2>10. d.pc = Place(q, 2) /\ (d.halted <=> 2 = End(q)) /\ d.sp = StackAt(q, 2)
    BY <1>1, <1>3, <2>4
  <2>11. Peek(c, c.pc) \in SuiteCode /\ Peek(c, c.pc) # 126 /\ Peek(c, c.pc) # RET
    BY <2>1 DEF SuiteCode, CALL, RET
  <2>12. Private(c)
    BY <1>1, <1>2, <1>5, <2>1, <2>4, <2>9, <2>3, <2>11, LaidPrivate
  <2>13. {256} \in SUBSET {256, 65534, 65535}
    OBVIOUS
  <2>14. QED
    BY <1>1, <1>2, <1>5, <1>9, <2>7, <2>10, <2>12, <2>4, <2>13, Onwards
<1>10. CASE n = 2
  <2>1. c.pc = 5 /\ c.sp = 0 /\ Peek(c, c.pc) = 126
    BY <1>2, <1>3, <1>4, <1>10
  <2>2. HL(c) = 256 /\ 256 \in DOMAIN c.mem /\ Peek(c, 256) = 165
    BY <1>2, <1>10 DEF KnowsStored
  <2>3. /\ d \in Machine /\ d.pc = 6 /\ ~d.halted /\ d.sp = 0
        /\ d.mem = c.mem /\ d.reg = [c.reg EXCEPT ![RegA] = 165]
    BY <1>2, <1>4, <1>5, <2>1, <2>2, StepFromMemory, EchoByte DEF Goes
  <2>4. d.reg[RegA] = 165
    BY <1>7, <2>3, <2>2
  <2>5. d.reg[RegH] = c.reg[RegH] /\ d.reg[RegL] = c.reg[RegL]
    BY <1>7, <2>3 DEF RegA, RegH, RegL
  <2>6. HL(d) = 256 /\ Peek(d, 256) = 165 /\ 256 \in DOMAIN d.mem
    BY <2>2, <2>3, <2>5 DEF HL, Peek
  <2>7. KnowsStored(3, d)
    BY <2>2, <2>3, <2>4, <2>6 DEF KnowsStored
  <2>8. Known(q, 3, d, t2)
    BY <1>6, <2>7
  <2>9. Length(Peek(c, c.pc)) = 1
    BY <2>1, SuiteLengths
  <2>10. c.pc + Length(Peek(c, c.pc)) <= Len(Suite[q])
    BY <1>4, <2>1, <2>9
  <2>11. d.pc = Place(q, 3) /\ (d.halted <=> 3 = End(q)) /\ d.sp = StackAt(q, 3)
    BY <1>1, <1>3, <2>3
  <2>12. Peek(c, c.pc) \in SuiteCode /\ Peek(c, c.pc) # RET
    BY <2>1 DEF SuiteCode, CALL, RET
  <2>13. Private(c)
    BY <1>1, <1>2, <1>5, <2>1, <2>3, <2>10, <2>2, <2>12, LaidPrivate
  <2>14. Writing(c, d, {})
    BY <2>3, WritingNone
  <2>15. {} \in SUBSET {256, 65534, 65535}
    OBVIOUS
  <2>16. QED
    BY <1>1, <1>2, <1>5, <1>10, <2>8, <2>11, <2>13, <2>14, <2>15, Onwards
<1>11. CASE n = 3
  <2>1. c.pc = 6 /\ c.sp = 0 /\ Peek(c, c.pc) = HLT
    BY <1>2, <1>3, <1>4, <1>11
  <2>2. HL(c) = 256 /\ 256 \in DOMAIN c.mem /\ Peek(c, 256) = 165 /\ c.reg[RegA] = 165
    BY <1>2, <1>11 DEF KnowsStored
  <2>3. /\ d \in Machine /\ d.pc = 7 /\ d.halted /\ d.sp = 0
        /\ d.mem = c.mem /\ d.reg = c.reg /\ d.flag = c.flag
    BY <1>2, <1>4, <1>5, <2>1, <2>2, StepHalt, EchoByte
  <2>4. HL(d) = 256 /\ Peek(d, 256) = 165 /\ 256 \in DOMAIN d.mem
    BY <2>2, <2>3 DEF HL, Peek
  <2>5. KnowsStored(4, d)
    BY <2>2, <2>3, <2>4 DEF KnowsStored
  <2>6. Known(q, 4, d, t2)
    BY <1>6, <2>5
  <2>7. Length(Peek(c, c.pc)) = 1
    BY <2>1, SuiteLengths
  <2>8. c.pc + Length(Peek(c, c.pc)) <= Len(Suite[q])
    BY <1>4, <2>1, <2>7
  <2>9. d.pc = Place(q, 4) /\ (d.halted <=> 4 = End(q)) /\ d.sp = StackAt(q, 4)
    BY <1>1, <1>3, <2>3
  <2>10. Peek(c, c.pc) \in QuietCode
    BY <2>1, QuietCodes
  <2>11. d.sp = c.sp /\ c.sp \in {0, 65534}
    BY <2>1, <2>3
  <2>12. QED
    BY <1>1, <1>2, <1>5, <1>11, <2>3, <2>6, <2>8, <2>9, <2>10, <2>11, QuietOnward
<1>12. QED
  BY <1>2, <1>8, <1>9, <1>10, <1>11

LEMMA CallReturnOnward ==
  ASSUME NEW q, q = "call_return", NEW n, NEW c \in Machine, NEW t, Along(q, n, c, t),
         ~c.halted
  PROVE  Onward(q, n, c, t)
<1> DEFINE d == Step(c, EchoInput)
           t2 == t + StatesOf(c, Peek(c, c.pc))
<1>1. q \in Travelling /\ End(q) = 4
  BY Journeys
<1>2. /\ n \in Nat /\ n < 4 /\ c.pc = Place(q, n) /\ c.sp = StackAt(q, n)
      /\ Laid(q, c) /\ KnowsReturn(n, c)
  BY <1>1, KnownAre DEF Along
<1>3. /\ Place(q, 0) = 0 /\ Place(q, 1) = 6 /\ Place(q, 2) = 8 /\ Place(q, 3) = 3
      /\ Place(q, 4) = 4 /\ StackAt(q, 0) = 0 /\ StackAt(q, 1) = 65534 /\ StackAt(q, 2) = 65534
      /\ StackAt(q, 3) = 0 /\ StackAt(q, 4) = 0
  BY DEF Place, Journey, StackAt
<1>4. /\ Peek(c, 0) = CALL /\ Peek(c, 1) = 6 /\ Peek(c, 2) = 0 /\ Peek(c, 3) = HLT
      /\ Peek(c, 6) = 62 /\ Peek(c, 7) = 66 /\ Peek(c, 8) = RET /\ Len(Suite[q]) = 9
  <2>1. Len(Suite[q]) = 9
    BY DEF Suite
  <2>2. \A a \in 0 .. Len(Suite[q]) - 1 : Peek(c, a) = Suite[q][a + 1]
    BY <1>1, <1>2, LaidBytes
  <2>3. /\ Peek(c, 0) = Suite[q][1] /\ Peek(c, 1) = Suite[q][2] /\ Peek(c, 2) = Suite[q][3]
        /\ Peek(c, 3) = Suite[q][4] /\ Peek(c, 6) = Suite[q][7] /\ Peek(c, 7) = Suite[q][8]
        /\ Peek(c, 8) = Suite[q][9]
    BY <2>1, <2>2
  <2>4. /\ Suite[q][1] = CALL /\ Suite[q][2] = 6 /\ Suite[q][3] = 0 /\ Suite[q][4] = HLT
        /\ Suite[q][7] = 62 /\ Suite[q][8] = 66 /\ Suite[q][9] = RET
    BY DEF Suite
  <2>5. QED
    BY <2>1, <2>3, <2>4
<1>5. d = Step(c, EchoInput) /\ t2 = t + StatesOf(c, Peek(c, c.pc))
  OBVIOUS
<1>6. \A i : Known(q, i, d, t2) <=> KnowsReturn(i, d)
  BY KnownAre
<1>7. DOMAIN c.reg = Register /\ RegA \in Register /\ 0 \in Register /\ RegA # 0
  BY DEF Machine, Register, RegA, RegM
<1> HIDE DEF d, t2
<1>8. CASE n = 0
  <2>1. c.pc = 0 /\ c.sp = 0 /\ Peek(c, c.pc) = CALL
    BY <1>2, <1>3, <1>4, <1>8
  <2>2. Next16(c.pc) = 1 /\ Next16(Next16(c.pc)) = 2
    BY <2>1 DEF Next16
  <2>3. OperandWord(c) = 6
    BY <1>4, <2>2 DEF OperandWord, Compose
  <2>4. /\ d \in Machine /\ d.pc = 6 /\ ~d.halted /\ d.sp = 65534
        /\ Writing(c, d, {65535, 65534}) /\ Peek(d, 65535) = 0 /\ Peek(d, 65534) = 3
    BY <1>5, <2>1, <2>2, <2>3, FirstCall
  <2>5. {65534, 65535} \subseteq DOMAIN d.mem
    BY <2>4 DEF Writing
  <2>6. KnowsReturn(1, d)
    BY <2>4, <2>5 DEF KnowsReturn
  <2>7. Known(q, 1, d, t2)
    BY <1>6, <2>6
  <2>8. Length(Peek(c, c.pc)) = 3
    BY <2>1, SuiteLengths
  <2>9. c.pc + Length(Peek(c, c.pc)) <= Len(Suite[q])
    BY <1>4, <2>1, <2>8
  <2>10. d.pc = Place(q, 1) /\ (d.halted <=> 1 = End(q)) /\ d.sp = StackAt(q, 1)
    BY <1>1, <1>3, <2>4
  <2>11. Peek(c, c.pc) \in SuiteCode /\ Peek(c, c.pc) # 126 /\ Peek(c, c.pc) # RET
    BY <2>1 DEF SuiteCode, CALL, RET
  <2>12. Private(c)
    BY <1>1, <1>2, <1>5, <2>1, <2>4, <2>9, <2>11, LaidPrivate
  <2>13. {65535, 65534} \in SUBSET {256, 65534, 65535}
    OBVIOUS
  <2>14. QED
    BY <1>1, <1>2, <1>5, <1>8, <2>7, <2>10, <2>12, <2>4, <2>13, Onwards
<1>9. CASE n = 1
  <2>1. c.pc = 6 /\ c.sp = 65534 /\ Peek(c, c.pc) = 62
    BY <1>2, <1>3, <1>4, <1>9
  <2>2. Next16(c.pc) = 7
    BY <2>1 DEF Next16
  <2>3. {65534, 65535} \subseteq DOMAIN c.mem /\ Peek(c, 65535) = 0 /\ Peek(c, 65534) = 3
    BY <1>2, <1>9 DEF KnowsReturn
  <2>4. /\ d \in Machine /\ d.pc = 8 /\ ~d.halted /\ d.sp = 65534
        /\ d.mem = c.mem /\ d.reg = [c.reg EXCEPT ![RegA] = 66]
    BY <1>2, <1>4, <1>5, <2>1, <2>2, <2>3, StepImmediateA, EchoByte DEF Goes
  <2>5. d.reg[RegA] = 66
    BY <1>7, <2>4, <2>3
  <2>6. Peek(d, 65535) = 0 /\ Peek(d, 65534) = 3
    BY <2>3, <2>4 DEF Peek
  <2>7. KnowsReturn(2, d)
    BY <2>3, <2>4, <2>5, <2>6 DEF KnowsReturn
  <2>8. Known(q, 2, d, t2)
    BY <1>6, <2>7
  <2>9. Length(Peek(c, c.pc)) = 2
    BY <2>1, SuiteLengths
  <2>10. c.pc + Length(Peek(c, c.pc)) <= Len(Suite[q])
    BY <1>4, <2>1, <2>9
  <2>11. d.pc = Place(q, 2) /\ (d.halted <=> 2 = End(q)) /\ d.sp = StackAt(q, 2)
    BY <1>1, <1>3, <2>4
  <2>12. Peek(c, c.pc) \in QuietCode
    BY <2>1, QuietCodes
  <2>13. d.sp = c.sp /\ c.sp \in {0, 65534}
    BY <2>1, <2>4
  <2>14. QED
    BY <1>1, <1>2, <1>5, <1>9, <2>4, <2>8, <2>10, <2>11, <2>12, <2>13, QuietOnward
<1>10. CASE n = 2
  <2>1. c.pc = 8 /\ c.sp = 65534 /\ Peek(c, c.pc) = RET
    BY <1>2, <1>3, <1>4, <1>10
  <2>2. /\ {65534, 65535} \subseteq DOMAIN c.mem /\ Peek(c, 65535) = 0 /\ Peek(c, 65534) = 3
        /\ c.reg[RegA] = 66
    BY <1>2, <1>10 DEF KnowsReturn
  <2>3. Next16(c.sp) = 65535 /\ Next16(65535) = 0 /\ Compose(0, 3) = 3
    BY <2>1 DEF Next16, Compose
  <2>4. /\ d \in Machine /\ d.pc = 3 /\ ~d.halted /\ d.sp = 0
        /\ d.mem = c.mem /\ d.reg = c.reg
    BY <1>2, <1>4, <1>5, <2>1, <2>2, <2>3, StepReturn, EchoByte
  <2>5. KnowsReturn(3, d)
    BY <2>2, <2>4 DEF KnowsReturn
  <2>6. Known(q, 3, d, t2)
    BY <1>6, <2>5
  <2>7. Length(Peek(c, c.pc)) = 1
    BY <2>1, SuiteLengths
  <2>8. c.pc + Length(Peek(c, c.pc)) <= Len(Suite[q])
    BY <1>4, <2>1, <2>7
  <2>9. d.pc = Place(q, 3) /\ (d.halted <=> 3 = End(q)) /\ d.sp = StackAt(q, 3)
    BY <1>1, <1>3, <2>4
  <2>10. Peek(c, c.pc) \in SuiteCode /\ Peek(c, c.pc) # 126
    BY <2>1 DEF SuiteCode, CALL, RET
  <2>11. Private(c)
    BY <1>1, <1>2, <1>5, <2>1, <2>4, <2>8, <2>2, <2>10, LaidPrivate
  <2>12. Writing(c, d, {})
    BY <2>4, WritingNone
  <2>13. {} \in SUBSET {256, 65534, 65535}
    OBVIOUS
  <2>14. QED
    BY <1>1, <1>2, <1>5, <1>10, <2>6, <2>9, <2>11, <2>12, <2>13, Onwards
<1>11. CASE n = 3
  <2>1. c.pc = 3 /\ c.sp = 0 /\ Peek(c, c.pc) = HLT
    BY <1>2, <1>3, <1>4, <1>11
  <2>2. c.reg[RegA] = 66
    BY <1>2, <1>11 DEF KnowsReturn
  <2>3. /\ d \in Machine /\ d.pc = 4 /\ d.halted /\ d.sp = 0
        /\ d.mem = c.mem /\ d.reg = c.reg /\ d.flag = c.flag
    BY <1>2, <1>4, <1>5, <2>1, <2>2, StepHalt, EchoByte
  <2>4. KnowsReturn(4, d)
    BY <2>2, <2>3 DEF KnowsReturn
  <2>5. Known(q, 4, d, t2)
    BY <1>6, <2>4
  <2>6. Length(Peek(c, c.pc)) = 1
    BY <2>1, SuiteLengths
  <2>7. c.pc + Length(Peek(c, c.pc)) <= Len(Suite[q])
    BY <1>4, <2>1, <2>6
  <2>8. d.pc = Place(q, 4) /\ (d.halted <=> 4 = End(q)) /\ d.sp = StackAt(q, 4)
    BY <1>1, <1>3, <2>3
  <2>9. Peek(c, c.pc) \in QuietCode
    BY <2>1, QuietCodes
  <2>10. d.sp = c.sp /\ c.sp \in {0, 65534}
    BY <2>1, <2>3
  <2>11. QED
    BY <1>1, <1>2, <1>5, <1>11, <2>3, <2>5, <2>7, <2>8, <2>9, <2>10, QuietOnward
<1>12. QED
  BY <1>2, <1>8, <1>9, <1>10, <1>11

LEMMA JumpTakenOnward ==
  ASSUME NEW q, q = "conditional_jump_taken", NEW n, NEW c \in Machine, NEW t, Along(q, n, c, t),
         ~c.halted
  PROVE  Onward(q, n, c, t)
<1> DEFINE d == Step(c, EchoInput)
           t2 == t + StatesOf(c, Peek(c, c.pc))
<1>1. q \in Travelling /\ End(q) = 2
  BY Journeys
<1>2. /\ n \in Nat /\ n < 2 /\ c.pc = Place(q, n) /\ c.sp = StackAt(q, n)
      /\ Laid(q, c) /\ ~c.flag.carry
  BY <1>1, KnownAre DEF Along
<1>3. Place(q, 0) = 0 /\ Place(q, 1) = 6 /\ Place(q, 2) = 7 /\ (\A i : StackAt(q, i) = 0)
  BY DEF Place, Journey, StackAt
<1>4. /\ Peek(c, 0) = 210 /\ Peek(c, 1) = 6 /\ Peek(c, 2) = 0 /\ Peek(c, 3) = HLT
      /\ Peek(c, 6) = HLT /\ Len(Suite[q]) = 7
  <2>1. Len(Suite[q]) = 7
    BY DEF Suite
  <2>2. \A a \in 0 .. Len(Suite[q]) - 1 : Peek(c, a) = Suite[q][a + 1]
    BY <1>1, <1>2, LaidBytes
  <2>3. /\ Peek(c, 0) = Suite[q][1] /\ Peek(c, 1) = Suite[q][2] /\ Peek(c, 2) = Suite[q][3]
        /\ Peek(c, 3) = Suite[q][4] /\ Peek(c, 6) = Suite[q][7]
    BY <2>1, <2>2
  <2>4. /\ Suite[q][1] = 210 /\ Suite[q][2] = 6 /\ Suite[q][3] = 0 /\ Suite[q][4] = HLT
        /\ Suite[q][7] = HLT
    BY DEF Suite
  <2>5. QED
    BY <2>1, <2>3, <2>4
<1>5. d = Step(c, EchoInput) /\ t2 = t + StatesOf(c, Peek(c, c.pc))
  OBVIOUS
<1>6. \A i : Known(q, i, d, t2) <=> ~d.flag.carry
  BY KnownAre
<1>7. DOMAIN c.reg = Register /\ RegA \in Register /\ 0 \in Register /\ RegA # 0
  BY DEF Machine, Register, RegA, RegM
<1> HIDE DEF d, t2
<1>8. CASE n = 0
  <2>1. c.pc = 0 /\ c.sp = 0 /\ Peek(c, c.pc) = 210
    BY <1>2, <1>3, <1>4, <1>8
  <2>2. Next16(c.pc) = 1 /\ Next16(Next16(c.pc)) = 2
    BY <2>1 DEF Next16
  <2>3. OperandWord(c) = 6
    BY <1>4, <2>2 DEF OperandWord, Compose
  <2>4. /\ d \in Machine /\ d.pc = 6 /\ ~d.halted /\ d.sp = 0
        /\ d.mem = c.mem /\ d.reg = c.reg /\ d.flag = c.flag
    BY <1>2, <1>4, <1>5, <2>1, <2>2, <2>3, StepNoCarry, EchoByte
  <2>5. Known(q, 1, d, t2)
    BY <1>6, <1>2, <1>8, <2>4
  <2>6. Length(Peek(c, c.pc)) = 3
    BY <2>1, SuiteLengths
  <2>7. c.pc + Length(Peek(c, c.pc)) <= Len(Suite[q])
    BY <1>4, <2>1, <2>6
  <2>8. d.pc = Place(q, 1) /\ (d.halted <=> 1 = End(q)) /\ d.sp = StackAt(q, 1)
    BY <1>1, <1>3, <2>4
  <2>9. Peek(c, c.pc) \in QuietCode
    BY <2>1, QuietCodes
  <2>10. d.sp = c.sp /\ c.sp \in {0, 65534}
    BY <2>1, <2>4
  <2>11. QED
    BY <1>1, <1>2, <1>5, <1>8, <2>4, <2>5, <2>7, <2>8, <2>9, <2>10, QuietOnward
<1>9. CASE n = 1
  <2>1. c.pc = 6 /\ c.sp = 0 /\ Peek(c, c.pc) = HLT
    BY <1>2, <1>3, <1>4, <1>9
  <2>2. /\ d \in Machine /\ d.pc = 7 /\ d.halted /\ d.sp = 0
        /\ d.mem = c.mem /\ d.reg = c.reg /\ d.flag = c.flag
    BY <1>2, <1>4, <1>5, <2>1, StepHalt, EchoByte
  <2>3. Known(q, 2, d, t2)
    BY <1>6, <1>2, <1>9, <2>2
  <2>4. Length(Peek(c, c.pc)) = 1
    BY <2>1, SuiteLengths
  <2>5. c.pc + Length(Peek(c, c.pc)) <= Len(Suite[q])
    BY <1>4, <2>1, <2>4
  <2>6. d.pc = Place(q, 2) /\ (d.halted <=> 2 = End(q)) /\ d.sp = StackAt(q, 2)
    BY <1>1, <1>3, <2>2
  <2>7. Peek(c, c.pc) \in QuietCode
    BY <2>1, QuietCodes
  <2>8. d.sp = c.sp /\ c.sp \in {0, 65534}
    BY <2>1, <2>2
  <2>9. QED
    BY <1>1, <1>2, <1>5, <1>9, <2>2, <2>3, <2>5, <2>6, <2>7, <2>8, QuietOnward
<1>10. QED
  BY <1>2, <1>8, <1>9

LEMMA CallNotTakenOnward ==
  ASSUME NEW q, q = "conditional_call_not_taken", NEW n, NEW c \in Machine, NEW t, Along(q, n, c, t),
         ~c.halted
  PROVE  Onward(q, n, c, t)
<1> DEFINE d == Step(c, EchoInput)
           t2 == t + StatesOf(c, Peek(c, c.pc))
<1>1. q \in Travelling /\ End(q) = 2
  BY Journeys
<1>2. /\ n \in Nat /\ n < 2 /\ c.pc = Place(q, n) /\ c.sp = StackAt(q, n)
      /\ Laid(q, c) /\ ~c.flag.carry /\ t = IF n = 0 THEN 0 ELSE IF n = 1 THEN 11 ELSE 18
  BY <1>1, KnownAre DEF Along
<1>3. Place(q, 0) = 0 /\ Place(q, 1) = 3 /\ Place(q, 2) = 4 /\ (\A i : StackAt(q, i) = 0)
  BY DEF Place, Journey, StackAt
<1>4. /\ Peek(c, 0) = 220 /\ Peek(c, 1) = 6 /\ Peek(c, 2) = 0 /\ Peek(c, 3) = HLT
      /\ Peek(c, 6) = HLT /\ Len(Suite[q]) = 7
  <2>1. Len(Suite[q]) = 7
    BY DEF Suite
  <2>2. \A a \in 0 .. Len(Suite[q]) - 1 : Peek(c, a) = Suite[q][a + 1]
    BY <1>1, <1>2, LaidBytes
  <2>3. /\ Peek(c, 0) = Suite[q][1] /\ Peek(c, 1) = Suite[q][2] /\ Peek(c, 2) = Suite[q][3]
        /\ Peek(c, 3) = Suite[q][4] /\ Peek(c, 6) = Suite[q][7]
    BY <2>1, <2>2
  <2>4. /\ Suite[q][1] = 220 /\ Suite[q][2] = 6 /\ Suite[q][3] = 0 /\ Suite[q][4] = HLT
        /\ Suite[q][7] = HLT
    BY DEF Suite
  <2>5. QED
    BY <2>1, <2>3, <2>4
<1>5. d = Step(c, EchoInput) /\ t2 = t + StatesOf(c, Peek(c, c.pc))
  OBVIOUS
<1>6. \A i : Known(q, i, d, t2) <=> ~d.flag.carry /\ t2 = IF i = 0 THEN 0 ELSE IF i = 1 THEN 11 ELSE 18
  BY KnownAre
<1>7. DOMAIN c.reg = Register /\ RegA \in Register /\ 0 \in Register /\ RegA # 0
  BY DEF Machine, Register, RegA, RegM
<1> HIDE DEF d, t2
<1>8. CASE n = 0
  <2>1. c.pc = 0 /\ c.sp = 0 /\ Peek(c, c.pc) = 220
    BY <1>2, <1>3, <1>4, <1>8
  <2>2. /\ d \in Machine /\ d.pc = 3 /\ ~d.halted /\ d.sp = 0
        /\ d.mem = c.mem /\ d.reg = c.reg /\ d.flag = c.flag /\ t2 = t + 11
    BY <1>2, <1>4, <1>5, <2>1, StepNoCarry, EchoByte
  <2>3. Known(q, 1, d, t2)
    BY <1>6, <1>2, <1>8, <2>2
  <2>4. Length(Peek(c, c.pc)) = 3
    BY <2>1, SuiteLengths
  <2>5. c.pc + Length(Peek(c, c.pc)) <= Len(Suite[q])
    BY <1>4, <2>1, <2>4
  <2>6. d.pc = Place(q, 1) /\ (d.halted <=> 1 = End(q)) /\ d.sp = StackAt(q, 1)
    BY <1>1, <1>3, <2>2
  <2>7. Peek(c, c.pc) \in QuietCode
    BY <2>1, QuietCodes
  <2>8. d.sp = c.sp /\ c.sp \in {0, 65534}
    BY <2>1, <2>2
  <2>9. QED
    BY <1>1, <1>2, <1>5, <1>8, <2>2, <2>3, <2>5, <2>6, <2>7, <2>8, QuietOnward
<1>9. CASE n = 1
  <2>1. c.pc = 3 /\ c.sp = 0 /\ Peek(c, c.pc) = HLT
    BY <1>2, <1>3, <1>4, <1>9
  <2>2. t = 11
    BY <1>2, <1>9
  <2>3. /\ d \in Machine /\ d.pc = 4 /\ d.halted /\ d.sp = 0
        /\ d.mem = c.mem /\ d.reg = c.reg /\ d.flag = c.flag /\ t2 = 18
    BY <1>2, <1>4, <1>5, <2>1, <2>2, StepHalt, EchoByte
  <2>4. Known(q, 2, d, t2)
    BY <1>6, <1>2, <1>9, <2>3
  <2>5. Length(Peek(c, c.pc)) = 1
    BY <2>1, SuiteLengths
  <2>6. c.pc + Length(Peek(c, c.pc)) <= Len(Suite[q])
    BY <1>4, <2>1, <2>5
  <2>7. d.pc = Place(q, 2) /\ (d.halted <=> 2 = End(q)) /\ d.sp = StackAt(q, 2)
    BY <1>1, <1>3, <2>3
  <2>8. Peek(c, c.pc) \in QuietCode
    BY <2>1, QuietCodes
  <2>9. d.sp = c.sp /\ c.sp \in {0, 65534}
    BY <2>1, <2>3
  <2>10. QED
    BY <1>1, <1>2, <1>5, <1>9, <2>3, <2>4, <2>6, <2>7, <2>8, <2>9, QuietOnward
<1>10. QED
  BY <1>2, <1>8, <1>9

LEMMA RotateCarryOnward ==
  ASSUME NEW q, q = "rotate_carry", NEW n, NEW c \in Machine, NEW t, Along(q, n, c, t),
         ~c.halted
  PROVE  Onward(q, n, c, t)
<1> DEFINE d == Step(c, EchoInput)
           t2 == t + StatesOf(c, Peek(c, c.pc))
<1>1. q \in Travelling /\ End(q) = 3
  BY Journeys
<1>2. /\ n \in Nat /\ n < 3 /\ c.pc = Place(q, n) /\ c.sp = StackAt(q, n)
      /\ Laid(q, c) /\ KnowsRotated(n, c)
  BY <1>1, KnownAre DEF Along
<1>3. /\ Place(q, 0) = 0 /\ Place(q, 1) = 2 /\ Place(q, 2) = 3 /\ Place(q, 3) = 4
      /\ (\A i : StackAt(q, i) = 0)
  BY DEF Place, Journey, StackAt
<1>4. /\ Peek(c, 0) = 62 /\ Peek(c, 1) = 129 /\ Peek(c, 2) = RLC /\ Peek(c, 3) = HLT
      /\ Len(Suite[q]) = 4
  <2>1. Len(Suite[q]) = 4
    BY DEF Suite
  <2>2. \A a \in 0 .. Len(Suite[q]) - 1 : Peek(c, a) = Suite[q][a + 1]
    BY <1>1, <1>2, LaidBytes
  <2>3. /\ Peek(c, 0) = Suite[q][1] /\ Peek(c, 1) = Suite[q][2] /\ Peek(c, 2) = Suite[q][3]
        /\ Peek(c, 3) = Suite[q][4]
    BY <2>1, <2>2
  <2>4. Suite[q][1] = 62 /\ Suite[q][2] = 129 /\ Suite[q][3] = RLC /\ Suite[q][4] = HLT
    BY DEF Suite
  <2>5. QED
    BY <2>1, <2>3, <2>4
<1>5. d = Step(c, EchoInput) /\ t2 = t + StatesOf(c, Peek(c, c.pc))
  OBVIOUS
<1>6. \A i : Known(q, i, d, t2) <=> KnowsRotated(i, d)
  BY KnownAre
<1>7. DOMAIN c.reg = Register /\ RegA \in Register /\ 0 \in Register /\ RegA # 0
  BY DEF Machine, Register, RegA, RegM
<1> HIDE DEF d, t2
<1>8. CASE n = 0
  <2>1. c.pc = 0 /\ c.sp = 0 /\ Peek(c, c.pc) = 62
    BY <1>2, <1>3, <1>4, <1>8
  <2>2. Next16(c.pc) = 1
    BY <2>1 DEF Next16
  <2>3. /\ d \in Machine /\ d.pc = 2 /\ ~d.halted /\ d.sp = 0
        /\ d.mem = c.mem /\ d.reg = [c.reg EXCEPT ![RegA] = 129]
    BY <1>2, <1>4, <1>5, <2>1, <2>2, StepImmediateA, EchoByte DEF Goes
  <2>4. d.reg[RegA] = 129
    BY <1>7, <2>3
  <2>5. KnowsRotated(1, d)
    BY <2>3, <2>4 DEF KnowsRotated
  <2>6. Known(q, 1, d, t2)
    BY <1>6, <2>5
  <2>7. Length(Peek(c, c.pc)) = 2
    BY <2>1, SuiteLengths
  <2>8. c.pc + Length(Peek(c, c.pc)) <= Len(Suite[q])
    BY <1>4, <2>1, <2>7
  <2>9. d.pc = Place(q, 1) /\ (d.halted <=> 1 = End(q)) /\ d.sp = StackAt(q, 1)
    BY <1>1, <1>3, <2>3
  <2>10. Peek(c, c.pc) \in QuietCode
    BY <2>1, QuietCodes
  <2>11. d.sp = c.sp /\ c.sp \in {0, 65534}
    BY <2>1, <2>3
  <2>12. QED
    BY <1>1, <1>2, <1>5, <1>8, <2>3, <2>6, <2>8, <2>9, <2>10, <2>11, QuietOnward
<1>9. CASE n = 1
  <2>1. c.pc = 2 /\ c.sp = 0 /\ Peek(c, c.pc) = RLC
    BY <1>2, <1>3, <1>4, <1>9
  <2>2. c.reg[RegA] = 129
    BY <1>2, <1>9 DEF KnowsRotated
  <2>3. /\ d \in Machine /\ d.pc = 3 /\ ~d.halted /\ d.sp = 0
        /\ d.mem = c.mem /\ d.reg = [c.reg EXCEPT ![RegA] = 3] /\ d.flag.carry
    BY <1>2, <1>4, <1>5, <2>1, <2>2, StepRotateLeft, EchoByte DEF Goes
  <2>4. d.reg[RegA] = 3
    BY <1>7, <2>3, <2>2
  <2>5. KnowsRotated(2, d)
    BY <2>2, <2>3, <2>4 DEF KnowsRotated
  <2>6. Known(q, 2, d, t2)
    BY <1>6, <2>5
  <2>7. Length(Peek(c, c.pc)) = 1
    BY <2>1, SuiteLengths
  <2>8. c.pc + Length(Peek(c, c.pc)) <= Len(Suite[q])
    BY <1>4, <2>1, <2>7
  <2>9. d.pc = Place(q, 2) /\ (d.halted <=> 2 = End(q)) /\ d.sp = StackAt(q, 2)
    BY <1>1, <1>3, <2>3
  <2>10. Peek(c, c.pc) \in QuietCode
    BY <2>1, QuietCodes
  <2>11. d.sp = c.sp /\ c.sp \in {0, 65534}
    BY <2>1, <2>3
  <2>12. QED
    BY <1>1, <1>2, <1>5, <1>9, <2>3, <2>6, <2>8, <2>9, <2>10, <2>11, QuietOnward
<1>10. CASE n = 2
  <2>1. c.pc = 3 /\ c.sp = 0 /\ Peek(c, c.pc) = HLT
    BY <1>2, <1>3, <1>4, <1>10
  <2>2. c.reg[RegA] = 3 /\ c.flag.carry
    BY <1>2, <1>10 DEF KnowsRotated
  <2>3. /\ d \in Machine /\ d.pc = 4 /\ d.halted /\ d.sp = 0
        /\ d.mem = c.mem /\ d.reg = c.reg /\ d.flag = c.flag
    BY <1>2, <1>4, <1>5, <2>1, <2>2, StepHalt, EchoByte
  <2>4. KnowsRotated(3, d)
    BY <2>2, <2>3 DEF KnowsRotated
  <2>5. Known(q, 3, d, t2)
    BY <1>6, <2>4
  <2>6. Length(Peek(c, c.pc)) = 1
    BY <2>1, SuiteLengths
  <2>7. c.pc + Length(Peek(c, c.pc)) <= Len(Suite[q])
    BY <1>4, <2>1, <2>6
  <2>8. d.pc = Place(q, 3) /\ (d.halted <=> 3 = End(q)) /\ d.sp = StackAt(q, 3)
    BY <1>1, <1>3, <2>3
  <2>9. Peek(c, c.pc) \in QuietCode
    BY <2>1, QuietCodes
  <2>10. d.sp = c.sp /\ c.sp \in {0, 65534}
    BY <2>1, <2>3
  <2>11. QED
    BY <1>1, <1>2, <1>5, <1>10, <2>3, <2>5, <2>7, <2>8, <2>9, <2>10, QuietOnward
<1>11. QED
  BY <1>2, <1>8, <1>9, <1>10

LEMMA IoEchoOnward ==
  ASSUME NEW q, q = "io_echo", NEW n, NEW c \in Machine, NEW t, Along(q, n, c, t),
         ~c.halted
  PROVE  Onward(q, n, c, t)
<1> DEFINE d == Step(c, EchoInput)
           t2 == t + StatesOf(c, Peek(c, c.pc))
<1>1. q \in Travelling /\ End(q) = 3
  BY Journeys
<1>2. /\ n \in Nat /\ n < 3 /\ c.pc = Place(q, n) /\ c.sp = StackAt(q, n)
      /\ Laid(q, c) /\ (n >= 1 => c.reg[RegA] = EchoInput)
  BY <1>1, KnownAre DEF Along
<1>3. /\ Place(q, 0) = 0 /\ Place(q, 1) = 2 /\ Place(q, 2) = 4 /\ Place(q, 3) = 5
      /\ (\A i : StackAt(q, i) = 0)
  BY DEF Place, Journey, StackAt
<1>4. /\ Peek(c, 0) = IN_ /\ Peek(c, 1) = 0 /\ Peek(c, 2) = OUT /\ Peek(c, 3) = 1
      /\ Peek(c, 4) = HLT /\ Len(Suite[q]) = 5
  <2>1. Len(Suite[q]) = 5
    BY DEF Suite
  <2>2. \A a \in 0 .. Len(Suite[q]) - 1 : Peek(c, a) = Suite[q][a + 1]
    BY <1>1, <1>2, LaidBytes
  <2>3. /\ Peek(c, 0) = Suite[q][1] /\ Peek(c, 1) = Suite[q][2] /\ Peek(c, 2) = Suite[q][3]
        /\ Peek(c, 3) = Suite[q][4] /\ Peek(c, 4) = Suite[q][5]
    BY <2>1, <2>2
  <2>4. /\ Suite[q][1] = IN_ /\ Suite[q][2] = 0 /\ Suite[q][3] = OUT /\ Suite[q][4] = 1
        /\ Suite[q][5] = HLT
    BY DEF Suite
  <2>5. QED
    BY <2>1, <2>3, <2>4
<1>5. d = Step(c, EchoInput) /\ t2 = t + StatesOf(c, Peek(c, c.pc))
  OBVIOUS
<1>6. \A i : Known(q, i, d, t2) <=> (i >= 1 => d.reg[RegA] = EchoInput)
  BY KnownAre
<1>7. DOMAIN c.reg = Register /\ RegA \in Register /\ 0 \in Register /\ RegA # 0
  BY DEF Machine, Register, RegA, RegM
<1> HIDE DEF d, t2
<1>8. CASE n = 0
  <2>1. c.pc = 0 /\ c.sp = 0 /\ Peek(c, c.pc) = IN_
    BY <1>2, <1>3, <1>4, <1>8
  <2>2. /\ d \in Machine /\ d.pc = 2 /\ ~d.halted /\ d.sp = 0
        /\ d.mem = c.mem /\ d.reg = [c.reg EXCEPT ![RegA] = EchoInput]
    BY <1>2, <1>4, <1>5, <2>1, StepInput, EchoByte DEF Goes
  <2>3. d.reg[RegA] = EchoInput
    BY <1>7, <2>2
  <2>4. Known(q, 1, d, t2)
    BY <1>6, <2>2, <2>3
  <2>5. Length(Peek(c, c.pc)) = 2
    BY <2>1, SuiteLengths
  <2>6. c.pc + Length(Peek(c, c.pc)) <= Len(Suite[q])
    BY <1>4, <2>1, <2>5
  <2>7. d.pc = Place(q, 1) /\ (d.halted <=> 1 = End(q)) /\ d.sp = StackAt(q, 1)
    BY <1>1, <1>3, <2>2
  <2>8. Peek(c, c.pc) \in QuietCode
    BY <2>1, QuietCodes
  <2>9. d.sp = c.sp /\ c.sp \in {0, 65534}
    BY <2>1, <2>2
  <2>10. QED
    BY <1>1, <1>2, <1>5, <1>8, <2>2, <2>4, <2>6, <2>7, <2>8, <2>9, QuietOnward
<1>9. CASE n = 1
  <2>1. c.pc = 2 /\ c.sp = 0 /\ Peek(c, c.pc) = OUT
    BY <1>2, <1>3, <1>4, <1>9
  <2>2. c.reg[RegA] = EchoInput
    BY <1>2, <1>9
  <2>3. /\ d \in Machine /\ d.pc = 4 /\ ~d.halted /\ d.sp = 0
        /\ d.mem = c.mem /\ d.reg = c.reg
    BY <1>2, <1>4, <1>5, <2>1, <2>2, StepOutput, EchoByte DEF Goes
  <2>4. Known(q, 2, d, t2)
    BY <1>6, <2>2, <2>3
  <2>5. Length(Peek(c, c.pc)) = 2
    BY <2>1, SuiteLengths
  <2>6. c.pc + Length(Peek(c, c.pc)) <= Len(Suite[q])
    BY <1>4, <2>1, <2>5
  <2>7. d.pc = Place(q, 2) /\ (d.halted <=> 2 = End(q)) /\ d.sp = StackAt(q, 2)
    BY <1>1, <1>3, <2>3
  <2>8. Peek(c, c.pc) \in QuietCode
    BY <2>1, QuietCodes
  <2>9. d.sp = c.sp /\ c.sp \in {0, 65534}
    BY <2>1, <2>3
  <2>10. QED
    BY <1>1, <1>2, <1>5, <1>9, <2>3, <2>4, <2>6, <2>7, <2>8, <2>9, QuietOnward
<1>10. CASE n = 2
  <2>1. c.pc = 4 /\ c.sp = 0 /\ Peek(c, c.pc) = HLT
    BY <1>2, <1>3, <1>4, <1>10
  <2>2. c.reg[RegA] = EchoInput
    BY <1>2, <1>10
  <2>3. /\ d \in Machine /\ d.pc = 5 /\ d.halted /\ d.sp = 0
        /\ d.mem = c.mem /\ d.reg = c.reg /\ d.flag = c.flag
    BY <1>2, <1>4, <1>5, <2>1, <2>2, StepHalt, EchoByte
  <2>4. Known(q, 3, d, t2)
    BY <1>6, <2>2, <2>3
  <2>5. Length(Peek(c, c.pc)) = 1
    BY <2>1, SuiteLengths
  <2>6. c.pc + Length(Peek(c, c.pc)) <= Len(Suite[q])
    BY <1>4, <2>1, <2>5
  <2>7. d.pc = Place(q, 3) /\ (d.halted <=> 3 = End(q)) /\ d.sp = StackAt(q, 3)
    BY <1>1, <1>3, <2>3
  <2>8. Peek(c, c.pc) \in QuietCode
    BY <2>1, QuietCodes
  <2>9. d.sp = c.sp /\ c.sp \in {0, 65534}
    BY <2>1, <2>3
  <2>10. QED
    BY <1>1, <1>2, <1>5, <1>10, <2>3, <2>4, <2>6, <2>7, <2>8, <2>9, QuietOnward
<1>11. QED
  BY <1>2, <1>8, <1>9, <1>10

LEMMA InterruptOnward ==
  ASSUME NEW q, q = "interrupt_rst", NEW n, n # 0, NEW c \in Machine, NEW t, Along(q, n, c, t),
         ~c.halted
  PROVE  Onward(q, n, c, t)
<1> DEFINE d == Step(c, EchoInput)
           t2 == t + StatesOf(c, Peek(c, c.pc))
<1>1. q \in Travelling /\ End(q) = 2
  BY Journeys
<1>2. /\ n \in Nat /\ n < 2 /\ c.pc = Place(q, n) /\ c.sp = StackAt(q, n)
      /\ Laid(q, c) /\ (n >= 1 => 65534 \in DOMAIN c.mem /\ Peek(c, 65534) = 0)
  BY <1>1, KnownAre DEF Along
<1>3. /\ Place(q, 0) = 0 /\ Place(q, 1) = 8 /\ Place(q, 2) = 9 /\ StackAt(q, 0) = 0
      /\ StackAt(q, 1) = 65534 /\ StackAt(q, 2) = 65534
  BY DEF Place, Journey, StackAt
<1>4. Peek(c, 8) = HLT /\ Len(Suite[q]) = 9
  <2>1. Len(Suite[q]) = 9
    BY DEF Suite
  <2>2. \A a \in 0 .. Len(Suite[q]) - 1 : Peek(c, a) = Suite[q][a + 1]
    BY <1>1, <1>2, LaidBytes
  <2>3. Peek(c, 8) = Suite[q][9]
    BY <2>1, <2>2
  <2>4. Suite[q][9] = HLT
    BY DEF Suite
  <2>5. QED
    BY <2>1, <2>3, <2>4
<1>5. d = Step(c, EchoInput) /\ t2 = t + StatesOf(c, Peek(c, c.pc))
  OBVIOUS
<1>6. \A i : Known(q, i, d, t2) <=> (i >= 1 => 65534 \in DOMAIN d.mem /\ Peek(d, 65534) = 0)
  BY KnownAre
<1>7. DOMAIN c.reg = Register /\ RegA \in Register /\ 0 \in Register /\ RegA # 0
  BY DEF Machine, Register, RegA, RegM
<1> HIDE DEF d, t2
<1>8. CASE n = 1
  <2>1. c.pc = 8 /\ c.sp = 65534 /\ Peek(c, c.pc) = HLT
    BY <1>2, <1>3, <1>4, <1>8
  <2>2. 65534 \in DOMAIN c.mem /\ Peek(c, 65534) = 0
    BY <1>2, <1>8
  <2>3. /\ d \in Machine /\ d.pc = 9 /\ d.halted /\ d.sp = 65534
        /\ d.mem = c.mem /\ d.reg = c.reg /\ d.flag = c.flag
    BY <1>2, <1>4, <1>5, <2>1, <2>2, StepHalt, EchoByte
  <2>4. Peek(d, 65534) = 0
    BY <2>2, <2>3 DEF Peek
  <2>5. Known(q, 2, d, t2)
    BY <1>6, <2>2, <2>3, <2>4
  <2>6. Length(Peek(c, c.pc)) = 1
    BY <2>1, SuiteLengths
  <2>7. c.pc + Length(Peek(c, c.pc)) <= Len(Suite[q])
    BY <1>4, <2>1, <2>6
  <2>8. d.pc = Place(q, 2) /\ (d.halted <=> 2 = End(q)) /\ d.sp = StackAt(q, 2)
    BY <1>1, <1>3, <2>3
  <2>9. Peek(c, c.pc) \in QuietCode
    BY <2>1, QuietCodes
  <2>10. d.sp = c.sp /\ c.sp \in {0, 65534}
    BY <2>1, <2>3
  <2>11. QED
    BY <1>1, <1>2, <1>5, <1>8, <2>3, <2>5, <2>7, <2>8, <2>9, <2>10, QuietOnward
<1>9. QED
  BY <1>2, <1>8

\* Each instruction of a program of the suite takes it one place further.
LEMMA SuiteOnward ==
  ASSUME NEW case \in Travelling, NEW n, NEW c \in Machine, NEW t, Along(case, n, c, t),
         ~c.halted, case = "interrupt_rst" => n # 0
  PROVE  Onward(case, n, c, t)
BY Journeys, LoadMoveOnward, AluFlagsOnward, MemoryIndirectOnward, CallReturnOnward,
   JumpTakenOnward, CallNotTakenOnward, RotateCarryOnward, IoEchoOnward, InterruptOnward

---------------------------------------------------------------------------
(* The suite, with the interrupts.                                         *)

\* The interrupt interrupt_rst asks for.
LEMMA OwnCall ==
  ASSUME NEW c \in Machine
  PROVE  LET d == JamOf(c, 207, <<0, 0>>, 0)
         IN  /\ d \in Machine /\ ~d.halted /\ d.pc = 8 /\ StatesOf(c, 207) = 11
             /\ c.pc = 0 /\ c.sp = 0 =>
                  /\ d.sp = 65534 /\ Writing(c, d, {65535, 65534}) /\ Peek(d, 65534) = 0
<1> DEFINE d == JamOf(c, 207, <<0, 0>>, 0)
           w == Woken(c)
           a == Previous16(w.sp)
           b == Previous16(a)
<1>1. 207 \in Byte /\ 207 \in RST /\ Y(207) = 1 /\ 207 \notin Unassigned
  BY HandlerCodes, EchoByte, Octal, FamilyOf DEF Families
<1>2. /\ w \in Machine /\ w.pc = c.pc /\ w.sp = c.sp /\ w.mem = c.mem /\ ~w.halted
  BY WokenIs
<1>3. StatesOf(c, 207) = 11
  BY <1>1, StatesAre
<1>4. 8 \in Word /\ 8 * Y(207) = 8
  BY <1>1, WordIs
<1>5. d = CallTo(w, 8)
  <2>1. d = Execute(w, 207, <<0, 0>>, 0)
    BY DEF JamOf, Woken
  <2>2. Arms(w, 207, <<0, 0>>, 0)
    BY <1>1, OneArm
  <2> HIDE DEF d, w
  <2>3. QED
    BY <1>1, <1>4, <2>1, <2>2 DEF Arms
<1> HIDE DEF w
<1>6. LET e == CallTo(w, 8)
      IN  /\ e \in Machine /\ e.pc = 8 /\ e.halted = w.halted /\ e.sp = b
          /\ Writing(w, e, {a, b}) /\ Peek(e, b) = Low(w.pc)
  BY <1>2, <1>4, CallWrites
<1> HIDE DEF d, a, b
<1>7. d \in Machine /\ d.pc = 8 /\ ~d.halted /\ d.sp = b
  BY <1>2, <1>5, <1>6
<1>8. Writing(w, d, {a, b}) /\ Peek(d, b) = Low(w.pc)
  BY <1>5, <1>6
<1>9. ASSUME c.pc = 0, c.sp = 0
      PROVE  d.sp = 65534 /\ Writing(c, d, {65535, 65534}) /\ Peek(d, 65534) = 0
  <2>1. 0 \in Word /\ 65535 \in Word
    BY WordIs
  <2>2. Previous16(0) = 65535 /\ Previous16(65535) = 65534
    BY <2>1, PreviousIs
  <2>3. a = 65535 /\ b = 65534
    BY <1>2, <1>9, <2>2 DEF a, b
  <2>4. Low(0) = 0
    BY DEF Low
  <2>5. Writing(w, d, {65535, 65534}) /\ Peek(d, 65534) = 0
    BY <1>2, <1>8, <1>9, <2>3, <2>4
  <2>6. Writing(c, d, {65535, 65534})
    BY <1>2, <2>5 DEF Writing, Peek
  <2>7. QED
    BY <1>7, <2>3, <2>5, <2>6
<1>10. QED
  BY <1>3, <1>7, <1>9 DEF d

LEMMA OwnOnward ==
  ASSUME NEW c \in Machine, NEW t, NEW t2, Along("interrupt_rst", 0, c, t)
  PROVE  Along("interrupt_rst", 1, JamOf(c, 207, <<0, 0>>, 0), t2)
<1> DEFINE q == "interrupt_rst"
           d == JamOf(c, 207, <<0, 0>>, 0)
<1>1. q \in Travelling /\ End(q) = 2
  BY Journeys
<1>2. Place(q, 0) = 0 /\ Place(q, 1) = 8 /\ StackAt(q, 0) = 0 /\ StackAt(q, 1) = 65534
  BY DEF Place, Journey, StackAt
<1>3. c.pc = 0 /\ c.sp = 0 /\ Laid(q, c)
  BY <1>2 DEF Along
<1>4. d \in Machine /\ ~d.halted /\ d.pc = 8 /\ d.sp = 65534 /\ Writing(c, d, {65535, 65534})
      /\ Peek(d, 65534) = 0
  BY <1>3, OwnCall
<1> HIDE DEF d
<1>5. {65535, 65534} \in SUBSET {256, 65534, 65535}
  OBVIOUS
<1>6. Laid(q, d)
  BY <1>1, <1>3, <1>4, <1>5, LaidKept
<1>7. 65534 \in DOMAIN d.mem
  BY <1>4 DEF Writing
<1>8. Known(q, 1, d, t2)
  BY <1>4, <1>7, KnownAre
<1> HIDE DEF q
<1>9. Along(q, 1, d, t2)
  BY <1>1, <1>2, <1>4, <1>6, <1>8 DEF Along
<1>10. QED
  BY <1>9 DEF q, d

\* The ring is clear of its stack for as long as the program runs.
RingClear(n, a, b) == a \in Int /\ b \in Int /\ a >= 64 /\ b >= 64 /\ b = RingTop(n + 1)

LEMMA RingStack ==
  ASSUME NEW n \in Nat, 2 * n + 66 <= 65536, NEW s, s = RingTop(n)
  PROVE  RingClear(n, Previous16(s), Previous16(Previous16(s)))
<1> DEFINE x == 65536 - 2 * n
           a == Previous16(s)
           b == Previous16(a)
           y == RingTop(n + 1)
<1>1. x \in Int /\ x >= 66 /\ x <= 65536 /\ y = (x - 2) % 65536
  BY DEF RingTop
<1>2. s = x % 65536
  BY DEF RingTop
<1>3. RingClear(n, a, b) <=> a \in Int /\ b \in Int /\ a >= 64 /\ b >= 64 /\ b = y
  BY DEF RingClear
<1> HIDE DEF x, y, a, b
<1>4. s = IF x = 65536 THEN 0 ELSE x
  BY <1>1, <1>2
<1>5. a = x - 1
  <2>1. s \in Word
    BY <1>1, <1>4, WordIs
  <2>2. a = IF s = 0 THEN 65535 ELSE s - 1
    BY <2>1, PreviousIs DEF a
  <2>3. QED
    BY <1>1, <1>4, <2>2
<1>6. b = x - 2 /\ y = x - 2
  <2>1. a \in Word /\ a # 0
    BY <1>1, <1>5, WordIs
  <2>2. b = a - 1
    BY <2>1, PreviousIs DEF b
  <2>3. QED
    BY <1>1, <1>5, <2>2
<1>7. RingClear(n, a, b)
  BY <1>1, <1>3, <1>5, <1>6
<1>8. QED
  BY <1>7 DEF a, b

LEMMA RoundTheRing ==
  ASSUME NEW n \in Nat, NEW c \in Machine, OnRing(n, c), 2 * n + 66 <= 65536
  PROVE  OnRing(n + 1, Step(c, EchoInput))
<1> DEFINE d == Step(c, EchoInput)
           r == (n + 1) % 8
           a == Previous16(c.sp)
           b == Previous16(a)
<1>1. n % 8 \in 0 .. 7 /\ r \in 0 .. 7 /\ r = ((n % 8) + 1) % 8
  OBVIOUS
<1>2. ~c.halted /\ c.pc = 8 * (n % 8) /\ c.sp = RingTop(n)
      /\ \A j \in 0 .. 7 : Peek(c, 8 * j) = 199 + 8 * ((j + 1) % 8)
  BY DEF OnRing
<1>3. Peek(c, c.pc) = 199 + 8 * r
  BY <1>1, <1>2
<1>4. /\ d \in Machine /\ ~d.halted /\ d.pc = 8 * r /\ d.sp = b /\ Writing(c, d, {a, b})
  <2> HIDE DEF r
  <2>1. LET e == Step(c, EchoInput)
            above == Previous16(c.sp)
        IN  /\ e \in Machine /\ ~e.halted /\ e.pc = 8 * r /\ e.sp = Previous16(above)
            /\ Writing(c, e, {above, Previous16(above)})
    BY <1>1, <1>2, <1>3, StepRestart, EchoByte
  <2>2. QED
    BY <2>1
<1> HIDE DEF d, r
<1>5. RingClear(n, a, b)
  BY <1>2, RingStack
<1> HIDE DEF a, b
<1>6. ASSUME NEW j \in 0 .. 7 PROVE Peek(d, 8 * j) = 199 + 8 * ((j + 1) % 8)
  <2>1. 8 * j \notin {a, b}
    BY <1>5 DEF RingClear
  <2>2. Peek(d, 8 * j) = Peek(c, 8 * j)
    BY <1>4, <2>1 DEF Writing
  <2>3. QED
    BY <1>2, <2>2
<1>7. QED
  BY <1>4, <1>5, <1>6 DEF OnRing, RingClear, d, r

\* What the suite starts with.
LEMMA SuiteImage ==
  ASSUME NEW case \in Travelling
  PROVE  Laid(case, Reset(Image(case, Suite[case])))
<1> DEFINE L == Len(Suite[case])
           S == (0 .. L - 1) \cup (56 .. 70)
           v(a) == IF a < 56 THEN Suite[case][a + 1] ELSE Handler[a - 55]
           c == Reset(Image(case, Suite[case]))
<1>1. L \in Nat /\ L <= 56 /\ DOMAIN Suite[case] = 1 .. L /\ case # "rst_ring"
  BY TravellingBytes
<1>2. Len(Handler) = 15 /\ DOMAIN Handler = 1 .. 15
  BY DEF Handler
<1>3. c.mem = [a \in S |-> v(a)]
  <2>1. c.mem = Image(case, Suite[case])
    BY DEF Reset
  <2>2. HandlerAt = 56 /\ HandlerAt + Len(Handler) - 1 = 70
    BY <1>2 DEF HandlerAt
  <2>3. \A a \in S : a \in Int /\ a - HandlerAt + 1 = a - 55
    BY <1>1, <2>2
  <2>4. Image(case, Suite[case])
          = [a \in (0 .. Len(Suite[case]) - 1) \cup (HandlerAt .. HandlerAt + Len(Handler) - 1) |->
               IF a < HandlerAt THEN Suite[case][a + 1] ELSE Handler[a - HandlerAt + 1]]
    BY <1>1 DEF Image
  <2> HIDE DEF c
  <2>5. QED
    BY <2>1, <2>2, <2>3, <2>4
<1> HIDE DEF L, S, v, c
<1>4. ASSUME NEW i \in DOMAIN Suite[case]
      PROVE  i - 1 \in DOMAIN c.mem /\ Peek(c, i - 1) = Suite[case][i]
  <2>1. i \in Int /\ i - 1 \in 0 .. L - 1 /\ i - 1 < 56 /\ (i - 1) + 1 = i
    BY <1>1, <1>4
  <2>2. i - 1 \in S /\ v(i - 1) = Suite[case][i]
    BY <2>1 DEF S, v
  <2>3. QED
    BY <1>3, <2>2 DEF Peek
<1>5. ASSUME NEW i \in DOMAIN Handler
      PROVE  HandlerAt + i - 1 \in DOMAIN c.mem /\ Peek(c, HandlerAt + i - 1) = Handler[i]
  <2> DEFINE a == HandlerAt + i - 1
  <2>1. i \in 1 .. 15
    BY <1>2, <1>5
  <2>2. a \in 56 .. 70 /\ ~(a < 56) /\ a - 55 = i
    BY <2>1 DEF HandlerAt
  <2> HIDE DEF a
  <2>3. a \in S /\ v(a) = Handler[i]
    BY <2>2 DEF S, v
  <2>4. a \in DOMAIN c.mem /\ Peek(c, a) = Handler[i]
    BY <1>3, <2>3 DEF Peek
  <2>5. QED
    BY <2>4 DEF a
<1>6. S \subseteq (0 .. 70) \cup {256, 65534, 65535}
  BY <1>1 DEF S
<1>7. Laid(case, c)
  BY <1>3, <1>4, <1>5, <1>6 DEF Laid
<1>8. QED
  BY <1>7 DEF c

LEMMA RingImage == OnRing(0, Reset(Image("rst_ring", Suite["rst_ring"])))
<1> DEFINE ring == [i \in 1 .. 64 |-> IF i % 8 = 1 THEN 199 + 8 * (((i \div 8) + 1) % 8) ELSE 0]
           c == Reset(Image("rst_ring", Suite["rst_ring"]))
<1>1. Suite["rst_ring"] = ring
  BY DEF Suite
<1>2. Len(Suite["rst_ring"]) = 64
  BY SuiteBytes
<1>3. c.mem = [a \in 0 .. 63 |-> ring[a + 1]] /\ ~c.halted /\ c.pc = 0 /\ c.sp = 0
  BY <1>1, <1>2 DEF Reset, Image, MemoryOf
<1> HIDE DEF c
<1>4. ASSUME NEW j \in 0 .. 7
      PROVE  Peek(c, 8 * j) = 199 + 8 * ((j + 1) % 8)
  <2>1. 8 * j \in 0 .. 63 /\ 8 * j + 1 \in 1 .. 64
    OBVIOUS
  <2>2. (8 * j + 1) % 8 = 1 /\ (8 * j + 1) \div 8 = j
    OBVIOUS
  <2>3. ring[8 * j + 1] = 199 + 8 * ((j + 1) % 8)
    BY <2>1, <2>2
  <2> HIDE DEF ring
  <2>4. QED
    BY <1>3, <2>1, <2>3 DEF Peek
<1>5. RingTop(0) = 0 /\ 8 * (0 % 8) = 0
  BY DEF RingTop
<1>6. OnRing(0, c)
  BY <1>3, <1>4, <1>5 DEF OnRing
<1>7. QED
  BY <1>6 DEF c

LEMMA SuiteInit == Init => SuiteRuns
<1> SUFFICES ASSUME Init PROVE SuiteRuns
  OBVIOUS
<1> DEFINE name == program.name
<1>1. /\ depth = 0 /\ m = shadow /\ steps = 0 /\ states = 0 /\ clock.instructions = 0
      /\ m = Reset(Image(name, program.bytes))
  BY DEF Init
<1>2. name \in DOMAIN Suite => program.bytes = Suite[name]
  <2>1. \/ name \in DOMAIN Suite /\ program.bytes = Suite[name]
        \/ name = "extra"
    BY DEF Init, Cases
  <2>2. "extra" \notin DOMAIN Suite
    BY DEF Suite
  <2>3. QED
    BY <2>1, <2>2
<1>3. MaxSteps \in Nat
  BY BoundsAssumption
<1> HIDE DEF name
<1>4. ASSUME name \in Travelling PROVE Along(name, 0, shadow, 0)
  <2>1. name \in DOMAIN Suite
    BY <1>4, TravellingBytes
  <2>2. Laid(name, shadow)
    BY <1>1, <1>2, <1>4, <2>1, SuiteImage
  <2>3. shadow.pc = 0 /\ shadow.sp = 0 /\ ~shadow.halted /\ ~shadow.flag.carry
    BY <1>1 DEF Reset, NoFlags
  <2>4. End(name) \in Nat /\ End(name) # 0
    BY <1>4, Journeys
  <2>5. Place(name, 0) = 0
    BY <1>4 DEF Place, Journey, Travelling
  <2>6. StackAt(name, 0) = 0
    BY DEF StackAt
  <2>7. Known(name, 0, shadow, 0)
    BY <2>3 DEF Known, KnowsMoved, KnowsSum, KnowsStored, KnowsReturn, KnowsRotated
  <2>8. QED
    BY <2>2, <2>3, <2>4, <2>5, <2>6, <2>7 DEF Along
<1>5. ASSUME name = "rst_ring" PROVE OnRing(0, m)
  <2>1. "rst_ring" \in DOMAIN Suite
    BY DEF Suite
  <2>2. QED
    BY <1>1, <1>2, <1>5, <2>1, RingImage
<1>6. name = "interrupt_rst" => Requested
  BY <1>1 DEF Requested, name
<1>7. QED
  BY <1>1, <1>3, <1>4, <1>5, <1>6 DEF SuiteRuns, name

\* The handlers nest no deeper than the room they are left.
HandlersFit == 8 * depth <= StackRoom

\* The suite's programs are disciplined.
LEMMA SuiteDisciplined ==
  ASSUME ProgramTypeOK, SuiteRuns, program.name \in Travelling, HandlersFit
  PROVE  Requested \/ Disciplined
<1> DEFINE name == program.name
<1>1. Along(name, steps, shadow, states) /\ name # "rst_ring" /\ shadow \in Machine
  BY TravellingBytes DEF SuiteRuns, ProgramTypeOK
<1>2. shadow.sp \in {0, 65534} /\ Laid(name, shadow)
  BY <1>1 DEF Along, StackAt
<1>3. Serviceable(shadow)
  BY <1>2, LaidServiceable
<1>4. ASSUME ~Requested, ~shadow.halted PROVE Private(shadow)
  <2>1. name = "interrupt_rst" => steps # 0
    BY <1>4 DEF SuiteRuns
  <2> HIDE DEF name
  <2>2. Onward(name, steps, shadow, states)
    BY <1>1, <1>4, <2>1, SuiteOnward DEF name
  <2>3. QED
    BY <2>2 DEF Onward
<1>5. QED
  BY <1>3, <1>4 DEF Disciplined, HandlersFit

LEMMA AlongProgram ==
  ASSUME ProgramTypeOK, InterruptsNest, SuiteRuns, program.name \in Travelling, ProgramStep
  PROVE  SuiteRuns'
<1> DEFINE name == program.name
           d == Step(shadow, EchoInput)
           t == states + StatesOf(shadow, Peek(shadow, shadow.pc))
<1>1. /\ program' = program /\ shadow' = d /\ steps' = steps + 1 /\ states' = t
      /\ clock' = RecordTiming(clock, StatesOf(m, Peek(m, m.pc))) /\ depth = 0 /\ ~Requested /\ ~m.halted
  BY DEF ProgramStep, CanFetch
<1>2. /\ Along(name, steps, shadow, states) /\ name # "rst_ring" /\ shadow \in Machine
      /\ steps \in Nat /\ m \in Machine /\ clock \in Clock
  BY TravellingBytes DEF SuiteRuns, ProgramTypeOK
<1>3. ~shadow.halted /\ (name = "interrupt_rst" => steps # 0)
  BY <1>1 DEF InterruptsNest, SuiteRuns
<1>4. name \in Travelling
  OBVIOUS
<1> HIDE DEF name
<1>5. Onward(name, steps, shadow, states)
  BY <1>2, <1>3, <1>4, SuiteOnward
<1>6. Along(name, steps + 1, d, t)
  BY <1>5 DEF Onward
<1> HIDE DEF d, t
<1>7. StatesOf(m, Peek(m, m.pc)) \in Nat
  BY <1>2, PeekType, StatesType
<1>8. clock'.instructions = clock.instructions + 1 /\ clock.instructions \in Nat
  BY <1>1, <1>2, <1>7, ClockKeeps DEF Clock
<1>9. ~Requested' /\ steps' # 0
  BY <1>1, <1>2, <1>8 DEF Requested
<1>10. Along(name, steps', shadow', states')
  BY <1>1, <1>6
<1>11. program'.name = name
  BY <1>1 DEF name
<1>12. QED
  BY <1>2, <1>9, <1>10, <1>11 DEF SuiteRuns

LEMMA AlongHandler ==
  ASSUME ProgramTypeOK, SuiteRuns, program.name \in Travelling, HandlerStep
  PROVE  SuiteRuns'
<1>1. /\ program' = program /\ shadow' = shadow /\ steps' = steps /\ states' = states
      /\ clock' = RecordTiming(clock, StatesOf(m, Peek(m, m.pc))) /\ ~Requested
  BY DEF HandlerStep, CanFetch
<1>2. m \in Machine /\ clock \in Clock /\ program.name # "rst_ring"
  BY TravellingBytes DEF ProgramTypeOK
<1>3. StatesOf(m, Peek(m, m.pc)) \in Nat
  BY <1>2, PeekType, StatesType
<1>4. clock'.instructions = clock.instructions + 1 /\ clock.instructions \in Nat
  BY <1>1, <1>2, <1>3, ClockKeeps DEF Clock
<1>5. ~Requested'
  BY <1>4 DEF Requested
<1>6. QED
  BY <1>1, <1>2, <1>5 DEF SuiteRuns

LEMMA AlongInterrupt ==
  ASSUME ProgramTypeOK, InterruptsNest, SuiteRuns, program.name \in Travelling, Interrupt
  PROVE  SuiteRuns'
<1>1. /\ program' = program /\ shadow' = [shadow EXCEPT !.halted = FALSE]
      /\ steps' = steps /\ states' = states
      /\ clock' = RecordTiming(clock, StatesOf(m, 255)) /\ ~Requested
      /\ m.halted => program.name = "extra"
  BY DEF Interrupt, CanForce
<1>2. /\ m \in Machine /\ shadow \in Machine /\ clock \in Clock /\ depth \in Nat
      /\ program.name # "rst_ring" /\ program.name # "extra"
  BY TravellingBytes, Journeys DEF ProgramTypeOK
<1>3. ~shadow.halted
  BY <1>1, <1>2 DEF InterruptsNest
<1>4. shadow' = shadow
  BY <1>1, <1>2, <1>3 DEF Machine
<1>5. StatesOf(m, 255) \in Nat
  BY EchoByte, StatesType
<1>6. clock'.instructions = clock.instructions + 1 /\ clock.instructions \in Nat
  BY <1>1, <1>2, <1>5, ClockKeeps DEF Clock
<1>7. ~Requested'
  BY <1>6 DEF Requested
<1>8. QED
  BY <1>1, <1>2, <1>4, <1>7 DEF SuiteRuns

LEMMA AlongOwn ==
  ASSUME ProgramTypeOK, SuiteRuns, OwnInterrupt
  PROVE  SuiteRuns'
<1> DEFINE d == JamOf(m, 207, <<0, 0>>, 0)
           t == states + StatesOf(m, 207)
<1>1. /\ program' = program /\ m' = d /\ shadow' = d /\ steps' = steps + 1 /\ states' = t
      /\ clock' = RecordTiming(clock, StatesOf(m, 207)) /\ Requested
  BY DEF OwnInterrupt
<1>2. program.name = "interrupt_rst" /\ m \in Machine /\ clock \in Clock
  BY <1>1 DEF Requested, ProgramTypeOK
<1>3. steps = 0 /\ m = shadow
  BY <1>1, <1>2 DEF SuiteRuns
<1>4. Along("interrupt_rst", 0, m, states)
  BY <1>2, <1>3, Journeys DEF SuiteRuns
<1>5. Along("interrupt_rst", 1, d, t)
  BY <1>2, <1>4, OwnOnward
<1> HIDE DEF d, t
<1>6. StatesOf(m, 207) \in Nat
  BY EchoByte, StatesType
<1>7. clock'.instructions = clock.instructions + 1 /\ clock.instructions \in Nat
  BY <1>1, <1>2, <1>6, ClockKeeps DEF Clock
<1>8. ~Requested' /\ steps' = 1
  BY <1>1, <1>3, <1>7 DEF Requested
<1>9. program'.name = "interrupt_rst" /\ Along("interrupt_rst", steps', shadow', states')
  BY <1>1, <1>2, <1>5, <1>8
<1>10. QED
  BY <1>8, <1>9 DEF SuiteRuns

LEMMA AlongRing ==
  ASSUME ProgramTypeOK, SuiteRuns, program.name = "rst_ring", ProgramStep,
         2 * MaxSteps + 64 <= 65536
  PROVE  SuiteRuns'
<1> DEFINE d == Step(m, EchoInput)
<1>1. /\ program' = program /\ m' = d /\ shadow' = Step(shadow, EchoInput) /\ steps' = steps + 1
      /\ depth' = 0 /\ steps < MaxSteps
  BY DEF ProgramStep, CanFetch
<1>2. m = shadow /\ OnRing(steps, m) /\ m \in Machine /\ steps \in Nat /\ MaxSteps \in Nat
  BY BoundsAssumption DEF SuiteRuns, ProgramTypeOK
<1>3. 2 * steps + 66 <= 65536 /\ steps + 1 <= MaxSteps
  BY <1>1, <1>2
<1>4. OnRing(steps + 1, d)
  BY <1>2, <1>3, RoundTheRing
<1> HIDE DEF d
<1>5. m' = shadow'
  BY <1>1, <1>2 DEF d
<1>6. OnRing(steps', m') /\ steps' <= MaxSteps
  BY <1>1, <1>3, <1>4
<1>7. program'.name = "rst_ring" /\ "rst_ring" \notin Travelling
  BY <1>1, Journeys
<1>8. QED
  BY <1>1, <1>5, <1>6, <1>7 DEF SuiteRuns

\* The inductive invariant, for the programs of the suite.
SuiteGoesOn == SuiteRuns /\ (program.name \in Travelling => InterruptsNest)

LEMMA SuiteNext ==
  ASSUME ProgramTypeOK, SuiteGoesOn, HandlersFit, HandlersFit', 2 * MaxSteps + 64 <= 65536,
         [Next]_progVars
  PROVE  SuiteGoesOn'
<1>1. SuiteRuns /\ (program.name \in Travelling => InterruptsNest)
  BY DEF SuiteGoesOn
<1>2. program' = program
  BY DEF Next, ProgramStep, HandlerStep, Interrupt, OwnInterrupt, Wait, progVars
<1>3. program.name \in Travelling => InterruptsNest'
  BY <1>1, SuiteDisciplined, NestNext DEF HandlersFit
<1>4. SUFFICES SuiteRuns'
  BY <1>2, <1>3 DEF SuiteGoesOn
<1>5. CASE /\ m' = m /\ shadow' = shadow /\ depth' = depth /\ steps' = steps /\ states' = states
           /\ clock'.instructions = clock.instructions
  <2>1. Requested' <=> Requested
    BY <1>2, <1>5 DEF Requested
  <2>2. QED
    BY <1>1, <1>2, <1>5, <2>1 DEF SuiteRuns
<1>6. ASSUME NEW what \in {"fetched", "forced"}, Wait(what)
      PROVE  /\ m' = m /\ shadow' = shadow /\ depth' = depth /\ steps' = steps
             /\ states' = states /\ clock'.instructions = clock.instructions
  <2>1. clock' = RecordWaitState(clock) /\ clock \in Clock /\ 0 \in Nat
    BY <1>6 DEF Wait, ProgramTypeOK
  <2>2. clock'.instructions = clock.instructions
    BY <2>1, ClockKeeps
  <2>3. QED
    BY <1>6, <2>2 DEF Wait
<1>7. CASE UNCHANGED progVars
  BY <1>5, <1>7 DEF progVars
<1>8. CASE program.name \in Travelling /\ Next
  <2>1. CASE ProgramStep
    BY <1>1, <1>8, <2>1, AlongProgram
  <2>2. CASE HandlerStep
    BY <1>1, <1>8, <2>2, AlongHandler
  <2>3. CASE Interrupt
    BY <1>1, <1>8, <2>3, AlongInterrupt
  <2>4. CASE OwnInterrupt
    BY <1>1, <1>8, <2>4, AlongOwn
  <2>5. QED
    BY <1>5, <1>6, <1>8, <2>1, <2>2, <2>3, <2>4 DEF Next
<1>9. CASE program.name = "rst_ring" /\ Next
  <2>1. "rst_ring" \notin Travelling /\ depth = 0
    BY <1>1, <1>9, Journeys DEF SuiteRuns
  <2>2. ~HandlerStep /\ ~Interrupt /\ ~OwnInterrupt
    BY <1>9, <2>1 DEF HandlerStep, Interrupt, CanForce, OwnInterrupt, Requested
  <2>3. CASE ProgramStep
    BY <1>1, <1>9, <2>3, AlongRing
  <2>4. QED
    BY <1>5, <1>6, <1>9, <2>2, <2>3 DEF Next
<1>10. CASE program.name \notin Travelling /\ program.name # "rst_ring"
  BY <1>2, <1>10, Journeys DEF SuiteRuns
<1>11. QED
  BY <1>7, <1>8, <1>9, <1>10

LEMMA AtTheEnd ==
  ASSUME NEW case \in Travelling, NEW h \in Machine, NEW t, Along(case, End(case), h, t),
         NEW c, c.reg = h.reg, c.flag = h.flag, c.pc = h.pc, c.sp = h.sp,
         Agree(Own(h), h.mem, c.mem)
  PROVE  Verdict(case, c, t)
<1> DEFINE n == End(case)
<1>1. h.pc = Place(case, n) /\ h.sp = StackAt(case, n) /\ Known(case, n, h, t) /\ Laid(case, h)
  BY DEF Along
<1>2. h.sp \in {0, 65534}
  BY <1>1 DEF StackAt
<1>3. 256 \in DOMAIN h.mem => Peek(c, 256) = Peek(h, 256)
  <2>1. 256 \in Ground /\ 256 \notin {65534, 65535}
    BY DEF Ground
  <2>2. ~FreeStack(h, 256)
    BY <1>2, <2>1, ApartFrom
  <2>3. 256 \in DOMAIN h.mem => 256 \in Own(h)
    BY <2>2 DEF Own
  <2>4. QED
    BY <2>3 DEF Agree, Peek
<1>4. h.sp = 65534 /\ 65534 \in DOMAIN h.mem => Peek(c, 65534) = Peek(h, 65534)
  <2>1. SUFFICES ASSUME h.sp = 65534, 65534 \in DOMAIN h.mem
                 PROVE  Peek(c, 65534) = Peek(h, 65534)
    OBVIOUS
  <2>2. 65534 \in Ground
    BY DEF Ground
  <2>3. ~FreeStack(h, 65534)
    BY <1>2, <2>1, <2>2, ApartFrom
  <2>4. 65534 \in Own(h)
    BY <2>1, <2>3 DEF Own
  <2>5. QED
    BY <2>4 DEF Agree, Peek
<1>5. CASE case = "load_move"
  <2>1. KnowsMoved(3, h)
    BY <1>1, <1>5, Journeys, KnownAre
  <2>2. QED
    BY <1>5, <2>1 DEF KnowsMoved, Verdict
<1>6. CASE case = "alu_flags"
  <2>1. KnowsSum(3, h)
    BY <1>1, <1>6, Journeys, KnownAre
  <2>2. QED
    BY <1>6, <2>1 DEF KnowsSum, Verdict, AllButSign
<1>7. CASE case = "memory_indirect"
  <2>1. KnowsStored(4, h)
    BY <1>1, <1>7, Journeys, KnownAre
  <2>2. c.reg[RegA] = 165 /\ Peek(c, 256) = 165
    BY <1>3, <2>1 DEF KnowsStored
  <2>3. QED
    BY <1>7, <2>2 DEF Verdict
<1>8. CASE case = "call_return"
  <2>1. KnowsReturn(4, h) /\ n = 4
    BY <1>1, <1>8, Journeys, KnownAre
  <2>2. c.reg[RegA] = 66
    BY <2>1 DEF KnowsReturn
  <2>3. Place("call_return", 4) = 4 /\ StackAt("call_return", 4) = 0
    BY DEF Place, Journey, StackAt
  <2>4. QED
    BY <1>1, <1>8, <2>1, <2>2, <2>3 DEF Verdict
<1>9. CASE case = "conditional_jump_taken"
  <2>1. Place("conditional_jump_taken", 2) = 7
    BY DEF Place, Journey
  <2>2. QED
    BY <1>1, <1>9, <2>1, Journeys DEF Verdict
<1>10. CASE case = "conditional_call_not_taken"
  <2>1. n = 2 /\ t = IF n = 0 THEN 0 ELSE IF n = 1 THEN 11 ELSE 18
    BY <1>1, <1>10, Journeys, KnownAre
  <2>2. QED
    BY <1>10, <2>1 DEF Verdict
<1>11. CASE case = "rotate_carry"
  <2>1. KnowsRotated(3, h)
    BY <1>1, <1>11, Journeys, KnownAre
  <2>2. QED
    BY <1>11, <2>1 DEF KnowsRotated, Verdict
<1>12. CASE case = "io_echo"
  <2>1. n = 3 /\ (n >= 1 => h.reg[RegA] = EchoInput)
    BY <1>1, <1>12, Journeys, KnownAre
  <2>2. QED
    BY <1>12, <2>1 DEF Verdict
<1>13. CASE case = "interrupt_rst"
  <2>1. n = 2 /\ (n >= 1 => 65534 \in DOMAIN h.mem /\ Peek(h, 65534) = 0)
    BY <1>1, <1>13, Journeys, KnownAre
  <2>2. Place("interrupt_rst", 2) = 9 /\ StackAt("interrupt_rst", 2) = 65534
    BY DEF Place, Journey, StackAt
  <2>3. c.sp = 65534 /\ Peek(c, 65534) = 0 /\ c.pc = 9
    BY <1>1, <1>4, <1>13, <2>1, <2>2
  <2>4. QED
    BY <1>13, <2>3 DEF Verdict
<1>14. QED
  BY <1>5, <1>6, <1>7, <1>8, <1>9, <1>10, <1>11, <1>12, <1>13, Journeys

LEMMA SuiteJudged ==
  ASSUME ProgramTypeOK, SuiteGoesOn
  PROVE  SuiteVerdicts
<1>1. SuiteRuns /\ (program.name \in Travelling => InterruptsNest)
  BY DEF SuiteGoesOn
<1> SUFFICES ASSUME (depth = 0 /\ m.halted) \/ (program.name = "rst_ring" /\ steps = 8)
             PROVE  Verdict(program.name, m, states)
  BY DEF SuiteVerdicts
<1>2. CASE program.name \in Travelling
  <2> DEFINE name == program.name
  <2>1. name # "rst_ring"
    BY <1>2, TravellingBytes
  <2>2. depth = 0 /\ m.halted
    BY <2>1
  <2>3. shadow \in Machine /\ shadow.halted /\ Agree(Own(shadow), shadow.mem, m.mem)
    BY <1>1, <1>2, <2>2 DEF InterruptsNest, ProgramTypeOK
  <2>4. PICK f : Nested(f, 0, shadow, m, states, steps, CpuTime, CpuCount)
    BY <1>1, <1>2, <2>2 DEF InterruptsNest
  <2>5. m.reg = shadow.reg /\ m.flag = shadow.flag /\ m.pc = shadow.pc /\ m.sp = shadow.sp
    BY <2>3, <2>4, NoneNested
  <2>6. Along(name, End(name), shadow, states)
    BY <1>1, <1>2, <2>3 DEF SuiteRuns, Along
  <2>7. name \in Travelling
    BY <1>2
  <2> HIDE DEF name
  <2>8. Verdict(name, m, states)
    BY <2>3, <2>5, <2>6, <2>7, AtTheEnd
  <2>9. QED
    BY <2>8 DEF name
<1>3. CASE program.name = "rst_ring"
  <2>1. ~m.halted /\ m.sp = RingTop(steps)
    BY <1>1, <1>3 DEF SuiteRuns, OnRing
  <2>2. steps = 8
    BY <2>1
  <2>3. m.sp = 65520
    BY <2>1, <2>2 DEF RingTop
  <2>4. QED
    BY <1>3, <2>3 DEF Verdict
<1>4. CASE program.name = "extra"
  BY <1>4 DEF Verdict
<1>5. program.name \in Travelling \/ program.name = "rst_ring" \/ program.name = "extra"
  <2>1. program.name \in DOMAIN Suite \/ program.name = "extra"
    BY DEF ProgramTypeOK, Cases
  <2>2. DOMAIN Suite = {"load_move", "alu_flags", "memory_indirect", "call_return",
                        "conditional_jump_taken", "conditional_call_not_taken",
                        "rotate_carry", "io_echo", "interrupt_rst", "rst_ring"}
    BY DEF Suite
  <2>3. QED
    BY <2>1, <2>2, Journeys
<1>6. QED
  BY <1>2, <1>3, <1>4, <1>5

\* Every case of the suite ends as its Verify expects, however many interrupts and wait states
\* come and wherever they do, as long as the handlers nest no deeper than the room they are
\* left: the programs of the suite need not be assumed disciplined, they are.  The bound
\* keeps the ring, whose case ends after 8 steps, from pushing its way into itself
\* (synthetic.go:11-121).
THEOREM SuiteVerdictsHold ==
  ASSUME 2 * MaxSteps + 64 <= 65536
  PROVE  Spec /\ []HandlersFit => []SuiteVerdicts
<1>1. Init => SuiteGoesOn
  BY SuiteInit, NestInit DEF SuiteGoesOn
<1>2. /\ ProgramTypeOK /\ SuiteGoesOn /\ HandlersFit /\ HandlersFit' /\ [Next]_progVars
        => SuiteGoesOn'
  BY SuiteNext
<1>3. ProgramTypeOK /\ SuiteGoesOn => SuiteVerdicts
  BY SuiteJudged
<1>4. QED
  BY <1>1, <1>2, <1>3, WaitStatesCharged, PTL DEF Spec
===========================================================================
