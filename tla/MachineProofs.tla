---------------------------- MODULE MachineProofs ----------------------------
(***************************************************************************)
(* Facts about Cpu8080, for every machine, that the proofs about           *)
(* instructions (CpuProofs) and about programs (ProgramProofs) rest on.    *)
(*                                                                         *)
(* An opcode is known by its three octal digits, so no two arms of Execute *)
(* apply to it.  Each arm maps a well-formed machine to a well-formed one, *)
(* and Calm and Leaping say what it leaves alone, where control goes and   *)
(* which bus cycles it adds.                                               *)
(***************************************************************************)
EXTENDS Cpu8080, FiniteSetTheorems, SequenceTheorems, TLAPS

\* A well-formed machine.
Machine == [reg : [Register -> Byte], flag : Flags, pc : Word, sp : Word, halted : BOOLEAN,
            enabled : BOOLEAN, mem : Memory, bus : Seq(Cycle),
                error : {"nil", "unimplemented", "stopped"}]

\* Words and bytes by inequalities, which the provers take better than a range.
LEMMA WordIs == \A w : w \in Word <=> w \in Int /\ 0 <= w /\ w <= 65535
<1>1. MaxWord \in Nat
  BY DEF MaxWord
<1>2. \A w : w \in Word <=> w \in Int /\ 0 <= w /\ w <= MaxWord
  BY <1>1 DEF Word
<1>3. QED
  BY <1>2 DEF MaxWord

LEMMA ByteIs == \A w : w \in Byte <=> w \in Int /\ 0 <= w /\ w <= 255
<1>1. \A n \in Nat : \A w : w \in 0 .. n <=> w \in Int /\ 0 <= w /\ w <= n
  OBVIOUS
<1>2. 255 \in Nat
  OBVIOUS
<1>3. QED
  BY <1>1, <1>2, Zenon DEF Byte

\* An opcode is its octal digits.
LEMMA Octal ==
  ASSUME NEW k \in Byte
  PROVE  /\ X(k) \in 0 .. 3 /\ Y(k) \in 0 .. 7 /\ Z(k) \in 0 .. 7
         /\ k = 64 * X(k) + 8 * Y(k) + Z(k)
BY DEF Byte, X, Y, Z

LEMMA DigitsOf ==
  ASSUME NEW k \in Byte, NEW x \in 0 .. 3, NEW ys \in SUBSET (0 .. 7), NEW z \in 0 .. 7
  PROVE  k \in Digits(x, ys, z) <=> X(k) = x /\ Y(k) \in ys /\ Z(k) = z
<1>1. ASSUME NEW y \in 0 .. 7, k = 64 * x + 8 * y + z
      PROVE  X(k) = x /\ Y(k) = y /\ Z(k) = z
  BY <1>1 DEF X, Y, Z
<1>2. QED
  BY <1>1, Octal DEF Digits

\* The families of opcodes by these digits: k is in at most one of them.
Families(k) ==
  /\ k \in MVI <=> X(k) = 0 /\ Z(k) = 6
  /\ k \in LXI <=> X(k) = 0 /\ Z(k) = 1 /\ Y(k) \in Even
  /\ k \in DAD <=> X(k) = 0 /\ Z(k) = 1 /\ Y(k) \in Odd
  /\ k \in INX <=> X(k) = 0 /\ Z(k) = 3 /\ Y(k) \in Even
  /\ k \in DCX <=> X(k) = 0 /\ Z(k) = 3 /\ Y(k) \in Odd
  /\ k \in INR <=> X(k) = 0 /\ Z(k) = 4
  /\ k \in DCR <=> X(k) = 0 /\ Z(k) = 5
  /\ k \in MOV <=> X(k) = 1 /\ k # HLT
  /\ k \in ALUReg <=> X(k) = 2
  /\ k \in ALUImm <=> X(k) = 3 /\ Z(k) = 6
  /\ k \in Jcc <=> X(k) = 3 /\ Z(k) = 2
  /\ k \in Ccc <=> X(k) = 3 /\ Z(k) = 4
  /\ k \in Rcc <=> X(k) = 3 /\ Z(k) = 0
  /\ k \in RST <=> X(k) = 3 /\ Z(k) = 7
  /\ k \in POP <=> X(k) = 3 /\ Z(k) = 1 /\ Y(k) \in Even
  /\ k \in PUSH <=> X(k) = 3 /\ Z(k) = 5 /\ Y(k) \in Even
  /\ k \in Unassigned <=> \/ X(k) = 0 /\ Z(k) = 0 /\ Y(k) # 0
                          \/ k \in {203, 217, 221, 237, 253}

LEMMA FamilyOf == ASSUME NEW k \in Byte PROVE Families(k)
<1>1. \A x \in 0 .. 3, z \in 0 .. 7 : 
        /\ k \in Digits(x, 0 .. 7, z) <=> X(k) = x /\ Z(k) = z
        /\ k \in Digits(x, 1 .. 7, z) <=> X(k) = x /\ Z(k) = z /\ Y(k) # 0
        /\ k \in Digits(x, Even, z) <=> X(k) = x /\ Z(k) = z /\ Y(k) \in Even
        /\ k \in Digits(x, Odd, z) <=> X(k) = x /\ Z(k) = z /\ Y(k) \in Odd
  BY DigitsOf, Octal DEF Even, Odd
<1>2. QED
  BY <1>1, Octal DEF Families, MVI, LXI, DAD, INX, DCX, INR, DCR, MOV, ALUReg, ALUImm, Jcc, Ccc,
     Rcc, RST, POP, PUSH, Unassigned, HLT
---------------------------------------------------------------------------
(* What the helpers keep.                                                  *)

\* d is well-formed, and control is where it was in c.
Kept(c, d) ==
  /\ d \in Machine
  /\ d.pc = c.pc /\ d.halted = c.halted /\ d.error = c.error

LEMMA PeekType == ASSUME NEW c \in Machine, NEW a PROVE Peek(c, a) \in Byte
<1>1. PICK S \in SUBSET Word : c.mem \in [S -> Byte]
  BY DEF Machine, Memory
<1>2. QED
  BY <1>1, ByteIs DEF Peek

LEMMA Parts ==
  ASSUME NEW w \in Word
  PROVE  High(w) \in Byte /\ Low(w) \in Byte /\ Compose(High(w), Low(w)) = w
BY WordIs, ByteIs DEF High, Low, Compose

LEMMA Composed ==
  ASSUME NEW a \in Byte, NEW b \in Byte
  PROVE  Compose(a, b) \in Word /\ High(Compose(a, b)) = a /\ Low(Compose(a, b)) = b
BY WordIs, ByteIs DEF High, Low, Compose

LEMMA NextIs == ASSUME NEW w \in Word PROVE Next16(w) = IF w = 65535 THEN 0 ELSE w + 1
BY WordIs DEF Next16
LEMMA PreviousIs == ASSUME NEW w \in Word PROVE Previous16(w) = IF w = 0 THEN 65535 ELSE w - 1
BY WordIs DEF Previous16
LEMMA Counting ==
  ASSUME NEW w \in Word
  PROVE  /\ Next16(w) \in Word /\ Previous16(w) \in Word
         /\ Next16(Previous16(w)) = w /\ Previous16(Next16(w)) = w
         /\ Next16(w) # w /\ Previous16(w) # w /\ Next16(Next16(w)) # w
         /\ Previous16(w) # Previous16(Previous16(w))
BY NextIs, PreviousIs, WordIs

LEMMA LogKeeps ==
  ASSUME NEW c \in Machine, NEW y \in Cycle
  PROVE  /\ Kept(c, Log(c, y))
         /\ Log(c, y).reg = c.reg /\ Log(c, y).flag = c.flag /\ Log(c, y).sp = c.sp
         /\ Log(c, y).mem = c.mem /\ Log(c, y).bus = Append(c.bus, y)
BY DEF Machine, Kept, Log

LEMMA LogPeek ==
  ASSUME NEW c \in Machine, NEW y \in Cycle, NEW a
  PROVE  Peek(Log(c, y), a) = Peek(c, a)
BY LogKeeps DEF Peek

LEMMA StoreKeeps ==
  ASSUME NEW c \in Machine, NEW a \in Word, NEW v \in Byte, NEW y \in Cycle
  PROVE  /\ Kept(c, Store(c, a, v, y))
         /\ Store(c, a, v, y).reg = c.reg /\ Store(c, a, v, y).flag = c.flag
         /\ Store(c, a, v, y).sp = c.sp /\ Store(c, a, v, y).bus = Append(c.bus, y)
         /\ \A b : Peek(Store(c, a, v, y), b) = IF b = a THEN v ELSE Peek(c, b)
<1> DEFINE mem == [b \in DOMAIN c.mem \cup {a} |-> IF b = a THEN v ELSE c.mem[b]]
           d == [c EXCEPT !.mem = mem]
<1>1. PICK S \in SUBSET Word : c.mem \in [S -> Byte]
  BY DEF Machine, Memory
<1>2. mem \in [S \cup {a} -> Byte]
  BY <1>1
<1>3. mem \in Memory
  BY <1>2 DEF Memory
<1>4. /\ d \in Machine /\ d.reg = c.reg /\ d.flag = c.flag /\ d.sp = c.sp /\ d.bus = c.bus
      /\ d.pc = c.pc /\ d.halted = c.halted /\ d.error = c.error /\ d.mem = mem
  <2> HIDE DEF mem
  <2> QED BY <1>3 DEF Machine
<1>5. Store(c, a, v, y) = Log(d, y)
  BY DEF Store
<1>6. \A b : Peek(d, b) = IF b = a THEN v ELSE Peek(c, b)
  BY <1>4, <1>1 DEF Peek
<1> HIDE DEF d, mem
<1>7. QED
  BY <1>4, <1>5, <1>6, LogKeeps, LogPeek DEF Kept

LEMMA PairType == ASSUME NEW c \in Machine, NEW p \in 0 .. 3 PROVE Pair(c, p) \in Word
<1>1. p # 3 => 2 * p \in Register /\ 2 * p + 1 \in Register
  BY DEF Register, RegM
<1>2. QED
  BY <1>1, Parts, Composed DEF Pair, PairSP, Machine

LEMMA HLType == ASSUME NEW c \in Machine PROVE HL(c) \in Word /\ HL(c) = Pair(c, 2)
<1>1. HL(c) = Pair(c, 2)
  BY DEF HL, Pair, PairSP, RegH, RegL
<1>2. QED
  BY <1>1, PairType

LEMMA SetPairKeeps ==
  ASSUME NEW c \in Machine, NEW p \in 0 .. 3, NEW w \in Word
  PROVE  /\ Kept(c, SetPair(c, p, w))
         /\ SetPair(c, p, w).flag = c.flag /\ SetPair(c, p, w).bus = c.bus
         /\ SetPair(c, p, w).mem = c.mem /\ SetPair(c, p, w).reg[RegA] = c.reg[RegA]
         /\ Pair(SetPair(c, p, w), p) = w
         /\ \A q \in 0 .. 3 : q # p => Pair(SetPair(c, p, w), q) = Pair(c, q)
         /\ p # 3 => SetPair(c, p, w).sp = c.sp
<1>1. CASE p = 3
  BY <1>1 DEF SetPair, PairSP, Pair, Kept, Machine
<1>2. CASE p # 3
  <2> DEFINE reg == [[c.reg EXCEPT ![2 * p] = High(w)] EXCEPT ![2 * p + 1] = Low(w)]
             d == SetPair(c, p, w)
  <2>1. reg \in [Register -> Byte] /\ reg[RegA] = c.reg[RegA]
    BY <1>2, Parts, Composed DEF Register, RegM, RegA, Machine
  <2>2. /\ d.reg = reg /\ d.flag = c.flag /\ d.bus = c.bus /\ d.mem = c.mem /\ d.sp = c.sp
        /\ d.pc = c.pc /\ d.halted = c.halted /\ d.error = c.error
    BY <1>2 DEF SetPair, PairSP, Machine
  <2>3. d \in Machine
    BY <1>2, Parts, Composed DEF SetPair, PairSP, Machine, Register, RegM
  <2>4. reg[2 * p] = High(w) /\ reg[2 * p + 1] = Low(w)
    BY <1>2 DEF Register, RegM, Machine
  <2>5. ASSUME NEW q \in 0 .. 2, q # p
        PROVE  reg[2 * q] = c.reg[2 * q] /\ reg[2 * q + 1] = c.reg[2 * q + 1]
    BY <1>2, <2>5 DEF Register, RegM, Machine
  <2> HIDE DEF reg, d
  <2>6. Pair(d, p) = w
    BY <1>2, <2>2, <2>4, Parts, Composed DEF Pair, PairSP
  <2>7. ASSUME NEW q \in 0 .. 3, q # p PROVE Pair(d, q) = Pair(c, q)
    <3>1. CASE q = 3
      BY <3>1, <2>2 DEF Pair, PairSP
    <3>2. CASE q # 3
      BY <3>2, <2>2, <2>5, <2>7 DEF Pair, PairSP
    <3>3. QED
      BY <3>1, <3>2
  <2>8. QED
    BY <1>2, <2>1, <2>2, <2>3, <2>6, <2>7 DEF Kept, d
<1>3. QED
  BY <1>1, <1>2

LEMMA SetPairRegisters ==
  ASSUME NEW c \in Machine, NEW p \in 0 .. 3, NEW w \in Word
  PROVE  /\ SetPair(c, p, w).reg =
              IF p = 3 THEN c.reg ELSE [c.reg EXCEPT ![2 * p] = High(w), ![2 * p + 1] = Low(w)]
         /\ SetPair(c, p, w).sp = IF p = 3 THEN w ELSE c.sp
BY DEF SetPair, PairSP, Machine

LEMMA SetAKeeps ==
  ASSUME NEW c \in Machine, NEW v \in Byte
  PROVE  /\ Kept(c, SetA(c, v)) /\ SetA(c, v).bus = c.bus /\ SetA(c, v).mem = c.mem
         /\ SetA(c, v).flag = c.flag /\ SetA(c, v).sp = c.sp
BY DEF SetA, Kept, Machine, Register, RegM, RegA

LEMMA SetARegisters ==
  ASSUME NEW c \in Machine, NEW v
  PROVE  SetA(c, v).reg = [c.reg EXCEPT ![RegA] = v]
BY DEF SetA, Machine

LEMMA SetFlagsKeeps ==
  ASSUME NEW c \in Machine, NEW f \in Flags
  PROVE  LET d == [c EXCEPT !.flag = f]
         IN  /\ Kept(c, d) /\ d.bus = c.bus /\ d.mem = c.mem /\ d.reg = c.reg /\ d.sp = c.sp
             /\ d.flag = f
BY DEF Kept, Machine

LEMMA TouchKeeps ==
  ASSUME NEW c \in Machine, NEW r \in 0 .. 7
  PROVE  /\ Kept(c, Touch(c, r)) /\ Touch(c, r).reg = c.reg /\ Touch(c, r).flag = c.flag
         /\ Touch(c, r).bus = IF r = RegM THEN Append(c.bus, "MR") ELSE c.bus
BY LogKeeps DEF Touch, Cycle, Kept

LEMMA GetType ==
  ASSUME NEW c \in Machine, NEW r \in 0 .. 7
  PROVE  Get(c, r) \in Byte
BY PeekType DEF Get, Machine, Register

LEMMA SetKeeps ==
  ASSUME NEW c \in Machine, NEW r \in 0 .. 7, NEW v \in Byte
  PROVE  /\ Kept(c, Set(c, r, v)) /\ Set(c, r, v).flag = c.flag
         /\ Get(Set(c, r, v), r) = v
         /\ Set(c, r, v).bus = IF r = RegM THEN Append(c.bus, "MW") ELSE c.bus
<1>1. CASE r = RegM
  BY <1>1, StoreKeeps, HLType DEF Set, Get, HL, Cycle
<1>2. CASE r # RegM
  <2>1. r \in Register
    BY <1>2 DEF Register
  <2>2. QED
    BY <1>2, <2>1 DEF Set, Get, Kept, Machine
<1>3. QED
  BY <1>1, <1>2
---------------------------------------------------------------------------
(* The arithmetic returns bytes and flags.                                 *)

LEMMA AddType ==
  ASSUME NEW a \in Byte, NEW b \in Byte, NEW cy \in {0, 1}
  PROVE  NativeAdd(a, b, cy).out \in Byte /\ NativeAdd(a, b, cy).flags \in Flags
<1>1. (a + b + cy) % 256 \in Byte
  BY ByteIs
<1>2. QED
  BY <1>1 DEF NativeAdd, ResultFlags, Flags, CarryInto, Differ, ParityEven

LEMMA SubType ==
  ASSUME NEW a \in Byte, NEW b \in Byte, NEW cy \in {0, 1}
  PROVE  NativeSub(a, b, cy).out \in Byte /\ NativeSub(a, b, cy).flags \in Flags
<1> DEFINE sum == NativeAdd(a, Complement(b), 1 - cy)
<1>1. Complement(b) \in Byte /\ 1 - cy \in {0, 1}
  BY ByteIs DEF Complement
<1>2. sum.out \in Byte /\ sum.flags \in Flags
  BY <1>1, AddType
<1>3. sum = [out |-> sum.out, flags |-> sum.flags]
  BY DEF NativeAdd
<1>4. NativeSub(a, b, cy) = [sum EXCEPT !.flags.carry = ~@]
  BY DEF NativeSub
<1> HIDE DEF sum
<1>5. /\ NativeSub(a, b, cy).out = sum.out
      /\ NativeSub(a, b, cy).flags = [sum.flags EXCEPT !.carry = ~@]
  BY <1>3, <1>4
<1>6. QED
  BY <1>2, <1>5 DEF Flags

LEMMA FromBitsType == ASSUME NEW S PROVE FromBits(S) \in Byte
<1>1. FromBits(S) \in Int /\ 0 <= FromBits(S) /\ FromBits(S) <= 255
  BY DEF FromBits, Part
<1>2. QED
  BY <1>1, ByteIs

LEMMA LogicType ==
  ASSUME NEW group \in {"ANA", "XRA", "ORA"}, NEW a \in Byte, NEW b \in Byte
  PROVE  NativeLogic(group, a, b).out \in Byte /\ NativeLogic(group, a, b).flags \in Flags
<1>1. NativeLogic(group, a, b).out \in Byte
  BY FromBitsType DEF NativeLogic
<1>2. NativeLogic(group, a, b).flags \in Flags
  BY DEF NativeLogic, ResultFlags, Flags, ParityEven
<1>3. QED
  BY <1>1, <1>2

LEMMA ALUType ==
  ASSUME NEW group \in Group, NEW a \in Byte, NEW b \in Byte, NEW cy \in BOOLEAN
  PROVE  ALU(group, a, b, cy).out \in Byte /\ ALU(group, a, b, cy).flags \in Flags
<1>1. AsBit(cy) \in {0, 1} /\ 0 \in {0, 1}
  BY DEF AsBit
<1>2. CASE group = "ADD"
  BY <1>1, <1>2, AddType DEF ALU
<1>3. CASE group = "ADC"
  BY <1>1, <1>3, AddType DEF ALU
<1>4. CASE group = "SBB"
  BY <1>1, <1>4, SubType DEF ALU
<1>5. CASE group \in {"SUB", "CMP"}
  BY <1>1, <1>5, SubType DEF ALU
<1>6. CASE group \in {"ANA", "XRA", "ORA"}
  BY <1>6, LogicType DEF ALU
<1>7. QED
  BY <1>2, <1>3, <1>4, <1>5, <1>6 DEF Group

---------------------------------------------------------------------------
(* What the larger operations keep.                                        *)

LEMMA GroupType == ASSUME NEW k \in Byte PROVE GroupOf(k) \in Group
<1>1. Y(k) \in 0 .. 7
  BY Octal
<1>2. QED
  BY <1>1 DEF GroupOf, Group

LEMMA ArithmeticKeeps ==
  ASSUME NEW c \in Machine, NEW group \in Group, NEW v \in Byte
  PROVE  Kept(c, Arithmetic(c, group, v)) /\ Arithmetic(c, group, v).bus = c.bus
<1> DEFINE r == ALU(group, c.reg[RegA], v, c.flag.carry)
           flagged == [c EXCEPT !.flag = r.flags]
<1>1. c.reg[RegA] \in Byte /\ c.flag.carry \in BOOLEAN
  BY DEF Machine, Register, RegA, RegM, Flags
<1>2. r.out \in Byte /\ r.flags \in Flags
  BY <1>1, ALUType
<1> HIDE DEF r
<1>3. Kept(c, flagged) /\ flagged.bus = c.bus
  BY <1>2, SetFlagsKeeps
<1>4. Arithmetic(c, group, v) = IF group = "CMP" THEN flagged ELSE SetA(flagged, r.out)
  BY DEF Arithmetic, r
<1> HIDE DEF flagged
<1>5. Kept(flagged, SetA(flagged, r.out)) /\ SetA(flagged, r.out).bus = flagged.bus
  <2>1. flagged \in Machine
    BY <1>3 DEF Kept
  <2>2. QED
    BY <1>2, <2>1, SetAKeeps
<1>6. QED
  BY <1>3, <1>4, <1>5 DEF Kept

LEMMA Step1Keeps ==
  ASSUME NEW c \in Machine, NEW r \in 0 .. 7, NEW group \in Group
  PROVE  /\ Kept(c, Step1(c, r, group))
         /\ Step1(c, r, group).bus =
              IF r = RegM THEN Append(Append(c.bus, "MR"), "MW") ELSE c.bus
<1> DEFINE step == ALU(group, Get(c, r), 1, FALSE)
           f == [step.flags EXCEPT !.carry = c.flag.carry]
           flagged == [Touch(c, r) EXCEPT !.flag = f]
<1>1. Get(c, r) \in Byte /\ 1 \in Byte /\ FALSE \in BOOLEAN
  BY GetType, ByteIs
<1>2. step.out \in Byte /\ step.flags \in Flags
  BY <1>1, ALUType
<1> HIDE DEF step
<1>3. f \in Flags
  BY <1>2 DEF Flags, Machine
<1> HIDE DEF f
<1>4. /\ Kept(c, flagged)
      /\ flagged.bus = IF r = RegM THEN Append(c.bus, "MR") ELSE c.bus
  BY <1>3, TouchKeeps, SetFlagsKeeps DEF Kept
<1>5. Step1(c, r, group) = Set(flagged, r, step.out)
  BY DEF Step1, flagged, f, step
<1> HIDE DEF flagged
<1>6. /\ Kept(flagged, Set(flagged, r, step.out))
      /\ Set(flagged, r, step.out).bus =
           IF r = RegM THEN Append(flagged.bus, "MW") ELSE flagged.bus
  <2>1. flagged \in Machine
    BY <1>4 DEF Kept
  <2>2. QED
    BY <1>2, <2>1, SetKeeps
<1>7. QED
  BY <1>4, <1>5, <1>6 DEF Kept

LEMMA AddToHLKeeps ==
  ASSUME NEW c \in Machine, NEW w \in Word
  PROVE  Kept(c, AddToHL(c, w)) /\ AddToHL(c, w).bus = c.bus
<1> DEFINE sum == Add16(HL(c), w)
           d == SetPair(c, 2, sum.out)
<1>1. sum.out \in Word /\ sum.carry \in BOOLEAN
  BY HLType, WordIs DEF Add16
<1> HIDE DEF sum
<1>2. Kept(c, d) /\ d.bus = c.bus
  <2>1. \A s \in Word : Kept(c, SetPair(c, 2, s)) /\ SetPair(c, 2, s).bus = c.bus
    BY SetPairKeeps
  <2>2. QED
    BY <1>1, <2>1
<1>3. AddToHL(c, w) = [d EXCEPT !.flag.carry = sum.carry]
  BY DEF AddToHL, sum
<1> DEFINE f == [d.flag EXCEPT !.carry = sum.carry]
<1> HIDE DEF d
<1>4. f \in Flags
  BY <1>1, <1>2 DEF Kept, Machine, Flags
<1>5. AddToHL(c, w) = [d EXCEPT !.flag = f]
  BY <1>3
<1> HIDE DEF f
<1>6. QED
  BY <1>2, <1>4, <1>5, SetFlagsKeeps DEF Kept

LEMMA AdjustAKeeps ==
  ASSUME NEW c \in Machine
  PROVE  Kept(c, AdjustA(c)) /\ AdjustA(c).bus = c.bus
<1> DEFINE a == c.reg[RegA]
           high == a > 153 \/ c.flag.carry
           low == a % 16 > 9 \/ c.flag.aux
           v == (IF low THEN 6 ELSE 0) + (IF high THEN 96 ELSE 0)
           sum == ALU("ADD", a, v, FALSE)
           r == DecimalAdjust(a, c.flag)
           d == SetA(c, r.out)
<1>1. a \in Byte /\ c.flag \in Flags /\ "ADD" \in Group
  BY DEF Machine, Register, RegA, RegM, Group
<1>2. v \in Byte
  BY ByteIs
<1>3. sum.out \in Byte /\ sum.flags \in Flags
  <2> HIDE DEF v, a
  <2> QED BY <1>1, <1>2, ALUType
<1>4. sum = [out |-> sum.out, flags |-> sum.flags]
  BY DEF ALU, NativeAdd
<1>5. r = [sum EXCEPT !.flags.carry = high \/ @]
  BY Zenon DEF DecimalAdjust
<1>6. r.out \in Byte /\ r.flags \in Flags
  <2> HIDE DEF sum, r, high
  <2>1. high \in BOOLEAN
    BY DEF high
  <2>2. r.out = sum.out /\ r.flags = [sum.flags EXCEPT !.carry = high \/ @]
    BY <1>4, <1>5
  <2>3. QED
    BY <1>3, <2>1, <2>2 DEF Flags
<1>7. AdjustA(c) = [d EXCEPT !.flag = r.flags]
  BY DEF AdjustA
<1> HIDE DEF r, sum, v, a, high, low
<1>8. Kept(c, d) /\ d.bus = c.bus
  BY <1>6, SetAKeeps
<1> HIDE DEF d
<1>9. QED
  BY <1>6, <1>7, <1>8, SetFlagsKeeps DEF Kept

\* What was pushed is what will be popped.
LEMMA PushWordKeeps ==
  ASSUME NEW c \in Machine, NEW w \in Word
  PROVE  LET d == PushWord(c, w)
         IN  /\ Kept(c, d) /\ d.reg = c.reg /\ d.flag = c.flag
             /\ d.sp = Previous16(Previous16(c.sp))
             /\ d.bus = Append(Append(c.bus, "SW"), "SW")
             /\ PopWord(d) = w
<1> DEFINE above == Previous16(c.sp)
           below == Previous16(above)
           c1 == [c EXCEPT !.sp = above]
           c2 == Store(c1, above, High(w), "SW")
           c3 == [c2 EXCEPT !.sp = below]
           c4 == Store(c3, below, Low(w), "SW")
<1>1. /\ above \in Word /\ below \in Word /\ above # below /\ Next16(below) = above
      /\ High(w) \in Byte /\ Low(w) \in Byte /\ "SW" \in Cycle
  BY Counting, Parts DEF Machine, Cycle
<1> HIDE DEF above, below
<1>2. /\ c1 \in Machine /\ c1.sp = above /\ Kept(c, c1) /\ c1.bus = c.bus /\ c1.reg = c.reg
      /\ c1.flag = c.flag
  BY <1>1 DEF Kept, Machine
<1> HIDE DEF c1
<1>3. /\ c2 \in Machine /\ c2.sp = above /\ Kept(c, c2) /\ c2.bus = Append(c.bus, "SW")
      /\ c2.reg = c.reg /\ c2.flag = c.flag
      /\ Peek(c2, above) = High(w)
  BY <1>1, <1>2, StoreKeeps DEF Kept
<1> HIDE DEF c2
<1>4. /\ c3 \in Machine /\ c3.sp = below /\ Kept(c, c3) /\ c3.bus = c2.bus /\ c3.reg = c.reg
      /\ c3.flag = c.flag /\ c3.mem = c2.mem
  BY <1>1, <1>3 DEF Kept, Machine
<1> HIDE DEF c3
<1>5. Peek(c3, above) = High(w)
  BY <1>3, <1>4 DEF Peek
<1>6. /\ c4 \in Machine /\ c4.sp = below /\ Kept(c, c4) /\ c4.bus = Append(c2.bus, "SW")
      /\ c4.reg = c.reg /\ c4.flag = c.flag
      /\ Peek(c4, below) = Low(w) /\ Peek(c4, above) = High(w)
  BY <1>1, <1>4, <1>5, StoreKeeps DEF Kept
<1>7. PushWord(c, w) = c4
  <2>1. PushWord(c, w)
            = Store([c2 EXCEPT !.sp = Previous16(@)], Previous16(c2.sp), Low(w), "SW")
    BY DEF PushWord, c1, c2, above
  <2>2. [c2 EXCEPT !.sp = Previous16(@)] = c3
    BY <1>3 DEF c3, below
  <2>3. QED
    BY <1>3, <2>1, <2>2 DEF below
<1> HIDE DEF c4
<1>8. PopWord(c4) = w
  BY <1>1, <1>6, Parts DEF PopWord
<1>9. QED
  BY <1>3, <1>6, <1>7, <1>8 DEF above, below

LEMMA PoppedKeeps ==
  ASSUME NEW c \in Machine
  PROVE  /\ Kept(c, Popped(c)) /\ Popped(c).reg = c.reg /\ Popped(c).flag = c.flag
         /\ Popped(c).sp = Next16(Next16(c.sp))
         /\ Popped(c).bus = Append(Append(c.bus, "SR"), "SR")
         /\ PopWord(c) \in Word
<1> DEFINE up == Next16(Next16(c.sp))
           c1 == [c EXCEPT !.sp = up]
           c2 == Log(c1, "SR")
<1>1. up \in Word /\ "SR" \in Cycle
  BY Counting DEF Machine, Cycle
<1>2. /\ c1 \in Machine /\ c1.sp = up /\ Kept(c, c1) /\ c1.bus = c.bus /\ c1.reg = c.reg
      /\ c1.flag = c.flag
  <2> HIDE DEF up
  <2> QED BY <1>1 DEF Kept, Machine
<1>3. Popped(c) = Log(c2, "SR")
  BY DEF Popped
<1> HIDE DEF c1
<1>4. /\ c2 \in Machine /\ c2.sp = up /\ Kept(c, c2) /\ c2.bus = Append(c.bus, "SR")
      /\ c2.reg = c.reg /\ c2.flag = c.flag
  BY <1>1, <1>2, LogKeeps DEF Kept
<1> HIDE DEF c2, up
<1>5. PopWord(c) \in Word
  BY PeekType, Composed DEF PopWord
<1>6. QED
  BY <1>1, <1>3, <1>4, <1>5, LogKeeps DEF Kept, up

\* The flags byte holds the five flags.
LEMMA FlagsByteIs ==
  ASSUME NEW f \in Flags
  PROVE  FlagsByte(f) \in Byte /\ FlagsOf(FlagsByte(f)) = f
<1> DEFINE v == FlagsByte(f)
<1>1. v \in Byte
  BY ByteIs DEF FlagsByte, AsBit
<1>2. /\ HasBit(v, 1) <=> f.carry
      /\ HasBit(v, 4) <=> f.parity
      /\ HasBit(v, 16) <=> f.aux
      /\ HasBit(v, 64) <=> f.zero
      /\ HasBit(v, 128) <=> f.sign
  BY DEF FlagsByte, AsBit, HasBit
<1> HIDE DEF v
<1>3. FlagsOf(v) = f
  BY <1>2 DEF FlagsOf, Flags, HasBit
<1>4. QED
  BY <1>1, <1>3 DEF v

LEMMA FlagsOfType == ASSUME NEW v PROVE FlagsOf(v) \in Flags
BY DEF FlagsOf, Flags, HasBit

LEMMA PushedKeeps ==
  ASSUME NEW c \in Machine, NEW p \in 0 .. 3
  PROVE  LET d == Pushed(c, p)
             w == IF p = 3 THEN Compose(c.reg[RegA], FlagsByte(c.flag)) ELSE Pair(c, p)
         IN  /\ Kept(c, d) /\ d.reg = c.reg /\ d.flag = c.flag
             /\ d.sp = Previous16(Previous16(c.sp)) /\ PopWord(d) = w
             /\ d.bus = Append(Append(c.bus, "SW"), "SW")
<1> DEFINE w == IF p = 3 THEN Compose(c.reg[RegA], FlagsByte(c.flag)) ELSE Pair(c, p)
<1>1. c.reg[RegA] \in Byte /\ FlagsByte(c.flag) \in Byte
  BY FlagsByteIs DEF Machine, Register, RegM, RegA
<1>2. w \in Word
  BY <1>1, Composed, PairType
<1>3. Pushed(c, p) = PushWord(c, w)
  BY DEF Pushed
<1> HIDE DEF w
<1>4. QED
  BY <1>2, <1>3, PushWordKeeps DEF w

LEMMA PoppedToKeeps ==
  ASSUME NEW c \in Machine, NEW p \in 0 .. 3
  PROVE  LET d == PoppedTo(c, p)
             w == PopWord(c)
         IN  /\ Kept(c, d)
             /\ d.bus = Append(Append(c.bus, "SR"), "SR")
             /\ p = 3 => /\ d.reg = [c.reg EXCEPT ![RegA] = High(w)]
                         /\ d.flag = FlagsOf(Low(w)) /\ d.sp = Next16(Next16(c.sp))
             /\ p # 3 => d = SetPair(Popped(c), p, w)
<1> DEFINE d == PoppedTo(c, p)
           w == PopWord(c)
<1>1. /\ Popped(c) \in Machine /\ w \in Word /\ High(w) \in Byte
      /\ FlagsOf(Low(w)) \in Flags
  BY PoppedKeeps, Parts, FlagsOfType DEF Kept
<1>2. CASE p = 3
  <2> DEFINE e == SetA(Popped(c), High(w))
             f == FlagsOf(Low(w))
  <2>1. d = [e EXCEPT !.flag = f]
    BY <1>2 DEF PoppedTo
  <2>2. /\ Kept(c, e) /\ e.bus = Popped(c).bus /\ e.sp = Popped(c).sp
        /\ e.reg = [c.reg EXCEPT ![RegA] = High(w)]
    BY <1>1, PoppedKeeps, SetAKeeps, SetARegisters DEF Kept
  <2> HIDE DEF e, f, d, w
  <2>3. Kept(e, d) /\ d.bus = e.bus /\ d.sp = e.sp /\ d.reg = e.reg /\ d.flag = f
    BY <1>1, <2>1, <2>2, SetFlagsKeeps DEF Kept, f
  <2>4. QED
    BY <1>2, <2>2, <2>3, PoppedKeeps DEF Kept, d, f, w
<1>3. CASE p # 3
  <2>1. d = SetPair(Popped(c), p, w)
    BY <1>3 DEF PoppedTo
  <2> HIDE DEF d, w
  <2>2. Kept(Popped(c), d) /\ d.bus = Popped(c).bus
    BY <1>1, <2>1, SetPairKeeps
  <2>3. QED
    BY <1>3, <2>1, <2>2, PoppedKeeps DEF Kept, d, w
<1>4. QED
  BY <1>2, <1>3

\* A call goes to its target and saves the way back.
LEMMA CallToKeeps ==
  ASSUME NEW c \in Machine, NEW target \in Word
  PROVE  LET d == CallTo(c, target)
         IN  /\ d \in Machine /\ d.pc = target /\ d.halted = c.halted /\ d.error = c.error
             /\ d.reg = c.reg /\ d.flag = c.flag
             /\ d.sp = Previous16(Previous16(c.sp)) /\ PopWord(d) = c.pc
             /\ d.bus = Append(Append(c.bus, "SW"), "SW")
<1> DEFINE e == PushWord(c, c.pc)
           d == CallTo(c, target)
<1>1. c.pc \in Word
  BY DEF Machine
<1>2. /\ Kept(c, e) /\ e.reg = c.reg /\ e.flag = c.flag
      /\ e.sp = Previous16(Previous16(c.sp))
      /\ e.bus = Append(Append(c.bus, "SW"), "SW")
      /\ PopWord(e) = c.pc
  BY <1>1, PushWordKeeps
<1>3. d = [e EXCEPT !.pc = target]
  BY DEF CallTo
<1> HIDE DEF d, e
<1>4. /\ d \in Machine /\ d.pc = target /\ d.halted = e.halted /\ d.error = e.error
      /\ d.reg = e.reg /\ d.flag = e.flag /\ d.sp = e.sp /\ d.bus = e.bus /\ d.mem = e.mem
  BY <1>2, <1>3 DEF Kept, Machine
<1>5. PopWord(d) = PopWord(e)
  BY <1>4 DEF PopWord, Peek
<1>6. QED
  BY <1>2, <1>4, <1>5 DEF Kept, d

LEMMA ReturnKeeps ==
  ASSUME NEW c \in Machine
  PROVE  LET d == Return(c)
         IN  /\ d \in Machine /\ d.pc = PopWord(c) /\ d.halted = c.halted /\ d.error = c.error
             /\ d.reg = c.reg /\ d.flag = c.flag /\ d.sp = Next16(Next16(c.sp))
             /\ d.bus = Append(Append(c.bus, "SR"), "SR")
<1> DEFINE e == Popped(c)
<1>1. Return(c) = [e EXCEPT !.pc = PopWord(c)]
  BY DEF Return
<1>2. /\ Kept(c, e) /\ PopWord(c) \in Word /\ e.reg = c.reg /\ e.flag = c.flag
      /\ e.sp = Next16(Next16(c.sp)) /\ e.bus = Append(Append(c.bus, "SR"), "SR")
  BY PoppedKeeps
<1> HIDE DEF e
<1>3. QED
  BY <1>1, <1>2 DEF Kept, Machine

LEMMA RotateLeftKeeps ==
  ASSUME NEW c \in Machine, NEW entering \in BOOLEAN
  PROVE  LET d == RotateLeft(c, entering)
             A == c.reg[RegA]
         IN  /\ Kept(c, d) /\ d.bus = c.bus /\ d.sp = c.sp
             /\ d.reg = [c.reg EXCEPT ![RegA] = ((2 * A) % 256) + AsBit(entering)]
             /\ d.flag = [c.flag EXCEPT !.carry = HasBit(A, 128)]
<1> DEFINE A == c.reg[RegA]
           v == ((2 * A) % 256) + AsBit(entering)
           e == SetA(c, v)
           d == RotateLeft(c, entering)
           f == [c.flag EXCEPT !.carry = HasBit(A, 128)]
<1>1. A \in Byte /\ c.flag \in Flags
  BY DEF Machine, Register, RegM, RegA
<1>2. v \in Byte
  <2> HIDE DEF A
  <2>1. A \in Int
    BY <1>1, ByteIs
  <2>2. (2 * A) % 256 \in Int /\ 0 <= (2 * A) % 256 /\ (2 * A) % 256 <= 254
    BY <2>1
  <2>3. QED
    BY <2>2, ByteIs DEF AsBit
<1>3. f \in Flags
  <2> HIDE DEF A
  <2> QED BY <1>1 DEF Flags, HasBit
<1>4. Kept(c, e) /\ e.bus = c.bus /\ e.sp = c.sp /\ e.flag = c.flag
      /\ e.reg = [c.reg EXCEPT ![RegA] = v]
  <2> HIDE DEF v
  <2> QED BY <1>2, SetAKeeps, SetARegisters
<1>5. d = [e EXCEPT !.flag.carry = HasBit(A, 128)]
  BY DEF RotateLeft
<1> HIDE DEF e, v, A, d
<1>6. d = [e EXCEPT !.flag = f]
  BY <1>4, <1>5
<1> HIDE DEF f
<1>7. Kept(e, d) /\ d.bus = e.bus /\ d.sp = e.sp /\ d.reg = e.reg /\ d.flag = f
  BY <1>3, <1>4, <1>6, SetFlagsKeeps DEF Kept
<1>8. QED
  BY <1>4, <1>7 DEF Kept, d, f, v, A

LEMMA RotateRightKeeps ==
  ASSUME NEW c \in Machine, NEW entering \in BOOLEAN
  PROVE  LET d == RotateRight(c, entering)
             A == c.reg[RegA]
         IN  /\ Kept(c, d) /\ d.bus = c.bus /\ d.sp = c.sp
             /\ d.reg = [c.reg EXCEPT ![RegA] = (A \div 2) + 128 * AsBit(entering)]
             /\ d.flag = [c.flag EXCEPT !.carry = HasBit(A, 1)]
<1> DEFINE A == c.reg[RegA]
           v == (A \div 2) + 128 * AsBit(entering)
           e == SetA(c, v)
           d == RotateRight(c, entering)
           f == [c.flag EXCEPT !.carry = HasBit(A, 1)]
<1>1. A \in Byte /\ c.flag \in Flags
  BY DEF Machine, Register, RegM, RegA
<1>2. v \in Byte
  <2> HIDE DEF A
  <2> QED BY <1>1, ByteIs DEF AsBit
<1>3. f \in Flags
  <2> HIDE DEF A
  <2> QED BY <1>1 DEF Flags, HasBit
<1>4. Kept(c, e) /\ e.bus = c.bus /\ e.sp = c.sp /\ e.flag = c.flag
      /\ e.reg = [c.reg EXCEPT ![RegA] = v]
  <2> HIDE DEF v
  <2> QED BY <1>2, SetAKeeps, SetARegisters
<1>5. d = [e EXCEPT !.flag.carry = HasBit(A, 1)]
  BY DEF RotateRight
<1> HIDE DEF e, v, A, d
<1>6. d = [e EXCEPT !.flag = f]
  BY <1>4, <1>5
<1> HIDE DEF f
<1>7. Kept(e, d) /\ d.bus = e.bus /\ d.sp = e.sp /\ d.reg = e.reg /\ d.flag = f
  BY <1>3, <1>4, <1>6, SetFlagsKeeps DEF Kept
<1>8. QED
  BY <1>4, <1>7 DEF Kept, d, f, v, A

LEMMA HLRegisters ==
  ASSUME NEW c \in Machine
  PROVE  c.reg[RegH] \in Byte /\ c.reg[RegL] \in Byte /\ c.reg[RegA] \in Byte
BY DEF Machine, Register, RegM, RegA, RegH, RegL

\* Two stores at consecutive addresses.
LEMMA StoreTwo ==
  ASSUME NEW c \in Machine, NEW a \in Word, NEW low \in Byte, NEW high \in Byte,
         NEW y \in Cycle
  PROVE  LET d == Store(Store(c, a, low, y), Next16(a), high, y)
         IN  /\ Kept(c, d) /\ d.reg = c.reg /\ d.flag = c.flag /\ d.sp = c.sp
             /\ d.bus = Append(Append(c.bus, y), y)
             /\ Peek(d, a) = low /\ Peek(d, Next16(a)) = high
<1> DEFINE c1 == Store(c, a, low, y)
           d == Store(c1, Next16(a), high, y)
<1>1. Next16(a) \in Word /\ Next16(a) # a
  BY Counting
<1>2. /\ Kept(c, c1) /\ c1.reg = c.reg /\ c1.flag = c.flag /\ c1.sp = c.sp
      /\ c1.bus = Append(c.bus, y) /\ Peek(c1, a) = low
  BY StoreKeeps
<1> HIDE DEF c1
<1>3. /\ Kept(c1, d) /\ d.reg = c1.reg /\ d.flag = c1.flag /\ d.sp = c1.sp
      /\ d.bus = Append(c1.bus, y)
      /\ Peek(d, a) = Peek(c1, a) /\ Peek(d, Next16(a)) = high
  BY <1>1, <1>2, StoreKeeps DEF Kept
<1> HIDE DEF d
<1>4. QED
  BY <1>2, <1>3 DEF Kept, d, c1

LEMMA LogTwo ==
  ASSUME NEW c \in Machine, NEW y \in Cycle
  PROVE  LET d == Log(Log(c, y), y)
         IN  /\ Kept(c, d) /\ d.reg = c.reg /\ d.flag = c.flag /\ d.sp = c.sp /\ d.mem = c.mem
             /\ d.bus = Append(Append(c.bus, y), y)
<1>1. Log(c, y) \in Machine
  BY LogKeeps DEF Kept
<1>2. QED
  BY <1>1, LogKeeps DEF Kept

LEMMA ExchangeStackKeeps ==
  ASSUME NEW c \in Machine
  PROVE  LET d == ExchangeStack(c)
         IN  /\ Kept(c, d) /\ d.flag = c.flag /\ d.sp = c.sp
             /\ d.reg = [c.reg EXCEPT ![RegH] = Peek(c, Next16(c.sp)), ![RegL] = Peek(c, c.sp)]
             /\ Peek(d, c.sp) = c.reg[RegL] /\ Peek(d, Next16(c.sp)) = c.reg[RegH]
             /\ d.bus = Append(Append(Append(Append(c.bus, "SR"), "SR"), "SW"), "SW")
<1> DEFINE read == Log(Log(c, "SR"), "SR")
           stored == Store(Store(read, c.sp, c.reg[RegL], "SW"), Next16(c.sp), c.reg[RegH],
                         "SW")
           w == Compose(Peek(c, Next16(c.sp)), Peek(c, c.sp))
           d == SetPair(stored, 2, w)
<1>1. /\ c.sp \in Word /\ "SR" \in Cycle /\ "SW" \in Cycle
      /\ c.reg[RegH] \in Byte /\ c.reg[RegL] \in Byte
  BY HLRegisters DEF Machine, Cycle
<1>2. /\ w \in Word /\ High(w) = Peek(c, Next16(c.sp)) /\ Low(w) = Peek(c, c.sp)
  BY PeekType, Composed
<1>3. ExchangeStack(c) = d
  BY DEF ExchangeStack
<1>4. /\ read \in Machine /\ Kept(c, read) /\ read.reg = c.reg /\ read.flag = c.flag
      /\ read.sp = c.sp /\ read.bus = Append(Append(c.bus, "SR"), "SR")
  BY <1>1, LogTwo DEF Kept
<1> HIDE DEF read, w
<1>5. /\ stored \in Machine /\ Kept(read, stored) /\ stored.reg = c.reg /\ stored.flag = c.flag
      /\ stored.sp = c.sp /\ stored.bus = Append(Append(read.bus, "SW"), "SW")
      /\ Peek(stored, c.sp) = c.reg[RegL] /\ Peek(stored, Next16(c.sp)) = c.reg[RegH]
  <2>1. /\ Kept(read, stored) /\ stored.reg = read.reg /\ stored.flag = read.flag
        /\ stored.sp = read.sp /\ stored.bus = Append(Append(read.bus, "SW"), "SW")
        /\ Peek(stored, c.sp) = c.reg[RegL] /\ Peek(stored, Next16(c.sp)) = c.reg[RegH]
    BY <1>1, <1>4, StoreTwo
  <2> HIDE DEF stored
  <2>2. QED
    BY <1>4, <2>1 DEF Kept
<1> HIDE DEF stored
<1>6. /\ Kept(stored, d) /\ d.flag = stored.flag /\ d.bus = stored.bus /\ d.mem = stored.mem
      /\ d.sp = stored.sp
      /\ d.reg = [stored.reg EXCEPT ![2 * 2] = High(w), ![2 * 2 + 1] = Low(w)]
  BY <1>2, <1>5, SetPairKeeps, SetPairRegisters
<1> HIDE DEF d
<1>7. \A a : Peek(d, a) = Peek(stored, a)
  BY <1>6 DEF Peek
<1>8. d.reg = [c.reg EXCEPT ![RegH] = Peek(c, Next16(c.sp)), ![RegL] = Peek(c, c.sp)]
  BY <1>2, <1>5, <1>6 DEF RegH, RegL
<1>9. QED
  BY <1>3, <1>4, <1>5, <1>6, <1>7, <1>8 DEF Kept

LEMMA StoreHLKeeps ==
  ASSUME NEW c \in Machine, NEW a \in Word
  PROVE  LET d == StoreHL(c, a)
         IN  /\ Kept(c, d) /\ d.reg = c.reg /\ d.flag = c.flag /\ d.sp = c.sp
             /\ d.bus = Append(Append(c.bus, "MW"), "MW")
             /\ Peek(d, a) = c.reg[RegL] /\ Peek(d, Next16(a)) = c.reg[RegH]
<1>1. "MW" \in Cycle
  BY DEF Cycle
<1>2. QED
  BY <1>1, HLRegisters, StoreTwo DEF StoreHL

LEMMA LoadHLKeeps ==
  ASSUME NEW c \in Machine, NEW a \in Word
  PROVE  LET d == LoadHL(c, a)
         IN  /\ Kept(c, d) /\ d.flag = c.flag /\ d.sp = c.sp
             /\ d.bus = Append(Append(c.bus, "MR"), "MR")
             /\ d.reg = [c.reg EXCEPT ![RegH] = Peek(c, Next16(a)), ![RegL] = Peek(c, a)]
<1> DEFINE read == Log(Log(c, "MR"), "MR")
           w == Compose(Peek(c, Next16(a)), Peek(c, a))
           d == SetPair(read, 2, w)
<1>1. "MR" \in Cycle
  BY DEF Cycle
<1>2. w \in Word /\ High(w) = Peek(c, Next16(a)) /\ Low(w) = Peek(c, a)
  BY PeekType, Composed
<1>3. LoadHL(c, a) = d
  BY DEF LoadHL
<1>4. /\ read \in Machine /\ Kept(c, read) /\ read.reg = c.reg /\ read.flag = c.flag
      /\ read.sp = c.sp /\ read.bus = Append(Append(c.bus, "MR"), "MR")
  BY <1>1, LogTwo DEF Kept
<1> HIDE DEF read, w
<1>5. /\ Kept(read, d) /\ d.flag = read.flag /\ d.bus = read.bus /\ d.sp = read.sp
      /\ d.reg = [read.reg EXCEPT ![2 * 2] = High(w), ![2 * 2 + 1] = Low(w)]
  BY <1>2, <1>4, SetPairKeeps, SetPairRegisters
<1> HIDE DEF d
<1>6. d.reg = [c.reg EXCEPT ![RegH] = Peek(c, Next16(a)), ![RegL] = Peek(c, a)]
  BY <1>2, <1>4, <1>5 DEF RegH, RegL
<1>7. QED
  BY <1>3, <1>4, <1>5, <1>6 DEF Kept

---------------------------------------------------------------------------
(* The opcodes are disjoint: each executes one arm of Execute.             *)

Arms(c, k, arg, input) ==
  LET after == Execute(c, k, arg, input)
      word == Compose(arg[2], arg[1])
      p == PairOf(k)
      A == c.reg[RegA]
  IN /\ k \in Unassigned => after = [c EXCEPT !.error = "unimplemented"]
     /\ k = NOP => after = c
     /\ k = HLT => after = [c EXCEPT !.halted = TRUE]
     /\ k \in MOV => after = Set(Touch(c, Z(k)), Y(k), Get(c, Z(k)))
     /\ k \in MVI => after = Set(c, Y(k), arg[1])
     /\ k \in LXI => after = SetPair(c, p, word)
     /\ k \in INR => after = Step1(c, Y(k), "ADD")
     /\ k \in DCR => after = Step1(c, Y(k), "SUB")
     /\ k \in INX => after = SetPair(c, p, Next16(Pair(c, p)))
     /\ k \in DCX => after = SetPair(c, p, Previous16(Pair(c, p)))
     /\ k \in DAD => after = AddToHL(c, Pair(c, p))
     /\ k \in ALUReg => after = Arithmetic(Touch(c, Z(k)), GroupOf(k), Get(c, Z(k)))
     /\ k \in ALUImm => after = Arithmetic(c, GroupOf(k), arg[1])
     /\ k = JMP \/ (k \in Jcc /\ Taken(c, k)) => after = [c EXCEPT !.pc = word]
     /\ k = CALL \/ (k \in Ccc /\ Taken(c, k)) => after = CallTo(c, word)
     /\ k = RET \/ (k \in Rcc /\ Taken(c, k)) => after = Return(c)
     /\ k \in Jcc \cup Ccc \cup Rcc /\ ~Taken(c, k) => after = c
     /\ k \in RST => after = CallTo(c, 8 * Y(k))
     /\ k \in POP => after = PoppedTo(c, p)
     /\ k \in PUSH => after = Pushed(c, p)
     /\ k \in STAX => after = Store(c, Pair(c, p), A, "MW")
     /\ k \in LDAX => after = SetA(Log(c, "MR"), Peek(c, Pair(c, p)))
     /\ k = RLC => after = RotateLeft(c, HasBit(A, 128))
     /\ k = RRC => after = RotateRight(c, HasBit(A, 1))
     /\ k = RAL => after = RotateLeft(c, c.flag.carry)
     /\ k = RAR => after = RotateRight(c, c.flag.carry)
     /\ k = SHLD => after = StoreHL(c, word)
     /\ k = LHLD => after = LoadHL(c, word)
     /\ k = DAA => after = AdjustA(c)
     /\ k = CMA => after = SetA(c, Complement(A))
     /\ k = STA => after = Store(c, word, A, "MW")
     /\ k = LDA => after = SetA(Log(c, "MR"), Peek(c, word))
     /\ k = STC => after = [c EXCEPT !.flag.carry = TRUE]
     /\ k = CMC => after = [c EXCEPT !.flag.carry = ~@]
     /\ k = OUT => after = Log(c, "IOW")
     /\ k = IN_ => after = SetA(Log(c, "IOR"), input)
     /\ k = XTHL => after = ExchangeStack(c)
     /\ k = PCHL => after = [c EXCEPT !.pc = HL(c)]
     /\ k = XCHG => after = SetPair(SetPair(c, 2, Pair(c, 1)), 1, Pair(c, 2))
     /\ k \in {DI, EI} => after = [c EXCEPT !.enabled = (k = EI)]
     /\ k = SPHL => after = [c EXCEPT !.sp = HL(c)]

LEMMA OneArm ==
  ASSUME NEW c, NEW k \in Byte, NEW arg, NEW input
  PROVE  Arms(c, k, arg, input)
<1> DEFINE after == Execute(c, k, arg, input)
           word == Compose(arg[2], arg[1])
           p == PairOf(k)
           A == c.reg[RegA]
<1> USE Octal, FamilyOf
    DEF Families, Even, Odd, NOP, HLT, STAX, LDAX, RLC, RRC, RAL, RAR, SHLD, DAA, LHLD, CMA,
        STA, STC, LDA, CMC,
        JMP, RET, CALL, OUT, IN_, XTHL, PCHL, XCHG, DI, SPHL, EI
<1>1. k \in Unassigned => after = [c EXCEPT !.error = "unimplemented"]
  BY DEF Execute
<1>2. k = NOP => after = c
  BY DEF Execute
<1>3. k = HLT => after = [c EXCEPT !.halted = TRUE]
  BY DEF Execute
<1>4. k \in MOV => after = Set(Touch(c, Z(k)), Y(k), Get(c, Z(k)))
  BY DEF Execute
<1>5. k \in MVI => after = Set(c, Y(k), arg[1])
  BY DEF Execute
<1>6. k \in LXI => after = SetPair(c, p, word)
  BY DEF Execute
<1>7. k \in INR => after = Step1(c, Y(k), "ADD")
  BY DEF Execute
<1>8. k \in DCR => after = Step1(c, Y(k), "SUB")
  BY DEF Execute
<1>9. k \in INX => after = SetPair(c, p, Next16(Pair(c, p)))
  BY DEF Execute
<1>10. k \in DCX => after = SetPair(c, p, Previous16(Pair(c, p)))
  BY DEF Execute
<1>11. k \in DAD => after = AddToHL(c, Pair(c, p))
  BY DEF Execute
<1>12. k \in ALUReg => after = Arithmetic(Touch(c, Z(k)), GroupOf(k), Get(c, Z(k)))
  BY DEF Execute
<1>13. k \in ALUImm => after = Arithmetic(c, GroupOf(k), arg[1])
  BY DEF Execute
<1>14. k = JMP \/ (k \in Jcc /\ Taken(c, k)) => after = [c EXCEPT !.pc = word]
  BY DEF Execute
<1>15. k = CALL \/ (k \in Ccc /\ Taken(c, k)) => after = CallTo(c, word)
  BY DEF Execute
<1>16. k = RET \/ (k \in Rcc /\ Taken(c, k)) => after = Return(c)
  BY DEF Execute
<1>17. k \in Jcc \cup Ccc \cup Rcc /\ ~Taken(c, k) => after = c
  BY DEF Execute
<1>18. k \in RST => after = CallTo(c, 8 * Y(k))
  BY DEF Execute
<1>19. k \in POP => after = PoppedTo(c, p)
  BY DEF Execute
<1>20. k \in PUSH => after = Pushed(c, p)
  BY DEF Execute
<1>21. k \in STAX => after = Store(c, Pair(c, p), A, "MW")
  BY DEF Execute
<1>22. k \in LDAX => after = SetA(Log(c, "MR"), Peek(c, Pair(c, p)))
  BY DEF Execute
<1>23. k = RLC => after = RotateLeft(c, HasBit(A, 128))
  BY DEF Execute
<1>24. k = RRC => after = RotateRight(c, HasBit(A, 1))
  BY DEF Execute
<1>25. k = RAL => after = RotateLeft(c, c.flag.carry)
  BY DEF Execute
<1>26. k = RAR => after = RotateRight(c, c.flag.carry)
  BY DEF Execute
<1>27. k = SHLD => after = StoreHL(c, word)
  BY DEF Execute
<1>28. k = LHLD => after = LoadHL(c, word)
  BY DEF Execute
<1>29. k = DAA => after = AdjustA(c)
  BY DEF Execute
<1>30. k = CMA => after = SetA(c, Complement(A))
  BY DEF Execute
<1>31. k = STA => after = Store(c, word, A, "MW")
  BY DEF Execute
<1>32. k = LDA => after = SetA(Log(c, "MR"), Peek(c, word))
  BY DEF Execute
<1>33. k = STC => after = [c EXCEPT !.flag.carry = TRUE]
  BY DEF Execute
<1>34. k = CMC => after = [c EXCEPT !.flag.carry = ~@]
  BY DEF Execute
<1>35. k = OUT => after = Log(c, "IOW")
  BY DEF Execute
<1>36. k = IN_ => after = SetA(Log(c, "IOR"), input)
  BY DEF Execute
<1>37. k = XTHL => after = ExchangeStack(c)
  BY DEF Execute
<1>38. k = PCHL => after = [c EXCEPT !.pc = HL(c)]
  BY DEF Execute
<1>39. k = XCHG => after = SetPair(SetPair(c, 2, Pair(c, 1)), 1, Pair(c, 2))
  BY DEF Execute
<1>40. k \in {DI, EI} => after = [c EXCEPT !.enabled = (k = EI)]
  BY DEF Execute
<1>41. k = SPHL => after = [c EXCEPT !.sp = HL(c)]
  BY DEF Execute
<1> HIDE DEF after, word, p, A
<1>99. QED
  BY <1>1, <1>2, <1>3, <1>4, <1>5, <1>6, <1>7, <1>8, <1>9, <1>10, <1>11, <1>12, <1>13, <1>14,
     <1>15, <1>16, <1>17, <1>18, <1>19, <1>20, <1>21, <1>22, <1>23, <1>24, <1>25, <1>26, <1>27,
     <1>28, <1>29, <1>30, <1>31, <1>32, <1>33, <1>34, <1>35, <1>36, <1>37, <1>38, <1>39, <1>40,
     <1>41 DEF Arms, after, word, p, A

---------------------------------------------------------------------------
(* What an instruction does to control and to the bus.                     *)

\* The opcodes after which control goes on to the next instruction.
Plain == Byte \ (Unassigned \cup {HLT, JMP, CALL, RET, PCHL} \cup Jcc \cup Ccc \cup Rcc
             \cup RST)

LEMMA PlainIs ==
  ASSUME NEW k \in Byte, k \in Plain
  PROVE  \/ k \in MOV \cup MVI \cup LXI \cup INR \cup DCR \cup INX \cup DCX \cup DAD \cup ALUReg
                   \cup ALUImm \cup POP \cup PUSH \cup STAX \cup LDAX
         \/ k \in {NOP, RLC, RRC, RAL, RAR, SHLD, LHLD, DAA, CMA, STA, LDA, STC, CMC, OUT, IN_,
                   XTHL, XCHG, DI, EI, SPHL}
BY Octal, FamilyOf
   DEF Plain, Families, Even, Odd, NOP, HLT, STAX, LDAX, RLC, RRC, RAL, RAR, SHLD, DAA, LHLD,
       CMA, STA, STC, LDA, CMC, JMP, RET, CALL, OUT, IN_, XTHL, PCHL, XCHG, DI, SPHL, EI

LEMMA OperandType ==
  ASSUME NEW c \in Machine, NEW k \in Byte, NEW arg \in Byte \X Byte
  PROVE  /\ Compose(arg[2], arg[1]) \in Word /\ arg[1] \in Byte /\ arg[2] \in Byte
         /\ PairOf(k) \in 0 .. 3 /\ Y(k) \in 0 .. 7 /\ Z(k) \in 0 .. 7
         /\ Pair(c, PairOf(k)) \in Word /\ c.reg[RegA] \in Byte
<1>1. PairOf(k) \in 0 .. 3
  BY Octal DEF PairOf
<1>2. QED
  BY <1>1, Octal, Composed, PairType, HLRegisters

\* What the instructions on registers and memory leave alone, and their cycles.
Calm(c, k, d) ==
  /\ k \in Plain => Kept(c, d)
  /\ k \in MOV => d.bus = IF Y(k) = RegM THEN Append(c.bus, "MW")
                          ELSE IF Z(k) = RegM THEN Append(c.bus, "MR") ELSE c.bus
  /\ k \in MVI => d.bus = IF Y(k) = RegM THEN Append(c.bus, "MW") ELSE c.bus
  /\ k \in ALUReg => d.bus = IF Z(k) = RegM THEN Append(c.bus, "MR") ELSE c.bus
  /\ k \in INR \cup DCR =>
       d.bus = IF Y(k) = RegM THEN Append(Append(c.bus, "MR"), "MW") ELSE c.bus
  /\ k \in STAX \cup {STA} => d.bus = Append(c.bus, "MW")
  /\ k \in LDAX \cup {LDA} => d.bus = Append(c.bus, "MR")
  /\ k \in PUSH => d.bus = Append(Append(c.bus, "SW"), "SW")
  /\ k \in POP => d.bus = Append(Append(c.bus, "SR"), "SR")
  /\ k = SHLD => d.bus = Append(Append(c.bus, "MW"), "MW")
  /\ k = LHLD => d.bus = Append(Append(c.bus, "MR"), "MR")
  /\ k = OUT => d.bus = Append(c.bus, "IOW")
  /\ k = IN_ => d.bus = Append(c.bus, "IOR")
  /\ k = XTHL => d.bus = Append(Append(Append(Append(c.bus, "SR"), "SR"), "SW"), "SW")
  /\ k \in LXI \cup INX \cup DCX \cup DAD \cup ALUImm
          \cup {NOP, RLC, RRC, RAL, RAR, DAA, CMA, STC, CMC, XCHG, DI, EI, SPHL} => d.bus
              = c.bus

LEMMA ExecuteCalm ==
  ASSUME NEW c \in Machine, NEW k \in Byte, NEW arg \in Byte \X Byte, NEW input \in Byte
  PROVE  Calm(c, k, Execute(c, k, arg, input))
<1> DEFINE d == Execute(c, k, arg, input)
           word == Compose(arg[2], arg[1])
           p == PairOf(k)
           A == c.reg[RegA]
<1>0. /\ word \in Word /\ arg[1] \in Byte /\ p \in 0 .. 3 /\ Y(k) \in 0 .. 7 /\ Z(k) \in 0 .. 7
      /\ Pair(c, p) \in Word /\ A \in Byte
      /\ Arms(c, k, arg, input)
  BY OperandType, OneArm
<1> HIDE DEF word, p, A
<1>1. k = NOP => Kept(c, d) /\ d.bus = c.bus
  BY <1>0 DEF Arms, Kept
<1>2. k \in MOV =>
        Kept(c, d) /\ d.bus = IF Y(k) = RegM THEN Append(c.bus, "MW")
                              ELSE IF Z(k) = RegM THEN Append(c.bus, "MR") ELSE c.bus
  <2> SUFFICES ASSUME k \in MOV
               PROVE  Kept(c, d) /\ d.bus = IF Y(k) = RegM THEN Append(c.bus, "MW")
                              ELSE IF Z(k) = RegM THEN Append(c.bus, "MR") ELSE c.bus
    OBVIOUS
  <2>1. d = Set(Touch(c, Z(k)), Y(k), Get(c, Z(k)))
    BY <1>0 DEF Arms
  <2>2. ~(Y(k) = RegM /\ Z(k) = RegM)
    BY Octal, FamilyOf DEF Families, HLT, RegM
  <2> DEFINE t == Touch(c, Z(k))
             v == Get(c, Z(k))
  <2>3. /\ t \in Machine /\ v \in Byte /\ Kept(c, t)
        /\ t.bus = IF Z(k) = RegM THEN Append(c.bus, "MR") ELSE c.bus
    BY <1>0, TouchKeeps, GetType DEF Kept
  <2> HIDE DEF d, t, v
  <2>4. Kept(t, d) /\ d.bus = IF Y(k) = RegM THEN Append(t.bus, "MW") ELSE t.bus
    BY <1>0, <2>1, <2>3, SetKeeps DEF t, v
  <2>5. QED
    BY <2>2, <2>3, <2>4 DEF Kept
<1>3. k \in MVI => Kept(c, d) /\ d.bus = IF Y(k) = RegM THEN Append(c.bus, "MW") ELSE c.bus
  BY <1>0, SetKeeps DEF Arms
<1>4. k \in LXI => Kept(c, d) /\ d.bus = c.bus
  BY <1>0, SetPairKeeps DEF Arms, word, p
<1>5. k \in INR \cup DCR =>
        Kept(c, d) /\ d.bus = IF Y(k) = RegM THEN Append(Append(c.bus, "MR"), "MW") ELSE c.bus
  <2>1. "ADD" \in Group /\ "SUB" \in Group
    BY DEF Group
  <2>2. k \in INR \cup DCR => d = Step1(c, Y(k), "ADD") \/ d = Step1(c, Y(k), "SUB")
    BY <1>0 DEF Arms
  <2> HIDE DEF d
  <2>3. QED
    BY <1>0, <2>1, <2>2, Step1Keeps
<1>6. k \in INX \cup DCX => Kept(c, d) /\ d.bus = c.bus
  <2>1. Next16(Pair(c, p)) \in Word /\ Previous16(Pair(c, p)) \in Word
    BY <1>0, Counting
  <2>2. QED
    BY <1>0, <2>1, SetPairKeeps DEF Arms, p
<1>7. k \in DAD => Kept(c, d) /\ d.bus = c.bus
  BY <1>0, AddToHLKeeps DEF Arms, p
<1>8. k \in ALUReg => Kept(c, d) /\ d.bus = IF Z(k) = RegM THEN Append(c.bus, "MR") ELSE c.bus
  <2> SUFFICES ASSUME k \in ALUReg
               PROVE  /\ Kept(c, d)
                      /\ d.bus = IF Z(k) = RegM THEN Append(c.bus, "MR") ELSE c.bus
    OBVIOUS
  <2>1. d = Arithmetic(Touch(c, Z(k)), GroupOf(k), Get(c, Z(k)))
    BY <1>0 DEF Arms
  <2>2. /\ Touch(c, Z(k)) \in Machine /\ Kept(c, Touch(c, Z(k))) /\ Get(c, Z(k)) \in Byte
        /\ Touch(c, Z(k)).bus = IF Z(k) = RegM THEN Append(c.bus, "MR") ELSE c.bus
    BY <1>0, TouchKeeps, GetType DEF Kept
  <2>3. /\ Kept(Touch(c, Z(k)), d) /\ d.bus = Touch(c, Z(k)).bus
    BY <2>1, <2>2, GroupType, ArithmeticKeeps
  <2> HIDE DEF d
  <2>4. QED
    BY <2>2, <2>3 DEF Kept
<1>9. k \in ALUImm => Kept(c, d) /\ d.bus = c.bus
  BY <1>0, GroupType, ArithmeticKeeps DEF Arms
<1>10. k \in POP => Kept(c, d) /\ d.bus = Append(Append(c.bus, "SR"), "SR")
  <2>1. k \in POP => d = PoppedTo(c, p)
    BY <1>0 DEF Arms, p
  <2> HIDE DEF d
  <2>2. QED
    BY <1>0, <2>1, PoppedToKeeps
<1>11. k \in PUSH => Kept(c, d) /\ d.bus = Append(Append(c.bus, "SW"), "SW")
  <2>1. k \in PUSH => d = Pushed(c, p)
    BY <1>0 DEF Arms, p
  <2> HIDE DEF d
  <2>2. QED
    BY <1>0, <2>1, PushedKeeps
<1>12. k \in STAX \cup {STA} => Kept(c, d) /\ d.bus = Append(c.bus, "MW")
  BY <1>0, StoreKeeps DEF Arms, word, p, A, Cycle
<1>13. k \in LDAX \cup {LDA} => Kept(c, d) /\ d.bus = Append(c.bus, "MR")
  <2>1. /\ Log(c, "MR") \in Machine /\ Kept(c, Log(c, "MR"))
        /\ Log(c, "MR").bus = Append(c.bus, "MR")
    BY LogKeeps DEF Kept, Cycle
  <2>2. \A v \in Byte : /\ Kept(Log(c, "MR"), SetA(Log(c, "MR"), v))
                        /\ SetA(Log(c, "MR"), v).bus = Append(c.bus, "MR")
    BY <2>1, SetAKeeps
  <2>3. k \in LDAX \cup {LDA} => \E v \in Byte : d = SetA(Log(c, "MR"), v)
    BY <1>0, PeekType DEF Arms, word, p
  <2> HIDE DEF d
  <2>4. QED
    BY <2>1, <2>2, <2>3 DEF Kept
<1>14. k \in {RLC, RAL} => Kept(c, d) /\ d.bus = c.bus
  <2>1. \A e \in BOOLEAN :
          Kept(c, RotateLeft(c, e)) /\ RotateLeft(c, e).bus = c.bus
    BY RotateLeftKeeps
  <2>2. HasBit(A, 128) \in BOOLEAN /\ c.flag.carry \in BOOLEAN
    BY DEF HasBit, Machine, Flags
  <2>3. QED
    BY <1>0, <2>1, <2>2 DEF Arms, A
<1>15. k \in {RRC, RAR} => Kept(c, d) /\ d.bus = c.bus
  <2>1. \A e \in BOOLEAN :
          Kept(c, RotateRight(c, e)) /\ RotateRight(c, e).bus = c.bus
    BY RotateRightKeeps
  <2>2. HasBit(A, 1) \in BOOLEAN /\ c.flag.carry \in BOOLEAN
    BY DEF HasBit, Machine, Flags
  <2>3. QED
    BY <1>0, <2>1, <2>2 DEF Arms, A
<1>16. k = SHLD => Kept(c, d) /\ d.bus = Append(Append(c.bus, "MW"), "MW")
  BY <1>0, StoreHLKeeps DEF Arms, word
<1>17. k = LHLD => Kept(c, d) /\ d.bus = Append(Append(c.bus, "MR"), "MR")
  <2>1. k = LHLD => d = LoadHL(c, word)
    BY <1>0 DEF Arms, word
  <2> HIDE DEF d
  <2>2. QED
    BY <1>0, <2>1, LoadHLKeeps
<1>18. k = DAA => Kept(c, d) /\ d.bus = c.bus
  BY <1>0, AdjustAKeeps DEF Arms
<1>19. k = CMA => Kept(c, d) /\ d.bus = c.bus
  <2>1. Complement(A) \in Byte
    BY <1>0, ByteIs DEF Complement
  <2>2. k = CMA => d = SetA(c, Complement(A))
    BY <1>0 DEF Arms, A
  <2> HIDE DEF d
  <2>3. QED
    BY <2>1, <2>2, SetAKeeps
<1>20. k \in {STC, CMC} => Kept(c, d) /\ d.bus = c.bus
  <2> SUFFICES ASSUME k \in {STC, CMC} PROVE Kept(c, d) /\ d.bus = c.bus
    OBVIOUS
  <2>1. PICK b \in BOOLEAN : d = [c EXCEPT !.flag.carry = b]
    BY <1>0 DEF Arms, Machine, Flags
  <2> DEFINE f == [c.flag EXCEPT !.carry = b]
  <2> HIDE DEF d
  <2>2. f \in Flags /\ d = [c EXCEPT !.flag = f]
    BY <2>1 DEF Machine, Flags
  <2> HIDE DEF f
  <2>3. QED
    BY <2>2, SetFlagsKeeps
<1>21. k = OUT => Kept(c, d) /\ d.bus = Append(c.bus, "IOW")
  BY <1>0, LogKeeps DEF Arms, Cycle
<1>22. k = IN_ => Kept(c, d) /\ d.bus = Append(c.bus, "IOR")
  <2>1. /\ Log(c, "IOR") \in Machine /\ Kept(c, Log(c, "IOR"))
        /\ Log(c, "IOR").bus = Append(c.bus, "IOR")
    BY LogKeeps DEF Kept, Cycle
  <2>2. k = IN_ => d = SetA(Log(c, "IOR"), input)
    BY <1>0 DEF Arms
  <2> HIDE DEF d
  <2>3. k = IN_ => Kept(Log(c, "IOR"), d) /\ d.bus = Append(c.bus, "IOR")
    BY <2>1, <2>2, SetAKeeps
  <2>4. QED
    BY <2>1, <2>3 DEF Kept
<1>23. k = XTHL => Kept(c, d)
          /\ d.bus = Append(Append(Append(Append(c.bus, "SR"), "SR"), "SW"), "SW")
  BY <1>0, ExchangeStackKeeps DEF Arms
<1>24. k = XCHG => Kept(c, d) /\ d.bus = c.bus
  <2>1. Pair(c, 1) \in Word /\ Pair(c, 2) \in Word
    BY PairType
  <2>2. Kept(c, SetPair(c, 2, Pair(c, 1))) /\ SetPair(c, 2, Pair(c, 1)).bus = c.bus
    BY <2>1, SetPairKeeps
  <2>3. k = XCHG => d = SetPair(SetPair(c, 2, Pair(c, 1)), 1, Pair(c, 2))
    BY <1>0 DEF Arms
  <2> DEFINE e == SetPair(c, 2, Pair(c, 1))
  <2> HIDE DEF d, e
  <2>4. k = XCHG => Kept(e, d) /\ d.bus = e.bus
    <3>1. \A w \in Word : Kept(e, SetPair(e, 1, w)) /\ SetPair(e, 1, w).bus = e.bus
      BY <2>2, SetPairKeeps DEF Kept, e
    <3>2. QED
      BY <2>1, <2>3, <3>1 DEF e
  <2>5. QED
    BY <2>2, <2>4 DEF Kept, e
<1>25. k \in {DI, EI} => Kept(c, d) /\ d.bus = c.bus
  <2> SUFFICES ASSUME k \in {DI, EI} PROVE Kept(c, d) /\ d.bus = c.bus
    OBVIOUS
  <2>1. PICK b \in BOOLEAN : d = [c EXCEPT !.enabled = b]
    BY <1>0 DEF Arms
  <2> HIDE DEF d
  <2>2. QED
    BY <2>1 DEF Kept, Machine
<1>26. k = SPHL => Kept(c, d) /\ d.bus = c.bus
  BY <1>0, HLType DEF Arms, Kept, Machine
<1> HIDE DEF d
<1>27. k \in Plain => Kept(c, d)
  <2> QED
    BY PlainIs, <1>1, <1>2, <1>3, <1>4, <1>5, <1>6, <1>7, <1>8, <1>9, <1>10, <1>11, <1>12,
       <1>13,
       <1>14, <1>15, <1>16, <1>17, <1>18, <1>19, <1>20, <1>21, <1>22, <1>23, <1>24, <1>25, <1>26
<1>28. QED
  BY <1>27, <1>1, <1>2, <1>3, <1>4, <1>5, <1>6, <1>7, <1>8, <1>9, <1>10, <1>11, <1>12, <1>13,
     <1>14, <1>15, <1>16, <1>17, <1>18, <1>19, <1>20, <1>21, <1>22, <1>23, <1>24, <1>25, <1>26
     DEF Calm, d

\* What the instructions that fail, stop or jump do.
Leaping(c, k, word, d) ==
  /\ k \in Unassigned =>
       d \in Machine /\ d.error = "unimplemented" /\ d.pc = c.pc /\ d.halted = c.halted /\ d.bus
           = c.bus
  /\ k = HLT => d \in Machine /\ d.halted /\ d.error = c.error /\ d.pc = c.pc /\ d.bus = c.bus
  /\ k \in Jcc \cup Ccc \cup Rcc /\ ~Taken(c, k) => Kept(c, d) /\ d.bus = c.bus
  /\ k = JMP \/ (k \in Jcc /\ Taken(c, k)) =>
       d \in Machine /\ d.pc = word /\ d.error = c.error /\ d.halted = c.halted /\ d.bus = c.bus
  /\ k = PCHL => d \in Machine /\ d.error = c.error /\ d.halted = c.halted /\ d.bus = c.bus
  /\ k \in RST \cup {CALL} \/ (k \in Ccc /\ Taken(c, k)) =>
       /\ d \in Machine /\ d.error = c.error /\ d.halted = c.halted
       /\ d.reg = c.reg /\ d.flag = c.flag /\ d.sp = Previous16(Previous16(c.sp))
       /\ PopWord(d) = c.pc /\ d.pc = (IF k \in RST THEN 8 * Y(k) ELSE word)
       /\ d.bus = Append(Append(c.bus, "SW"), "SW")
  /\ k = RET \/ (k \in Rcc /\ Taken(c, k)) =>
       /\ d \in Machine /\ d.error = c.error /\ d.halted = c.halted
       /\ d.bus = Append(Append(c.bus, "SR"), "SR")

LEMMA ExecuteLeaping ==
  ASSUME NEW c \in Machine, NEW k \in Byte, NEW arg \in Byte \X Byte, NEW input \in Byte
  PROVE  Leaping(c, k, Compose(arg[2], arg[1]), Execute(c, k, arg, input))
<1> DEFINE d == Execute(c, k, arg, input)
           word == Compose(arg[2], arg[1])
<1>0. word \in Word /\ Y(k) \in 0 .. 7 /\ Arms(c, k, arg, input)
  BY OperandType, OneArm
<1> HIDE DEF word
<1>1. k \in Unassigned =>
        d \in Machine /\ d.error = "unimplemented" /\ d.pc = c.pc /\ d.halted = c.halted
            /\ d.bus = c.bus
  <2>1. k \in Unassigned => d = [c EXCEPT !.error = "unimplemented"]
    BY <1>0 DEF Arms
  <2> HIDE DEF d
  <2>2. QED
    BY <2>1 DEF Machine
<1>2. k = HLT => d \in Machine /\ d.halted /\ d.error = c.error /\ d.pc = c.pc /\ d.bus = c.bus
  <2>1. k = HLT => d = [c EXCEPT !.halted = TRUE]
    BY <1>0 DEF Arms
  <2> HIDE DEF d
  <2>2. QED
    BY <2>1 DEF Machine
<1>3. k \in Jcc \cup Ccc \cup Rcc /\ ~Taken(c, k) => Kept(c, d) /\ d.bus = c.bus
  BY <1>0 DEF Arms, Kept
<1>4. k = JMP \/ (k \in Jcc /\ Taken(c, k)) =>
        d \in Machine /\ d.pc = word /\ d.error = c.error /\ d.halted = c.halted /\ d.bus
            = c.bus
  <2>1. k = JMP \/ (k \in Jcc /\ Taken(c, k)) => d = [c EXCEPT !.pc = word]
    BY <1>0 DEF Arms, word
  <2> HIDE DEF d
  <2>2. QED
    BY <1>0, <2>1 DEF Machine
<1>5. k = PCHL => d \in Machine /\ d.error = c.error /\ d.halted = c.halted /\ d.bus = c.bus
  <2>1. k = PCHL => d = [c EXCEPT !.pc = HL(c)]
    BY <1>0 DEF Arms
  <2> HIDE DEF d
  <2>2. QED
    BY <2>1, HLType DEF Machine
<1>6. ASSUME NEW target \in Word, d = CallTo(c, target)
      PROVE  /\ d \in Machine /\ d.error = c.error /\ d.halted = c.halted
             /\ d.reg = c.reg /\ d.flag = c.flag /\ d.sp = Previous16(Previous16(c.sp))
             /\ PopWord(d) = c.pc /\ d.pc = target
             /\ d.bus = Append(Append(c.bus, "SW"), "SW")
  <2> HIDE DEF d
  <2>1. QED
    BY <1>6, CallToKeeps
<1>7. k \in RST => 8 * Y(k) \in Word /\ d = CallTo(c, 8 * Y(k))
  BY <1>0, WordIs DEF Arms
<1>8. k = CALL \/ (k \in Ccc /\ Taken(c, k)) => d = CallTo(c, word) /\ k \notin RST
  BY <1>0, FamilyOf DEF Arms, word, Families, CALL, Z
<1>9. k = RET \/ (k \in Rcc /\ Taken(c, k)) =>
        /\ d \in Machine /\ d.error = c.error /\ d.halted = c.halted
        /\ d.bus = Append(Append(c.bus, "SR"), "SR")
  <2>1. k = RET \/ (k \in Rcc /\ Taken(c, k)) => d = Return(c)
    BY <1>0 DEF Arms
  <2> HIDE DEF d
  <2>2. QED
    BY <2>1, ReturnKeeps
<1> HIDE DEF d
<1>10. QED
  BY <1>0, <1>1, <1>2, <1>3, <1>4, <1>5, <1>6, <1>7, <1>8, <1>9 DEF Leaping, d, word

\* An instruction takes machines to machines; it fails exactly if it is unassigned
\* and stops the CPU exactly if it is HLT.
LEMMA ExecuteType ==
  ASSUME NEW c \in Machine, NEW k \in Byte, NEW arg \in Byte \X Byte, NEW input \in Byte
  PROVE  LET d == Execute(c, k, arg, input)
         IN  /\ d \in Machine
             /\ k \in Unassigned => d.error = "unimplemented"
             /\ k \notin Unassigned => d.error = c.error
             /\ d.halted <=> c.halted \/ k = HLT
<1> DEFINE d == Execute(c, k, arg, input)
           word == Compose(arg[2], arg[1])
<1>1. Leaping(c, k, word, d) /\ Calm(c, k, d)
  BY ExecuteLeaping, ExecuteCalm
<1>2. c.halted \in BOOLEAN
  BY DEF Machine
<1>3. \/ k \in Plain \cup Unassigned \cup {HLT, JMP, CALL, RET, PCHL} \cup RST
      \/ k \in Jcc /\ Taken(c, k)
      \/ k \in Ccc /\ Taken(c, k)
      \/ k \in Rcc /\ Taken(c, k)
      \/ k \in Jcc \cup Ccc \cup Rcc /\ ~Taken(c, k)
  BY DEF Plain
<1>4. HLT \notin Unassigned
  BY DEF HLT, Unassigned, Digits
<1>5. k \in Unassigned => k \notin Plain \cup {HLT, JMP, CALL, RET, PCHL} \cup RST \cup Jcc
          \cup Ccc \cup Rcc
  BY Octal, FamilyOf DEF Families, Plain, HLT, JMP, CALL, RET, PCHL
<1>6. k = HLT => k \notin Plain \cup {JMP, CALL, RET, PCHL} \cup RST \cup Jcc \cup Ccc \cup Rcc
  BY Octal, FamilyOf DEF Families, Plain, HLT, JMP, CALL, RET, PCHL
<1> HIDE DEF d, word
<1>7. CASE k \in Unassigned
  BY <1>1, <1>2, <1>4, <1>7 DEF Leaping, d
<1>8. CASE k = HLT
  BY <1>1, <1>2, <1>4, <1>8 DEF Leaping, d
<1>9. CASE k \notin Unassigned /\ k # HLT
  BY <1>1, <1>2, <1>3, <1>9 DEF Leaping, Calm, Kept, d
<1>10. QED
  BY <1>7, <1>8, <1>9

---------------------------------------------------------------------------
(* The fetch.                                                              *)

LEMMA FetchedKeeps ==
  ASSUME NEW c \in Machine, NEW y \in Cycle
  PROVE  LET d == Fetched(c, y)
         IN  /\ d \in Machine /\ d.pc = Next16(c.pc) /\ d.reg = c.reg /\ d.flag = c.flag
             /\ d.sp = c.sp /\ d.mem = c.mem /\ d.halted = c.halted /\ d.error = c.error
             /\ d.bus = Append(c.bus, y)
<1> DEFINE n == Next16(c.pc)
           e == [c EXCEPT !.pc = n]
<1>1. n \in Word
  BY Counting DEF Machine
<1> HIDE DEF n
<1>2. /\ e \in Machine /\ e.pc = n /\ e.reg = c.reg /\ e.flag = c.flag /\ e.sp = c.sp
      /\ e.mem = c.mem /\ e.halted = c.halted /\ e.error = c.error /\ e.bus = c.bus
  BY <1>1 DEF Machine
<1>3. Fetched(c, y) = Log(e, y)
  BY DEF Fetched, n
<1> HIDE DEF e
<1>4. QED
  BY <1>2, <1>3, LogKeeps DEF Kept, n

LEMMA LengthIs ==
  ASSUME NEW c \in Machine, NEW n \in {1, 2, 3}
  PROVE  (c.pc + n) % 65536 = IF n = 1 THEN Next16(c.pc)
                              ELSE IF n = 2 THEN Next16(Next16(c.pc))
                              ELSE Next16(Next16(Next16(c.pc)))
<1>1. c.pc \in Int
  BY WordIs DEF Machine
<1>2. QED
  BY <1>1 DEF Next16

\* An instruction begins with an empty list of cycles.
LEMMA FreshBus ==
  ASSUME NEW c \in Machine, NEW e \in {"nil", "unimplemented", "stopped"}
  PROVE  LET d == [c EXCEPT !.bus = <<>>, !.error = e]
         IN  /\ d \in Machine /\ d.pc = c.pc /\ d.reg = c.reg /\ d.flag = c.flag /\ d.sp = c.sp
             /\ d.mem = c.mem /\ d.halted = c.halted /\ d.error = e /\ d.bus = <<>>
<1> DEFINE empty == <<>>
<1>1. empty \in Seq(Cycle)
  OBVIOUS
<1> HIDE DEF empty
<1>2. LET d == [c EXCEPT !.bus = empty, !.error = e]
      IN  /\ d \in Machine /\ d.pc = c.pc /\ d.reg = c.reg /\ d.flag = c.flag /\ d.sp = c.sp
          /\ d.mem = c.mem /\ d.halted = c.halted /\ d.error = e /\ d.bus = empty
  BY <1>1 DEF Machine
<1>3. QED
  BY <1>2 DEF empty

\* The machine with the instruction fetched.
Fetch(c) ==
  LET k == Peek(c, c.pc)
      opcode == Fetched([c EXCEPT !.bus = <<>>, !.error = "nil"], "M1")
      one == IF Length(k) > 1 THEN Fetched(opcode, "MR") ELSE opcode
  IN IF Length(k) > 2 THEN Fetched(one, "MR") ELSE one

OperandBytes(c) == <<Peek(c, Next16(c.pc)), Peek(c, Next16(Next16(c.pc)))>>

LEMMA FetchIs ==
  ASSUME NEW c \in Machine
  PROVE  LET f == Fetch(c)
             length == Length(Peek(c, c.pc))
         IN  /\ f \in Machine /\ f.pc = (c.pc + length) % 65536 /\ f.reg = c.reg
             /\ f.flag = c.flag /\ f.sp = c.sp /\ f.mem = c.mem /\ f.halted = c.halted
             /\ f.error = "nil"
             /\ length = 1 => f.bus = <<"M1">>
             /\ length = 2 => f.bus = Append(<<"M1">>, "MR")
             /\ length = 3 => f.bus = Append(Append(<<"M1">>, "MR"), "MR")
<1> DEFINE k == Peek(c, c.pc)
           start == [c EXCEPT !.bus = <<>>, !.error = "nil"]
           opcode == Fetched(start, "M1")
           one == IF Length(k) > 1 THEN Fetched(opcode, "MR") ELSE opcode
           f == Fetch(c)
<1>1. Length(k) \in {1, 2, 3}
  BY DEF Length
<1>2. "M1" \in Cycle /\ "MR" \in Cycle
  BY DEF Cycle
<1>3. f = IF Length(k) > 2 THEN Fetched(one, "MR") ELSE one
  BY DEF Fetch
<1>4. /\ start \in Machine /\ start.pc = c.pc /\ start.reg = c.reg /\ start.flag = c.flag
      /\ start.sp = c.sp /\ start.mem = c.mem /\ start.halted = c.halted
      /\ start.error = "nil" /\ start.bus = <<>>
  BY FreshBus
<1> HIDE DEF start, f, k
<1>5. /\ opcode \in Machine /\ opcode.pc = Next16(c.pc) /\ opcode.reg = c.reg
      /\ opcode.flag = c.flag /\ opcode.sp = c.sp /\ opcode.mem = c.mem
      /\ opcode.halted = c.halted /\ opcode.error = "nil" /\ opcode.bus = <<"M1">>
  BY <1>2, <1>4, FetchedKeeps
<1> HIDE DEF opcode
<1>6. CASE Length(k) = 1
  BY <1>3, <1>5, <1>6, LengthIs DEF k, f
<1> DEFINE g == Fetched(opcode, "MR")
           h == Fetched(g, "MR")
<1>7. /\ g \in Machine /\ g.pc = Next16(opcode.pc) /\ g.reg = opcode.reg
      /\ g.flag = opcode.flag /\ g.sp = opcode.sp /\ g.mem = opcode.mem
      /\ g.halted = opcode.halted /\ g.error = opcode.error /\ g.bus = Append(opcode.bus, "MR")
  BY <1>2, <1>5, FetchedKeeps
<1> HIDE DEF g
<1>8. /\ h \in Machine /\ h.pc = Next16(g.pc) /\ h.reg = g.reg
      /\ h.flag = g.flag /\ h.sp = g.sp /\ h.mem = g.mem
      /\ h.halted = g.halted /\ h.error = g.error /\ h.bus = Append(g.bus, "MR")
  BY <1>2, <1>7, FetchedKeeps
<1> HIDE DEF h
<1>9. CASE Length(k) = 2
  <2>1. f = g
    BY <1>3, <1>9 DEF g
  <2>2. (c.pc + 2) % 65536 = Next16(Next16(c.pc))
    BY LengthIs
  <2>3. QED
    BY <1>5, <1>7, <1>9, <2>1, <2>2 DEF k, f
<1>10. CASE Length(k) = 3
  <2>1. f = h
    BY <1>3, <1>10 DEF g, h
  <2>2. (c.pc + 3) % 65536 = Next16(Next16(Next16(c.pc)))
    BY LengthIs
  <2>3. QED
    BY <1>5, <1>7, <1>8, <1>10, <2>1, <2>2 DEF k, f
<1>11. QED
  BY <1>1, <1>6, <1>9, <1>10

LEMMA StepIs ==
  ASSUME NEW c \in Machine, NEW input
  PROVE  /\ ~c.halted => Step(c, input)
                = Execute(Fetch(c), Peek(c, c.pc), OperandBytes(c), input)
         /\ c.halted => Step(c, input) = [c EXCEPT !.bus = <<>>, !.error = "stopped"]
         /\ OperandBytes(c) \in Byte \X Byte /\ Peek(c, c.pc) \in Byte
<1> DEFINE start == [c EXCEPT !.bus = <<>>, !.error = "nil"]
           opcode == Fetched(start, "M1")
<1>1. start \in Machine /\ start.pc = c.pc /\ start.mem = c.mem
  BY FreshBus
<1>2. opcode.pc = Next16(c.pc) /\ opcode.mem = c.mem
  <2> HIDE DEF start
  <2> QED BY <1>1, FetchedKeeps DEF Cycle
<1>3. Operands(opcode) = OperandBytes(c)
  <2> HIDE DEF opcode
  <2> QED BY <1>2 DEF Operands, OperandBytes, Peek
<1>4. ~c.halted => Step(c, input) = Execute(Fetch(c), Peek(c, c.pc), Operands(opcode), input)
  BY Zenon DEF Step, Fetch
<1>5. c.halted => Step(c, input) = [c EXCEPT !.bus = <<>>, !.error = "stopped"]
  BY DEF Step
<1>6. OperandBytes(c) \in Byte \X Byte /\ Peek(c, c.pc) \in Byte
  BY PeekType DEF OperandBytes
<1>7. QED
  BY <1>3, <1>4, <1>5, <1>6

---------------------------------------------------------------------------
(* Step, Jam, lengths and states.                                          *)

LEMMA StepType ==
  ASSUME NEW c \in Machine, NEW input \in Byte
  PROVE  LET k == Peek(c, c.pc)
             s == Step(c, input)
         IN  /\ s \in Machine
             /\ ~c.halted => /\ k \in Unassigned => s.error = "unimplemented"
                             /\ k \notin Unassigned => s.error = "nil"
                             /\ s.halted <=> k = HLT
<1> DEFINE k == Peek(c, c.pc)
           s == Step(c, input)
           f == Fetch(c)
           arg == OperandBytes(c)
<1>1. /\ arg \in Byte \X Byte /\ k \in Byte
      /\ ~c.halted => s = Execute(f, k, arg, input)
      /\ c.halted => s = [c EXCEPT !.bus = <<>>, !.error = "stopped"]
  BY StepIs
<1>2. f \in Machine /\ f.halted = c.halted /\ f.error = "nil"
  BY FetchIs
<1>3. c.halted \in BOOLEAN
  BY DEF Machine
<1> HIDE DEF k, s, f, arg
<1>4. CASE ~c.halted
  <2>1. s = Execute(f, k, arg, input) /\ k \in Byte /\ arg \in Byte \X Byte
    BY <1>1, <1>4
  <2>2. /\ s \in Machine
        /\ k \in Unassigned => s.error = "unimplemented"
        /\ k \notin Unassigned => s.error = f.error
        /\ s.halted <=> f.halted \/ k = HLT
    BY <1>2, <2>1, ExecuteType
  <2>3. QED
    BY <1>2, <1>4, <2>2 DEF k, s
<1>5. CASE c.halted
  BY <1>1, <1>5, FreshBus DEF s
<1>6. QED
  BY <1>3, <1>4, <1>5

\* The machine an instruction is forced on.
Woken(c) == [c EXCEPT !.bus = <<>>, !.error = "nil", !.halted = FALSE]

LEMMA WokenIs ==
  ASSUME NEW c \in Machine
  PROVE  /\ Woken(c) \in Machine /\ Woken(c).pc = c.pc /\ Woken(c).reg = c.reg
         /\ Woken(c).flag = c.flag /\ Woken(c).sp = c.sp /\ Woken(c).mem = c.mem
         /\ Woken(c).error = "nil" /\ Woken(c).halted = FALSE /\ Woken(c).bus = <<>>
<1> DEFINE d == [c EXCEPT !.bus = <<>>, !.error = "nil"]
<1>1. /\ d \in Machine /\ d.pc = c.pc /\ d.reg = c.reg /\ d.flag = c.flag /\ d.sp = c.sp
      /\ d.mem = c.mem /\ d.error = "nil" /\ d.bus = <<>>
  BY FreshBus
<1>2. Woken(c) = [d EXCEPT !.halted = FALSE]
  BY DEF Woken
<1> HIDE DEF d
<1>3. QED
  BY <1>1, <1>2 DEF Machine

LEMMA JamType ==
  ASSUME NEW c \in Machine, NEW k \in Byte, NEW arg \in Byte \X Byte, NEW input \in Byte
  PROVE  LET d == JamOf(c, k, arg, input)
         IN  /\ d = Execute(Woken(c), k, arg, input)
             /\ d \in Machine
             /\ k \in Unassigned => d.error = "unimplemented"
             /\ k \notin Unassigned => d.error = "nil"
<1>1. JamOf(c, k, arg, input) = Execute(Woken(c), k, arg, input)
  BY DEF JamOf, Woken
<1> DEFINE w == Woken(c)
           d == JamOf(c, k, arg, input)
<1>2. w \in Machine /\ w.error = "nil"
  BY WokenIs
<1> HIDE DEF w, d
<1>3. /\ d = Execute(w, k, arg, input) /\ d \in Machine
      /\ k \in Unassigned => d.error = "unimplemented"
      /\ k \notin Unassigned => d.error = w.error
  <2>1. d = Execute(w, k, arg, input)
    BY <1>1 DEF w, d
  <2>2. QED
    BY <1>2, <2>1, ExecuteType
<1>4. QED
  BY <1>2, <1>3 DEF w, d

LEMMA TakenIs ==
  ASSUME NEW c, NEW d, NEW k, c.flag = d.flag
  PROVE  Taken(c, k) <=> Taken(d, k)
BY DEF Taken

LEMMA LengthOf ==
  ASSUME NEW k \in Byte
  PROVE  /\ k \in LXI \cup {SHLD, LHLD, STA, LDA, JMP, CALL} \cup Jcc \cup Ccc => Length(k) = 3
         /\ k \in MVI => Length(k) = 2
<1>1. k \in MVI => k \notin Immediate16
  BY Octal, FamilyOf DEF Families, Immediate16, SHLD, LHLD, STA, LDA, JMP, CALL
<1>2. QED
  BY <1>1 DEF Length, Immediate16, Immediate8

\* What the states of an opcode are for: the cells it reads or writes.
LEMMA UsesMIs ==
  ASSUME NEW k \in Byte
  PROVE  /\ k \in MOV => (UsesM(k) <=> Y(k) = RegM \/ Z(k) = RegM)
         /\ k \in MVI \cup INR \cup DCR => (UsesM(k) <=> Y(k) = RegM)
         /\ k \in ALUReg => (UsesM(k) <=> Z(k) = RegM)
BY Octal, FamilyOf DEF Families, UsesM

LEMMA StatesAre ==
  ASSUME NEW c, NEW k \in Byte, k \notin Unassigned
  PROVE  /\ k \in Rcc => StatesOf(c, k) = IF Taken(c, k) THEN 11 ELSE 5
         /\ k \in Ccc => StatesOf(c, k) = IF Taken(c, k) THEN 17 ELSE 11
         /\ k = CALL => StatesOf(c, k) = 17
         /\ k = XTHL => StatesOf(c, k) = 18
         /\ k \in {SHLD, LHLD} => StatesOf(c, k) = 16
         /\ k \in {STA, LDA} => StatesOf(c, k) = 13
         /\ k \in PUSH \cup RST => StatesOf(c, k) = 11
         /\ k \in LXI \cup DAD \cup POP \cup Jcc \cup {JMP, RET, IN_, OUT} => StatesOf(c, k)
                = 10
         /\ k \in MVI \cup INR \cup DCR /\ UsesM(k) => StatesOf(c, k) = 10
         /\ k \in {HLT} \cup STAX \cup LDAX \cup ALUImm => StatesOf(c, k) = 7
         /\ k \in MVI /\ ~UsesM(k) => StatesOf(c, k) = 7
         /\ k \in MOV \cup ALUReg /\ UsesM(k) => StatesOf(c, k) = 7
         /\ k \in MOV \cup INR \cup DCR /\ ~UsesM(k) => StatesOf(c, k) = 5
         /\ k \in INX \cup DCX \cup {PCHL, SPHL} => StatesOf(c, k) = 5
         /\ k \in ALUReg /\ ~UsesM(k) => StatesOf(c, k) = 4
         /\ k \in {NOP, RLC, RRC, RAL, RAR, DAA, CMA, STC, CMC, XCHG, DI, EI} => StatesOf(c, k)
                = 4
<1> DEFINE C1 == k \in Unassigned
           C2 == k \in Rcc
           C3 == k \in Ccc
           C4 == k = CALL
           C5 == k = XTHL
           C6 == k \in {SHLD, LHLD}
           C7 == k \in {STA, LDA}
           C8 == k \in PUSH \cup RST
           C9 == k \in LXI \cup DAD \cup POP \cup Jcc \cup {JMP, RET, IN_, OUT}
           C10 == k \in MVI \cup INR \cup DCR /\ UsesM(k)
           C11 == k \in {HLT} \cup STAX \cup LDAX \cup ALUImm
           C12 == k \in MVI /\ ~UsesM(k)
           C13 == k \in MOV \cup ALUReg /\ UsesM(k)
           C14 == k \in MOV \cup INR \cup DCR /\ ~UsesM(k)
           C15 == k \in INX \cup DCX \cup {PCHL, SPHL}
           C16 == \/ k \in ALUReg /\ ~UsesM(k)
                  \/ k \in {NOP, RLC, RRC, RAL, RAR, DAA, CMA, STC, CMC, XCHG, DI, EI}
<1>1. /\ C2 => ~C1 /\ ~C3 /\ ~C4 /\ ~C5 /\ ~C6 /\ ~C7 /\ ~C8 /\ ~C9 /\ ~C10 /\ ~C11 /\ ~C12
             /\ ~C13 /\ ~C14 /\ ~C15
      /\ C3 => ~C1 /\ ~C2 /\ ~C4 /\ ~C5 /\ ~C6 /\ ~C7 /\ ~C8 /\ ~C9 /\ ~C10 /\ ~C11 /\ ~C12
             /\ ~C13 /\ ~C14 /\ ~C15
      /\ C4 => ~C1 /\ ~C2 /\ ~C3 /\ ~C5 /\ ~C6 /\ ~C7 /\ ~C8 /\ ~C9 /\ ~C10 /\ ~C11 /\ ~C12
             /\ ~C13 /\ ~C14 /\ ~C15
      /\ C5 => ~C1 /\ ~C2 /\ ~C3 /\ ~C4 /\ ~C6 /\ ~C7 /\ ~C8 /\ ~C9 /\ ~C10 /\ ~C11 /\ ~C12
             /\ ~C13 /\ ~C14 /\ ~C15
      /\ C6 => ~C1 /\ ~C2 /\ ~C3 /\ ~C4 /\ ~C5 /\ ~C7 /\ ~C8 /\ ~C9 /\ ~C10 /\ ~C11 /\ ~C12
             /\ ~C13 /\ ~C14 /\ ~C15
      /\ C7 => ~C1 /\ ~C2 /\ ~C3 /\ ~C4 /\ ~C5 /\ ~C6 /\ ~C8 /\ ~C9 /\ ~C10 /\ ~C11 /\ ~C12
             /\ ~C13 /\ ~C14 /\ ~C15
      /\ C8 => ~C1 /\ ~C2 /\ ~C3 /\ ~C4 /\ ~C5 /\ ~C6 /\ ~C7 /\ ~C9 /\ ~C10 /\ ~C11 /\ ~C12
             /\ ~C13 /\ ~C14 /\ ~C15
      /\ C9 => ~C1 /\ ~C2 /\ ~C3 /\ ~C4 /\ ~C5 /\ ~C6 /\ ~C7 /\ ~C8 /\ ~C10 /\ ~C11 /\ ~C12
             /\ ~C13 /\ ~C14 /\ ~C15
      /\ C10 => ~C1 /\ ~C2 /\ ~C3 /\ ~C4 /\ ~C5 /\ ~C6 /\ ~C7 /\ ~C8 /\ ~C9 /\ ~C11 /\ ~C12
             /\ ~C13 /\ ~C14 /\ ~C15
      /\ C11 => ~C1 /\ ~C2 /\ ~C3 /\ ~C4 /\ ~C5 /\ ~C6 /\ ~C7 /\ ~C8 /\ ~C9 /\ ~C10 /\ ~C12
             /\ ~C13 /\ ~C14 /\ ~C15
      /\ C12 => ~C1 /\ ~C2 /\ ~C3 /\ ~C4 /\ ~C5 /\ ~C6 /\ ~C7 /\ ~C8 /\ ~C9 /\ ~C10 /\ ~C11
             /\ ~C13 /\ ~C14 /\ ~C15
      /\ C13 => ~C1 /\ ~C2 /\ ~C3 /\ ~C4 /\ ~C5 /\ ~C6 /\ ~C7 /\ ~C8 /\ ~C9 /\ ~C10 /\ ~C11
             /\ ~C12 /\ ~C14 /\ ~C15
      /\ C14 => ~C1 /\ ~C2 /\ ~C3 /\ ~C4 /\ ~C5 /\ ~C6 /\ ~C7 /\ ~C8 /\ ~C9 /\ ~C10 /\ ~C11
             /\ ~C12 /\ ~C13 /\ ~C15
      /\ C15 => ~C1 /\ ~C2 /\ ~C3 /\ ~C4 /\ ~C5 /\ ~C6 /\ ~C7 /\ ~C8 /\ ~C9 /\ ~C10 /\ ~C11
             /\ ~C12 /\ ~C13 /\ ~C14
      /\ C16 => ~C1 /\ ~C2 /\ ~C3 /\ ~C4 /\ ~C5 /\ ~C6 /\ ~C7 /\ ~C8 /\ ~C9 /\ ~C10 /\ ~C11
             /\ ~C12 /\ ~C13 /\ ~C14 /\ ~C15
  BY Octal, FamilyOf
     DEF Families, Even, Odd, NOP, HLT, STAX, LDAX, RLC, RRC, RAL, RAR, SHLD, DAA, LHLD, CMA,
         STA, STC, LDA, CMC, JMP, RET, CALL, OUT, IN_, XTHL, PCHL, XCHG, DI, SPHL, EI
<1>2. StateRange(k) =
        CASE C1 -> Fixed(0)
          [] C2 -> [min |-> 5, max |-> 11]
          [] C3 -> CallStates
          [] C4 -> Fixed(17)
          [] C5 -> Fixed(18)
          [] C6 -> Fixed(16)
          [] C7 -> Fixed(13)
          [] C8 -> Fixed(11)
          [] C9 -> Fixed(10)
          [] C10 -> Fixed(10)
          [] C11 -> Fixed(7)
          [] C12 -> Fixed(7)
          [] C13 -> Fixed(7)
          [] C14 -> Fixed(5)
          [] C15 -> Fixed(5)
          [] OTHER -> Fixed(4)
  BY DEF StateRange
<1>3. C2 \/ C3 <=> k \in Ccc \cup Rcc
  OBVIOUS
<1>4. StatesOf(c, k) =
        IF (C2 \/ C3) /\ ~Taken(c, k) THEN StateRange(k).min ELSE StateRange(k).max
  BY <1>3 DEF StatesOf
<1> HIDE DEF C1, C2, C3, C4, C5, C6, C7, C8, C9, C10, C11, C12, C13, C14, C15, C16
<1>5. /\ C2 => StateRange(k) = [min |-> 5, max |-> 11]
      /\ C3 => StateRange(k) = CallStates
      /\ C4 => StateRange(k) = Fixed(17)
      /\ C5 => StateRange(k) = Fixed(18)
      /\ C6 => StateRange(k) = Fixed(16)
      /\ C7 => StateRange(k) = Fixed(13)
      /\ C8 => StateRange(k) = Fixed(11)
      /\ C9 => StateRange(k) = Fixed(10)
      /\ C10 => StateRange(k) = Fixed(10)
      /\ C11 => StateRange(k) = Fixed(7)
      /\ C12 => StateRange(k) = Fixed(7)
      /\ C13 => StateRange(k) = Fixed(7)
      /\ C14 => StateRange(k) = Fixed(5)
      /\ C15 => StateRange(k) = Fixed(5)
      /\ C16 => StateRange(k) = Fixed(4)
  BY <1>1, <1>2
<1>6. /\ C2 => StatesOf(c, k) = IF Taken(c, k) THEN 11 ELSE 5
      /\ C3 => StatesOf(c, k) = IF Taken(c, k) THEN 17 ELSE 11
      /\ C4 => StatesOf(c, k) = 17
      /\ C5 => StatesOf(c, k) = 18
      /\ C6 => StatesOf(c, k) = 16
      /\ C7 => StatesOf(c, k) = 13
      /\ C8 => StatesOf(c, k) = 11
      /\ C9 => StatesOf(c, k) = 10
      /\ C10 => StatesOf(c, k) = 10
      /\ C11 => StatesOf(c, k) = 7
      /\ C12 => StatesOf(c, k) = 7
      /\ C13 => StatesOf(c, k) = 7
      /\ C14 => StatesOf(c, k) = 5
      /\ C15 => StatesOf(c, k) = 5
      /\ C16 => StatesOf(c, k) = 4
  BY <1>1, <1>4, <1>5 DEF Fixed, CallStates
<1>7. QED
  BY <1>6 DEF C1, C2, C3, C4, C5, C6, C7, C8, C9, C10, C11, C12, C13, C14, C15, C16

LEMMA LengthAre ==
  ASSUME NEW k \in Byte
  PROVE  /\ k \in LXI \cup Jcc \cup Ccc \cup {SHLD, LHLD, STA, LDA, JMP, CALL} => Length(k) = 3
         /\ k \in MVI \cup ALUImm \cup {IN_, OUT} => Length(k) = 2
         /\ k \in MOV \cup INR \cup DCR \cup INX \cup DCX \cup DAD \cup ALUReg \cup PUSH
                \cup POP
                 \cup STAX \cup LDAX \cup Rcc \cup RST
                 \cup {NOP, HLT, RLC, RRC, RAL, RAR, DAA, CMA, STC, CMC, XTHL, XCHG, PCHL, RET,
                       DI, EI, SPHL} => Length(k) = 1
<1>1. k \in MVI \cup ALUImm \cup {IN_, OUT} => k \notin Immediate16
  BY Octal, FamilyOf
     DEF Families, Even, Immediate16, SHLD, LHLD, STA, LDA, JMP, CALL, IN_, OUT
<1>2. k \in MOV \cup INR \cup DCR \cup INX \cup DCX \cup DAD \cup ALUReg \cup PUSH \cup POP
           \cup STAX \cup LDAX \cup Rcc \cup RST
           \cup {NOP, HLT, RLC, RRC, RAL, RAR, DAA, CMA, STC, CMC, XTHL, XCHG, PCHL, RET,
                 DI, EI, SPHL} => k \notin Immediate16 /\ k \notin Immediate8
  BY Octal, FamilyOf
     DEF Families, Even, Odd, Immediate16, Immediate8, NOP, HLT, STAX, LDAX, RLC, RRC, RAL, RAR,
         SHLD, DAA, LHLD, CMA, STA, STC, LDA, CMC, JMP, RET, CALL, OUT, IN_, XTHL, PCHL, XCHG,
         DI, SPHL, EI
<1>3. QED
  BY <1>1, <1>2 DEF Length, Immediate16, Immediate8
===========================================================================
