---------------------------- MODULE Decoder8080 ----------------------------
(***************************************************************************)
(* The table src/cpu/decoder.go builds for the 256 opcodes: length in      *)
(* bytes, states, and the machine cycles on which the front panel samples  *)
(* READY.  Opcodes fall into families, the sets of codes the encoders of   *)
(* src/cpu/helpers.go produce; the masks of the source select octal        *)
(* digits, so a family is given by its digits.  A definition named X_Y     *)
(* just before X is X with a plausible mistake Y, used nowhere.            *)
(***************************************************************************)
EXTENDS Integers, Sequences

RegM == 6
X(code) == code \div 64
Y(code) == (code \div 8) % 8
Z(code) == code % 8
PairOf(code) == Y(code) \div 2

Even == {0, 2, 4, 6}
Odd == {1, 3, 5, 7}
Digits(x, ys, z) == {64 * x + 8 * y + z : y \in ys}

NOP == 0
HLT == 118
MOV == (64 .. 127) \ {HLT}
MVI == Digits(0, 0 .. 7, 6)
LXI == Digits(0, Even, 1)
DAD == Digits(0, Odd, 1)
INX == Digits(0, Even, 3)
DCX == Digits(0, Odd, 3)
INR == Digits(0, 0 .. 7, 4)
DCR == Digits(0, 0 .. 7, 5)
ALUReg == 128 .. 191
ALUImm == Digits(3, 0 .. 7, 6)
Jcc == Digits(3, 0 .. 7, 2)
Ccc == Digits(3, 0 .. 7, 4)
Rcc == Digits(3, 0 .. 7, 0)
RST == Digits(3, 0 .. 7, 7)
POP == Digits(3, Even, 1)
PUSH == Digits(3, Even, 5)

STAX == {2, 18}
LDAX == {10, 26}
RLC == 7
RRC == 15
RAL == 23
RAR == 31
SHLD == 34
DAA == 39
LHLD == 42
CMA == 47
STA == 50
STC == 55
LDA == 58
CMC == 63
JMP == 195
RET == 201
CALL == 205
OUT == 211
IN_ == 219
XTHL == 227
PCHL == 233
XCHG == 235
DI == 243
SPHL == 249
EI == 251

\* isUnassignedOpcode
Unassigned == Digits(0, 1 .. 7, 0) \cup {203, 217, 221, 237, 253}

Immediate8 == MVI \cup ALUImm \cup {IN_, OUT}
Immediate16_NoCcc == LXI \cup {SHLD, LHLD, STA, LDA, JMP, CALL} \cup Jcc
Immediate16 == LXI \cup {SHLD, LHLD, STA, LDA, JMP, CALL} \cup Jcc \cup Ccc
Length(code) == IF code \in Immediate16 THEN 3 ELSE IF code \in Immediate8 THEN 2 ELSE 1

\* The opcodes whose operand or destination is the memory cell HL points to.
UsesM(code) ==
  \/ code \in MOV /\ (Y(code) = RegM \/ Z(code) = RegM)
  \/ code \in MVI \cup INR \cup DCR /\ Y(code) = RegM
  \/ code \in ALUReg /\ Z(code) = RegM

\* stateRangeFor: states when a condition fails, states otherwise.
Fixed(n) == [min |-> n, max |-> n]
CallStates == [min |-> 11, max |-> 17]
StateRange(code) ==
  CASE code \in Unassigned -> Fixed(0)
    [] code \in Rcc -> [min |-> 5, max |-> 11]
    [] code \in Ccc -> CallStates
    [] code = CALL -> Fixed(17)
    [] code = XTHL -> Fixed(18)
    [] code \in {SHLD, LHLD} -> Fixed(16)
    [] code \in {STA, LDA} -> Fixed(13)
    [] code \in PUSH \cup RST -> Fixed(11)
    [] code \in LXI \cup DAD \cup POP \cup Jcc \cup {JMP, RET, IN_, OUT} -> Fixed(10)
    [] code \in MVI \cup INR \cup DCR /\ UsesM(code) -> Fixed(10)
    [] code \in {HLT} \cup STAX \cup LDAX \cup ALUImm -> Fixed(7)
    [] code \in MVI /\ ~UsesM(code) -> Fixed(7)
    [] code \in MOV \cup ALUReg /\ UsesM(code) -> Fixed(7)
    [] code \in MOV \cup INR \cup DCR /\ ~UsesM(code) -> Fixed(5)
    [] code \in INX \cup DCX \cup {PCHL, SPHL} -> Fixed(5)
    [] OTHER -> Fixed(4)

\* cyclesFor, without the opcode fetch that comes first.
OtherCycles(code) ==
  CASE code \in MOV /\ Y(code) = RegM -> <<"MW">>
    [] code \in MOV /\ Y(code) # RegM /\ Z(code) = RegM -> <<"MR">>
    [] code = OUT -> <<"MR", "IOW">>
    [] code = IN_ -> <<"MR", "IOR">>
    [] code \in PUSH \cup RST -> <<"SW", "SW">>
    [] code \in Ccc \cup {CALL} -> <<"SW", "SW", "MR", "MR">>
    [] code \in POP \cup Rcc \cup {RET} -> <<"SR", "SR">>
    [] code \in {STA, SHLD} -> <<"MR", "MR", "MW">>
    [] code = LDA -> <<"MR", "MR", "MR">>
    [] code = LHLD -> <<"MR", "MR", "MR", "MR">>
    [] code \in LXI \cup Jcc \cup {JMP} -> <<"MR", "MR">>
    [] code \in MVI \cup ALUImm -> <<"MR">>
    [] OTHER -> <<>>
Cycles(code) == <<"M1">> \o OtherCycles(code)
===========================================================================
