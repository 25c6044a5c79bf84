------------------------------ MODULE MemoryBus ------------------------------
(***************************************************************************)
(* The memory of a machine profile (src/machine/memory.go): an address     *)
(* space divided in RAM, ROM and mixed regions, where the CPU writes and   *)
(* the owner loads programs and ROM images.  The two arrays `kinds` and    *)
(* `mapped` of the code are one here, with the kind "none" for a cell of   *)
(* no region.  A definition named X_Y just before X is X with a plausible  *)
(* mistake Y, used nowhere.                                                *)
(***************************************************************************)
EXTENDS Integers, Sequences

CONSTANTS
  Size,            \* AddressSpaceSize
  Value, Zero,     \* what a cell holds, and holds at first
  OpenBus,         \* read where nothing is mapped
  NotBurned,       \* history: no ROM was loaded here
  Maps,            \* the region maps NewMemoryBus is given
  Blocks           \* the sequences of values loaded

ASSUME SizeAssumption == Size \in Nat \ {0}
ASSUME ValueAssumption == {Zero, OpenBus} \subseteq Value

Address == 0 .. Size - 1
Kind == {"ram", "rom", "mixed"}

ASSUME NotBurnedAssumption == NotBurned \notin Value
ASSUME BlocksAssumption == Blocks \subseteq Seq(Value)
ASSUME MapsAssumption == Maps \subseteq Seq([start : Address, end : Address, kind : Kind])

VARIABLES
  data,      \* the cells
  kinds,     \* the kind of each
  burned,    \* history: what LoadROM put in each cell last
  result     \* history: the operation that ended last, or "refused"

memVars == <<data, kinds, burned, result>>

Cells(region) == region.start .. region.end

\* NewMemoryBus refuses regions upside down and maps with a cell in two regions.
Accepted(map) ==
  /\ \A i \in DOMAIN map : map[i].start <= map[i].end
  /\ \A i, j \in DOMAIN map : i # j => Cells(map[i]) \cap Cells(map[j]) = {}

KindIn(map, a) ==
  IF \E i \in DOMAIN map : a \in Cells(map[i])
  THEN map[CHOOSE i \in DOMAIN map : a \in Cells(map[i])].kind
  ELSE "none"

Init ==
  /\ \E map \in Maps : Accepted(map) /\ kinds = [a \in Address |-> KindIn(map, a)]
  /\ data = [a \in Address |-> Zero]
  /\ burned = [a \in Address |-> NotBurned]
  /\ result = "new"

Read(a) == IF kinds[a] = "none" THEN OpenBus ELSE data[a]

\* ValidateRange: no load goes past the end of memory.
Fits(a, block) == a + Len(block) <= Size
Target(a, block) == a .. a + Len(block) - 1
Copied(cells, a, block) ==
  [x \in Address |-> IF x \in Target(a, block) THEN block[x - a + 1] ELSE cells[x]]

\* The CPU writes: nothing happens outside of RAM.
Writable_ROM(a) == kinds[a] # "none"
Writable(a) == kinds[a] \in {"ram", "mixed"}
Write(a, v) ==
  /\ data' = IF Writable(a) THEN [data EXCEPT ![a] = v] ELSE data
  /\ result' = "write"
  /\ UNCHANGED <<kinds, burned>>

Refuse == result' = "refused" /\ UNCHANGED <<data, kinds, burned>>

\* LoadBytes checks the whole range before it copies.
LoadBytes_CopiesAsItChecks(a, block) ==
  LET stop == {x \in Target(a, block) : ~Writable(x)}
      good == {x \in Target(a, block) : \A y \in stop : x < y}
  IN /\ Fits(a, block)
     /\ data' = [x \in Address |-> IF x \in good THEN block[x - a + 1] ELSE data[x]]
     /\ result' = IF stop = {} THEN "load" ELSE "refused"
     /\ UNCHANGED <<kinds, burned>>
LoadBytes(a, block) ==
  IF Fits(a, block) /\ \A x \in Target(a, block) : Writable(x)
  THEN /\ data' = Copied(data, a, block)
       /\ result' = "load"
       /\ UNCHANGED <<kinds, burned>>
  ELSE Refuse

\* LoadROM writes wherever there is memory, and protects what it wrote.
Protected_Not(a, block) == kinds
Protected(a, block) == [x \in Address |-> IF x \in Target(a, block) THEN "rom" ELSE kinds[x]]
LoadROM(a, block) ==
  IF Fits(a, block) /\ \A x \in Target(a, block) : kinds[x] # "none"
  THEN /\ data' = Copied(data, a, block)
       /\ kinds' = Protected(a, block)
       /\ burned' = Copied(burned, a, block)
       /\ result' = "rom"
  ELSE Refuse

Next ==
  \/ \E a \in Address, v \in Value : Write(a, v)
  \/ \E a \in Address, block \in Blocks : LoadBytes(a, block)
  \/ \E a \in Address, block \in Blocks : LoadROM(a, block)

Spec == Init /\ [][Next]_memVars

---------------------------------------------------------------------------

\* Cells hold values, kinds are kinds, and a cell of no region stays as it was made:
\* nothing can be hidden behind the open bus.
TypeOK ==
  /\ data \in [Address -> Value]
  /\ kinds \in [Address -> Kind \cup {"none"}]
  /\ burned \in [Address -> Value \cup {NotBurned}]
  /\ result \in {"new", "write", "load", "rom", "refused"}
  /\ \A a \in Address : kinds[a] = "none" => data[a] = Zero

\* A ROM image is read back as it was loaded, whatever the CPU writes and whatever
\* programs and other images are loaded beside or over it, refused or not
\* (memory.go:68-74, 83-98, 101-117).
RomKept == \A a \in Address : burned[a] # NotBurned => kinds[a] = "rom" /\ Read(a) = burned[a]

\* Memory that is ROM, by the map or by a load, stays ROM, and only LoadROM changes it
\* (memory.go:66-74, 82-98).
RomProtected ==
  [][\A a \in Address : kinds[a] = "rom" =>
       kinds'[a] = "rom" /\ (result' # "rom" => data'[a] = data[a])]_memVars

\* A refused load leaves memory as it was, also when it fails at its last byte
\* (memory.go:83-96, 101-110).
RefusedChangesNothing == [][result' = "refused" => UNCHANGED <<data, kinds>>]_memVars
===========================================================================
