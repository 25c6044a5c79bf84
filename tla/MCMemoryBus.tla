---------------------------- MODULE MCMemoryBus ----------------------------
(* Four cells are enough for a load that spans two regions, one that ends at *)
(* the last cell and one that goes past it.                                  *)
EXTENDS MemoryBus

MCBlocks == {<<>>, <<1>>, <<1, 2>>, <<2, 0, 1>>, <<0, 1, 2, 0, 1>>}
Region(start, end, kind) == [start |-> start, end |-> end, kind |-> kind]
MCMaps ==
  {<<Region(0, 3, "mixed")>>,
   <<Region(0, 3, "ram")>>,
   <<Region(2, 2, "rom"), Region(0, 1, "ram")>>,
   <<Region(0, 0, "mixed"), Region(1, 2, "rom"), Region(3, 3, "ram")>>,
   <<Region(0, 2, "ram"), Region(2, 3, "rom")>>,
   <<Region(3, 1, "ram")>>}
===========================================================================
