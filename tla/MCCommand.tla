----------------------------- MODULE MCCommand -----------------------------
(* Command lines: three cells of memory, two images that overlap in a slot, *)
(* programs beside, over and beyond them, and ports that collide.            *)
EXTENDS Command

MCBlocks == {<<>>, <<1>>, <<1, 0>>, <<0, 1, 1>>, <<0, 1, 1, 0>>}
MCMaps == {RegionsOf(p) : p \in Profile}

Plain ==
  [flags |-> "good", mode |-> "run", profile |-> "altair", ports |-> <<>>, terminal |-> FALSE,
   roms |-> <<>>, bin |-> NoProgram, disasm |-> FALSE, limit |-> 2, ready |-> TRUE,
   debug |-> FALSE, traced |-> FALSE]

Monitor == [slot |-> "monitor", block |-> <<1, 0>>]
Test == [slot |-> "test", block |-> <<1>>]
Roms ==
  {<<>>, <<Test>>, <<Monitor>>, <<Monitor, Test>>, <<[Test EXCEPT !.slot = "bios"]>>,
   <<Test, [Monitor EXCEPT !.block = <<0, 1, 1, 0>>]>>}
Programs ==
  {NoProgram} \cup {[at |-> a, block |-> b] : a \in {0, 1, 2}, b \in MCBlocks \ {<<1>>}}

MCRequests ==
  {[Plain EXCEPT !.flags = f, !.mode = m] :
     f \in {"good", "bad", "help"}, m \in {"run", "profiles", "conformance", "verify"}}
  \cup {[Plain EXCEPT !.profile = p, !.roms = r, !.bin = b, !.disasm = d, !.limit = 0] :
          p \in Profile \cup {"unknown"}, r \in Roms, b \in Programs, d \in BOOLEAN}
  \cup {[Plain EXCEPT !.roms = <<Test>>, !.ports = p, !.terminal = t, !.ready = y,
                      !.debug = d, !.traced = j, !.limit = n] :
          p \in {<<>>, <<<<0, 8>>, <<1, 9>>>>, <<<<0, 8>>, <<1, 8>>>>},
          t \in BOOLEAN, y \in BOOLEAN, d \in BOOLEAN, j \in BOOLEAN, n \in {1, 3}}
MCGoodRequests == 
  {r \in MCRequests : (r.traced => r.debug) /\ (r.terminal => r.ports # <<>>)}
=============================================================================
