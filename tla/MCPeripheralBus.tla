--------------------------- MODULE MCPeripheralBus ---------------------------
(* Two peripherals, two handlers and two ports: every conflict of two        *)
(* bindings, and of a binding with a handler installed directly.             *)
EXTENDS PeripheralBus, TLC

Symmetry == Permutations(Port) \cup Permutations(Name) \cup Permutations(Handler)
===========================================================================
