---------------------------- MODULE MCIoPorts ----------------------------
(* One port number, so two places, on which every binding is attached by two *)
(* peripherals with two handlers, the terminal's and another's.              *)
EXTENDS IoPorts, TLC

MCData == {<<1>>, <<0, 1>>}
Symmetry == Permutations(Name)
===========================================================================
