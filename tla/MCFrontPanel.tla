--------------------------- MODULE MCFrontPanel ---------------------------
(* Bounded instances of FrontPanel for TLC. *)
EXTENDS FrontPanel, TLC

\* Runners are interchangeable: they start in the same state and no action
\* tells them apart.  Used in the safety runs only.
RunnerSymmetry == Permutations(Runner)
===========================================================================
