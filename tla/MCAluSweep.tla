----------------------------- MODULE MCAluSweep -----------------------------
(* The whole input space: 2 * 256 * 256 states, no bound needed.             *)
EXTENDS AluSweep
===========================================================================
