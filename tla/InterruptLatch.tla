-------------------------- MODULE InterruptLatch --------------------------
(***************************************************************************)
(* What the interrupt input of the front panel promises its callers,       *)
(* without goroutines, machine cycles or locks: a latch for one request.   *)
(* A request is accepted only into an empty latch and leaves it in one of  *)
(* two ways, executed by the CPU as it was requested, or dropped by a      *)
(* reset.  FrontPanel implements this specification.                       *)
(***************************************************************************)
EXTENDS Naturals

CONSTANTS Request, Empty

VARIABLES slot, lastForced, accepted, forced, dropped

latchVars == <<slot, lastForced, accepted, forced, dropped>>

Init ==
  slot = Empty /\ lastForced = Empty /\ accepted = 0 /\ forced = 0 /\ dropped = 0

Accept(k) ==
  /\ slot = Empty
  /\ slot' = k
  /\ accepted' = accepted + 1
  /\ UNCHANGED <<lastForced, forced, dropped>>

Force ==
  /\ slot # Empty
  /\ slot' = Empty
  /\ lastForced' = slot
  /\ forced' = forced + 1
  /\ UNCHANGED <<accepted, dropped>>

Drop ==
  /\ slot # Empty
  /\ slot' = Empty
  /\ dropped' = dropped + 1
  /\ UNCHANGED <<lastForced, accepted, forced>>

Next == (\E k \in Request : Accept(k)) \/ Force \/ Drop

Spec == Init /\ [][Next]_latchVars
===========================================================================
