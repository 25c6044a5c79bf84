----------------------------- MODULE ByteStream -----------------------------
(***************************************************************************)
(* What the terminal of src/machine/terminal.go promises in either         *)
(* direction: bytes come out in the order they went in, each once, none    *)
(* invented, until the stream breaks; after that nothing comes out at all. *)
(***************************************************************************)
EXTENDS Naturals, Sequences

CONSTANT Byte

VARIABLES
  sent, received,   \* every byte so far
  broken

streamVars == <<sent, received, broken>>

Init == sent = <<>> /\ received = <<>> /\ broken = FALSE

\* Any number of bytes at once.
Send ==
  /\ sent' \in Seq(Byte)
  /\ SubSeq(sent', 1, Len(sent)) = sent
  /\ UNCHANGED <<received, broken>>

Receive ==
  /\ ~broken
  /\ Len(received) < Len(sent)
  /\ received' = Append(received, sent[Len(received) + 1])
  /\ UNCHANGED <<sent, broken>>

Break == broken' = TRUE /\ UNCHANGED <<sent, received>>

Next == Send \/ Receive \/ Break

Spec == Init /\ [][Next]_streamVars
===========================================================================
