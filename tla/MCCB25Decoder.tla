--------------------------- MODULE MCCB25Decoder ---------------------------
(***************************************************************************)
(* CB25Decoder with five packets, one of them a null packet.               *)
(***************************************************************************)
EXTENDS CB25Decoder

CONSTANT c1

MCCard == {c1}
MCNulls == {2}

\* The client never calls Initialize: it leaves it to Decode to make a decoder.
LazySpec ==
  /\ Init /\ [][DecodeWithout \/ Decode \/ Reset \/ Flush \/ Release \/ Tick]_vars
  /\ WF_vars(Tick)
=============================================================================
