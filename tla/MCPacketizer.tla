---------------------------- MODULE MCPacketizer ----------------------------
(***************************************************************************)
(* Packetizer with packets of two bytes in units of two or three.  The     *)
(* start of a stream is enough for the unit size; what follows may be a    *)
(* stray byte or packets, and a packet may be cut.  A stream that begins   *)
(* with PATs only has more of them: every put leaves a rest that is not    *)
(* small.                                                                  *)
(***************************************************************************)
EXTENDS Packetizer

CONSTANTS MaxBytes, MaxPats  \* bounds: bytes received

MCPlain == <<Sync, Other, Other>>
MCBare == <<Sync, Other>>
MCPat == <<Sync, Pat, Other>>
MCStarts ==
  { <<Other>> \o MCPlain \o MCPlain \o MCPlain \o MCPlain,
    MCPlain \o MCPlain \o MCPlain,
    MCBare \o MCBare \o MCBare \o MCBare \o MCBare,
    MCPat \o MCPat \o MCPat \o MCPat }

MCFollowing == { MCPat, <<Sync, Broken, Other>>, <<Sync, Sync>>, <<Other>> }

MCChunk == MCStarts \cup MCFollowing

MCAdmits(s, c) ==
  IF s = <<>> THEN c \in MCStarts
  ELSE IF s[2] = Pat THEN c = MCPat /\ Len(s) + Len(c) <= MaxPats
  ELSE c \in MCFollowing /\ Len(s) + Len(c) <= MaxBytes
=============================================================================
