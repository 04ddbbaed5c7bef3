-------------------------- MODULE MCSectionParser --------------------------
(***************************************************************************)
(* SectionParser on a small byte alphabet: byte 1 of a section says        *)
(* whether it is long, byte 2 how many bytes follow; a long header has     *)
(* three bytes.  The payloads are cut from two long sections and a short   *)
(* one, before, inside and behind their headers.  Any of them may follow   *)
(* any other, as a start or as a continuation, so packets are lost,        *)
(* repeated and reordered, and sections of different packets get mixed.    *)
(***************************************************************************)
EXTENDS SectionParser

LongA == <<1, 2, 1, 2>>
LongB == <<1, 1, 2>>
ShortC == <<0, 1, 1>>

MCByte == 0..3
MCGenuine == {LongA, LongB}

MCPayloads ==
  { <<>>,                        \* an adaptation field only
    <<3>>,                       \* stuffing, or a pointer beyond the end
    <<0>> \o LongA,
    <<0>> \o LongB \o ShortC,    \* two sections, or bytes without a CRC
    <<0>> \o ShortC \o <<3>>,    \* a section and stuffing
    <<0, 1>>,                    \* a section cut inside its header
    <<0, 1, 2, 1>>,              \* and behind it
    <<2, 1, 2>>,                 \* the end of LongA
    <<1, 2>> \o LongB }          \* the same after a pointer, then LongB
=============================================================================
