----------------------------- MODULE MCDecoder -----------------------------
(***************************************************************************)
(* Decoder on small streams of one program or two.  Each run has a stream  *)
(* of its own.                                                             *)
(***************************************************************************)
EXTENDS Decoder, TLC

CONSTANTS pmt1, pmt2, ecm1, ecm2, v1, v2, emm1, emm2, e1, e2, own, other

MCPmtPids == {pmt1, pmt2}
MCEcmPids == {ecm1, ecm2}
MCEsPids == {v1, v2}
MCEmmPids == {emm1, emm2}
MCEcms == {e1, e2}
MCEmms == {own, other}
MCOwn == {own}

ES(p, e) == [pid |-> p, ecm |-> e]

PmtClear == [ecm |-> None, es |-> <<ES(v1, None)>>]
PmtOne == [ecm |-> ecm1, es |-> <<ES(v1, None)>>]
PmtTwo == [ecm |-> ecm2, es |-> <<ES(v1, None)>>]
PmtBoth == [ecm |-> ecm1, es |-> <<ES(v1, ecm2)>>]

MCPats == {<<pmt1>>, <<pmt1, pmt2>>}
MCCats == {emm1, emm2}
MCPmts == {PmtClear, PmtOne, PmtTwo, PmtBoth}

\* The packets by name
K(p, kind) == [pid |-> p, kind |-> kind, val |-> None]
S(p, val) == [pid |-> p, kind |-> "section", val |-> val]

MCPackets ==
  [ pat1        |-> S(PatPid, <<pmt1>>),
    patBoth     |-> S(PatPid, <<pmt1, pmt2>>),
    patForeign  |-> S(PatPid, Foreign),
    patEmpty    |-> K(PatPid, "empty"),
    pmtClear    |-> S(pmt1, PmtClear),
    pmtOne      |-> S(pmt1, PmtOne),
    pmtTwo      |-> S(pmt1, PmtTwo),
    pmtBoth     |-> S(pmt1, PmtBoth),
    pmtForeign  |-> S(pmt1, Foreign),
    otherPmt    |-> S(pmt2, PmtTwo),
    ecmFirst    |-> S(ecm1, e1),
    ecmNext     |-> S(ecm1, e2),
    ecmForeign  |-> S(ecm1, Foreign),
    otherEcm    |-> S(ecm2, e1),
    video       |-> K(v1, "scrambled"),
    stray       |-> K(v2, "scrambled"),
    damaged     |-> K(v1, "damaged"),
    null        |-> K(NullPid, "part"),
    cat1        |-> S(CatPid, emm1),
    cat2        |-> S(CatPid, emm2),
    catForeign  |-> S(CatPid, Foreign),
    emmOwn      |-> S(emm1, own),
    emmOther    |-> S(emm1, other),
    emmPart     |-> K(emm1, "part"),
    emmMoved    |-> S(emm2, own) ]

\* Start-up: any order of four packets.
Start == {"pat1", "patBoth", "pmtOne", "ecmFirst", "video", "patEmpty"}
StreamStart == <<{"pat1", "patBoth", "video"}, Start, Start, Start>>

\* One program after its start: ECMs, EMMs and scrambled packets.
StreamCard == <<{"pat1"}, {"pmtOne"}, {"ecmFirst", "ecmForeign"}, {"cat1"},
                {"ecmNext", "emmOwn", "video"}, {"emmOwn", "ecmNext"}, {"video"}>>

\* A program that changes its ECM PID or wants a second one, for a decoder
\* with room for one decryptor only.
StreamNoMemory == <<{"pat1"}, {"pmtOne"}, {"pmtTwo", "pmtBoth", "patEmpty", "ecmFirst"},
                    {"pmtTwo", "pmtBoth", "null", "patBoth"}, {"null", "ecmNext"}, {"video"}>>

\* Two programs, two ECM PIDs, sections of other tables.
StreamTables ==
  << {"pat1", "patBoth"},
     {"pmtOne", "pmtForeign", "patForeign"},
     {"otherPmt", "patForeign"},
     {"ecmFirst", "pmtTwo", "cat1", "catForeign"},
     {"otherEcm", "emmOther", "damaged"},
     {"ecmNext", "pmtForeign", "stray", "emmPart", "null"},
     {"video"} >>

OneProgram == {StreamStart, StreamCard, StreamNoMemory}
ManyTables == {StreamTables}

\* A CAT, and then a new PAT: what section 6 of README.md describes.
Emm == {<<{"pat1"}, {"pmtClear"}, {"cat1"}, {"patBoth"}, {"video"}>>}
=============================================================================
