--------------------------- MODULE MCProgramMap ---------------------------
(***************************************************************************)
(* ProgramMap with two programs, two ECM PIDs and two streams.             *)
(* The PMTs switch a program between clear and scrambled, from one ECM PID *)
(* to the other, from an ECM for the program to one per stream, and let    *)
(* streams come and go; one lists a stream twice.                          *)
(***************************************************************************)
EXTENDS ProgramMap, TLC

CONSTANTS pmt1, pmt2, ecm1, ecm2, v1, v2, emm1, emm2

ES(p, e) == [pid |-> p, ecm |-> e]

MCPats == {<<pmt1>>, <<pmt1, pmt2>>}
MCCats == {emm1}

MCPmts ==
  { [ecm |-> None, es |-> <<ES(v1, None), ES(v2, Clear)>>],
    [ecm |-> ecm1, es |-> <<ES(v1, ecm2), ES(v2, ecm1)>>],
    [ecm |-> ecm2, es |-> <<ES(v2, None)>>],
    [ecm |-> None, es |-> <<ES(v1, ecm1), ES(v1, ecm2)>>] }

MCPmtPids == {pmt1, pmt2}
MCEcmPids == {ecm1, ecm2}
MCEsPids == {v1, v2}
MCEmmPids == {emm1, emm2}
MCSymmetry == Permutations(Dec)
=============================================================================
