---------------------------- MODULE MCBCasCard ----------------------------
(***************************************************************************)
(* BCasCard with two readers and up to two cards: one of them B-CAS, the   *)
(* other an ACAS chip.                                                     *)
(***************************************************************************)
EXTENDS BCasCard, TLC

CONSTANTS bcas, acascard, h1, h2, e1, m1

MCCard == {bcas, acascard}
MCHandle == {h1, h2}
MCEcms == {e1}
MCEmms == {m1}
MCNamed == {1, 2}
MCSpeaks == bcas :> {0} @@ acascard :> {1}
MCIds == bcas :> 3 @@ acascard :> 1
MCPages == bcas :> 2 @@ acascard :> 3

\* The client leaves the mode to init: it does not call set_acas_mode.
AutoSpec == Init /\ [][Next /\ acas' = -1]_vars
=============================================================================
