---------------------------- MODULE SectionFeed ----------------------------
(***************************************************************************)
(* What a section parser promises its client: a first-in first-out queue   *)
(* of the sections of one PID in which no section follows its own repeat,  *)
(* and a section the client holds stays as it is until it is returned.     *)
(* Memory, reference counts and packets are the business of                *)
(* SectionParser, which implements this specification.                     *)
(***************************************************************************)
EXTENDS Sequences

VARIABLES
  queue,   \* the sections that wait
  latest,  \* the section queued last, <<>> before the first
  out      \* the section the client holds, or <<>>

vars == <<queue, latest, out>>

Init == queue = <<>> /\ latest = <<>> /\ out = <<>>

\* A section that differs from the latest one arrives.
Deliver ==
  /\ latest' \notin {<<>>, latest}
  /\ queue' = Append(queue, latest')
  /\ UNCHANGED out

Take ==
  /\ out = <<>> /\ queue # <<>>
  /\ out' = Head(queue)
  /\ queue' = Tail(queue)
  /\ UNCHANGED latest

GiveBack ==
  /\ out # <<>> /\ out' = <<>>
  /\ UNCHANGED <<queue, latest>>

Reset ==
  /\ out = <<>>
  /\ queue' = <<>> /\ latest' = <<>>
  /\ UNCHANGED out

Next == Deliver \/ Take \/ GiveBack \/ Reset

Spec == Init /\ [][Next]_vars
=============================================================================
