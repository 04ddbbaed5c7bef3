---------------------------- MODULE CardSession ----------------------------
(***************************************************************************)
(* What src/aribb25/b_cas_card.h promises its client: after init there may *)
(* be a session with one card in one mode; a command that is called there  *)
(* fails or returns what that card replied to it, never the answer to      *)
(* another command.                                                        *)
(***************************************************************************)
EXTENDS Naturals, Sequences

CONSTANTS
  Card,     \* smart cards
  Command,  \* commands: [op, arg]
  Pages,    \* power-on control entries a card has
  None, Failed, Unknown

VARIABLES
  session,  \* the card the commands go to and the mode it was opened in
  asked,    \* the command called that has not returned
  result    \* how the last call ended

svars == <<session, asked, result>>

Page(n) == [op |-> "pwc", arg |-> n]

\* The replies of card c that answer command q: one for each page of the
\* power-on control table, otherwise one.
Answer(c, q) ==
  IF q.op = "pwc"
    THEN [i \in 1..Pages[c] |-> [by |-> c, to |-> Page(i - 1)]]
    ELSE <<[by |-> c, to |-> q]>>

Init == session = None /\ asked = None /\ result = None

\* init
Open ==
  /\ session = None
  /\ \E c \in Card, m \in 0..1 : session' = [card |-> c, mode |-> m]
  /\ result' = <<>>
  /\ UNCHANGED asked

\* release, and init again, which may fail at once
Close ==
  /\ asked = None
  /\ session' = None /\ result' \in {result, Failed}
  /\ UNCHANGED asked

\* get_id, get_pwr_on_ctrl, proc_ecm, proc_emm
Call(q) ==
  /\ session # None /\ asked = None
  /\ asked' = q
  /\ UNCHANGED <<session, result>>

\* The answer is the one to the command called.
Reply ==
  /\ asked # None
  /\ result' = Answer(session.card, asked)
  /\ asked' = None
  /\ UNCHANGED session

\* The command fails, or init does, or there is no card to call one of.
Fail == result' = Failed /\ asked' = None /\ UNCHANGED session

\* A table with more entries than init made room for: nothing is promised.
Overrun ==
  /\ asked # None /\ asked.op \in {"id", "pwc"}
  /\ result' = Unknown /\ asked' = None
  /\ UNCHANGED session

Next == Open \/ Close \/ (\E q \in Command : Call(q)) \/ Reply \/ Fail \/ Overrun

Spec == Init /\ [][Next]_svars
=============================================================================
