------------------------------ MODULE BCasCard ------------------------------
(***************************************************************************)
(* The card session of src/aribb25/b_cas_card.c: init with its search      *)
(* through the readers, the commands with their retries, teardown.         *)
(*                                                                         *)
(* PC/SC and the cards are external: a card may be pulled or inserted at   *)
(* any time, a connection may be refused, a command may fail or get a      *)
(* short answer.  A handle to a card that was pulled stays dead.           *)
(***************************************************************************)
EXTENDS Integers, Sequences, FiniteSets

CONSTANTS
  Card, None, Failed, Unknown,
  Handle,      \* SCARDHANDLEs
  Readers,     \* number of readers SCardListReaders lists
  Named,       \* those override_card_reader_name_pattern or "" selects
  Speaks,      \* modes in which a card takes the initial settings command
  Ids, Pages,  \* number of card IDs and of power-on control entries of a card
  Ecms, Emms,
  Room,        \* entries of the tables init allocates: 16
  MaxEvents    \* bound: cards pulled or inserted

Slot == 1..Readers

Page(n) == [op |-> "pwc", arg |-> n]
Settings == [op |-> "init", arg |-> None]
IdQuery == [op |-> "id", arg |-> None]
Ecm(e) == [op |-> "ecm", arg |-> e]
Emm(m) == [op |-> "emm", arg |-> m]

Command == {IdQuery, Page(0)} \cup {Ecm(e) : e \in Ecms} \cup {Emm(m) : m \in Emms}

ASSUME CardAssumption ==
  /\ Readers \in Nat /\ Named \subseteq Slot
  /\ Speaks \in [Card -> SUBSET (0..1)]
  /\ Ids \in [Card -> Nat] /\ Pages \in [Card -> Nat]
  /\ MaxEvents \in Nat
  /\ None \notin Card \cup Handle
  /\ None \notin [card : Card, alive : BOOLEAN, mode : 0..1] \cup [card : Card, mode : 0..1]
  /\ None \notin Command

VARIABLES
  b1,        \* ENABLE_ARIB_STD_B1: which of the two libraries this is
  acas,      \* -1 when set_acas_mode was not called: find out
  mng,       \* a PC/SC context is held
  card,      \* the handle in use, or None
  pool,      \* "none", "own", or "stray": the tables lie in a block given back
  stat,      \* the card whose system key and CBC stat holds
  rbuf,      \* the last answer: [by, to, as]
  pc, at, mode, tries, pages,  \* the call that runs
  sbuf,      \* its command: [query, mode]; every call writes it anew
  tried,     \* history: readers and modes init has tried in vain
  result,    \* how the last call ended
  slot,      \* the card in each reader
  conn,      \* the open handles: [card, alive, mode]
  contexts,  \* PC/SC contexts not released
  events     \* bound

prv == <<acas, mng, card, pool, stat>>
place == <<pc, at, mode, tries, pages, sbuf, tried>>
outside == <<b1, slot, conn, contexts, events>>
vars == <<prv, rbuf, place, result, outside>>

Init ==
  /\ b1 \in BOOLEAN
  /\ acas = -1 /\ mng = FALSE /\ card = None /\ pool = "none" /\ stat = None
  /\ rbuf = None
  /\ pc = "idle" /\ at = 1 /\ mode = 0 /\ tries = 0 /\ pages = <<>>
  /\ sbuf = None /\ tried = {} /\ result = None
  /\ slot \in [Slot -> Card \cup {None}]
  /\ \A r, s \in Slot : slot[r] = slot[s] /\ r # s => slot[r] = None
  /\ conn = [h \in Handle |-> None] /\ contexts = 0 /\ events = 0

\* The call returns: what is local to it is gone.
Return(r) ==
  /\ pc' = "idle" /\ at' = 1 /\ mode' = 0 /\ tries' = 0 /\ pages' = <<>>
  /\ sbuf' = None /\ tried' = {}
  /\ result' = r

Opened == {h \in Handle : conn[h] # None}

----------------------------------------------------------------------------
(* The readers and the cards: external.                                    *)

Pull(r) ==
  /\ events < MaxEvents /\ events' = events + 1
  /\ slot[r] # None
  /\ slot' = [slot EXCEPT ![r] = None]
  /\ conn' = [h \in Handle |->
                IF conn[h] # None /\ conn[h].card = slot[r]
                  THEN [conn[h] EXCEPT !.alive = FALSE] ELSE conn[h]]
  /\ UNCHANGED <<prv, rbuf, place, result, b1, contexts>>

Insert(r, c) ==
  /\ events < MaxEvents /\ events' = events + 1
  /\ slot[r] = None /\ \A s \in Slot : slot[s] # c
  /\ slot' = [slot EXCEPT ![r] = c]
  /\ UNCHANGED <<prv, rbuf, place, result, conn, b1, contexts>>

\* What SCardTransmit may do with sbuf: fail and leave rbuf, or bring an
\* answer, which may be short.  A card that does not take the command in this
\* mode answers with another return code, and to the ID query, whose return
\* code is not read, with no IDs.
Outcomes ==
  LET k == conn[card]
      Full(as) == [ok |-> TRUE, buf |-> [by |-> k.card, to |-> sbuf.query, as |-> as]]
      understood == IF sbuf.query = Settings THEN sbuf.mode \in Speaks[k.card]
                                             ELSE sbuf.mode = k.mode
  IN  {[ok |-> FALSE, buf |-> rbuf]}
      \cup (IF k.alive
              THEN {Full("short"), Full(IF understood THEN "full" ELSE "refused")}
              ELSE {})

Good(o) == o.ok /\ o.buf.as = "full"

\* The B1 build does not read the return code of the initial settings.
Taken(o) == o.ok /\ (o.buf.as = "full" \/ (b1 /\ o.buf.as = "refused"))

----------------------------------------------------------------------------
(* init and release                                                        *)

\* The card is disconnected: in teardown, and when it does not answer
Teardown ==
  /\ card' = None
  /\ conn' = IF card = None THEN conn ELSE [conn EXCEPT ![card] = None]

Held == IF mng THEN 1 ELSE 0

\* release_b_cas_card, and create_b_cas_card again
Release ==
  /\ pc = "idle"
  /\ Teardown
  /\ mng' = FALSE /\ contexts' = contexts - Held /\ pool' = "none"
  /\ acas' = -1 /\ stat' = None /\ rbuf' = None
  /\ UNCHANGED <<place, result, b1, slot, events>>

\* set_acas_mode_b_cas_card
SetMode(m) ==
  /\ pc = "idle"
  /\ acas' = m
  /\ UNCHANGED <<mng, card, pool, stat, rbuf, place, result, outside>>

\* init_b_cas_card_with_name up to the loop: the context, the list of readers
\* and the pool are to be had or not.
Start ==
  /\ pc = "idle"
  /\ Teardown
  /\ \E held, room, listed \in BOOLEAN :
       /\ room => held
       /\ listed => room
       /\ mng' = held
       /\ contexts' = (contexts - Held) + (IF held THEN 1 ELSE 0)
       /\ pool' = IF room THEN "own" ELSE "none"
       /\ IF listed
            THEN /\ pc' = "connect" /\ mode' = IF acas < 0 THEN 0 ELSE acas
                 /\ UNCHANGED <<at, tries, pages, sbuf, tried, result>>
            ELSE Return(Failed)
  /\ rbuf' = None
  /\ UNCHANGED <<acas, stat, b1, slot, events>>

\* A reader that does not match, or does not connect
SkipReader ==
  /\ pc = "connect" /\ at \in Slot
  /\ at' = at + 1
  /\ tried' = IF at \in Named THEN tried \cup {<<at, mode>>} ELSE tried
  /\ UNCHANGED <<prv, rbuf, pc, mode, tries, pages, sbuf, result, outside>>

\* connect_card: SCardConnect
Connect ==
  /\ pc = "connect" /\ at \in Named /\ slot[at] # None
  /\ \E h \in Handle \ Opened :
       /\ card' = h
       /\ conn' = [conn EXCEPT ![h] = [card |-> slot[at], alive |-> TRUE, mode |-> mode]]
  /\ sbuf' = [query |-> Settings, mode |-> mode]
  /\ pc' = "settings"
  /\ UNCHANGED <<acas, mng, pool, stat, rbuf, at, mode, tries, pages, tried, result,
                 b1, slot, contexts, events>>

\* The reader is given up.
NextReader ==
  /\ pc' = "connect" /\ at' = at + 1 /\ sbuf' = None
  /\ tried' = tried \cup {<<at, mode>>}
  /\ UNCHANGED <<mode, tries, pages, result>>

\* Mutant of SettingsSent: the handle that did not answer is forgotten.
SettingsSentLeaks ==
  /\ pc = "settings"
  /\ \E o \in Outcomes :
       /\ rbuf' = o.buf
       /\ IF Taken(o)
            THEN stat' = o.buf.by /\ Return(<<>>) /\ UNCHANGED card
            ELSE NextReader /\ card' = None /\ UNCHANGED stat
  /\ UNCHANGED <<acas, mng, pool, conn, b1, slot, contexts, events>>

\* Mutant of SettingsSent: the keys are copied once only.
SettingsSentKeepsStat ==
  /\ pc = "settings"
  /\ \E o \in Outcomes :
       /\ rbuf' = o.buf
       /\ IF Taken(o)
            THEN /\ stat' = (IF stat = None THEN o.buf.by ELSE stat)
                 /\ Return(<<>>) /\ UNCHANGED <<card, conn>>
            ELSE NextReader /\ Teardown /\ UNCHANGED stat
  /\ UNCHANGED <<acas, mng, pool, b1, slot, contexts, events>>

\* connect_card: the initial settings command
SettingsSent ==
  /\ pc = "settings"
  /\ \E o \in Outcomes :
       /\ rbuf' = o.buf
       /\ IF Taken(o)
            THEN stat' = o.buf.by /\ Return(<<>>) /\ UNCHANGED <<card, conn>>
            ELSE NextReader /\ Teardown /\ UNCHANGED stat
  /\ UNCHANGED <<acas, mng, pool, b1, slot, contexts, events>>

\* Mutant of ReadersDone: the second round begins where the first one ended.
ReadersDoneLate ==
  /\ pc = "connect" /\ at \notin Slot
  /\ IF acas < 0 /\ mode = 0
       THEN at' = Readers /\ mode' = 1 /\ UNCHANGED <<pc, tries, pages, sbuf, tried, result>>
       ELSE Return(Failed)
  /\ UNCHANGED <<prv, rbuf, outside>>

\* The end of the list: once more in ACAS mode, or no card
ReadersDone ==
  /\ pc = "connect" /\ at \notin Slot
  /\ IF acas < 0 /\ mode = 0
       THEN at' = 1 /\ mode' = 1 /\ UNCHANGED <<pc, tries, pages, sbuf, tried, result>>
       ELSE Return(Failed)
  /\ UNCHANGED <<prv, rbuf, outside>>

----------------------------------------------------------------------------
(* Commands                                                                *)

\* The tables are where the pointers point to.
Ready == pc = "idle" /\ pool # "stray"

\* Without a card, and what the B1 build does not support
Refuse(q) ==
  /\ Ready
  /\ card = None \/ (b1 /\ q.op \in {"pwc", "emm"})
  /\ result' = Failed
  /\ UNCHANGED <<prv, rbuf, place, outside>>

\* get_id, get_pwr_on_ctrl, proc_ecm, proc_emm: the command is built.
Call(q) ==
  /\ Ready /\ card # None
  /\ b1 => q.op \notin {"pwc", "emm"}
  /\ sbuf' = [query |-> q, mode |-> IF acas > 0 THEN 1 ELSE 0]
  /\ pc' = q.op
  /\ UNCHANGED <<prv, rbuf, at, mode, tries, pages, tried, result, outside>>

Mine(o) == [by |-> o.buf.by, to |-> o.buf.to]

\* How often a command is sent again
MaxRetries == 2

\* Mutant of Answered: only the length is looked at, which a call that fails
\* does not change.
AnsweredByLength(o) == rbuf # None /\ o.buf.as # "short"

Answered(o) == o.ok /\ o.buf.as # "short"

\* Mutant of Retry: the failed attempts are not counted.
RetryForever ==
  /\ pc \in {"ecm", "emm"}
  /\ \E o \in Outcomes :
       /\ rbuf' = o.buf
       /\ IF Answered(o) THEN Return(<<Mine(o)>>) ELSE UNCHANGED <<place, result>>
  /\ UNCHANGED <<prv, outside>>

\* proc_ecm and proc_emm: a command that fails is sent again.  The B1 build takes a
\* short last answer to an ECM for an answer.
Retry ==
  /\ pc \in {"ecm", "emm"}
  /\ \E o \in Outcomes :
       /\ rbuf' = o.buf
       /\ \/ /\ ~Answered(o) /\ tries < MaxRetries
             /\ tries' = tries + 1
             /\ UNCHANGED <<pc, at, mode, pages, sbuf, tried, result>>
          \/ /\ ~Answered(o) /\ tries = MaxRetries
             /\ Return(IF b1 /\ o.ok /\ pc = "ecm" THEN <<Mine(o)>> ELSE Failed)
          \/ /\ Answered(o)
             /\ Return(<<Mine(o)>>)
  /\ UNCHANGED <<prv, outside>>

\* change_id_max, change_pwc_max: a new pool is to be had or not.  The tables
\* and buffers are laid out in the old one, which is given back.
Grow ==
  \/ Return(Failed) /\ UNCHANGED pool
  \/ Return(Unknown) /\ pool' = "stray"

\* get_id
IdSent ==
  /\ pc = "id"
  /\ \E o \in Outcomes :
       /\ rbuf' = o.buf
       /\ IF ~Good(o) THEN Return(Failed) /\ UNCHANGED pool
          ELSE IF Ids[o.buf.by] > Room THEN Grow
          ELSE Return(<<Mine(o)>>) /\ UNCHANGED pool
  /\ UNCHANGED <<acas, mng, card, stat, outside>>

\* get_pwr_on_ctrl: page by page, the number of them in the first answer
PageSent ==
  /\ pc = "pwc"
  /\ \E o \in Outcomes :
       /\ rbuf' = o.buf
       /\ IF ~Good(o) THEN Return(Failed) /\ UNCHANGED pool
          ELSE LET n == Pages[o.buf.by]
                   got == Append(pages, Mine(o))
               IN  \/ n = 0 /\ Return(<<>>) /\ UNCHANGED pool
                   \/ n > Room /\ Grow
                   \/ n \in 1..Len(got) /\ Return(got) /\ UNCHANGED pool
                   \/ /\ Len(got) < n /\ n <= Room
                      /\ pages' = got
                      /\ sbuf' = [sbuf EXCEPT !.query = Page(Len(got))]
                      /\ UNCHANGED <<pc, at, mode, tries, tried, result, pool>>
  /\ UNCHANGED <<acas, mng, card, stat, outside>>

Inside == SkipReader \/ Connect \/ SettingsSent \/ ReadersDone \/ Retry \/ IdSent \/ PageSent

Next ==
  \/ \E r \in Slot : Pull(r) \/ \E c \in Card : Insert(r, c)
  \/ Release \/ Start \/ \E m \in 0..1 : SetMode(m)
  \/ \E q \in Command : Refuse(q) \/ Call(q)
  \/ Inside

Spec == Init /\ [][Next]_vars

\* A called function runs on.
FairSpec == Spec /\ WF_vars(Inside)

----------------------------------------------------------------------------
(* Properties. *)

\* The state has the types its declarations give it.
TypeOK ==
  /\ b1 \in BOOLEAN /\ acas \in -1..1 /\ mng \in BOOLEAN /\ card \in Handle \cup {None}
  /\ pool \in {"none", "own", "stray"} /\ stat \in Card \cup {None}
  /\ pc \in {"idle", "connect", "settings", "id", "pwc", "ecm", "emm"}
  /\ at \in 1..(Readers + 1) /\ mode \in 0..1 /\ tries \in 0..2
  /\ slot \in [Slot -> Card \cup {None}]
  /\ conn \in [Handle -> [card : Card, alive : BOOLEAN, mode : 0..1] \cup {None}]
  /\ contexts \in Nat

\* No handle and no context is leaked or used after it was given back, however
\* init ends, whether it is called again, and whatever the cards do meanwhile.
HandlesExact ==
  /\ Opened = IF card = None THEN {} ELSE {card}
  /\ contexts = IF mng THEN 1 ELSE 0

\* get_init_status gives the system key of the card the commands go to, also
\* when init is called again and finds another one.
KeysOfCard == pc = "idle" /\ card # None => stat = conn[card].card

\* The modes init may open a card in
Modes == IF acas < 0 THEN 0..1 ELSE {acas}

\* init takes the first reader it may take whose card answers, and ACAS mode
\* only when B-CAS mode has failed on every one of them (README.md:69).  Its
\* search ends without a card only when every one has failed in every mode.
FirstThatAnswers ==
  [][/\ pc = "settings" /\ pc' = "idle" =>
          /\ \A r \in Named : r < at => <<r, mode>> \in tried
          /\ acas < 0 /\ mode = 1 => \A r \in Named : <<r, 0>> \in tried
     /\ pc = "connect" /\ pc' = "idle" => Named \X Modes \subseteq tried]_vars

\* What a command returns is the answer of the card in the session to the
\* command called, never one that an earlier command left in rbuf, over retries,
\* pulled cards and calls of init.
Session == INSTANCE CardSession WITH
  session <- IF card = None \/ pc = "settings" THEN None
             ELSE [card |-> conn[card].card, mode |-> conn[card].mode],
  asked <- CASE pc \in {"id", "ecm", "emm"} -> sbuf.query
             [] pc = "pwc" -> Page(0)
             [] OTHER -> None

SessionSpec == Session!Spec

\* Every call comes to its end, also when the card is pulled in between.
CommandsReturn == pc # "idle" ~> pc = "idle"

\* README.md:69: when B-CAS mode fails ACAS mode is tried instead.  So the
\* commands to a card that init has opened in ACAS mode by itself are those of
\* ACAS mode.
ModeMatches ==
  acas < 0 /\ pc \in {"id", "pwc", "ecm", "emm"} => sbuf.mode = conn[card].mode
=============================================================================
