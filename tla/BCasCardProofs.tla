--------------------------- MODULE BCasCardProofs ---------------------------
(***************************************************************************)
(* The card session, for any readers, cards, handles and tables: handles   *)
(* and keys, and that BCasCard implements CardSession.                     *)
(***************************************************************************)
EXTENDS BCasCard, SequenceTheorems, TLAPS

Commands == {"id", "pwc", "ecm", "emm"}
Connection == [card : Card, alive : BOOLEAN, mode : 0..1]

\* The handle in use is the one that is open, and a call that talks to a card
\* has one.
HandleInv ==
  /\ \A h \in Handle : conn[h] # None <=> h = card
  /\ contexts = IF mng THEN 1 ELSE 0
  /\ pc \in Commands \cup {"settings"} => card # None
  /\ pc = "connect" => card = None
  /\ pc = "settings" => at \in Slot

\* stat has the keys of that card once it has answered.
StatInv == card # None /\ pc # "settings" => stat = conn[card].card

\* The pages got so far are those of the card, and there are more.
PagesGot ==
  /\ \A k \in 1..Len(pages) : pages[k] = [by |-> conn[card].card, to |-> Page(k - 1)]
  /\ pages # <<>> => Len(pages) < Pages[conn[card].card]
  /\ sbuf = [query |-> Page(Len(pages)), mode |-> sbuf.mode]

\* The command in the send buffer is that of the call.
CommandInv ==
  /\ pages \in Seq([by : Card, to : {Page(n) : n \in Nat}])
  /\ pc # "pwc" => pages = <<>>
  /\ pc = "pwc" => PagesGot
  /\ pc \in {"id", "ecm", "emm"} => sbuf.query \in Command /\ sbuf.query.op = pc

\* The readers passed by, and those of the round in B-CAS mode, were tried.
TriedInv ==
  /\ pc = "idle" => at = 1
  /\ pc \in {"connect", "settings"} =>
       /\ acas >= 0 => mode = acas
       /\ \A r \in Named : r < at => <<r, mode>> \in tried
       /\ acas < 0 /\ mode = 1 => \A r \in Named : <<r, 0>> \in tried

IInv == TypeOK /\ HandleInv /\ StatInv /\ CommandInv /\ TriedInv

----------------------------------------------------------------------------
LEMMA ConnectionOK == None \notin Card /\ None \notin Handle /\ None \notin Connection
BY CardAssumption DEF Connection

\* An answer is that of the card in use to the command in the send buffer.
LEMMA OutcomeOK ==
  ASSUME IInv, card # None, NEW o \in Outcomes
  PROVE  /\ conn[card] \in Connection /\ card \in Handle
         /\ o.ok => o.buf.by = conn[card].card /\ o.buf.to = sbuf.query
<1>1. card \in Handle /\ conn[card] \in Connection
  BY DEF IInv, TypeOK, HandleInv, Connection
<1> QED BY <1>1 DEF Outcomes

----------------------------------------------------------------------------
LEMMA InitInv == Init => IInv
<1> SUFFICES ASSUME Init PROVE IInv
  OBVIOUS
<1>1. at \in 1..(Readers + 1) /\ acas \in -1..1 /\ contexts \in Nat /\ mode \in 0..1 /\ tries \in 0..2
  BY CardAssumption DEF Init
<1>2. conn \in [Handle -> Connection \cup {None}] /\ mng \in BOOLEAN
  BY DEF Init
<1>3. TypeOK
  BY <1>1, <1>2 DEF Init, TypeOK, Connection
<1>4. HandleInv /\ StatInv
  BY CardAssumption DEF Init, HandleInv, StatInv, Commands
<1>5. CommandInv /\ TriedInv
  BY DEF Init, CommandInv, TriedInv
<1> QED BY <1>3, <1>4, <1>5 DEF IInv

\* A card is pulled or inserted: no handle becomes another's.
LEMMA EventInv ==
  ASSUME IInv, NEW r \in Slot, Pull(r) \/ \E c \in Card : Insert(r, c)
  PROVE  IInv' /\ \A h \in Handle : conn[h] # None => /\ conn'[h].card = conn[h].card
                                                       /\ conn'[h].mode = conn[h].mode
<1> USE ConnectionOK
<1>1. UNCHANGED <<prv, rbuf, place, result, b1, contexts>>
  BY DEF Pull, Insert
<1>2. conn \in [Handle -> Connection \cup {None}] /\ slot \in [Slot -> Card \cup {None}]
  BY DEF IInv, TypeOK, Connection
<1>3. ASSUME NEW h \in Handle
      PROVE  /\ conn'[h] \in Connection \cup {None}
             /\ conn'[h] = None <=> conn[h] = None
             /\ conn[h] # None => /\ conn'[h].card = conn[h].card
                                  /\ conn'[h].mode = conn[h].mode
  <2>1. conn'[h] \in {conn[h], [conn[h] EXCEPT !.alive = FALSE]}
        /\ (conn[h] = None => conn'[h] = None)
    BY <1>2 DEF Pull, Insert
  <2>2. CASE conn[h] = None
    BY <2>1, <2>2
  <2>3. CASE conn[h] # None
    <3>1. conn[h] \in Connection
      BY <1>2, <2>3
    <3>2. [conn[h] EXCEPT !.alive = FALSE] \in Connection
          /\ [conn[h] EXCEPT !.alive = FALSE].card = conn[h].card
          /\ [conn[h] EXCEPT !.alive = FALSE].mode = conn[h].mode
      BY <3>1 DEF Connection
    <3> QED
      BY <2>1, <3>1, <3>2
  <2> QED
    BY <2>2, <2>3
<1>4. conn' = [h \in Handle |-> conn'[h]] /\ slot' \in [Slot -> Card \cup {None}]
  BY <1>2 DEF Pull, Insert
<1>5. conn' \in [Handle -> Connection \cup {None}]
  BY <1>3, <1>4
<1>6. TypeOK'
  BY <1>1, <1>4, <1>5 DEF IInv, TypeOK, prv, place, Connection
<1>7. HandleInv' /\ StatInv'
  BY <1>1, <1>3 DEF IInv, TypeOK, HandleInv, StatInv, prv, place
<1>8. CommandInv'
  BY <1>1, <1>3 DEF IInv, TypeOK, HandleInv, CommandInv, PagesGot, prv, place, Commands
<1>9. TriedInv'
  BY <1>1 DEF IInv, TriedInv, prv, place
<1> QED BY <1>3, <1>6, <1>7, <1>8, <1>9 DEF IInv

\* teardown closes the handle in use, and no other is open.
LEMMA TeardownOK ==
  ASSUME IInv, Teardown
  PROVE  /\ card' = None /\ conn' \in [Handle -> Connection \cup {None}]
         /\ \A h \in Handle : conn'[h] = None
<1>1. conn \in [Handle -> Connection \cup {None}] /\ \A h \in Handle : conn[h] # None <=> h = card
  BY DEF IInv, TypeOK, HandleInv, Connection
<1>2. CASE card = None
  BY <1>1, <1>2, ConnectionOK DEF Teardown
<1>3. CASE card # None
  BY <1>1, <1>3 DEF Teardown
<1> QED
  BY <1>2, <1>3

\* The call ends where it began.
LEMMA ReturnOK ==
  ASSUME NEW r, Return(r)
  PROVE  /\ pc' = "idle" /\ at' \in 1..(Readers + 1) /\ mode' \in 0..1 /\ tries' \in 0..2
         /\ pages' = <<>> /\ CommandInv' /\ TriedInv' /\ result' = r
<1>1. 1 \in 1..(Readers + 1)
  BY CardAssumption
<1>2. pc' = "idle" /\ pages' = <<>>
  BY DEF Return
<1>3. CommandInv'
  BY <1>2 DEF CommandInv
<1>4. TriedInv'
  BY DEF Return, TriedInv
<1> QED
  BY <1>1, <1>2, <1>3, <1>4 DEF Return

LEMMA ReleaseInv == IInv /\ Release => IInv'
<1> SUFFICES ASSUME IInv, Release PROVE IInv'
  OBVIOUS
<1> USE ConnectionOK
<1>1. /\ card' = None /\ conn' \in [Handle -> Connection \cup {None}]
      /\ \A h \in Handle : conn'[h] = None
  BY TeardownOK DEF Release
<1>2. /\ mng' = FALSE /\ mng' \in BOOLEAN /\ contexts' = 0 /\ pool' = "none" /\ acas' = -1 /\ stat' = None
      /\ pc = "idle" /\ UNCHANGED <<pc, at, mode, tries, pages, sbuf, tried, result, b1, slot>>
  <2>1. contexts = Held /\ Held \in Nat
    BY DEF IInv, HandleInv, Held
  <2>2. mng' = FALSE /\ contexts' = 0
    BY <2>1 DEF Release
  <2>3. mng' \in BOOLEAN
    BY <2>2
  <2> QED
    BY <2>2, <2>3 DEF Release, place
<1>3. TypeOK'
  BY <1>1, <1>2 DEF IInv, TypeOK, Connection
<1>4. HandleInv' /\ StatInv'
  BY <1>1, <1>2 DEF HandleInv, StatInv, Commands
<1>5. CommandInv' /\ TriedInv'
  BY <1>2 DEF IInv, CommandInv, TriedInv
<1> QED BY <1>3, <1>4, <1>5 DEF IInv

LEMMA StartInv == IInv /\ Start => IInv'
<1> SUFFICES ASSUME IInv, Start PROVE IInv'
  OBVIOUS
<1> USE ConnectionOK
<1>1. /\ card' = None /\ conn' \in [Handle -> Connection \cup {None}]
      /\ \A h \in Handle : conn'[h] = None
  BY TeardownOK DEF Start
<1>2. PICK held, room, listed \in BOOLEAN :
       /\ mng' = held
       /\ contexts' = (contexts - Held) + (IF held THEN 1 ELSE 0)
       /\ pool' = IF room THEN "own" ELSE "none"
       /\ IF listed
            THEN /\ pc' = "connect" /\ mode' = IF acas < 0 THEN 0 ELSE acas
                 /\ UNCHANGED <<at, tries, pages, sbuf, tried, result>>
            ELSE Return(Failed)
  BY DEF Start
<1>3. /\ mng' \in BOOLEAN /\ contexts' = (IF mng' THEN 1 ELSE 0) /\ contexts' \in Nat
      /\ pool' \in {"own", "none"} /\ pc = "idle" /\ UNCHANGED <<acas, stat, b1, slot>>
  BY <1>2 DEF Start, IInv, HandleInv, Held
<1>4. /\ pc' \in {"idle", "connect"} /\ at' \in 1..(Readers + 1) /\ mode' \in 0..1
      /\ tries' \in 0..2 /\ pages' = <<>>
  <2>1. CASE listed
    BY <1>2, <1>3, <2>1 DEF IInv, TypeOK, CommandInv
  <2>2. CASE ~listed
    BY <1>2, <2>2, ReturnOK
  <2> QED
    BY <2>1, <2>2
<1>5. TypeOK'
  BY <1>1, <1>3, <1>4 DEF IInv, TypeOK, Connection
<1>6. HandleInv' /\ StatInv'
  BY <1>1, <1>3, <1>4 DEF HandleInv, StatInv, Commands
<1>7. CommandInv'
  BY <1>4 DEF CommandInv
<1>8. TriedInv'
  <2>1. CASE listed
    <3>1. at' = 1 /\ (acas' < 0 => mode' = 0) /\ (acas' >= 0 => mode' = acas') /\ pc' = "connect"
      BY <1>2, <1>3, <2>1 DEF IInv, TriedInv, TypeOK
    <3> QED
      BY <3>1, CardAssumption DEF TriedInv, Slot
  <2>2. CASE ~listed
    BY <1>2, <2>2, ReturnOK
  <2> QED
    BY <2>1, <2>2
<1> QED BY <1>5, <1>6, <1>7, <1>8 DEF IInv

\* Neither cards nor the command at work are concerned.
Quiet == UNCHANGED <<mng, card, pool, stat, pages, sbuf, pc, tries, b1, slot, conn, contexts>>

LEMMA QuietInv ==
  ASSUME IInv, Quiet, acas' \in -1..1, at' \in 1..(Readers + 1), mode' \in 0..1, TriedInv',
         pc # "settings"
  PROVE  IInv'
<1>1. TypeOK'
  BY DEF Quiet, IInv, TypeOK
<1>2. HandleInv' /\ StatInv' /\ CommandInv'
  BY DEF Quiet, IInv, HandleInv, StatInv, CommandInv, PagesGot
<1> QED BY <1>1, <1>2 DEF IInv

LEMMA SetModeInv ==
  ASSUME IInv, NEW m \in 0..1, SetMode(m)
  PROVE  IInv'
<1>1. Quiet /\ pc = "idle" /\ acas' \in -1..1 /\ UNCHANGED <<at, mode, tried>>
  BY DEF SetMode, Quiet, place, outside
<1>2. TriedInv'
  BY <1>1 DEF Quiet, IInv, TriedInv
<1> QED BY <1>1, <1>2, QuietInv DEF IInv, TypeOK

LEMMA RefuseInv ==
  ASSUME IInv, NEW q, Refuse(q)
  PROVE  IInv'
<1>1. Quiet /\ pc = "idle" /\ UNCHANGED <<acas, at, mode, tried>>
  BY DEF Refuse, Ready, Quiet, prv, place, outside
<1>2. TriedInv'
  BY <1>1 DEF Quiet, IInv, TriedInv
<1> QED BY <1>1, <1>2, QuietInv DEF IInv, TypeOK

LEMMA SkipReaderInv == IInv /\ SkipReader => IInv'
<1> SUFFICES ASSUME IInv, SkipReader PROVE IInv'
  OBVIOUS
<1>1. Quiet /\ pc = "connect" /\ UNCHANGED <<acas, mode>>
  BY DEF SkipReader, Quiet, prv, outside
<1>2. at \in 1..Readers /\ at' = at + 1 /\ Readers \in Nat /\ Named \subseteq 1..Readers
      /\ tried' = IF at \in Named THEN tried \cup {<<at, mode>>} ELSE tried
  BY CardAssumption DEF SkipReader, Slot
<1>3. TriedInv'
  <2>1. ASSUME NEW r \in Named, r < at'
        PROVE  <<r, mode>> \in tried'
    BY <1>1, <1>2, <2>1 DEF IInv, TriedInv
  <2> QED
    BY <1>1, <1>2, <2>1 DEF Quiet, IInv, TriedInv
<1> QED BY <1>1, <1>2, <1>3, QuietInv DEF IInv, TypeOK

LEMMA ReadersDoneInv == IInv /\ ReadersDone => IInv'
<1> SUFFICES ASSUME IInv, ReadersDone PROVE IInv'
  OBVIOUS
<1>1. /\ pc = "connect" /\ at \notin Slot
      /\ UNCHANGED <<acas, mng, card, pool, stat, b1, slot, conn, contexts>>
  BY DEF ReadersDone, prv, outside
<1>2. CASE acas < 0 /\ mode = 0
  <2>1. Quiet /\ at' = 1 /\ mode' = 1 /\ tried' = tried
    BY <1>1, <1>2 DEF ReadersDone, Quiet
  <2>2. \A r \in Named : r < at /\ ~(r < 1)
    BY <1>1, CardAssumption DEF Slot, IInv, TypeOK
  <2>3. TriedInv'
    BY <1>1, <1>2, <2>1, <2>2 DEF Quiet, IInv, TriedInv
  <2> QED
    BY <1>1, <2>1, <2>3, QuietInv, CardAssumption DEF IInv, TypeOK
<1>3. CASE ~(acas < 0 /\ mode = 0)
  <2>1. Return(Failed)
    BY <1>3 DEF ReadersDone
  <2>2. TypeOK'
    BY <1>1, <2>1, ReturnOK DEF IInv, TypeOK
  <2>3. HandleInv' /\ StatInv'
    BY <1>1, <2>1, ReturnOK DEF IInv, HandleInv, StatInv, Commands
  <2> QED
    BY <2>1, <2>2, <2>3, ReturnOK DEF IInv
<1> QED BY <1>2, <1>3

LEMMA CallInv ==
  ASSUME IInv, NEW q \in Command, Call(q)
  PROVE  IInv'
<1>1. /\ pc = "idle" /\ card # None /\ pc' = q.op
      /\ sbuf'.query = q /\ sbuf' = [query |-> q, mode |-> sbuf'.mode]
      /\ UNCHANGED <<acas, mng, card, pool, stat, at, mode, tries, pages, b1, slot, conn, contexts>>
  BY DEF Call, Ready, prv, outside
<1>2. q.op \in Commands /\ (q.op = "pwc" => q = Page(0))
  BY DEF Command, IdQuery, Page, Ecm, Emm, Commands
<1>3. pages = <<>>
  BY <1>1 DEF IInv, CommandInv
<1>4. TypeOK'
  BY <1>1, <1>2 DEF IInv, TypeOK, Commands
<1>5. HandleInv' /\ StatInv'
  BY <1>1, <1>2 DEF IInv, HandleInv, StatInv, Commands
<1>6. CommandInv'
  BY <1>1, <1>2, <1>3 DEF CommandInv, PagesGot, Commands
<1>7. TriedInv'
  BY <1>1, <1>2 DEF TriedInv, Commands
<1> QED BY <1>4, <1>5, <1>6, <1>7 DEF IInv

LEMMA ConnectInv == IInv /\ Connect => IInv'
<1> SUFFICES ASSUME IInv, Connect PROVE IInv'
  OBVIOUS
<1>1. /\ pc = "connect" /\ card = None /\ at \in Slot /\ slot[at] \in Card /\ mode \in 0..1
  BY CardAssumption DEF Connect, IInv, HandleInv, TypeOK
<1>2. PICK h \in Handle \ Opened :
        /\ card' = h
        /\ conn' = [conn EXCEPT ![h] = [card |-> slot[at], alive |-> TRUE, mode |-> mode]]
  BY DEF Connect
<1>3. /\ pc' = "settings" /\ UNCHANGED <<acas, mng, pool, stat, at, mode, tries, pages, tried, b1, slot, contexts>>
  BY DEF Connect
<1>4. conn \in [Handle -> Connection \cup {None}] /\ \A k \in Handle : conn[k] = None
  BY <1>1, ConnectionOK DEF IInv, HandleInv, TypeOK, Connection
<1>5. [card |-> slot[at], alive |-> TRUE, mode |-> mode] \in Connection
  BY <1>1 DEF Connection
<1>6. /\ conn' \in [Handle -> Connection \cup {None}] /\ card' # None
      /\ \A k \in Handle : conn'[k] # None <=> k = card'
  BY <1>2, <1>4, <1>5, ConnectionOK
<1>7. TypeOK'
  BY <1>2, <1>3, <1>6 DEF IInv, TypeOK, Connection
<1>8. HandleInv' /\ StatInv'
  BY <1>1, <1>3, <1>6 DEF IInv, HandleInv, StatInv, Commands
<1>9. CommandInv'
  BY <1>1, <1>3 DEF IInv, CommandInv
<1>10. TriedInv'
  BY <1>1, <1>3 DEF IInv, TriedInv
<1> QED BY <1>7, <1>8, <1>9, <1>10 DEF IInv

LEMMA SettingsSentInv == IInv /\ SettingsSent => IInv'
<1> SUFFICES ASSUME IInv, SettingsSent PROVE IInv'
  OBVIOUS
<1>1. /\ pc = "settings" /\ card # None /\ at \in Slot
      /\ UNCHANGED <<acas, mng, pool, b1, slot, contexts>>
  BY DEF SettingsSent, IInv, HandleInv
<1>2. PICK o \in Outcomes :
        IF Taken(o) THEN stat' = o.buf.by /\ Return(<<>>) /\ UNCHANGED <<card, conn>>
                    ELSE NextReader /\ Teardown /\ UNCHANGED stat
  BY DEF SettingsSent
<1>3. CASE Taken(o)
  <2>1. /\ stat' = conn[card].card /\ conn[card].card \in Card
        /\ Return(<<>>) /\ UNCHANGED <<card, conn>>
    BY <1>1, <1>2, <1>3, OutcomeOK DEF Taken, Connection
  <2>2. TypeOK'
    BY <1>1, <2>1, ReturnOK DEF IInv, TypeOK
  <2>3. HandleInv' /\ StatInv'
    BY <1>1, <2>1, ReturnOK DEF IInv, HandleInv, StatInv, Commands
  <2> QED
    BY <2>1, <2>2, <2>3, ReturnOK DEF IInv
<1>4. CASE ~Taken(o)
  <2>1. /\ card' = None /\ conn' \in [Handle -> Connection \cup {None}] /\ stat' = stat
        /\ \A h \in Handle : conn'[h] = None
    BY <1>2, <1>4, TeardownOK
  <2>2. /\ pc' = "connect" /\ at' = at + 1 /\ tried' = tried \cup {<<at, mode>>}
        /\ UNCHANGED <<mode, tries, pages>>
    BY <1>2, <1>4 DEF NextReader
  <2>3. at' \in 1..(Readers + 1)
    BY <1>1, <2>2, CardAssumption DEF Slot
  <2>4. TypeOK'
    BY <1>1, <2>1, <2>2, <2>3 DEF IInv, TypeOK, Connection
  <2>5. HandleInv' /\ StatInv'
    BY <1>1, <2>1, <2>2, ConnectionOK DEF IInv, HandleInv, StatInv, Commands
  <2>6. CommandInv'
    BY <1>1, <2>2 DEF IInv, CommandInv
  <2>7. TriedInv'
    <3>1. ASSUME NEW r \in Named, r < at'
          PROVE  <<r, mode>> \in tried'
      BY <1>1, <2>2, <3>1, CardAssumption DEF IInv, TriedInv, Slot
    <3> QED
      BY <1>1, <2>2, <3>1 DEF IInv, TriedInv
  <2> QED
    BY <2>4, <2>5, <2>6, <2>7 DEF IInv
<1> QED BY <1>3, <1>4

\* What a command leaves alone, however it ends.
InSession == UNCHANGED <<acas, mng, card, stat, b1, slot, conn, contexts>>

\* A command returns.
LEMMA DoneInv ==
  ASSUME IInv, NEW r, Return(r), InSession, pool' \in {"none", "own", "stray"},
         pc \in Commands
  PROVE  IInv'
<1>1. TypeOK'
  BY ReturnOK DEF InSession, IInv, TypeOK
<1>2. HandleInv' /\ StatInv'
  BY ReturnOK DEF InSession, IInv, HandleInv, StatInv, Commands
<1> QED BY <1>1, <1>2, ReturnOK DEF IInv

LEMMA RetryInv == IInv /\ Retry => IInv'
<1> SUFFICES ASSUME IInv, Retry PROVE IInv'
  OBVIOUS
<1>1. /\ pc \in {"ecm", "emm"} /\ InSession /\ pool' = pool
      /\ pool' \in {"none", "own", "stray"} /\ pc \in Commands
  BY DEF Retry, InSession, prv, outside, IInv, TypeOK, Commands
<1>2. CASE \E r : Return(r)
  BY <1>1, <1>2, DoneInv
<1>3. CASE tries < MaxRetries /\ tries' = tries + 1 /\ UNCHANGED <<pc, at, mode, pages, sbuf, tried>>
  <2>1. tries' \in 0..2
    BY <1>3 DEF IInv, TypeOK, MaxRetries
  <2>2. TypeOK'
    BY <1>1, <1>3, <2>1 DEF InSession, IInv, TypeOK
  <2>3. HandleInv' /\ StatInv' /\ CommandInv' /\ TriedInv'
    BY <1>1, <1>3 DEF InSession, IInv, HandleInv, StatInv, CommandInv, TriedInv
  <2> QED
    BY <2>2, <2>3 DEF IInv
<1> QED BY <1>2, <1>3 DEF Retry

LEMMA IdSentInv == IInv /\ IdSent => IInv'
<1> SUFFICES ASSUME IInv, IdSent PROVE IInv'
  OBVIOUS
<1>1. /\ pc \in Commands /\ InSession
  BY DEF IdSent, InSession, outside, Commands
<1>2. \E r : Return(r) /\ pool' \in {pool, "stray"}
  BY DEF IdSent, Grow
<1> QED BY <1>1, <1>2, DoneInv DEF IInv, TypeOK

\* The next page of the table is that of the card.
LEMMA PageGot ==
  ASSUME IInv, pc = "pwc", NEW o \in Outcomes, Good(o)
  PROVE  /\ Len(pages) \in Nat /\ o.buf.by = conn[card].card /\ conn[card].card \in Card
         /\ Append(pages, Mine(o)) \in Seq([by : Card, to : {Page(n) : n \in Nat}])
         /\ Len(Append(pages, Mine(o))) = Len(pages) + 1
         /\ \A k \in 1..(Len(pages) + 1) :
               Append(pages, Mine(o))[k] = [by |-> conn[card].card, to |-> Page(k - 1)]
<1>1. card # None /\ PagesGot /\ pages \in Seq([by : Card, to : {Page(n) : n \in Nat}])
  BY DEF IInv, HandleInv, CommandInv, Commands
<1>2. /\ o.buf.by = conn[card].card /\ conn[card].card \in Card /\ Len(pages) \in Nat
      /\ Mine(o) = [by |-> conn[card].card, to |-> Page(Len(pages))]
  BY <1>1, OutcomeOK DEF Good, Mine, PagesGot, Connection
<1>3. Mine(o) \in [by : Card, to : {Page(n) : n \in Nat}]
  BY <1>2
<1>4. /\ Append(pages, Mine(o)) \in Seq([by : Card, to : {Page(n) : n \in Nat}])
      /\ Len(Append(pages, Mine(o))) = Len(pages) + 1
      /\ \A k \in 1..Len(pages) : Append(pages, Mine(o))[k] = pages[k]
      /\ Append(pages, Mine(o))[Len(pages) + 1] = Mine(o)
  BY <1>1, <1>3, AppendProperties
<1>5. ASSUME NEW k \in 1..(Len(pages) + 1)
      PROVE  Append(pages, Mine(o))[k] = [by |-> conn[card].card, to |-> Page(k - 1)]
  <2>1. CASE k \in 1..Len(pages)
    BY <1>1, <1>4, <2>1 DEF PagesGot
  <2>2. CASE k = Len(pages) + 1
    BY <1>2, <1>4, <2>2
  <2> QED
    BY <1>2, <2>1, <2>2
<1> QED BY <1>2, <1>4, <1>5

LEMMA PageSentInv == IInv /\ PageSent => IInv'
<1> SUFFICES ASSUME IInv, PageSent PROVE IInv'
  OBVIOUS
<1>1. /\ pc = "pwc" /\ pc \in Commands /\ InSession
  BY DEF PageSent, InSession, outside, Commands
<1>2. CASE \E r : Return(r) /\ pool' \in {pool, "stray"}
  BY <1>1, <1>2, DoneInv DEF IInv, TypeOK
<1>3. CASE ~\E r : Return(r) /\ pool' \in {pool, "stray"}
  <2>1. PICK o \in Outcomes :
          /\ Good(o)
          /\ Len(Append(pages, Mine(o))) < Pages[o.buf.by]
          /\ pages' = Append(pages, Mine(o))
          /\ sbuf' = [sbuf EXCEPT !.query = Page(Len(Append(pages, Mine(o))))]
          /\ UNCHANGED <<pc, at, mode, tries, tried, pool>>
    BY <1>3 DEF PageSent, Grow
  <2>2. TypeOK'
    BY <1>1, <2>1 DEF InSession, IInv, TypeOK
  <2>3. HandleInv' /\ StatInv' /\ TriedInv'
    BY <1>1, <2>1 DEF InSession, IInv, HandleInv, StatInv, TriedInv
  <2>4. CommandInv'
    <3>1. PagesGot
      BY <1>1 DEF IInv, CommandInv
    <3>2. /\ UNCHANGED <<pc, card, conn>> /\ Len(pages') \in Nat
          /\ pages' \in Seq([by : Card, to : {Page(n) : n \in Nat}])
          /\ \A k \in 1..Len(pages') : pages'[k] = [by |-> conn[card].card, to |-> Page(k - 1)]
          /\ Len(pages') < Pages[conn[card].card]
      <4>1. /\ Len(pages) \in Nat /\ o.buf.by = conn[card].card
            /\ pages' \in Seq([by : Card, to : {Page(n) : n \in Nat}])
            /\ Len(pages') = Len(pages) + 1
            /\ \A k \in 1..(Len(pages) + 1) :
                  pages'[k] = [by |-> conn[card].card, to |-> Page(k - 1)]
        BY <1>1, <2>1, PageGot
      <4>2. Len(pages') < Pages[conn[card].card]
        BY <2>1, <4>1
      <4>3. UNCHANGED <<pc, card, conn>>
        BY <1>1, <2>1 DEF InSession
      <4>4. Len(pages') \in Nat
        BY <4>1
      <4>5. \A k \in 1..Len(pages') : pages'[k] = [by |-> conn[card].card, to |-> Page(k - 1)]
        BY <4>1
      <4> QED
        BY <4>1, <4>2, <4>3, <4>4, <4>5
    <3>3. sbuf' = [query |-> Page(Len(pages')), mode |-> sbuf'.mode]
      BY <2>1, <3>1 DEF PagesGot
    <3> QED
      BY <1>1, <3>2, <3>3 DEF CommandInv, PagesGot
  <2> QED
    BY <2>2, <2>3, <2>4 DEF IInv
<1> QED BY <1>2, <1>3

LEMMA NextInv == IInv /\ [Next]_vars => IInv'
<1> SUFFICES ASSUME IInv, [Next]_vars PROVE IInv'
  OBVIOUS
<1>1. CASE UNCHANGED vars
  <2>1. UNCHANGED <<prv, place, outside>>
    BY <1>1 DEF vars
  <2> QED
    BY <2>1 DEF prv, place, outside, IInv, TypeOK, HandleInv, StatInv, CommandInv,
                PagesGot, TriedInv
<1>2. CASE Next
  BY <1>2, EventInv, ReleaseInv, StartInv, SetModeInv, RefuseInv, CallInv, SkipReaderInv,
     ConnectInv, SettingsSentInv, ReadersDoneInv, RetryInv, IdSentInv, PageSentInv
  DEF Next, Inside
<1> QED BY <1>1, <1>2

LEMMA Inductive == Spec => []IInv
BY InitInv, NextInv, PTL DEF Spec

----------------------------------------------------------------------------
(* Theorems. *)

(* The session keeps its state within its types, whatever cards and        *)
(* readers do.                                                             *)
THEOREM TypeCorrect == Spec => []TypeOK
<1>1. IInv => TypeOK
  BY DEF IInv
<1> QED BY <1>1, Inductive, PTL

(* No handle and no PC/SC context is leaked or used after it was released, *)
(* for any number of readers, cards and handles (connect_card and teardown *)
(* against every way init may end).                                        *)
THEOREM HandlesKept == Spec => []HandlesExact
<1>1. IInv => HandlesExact
  BY ConnectionOK DEF IInv, TypeOK, HandleInv, HandlesExact, Opened
<1> QED BY <1>1, Inductive, PTL

(* get_init_status gives the keys of the card the commands go to.          *)
THEOREM KeysRight == Spec => []KeysOfCard
<1>1. IInv => KeysOfCard
  BY DEF IInv, StatInv, KeysOfCard
<1> QED BY <1>1, Inductive, PTL

\* The search ends at the end of the list, in the last of the modes.
LEMMA SearchFails ==
  ASSUME IInv, [Next]_vars, pc = "connect", pc' = "idle"
  PROVE  Named \X Modes \subseteq tried
<1>1. ReadersDone
  <2>1. Next /\ ~UNCHANGED pc
    BY DEF vars, place
  <2> QED
    BY <2>1 DEF Next, Inside, Pull, Insert, Release, Start, SetMode, Refuse, Call, Ready, place,
                SkipReader, Connect, SettingsSent, Retry, IdSent, PageSent
<1>2. at \notin Slot /\ ~(acas < 0 /\ mode = 0)
  BY <1>1 DEF ReadersDone
<1>3. at \in 1..(Readers + 1) /\ mode \in 0..1 /\ acas \in -1..1 /\ Readers \in Nat /\ Named \subseteq Slot
  BY CardAssumption DEF IInv, TypeOK
<1>4. \A r \in Named : r < at
  BY <1>2, <1>3 DEF Slot
<1>5. \A r \in Named : <<r, mode>> \in tried
  BY <1>4 DEF IInv, TriedInv
<1>6. CASE acas < 0
  <2>1. mode = 1 /\ Modes = {0, 1}
    BY <1>2, <1>3, <1>6 DEF Modes
  <2>2. \A r \in Named : <<r, 0>> \in tried
    BY <1>6, <2>1 DEF IInv, TriedInv
  <2> QED
    BY <1>5, <2>1, <2>2
<1>7. CASE ~(acas < 0)
  <2>1. Modes = {mode}
    BY <1>3, <1>7 DEF Modes, IInv, TriedInv
  <2> QED
    BY <1>5, <2>1
<1> QED BY <1>6, <1>7

(* init takes the first reader whose card answers, and ACAS mode after     *)
(* B-CAS mode has failed on every reader.  Its search ends without a card  *)
(* only after every reader it may take has failed in every mode.           *)
THEOREM FirstTaken == Spec => FirstThatAnswers
<1>1. IInv /\ [Next]_vars =>
        [/\ pc = "settings" /\ pc' = "idle" =>
              /\ \A r \in Named : r < at => <<r, mode>> \in tried
              /\ acas < 0 /\ mode = 1 => \A r \in Named : <<r, 0>> \in tried
         /\ pc = "connect" /\ pc' = "idle" => Named \X Modes \subseteq tried]_vars
  <2> SUFFICES ASSUME IInv, [Next]_vars
               PROVE  /\ pc = "settings" /\ pc' = "idle" =>
                           /\ \A r \in Named : r < at => <<r, mode>> \in tried
                           /\ acas < 0 /\ mode = 1 => \A r \in Named : <<r, 0>> \in tried
                      /\ pc = "connect" /\ pc' = "idle" => Named \X Modes \subseteq tried
    OBVIOUS
  <2>1. CASE pc = "settings"
    BY <2>1 DEF IInv, TriedInv
  <2>2. CASE pc # "settings"
    BY <2>2, SearchFails
  <2> QED
    BY <2>1, <2>2
<1> QED BY <1>1, Inductive, PTL DEF Spec, FirstThatAnswers

----------------------------------------------------------------------------
(* BCasCard implements CardSession.                                        *)

Open == IF card = None \/ pc = "settings" THEN None
        ELSE [card |-> conn[card].card, mode |-> conn[card].mode]

Asked == CASE pc \in {"id", "ecm", "emm"} -> sbuf.query
           [] pc = "pwc" -> Page(0)
           [] OTHER -> None

\* While a command runs it is the one that was called.
LEMMA AskedOK ==
  ASSUME IInv
  PROVE  /\ pc \in Commands => Asked \in Command /\ Asked # None /\ Asked.op = pc
         /\ pc \notin Commands => Asked = None
<1>1. CASE pc \in {"id", "ecm", "emm"}
  BY <1>1, CardAssumption DEF IInv, CommandInv, Asked, Commands
<1>2. CASE pc = "pwc"
  <2>1. Asked = Page(0) /\ Page(0) \in Command /\ Page(0).op = pc
    BY <1>2 DEF Asked, Command, Page
  <2> QED
    BY <1>2, <2>1, CardAssumption DEF Commands
<1>3. CASE pc \notin Commands
  BY <1>3 DEF Asked, Commands
<1> QED BY <1>1, <1>2, <1>3 DEF Commands

LEMMA OpenOK ==
  ASSUME IInv, card # None, pc # "settings"
  PROVE  Open # None /\ Open.card = conn[card].card
<1>1. conn[card] \in Connection
  BY DEF IInv, TypeOK, HandleInv, Connection
<1>2. Open \in [card : Card, mode : 0..1] /\ Open.card = conn[card].card
  BY <1>1 DEF Open, Connection
<1> QED BY <1>2, CardAssumption

\* A command goes on or returns: it failed, its table is too long, or it has the
\* answer to what was called.
LEMMA CommandStep ==
  ASSUME IInv, InSession, pc \in Commands,
         \/ pc' = pc /\ result' = result /\ Asked' = Asked
         \/ /\ pc' = "idle"
            /\ \/ result' = Failed
               \/ result' = Unknown /\ pc \in {"id", "pwc"}
               \/ result' = Session!Answer(conn[card].card, Asked)
  PROVE  [Session!Next]_Session!svars
<1>1. card # None /\ pc # "settings" /\ pc' # "settings"
  BY DEF IInv, HandleInv, Commands
<1>2. Open' = Open
  BY <1>1 DEF Open, InSession
<1>3. Open # None /\ Open.card = conn[card].card
  BY <1>1, OpenOK
<1>4. Asked # None /\ Asked.op = pc
  BY AskedOK
<1>5. CASE pc' = pc /\ result' = result /\ Asked' = Asked
  BY <1>2, <1>5 DEF Open, Asked, Session!svars
<1>6. CASE pc' = "idle"
  <2>1. Asked' = None
    BY <1>6 DEF Asked
  <2>2. CASE result' = Failed
    BY <1>2, <2>1, <2>2 DEF Open, Asked, Session!Next, Session!Fail
  <2>3. CASE result' = Unknown /\ pc \in {"id", "pwc"}
    BY <1>2, <1>4, <2>1, <2>3 DEF Open, Asked, Session!Next, Session!Overrun
  <2>4. CASE result' = Session!Answer(conn[card].card, Asked)
    BY <1>2, <1>3, <1>4, <2>1, <2>4 DEF Open, Asked, Session!Next, Session!Reply
  <2> QED
    BY <1>1, <1>6, <2>2, <2>3, <2>4 DEF Commands
<1> QED BY <1>5, <1>6

LEMMA RetryStep ==
  ASSUME IInv, Retry
  PROVE  [Session!Next]_Session!svars
<1>1. /\ pc \in {"ecm", "emm"} /\ pc \in Commands /\ InSession /\ card # None
      /\ sbuf.query \in Command /\ sbuf.query.op # "pwc"
  BY DEF Retry, InSession, prv, outside, Commands, IInv, HandleInv, CommandInv
<1>2. PICK o \in Outcomes :
        \/ UNCHANGED <<pc, result, sbuf>>
        \/ pc' = "idle" /\ result' = Failed
        \/ pc' = "idle" /\ result' = <<Mine(o)>> /\ o.ok
  BY DEF Retry, Return, Answered
<1>3. o.ok => <<Mine(o)>> = Session!Answer(conn[card].card, Asked)
  <2>1. Asked = sbuf.query
    BY <1>1 DEF Asked
  <2> QED
    BY <1>1, <2>1, OutcomeOK DEF Mine, Session!Answer
<1>4. UNCHANGED <<pc, sbuf>> => Asked' = Asked
  BY DEF Asked
<1> QED BY <1>1, <1>2, <1>3, <1>4, CommandStep

LEMMA IdStep ==
  ASSUME IInv, IdSent
  PROVE  [Session!Next]_Session!svars
<1>1. /\ pc = "id" /\ pc \in Commands /\ InSession /\ card # None
      /\ sbuf.query \in Command /\ sbuf.query.op # "pwc"
  BY DEF IdSent, InSession, outside, Commands, IInv, HandleInv, CommandInv
<1>2. PICK o \in Outcomes :
        /\ pc' = "idle"
        /\ \/ result' \in {Failed, Unknown}
           \/ result' = <<Mine(o)>> /\ o.ok
  BY DEF IdSent, Return, Grow, Good
<1>3. o.ok => <<Mine(o)>> = Session!Answer(conn[card].card, Asked)
  <2>1. Asked = sbuf.query
    BY <1>1 DEF Asked
  <2> QED
    BY <1>1, <2>1, OutcomeOK DEF Mine, Session!Answer
<1> QED BY <1>1, <1>2, <1>3, CommandStep

LEMMA PageStep ==
  ASSUME IInv, PageSent
  PROVE  [Session!Next]_Session!svars
<1>1. pc = "pwc" /\ pc \in Commands /\ InSession /\ PagesGot
  BY DEF PageSent, InSession, outside, Commands, IInv, CommandInv
<1>2. PICK o \in Outcomes :
        \/ pc' = pc /\ result' = result
        \/ pc' = "idle" /\ result' \in {Failed, Unknown}
        \/ /\ pc' = "idle" /\ Good(o)
           /\ \/ Pages[o.buf.by] = 0 /\ result' = <<>>
              \/ /\ Pages[o.buf.by] \in 1..Len(Append(pages, Mine(o)))
                 /\ result' = Append(pages, Mine(o))
  BY DEF PageSent, Return, Grow
<1> DEFINE Unanswered == \/ pc' = pc /\ result' = result
                         \/ pc' = "idle" /\ result' \in {Failed, Unknown}
<1>3. CASE Unanswered
  <2>1. pc' = pc => Asked' = Asked
    BY <1>1 DEF Asked
  <2> QED
    BY <1>1, <1>3, <2>1, CommandStep
<1>4. CASE ~Unanswered
  <2> DEFINE c == conn[card].card
             table == [i \in 1..Pages[c] |-> [by |-> c, to |-> Page(i - 1)]]
  <2>1. /\ pc' = "idle" /\ Good(o) /\ o.buf.by = c /\ Pages[c] \in Nat /\ Len(pages) \in Nat
        /\ \/ Pages[c] = 0 /\ result' = <<>>
           \/ /\ Pages[c] \in 1..(Len(pages) + 1)
              /\ result' = Append(pages, Mine(o))
    BY <1>1, <1>2, <1>4, PageGot, CardAssumption
  <2>2. result' = table
    <3>1. CASE Pages[c] = 0 /\ result' = <<>>
      BY <3>1
    <3>2. CASE Pages[c] \in 1..(Len(pages) + 1) /\ result' = Append(pages, Mine(o))
      <4>1. Pages[c] = Len(pages) + 1
        <5>1. pages # <<>> => Len(pages) < Pages[c]
          BY <1>1 DEF PagesGot
        <5>2. pages = <<>> => Len(pages) = 0
          OBVIOUS
        <5> QED
          BY <2>1, <3>2, <5>1, <5>2
      <4>2. /\ result' \in Seq([by : Card, to : {Page(n) : n \in Nat}])
            /\ Len(result') = Pages[c]
            /\ \A k \in 1..Pages[c] : result'[k] = [by |-> c, to |-> Page(k - 1)]
        BY <1>1, <2>1, <3>2, <4>1, PageGot
      <4>3. result' = [i \in 1..Pages[c] |-> result'[i]]
        BY <4>2
      <4> QED
        BY <4>2, <4>3
    <3> QED
      BY <2>1, <3>1, <3>2
  <2>3. Session!Answer(c, Page(0)) = table
    BY DEF Page, Session!Answer, Session!Page
  <2>4. Asked = Page(0)
    BY <1>1 DEF Asked
  <2>5. result' = Session!Answer(conn[card].card, Asked)
    BY <2>2, <2>3, <2>4
  <2> HIDE DEF table, c
  <2> QED
    BY <1>1, <2>1, <2>5, CommandStep
<1> HIDE DEF Unanswered
<1> QED BY <1>3, <1>4

LEMMA SettingsStep ==
  ASSUME IInv, SettingsSent
  PROVE  [Session!Next]_Session!svars
<1>1. pc = "settings" /\ card # None
  BY DEF SettingsSent, IInv, HandleInv
<1>2. PICK o \in Outcomes :
        IF Taken(o) THEN stat' = o.buf.by /\ Return(<<>>) /\ UNCHANGED <<card, conn>>
                    ELSE NextReader /\ Teardown /\ UNCHANGED stat
  BY DEF SettingsSent
<1>3. CASE Taken(o)
  <2>1. /\ pc' = "idle" /\ result' = <<>> /\ UNCHANGED <<card, conn>>
        /\ conn[card] \in Connection
    BY <1>1, <1>2, <1>3, OutcomeOK DEF Return
  <2>2. Open = None /\ Open' = [card |-> conn[card].card, mode |-> conn[card].mode]
        /\ conn[card].card \in Card /\ conn[card].mode \in 0..1
    BY <1>1, <2>1 DEF Open, Connection
  <2> QED
    BY <1>1, <2>1, <2>2 DEF Open, Session!Open, Session!Next
<1>4. CASE ~Taken(o)
  <2>1. card' = None /\ result' = result /\ pc' = "connect"
    BY <1>2, <1>4 DEF NextReader, Teardown
  <2> QED
    BY <1>1, <2>1 DEF Session!svars
<1> QED BY <1>3, <1>4

LEMMA StepInSession ==
  ASSUME IInv, [Next]_vars
  PROVE  [Session!Next]_Session!svars
<1>1. ASSUME NEW r \in Slot, Pull(r) \/ \E c \in Card : Insert(r, c)
      PROVE  UNCHANGED Session!svars
  <2>1. UNCHANGED <<card, pc, result, sbuf>>
    BY <1>1 DEF Pull, Insert, prv, place
  <2>2. card # None => conn'[card].card = conn[card].card /\ conn'[card].mode = conn[card].mode
    BY <1>1, EventInv DEF IInv, TypeOK, HandleInv
  <2> QED
    BY <2>1, <2>2 DEF Session!svars
<1>2. CASE Release
  <2>1. pc = "idle" /\ pc' = "idle" /\ card' = None /\ result' = result
    BY <1>2 DEF Release, Teardown, place
  <2>2. Asked = None /\ Asked' = None
    BY <2>1 DEF Asked
  <2> QED
    BY <2>1, <2>2 DEF Asked, Session!Close, Session!Next
<1>3. CASE Start
  <2>1. pc = "idle" /\ pc' \in {"idle", "connect"} /\ card' = None
        /\ result' \in {result, Failed}
    BY <1>3 DEF Start, Teardown, Return
  <2>2. Asked = None /\ Asked' = None
    BY <2>1 DEF Asked
  <2> QED
    BY <2>1, <2>2 DEF Asked, Session!Close, Session!Next
<1>4. CASE \E m \in 0..1 : SetMode(m)
  BY <1>4 DEF SetMode, place, outside, Session!svars
<1>5. ASSUME NEW q \in Command, Refuse(q)
      PROVE  [Session!Next]_Session!svars
  <2>1. pc = "idle" /\ pc' = "idle" /\ UNCHANGED <<card, conn>> /\ result' = Failed
    BY <1>5 DEF Refuse, Ready, prv, place, outside
  <2>2. Asked' = None /\ Open' = Open
    BY <2>1 DEF Asked, Open
  <2> QED
    BY <2>1, <2>2 DEF Asked, Open, Session!Fail, Session!Next
<1>6. ASSUME NEW q \in Command, Call(q)
      PROVE  [Session!Next]_Session!svars
  <2>1. /\ pc = "idle" /\ card # None /\ pc' \in Commands /\ UNCHANGED <<card, conn, result>>
        /\ pc' = q.op /\ sbuf'.query = q /\ (q.op = "pwc" => q = Page(0))
    BY <1>6 DEF Call, Ready, prv, outside, Command, IdQuery, Page, Ecm, Emm, Commands
  <2>2. Asked = None /\ Asked' = q
    BY <2>1 DEF Asked, Commands
  <2>3. Open' = Open /\ Open # None
    BY <2>1, OpenOK DEF Open, Commands
  <2> QED
    BY <2>1, <2>2, <2>3 DEF Open, Asked, Session!Call, Session!Next
<1>7. CASE SkipReader
  BY <1>7 DEF SkipReader, prv, outside, Session!svars
<1>8. CASE Connect
  <2>1. card = None /\ pc = "connect" /\ pc' = "settings" /\ result' = result
    BY <1>8 DEF Connect, IInv, HandleInv
  <2> QED
    BY <2>1 DEF Session!svars
<1>9. CASE ReadersDone
  <2>1. /\ card = None /\ card' = None /\ result' \in {result, Failed}
        /\ pc = "connect" /\ pc' \in {"idle", "connect"}
    BY <1>9 DEF ReadersDone, Return, prv, IInv, HandleInv
  <2>2. Asked = None /\ Asked' = None
    BY <2>1 DEF Asked
  <2> QED
    BY <2>1, <2>2 DEF Asked, Session!Fail, Session!Next, Session!svars
<1>10. CASE UNCHANGED vars
  BY <1>10 DEF vars, prv, place, outside, Session!svars
<1> QED
  BY <1>1, <1>2, <1>3, <1>4, <1>5, <1>6, <1>7, <1>8, <1>9, <1>10,
     SettingsStep, RetryStep, IdStep, PageStep
  DEF Next, Inside

(* What a command returns is the answer of the card in the session to the  *)
(* command that was called, never one to another command that is still in  *)
(* rbuf, or a failure, over retries, pulled cards, calls of init and       *)
(* tables that outgrow their room: b_cas_card.c keeps the promise of       *)
(* b_cas_card.h for every set of cards and readers.                        *)
THEOREM ServesSession == Spec => SessionSpec
<1>1. Init => Session!Init
  BY DEF Init, Session!Init
<1> QED
  BY <1>1, Inductive, StepInSession, PTL DEF Spec, SessionSpec, Session!Spec

=============================================================================
