---------------------------- MODULE ProgramMap ----------------------------
(***************************************************************************)
(* The programs, the PID map and the decryptors of                         *)
(* src/aribb25/arib_std_b25.c: what proc_pat, proc_pmt and proc_cat make   *)
(* of the sections their parsers hand them.                                *)
(*                                                                         *)
(* The PID map says for each PID what its packets are (type), how many     *)
(* stream entries of the programs name it (ref), and which decryptor its   *)
(* packets need or feed (target).  A decryptor is freed when the count of  *)
(* the streams bound to it drops to zero; a program keeps the streams of   *)
(* its previous PMT for one more generation (old_strm).                    *)
(*                                                                         *)
(* proc_pmt and proc_pat loop over lists.  Each turn is a step of its own  *)
(* here, ordered by pc; nothing else runs until the handler returns.       *)
(*                                                                         *)
(* Sections come from section parsers, so each differs from the one the    *)
(* same parser delivered before (SectionFeed); the fields pat, cat and pmt *)
(* remember it.  A PMT parser is as old as its program, the PAT and the    *)
(* CAT parser live until reset().                                          *)
(***************************************************************************)
EXTENDS Integers, Sequences, FiniteSets

CONSTANTS
  Dec,      \* the decryptors the heap has room for
  None,     \* no decryptor, no PID, no CA descriptor
  Unseen,   \* no section has been delivered yet
  Clear,    \* PID 0x1fff in a CA descriptor: not scrambled
  Foreign,  \* a section of another table, or a broken one
  PatPid, CatPid,
  PmtPids, EcmPids, EsPids, EmmPids,
  Pats,     \* the PATs: the PMT PIDs of their programs
  Cats,     \* the CATs: the EMM PID of this card's CA system, or None
  Pmts      \* the PMTs: [ecm |-> CA PID, es |-> <<[pid, ecm |-> CA PID]>>]

Pid == {PatPid, CatPid} \cup PmtPids \cup EcmPids \cup EsPids \cup EmmPids

CaPid == EcmPids \cup {None, Clear}

\* A PID keeps its role: nothing is an ECM PID in one table and a stream's in
\* another.  (The code does not ask; a target is followed as what the last
\* table made of it.)
ASSUME RolesAssumption ==
  /\ EcmPids \cap EsPids = {}
  /\ PmtPids \cap (EcmPids \cup EsPids) = {}
  /\ EmmPids \cap (PmtPids \cup EcmPids \cup EsPids) = {}
  /\ {PatPid, CatPid} \cap (PmtPids \cup EcmPids \cup EsPids \cup EmmPids) = {}
  /\ PatPid # CatPid
  /\ {None, Clear} \cap Pid = {} /\ None # Clear
  /\ None \notin Dec /\ IsFiniteSet(EsPids)

ASSUME TablesAssumption ==
  /\ \A p \in Pats : p \in Seq(PmtPids)
                     /\ \A i, j \in 1..Len(p) : i # j => p[i] # p[j]
  /\ Cats \subseteq EmmPids \cup {None}
  /\ \A t \in Pmts : t.ecm \in CaPid /\ t.es \in Seq([pid : EsPids, ecm : CaPid])

VARIABLES
  map,      \* PID |-> [type, ref, target]
  live,     \* the decryptors on the list
  dec,      \* decryptor |-> [ecm, ref]
  program,  \* the programs, in PAT order
  pat, cat, \* the section the PAT, the CAT parser delivered last
  pc,       \* "idle", or where proc_pmt or proc_pat is
  cur,      \* proc_pmt: the program
  dec0,     \* proc_pmt: the decryptor of the whole program, or None
  dec1,     \* proc_pmt: the decryptor of the stream at hand, or None
  todo,     \* proc_pmt: the stream entries not yet read
  drop      \* proc_pmt, proc_pat: the streams whose references go

tables == <<map, live, dec>>
locals == <<cur, dec0, dec1, todo, drop>>
vars == <<map, live, dec, program, pat, cat, pc, cur, dec0, dec1, todo, drop>>

----------------------------------------------------------------------------
(* The tables, and the helpers that change them, as functions from tables  *)
(* to tables.                                                              *)

Unmapped == [type |-> "UNKNOWN", ref |-> 0, target |-> None]

NoDecryptor == [ecm |-> None, ref |-> 0]

Tables == [map |-> map, live |-> live, dec |-> dec]

SetTables(R) == map' = R.map /\ live' = R.live /\ dec' = R.dec

\* remove_decryptor
RemoveDecryptor(R, d) ==
  LET e == R.dec[d].ecm
  IN  [map  |-> IF R.map[e].type = "ECM" /\ R.map[e].target = d
                  THEN [R.map EXCEPT ![e] =
                          [type |-> "UNKNOWN", ref |-> @.ref, target |-> None]]
                  ELSE R.map,
       live |-> R.live \ {d},
       dec  |-> [R.dec EXCEPT ![d] = NoDecryptor]]

\* Mutants of ReleaseDecryptor: freed one reference too early; never freed.
ReleaseDecryptorEarly(R, d) ==
  IF R.dec[d].ref - 1 < 2
    THEN RemoveDecryptor(R, d)
    ELSE [R EXCEPT !.dec = [R.dec EXCEPT ![d].ref = @ - 1]]

ReleaseDecryptorNever(R, d) == [R EXCEPT !.dec = [R.dec EXCEPT ![d].ref = @ - 1]]

\* "dec->ref -= 1; if (dec->ref < 1) remove_decryptor": the same three lines
\* in proc_pmt, proc_cat, unref_stream, set_decryptor and bind_stream_decryptor.
ReleaseDecryptor(R, d) ==
  IF R.dec[d].ref - 1 < 1
    THEN RemoveDecryptor(R, d)
    ELSE [R EXCEPT !.dec = [R.dec EXCEPT ![d].ref = @ - 1]]

\* What a PID other than an ECM PID still holds of a decryptor.
ReleaseTarget(R, p) ==
  IF R.map[p].type = "OTHER" /\ R.map[p].target # None
    THEN ReleaseDecryptor(R, R.map[p].target) ELSE R

\* unref_stream
UnrefStream(R, p) ==
  IF R.map[p].ref - 1 < 1
    THEN LET S == ReleaseTarget(R, p)
         IN  [S EXCEPT !.map = [S.map EXCEPT ![p] = Unmapped]]
    ELSE [R EXCEPT !.map = [R.map EXCEPT ![p].ref = @ - 1]]

\* set_decryptor when the ECM PID has its decryptor already
Registered(e) == map[e].type = "ECM" /\ map[e].target # None

\* set_decryptor when it has not: d is new
AddDecryptor(R, e, d) ==
  LET S == ReleaseTarget([R EXCEPT !.live = R.live \cup {d},
                                   !.dec = [R.dec EXCEPT ![d] = [ecm |-> e, ref |-> 0]]], e)
  IN  [S EXCEPT !.map = [S.map EXCEPT ![e] =
                           [type |-> "ECM", ref |-> @.ref, target |-> d]]]

\* add_ecm_stream: the list and the map once the list names the ECM PID
Names(list, p) == \E i \in 1..Len(list) : list[i] = p

ListWithEcm(list, e) == IF Names(list, e) THEN list ELSE Append(list, e)

MapWithEcm(m, list, e) ==
  IF Names(list, e) THEN m ELSE [m EXCEPT ![e].ref = @ + 1]

\* Mutant of ActiveDecryptor: the program's decryptor before the stream's own.
ActiveDecryptorProgramFirst(ecm) ==
  IF ecm = Clear THEN None ELSE IF dec0 # None THEN dec0 ELSE dec1

\* select_active_decryptor
ActiveDecryptor(ecm) ==
  IF dec1 # None THEN dec1 ELSE IF ecm = Clear THEN None ELSE dec0

\* Mutant of BindStream: the decryptor bound before keeps its reference.
BindStreamOver(R, p, d) ==
  IF R.map[p].target = d THEN R
  ELSE [R EXCEPT !.map = [R.map EXCEPT ![p].target = d],
                 !.dec = IF d = None THEN R.dec ELSE [R.dec EXCEPT ![d].ref = @ + 1]]

\* bind_stream_decryptor: the stream's map entry points at d, and both
\* decryptors count it.
BindStream(R, p, d) ==
  LET old == R.map[p].target
      S   == IF old = None THEN R ELSE ReleaseDecryptor(R, old)
  IN  IF old = d THEN R
      ELSE [S EXCEPT
              !.map = [S.map EXCEPT ![p].target = d],
              !.dec = IF d = None THEN S.dec ELSE [S.dec EXCEPT ![d].ref = @ + 1]]

----------------------------------------------------------------------------
Init ==
  /\ map = [p \in Pid |-> Unmapped]
  /\ live = {} /\ dec = [d \in Dec |-> NoDecryptor]
  /\ program = <<>> /\ pat = Unseen /\ cat = Unseen
  /\ pc = "idle" /\ cur = 0 /\ dec0 = None /\ dec1 = None
  /\ todo = <<>> /\ drop = <<>>

\* A program as proc_pat makes it.  mine is a history variable: the entries of
\* this program's PMT that are the last ones read of their streams.
NewProgram(p) == [pid |-> p, pmt |-> Unseen, streams |-> <<>>, old |-> <<>>, mine |-> {}]

\* The section is of another table: proc_pat returns at once.
PatForeign ==
  /\ pc = "idle" /\ pat # Foreign
  /\ pat' = Foreign
  /\ UNCHANGED <<tables, program, cat, pc, locals>>

\* proc_pat: a new PAT; the old programs go first, one release_program each.
PatBegin(p) ==
  /\ pc = "idle" /\ p # pat
  /\ pat' = p
  /\ pc' = "pat"
  /\ UNCHANGED <<tables, program, cat, locals>>

\* release_program: the streams of the first program that is left are to be
\* dropped, those of old_strm first.
PatRelease ==
  /\ pc = "pat" /\ drop = <<>> /\ program # <<>>
  /\ drop' = program[1].old \o program[1].streams
  /\ drop' # <<>>
  /\ program' = [program EXCEPT ![1].old = <<>>, ![1].streams = <<>>]
  /\ UNCHANGED <<tables, pat, cat, pc, cur, dec0, dec1, todo>>

\* release_program, last lines: the PMT's own entry.
PatForget ==
  /\ pc = "pat" /\ drop = <<>> /\ program # <<>>
  /\ program[1].old \o program[1].streams = <<>>
  /\ map' = [map EXCEPT ![program[1].pid] = Unmapped]
  /\ program' = Tail(program)
  /\ UNCHANGED <<live, dec, pat, cat, pc, locals>>

\* One turn of the loops that take a stream off a list and unref it.
DropStream ==
  /\ pc \in {"pat", "drop"} /\ drop # <<>>
  /\ SetTables(UnrefStream(Tables, Head(drop)))
  /\ drop' = Tail(drop)
  /\ UNCHANGED <<program, pat, cat, pc, cur, dec0, dec1, todo>>

\* proc_pat: the map is cleared and the new programs are entered.
PatEnd ==
  /\ pc = "pat" /\ drop = <<>> /\ program = <<>>
  /\ program' = [i \in 1..Len(pat) |-> NewProgram(pat[i])]
  /\ map' = [p \in Pid |->
              IF p = PatPid THEN [type |-> "PAT", ref |-> 1, target |-> None]
              ELSE IF Names(pat, p) THEN [type |-> "PMT", ref |-> 0, target |-> None]
              ELSE Unmapped]
  /\ pc' = "idle"
  /\ UNCHANGED <<live, dec, pat, cat, locals>>

\* The section is of another table, or its descriptors do not fit into it.
PmtForeign(i) ==
  /\ pc = "idle" /\ program[i].pmt # Foreign
  /\ program' = [program EXCEPT ![i].pmt = Foreign, ![i].mine = {}]
  /\ UNCHANGED <<tables, pat, cat, pc, locals>>

\* proc_pmt up to the lists: dec[0] and its reference.
PmtBegin(i, t) ==
  /\ pc = "idle" /\ t # program[i].pmt
  /\ program' = [program EXCEPT ![i].pmt = t, ![i].mine = {}]
  /\ cur' = i /\ todo' = t.es
  /\ \/ /\ t.ecm \in EcmPids /\ Registered(t.ecm)
        /\ dec0' = map[t.ecm].target
        /\ dec' = [dec EXCEPT ![dec0'].ref = @ + 1]
        /\ pc' = "lists"
        /\ UNCHANGED <<map, live>>
     \/ /\ t.ecm \in EcmPids /\ ~Registered(t.ecm)
        /\ \E d \in Dec \ live :
             /\ dec0' = d
             /\ LET R == AddDecryptor(Tables, t.ecm, d)
                IN  SetTables([R EXCEPT !.dec = [R.dec EXCEPT ![d].ref = @ + 1]])
        /\ pc' = "lists"
     \/ /\ t.ecm \in EcmPids /\ ~Registered(t.ecm) /\ Dec \subseteq live
        /\ dec0' = None /\ pc' = "end"
        /\ UNCHANGED tables
     \/ /\ t.ecm \notin EcmPids /\ Cardinality(live) = 1
        /\ dec0' \in live
        /\ dec' = [dec EXCEPT ![dec0'].ref = @ + 1]
        /\ pc' = "lists"
        /\ UNCHANGED <<map, live>>
     \/ /\ t.ecm \notin EcmPids /\ Cardinality(live) # 1
        /\ dec0' = None /\ pc' = "lists"
        /\ UNCHANGED tables
  /\ UNCHANGED <<pat, cat, dec1, drop>>

\* Mutant of PmtLists: PID 0x1fff and no PID are taken for ECM PIDs.
PmtListsUnasked ==
  /\ pc = "lists" /\ pc' = "drop"
  /\ drop' = program[cur].old
  /\ program' = [program EXCEPT ![cur].old = program[cur].streams,
                                ![cur].streams = <<program[cur].pmt.ecm>>]
  /\ UNCHANGED <<tables, pat, cat, cur, dec0, dec1, todo>>

\* proc_pmt: old_strm is set aside, streams become old_strm, and the program's
\* own ECM PID is the first new stream.
PmtLists ==
  /\ pc = "lists" /\ pc' = "drop"
  /\ LET pgrm == program[cur]
         e    == pgrm.pmt.ecm
     IN  /\ drop' = pgrm.old
         /\ program' = [program EXCEPT ![cur].old = pgrm.streams,
                                       ![cur].streams = IF e \in EcmPids THEN <<e>> ELSE <<>>]
         /\ map' = IF e \in EcmPids THEN MapWithEcm(map, <<>>, e) ELSE map
  /\ UNCHANGED <<live, dec, pat, cat, cur, dec0, dec1, todo>>

\* proc_pmt, one turn of the stream loop up to the decryptor the stream's own
\* descriptor asks for.
PmtStream ==
  /\ pc = "drop" /\ drop = <<>> /\ todo # <<>>
  /\ LET e    == Head(todo).ecm
         list == program[cur].streams
     IN  \/ /\ e \notin EcmPids
            /\ dec1' = None /\ pc' = "bind"
            /\ UNCHANGED <<tables, program>>
         \/ /\ e \in EcmPids /\ Registered(e)
            /\ dec1' = map[e].target /\ pc' = "bind"
            /\ map' = MapWithEcm(map, list, e)
            /\ program' = [program EXCEPT ![cur].streams = ListWithEcm(list, e)]
            /\ UNCHANGED <<live, dec>>
         \/ /\ e \in EcmPids /\ ~Registered(e)
            /\ \E d \in Dec \ live :
                 /\ dec1' = d
                 /\ LET R == AddDecryptor(Tables, e, d)
                    IN  SetTables([R EXCEPT !.map = MapWithEcm(R.map, list, e)])
            /\ program' = [program EXCEPT ![cur].streams = ListWithEcm(list, e)]
            /\ pc' = "bind"
         \/ /\ e \in EcmPids /\ ~Registered(e) /\ Dec \subseteq live
            /\ dec1' = None /\ pc' = "end"
            /\ UNCHANGED <<tables, program>>
  /\ UNCHANGED <<pat, cat, cur, dec0, todo, drop>>

\* The entries of other streams than p
OfOthers(entries, p) == {es \in entries : es.pid # p}

\* The rest of the turn: the stream is entered, mapped and bound.
PmtBind ==
  /\ pc = "bind" /\ pc' = "drop"
  /\ LET es == Head(todo)
         m  == [map EXCEPT ![es.pid] =
                  [type |-> "OTHER", ref |-> @.ref + 1, target |-> @.target]]
     IN  /\ SetTables(BindStream([Tables EXCEPT !.map = m], es.pid, ActiveDecryptor(es.ecm)))
         /\ program' = [i \in 1..Len(program) |->
              IF i = cur
                THEN [program[i] EXCEPT !.streams = Append(@, es.pid),
                                        !.mine = OfOthers(@, es.pid) \cup {es}]
                ELSE [program[i] EXCEPT !.mine = OfOthers(@, es.pid)]]
  /\ todo' = Tail(todo) /\ dec1' = None
  /\ UNCHANGED <<pat, cat, cur, dec0, drop>>

\* Mutant of PmtEnd: the error path leaves without giving dec[0] back.
PmtEndLeak ==
  /\ \/ pc = "end" /\ UNCHANGED tables
     \/ /\ pc = "drop" /\ drop = <<>> /\ todo = <<>>
        /\ SetTables(IF dec0 = None THEN Tables ELSE ReleaseDecryptor(Tables, dec0))
  /\ pc' = "idle" /\ cur' = 0 /\ dec0' = None /\ dec1' = None
  /\ todo' = <<>>
  /\ UNCHANGED <<program, pat, cat, drop>>

\* proc_pmt, LAST: dec[0] loses the reference it was given at the start.
PmtEnd ==
  /\ \/ pc = "end"
     \/ pc = "drop" /\ drop = <<>> /\ todo = <<>>
  /\ SetTables(IF dec0 = None THEN Tables ELSE ReleaseDecryptor(Tables, dec0))
  /\ pc' = "idle" /\ cur' = 0 /\ dec0' = None /\ dec1' = None
  /\ todo' = <<>>
  /\ UNCHANGED <<program, pat, cat, drop>>

\* The CAT's section is of another table.
CatForeign ==
  /\ pc = "idle" /\ cat # Foreign
  /\ cat' = Foreign
  /\ UNCHANGED <<tables, program, pat, pc, locals>>

\* proc_cat: c is the EMM PID, or None.
Cat(c) ==
  /\ pc = "idle" /\ c # cat
  /\ cat' = c
  /\ LET R == IF c = None THEN Tables ELSE ReleaseTarget(Tables, c)
         entry(type) == [type |-> type, ref |-> 1, target |-> None]
     IN  SetTables([R EXCEPT !.map =
           [p \in Pid |-> IF p = CatPid THEN entry("CAT")
                          ELSE IF p = c THEN entry("EMM")
                          ELSE R.map[p]]])
  /\ UNCHANGED <<program, pat, pc, locals>>

\* reset(): teardown releases everything.
Reset ==
  /\ pc = "idle"
  /\ map' = [p \in Pid |-> Unmapped]
  /\ live' = {} /\ dec' = [d \in Dec |-> NoDecryptor]
  /\ program' = <<>> /\ pat' = Unseen /\ cat' = Unseen
  /\ UNCHANGED <<pc, locals>>

Next ==
  \/ PatForeign
  \/ \E p \in Pats : PatBegin(p)
  \/ PatRelease
  \/ PatForget
  \/ DropStream
  \/ PatEnd
  \/ \E i \in 1..Len(program) : PmtForeign(i)
  \/ \E i \in 1..Len(program), t \in Pmts : PmtBegin(i, t)
  \/ PmtLists
  \/ PmtStream
  \/ PmtBind
  \/ PmtEnd
  \/ CatForeign
  \/ \E c \in Cats : Cat(c)
  \/ Reset

Spec == Init /\ [][Next]_vars

----------------------------------------------------------------------------
(* Properties. *)

\* The state has the types its declarations give it.
TypeOK ==
  /\ map \in [Pid -> [type : {"UNKNOWN", "PAT", "CAT", "PMT", "ECM", "EMM", "OTHER"},
                      ref : Nat, target : Dec \cup {None}]]
  /\ live \subseteq Dec
  /\ dec \in [Dec -> [ecm : EcmPids \cup {None}, ref : Nat]]
  /\ \A i \in 1..Len(program) :
       /\ program[i].pid \in PmtPids
       /\ program[i].pmt \in Pmts \cup {Foreign, Unseen}
       /\ program[i].streams \in Seq(EcmPids \cup EsPids)
       /\ program[i].old \in Seq(EcmPids \cup EsPids)
       /\ program[i].mine \subseteq [pid : EsPids, ecm : CaPid]
  /\ pat \in Pats \cup {Foreign, Unseen} /\ cat \in Cats \cup {Foreign, Unseen}
  /\ pc \in {"idle", "pat", "lists", "drop", "bind", "end"}
  /\ dec0 \in Dec \cup {None} /\ dec1 \in Dec \cup {None}
  /\ drop \in Seq(EcmPids \cup EsPids)

Where(list, p) == {i \in 1..Len(list) : list[i] = p}

Occurrences(list, p) == Cardinality(Where(list, p))

\* The stream entries of the programs in list that name p
Listed(list, p) == UNION {{i} \X Where(list[i].old \o list[i].streams, p) : i \in 1..Len(list)}

\* The number of stream entries that name p, those being dropped included.
Entries(p) == Occurrences(drop, p) + Cardinality(Listed(program, p))

\* map[].ref counts the stream entries that name the PID.  It is unsigned in
\* the code: one decrement too many would wrap it and keep the entry for ever.
MapRefExact == \A p \in EsPids \cup EcmPids : map[p].ref = Entries(p)

Bound(d) == {p \in Pid : map[p].type = "OTHER" /\ map[p].target = d}

\* A decryptor's ref counts the PIDs bound to it, and proc_pmt while it holds
\* it as dec[0].
DecRefExact ==
  \A d \in live : dec[d].ref = Cardinality(Bound(d)) + (IF dec0 = d THEN 1 ELSE 0)

\* All counts are exact, over shared streams and decryptors, two generations of
\* streams, changing tables and want of memory.
RefsExact == MapRefExact /\ DecRefExact

\* No map entry and no local of proc_pmt points at a freed decryptor.
NoDangling ==
  ({map[p].target : p \in Pid} \cup {dec0, dec1}) \ {None} \subseteq live

\* Between two sections every decryptor has a stream: none is leaked.
NoIdleDecryptor == pc = "idle" => \A d \in live : Bound(d) # {}

\* The CA PID that applies to a stream of a PMT.
Declared(t, es) == IF es.ecm = None THEN t.ecm ELSE es.ecm

\* A stream whose PMT declares an ECM PID is bound to the decryptor that gets
\* the ECMs of that PID, whatever PMTs came before and whatever the other
\* programs did meanwhile.  A stream that several programs, or several entries
\* of one PMT, list follows the entry that was read last.
DeclaredBinding ==
  pc = "idle" =>
    \A i \in 1..Len(program) : \A es \in program[i].mine :
      LET e == Declared(program[i].pmt, es)
          d == map[es.pid].target
      IN  e \in EcmPids => /\ d # None /\ dec[d].ecm = e
                           /\ map[e].type = "ECM" /\ map[e].target = d
=============================================================================
