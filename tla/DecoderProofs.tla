--------------------------- MODULE DecoderProofs ---------------------------
(***************************************************************************)
(* The decoder runs the handlers of ProgramMap and nothing else on their   *)
(* tables, so that what ProgramMapProofs says holds inside every call; no  *)
(* decryptor goes on with the key of an older ECM; and no packet is lost,  *)
(* repeated or reordered between put and get, whatever the searches, the   *)
(* tables and the failing packets do to the two buffers.  What a search    *)
(* has passed is what its parsers have seen.  To its client the decoder is *)
(* the queue of PacketService.                                             *)
(***************************************************************************)
EXTENDS Decoder, ProgramMapProofs

----------------------------------------------------------------------------
(* The PIDs that are mapped as PMTs' are those of the programs, one each;  *)
(* one that is mapped as an EMM's was named by a CAT.                      *)

RolesMapped ==
  /\ \A p \in Pid :
       /\ map[p].type = "PMT" => \E i \in 1..Len(program) : program[i].pid = p
       /\ map[p].type = "EMM" => p \in EmmPids
  /\ \A i \in 1..Len(program) : map[program[i].pid].type = "PMT"
  /\ \A i, j \in 1..Len(program) : program[i].pid = program[j].pid => i = j

\* The map as the helpers have it between two assignments
LooseEntry == [type : {"UNKNOWN", "PAT", "CAT", "PMT", "ECM", "EMM", "OTHER"},
               ref : Int, target : Dec \cup {None}]

IsTable(R) == R = [map |-> R.map, live |-> R.live, dec |-> R.dec] /\ R.map \in [Pid -> LooseEntry]

\* No PID becomes a PMT's or an EMM's, and a PMT's stays one.
KeepsRoles(R, S) ==
  \A x \in Pid :
    /\ S.map[x].type \in {"PMT", "EMM"} => S.map[x].type = R.map[x].type
    /\ x \in PmtPids /\ R.map[x].type = "PMT" => S.map[x].type = "PMT"

LEMMA ReleaseKeepsRoles ==
  ASSUME NEW R, IsTable(R), NEW d, NEW S, S = ReleaseDecryptor(R, d)
  PROVE  IsTable(S) /\ KeepsRoles(R, S)
<1> DEFINE e == R.dec[d].ecm
           u == [type |-> "UNKNOWN", ref |-> R.map[e].ref, target |-> None]
<1>1. R = [map |-> R.map, live |-> R.live, dec |-> R.dec] /\ R.map \in [Pid -> LooseEntry]
  BY DEF IsTable
<1>2. CASE S = RemoveDecryptor(R, d)
  <2>1. S = [map |-> S.map, live |-> S.live, dec |-> S.dec]
        /\ (S.map = R.map \/ (R.map[e].type = "ECM" /\ S.map = [R.map EXCEPT ![e] = u]))
    BY <1>2 DEF RemoveDecryptor
  <2>2. e \in Pid => u \in LooseEntry BY <1>1 DEF LooseEntry
  <2> HIDE DEF e
  <2>3. [R.map EXCEPT ![e] = u] \in [Pid -> LooseEntry] BY <1>1, <2>2
  <2>4. u.type = "UNKNOWN" OBVIOUS
  <2>5. KeepsRoles(R, S) BY <1>1, <2>1, <2>4 DEF KeepsRoles
  <2> QED BY <1>1, <2>1, <2>3, <2>5 DEF IsTable
<1>3. CASE S = [R EXCEPT !.dec = [R.dec EXCEPT ![d].ref = @ - 1]]
  <2>1. S = [map |-> R.map, live |-> R.live, dec |-> [R.dec EXCEPT ![d].ref = @ - 1]]
    BY <1>1, <1>3
  <2> QED BY <1>1, <2>1 DEF IsTable, KeepsRoles
<1> QED BY <1>2, <1>3 DEF ReleaseDecryptor

LEMMA TargetKeepsRoles ==
  ASSUME NEW R, IsTable(R), NEW p, NEW S, S = ReleaseTarget(R, p)
  PROVE  IsTable(S) /\ KeepsRoles(R, S)
<1>1. KeepsRoles(R, R) BY DEF KeepsRoles
<1>2. CASE S = R BY <1>1, <1>2
<1>3. CASE S = ReleaseDecryptor(R, R.map[p].target) BY <1>3, ReleaseKeepsRoles
<1> QED BY <1>2, <1>3 DEF ReleaseTarget

\* An entry written anew, as no PMT's
LEMMA EntryKeepsRoles ==
  ASSUME NEW R, IsTable(R), NEW p \in Pid \ PmtPids, NEW m \in LooseEntry,
         m.type \in {"PMT", "EMM"} => m.type = R.map[p].type,
         NEW S, S = [R EXCEPT !.map = [R.map EXCEPT ![p] = m]]
  PROVE  IsTable(S) /\ KeepsRoles(R, S)
<1>1. R = [map |-> R.map, live |-> R.live, dec |-> R.dec] /\ R.map \in [Pid -> LooseEntry]
  BY DEF IsTable
<1>2. S = [map |-> [R.map EXCEPT ![p] = m], live |-> R.live, dec |-> R.dec] BY <1>1
<1> QED BY <1>1, <1>2 DEF IsTable, KeepsRoles

LEMMA UnrefKeepsRoles ==
  ASSUME NEW R, IsTable(R), NEW p \in Pid \ PmtPids, NEW S, S = UnrefStream(R, p)
  PROVE  IsTable(S) /\ KeepsRoles(R, S)
<1> DEFINE T == ReleaseTarget(R, p)
           m == [R.map[p] EXCEPT !.ref = @ - 1]
<1>1. CASE S = [T EXCEPT !.map = [T.map EXCEPT ![p] = Unmapped]]
  <2>1. IsTable(T) /\ KeepsRoles(R, T) BY TargetKeepsRoles
  <2>2. Unmapped \in LooseEntry /\ Unmapped.type \notin {"PMT", "EMM"} BY DEF Unmapped, LooseEntry
  <2> HIDE DEF T
  <2>3. IsTable(S) /\ KeepsRoles(T, S) BY <1>1, <2>1, <2>2, EntryKeepsRoles
  <2> QED BY <2>1, <2>3 DEF KeepsRoles
<1>2. CASE S = [R EXCEPT !.map = [R.map EXCEPT ![p].ref = @ - 1]]
  <2>1. R.map[p] \in LooseEntry BY DEF IsTable
  <2>2. m \in LooseEntry /\ m.type = R.map[p].type BY <2>1 DEF LooseEntry
  <2>3. S = [R EXCEPT !.map = [R.map EXCEPT ![p] = m]] BY <1>2
  <2> HIDE DEF m
  <2> QED BY <2>2, <2>3, EntryKeepsRoles
<1> QED BY <1>1, <1>2 DEF UnrefStream

LEMMA AddKeepsRoles ==
  ASSUME NEW R, IsTable(R), NEW e \in Pid \ PmtPids, NEW d \in Dec,
         NEW S, S = AddDecryptor(R, e, d)
  PROVE  IsTable(S) /\ KeepsRoles(R, S)
<1> DEFINE Q == [R EXCEPT !.live = R.live \cup {d},
                          !.dec = [R.dec EXCEPT ![d] = [ecm |-> e, ref |-> 0]]]
           T == ReleaseTarget(Q, e)
           m == [type |-> "ECM", ref |-> T.map[e].ref, target |-> d]
<1>1. IsTable(Q) /\ KeepsRoles(R, Q)
  <2> DEFINE c == [R.dec EXCEPT ![d] = [ecm |-> e, ref |-> 0]]
             l == R.live \cup {d}
  <2>1. R = [map |-> R.map, live |-> R.live, dec |-> R.dec] BY DEF IsTable
  <2>2. Q = [R EXCEPT !.live = l, !.dec = c] OBVIOUS
  <2> HIDE DEF c, l, Q
  <2>3. Q = [map |-> R.map, live |-> l, dec |-> c] BY <2>1, <2>2
  <2> QED BY <2>3 DEF IsTable, KeepsRoles
<1>2. IsTable(T) /\ KeepsRoles(Q, T)
  <2> HIDE DEF Q
  <2> QED BY <1>1, TargetKeepsRoles
<1>3. S = [T EXCEPT !.map = [T.map EXCEPT ![e] = m]] BY DEF AddDecryptor
<1> HIDE DEF Q, T
<1>4. m \in LooseEntry /\ m.type \notin {"PMT", "EMM"} BY <1>2 DEF IsTable, LooseEntry
<1>5. IsTable(S) /\ KeepsRoles(T, S) BY <1>2, <1>3, <1>4, EntryKeepsRoles
<1> QED BY <1>1, <1>2, <1>5 DEF KeepsRoles

\* add_ecm_stream
LEMMA CountKeepsRoles ==
  ASSUME NEW R, IsTable(R), NEW list, NEW e \in Pid \ PmtPids,
         NEW S, S = [R EXCEPT !.map = MapWithEcm(R.map, list, e)]
  PROVE  IsTable(S) /\ KeepsRoles(R, S)
<1> DEFINE m == [R.map[e] EXCEPT !.ref = @ + 1]
<1>1. R.map[e] \in LooseEntry /\ R = [map |-> R.map, live |-> R.live, dec |-> R.dec]
  BY DEF IsTable
<1>2. CASE Names(list, e)
  <2>1. S = R BY <1>1, <1>2 DEF MapWithEcm
  <2> QED BY <2>1 DEF KeepsRoles
<1>3. CASE ~Names(list, e)
  <2>1. m \in LooseEntry /\ m.type = R.map[e].type BY <1>1 DEF LooseEntry
  <2>2. S = [R EXCEPT !.map = [R.map EXCEPT ![e] = m]] BY <1>3 DEF MapWithEcm
  <2> HIDE DEF m
  <2> QED BY <2>1, <2>2, EntryKeepsRoles
<1> QED BY <1>2, <1>3

LEMMA BindKeepsRoles ==
  ASSUME NEW R, IsTable(R), NEW p \in Pid \ PmtPids, NEW d \in Dec \cup {None},
         NEW S, S = BindStream(R, p, d)
  PROVE  IsTable(S) /\ KeepsRoles(R, S)
<1> DEFINE old == R.map[p].target
           T == IF old = None THEN R ELSE ReleaseDecryptor(R, old)
           m == [T.map[p] EXCEPT !.target = d]
           c == IF d = None THEN T.dec ELSE [T.dec EXCEPT ![d].ref = @ + 1]
<1>1. CASE old = d
  <2>1. S = R BY <1>1 DEF BindStream
  <2> QED BY <2>1 DEF KeepsRoles
<1>2. CASE old # d
  <2>1. IsTable(T) /\ KeepsRoles(R, T)
    <3>1. CASE old = None BY <3>1 DEF KeepsRoles
    <3>2. CASE old # None
      <4>1. T = ReleaseDecryptor(R, old) BY <3>2
      <4> HIDE DEF T
      <4> QED BY <4>1, ReleaseKeepsRoles
    <3> QED BY <3>1, <3>2
  <2>2. S = [T EXCEPT !.map = [T.map EXCEPT ![p].target = d], !.dec = c]
    BY <1>2 DEF BindStream
  <2> HIDE DEF T, c
  <2>3. T.map[p] \in LooseEntry /\ T = [map |-> T.map, live |-> T.live, dec |-> T.dec]
        /\ T.map \in [Pid -> LooseEntry]
    BY <2>1 DEF IsTable
  <2>4. m \in LooseEntry /\ m.type = T.map[p].type BY <2>3 DEF LooseEntry
  <2>5. [T.map EXCEPT ![p].target = d] = [T.map EXCEPT ![p] = m] OBVIOUS
  <2> HIDE DEF m
  <2>6. S = [map |-> [T.map EXCEPT ![p] = m], live |-> T.live, dec |-> c]
    BY <2>2, <2>3, <2>5
  <2> QED BY <2>1, <2>3, <2>4, <2>6 DEF IsTable, KeepsRoles
<1> QED BY <1>1, <1>2

----------------------------------------------------------------------------
(* The handlers keep it.                                                   *)

LEMMA TablesLoose ==
  ASSUME IInv
  PROVE  IsTable(Tables) /\ Tables.map = map /\ Tables.live = live /\ Tables.dec = dec
<1>1. map \in [Pid -> MapEntry] BY TablesTyped DEF IInv
<1>2. MapEntry \subseteq LooseEntry BY DEF MapEntry, LooseEntry
<1> QED BY <1>1, <1>2 DEF IsTable, Tables

SamePrograms ==
  /\ Len(program') = Len(program)
  /\ \A j \in 1..Len(program) : program'[j].pid = program[j].pid

\* A program written anew under its PID
LEMMA ProgramRewritten ==
  ASSUME IInv, NEW i \in 1..Len(program), NEW g \in Program, g.pid = program[i].pid,
         program' = [program EXCEPT ![i] = g]
  PROVE  SamePrograms
<1>1. program \in Seq(Program) BY DEF IInv, Control
<1>2. /\ Len(program') = Len(program)
      /\ \A j \in 1..Len(program) : program'[j] = IF j = i THEN g ELSE program[j]
  BY <1>1, ExceptSeq
<1> QED BY <1>2 DEF SamePrograms

\* What the handlers write to the fields of a program
LEMMA ProgramFields ==
  ASSUME IInv, NEW i \in 1..Len(program)
  PROVE  /\ program \in Seq(Program) /\ program[i] \in Program
         /\ \A t \in Pmts \cup {Foreign, Unseen} :
              LET g == [program[i] EXCEPT !.pmt = t, !.mine = {}]
              IN  g \in Program /\ g.pid = program[i].pid
         /\ \A o, s \in Seq(StreamPid) :
              LET g == [program[i] EXCEPT !.old = o, !.streams = s]
              IN  g \in Program /\ g.pid = program[i].pid
<1>1. program \in Seq(Program) BY DEF IInv, Control
<1>2. program[i] \in Program BY <1>1, ElementOfSeq
<1> QED BY <1>1, <1>2 DEF Program

LEMMA MappedKept ==
  ASSUME IInv, RolesMapped, SamePrograms,
         \A x \in Pid :
           /\ map'[x].type \in {"PMT", "EMM"} => map'[x].type = map[x].type
           /\ x \in PmtPids /\ map[x].type = "PMT" => map'[x].type = "PMT"
  PROVE  RolesMapped'
<1>1. \A i \in 1..Len(program) : program[i].pid \in PmtPids /\ program[i].pid \in Pid
  <2>1. \A i \in 1..Len(program) : program[i] \in Program BY ElementOfSeq DEF IInv, Control
  <2> QED BY <2>1 DEF Program, Pid
<1>2. /\ \A p \in Pid : map'[p].type = "PMT" => \E i \in 1..Len(program') : program'[i].pid = p
      /\ \A p \in Pid : map'[p].type = "EMM" => p \in EmmPids
  BY DEF RolesMapped, SamePrograms
<1>3. \A i \in 1..Len(program') : map'[program'[i].pid].type = "PMT"
  BY <1>1 DEF RolesMapped, SamePrograms
<1>4. \A i, j \in 1..Len(program') : program'[i].pid = program'[j].pid => i = j
  BY DEF RolesMapped, SamePrograms
<1> QED BY <1>2, <1>3, <1>4 DEF RolesMapped

\* The PIDs that the handlers write are not PMTs'.
LEMMA OtherPids ==
  EcmPids \cup EsPids \subseteq Pid \ PmtPids /\ StreamPid \subseteq Pid \ PmtPids
BY RolesAssumption DEF Pid, StreamPid

LEMMA SetKeepsRoles ==
  ASSUME IInv, RolesMapped, SamePrograms, NEW S, KeepsRoles(Tables, S), SetTables(S)
  PROVE  RolesMapped'
BY TablesLoose, MappedKept DEF KeepsRoles, SetTables

LEMMA AddMapped ==
  ASSUME IInv, NEW e \in EcmPids, NEW d \in Dec, NEW R, R = AddDecryptor(Tables, e, d)
  PROVE  IsTable(R) /\ KeepsRoles(Tables, R)
<1>1. e \in Pid \ PmtPids BY OtherPids
<1> QED BY <1>1, TablesLoose, AddKeepsRoles

LEMMA PmtBeginMaps ==
  ASSUME IInv, RolesMapped, NEW i \in 1..Len(program), NEW t \in Pmts, PmtBegin(i, t)
  PROVE  RolesMapped'
<1> DEFINE g == [program[i] EXCEPT !.pmt = t, !.mine = {}]
<1>1. SamePrograms
  <2>1. g \in Program /\ g.pid = program[i].pid /\ program \in Seq(Program) BY ProgramFields
  <2>2. program' = [program EXCEPT ![i] = g] BY <2>1 DEF PmtBegin
  <2> HIDE DEF g
  <2> QED BY <2>1, <2>2, ProgramRewritten
<1>2. CASE map' = map BY <1>1, <1>2, MappedKept
<1>3. CASE /\ t.ecm \in EcmPids
           /\ \E d \in Dec \ live :
                LET R == AddDecryptor(Tables, t.ecm, d)
                IN  SetTables([R EXCEPT !.dec = [R.dec EXCEPT ![d].ref = @ + 1]])
  <2>1. PICK d, R :
          /\ d \in Dec \ live /\ R = AddDecryptor(Tables, t.ecm, d)
          /\ SetTables([R EXCEPT !.dec = [R.dec EXCEPT ![d].ref = @ + 1]])
    BY <1>3
  <2>2. IsTable(R) /\ KeepsRoles(Tables, R) BY <1>3, <2>1, AddMapped
  <2>3. map' = R.map BY <2>1, <2>2 DEF SetTables, IsTable
  <2> QED BY <1>1, <2>2, <2>3, TablesLoose, MappedKept DEF KeepsRoles
<1> QED BY <1>2, <1>3 DEF PmtBegin, tables

LEMMA PmtListsMaps == ASSUME IInv, RolesMapped, PmtLists PROVE RolesMapped'
<1> DEFINE e == program[cur].pmt.ecm
           s == IF e \in EcmPids THEN <<e>> ELSE <<>>
           g == [program[cur] EXCEPT !.old = program[cur].streams, !.streams = s]
           S == [Tables EXCEPT !.map = MapWithEcm(Tables.map, <<>>, e)]
<1>1. cur \in 1..Len(program) BY DEF IInv, Control, PmtLists
<1>2. SamePrograms
  <2>1. program[cur] \in Program /\ program \in Seq(Program) BY <1>1, ProgramFields
  <2>2. program[cur].streams \in Seq(StreamPid) BY <2>1 DEF Program
  <2>3. s \in Seq(StreamPid)
    <3>1. CASE e \in EcmPids BY <3>1 DEF StreamPid
    <3>2. CASE e \notin EcmPids BY <3>2, EmptySeq
    <3> QED BY <3>1, <3>2
  <2> HIDE DEF s
  <2>4. g \in Program /\ g.pid = program[cur].pid BY <1>1, <2>2, <2>3, ProgramFields
  <2>5. program' = [program EXCEPT ![cur] = g] BY <1>1, <2>1 DEF PmtLists, s
  <2> HIDE DEF g
  <2> QED BY <1>1, <2>4, <2>5, ProgramRewritten
<1>3. CASE e \in EcmPids
  <2>1. e \in Pid \ PmtPids BY <1>3, OtherPids
  <2>2. map' = S.map BY <1>3, TablesLoose DEF PmtLists, IsTable
  <2>3. KeepsRoles(Tables, S) BY <2>1, TablesLoose, CountKeepsRoles
  <2> HIDE DEF S
  <2> QED BY <1>2, <2>2, <2>3, TablesLoose, MappedKept DEF KeepsRoles
<1>4. CASE e \notin EcmPids
  <2>1. map' = map BY <1>4 DEF PmtLists
  <2> QED BY <1>2, <2>1, MappedKept
<1> QED BY <1>3, <1>4

LEMMA PmtStreamMaps == ASSUME IInv, RolesMapped, PmtStream PROVE RolesMapped'
<1> DEFINE e == Head(todo).ecm
           list == program[cur].streams
           g == [program[cur] EXCEPT !.streams = ListWithEcm(list, e)]
<1>1. cur \in 1..Len(program) BY DEF IInv, Control, PmtStream
<1>2. program[cur] \in Program /\ program \in Seq(Program) /\ list \in Seq(StreamPid)
  <2>1. program[cur] \in Program /\ program \in Seq(Program) BY <1>1, ProgramFields
  <2> QED BY <2>1 DEF Program
<1>3. CASE program' = program /\ map' = map
  BY <1>3, MappedKept DEF SamePrograms
<1>4. ASSUME e \in EcmPids, program' = [program EXCEPT ![cur].streams = ListWithEcm(list, e)]
      PROVE  SamePrograms
  <2>1. ListWithEcm(list, e) \in Seq(StreamPid)
    BY <1>2, <1>4, AppendProperties DEF ListWithEcm, StreamPid
  <2>2. g \in Program /\ g.pid = program[cur].pid BY <1>2, <2>1 DEF Program
  <2>3. program' = [program EXCEPT ![cur] = g] BY <1>1, <1>2, <1>4
  <2> HIDE DEF g
  <2> QED BY <1>1, <2>2, <2>3, ProgramRewritten
<1>5. CASE /\ e \in EcmPids /\ map' = MapWithEcm(map, list, e)
           /\ program' = [program EXCEPT ![cur].streams = ListWithEcm(list, e)]
  <2> DEFINE S == [Tables EXCEPT !.map = MapWithEcm(Tables.map, list, e)]
  <2>1. e \in Pid \ PmtPids BY <1>5, OtherPids
  <2>2. map' = S.map BY <1>5, TablesLoose DEF IsTable
  <2>3. KeepsRoles(Tables, S) BY <2>1, TablesLoose, CountKeepsRoles
  <2>4. SamePrograms BY <1>4, <1>5
  <2> HIDE DEF S
  <2> QED BY <2>2, <2>3, <2>4, TablesLoose, MappedKept DEF KeepsRoles
<1>6. CASE /\ e \in EcmPids
           /\ program' = [program EXCEPT ![cur].streams = ListWithEcm(list, e)]
           /\ \E d \in Dec \ live :
                LET R == AddDecryptor(Tables, e, d)
                IN  SetTables([R EXCEPT !.map = MapWithEcm(R.map, list, e)])
  <2>1. PICK d, R :
          /\ d \in Dec \ live /\ R = AddDecryptor(Tables, e, d)
          /\ SetTables([R EXCEPT !.map = MapWithEcm(R.map, list, e)])
    BY <1>6
  <2> DEFINE S == [R EXCEPT !.map = MapWithEcm(R.map, list, e)]
  <2>2. e \in Pid \ PmtPids BY <1>6, OtherPids
  <2>3. IsTable(R) /\ KeepsRoles(Tables, R) BY <1>6, <2>1, AddMapped
  <2>4. KeepsRoles(R, S) BY <2>2, <2>3, CountKeepsRoles
  <2>5. SetTables(S) BY <2>1
  <2>6. SamePrograms BY <1>4, <1>6
  <2> HIDE DEF S
  <2>7. KeepsRoles(Tables, S) BY <2>3, <2>4 DEF KeepsRoles
  <2> QED BY <2>5, <2>6, <2>7, SetKeepsRoles
<1> QED BY <1>3, <1>5, <1>6 DEF PmtStream, tables

LEMMA PmtBindMaps == ASSUME IInv, RolesMapped, PmtBind PROVE RolesMapped'
<1>0. PICK p, d : p = Head(todo).pid /\ d = ActiveDecryptor(Head(todo).ecm) OBVIOUS
<1> DEFINE n == [type |-> "OTHER", ref |-> map[p].ref + 1, target |-> map[p].target]
           m == [map EXCEPT ![p] = n]
           R == [Tables EXCEPT !.map = m]
           S == BindStream(R, p, d)
<1>1. /\ todo # <<>> /\ p \in Pid \ PmtPids /\ cur \in 1..Len(program) /\ program \in Seq(Program)
  <2>1. todo # <<>> /\ todo \in Seq([pid : EsPids, ecm : CaPid])
        /\ cur \in 1..Len(program) /\ program \in Seq(Program)
    BY DEF IInv, Control, PmtBind
  <2>2. Head(todo) \in [pid : EsPids, ecm : CaPid] BY <2>1, HeadTailProperties
  <2> QED BY <1>0, <2>1, <2>2, OtherPids
<1>2. /\ IsTable(Tables) /\ Tables.map = map /\ map \in [Pid -> LooseEntry]
      /\ d \in Dec \cup {None}
  <2>1. IsTable(Tables) /\ Tables.map = map BY TablesLoose
  <2>2. live \subseteq Dec BY TablesTyped DEF IInv
  <2>3. dec0 \in live \cup {None} /\ dec1 \in live \cup {None} BY DEF IInv, Control
  <2> QED BY <1>0, <2>1, <2>2, <2>3 DEF ActiveDecryptor, IsTable
<1>3. n \in LooseEntry /\ n.type \notin {"PMT", "EMM"} BY <1>1, <1>2 DEF LooseEntry
<1>4. R = [Tables EXCEPT !.map = [Tables.map EXCEPT ![p] = n]] BY <1>2
<1>5. SetTables(S)
  <2>1. m = [map EXCEPT ![Head(todo).pid] =
               [type |-> "OTHER", ref |-> @.ref + 1, target |-> @.target]]
    BY <1>0
  <2> QED BY <2>1, <1>0 DEF PmtBind
<1> HIDE DEF n, m, R, S
<1>6. IsTable(R) /\ KeepsRoles(Tables, R) BY <1>1, <1>2, <1>3, <1>4, EntryKeepsRoles
<1>7. KeepsRoles(R, S) BY <1>1, <1>2, <1>6, BindKeepsRoles DEF S
<1>8. KeepsRoles(Tables, S) BY <1>6, <1>7 DEF KeepsRoles
<1>9. SamePrograms
  <2>1. program' = [i \in 1..Len(program) |->
                      IF i = cur
                        THEN [program[i] EXCEPT !.streams = Append(@, p),
                                                !.mine = OfOthers(@, p) \cup {Head(todo)}]
                        ELSE [program[i] EXCEPT !.mine = OfOthers(@, p)]]
    BY <1>0 DEF PmtBind
  <2>2. \A i \in 1..Len(program) : program[i] \in Program BY <1>1, ElementOfSeq
  <2>3. \A i \in 1..Len(program) : program'[i].pid = program[i].pid BY <2>1, <2>2 DEF Program
  <2>4. Len(program') = Len(program)
    <3>1. Len(program) \in Nat BY <1>1, LenProperties
    <3>2. program' = [i \in 1..Len(program) |-> program'[i]] BY <2>1
    <3> QED BY <3>1, <3>2
  <2> QED BY <2>3, <2>4 DEF SamePrograms
<1> QED BY <1>5, <1>8, <1>9, SetKeepsRoles

LEMMA NextMaps == ASSUME IInv, RolesMapped, Next PROVE RolesMapped'
<1>1. ASSUME NEW p \in Pats, PatBegin(p) PROVE RolesMapped'
  BY <1>1, MappedKept DEF PatBegin, SamePrograms, tables
<1>2. CASE PatForeign \/ CatForeign
  BY <1>2, MappedKept DEF PatForeign, CatForeign, SamePrograms, tables
<1>3. CASE PatRelease
  <2> DEFINE g == [program[1] EXCEPT !.old = <<>>, !.streams = <<>>]
  <2>1. program \in Seq(Program) /\ 1 \in 1..Len(program)
    BY <1>3, EmptySeq DEF IInv, Control, PatRelease
  <2>2. <<>> \in Seq(StreamPid) BY EmptySeq
  <2>3. g \in Program /\ g.pid = program[1].pid BY <2>1, <2>2, ProgramFields
  <2>4. program' = [program EXCEPT ![1] = g] BY <1>3, <2>1 DEF PatRelease
  <2> HIDE DEF g
  <2>5. SamePrograms BY <2>1, <2>3, <2>4, ProgramRewritten
  <2> QED BY <1>3, <2>5, MappedKept DEF PatRelease, tables
<1>4. CASE PatForget
  <2>1. program \in Seq(Program) /\ program # <<>> BY <1>4 DEF IInv, Control, PatForget
  <2>2. map \in [Pid -> MapEntry] BY TablesTyped DEF IInv
  <2>3. /\ Len(program) \in Nat \ {0} /\ Len(program') = Len(program) - 1
        /\ \A j \in 1..Len(program') : program'[j] = program[j + 1]
    BY <1>4, <2>1, HeadTailProperties, EmptySeq DEF PatForget
  <2>4. map' = [map EXCEPT ![program[1].pid] = Unmapped] BY <1>4 DEF PatForget
  <2>5. ASSUME NEW x \in Pid, map'[x].type = "PMT"
        PROVE  \E j \in 1..Len(program') : program'[j].pid = x
    <3>1. x # program[1].pid /\ map[x].type = "PMT" BY <2>2, <2>4, <2>5 DEF Unmapped
    <3>2. PICK i \in 1..Len(program) : program[i].pid = x BY <3>1 DEF RolesMapped
    <3>3. i - 1 \in 1..Len(program') BY <2>3, <3>1, <3>2
    <3>4. program'[i - 1] = program[i] BY <2>3, <3>3
    <3> QED BY <3>2, <3>3, <3>4
  <2>6. ASSUME NEW x \in Pid, map'[x].type = "EMM" PROVE x \in EmmPids
    <3>1. map[x].type = "EMM" BY <2>2, <2>4, <2>6 DEF Unmapped
    <3> QED BY <3>1 DEF RolesMapped
  <2>7. ASSUME NEW i \in 1..Len(program') PROVE map'[program'[i].pid].type = "PMT"
    <3>1. /\ i + 1 \in 1..Len(program) /\ 1 \in 1..Len(program) /\ i + 1 # 1
          /\ program'[i] = program[i + 1]
      BY <2>3
    <3>2. program[i + 1].pid # program[1].pid /\ map[program[i + 1].pid].type = "PMT"
      BY <3>1 DEF RolesMapped
    <3>3. map'[program[i + 1].pid] = map[program[i + 1].pid] BY <2>4, <3>2
    <3> QED BY <3>1, <3>2, <3>3
  <2>8. ASSUME NEW i \in 1..Len(program'), NEW j \in 1..Len(program'),
               program'[i].pid = program'[j].pid
        PROVE  i = j
    <3>1. /\ i + 1 \in 1..Len(program) /\ j + 1 \in 1..Len(program)
          /\ program[i + 1].pid = program[j + 1].pid
      BY <2>3, <2>8
    <3>2. i + 1 = j + 1 BY <3>1 DEF RolesMapped
    <3> QED BY <3>2
  <2> QED BY <2>5, <2>6, <2>7, <2>8 DEF RolesMapped
<1>5. CASE DropStream
  <2> DEFINE S == UnrefStream(Tables, Head(drop))
  <2>1. Head(drop) \in Pid \ PmtPids
    <3>1. Head(drop) \in StreamPid BY <1>5, HeadTailProperties DEF DropStream, IInv, Control
    <3> QED BY <3>1, OtherPids
  <2>2. KeepsRoles(Tables, S) BY <2>1, TablesLoose, UnrefKeepsRoles
  <2>3. SetTables(S) /\ SamePrograms BY <1>5 DEF DropStream, SamePrograms
  <2> HIDE DEF S
  <2> QED BY <2>2, <2>3, SetKeepsRoles
<1>6. CASE PatEnd
  <2>1. pat \in Seq(PmtPids) BY <1>6, TablesAssumption DEF PatEnd, IInv, Control
  <2>2. program' = [i \in 1..Len(pat) |-> NewProgram(pat[i])] BY <1>6 DEF PatEnd
  <2>3. Len(pat) \in Nat BY <2>1, LenProperties
  <2>4. Len(program') = Len(pat) BY <2>2, <2>3
  <2>5. ASSUME NEW x \in Pid, map'[x].type = "PMT" PROVE Names(pat, x)
    BY <1>6, <2>5 DEF PatEnd, Unmapped
  <2>6. ASSUME NEW x \in Pid, map'[x].type = "EMM" PROVE x \in EmmPids
    <3>1. map[x].type = "EMM" BY <1>6, <2>6 DEF PatEnd, Unmapped
    <3> QED BY <3>1 DEF RolesMapped
  <2>7. ASSUME NEW i \in 1..Len(program') PROVE map'[program'[i].pid].type = "PMT"
    <3>1. program'[i].pid = pat[i] /\ i \in 1..Len(pat) BY <2>2, <2>4 DEF NewProgram
    <3>2. pat[i] \in PmtPids BY <2>1, <3>1, ElementOfSeq
    <3>3. pat[i] \in Pid /\ pat[i] # PatPid BY <3>2, RolesAssumption DEF Pid
    <3>4. Names(pat, pat[i]) BY <3>1 DEF Names
    <3> QED BY <1>6, <3>1, <3>3, <3>4 DEF PatEnd
  <2>8. \A i, j \in 1..Len(pat) : i # j => pat[i] # pat[j]
    BY <1>6, TablesAssumption DEF PatEnd, IInv, Control
  <2>9. \A i, j \in 1..Len(program') : program'[i].pid = program'[j].pid => i = j
    BY <2>2, <2>4, <2>8 DEF NewProgram
  <2>10. \A x \in Pid : map'[x].type = "PMT" => \E i \in 1..Len(program') : program'[i].pid = x
    BY <2>2, <2>4, <2>5 DEF Names, NewProgram
  <2> QED BY <2>6, <2>7, <2>9, <2>10 DEF RolesMapped
<1>7. ASSUME NEW i \in 1..Len(program), PmtForeign(i) PROVE RolesMapped'
  <2> DEFINE g == [program[i] EXCEPT !.pmt = Foreign, !.mine = {}]
  <2>1. g \in Program /\ g.pid = program[i].pid /\ program \in Seq(Program) BY ProgramFields
  <2>2. program' = [program EXCEPT ![i] = g] BY <1>7, <2>1 DEF PmtForeign
  <2> HIDE DEF g
  <2>3. SamePrograms BY <2>1, <2>2, ProgramRewritten
  <2> QED BY <1>7, <2>3, MappedKept DEF PmtForeign, tables
<1>8. CASE PmtEnd
  <2> DEFINE S == IF dec0 = None THEN Tables ELSE ReleaseDecryptor(Tables, dec0)
  <2>1. KeepsRoles(Tables, S)
    <3>1. CASE dec0 = None BY <3>1 DEF KeepsRoles
    <3>2. CASE dec0 # None
      <4>1. S = ReleaseDecryptor(Tables, dec0) BY <3>2
      <4> HIDE DEF S
      <4> QED BY <4>1, TablesLoose, ReleaseKeepsRoles
    <3> QED BY <3>1, <3>2
  <2>2. SetTables(S) /\ SamePrograms BY <1>8 DEF PmtEnd, SamePrograms
  <2> HIDE DEF S
  <2> QED BY <2>1, <2>2, SetKeepsRoles
<1>9. ASSUME NEW c \in Cats, Cat(c) PROVE RolesMapped'
  <2>1. PICK R : /\ R = (IF c = None THEN Tables ELSE ReleaseTarget(Tables, c))
                 /\ SetTables([R EXCEPT !.map =
                      [p \in Pid |-> IF p = CatPid THEN [type |-> "CAT", ref |-> 1, target |-> None]
                                     ELSE IF p = c THEN [type |-> "EMM", ref |-> 1, target |-> None]
                                     ELSE R.map[p]]])
    BY <1>9 DEF Cat
  <2>2. IsTable(R) /\ KeepsRoles(Tables, R)
    <3>1. CASE c = None BY <3>1, <2>1, TablesLoose DEF KeepsRoles
    <3>2. CASE c # None BY <3>2, <2>1, TablesLoose, TargetKeepsRoles
    <3> QED BY <3>1, <3>2
  <2>3. map' = [p \in Pid |-> IF p = CatPid THEN [type |-> "CAT", ref |-> 1, target |-> None]
                              ELSE IF p = c THEN [type |-> "EMM", ref |-> 1, target |-> None]
                              ELSE R.map[p]]
    BY <2>1, <2>2 DEF SetTables, IsTable
  <2>4. c \in EmmPids \cup {None} BY TablesAssumption
  <2>5. ASSUME NEW x \in Pid
        PROVE  /\ map'[x].type = "PMT" => map[x].type = "PMT"
               /\ map'[x].type = "EMM" => map[x].type = "EMM" \/ x = c
               /\ x \in PmtPids /\ map[x].type = "PMT" => map'[x].type = "PMT"
    <3>1. x \in PmtPids => x # c /\ x # CatPid BY <2>4, RolesAssumption
    <3> QED BY <2>2, <2>3, <3>1, TablesLoose DEF KeepsRoles
  <2>6. None \notin Pid BY RolesAssumption
  <2>7. UNCHANGED program BY <1>9 DEF Cat
  <2>8. \A i \in 1..Len(program) : program[i].pid \in PmtPids /\ program[i].pid \in Pid
    <3>1. \A i \in 1..Len(program) : program[i] \in Program BY ElementOfSeq DEF IInv, Control
    <3> QED BY <3>1 DEF Program, Pid
  <2>9. /\ \A p \in Pid : map'[p].type = "PMT" => \E i \in 1..Len(program) : program[i].pid = p
        /\ \A p \in Pid : map'[p].type = "EMM" => p \in EmmPids
    BY <2>4, <2>5, <2>6 DEF RolesMapped
  <2>10. \A i \in 1..Len(program) : map'[program[i].pid].type = "PMT"
    BY <2>5, <2>8 DEF RolesMapped
  <2> QED BY <2>7, <2>9, <2>10 DEF RolesMapped
<1>10. CASE Reset BY <1>10 DEF Reset, RolesMapped, Unmapped
<1> QED BY <1>1, <1>2, <1>3, <1>4, <1>5, <1>6, <1>7, <1>8, <1>9, <1>10,
           PmtBeginMaps, PmtListsMaps, PmtStreamMaps, PmtBindMaps DEF Next

----------------------------------------------------------------------------
(* The invariant of the pipeline.                                          *)

\* A packet, opened by the key of an ECM or not
Row == [id : Int, pk : DOMAIN Packets, by : Ecms \cup {None}]

KeyRow == [m2 : Ecms \cup {None, Cleared}, locked : BOOLEAN, phase : {0, 1, 2},
           last : Ecms \cup {Unseen, Foreign}]

\* A key is the one of the latest ECM, a locked decryptor has none.
Current(k) ==
  /\ k.m2 \in Ecms => k.last \in {k.m2, Foreign}
  /\ k.locked => k.m2 = None

BuffersFit ==
  /\ sbuf \in Seq(Row)
  /\ off \in Nat /\ slen \in Nat /\ at \in Nat /\ next \in Int
  /\ step \in {"loop", "after"} \/ (step = "last" /\ stage = "proc") => at >= 1

KeysFit == keys \in [Dec -> KeyRow] /\ \A d \in Dec : Current(keys[d])

DInv == IInv /\ RolesMapped /\ BuffersFit /\ KeysFit

LEMMA InitDInv == DecoderInit => DInv
<1> SUFFICES ASSUME DecoderInit PROVE DInv OBVIOUS
<1>1. IInv BY InitIInv DEF DecoderInit
<1>2. RolesMapped BY DEF RolesMapped, DecoderInit, Init, Unmapped
<1>3. BuffersFit
  <2>1. <<>> \in Seq(Row) BY EmptySeq
  <2> QED BY <2>1 DEF BuffersFit, DecoderInit
<1>4. KeysFit
  <2>1. Fresh \in KeyRow /\ Current(Fresh)
    BY DecoderAssumption DEF Fresh, KeyRow, Current
  <2> QED BY <2>1 DEF KeysFit, DecoderInit
<1> QED BY <1>1, <1>2, <1>3, <1>4 DEF DInv

\* The packet at hand
LEMMA AtHand ==
  ASSUME BuffersFit, step = "loop",
         \/ at < Len(sbuf)
         \/ at <= Len(sbuf)
  PROVE  /\ at \in 1..Len(sbuf) /\ sbuf[at] \in Row /\ sbuf[at].pk \in DOMAIN Packets
<1>1. Len(sbuf) \in Nat /\ at \in Nat /\ at >= 1 BY LenProperties DEF BuffersFit
<1>2. at \in 1..Len(sbuf) BY <1>1
<1>3. sbuf[at] \in Row BY <1>2, ElementOfSeq DEF BuffersFit
<1> QED BY <1>2, <1>3 DEF Row

LEMMA SearchAtHand ==
  ASSUME BuffersFit, Searching, at < Len(sbuf)
  PROVE  /\ at \in 1..Len(sbuf) /\ sbuf[at].pk \in DOMAIN Packets
BY AtHand DEF Searching, Here

LEMMA WorkAtHand ==
  ASSUME BuffersFit, Working, More
  PROVE  /\ at \in 1..Len(sbuf) /\ sbuf[at] \in Row /\ sbuf[at].pk \in DOMAIN Packets
BY AtHand DEF Working, More, Here

\* What the parsers of the tables deliver
LEMMA Delivered ==
  ASSUME NEW n \in DOMAIN Packets, Packets[n].kind = "section"
  PROVE  /\ Packets[n].pid = PatPid => Packets[n].val \in Pats \cup {Foreign}
         /\ Packets[n].pid = CatPid => Packets[n].val \in Cats \cup {Foreign}
         /\ Packets[n].pid \in PmtPids => Packets[n].val \in Pmts \cup {Foreign}
         /\ Packets[n].pid \in EcmPids => Packets[n].val \in Ecms \cup {Foreign}
         /\ Packets[n].pid \in EmmPids => Packets[n].val \in Emms \cup {Foreign}
BY DecoderAssumption

LEMMA ProgramOfIs ==
  ASSUME IInv, RolesMapped, NEW p, Entry(p).type = "PMT"
  PROVE  p \in PmtPids /\ ProgramOf(p) \in 1..Len(program)
<1>1. p \in Pid /\ map[p].type = "PMT" BY DEF Entry, Unmapped
<1>2. \E i \in 1..Len(program) : program[i].pid = p BY <1>1 DEF RolesMapped
<1>3. ProgramOf(p) \in 1..Len(program) /\ program[ProgramOf(p)].pid = p BY <1>2 DEF ProgramOf
<1>4. program[ProgramOf(p)] \in Program BY <1>3, ElementOfSeq DEF IInv, Control
<1> QED BY <1>3, <1>4 DEF Program

LEMMA EcmTarget ==
  ASSUME IInv, NEW p, Entry(p).type = "ECM"
  PROVE  p \in EcmPids /\ Entry(p).target \in Dec
<1>1. p \in Pid /\ map[p].type = "ECM" BY DEF Entry, Unmapped
<1>2. /\ Fit(Tables, Held, None) /\ Tables.map = map /\ Tables.live = live /\ live \subseteq Dec
      /\ p # None
  BY <1>1, TablesTyped, RolesAssumption DEF IInv
<1>3. EntryFits(Tables, p) BY <1>1, <1>2 DEF Fit
<1> QED BY <1>1, <1>2, <1>3 DEF EntryFits, Entry

----------------------------------------------------------------------------
(* A call runs the handlers of ProgramMap, or leaves the tables alone.     *)

LEMMA SearchRuns ==
  ASSUME DInv, SearchPat \/ SearchPmt
  PROVE  [Next]_vars
<1> DEFINE k == Pk(sbuf[at])
           i == ProgramOf(k.pid)
<1>1. BuffersFit /\ IInv /\ RolesMapped BY DEF DInv
<1>2. sbuf[at].pk \in DOMAIN Packets /\ k = Packets[sbuf[at].pk]
  BY <1>1, SearchAtHand DEF SearchPat, SearchPmt, Pk
<1> HIDE DEF k
<1>3. CASE SearchPat
  <2>1. k.pid = PatPid /\ New(k, pat) /\ IF k.val = Foreign THEN PatForeign ELSE PatBegin(k.val)
    BY <1>3 DEF SearchPat, k
  <2>2. k.val \in Pats \cup {Foreign} BY <1>2, <2>1, Delivered DEF New
  <2> QED BY <2>1, <2>2 DEF Next
<1>4. CASE SearchPmt
  <2>1. /\ Entry(k.pid).type = "PMT"
        /\ \/ UNCHANGED vars
           \/ New(k, program[i].pmt) /\ k.val = Foreign /\ PmtForeign(i)
           \/ New(k, program[i].pmt) /\ k.val # Foreign /\ PmtBegin(i, k.val)
    BY <1>4 DEF SearchPmt, k
  <2>2. k.pid \in PmtPids /\ i \in 1..Len(program) BY <1>1, <2>1, ProgramOfIs
  <2>3. New(k, program[i].pmt) => k.val \in Pmts \cup {Foreign}
    BY <1>2, <2>2, Delivered DEF New
  <2> HIDE DEF i
  <2> QED BY <2>1, <2>2, <2>3 DEF Next
<1> QED BY <1>3, <1>4

LEMMA ProcRuns ==
  ASSUME DInv, ProcCat \/ ProcPmt \/ ProcPat
  PROVE  [Next]_vars
<1> DEFINE k == Pk(sbuf[at])
           i == ProgramOf(k.pid)
<1>1. BuffersFit /\ IInv /\ RolesMapped BY DEF DInv
<1>2. sbuf[at].pk \in DOMAIN Packets /\ k = Packets[sbuf[at].pk] /\ k.kind = "section"
  BY <1>1, WorkAtHand DEF ProcCat, ProcPmt, ProcPat, Section, Pk, Parsed, New
<1> HIDE DEF k
<1>3. CASE ProcCat
  <2>1. Parser(k.pid) = "CAT" /\ IF k.val = Foreign THEN CatForeign ELSE Cat(k.val)
    BY <1>3 DEF ProcCat, Section, k
  <2>2. k.pid = CatPid BY <2>1 DEF Parser
  <2>3. k.val \in Cats \cup {Foreign} BY <1>2, <2>2, Delivered
  <2> QED BY <2>1, <2>3 DEF Next
<1>4. CASE ProcPat
  <2>1. Parser(k.pid) = "PAT" /\ IF k.val = Foreign THEN PatForeign ELSE PatBegin(k.val)
    BY <1>4 DEF ProcPat, Section, k
  <2>2. k.pid = PatPid BY <2>1 DEF Parser
  <2>3. k.val \in Pats \cup {Foreign} BY <1>2, <2>2, Delivered
  <2> QED BY <2>1, <2>3 DEF Next
<1>5. CASE ProcPmt
  <2>1. Parser(k.pid) = "PMT" /\ IF k.val = Foreign THEN PmtForeign(i) ELSE PmtBegin(i, k.val)
    BY <1>5 DEF ProcPmt, Section, k
  <2>2. Entry(k.pid).type = "PMT" BY <2>1 DEF Parser
  <2>3. k.pid \in PmtPids /\ i \in 1..Len(program) BY <1>1, <2>2, ProgramOfIs
  <2>4. k.val \in Pmts \cup {Foreign} BY <1>2, <2>3, Delivered
  <2> HIDE DEF i
  <2> QED BY <2>1, <2>3, <2>4 DEF Next
<1> QED BY <1>3, <1>4, <1>5

LEMMA StepRuns == ASSUME DInv, DecoderNext PROVE [Next]_vars
<1>1. CASE Put \/ Flush \/ Get \/ Withdraw
  BY <1>1 DEF Put, Flush, Get, Withdraw
<1>2. CASE Check \/ Searched \/ SearchEnd \/ SearchSkip \/ SearchedPmt \/ SearchEcm
  BY <1>2 DEF Check, Searched, SearchEnd, SearchSkip, SearchedPmt, SearchEcm
<1>3. CASE ProcDamaged \/ ProcStrip \/ ProcNoKey \/ ProcRefused \/ ProcOther
  BY <1>3 DEF ProcDamaged, ProcStrip, ProcNoKey, ProcRefused, ProcOther
<1>4. CASE ProcEcm \/ ProcEmm \/ ProcedPmt \/ ProcEnd
  BY <1>4 DEF ProcEcm, ProcEmm, ProcedPmt, ProcEnd
<1>5. CASE ResetDecoder BY <1>5 DEF ResetDecoder, Next
<1>6. CASE Handler BY <1>6 DEF Handler, Next
<1>7. CASE HandlerFails BY <1>7 DEF HandlerFails, Next
<1> QED BY <1>1, <1>2, <1>3, <1>4, <1>5, <1>6, <1>7, SearchRuns, ProcRuns DEF DecoderNext

----------------------------------------------------------------------------
(* The buffer holds packets, and the loops are somewhere in it.            *)

LEMMA PieceFits ==
  ASSUME NEW S \in Seq(Row), NEW m \in Nat \ {0}, NEW n \in Int, n <= Len(S)
  PROVE  SubSeq(S, m, n) \in Seq(Row)
<1>1. Len(S) \in Nat BY LenProperties
<1>2. \A i \in m..n : S[i] \in Row
  <2> SUFFICES ASSUME NEW i \in m..n PROVE S[i] \in Row OBVIOUS
  <2>1. i \in 1..Len(S) BY <1>1
  <2> QED BY <2>1, ElementOfSeq
<1> QED BY <1>2, SubSeqProperties

LEMMA KeyForFits ==
  ASSUME IInv, KeysFit, NEW x
  PROVE  KeyFor(x) \in Ecms \cup {None, Cleared}
<1> DEFINE p == Pk(x).pid
           d == DecryptorOf(p)
<1>1. live \subseteq Dec /\ map \in [Pid -> MapEntry] BY TablesTyped DEF IInv
<1>2. d \in Dec \cup {None}
  <2>1. CASE Entry(p).type = "OTHER"
    <3>1. p \in Pid BY <2>1 DEF Entry, Unmapped
    <3> QED BY <2>1, <3>1, <1>1 DEF DecryptorOf, Entry, MapEntry
  <2>2. CASE Entry(p).type = "UNKNOWN" /\ Cardinality(live) = 1
    <3>1. live # {} BY <2>2, FS_EmptySet
    <3>2. (CHOOSE d1 \in live : TRUE) \in live BY <3>1
    <3> QED BY <2>2, <3>2, <1>1 DEF DecryptorOf
  <2> QED BY <2>1, <2>2 DEF DecryptorOf
<1> HIDE DEF d
<1>3. d # None => keys[d].m2 \in Ecms \cup {None, Cleared} BY <1>2 DEF KeysFit, KeyRow
<1> QED BY <1>3 DEF KeyFor, d

LEMMA OpenedFits ==
  ASSUME IInv, KeysFit, BuffersFit, at \in 1..Len(sbuf), Openable(sbuf[at])
  PROVE  [sbuf EXCEPT ![at] = Opened] \in Seq(Row)
         /\ Len([sbuf EXCEPT ![at] = Opened]) = Len(sbuf)
<1>1. sbuf \in Seq(Row) /\ sbuf[at] \in Row BY ElementOfSeq DEF BuffersFit
<1>2. KeyFor(sbuf[at]) \in Ecms \cup {None} BY KeyForFits DEF Openable
<1>3. Opened \in Row BY <1>1, <1>2 DEF Opened, Row
<1> QED BY <1>1, <1>3, ExceptSeq

\* However a packet fails, what stays is a piece of the buffer.
LEMMA FailFits ==
  ASSUME BuffersFit, NEW S \in Seq(Row), NEW D, NEW r, Fail(S, D, r)
  PROVE  sbuf' \in Seq(Row) /\ slen' = 0 /\ at' = 0 /\ step' = "check"
<1>1. Len(S) \in Nat /\ at \in Nat /\ slen \in Nat BY LenProperties DEF BuffersFit
<1>2. SubSeq(S, 1, IF slen < Len(S) THEN slen ELSE Len(S)) \in Seq(Row)
  BY <1>1, PieceFits
<1>3. From(S, at + 1) \in Seq(Row) BY <1>1, PieceFits DEF From
<1> QED BY <1>2, <1>3 DEF Fail, Return

LEMMA PutFits == ASSUME BuffersFit, Put PROVE BuffersFit'
<1>0. PICK n \in 1..MaxPut :
        /\ next' = next + n
        /\ \E in \in [1..n -> DOMAIN Packets] :
             sbuf' = sbuf \o [i \in 1..n |-> [id |-> next + i - 1, pk |-> in[i], by |-> None]]
  BY DEF Put
<1>1. PICK in \in [1..n -> DOMAIN Packets] :
        /\ sbuf' = sbuf \o [i \in 1..n |-> [id |-> next + i - 1, pk |-> in[i], by |-> None]]
        /\ next' = next + n
  BY <1>0
<1> DEFINE new == [i \in 1..n |-> [id |-> next + i - 1, pk |-> in[i], by |-> None]]
<1>2. next \in Int /\ sbuf \in Seq(Row) /\ Len(sbuf) \in Nat BY LenProperties DEF BuffersFit
<1>3. \A i \in 1..n : [id |-> next + i - 1, pk |-> in[i], by |-> None] \in Row
  BY <1>2 DEF Row
<1>4. new \in [1..n -> Row] BY <1>3
<1>5. new \in Seq(Row) BY <1>4, SeqDef
<1> HIDE DEF new
<1>6. sbuf' \in Seq(Row) BY <1>1, <1>2, <1>5, ConcatProperties DEF new
<1>7. /\ next' \in Int
      /\ UNCHANGED <<off, stage, step, at>>
      /\ slen' = Len(sbuf) \/ slen' = slen
  BY <1>1, <1>2 DEF Put, place
<1> QED BY <1>2, <1>6, <1>7 DEF BuffersFit

LEMMA SearchFits ==
  ASSUME BuffersFit,
         SearchEnd \/ SearchSkip \/ SearchPat \/ SearchPmt \/ SearchedPmt \/ SearchEcm
  PROVE  BuffersFit'
<1> USE DEF BuffersFit
<1>1. CASE SearchEnd
  <2>1. at - 1 \in Nat BY <1>1 DEF SearchEnd, Searching, Here
  <2> QED BY <1>1, <2>1 DEF SearchEnd, Searching, history, sent
<1>2. CASE SearchSkip
  BY <1>2 DEF SearchSkip, Searching, Here, buffers, history, sent
<1>3. CASE SearchPat
  <2>1. at \in Nat \ {0} /\ Len(sbuf) \in Nat BY <1>3, LenProperties DEF SearchPat, Searching, Here
  <2>2. From(sbuf, at) \in Seq(Row) BY <2>1, PieceFits DEF From
  <2>3. sbuf' \in Seq(Row) /\ off' \in Nat BY <1>3, <2>1, <2>2 DEF SearchPat
  <2>4. step' = "last" /\ at' = 0 /\ slen' = slen /\ next' = next /\ stage' # "proc"
    BY <1>3 DEF SearchPat, Searching, sent
  <2> QED BY <2>3, <2>4
<1>4. CASE SearchPmt
  <2>1. at \in Nat \ {0} BY <1>4 DEF SearchPmt, Searching, Here
  <2>2. /\ sbuf' = sbuf /\ slen' = slen /\ next' = next /\ stage' = "pmt"
        /\ \/ Leave
           \/ at' = at + 1 /\ UNCHANGED <<off, step>>
           \/ step' = "after" /\ UNCHANGED <<off, at>>
    BY <1>4 DEF SearchPmt, history, sent
  <2> QED BY <2>1, <2>2 DEF Leave
<1>5. CASE SearchedPmt
  <2>1. at \in Nat \ {0} BY <1>5 DEF SearchedPmt, Here
  <2>2. /\ sbuf' = sbuf /\ slen' = slen /\ next' = next /\ stage' = "pmt"
        /\ \/ Leave
           \/ step' = "loop" /\ at' = at + 1 /\ UNCHANGED off
    BY <1>5 DEF SearchedPmt, history, sent
  <2> QED BY <2>1, <2>2 DEF Leave
<1>6. CASE SearchEcm
  <2>1. Searching /\ stage = "ecm" BY <1>6 DEF SearchEcm
  <2>2. at \in Nat \ {0} BY <2>1 DEF Searching, Here
  <2>3. sbuf' = sbuf /\ next' = next BY <1>6 DEF SearchEcm, sent
  <2>4. \/ Leave /\ UNCHANGED <<stage, slen>>
        \/ at' = at + 1 /\ UNCHANGED <<off, stage, step, slen>>
        \/ off' = at /\ Return("error")
    BY <1>6 DEF SearchEcm
  <2> QED BY <2>1, <2>2, <2>3, <2>4 DEF Leave, Return
<1> QED BY <1>1, <1>2, <1>3, <1>4, <1>5, <1>6

\* A packet that stays in the buffer, descrambled
LEMMA DeliverFits ==
  ASSUME IInv, KeysFit, BuffersFit, Working, More, Openable(sbuf[at]), Deliver,
         next' = next, off' = off,
         \/ at' = at + 1 /\ UNCHANGED slen
         \/ step' = "after" /\ UNCHANGED <<at, slen>>
  PROVE  BuffersFit'
<1>1. at \in 1..Len(sbuf) /\ at \in Nat /\ at >= 1
  BY WorkAtHand DEF BuffersFit, Working, Here
<1>2. sbuf' \in Seq(Row) BY <1>1, OpenedFits DEF Deliver
<1> QED BY <1>1, <1>2 DEF BuffersFit

LEMMA FailDeliveredFits ==
  ASSUME IInv, KeysFit, BuffersFit, Working, More, Openable(sbuf[at]),
         NEW r, FailDelivered(r), next' = next, off' = off
  PROVE  BuffersFit'
<1>1. at \in 1..Len(sbuf) BY WorkAtHand
<1>2. [sbuf EXCEPT ![at] = Opened] \in Seq(Row) BY <1>1, OpenedFits
<1>3. sbuf' \in Seq(Row) /\ slen' = 0 /\ at' = 0 /\ step' = "check"
  BY <1>2, FailFits DEF FailDelivered
<1> QED BY <1>3 DEF BuffersFit

LEMMA ProcFits ==
  ASSUME IInv, KeysFit, BuffersFit,
         \/ ProcDamaged \/ ProcStrip \/ ProcNoKey \/ ProcRefused \/ ProcOther
         \/ ProcEcm \/ ProcEmm \/ ProcCat \/ ProcPmt \/ ProcedPmt \/ ProcPat \/ ProcEnd
  PROVE  BuffersFit'
<1>1. CASE ProcDamaged \/ ProcStrip
  <2>1. /\ sbuf' = sbuf /\ slen' = slen /\ next' = next /\ off' = off /\ step' = step
        /\ at' = at + 1
    BY <1>1 DEF ProcDamaged, ProcStrip, buffers, history, sent
  <2> QED BY <2>1 DEF BuffersFit
<1>2. CASE ProcNoKey
  <2>1. Fail(sbuf, dbuf, "no key") /\ next' = next /\ off' = off BY <1>2 DEF ProcNoKey, sent
  <2>2. sbuf' \in Seq(Row) /\ slen' = 0 /\ at' = 0 /\ step' = "check"
    BY <2>1, FailFits DEF BuffersFit
  <2> QED BY <2>1, <2>2 DEF BuffersFit
<1>3. CASE ProcRefused
  BY <1>3, FailDeliveredFits DEF ProcRefused, sent
<1>4. CASE ProcOther
  BY <1>4, DeliverFits DEF ProcOther, history, sent
<1>5. CASE ProcEcm
  <2>1. /\ Working /\ More /\ Openable(sbuf[at]) /\ next' = next /\ off' = off
        /\ \/ FailDelivered("error")
           \/ Deliver /\ at' = at + 1 /\ UNCHANGED slen
    BY <1>5 DEF ProcEcm, Section, sent
  <2> QED BY <2>1, FailDeliveredFits, DeliverFits
<1>6. CASE ProcEmm
  <2>1. /\ Working /\ More /\ Openable(sbuf[at]) /\ next' = next /\ off' = off
        /\ \/ FailDelivered("error")
           \/ Deliver /\ at' = at + 1 /\ UNCHANGED slen
    BY <1>6 DEF ProcEmm, Section, sent
  <2> QED BY <2>1, FailDeliveredFits, DeliverFits
<1>7. CASE ProcCat
  BY <1>7, DeliverFits DEF ProcCat, Section, history, sent
<1>8. CASE ProcPmt
  BY <1>8, DeliverFits DEF ProcPmt, Section, history, sent
<1>9. CASE ProcedPmt
  <2>1. /\ sbuf' = sbuf /\ slen' = slen /\ next' = next /\ off' = off
        /\ at' = at + 1
    BY <1>9 DEF ProcedPmt, buffers, history, sent
  <2> QED BY <2>1 DEF BuffersFit
<1>10. CASE ProcPat
  BY <1>10, DeliverFits DEF ProcPat, Section, history, sent
<1>11. CASE ProcEnd
  <2>1. Working \/ (step = "last" /\ stage = "proc") BY <1>11 DEF ProcEnd, Here
  <2>2. sbuf' = From(sbuf, at) /\ next' = next /\ off' = off BY <1>11 DEF ProcEnd, sent
  <2>3. \/ step' = "loop" /\ at' = 1 /\ slen' = slen
        \/ step' = "check" /\ at' = 0 /\ slen' = 0
    BY <1>11 DEF ProcEnd, Return
  <2>4. Len(sbuf) \in Nat BY LenProperties DEF BuffersFit
  <2>5. at \in Nat \ {0} BY <2>1 DEF BuffersFit, Working, Here
  <2>6. From(sbuf, at) \in Seq(Row) BY <2>4, <2>5, PieceFits DEF From, BuffersFit
  <2> QED BY <2>2, <2>3, <2>6 DEF BuffersFit
<1> QED BY <1>1, <1>2, <1>3, <1>4, <1>5, <1>6, <1>7, <1>8, <1>9, <1>10, <1>11

LEMMA RestFits ==
  ASSUME BuffersFit,
         \/ Flush \/ Get \/ Withdraw \/ ResetDecoder \/ Check \/ Searched
         \/ Handler \/ HandlerFails
  PROVE  BuffersFit'
<1>0. <<>> \in Seq(Row) BY EmptySeq
<1>1. CASE Flush BY <1>1 DEF Flush, BuffersFit, place, sent
<1>2. CASE Get BY <1>2 DEF Get, BuffersFit, place, sent
<1>3. CASE Withdraw BY <1>0, <1>3 DEF Withdraw, BuffersFit, place, sent
<1>4. CASE ResetDecoder BY <1>0, <1>4 DEF ResetDecoder, BuffersFit, place, sent
<1>5. CASE Check BY <1>5 DEF Check, Proceed, BuffersFit, buffers, sent
<1>6. CASE Searched BY <1>6 DEF Searched, Proceed, Return, BuffersFit, sent
<1>7. CASE Handler BY <1>7 DEF Handler, BuffersFit, buffers, place, history, sent
<1>8. CASE HandlerFails
  <2>1. next' = next /\ off \in Nat /\ at \in Nat /\ sbuf \in Seq(Row)
    BY <1>8 DEF HandlerFails, BuffersFit, sent
  <2>2. \/ off' = at /\ Return("error") /\ sbuf' = sbuf
        \/ Fail(sbuf, dbuf, "error") /\ off' = off
    BY <1>8 DEF HandlerFails
  <2> QED BY <2>1, <2>2, FailFits DEF BuffersFit, Return
<1> QED BY <1>1, <1>2, <1>3, <1>4, <1>5, <1>6, <1>7, <1>8

LEMMA StepFits == ASSUME DInv, DecoderNext PROVE BuffersFit'
<1>1. BuffersFit /\ IInv /\ KeysFit BY DEF DInv
<1> QED BY <1>1, PutFits, SearchFits, ProcFits, RestFits DEF DecoderNext

----------------------------------------------------------------------------
(* The keys.                                                               *)

\* One decryptor's key is written anew.
LEMMA KeyWritten ==
  ASSUME KeysFit, NEW d \in Dec, NEW k \in KeyRow, Current(k), keys' = [keys EXCEPT ![d] = k]
  PROVE  KeysFit'
BY DEF KeysFit

\* A mark of how far find_ecm is does not touch the key.
LEMMA PhaseFits ==
  ASSUME NEW k \in KeyRow, Current(k), NEW n \in {0, 1, 2}
  PROVE  [k EXCEPT !.phase = n] \in KeyRow /\ Current([k EXCEPT !.phase = n])
BY DEF KeyRow, Current

\* Every answer of the card leaves the key of this ECM or none, except that a
\* section that is no ECM changes nothing.
LEMMA AnswersFit ==
  ASSUME KeysFit, NEW d \in Dec, NEW n \in Ecms \cup {Foreign}, NEW a \in EcmAnswers(d, n)
  PROVE  a.k \in KeyRow /\ Current(a.k)
<1> DEFINE k == [keys[d] EXCEPT !.last = n]
<1>1. keys[d] \in KeyRow /\ Current(keys[d]) BY DEF KeysFit
<1>2. k \in KeyRow /\ k.m2 = keys[d].m2 /\ k.locked = keys[d].locked /\ k.last = n
  BY <1>1 DEF KeyRow
<1>3. None \notin Ecms /\ Cleared \notin Ecms BY DecoderAssumption
<1>4. CASE n = Foreign
  <2>1. a.k = k BY <1>4 DEF EcmAnswers
  <2> HIDE DEF k
  <2> QED BY <2>1, <1>1, <1>2, <1>4 DEF Current
<1>5. CASE n # Foreign /\ keys[d].locked
  <2>1. a.k = k BY <1>2, <1>5 DEF EcmAnswers
  <2> HIDE DEF k
  <2> QED BY <2>1, <1>1, <1>2, <1>3, <1>5 DEF Current
<1>6. CASE n # Foreign /\ ~keys[d].locked
  <2>1. \/ a.k = [k EXCEPT !.m2 = n]
        \/ a.k = [k EXCEPT !.m2 = None, !.locked = TRUE]
        \/ a.k = [k EXCEPT !.m2 = IF k.m2 = None THEN None ELSE Cleared]
    BY <1>2, <1>6 DEF EcmAnswers
  <2> HIDE DEF k
  <2> QED BY <2>1, <1>2, <1>3, <1>6 DEF KeyRow, Current
<1> QED BY <1>4, <1>5, <1>6

LEMMA FollowFits == ASSUME KeysFit, KeysFollow PROVE KeysFit'
<1>1. Fresh \in KeyRow /\ Current(Fresh)
  BY DecoderAssumption DEF Fresh, KeyRow, Current
<1> QED BY <1>1 DEF KeysFit, KeysFollow

LEMMA SearchKeys == ASSUME DInv, SearchEcm PROVE KeysFit'
<1> DEFINE k == Pk(sbuf[at])
           d == Entry(k.pid).target
<1>1. BuffersFit /\ IInv /\ KeysFit BY DEF DInv
<1>2. sbuf[at].pk \in DOMAIN Packets /\ k = Packets[sbuf[at].pk]
  BY <1>1, SearchAtHand DEF SearchEcm, Pk
<1>3. k.pid \in EcmPids /\ d \in Dec BY <1>1, EcmTarget DEF SearchEcm
<1>4. \/ keys' = [keys EXCEPT ![d].phase = 2]
      \/ k.kind = "section" /\ \E a \in EcmAnswers(d, k.val) :
           \/ keys' = [keys EXCEPT ![d] = a.k]
           \/ keys' = [keys EXCEPT ![d] = [a.k EXCEPT !.phase = 1]]
  BY DEF SearchEcm, New
<1> HIDE DEF k, d
<1>5. CASE keys' = [keys EXCEPT ![d].phase = 2]
  <2> DEFINE n == [keys[d] EXCEPT !.phase = 2]
  <2>1. n \in KeyRow /\ Current(n) BY <1>1, <1>3, PhaseFits DEF KeysFit
  <2>2. keys' = [keys EXCEPT ![d] = n] BY <1>5
  <2> HIDE DEF n
  <2> QED BY <1>1, <1>3, <2>1, <2>2, KeyWritten
<1>6. ASSUME k.kind = "section", NEW a \in EcmAnswers(d, k.val),
             \/ keys' = [keys EXCEPT ![d] = a.k]
             \/ keys' = [keys EXCEPT ![d] = [a.k EXCEPT !.phase = 1]]
      PROVE  KeysFit'
  <2> DEFINE n == [a.k EXCEPT !.phase = 1]
  <2>0. k.val \in Ecms \cup {Foreign} BY <1>2, <1>3, <1>6, Delivered
  <2>1. a.k \in KeyRow /\ Current(a.k) BY <1>1, <1>3, <2>0, AnswersFit
  <2>2. n \in KeyRow /\ Current(n) BY <2>1, PhaseFits
  <2>3. keys' = [keys EXCEPT ![d] = a.k] \/ keys' = [keys EXCEPT ![d] = n] BY <1>6
  <2> HIDE DEF n
  <2> QED BY <1>1, <1>3, <2>1, <2>2, <2>3, KeyWritten
<1> QED BY <1>4, <1>5, <1>6

LEMMA ProcKeys == ASSUME DInv, ProcEcm PROVE KeysFit'
<1> DEFINE k == Pk(sbuf[at])
           d == Entry(k.pid).target
<1>1. BuffersFit /\ IInv /\ KeysFit BY DEF DInv
<1>2. sbuf[at].pk \in DOMAIN Packets /\ k = Packets[sbuf[at].pk] /\ k.kind = "section"
  BY <1>1, WorkAtHand DEF ProcEcm, Section, Parsed, New, Pk
<1>3. Entry(k.pid).type = "ECM" BY DEF ProcEcm, Section, Parser
<1>4. k.val \in Ecms \cup {Foreign} /\ d \in Dec BY <1>1, <1>2, <1>3, EcmTarget, Delivered
<1>5. PICK a \in EcmAnswers(d, k.val) : keys' = [keys EXCEPT ![d] = a.k] BY DEF ProcEcm
<1> HIDE DEF k, d
<1>6. a.k \in KeyRow /\ Current(a.k) BY <1>1, <1>4, AnswersFit
<1> QED BY <1>1, <1>4, <1>5, <1>6, KeyWritten

LEMMA StepKeys == ASSUME DInv, DecoderNext PROVE KeysFit'
<1>0. KeysFit BY DEF DInv
<1>1. CASE UNCHANGED keys BY <1>0, <1>1 DEF KeysFit
<1>2. CASE Put \/ Flush \/ Get \/ Withdraw \/ Check \/ Searched
  BY <1>1, <1>2 DEF Put, Flush, Get, Withdraw, Check, Searched, served
<1>3. CASE SearchEnd \/ SearchSkip \/ SearchPat \/ SearchedPmt
  BY <1>1, <1>3 DEF SearchEnd, SearchSkip, SearchPat, SearchedPmt, served
<1>4. CASE ProcDamaged \/ ProcStrip \/ ProcNoKey \/ ProcRefused \/ ProcOther
  BY <1>1, <1>4 DEF ProcDamaged, ProcStrip, ProcNoKey, ProcRefused, ProcOther, served
<1>5. CASE ProcedPmt \/ ProcPat \/ ProcEnd
  BY <1>1, <1>5 DEF ProcedPmt, ProcPat, ProcEnd, served
<1>6. CASE SearchPmt \/ ProcPmt \/ ProcCat \/ Handler \/ HandlerFails
  <2>1. UNCHANGED keys \/ KeysFollow
    BY <1>6 DEF SearchPmt, ProcPmt, ProcCat, Handler, HandlerFails
  <2> QED BY <1>0, <1>1, <2>1, FollowFits
<1>7. CASE ResetDecoder
  <2>1. Fresh \in KeyRow /\ Current(Fresh)
    BY DecoderAssumption DEF Fresh, KeyRow, Current
  <2> QED BY <1>7, <2>1 DEF ResetDecoder, KeysFit
<1>8. CASE ProcEmm
  <2>1. keys' = Unlocked \/ UNCHANGED keys BY <1>8 DEF ProcEmm
  <2>2. ASSUME NEW d \in Dec
        PROVE  [keys[d] EXCEPT !.locked = FALSE] \in KeyRow
               /\ Current([keys[d] EXCEPT !.locked = FALSE])
    BY <1>0 DEF KeysFit, KeyRow, Current
  <2>3. CASE keys' = Unlocked BY <2>2, <2>3 DEF Unlocked, KeysFit
  <2> QED BY <1>1, <2>1, <2>3
<1> QED BY <1>2, <1>3, <1>4, <1>5, <1>6, <1>7, <1>8, SearchKeys, ProcKeys DEF DecoderNext

----------------------------------------------------------------------------
(* The theorems.                                                           *)

LEMMA NextDInv == DInv /\ [DecoderNext]_dvars => DInv' /\ [Next]_vars
<1> SUFFICES ASSUME DInv, [DecoderNext]_dvars PROVE DInv' /\ [Next]_vars OBVIOUS
<1>1. CASE DecoderNext
  <2>1. [Next]_vars BY <1>1, StepRuns
  <2>2. IInv' BY <2>1, NextIInv DEF DInv
  <2>3. RolesMapped'
    <3>1. CASE Next BY <3>1, NextMaps DEF DInv
    <3>2. CASE UNCHANGED vars BY <3>2 DEF vars, RolesMapped, DInv
    <3> QED BY <2>1, <3>1, <3>2
  <2> QED BY <1>1, <2>1, <2>2, <2>3, StepFits, StepKeys DEF DInv
<1>2. CASE UNCHANGED dvars
  <2>1. UNCHANGED vars BY <1>2 DEF dvars
  <2>2. IInv' BY <2>1, NextIInv DEF DInv
  <2>3. RolesMapped' BY <2>1 DEF vars, RolesMapped, DInv
  <2>4. BuffersFit' BY <1>2 DEF dvars, buffers, place, history, sent, BuffersFit, DInv
  <2>5. KeysFit' BY <1>2 DEF dvars, served, KeysFit, DInv
  <2> QED BY <2>1, <2>2, <2>3, <2>4, <2>5 DEF DInv
<1> QED BY <1>1, <1>2

\* Whatever put and flush do, they touch the programs, the PID map and the
\* decryptors only by the handlers of ProgramMap, one section at a time.
THEOREM RunsHandlers == DecoderSpec => Spec
<1>1. DecoderInit => Init BY DEF DecoderInit
<1> QED BY <1>1, InitDInv, NextDInv, PTL DEF DecoderSpec, Spec

\* So the counts of the map and of the decryptors are exact inside every call,
\* also when it fails for want of memory in the middle of proc_pmt.
THEOREM CallsCount == DecoderSpec => []RefsExact
<1> QED BY RunsHandlers, CountsExact, PTL

\* A decryptor never goes on with the key of an older ECM, in find_ecm as in
\* proc_arib_std_b25, whatever the card answers and whatever the tables, the
\* EMMs and the failed calls in between.
THEOREM KeysKept == DecoderSpec => []KeysCurrent
<1>1. DInv => KeysCurrent
  <2> SUFFICES ASSUME DInv, NEW d \in live
               PROVE  /\ keys[d].m2 \in Ecms => keys[d].last \in {keys[d].m2, Foreign}
                      /\ keys[d].locked => keys[d].m2 = None
    BY DEF KeysCurrent
  <2>1. d \in Dec BY TablesTyped DEF DInv, IInv
  <2> QED BY <2>1 DEF DInv, KeysFit, Current
<1> QED BY <1>1, InitDInv, NextDInv, PTL DEF DecoderSpec

----------------------------------------------------------------------------
(* Two buffers: S is received, D is to be put out.                         *)

Increasing(s) == \A i, j \in 1..Len(s) : i < j => s[i].id < s[j].id

\* The loops have passed w packets of S.  Those are in D or stripped, the
\* others come after all of D.
Line(S, D, w) ==
  /\ w \in 0..Len(S) /\ Increasing(S) /\ Increasing(D)
  /\ \A j \in 1..w : S[j].id \in Ids(D) <=> ~Null(S[j])
  /\ \A i \in 1..Len(D), j \in (w + 1)..Len(S) : D[i].id < S[j].id

\* put can go back to its first k packets of D: the rest is in S too.
Undo(S, D, w, k) ==
  /\ k \in 0..Len(D)
  /\ \A i \in 1..k, j \in 1..Len(S) : D[i].id < S[j].id
  /\ \A i \in (k + 1)..Len(D) : \E j \in 1..w : D[i].id = S[j].id

\* The packets up to number n are in a buffer or in t, and those in the buffers
\* come after o.
Account(S, D, o, n, t) ==
  /\ o \in 0..(n - 1) /\ n \in Int
  /\ 1..(n - 1) = t \cup (Ids(D) \cup Ids(S))
  /\ t \cap (Ids(D) \cup Ids(S)) = {}
  /\ Ids(D) \cup Ids(S) \subseteq (o + 1)..(n - 1)

LEMMA RowsHave ==
  ASSUME NEW s \in Seq(Row)
  PROVE  /\ Len(s) \in Nat
         /\ \A i \in 1..Len(s) : s[i] \in Row /\ s[i].id \in Int /\ s[i].id \in Ids(s)
         /\ Increasing(s) => \A i, j \in 1..Len(s) : s[i].id = s[j].id => i = j
<1>1. Len(s) \in Nat BY LenProperties
<1>2. \A i \in 1..Len(s) : s[i] \in Row BY ElementOfSeq
<1>3. \A i \in 1..Len(s) : s[i].id \in Int BY <1>2 DEF Row
<1>4. ASSUME Increasing(s), NEW i \in 1..Len(s), NEW j \in 1..Len(s), s[i].id = s[j].id
      PROVE  i = j
  <2>1. ~(i < j) /\ ~(j < i) BY <1>3, <1>4 DEF Increasing
  <2> QED BY <2>1, <1>1
<1> QED BY <1>1, <1>2, <1>3, <1>4 DEF Ids

\* The rest of a buffer from packet m on
LEMMA RestOf ==
  ASSUME NEW s \in Seq(Row), NEW m \in 1..(Len(s) + 1), NEW t, t = From(s, m)
  PROVE  /\ t \in Seq(Row) /\ Len(t) = Len(s) - m + 1
         /\ \A i \in 1..Len(t) : m + i - 1 \in m..Len(s) /\ t[i] = s[m + i - 1]
         /\ Ids(t) = {s[i].id : i \in m..Len(s)}
         /\ Increasing(s) => Increasing(t)
<1>1. Len(s) \in Nat /\ m \in Nat \ {0} BY LenProperties
<1>2. \A i \in m..Len(s) : s[i] \in Row BY <1>1, RowsHave
<1>3. /\ t \in Seq(Row)
      /\ Len(t) = IF m <= Len(s) THEN Len(s) - m + 1 ELSE 0
      /\ \A i \in 1..(Len(s) - m + 1) : t[i] = s[m + i - 1]
  BY <1>1, <1>2, SubSeqProperties DEF From
<1>4. Len(t) = Len(s) - m + 1 BY <1>1, <1>3
<1>5. \A i \in 1..Len(t) : m + i - 1 \in m..Len(s) /\ t[i] = s[m + i - 1] BY <1>1, <1>3, <1>4
<1>6. Ids(t) = {s[i].id : i \in m..Len(s)}
  <2>1. ASSUME NEW i \in m..Len(s) PROVE s[i].id \in Ids(t)
    <3>1. i - m + 1 \in 1..Len(t) /\ m + (i - m + 1) - 1 = i BY <1>1, <1>4
    <3>2. t[i - m + 1] = s[i] BY <3>1, <1>5
    <3> QED BY <3>1, <3>2 DEF Ids
  <2>2. ASSUME NEW i \in 1..Len(t) PROVE t[i].id \in {s[k].id : k \in m..Len(s)}
    BY <1>5
  <2> QED BY <2>1, <2>2 DEF Ids
<1>7. ASSUME Increasing(s), NEW i \in 1..Len(t), NEW j \in 1..Len(t), i < j
      PROVE  t[i].id < t[j].id
  <2>1. m + i - 1 \in 1..Len(s) /\ m + j - 1 \in 1..Len(s) /\ m + i - 1 < m + j - 1
    BY <1>1, <1>4, <1>7
  <2> QED BY <2>1, <1>5, <1>7 DEF Increasing
<1> QED BY <1>3, <1>4, <1>5, <1>6, <1>7 DEF Increasing

LEMMA RestRows ==
  ASSUME NEW s \in Seq(Row), NEW m \in 1..(Len(s) + 1)
  PROVE  /\ From(s, m) \in Seq(Row) /\ Len(From(s, m)) = Len(s) - m + 1
         /\ \A i \in 1..(Len(s) - m + 1) : From(s, m)[i] = s[m + i - 1]
<1>1. Len(s) \in Nat /\ m \in Nat \ {0} BY LenProperties
<1>2. \A i \in m..Len(s) : s[i] \in Row BY <1>1, ElementOfSeq
<1>3. /\ From(s, m) \in Seq(Row)
      /\ Len(From(s, m)) = IF m <= Len(s) THEN Len(s) - m + 1 ELSE 0
      /\ \A i \in 1..(Len(s) - m + 1) : From(s, m)[i] = s[m + i - 1]
  BY <1>1, <1>2, SubSeqProperties DEF From
<1>4. (IF m <= Len(s) THEN Len(s) - m + 1 ELSE 0) = Len(s) - m + 1 BY <1>1
<1> QED BY <1>3, <1>4

\* The first n packets of a buffer
First(s, n, t) ==
  /\ t \in Seq(Row) /\ Len(t) = n
  /\ \A i \in 1..n : t[i] = s[i]
  /\ Ids(t) = {s[i].id : i \in 1..n}
  /\ Increasing(s) => Increasing(t)

LEMMA FirstOf ==
  ASSUME NEW s \in Seq(Row), NEW n \in 0..Len(s), NEW t, t = SubSeq(s, 1, n)
  PROVE  First(s, n, t)
<1>1. Len(s) \in Nat /\ n \in Nat BY LenProperties
<1>2. \A i \in 1..n : s[i] \in Row BY <1>1, RowsHave
<1>3. /\ t \in Seq(Row)
      /\ Len(t) = IF 1 <= n THEN n - 1 + 1 ELSE 0
      /\ \A i \in 1..(n - 1 + 1) : t[i] = s[1 + i - 1]
  BY <1>1, <1>2, SubSeqProperties
<1>4. Len(t) = n BY <1>1, <1>3
<1>5. \A i \in 1..n : t[i] = s[i]
  <2> SUFFICES ASSUME NEW i \in 1..n PROVE t[i] = s[i] OBVIOUS
  <2>1. i \in 1..(n - 1 + 1) /\ 1 + i - 1 = i BY <1>1
  <2> QED BY <2>1, <1>3
<1>6. Ids(t) = {s[i].id : i \in 1..n} BY <1>4, <1>5 DEF Ids
<1>7. Increasing(s) => Increasing(t) BY <1>1, <1>4, <1>5 DEF Increasing
<1> QED BY <1>3, <1>4, <1>5, <1>6, <1>7 DEF First

\* The loops' packets leave S.
LEMMA LineRest ==
  ASSUME NEW S \in Seq(Row), NEW D \in Seq(Row), NEW w, Line(S, D, w),
         NEW m \in 1..(Len(S) + 1), m > w, NEW T, T = From(S, m)
  PROVE  T \in Seq(Row) /\ Line(T, D, 0)
<1>1. Len(S) \in Nat /\ w \in Nat BY LenProperties DEF Line
<1>2. /\ T \in Seq(Row) /\ Increasing(T) /\ Len(T) \in Nat
      /\ \A i \in 1..Len(T) : m + i - 1 \in m..Len(S) /\ T[i] = S[m + i - 1]
  BY RestOf, LenProperties DEF Line
<1>3. ASSUME NEW i \in 1..Len(D), NEW j \in 1..Len(T) PROVE D[i].id < T[j].id
  <2>1. m + j - 1 \in (w + 1)..Len(S) /\ T[j] = S[m + j - 1] BY <1>1, <1>2
  <2> QED BY <2>1 DEF Line
<1> QED BY <1>2, <1>3 DEF Line

\* What is cut off the front of S has to go to t, but for what is in D.
LEMMA AccountRest ==
  ASSUME NEW S \in Seq(Row), NEW D \in Seq(Row), NEW w, Line(S, D, w),
         NEW o, NEW n, NEW t, Account(S, D, o, n, t),
         NEW k \in 0..Len(S), k >= w, NEW T, T = From(S, k + 1),
         NEW cut, cut = {S[i].id : i \in 1..k} \ Ids(D)
  PROVE  Account(T, D, o, n, t \cup cut)
<1>1. Len(S) \in Nat /\ w \in Nat /\ k \in Nat BY RowsHave DEF Line
<1>2. Ids(T) = {S[i].id : i \in (k + 1)..Len(S)}
  <2>1. k + 1 \in 1..(Len(S) + 1) BY <1>1
  <2> QED BY <2>1, RestOf
<1>3. Ids(S) = {S[i].id : i \in 1..k} \cup Ids(T)
  <2>1. 1..Len(S) = 1..k \cup (k + 1)..Len(S) BY <1>1
  <2> QED BY <2>1, <1>2 DEF Ids
<1>4. cut \cap Ids(T) = {}
  <2>1. ASSUME NEW i \in 1..k, NEW j \in (k + 1)..Len(S) PROVE S[i].id # S[j].id
    <3>1. i \in 1..Len(S) /\ j \in 1..Len(S) /\ i # j BY <1>1
    <3> QED BY <3>1, RowsHave DEF Line
  <2> QED BY <2>1, <1>2
<1>5. cut \cap Ids(D) = {} OBVIOUS
<1>6. /\ Ids(S) \subseteq cut \cup (Ids(D) \cup Ids(T))
      /\ Ids(T) \subseteq Ids(S) /\ cut \subseteq Ids(S)
  BY <1>3
<1> QED BY <1>4, <1>5, <1>6 DEF Account

\* T and E are S and D after packet p, as it may be now, is put out.
PutOut(S, D, p, T, E) ==
  /\ T \in Seq(Row) /\ E \in Seq(Row) /\ Line(T, E, p)
  /\ \A k : Undo(S, D, p - 1, k) => Undo(T, E, p, k)
  /\ \A o, n, t : Account(S, D, o, n, t) => Account(T, E, o, n, t)
  /\ Len(T) = Len(S)
  /\ \A j \in 1..(p - 1) : T[j] = S[j]

LEMMA LinePutOut ==
  ASSUME NEW S \in Seq(Row), NEW D \in Seq(Row), NEW p \in 1..Len(S), Line(S, D, p - 1),
         ~Null(S[p]), NEW y \in Row, y.id = S[p].id, y.pk = S[p].pk,
         NEW T, T = [S EXCEPT ![p] = y], NEW E, E = Append(D, y)
  PROVE  PutOut(S, D, p, T, E)
<1>1. /\ Len(S) \in Nat /\ Len(D) \in Nat /\ p \in Nat \ {0}
      /\ \A i \in 1..Len(S) : S[i].id \in Int
      /\ \A i \in 1..Len(D) : D[i].id \in Int
  BY RowsHave
<1>2. /\ T \in Seq(Row) /\ Len(T) = Len(S)
      /\ \A j \in 1..Len(S) : T[j] = IF j = p THEN y ELSE S[j]
  BY ExceptSeq
<1>3. \A j \in 1..Len(S) : T[j].id = S[j].id /\ (Null(T[j]) <=> Null(S[j]))
  BY <1>2 DEF Null, Pk
<1>4. /\ E \in Seq(Row) /\ Len(E) = Len(D) + 1
      /\ \A i \in 1..Len(D) : E[i] = D[i]
      /\ E[Len(D) + 1] = y
  BY AppendProperties
<1>5. Ids(T) = Ids(S) BY <1>2, <1>3 DEF Ids
<1>6. Ids(E) = Ids(D) \cup {S[p].id}
  <2>1. 1..Len(E) = 1..Len(D) \cup {Len(D) + 1} BY <1>1, <1>4
  <2>2. \A i \in 1..Len(D) : E[i].id = D[i].id BY <1>4
  <2> QED BY <2>1, <2>2, <1>4 DEF Ids
<1>7. \A i \in 1..Len(D), j \in p..Len(S) : D[i].id < S[j].id BY DEF Line
<1>8. Increasing(T) /\ Increasing(S) BY <1>2, <1>3 DEF Line, Increasing
<1>9. Increasing(E)
  <2> SUFFICES ASSUME NEW i \in 1..Len(E), NEW j \in 1..Len(E), i < j PROVE E[i].id < E[j].id
    BY DEF Increasing
  <2>1. i \in 1..Len(D) BY <1>1, <1>4
  <2>2. CASE j \in 1..Len(D) BY <2>1, <2>2, <1>4 DEF Line, Increasing
  <2>3. CASE j = Len(D) + 1 BY <2>1, <2>3, <1>1, <1>4, <1>7
  <2> QED BY <2>2, <2>3, <1>1, <1>4
<1>10. ASSUME NEW j \in 1..p PROVE T[j].id \in Ids(E) <=> ~Null(T[j])
  <2>1. j \in 1..Len(S) BY <1>1
  <2>2. CASE j = p BY <2>1, <2>2, <1>3, <1>6
  <2>3. CASE j # p
    <3>1. j \in 1..(p - 1) /\ S[j].id # S[p].id
      <4>1. j \in 1..(p - 1) /\ j < p BY <2>3, <1>1
      <4>2. S[j].id < S[p].id BY <4>1, <2>1, <1>8 DEF Increasing
      <4> QED BY <4>1, <4>2, <2>1, <1>1
    <3>2. S[j].id \in Ids(D) <=> ~Null(S[j]) BY <3>1 DEF Line
    <3> QED BY <3>1, <3>2, <2>1, <1>3, <1>6
  <2> QED BY <2>2, <2>3
<1>11. ASSUME NEW i \in 1..Len(E), NEW j \in (p + 1)..Len(T) PROVE E[i].id < T[j].id
  <2>1. j \in 1..Len(S) /\ j \in p..Len(S) /\ p < j BY <1>1, <1>2
  <2>2. CASE i \in 1..Len(D) BY <2>1, <2>2, <1>3, <1>4, <1>7
  <2>3. CASE i = Len(D) + 1 BY <2>1, <2>3, <1>3, <1>4, <1>8 DEF Increasing
  <2> QED BY <2>2, <2>3, <1>1, <1>4
<1>12. Line(T, E, p) BY <1>1, <1>2, <1>8, <1>9, <1>10, <1>11 DEF Line
<1>13. ASSUME NEW k, Undo(S, D, p - 1, k) PROVE Undo(T, E, p, k)
  <2>1. k \in 0..Len(E) /\ k \in Nat BY <1>1, <1>4, <1>13 DEF Undo
  <2>2. ASSUME NEW i \in 1..k, NEW j \in 1..Len(T) PROVE E[i].id < T[j].id
    <3>1. i \in 1..Len(D) BY <1>1, <1>13 DEF Undo
    <3> QED BY <3>1, <1>2, <1>3, <1>4, <1>13 DEF Undo
  <2>3. ASSUME NEW i \in (k + 1)..Len(E) PROVE \E j \in 1..p : E[i].id = T[j].id
    <3>1. CASE i = Len(D) + 1 BY <3>1, <1>1, <1>3, <1>4
    <3>2. CASE i # Len(D) + 1
      <4>1. i \in (k + 1)..Len(D) /\ i \in 1..Len(D) BY <3>2, <2>1, <1>1, <1>4
      <4>2. PICK j \in 1..(p - 1) : D[i].id = S[j].id BY <4>1, <1>13 DEF Undo
      <4>3. j \in 1..p /\ j \in 1..Len(S) BY <1>1
      <4> QED BY <4>1, <4>2, <4>3, <1>3, <1>4
    <3> QED BY <3>1, <3>2
  <2> QED BY <2>1, <2>2, <2>3 DEF Undo
<1>14. ASSUME NEW o, NEW n, NEW t, Account(S, D, o, n, t) PROVE Account(T, E, o, n, t)
  <2>1. S[p].id \in Ids(S) BY DEF Ids
  <2>2. Ids(E) \cup Ids(T) = Ids(D) \cup Ids(S) BY <2>1, <1>5, <1>6
  <2> QED BY <2>2, <1>14 DEF Account
<1>15. \A j \in 1..(p - 1) : T[j] = S[j] BY <1>1, <1>2
<1> QED BY <1>2, <1>4, <1>12, <1>13, <1>14, <1>15 DEF PutOut

\* put goes back to the first k packets of D and m of S.
LEMMA TakenBack ==
  ASSUME NEW S \in Seq(Row), NEW D \in Seq(Row), NEW w, Line(S, D, w),
         NEW k, Undo(S, D, w, k), NEW m \in 0..Len(S),
         NEW T, T = SubSeq(S, 1, m), NEW E, E = SubSeq(D, 1, k),
         NEW o, NEW n, NEW t, Account(S, D, o, n, t)
  PROVE  /\ T \in Seq(Row) /\ E \in Seq(Row) /\ Line(T, E, 0)
         /\ Account(T, E, o, n, t \cup (Ids(S) \ Ids(T)))
<1>1. Len(S) \in Nat /\ Len(D) \in Nat /\ k \in 0..Len(D) /\ w \in 0..Len(S)
      /\ Increasing(S) /\ Increasing(D)
  BY RowsHave DEF Undo, Line
<1>2. /\ T \in Seq(Row) /\ Len(T) = m /\ Increasing(T)
      /\ \A i \in 1..m : T[i] = S[i]
      /\ Ids(T) = {S[i].id : i \in 1..m}
  <2>1. First(S, m, T) BY FirstOf
  <2> QED BY <2>1, <1>1 DEF First
<1>3. /\ E \in Seq(Row) /\ Len(E) = k /\ Increasing(E)
      /\ \A i \in 1..k : E[i] = D[i]
      /\ Ids(E) = {D[i].id : i \in 1..k}
  <2>1. First(D, k, E) BY <1>1, FirstOf
  <2> QED BY <2>1, <1>1 DEF First
<1>4. Line(T, E, 0)
  <2>1. \A i \in 1..Len(E), j \in 1..Len(T) : E[i].id < T[j].id BY <1>1, <1>2, <1>3 DEF Undo
  <2> QED BY <2>1, <1>2, <1>3 DEF Line
<1>5. Ids(T) \subseteq Ids(S) /\ Ids(E) \subseteq Ids(D) BY <1>1, <1>2, <1>3 DEF Ids
<1>6. Ids(D) \subseteq Ids(E) \cup Ids(S)
  <2> SUFFICES ASSUME NEW i \in 1..Len(D) PROVE D[i].id \in Ids(E) \cup Ids(S) BY DEF Ids
  <2>1. CASE i \in 1..k BY <2>1, <1>3
  <2>2. CASE i \notin 1..k
    <3>1. i \in (k + 1)..Len(D) BY <2>2, <1>1
    <3>2. PICK j \in 1..w : D[i].id = S[j].id BY <3>1 DEF Undo
    <3>3. j \in 1..Len(S) BY <1>1
    <3> QED BY <3>2, <3>3 DEF Ids
  <2> QED BY <2>1, <2>2
<1>7. Ids(E) \cap Ids(S) = {}
  <2> SUFFICES ASSUME NEW i \in 1..k, NEW j \in 1..Len(S) PROVE D[i].id # S[j].id
    BY <1>3 DEF Ids
  <2>1. D[i].id < S[j].id /\ i \in 1..Len(D) BY <1>1 DEF Undo
  <2>2. D[i].id \in Int /\ S[j].id \in Int BY <2>1, RowsHave
  <2> QED BY <2>1, <2>2
<1>8. Account(T, E, o, n, t \cup (Ids(S) \ Ids(T))) BY <1>5, <1>6, <1>7 DEF Account
<1> QED BY <1>2, <1>3, <1>4, <1>8

----------------------------------------------------------------------------
(* Where a call is.                                                        *)

CallPlace ==
  /\ call = "none" => stage = "pat" /\ step = "check"
  /\ call # "none" => res # "torn"
  /\ step = "check" => stage \in {"pat", "pmt", "ecm"}
  /\ step = "after" => stage \in {"pmt", "proc", "rest"}
  /\ pc \in {"lists", "drop", "bind", "end"} => step = "after"

LEMMA FailPlace ==
  ASSUME NEW S, NEW D, NEW r, Fail(S, D, r)
  PROVE  call' = "none" /\ stage' = "pat" /\ step' = "check"
BY DEF Fail, Return

\* The handlers of ProgramMap that a packet starts
LEMMA StartPlace ==
  /\ PatForeign \/ CatForeign => UNCHANGED pc
  /\ \A p : PatBegin(p) => pc' = "pat"
  /\ \A i : PmtForeign(i) => UNCHANGED pc
  /\ \A c : Cat(c) => UNCHANGED pc
BY DEF PatForeign, CatForeign, PatBegin, PmtForeign, Cat

LEMMA StepPlace == ASSUME CallPlace, DecoderNext PROVE CallPlace'
<1> USE DEF CallPlace
<1>1. CASE Put \/ Flush
  BY <1>1 DEF Put, Flush, Idle, place, vars
<1>2. CASE Get \/ Withdraw
  BY <1>2 DEF Get, Withdraw, place, vars
<1>3. CASE ResetDecoder
  BY <1>3 DEF ResetDecoder, Reset, place, locals
<1>4. CASE Check \/ Searched
  BY <1>4 DEF Check, Searched, Here, Proceed, Return, vars
<1>5. CASE SearchEnd \/ SearchSkip
  BY <1>5 DEF SearchEnd, SearchSkip, Searching, Here, vars
<1>6. CASE SearchPat
  <2>1. Here("loop") /\ step' = "last" /\ UNCHANGED <<call, stage, res>>
    BY <1>6 DEF SearchPat, Searching
  <2>2. pc' \in {pc, "pat"} BY <1>6, StartPlace DEF SearchPat
  <2> QED BY <2>1, <2>2 DEF Here
<1>7. CASE SearchPmt
  <2>1. Here("loop") /\ UNCHANGED <<call, stage, res>> /\ stage = "pmt"
    BY <1>7 DEF SearchPmt, Searching
  <2>2. step' = "after" \/ (pc' = pc /\ step' \in {step, "last"})
    BY <1>7, StartPlace DEF SearchPmt, Leave, vars
  <2> QED BY <2>1, <2>2 DEF Here
<1>8. CASE SearchedPmt
  BY <1>8 DEF SearchedPmt, Leave, Here, vars
<1>9. CASE SearchEcm
  <2>1. Here("loop") /\ pc' = pc BY <1>9 DEF SearchEcm, Searching, vars
  <2>2. \/ UNCHANGED <<call, stage, res>> /\ step' \in {step, "last"}
        \/ Return("error")
    BY <1>9 DEF SearchEcm, Leave
  <2> QED BY <2>1, <2>2 DEF Here, Return
<1>10. CASE ProcDamaged \/ ProcStrip \/ ProcOther \/ ProcedPmt
  BY <1>10 DEF ProcDamaged, ProcStrip, ProcOther, ProcedPmt, Working, Here, vars
<1>11. CASE ProcNoKey \/ ProcRefused
  <2>1. Working /\ pc' = pc BY <1>11 DEF ProcNoKey, ProcRefused, vars
  <2>2. call' = "none" /\ stage' = "pat" /\ step' = "check"
    BY <1>11, FailPlace DEF ProcNoKey, ProcRefused, FailDelivered
  <2> QED BY <2>1, <2>2 DEF Working, Here
<1>12. CASE ProcEcm \/ ProcEmm
  <2>1. Working /\ pc' = pc BY <1>12 DEF ProcEcm, ProcEmm, Section, vars
  <2>2. \/ UNCHANGED <<call, stage, step, res>>
        \/ FailDelivered("error")
    BY <1>12 DEF ProcEcm, ProcEmm
  <2>3. FailDelivered("error") => call' = "none" /\ stage' = "pat" /\ step' = "check"
    BY FailPlace DEF FailDelivered
  <2> QED BY <2>1, <2>2, <2>3 DEF Working, Here
<1>13. CASE ProcCat
  <2>1. Working /\ UNCHANGED <<call, stage, step, res>> BY <1>13 DEF ProcCat, Section
  <2>2. pc' = pc BY <1>13, StartPlace DEF ProcCat
  <2> QED BY <2>1, <2>2 DEF Working, Here
<1>14. CASE ProcPmt
  BY <1>14 DEF ProcPmt, Section, Working, Here
<1>15. CASE ProcPat
  <2>1. Working /\ UNCHANGED <<call, stage, res>> /\ step' \in {"last", "loop"}
    BY <1>15 DEF ProcPat, Section
  <2>2. pc' \in {pc, "pat"} BY <1>15, StartPlace DEF ProcPat
  <2> QED BY <2>1, <2>2 DEF Working, Here
<1>16. CASE ProcEnd
  BY <1>16 DEF ProcEnd, Working, Here, Return, vars
<1>17. CASE Handler
  <2>1. UNCHANGED <<call, stage, step, res>> BY <1>17 DEF Handler, place
  <2>2. \/ pc \in {"lists", "drop", "bind", "end"}
        \/ pc' \in {"idle", "pat"}
    BY <1>17 DEF Handler, PatRelease, PatForget, DropStream, PatEnd, PmtLists, PmtStream,
                 PmtBind, PmtEnd
  <2> QED BY <2>1, <2>2
<1>18. CASE HandlerFails
  <2>1. pc' = "idle" BY <1>18 DEF HandlerFails, PmtEnd
  <2>2. call' = "none" /\ stage' = "pat" /\ step' = "check"
    BY <1>18, FailPlace DEF HandlerFails, Return
  <2> QED BY <2>1, <2>2
<1> QED BY <1>1, <1>2, <1>3, <1>4, <1>5, <1>6, <1>7, <1>8, <1>9, <1>10, <1>11, <1>12, <1>13,
           <1>14, <1>15, <1>16, <1>17, <1>18 DEF DecoderNext

----------------------------------------------------------------------------
(* The invariant of the buffers.                                           *)

\* How many packets of sbuf the loops have passed
Behind ==
  IF stage \in {"proc", "rest"} THEN (IF step = "after" THEN at ELSE at - 1) ELSE 0

QueueInv ==
  /\ dbuf \in Seq(Row)
  /\ Account(sbuf, dbuf, out, next, settled)
  /\ res # "torn" => Line(sbuf, dbuf, Behind)
  /\ call = "put" => Undo(sbuf, dbuf, Behind, dlen)

LEMMA QueueSame ==
  ASSUME QueueInv, UNCHANGED <<sbuf, dbuf, next, out, settled>>, Behind' = Behind,
         res' # "torn" => res # "torn",
         call' = "put" => call = "put" /\ dlen' = dlen
  PROVE  QueueInv'
<1>1. Account(sbuf, dbuf, out, next, settled)' BY DEF QueueInv
<1>2. (res # "torn" => Line(sbuf, dbuf, Behind))' BY DEF QueueInv
<1>3. (call = "put" => Undo(sbuf, dbuf, Behind, dlen))' BY DEF QueueInv
<1> QED BY <1>1, <1>2, <1>3 DEF QueueInv

\* The packets that are stripped are those passed that are not put out.
LEMMA StrippedIs ==
  ASSUME NEW S \in Seq(Row), NEW D \in Seq(Row), NEW w, Line(S, D, w), at - 1 <= w,
         at \in Nat, \A j \in 1..(at - 1) : S[j] = sbuf[j]
  PROVE  Stripped = {S[i].id : i \in 1..(at - 1)} \ Ids(D)
<1>1. w \in Nat /\ w \in 0..Len(S) BY RowsHave DEF Line
<1>2. Stripped = {S[i].id : i \in {j \in 1..(at - 1) : Null(S[j])}} BY DEF Stripped
<1>3. \A j \in 1..(at - 1) : Null(S[j]) <=> S[j].id \notin Ids(D)
  <2> SUFFICES ASSUME NEW j \in 1..(at - 1) PROVE Null(S[j]) <=> S[j].id \notin Ids(D)
    OBVIOUS
  <2>1. j \in 1..w BY <1>1
  <2> QED BY <2>1 DEF Line
<1> QED BY <1>2, <1>3

\* However a packet fails, what leaves the buffers is settled.
LEMMA FailQueue ==
  ASSUME BuffersFit,
         NEW S \in Seq(Row), NEW D \in Seq(Row), NEW w \in {at - 1, at}, Line(S, D, w),
         call = "put" => Undo(S, D, w, dlen),
         Account(S, D, out, next, settled),
         at \in 1..Len(S), \A j \in 1..(at - 1) : S[j] = sbuf[j],
         NEW r, Fail(S, D, r), UNCHANGED <<next, out>>
  PROVE  QueueInv'
<1>1. /\ Len(S) \in Nat /\ at \in Nat \ {0} /\ slen \in Nat
  BY RowsHave DEF BuffersFit
<1>2. Behind' = 0 /\ call' = "none"
  <2>1. stage' = "pat" /\ call' = "none" BY FailPlace
  <2> QED BY <2>1 DEF Behind
<1>3. CASE call = "put"
  <2> DEFINE m == IF slen < Len(S) THEN slen ELSE Len(S)
  <2>1. /\ sbuf' = SubSeq(S, 1, m) /\ dbuf' = SubSeq(D, 1, dlen)
        /\ settled' = settled \cup (Ids(S) \ Ids(sbuf'))
    BY <1>3 DEF Fail
  <2>2. m \in 0..Len(S) BY <1>1
  <2> HIDE DEF m
  <2>3. /\ sbuf' \in Seq(Row) /\ dbuf' \in Seq(Row) /\ Line(sbuf', dbuf', 0)
        /\ Account(sbuf', dbuf', out, next, settled \cup (Ids(S) \ Ids(sbuf')))
    BY <1>3, <2>1, <2>2, TakenBack
  <2> QED BY <1>2, <2>1, <2>3 DEF QueueInv
<1>4. CASE call = "flush" /\ stage = "proc"
  <2>1. sbuf' = S /\ dbuf' = D /\ settled' = settled /\ res' = "torn"
    BY <1>4 DEF Fail, Return
  <2> QED BY <1>2, <2>1 DEF QueueInv
<1>5. CASE call = "flush" /\ stage = "rest"
  <2>1. /\ sbuf' = From(S, at + 1) /\ dbuf' = D
        /\ settled' = settled \cup ({S[at].id} \ Ids(D)) \cup Stripped
    BY <1>5 DEF Fail
  <2>2. at + 1 \in 1..(Len(S) + 1) /\ at + 1 > w /\ at \in 0..Len(S) /\ at >= w BY <1>1
  <2>3. Stripped = {S[i].id : i \in 1..(at - 1)} \ Ids(D)
    <3>1. at - 1 <= w BY <1>1
    <3> QED BY <3>1, <1>1, StrippedIs
  <2>4. settled' = settled \cup ({S[i].id : i \in 1..at} \ Ids(D))
    <3>1. 1..at = 1..(at - 1) \cup {at} BY <1>1
    <3>2. {S[i].id : i \in 1..at} = {S[i].id : i \in 1..(at - 1)} \cup {S[at].id} BY <3>1
    <3> QED BY <2>1, <2>3, <3>2
  <2>5. sbuf' \in Seq(Row) /\ Line(sbuf', dbuf', 0) BY <2>1, <2>2, LineRest
  <2>6. Account(sbuf', dbuf', out, next, settled')
    <3>1. PICK T : T = From(S, at + 1) OBVIOUS
    <3>2. PICK cut : cut = {S[i].id : i \in 1..at} \ Ids(D) OBVIOUS
    <3>3. Account(T, D, out, next, settled \cup cut) BY <2>2, <3>1, <3>2, AccountRest
    <3> QED BY <2>1, <2>4, <3>1, <3>2, <3>3
  <2> QED BY <1>2, <2>1, <2>5, <2>6 DEF QueueInv
<1> QED BY <1>3, <1>4, <1>5 DEF Fail

\* Where the packet loop is
LEMMA WorkQueue ==
  ASSUME BuffersFit, CallPlace, QueueInv, Working, More
  PROVE  /\ at \in 1..Len(sbuf) /\ sbuf \in Seq(Row) /\ dbuf \in Seq(Row)
         /\ Behind = at - 1 /\ Line(sbuf, dbuf, at - 1)
         /\ call = "put" => Undo(sbuf, dbuf, at - 1, dlen)
         /\ Account(sbuf, dbuf, out, next, settled)
         /\ call # "none" /\ res # "torn" /\ stage \in {"proc", "rest"} /\ step = "loop"
<1>1. call # "none" /\ res # "torn" /\ stage \in {"proc", "rest"} /\ step = "loop"
  BY DEF Working, Here, CallPlace
<1>2. Behind = at - 1 BY <1>1 DEF Behind
<1> QED BY <1>1, <1>2, WorkAtHand DEF QueueInv, BuffersFit

\* The packet at hand fails before it is put out.
LEMMA FailsQueue ==
  ASSUME BuffersFit, CallPlace, QueueInv, Working, More,
         NEW r, Fail(sbuf, dbuf, r), UNCHANGED <<next, out>>
  PROVE  QueueInv'
<1>1. /\ at \in 1..Len(sbuf) /\ sbuf \in Seq(Row) /\ dbuf \in Seq(Row)
      /\ Line(sbuf, dbuf, at - 1)
      /\ call = "put" => Undo(sbuf, dbuf, at - 1, dlen)
      /\ Account(sbuf, dbuf, out, next, settled)
  BY WorkQueue
<1> QED BY <1>1, FailQueue

LEMMA OpenedIs ==
  ASSUME IInv, KeysFit, BuffersFit, at \in 1..Len(sbuf), Openable(sbuf[at])
  PROVE  Opened \in Row /\ Opened.id = sbuf[at].id /\ Opened.pk = sbuf[at].pk
<1>1. sbuf[at] \in Row BY ElementOfSeq DEF BuffersFit
<1>2. KeyFor(sbuf[at]) \in Ecms \cup {None} BY KeyForFits DEF Openable
<1> QED BY <1>1, <1>2 DEF Opened, Row

\* The packet at hand is put out.
LEMMA DeliverQueue ==
  ASSUME IInv, KeysFit, BuffersFit, CallPlace, QueueInv, Working, More, Openable(sbuf[at]),
         NEW S, S = [sbuf EXCEPT ![at] = Opened], NEW D, D = Append(dbuf, Opened)
  PROVE  /\ S \in Seq(Row) /\ D \in Seq(Row) /\ Line(S, D, at)
         /\ call = "put" => Undo(S, D, at, dlen)
         /\ Account(S, D, out, next, settled)
         /\ at \in 1..Len(S) /\ \A j \in 1..(at - 1) : S[j] = sbuf[j]
<1>1. /\ at \in 1..Len(sbuf) /\ sbuf \in Seq(Row) /\ dbuf \in Seq(Row)
      /\ Line(sbuf, dbuf, at - 1)
      /\ call = "put" => Undo(sbuf, dbuf, at - 1, dlen)
      /\ Account(sbuf, dbuf, out, next, settled)
  BY WorkQueue
<1>2. Opened \in Row /\ Opened.id = sbuf[at].id /\ Opened.pk = sbuf[at].pk BY <1>1, OpenedIs
<1>3. ~Null(sbuf[at]) BY DEF Openable, Plain
<1>4. PutOut(sbuf, dbuf, at, S, D) BY <1>1, <1>2, <1>3, LinePutOut
<1> QED BY <1>1, <1>4 DEF PutOut

\* ... and the loop goes on behind it.
LEMMA DeliveredQueue ==
  ASSUME IInv, KeysFit, BuffersFit, CallPlace, QueueInv, Working, More, Openable(sbuf[at]),
         Deliver, UNCHANGED <<next, out, settled, call, stage, dlen>>,
         \/ at' = at + 1 /\ step' \in {"loop", "last"}
         \/ at' = at /\ step' = "after"
  PROVE  QueueInv'
<1>1. stage \in {"proc", "rest"} /\ at \in Nat BY WorkQueue DEF BuffersFit
<1>2. Behind' = at BY <1>1 DEF Behind
<1>3. /\ dbuf' \in Seq(Row) /\ Line(sbuf', dbuf', at)
      /\ call = "put" => Undo(sbuf', dbuf', at, dlen)
      /\ Account(sbuf', dbuf', out, next, settled)
  BY DeliverQueue DEF Deliver
<1> QED BY <1>2, <1>3 DEF QueueInv

\* ... or fails after that.
LEMMA FailDeliveredQueue ==
  ASSUME IInv, KeysFit, BuffersFit, CallPlace, QueueInv, Working, More, Openable(sbuf[at]),
         NEW r, FailDelivered(r), UNCHANGED <<next, out>>
  PROVE  QueueInv'
<1> DEFINE S == [sbuf EXCEPT ![at] = Opened]
           D == Append(dbuf, Opened)
<1>1. /\ S \in Seq(Row) /\ D \in Seq(Row) /\ Line(S, D, at)
      /\ call = "put" => Undo(S, D, at, dlen)
      /\ Account(S, D, out, next, settled)
      /\ at \in 1..Len(S) /\ \A j \in 1..(at - 1) : S[j] = sbuf[j]
  BY DeliverQueue
<1>2. Fail(S, D, r) BY DEF FailDelivered
<1> HIDE DEF S, D
<1> QED BY <1>1, <1>2, FailQueue

----------------------------------------------------------------------------
(* The calls of the client.                                                *)

LEMMA IdleQueue ==
  ASSUME BuffersFit, CallPlace, QueueInv, Idle
  PROVE  /\ call = "none" /\ Behind = 0 /\ stage = "pat" /\ step = "check"
         /\ sbuf \in Seq(Row) /\ dbuf \in Seq(Row)
         /\ Line(sbuf, dbuf, 0) /\ Account(sbuf, dbuf, out, next, settled)
         /\ Ids(dbuf) \cap Ids(sbuf) = {}
<1>1. call = "none" /\ Behind = 0 /\ stage = "pat" /\ step = "check"
      /\ sbuf \in Seq(Row) /\ dbuf \in Seq(Row)
      /\ Line(sbuf, dbuf, 0) /\ Account(sbuf, dbuf, out, next, settled)
  BY DEF Idle, CallPlace, Behind, QueueInv, BuffersFit
<1>2. ASSUME NEW i \in 1..Len(dbuf), NEW j \in 1..Len(sbuf) PROVE dbuf[i].id # sbuf[j].id
  <2>1. dbuf[i].id < sbuf[j].id BY <1>1 DEF Line
  <2>2. dbuf[i].id \in Int BY <1>1, RowsHave
  <2> QED BY <2>1, <2>2
<1> QED BY <1>1, <1>2 DEF Ids

LEMMA EmptyRow == <<>> \in Seq(Row) /\ Len(<<>>) = 0 /\ Ids(<<>>) = {} /\ Increasing(<<>>)
<1>1. <<>> \in Seq(Row) /\ Len(<<>>) = 0 BY EmptySeq
<1> QED BY <1>1 DEF Ids, Increasing

\* New packets behind those there are
LEMMA LineMore ==
  ASSUME NEW S \in Seq(Row), NEW D \in Seq(Row), Line(S, D, 0),
         NEW o, NEW n, NEW t, Account(S, D, o, n, t),
         NEW m \in Nat, NEW a \in Seq(Row), Len(a) = m, \A i \in 1..m : a[i].id = n + i - 1,
         NEW T, T = S \o a
  PROVE  /\ Line(T, D, 0) /\ Undo(T, D, 0, Len(D))
         /\ Account(T, D, o, n + m, t)
<1>1. /\ Len(S) \in Nat /\ Len(D) \in Nat /\ n \in Int /\ o \in Int /\ o >= 0 /\ o < n
      /\ \A i \in 1..Len(S) : S[i].id \in Int /\ S[i].id < n
      /\ \A i \in 1..Len(D) : D[i].id \in Int /\ D[i].id < n
  <2>1. Ids(S) \subseteq (o + 1)..(n - 1) /\ Ids(D) \subseteq (o + 1)..(n - 1)
        /\ n \in Int /\ o \in 0..(n - 1)
    BY DEF Account
  <2>2. ASSUME NEW x \in (o + 1)..(n - 1) PROVE x \in Int /\ x < n BY <2>1
  <2> QED BY <2>1, <2>2, RowsHave
<1>2. /\ T \in Seq(Row) /\ Len(T) = Len(S) + m
      /\ \A i \in 1..Len(S) + m : T[i] = IF i <= Len(S) THEN S[i] ELSE a[i - Len(S)]
  BY ConcatProperties
<1>3. ASSUME NEW i \in 1..Len(T), i > Len(S) PROVE T[i].id = n + (i - Len(S)) - 1
  <2>1. i - Len(S) \in 1..m /\ T[i] = a[i - Len(S)] BY <1>1, <1>2, <1>3
  <2> QED BY <2>1
<1>4. \A i \in 1..Len(S) : T[i] = S[i] BY <1>1, <1>2
<1>5. Increasing(T)
  <2> SUFFICES ASSUME NEW i \in 1..Len(T), NEW j \in 1..Len(T), i < j PROVE T[i].id < T[j].id
    BY DEF Increasing
  <2>1. CASE j <= Len(S)
    <3>1. i \in 1..Len(S) /\ j \in 1..Len(S) BY <2>1, <1>1, <1>2
    <3> QED BY <3>1, <1>4 DEF Line, Increasing
  <2>2. CASE i <= Len(S) /\ j > Len(S)
    <3>1. i \in 1..Len(S) /\ S[i].id < n /\ T[i] = S[i] /\ S[i].id \in Int
      BY <2>2, <1>1, <1>2, <1>4
    <3>2. T[j].id = n + (j - Len(S)) - 1 BY <2>2, <1>3
    <3> QED BY <2>2, <3>1, <3>2, <1>1, <1>2
  <2>3. CASE i > Len(S)
    <3>1. T[i].id = n + (i - Len(S)) - 1 BY <2>3, <1>3
    <3>2. j > Len(S) BY <2>3, <1>1, <1>2
    <3>3. T[j].id = n + (j - Len(S)) - 1 BY <3>2, <1>3
    <3> QED BY <3>1, <3>3, <1>1, <1>2
  <2> QED BY <2>1, <2>2, <2>3, <1>1, <1>2
<1>6. ASSUME NEW i \in 1..Len(D), NEW j \in 1..Len(T) PROVE D[i].id < T[j].id
  <2>1. CASE j <= Len(S)
    <3>1. j \in (0 + 1)..Len(S) /\ j \in 1..Len(S) BY <2>1, <1>1, <1>2
    <3>2. D[i].id < S[j].id BY <3>1 DEF Line
    <3> QED BY <3>1, <3>2, <1>4
  <2>2. CASE j > Len(S)
    <3>1. T[j].id = n + (j - Len(S)) - 1 BY <2>2, <1>3
    <3> QED BY <2>2, <3>1, <1>1, <1>2
  <2> QED BY <2>1, <2>2, <1>1, <1>2
<1>7. Line(T, D, 0)
  <2>1. Len(T) \in Nat BY <1>1, <1>2
  <2>2. Increasing(D) BY DEF Line
  <2> QED BY <2>1, <2>2, <1>5, <1>6 DEF Line
<1>8. Undo(T, D, 0, Len(D)) BY <1>1, <1>6 DEF Undo
<1>9. Ids(T) = Ids(S) \cup n..(n + m - 1)
  <2>1. ASSUME NEW i \in 1..Len(T) PROVE T[i].id \in Ids(S) \cup n..(n + m - 1)
    <3>1. CASE i <= Len(S) BY <3>1, <1>1, <1>2, <1>4 DEF Ids
    <3>2. CASE i > Len(S)
      <4>1. T[i].id = n + (i - Len(S)) - 1 BY <3>2, <1>3
      <4> QED BY <4>1, <3>2, <1>1, <1>2
    <3> QED BY <3>1, <3>2, <1>1, <1>2
  <2>2. ASSUME NEW i \in 1..Len(S) PROVE S[i].id \in Ids(T)
    <3>1. i \in 1..Len(T) BY <1>1, <1>2
    <3> QED BY <3>1, <1>4 DEF Ids
  <2>3. ASSUME NEW x \in n..(n + m - 1) PROVE x \in Ids(T)
    <3>1. PICK i : i = x - n + 1 + Len(S) OBVIOUS
    <3>2. i \in 1..Len(T) /\ i > Len(S) /\ n + (i - Len(S)) - 1 = x BY <3>1, <1>1, <1>2
    <3>3. T[i].id = x BY <3>2, <1>3
    <3> QED BY <3>2, <3>3 DEF Ids
  <2>4. ASSUME NEW x \in Ids(T) PROVE x \in Ids(S) \cup n..(n + m - 1)
    <3>1. PICK i \in 1..Len(T) : x = T[i].id BY DEF Ids
    <3> QED BY <3>1, <2>1
  <2>5. ASSUME NEW x \in Ids(S) PROVE x \in Ids(T)
    <3>1. PICK i \in 1..Len(S) : x = S[i].id BY DEF Ids
    <3> QED BY <3>1, <2>2
  <2> QED BY <2>3, <2>4, <2>5
<1>10. Account(T, D, o, n + m, t)
  <2>1. /\ o \in 0..(n + m - 1) /\ n + m \in Int
        /\ 1..(n + m - 1) = 1..(n - 1) \cup n..(n + m - 1)
        /\ 1..(n - 1) \cap n..(n + m - 1) = {}
        /\ (o + 1)..(n - 1) \subseteq (o + 1)..(n + m - 1)
        /\ n..(n + m - 1) \subseteq (o + 1)..(n + m - 1)
    BY <1>1
  <2>2. /\ 1..(n - 1) = t \cup (Ids(D) \cup Ids(S)) /\ t \cap (Ids(D) \cup Ids(S)) = {}
        /\ Ids(D) \cup Ids(S) \subseteq (o + 1)..(n - 1)
    BY DEF Account
  <2>3. 1..(n + m - 1) = t \cup (Ids(D) \cup Ids(T)) BY <2>1, <2>2, <1>9
  <2>4. t \cap (Ids(D) \cup Ids(T)) = {} BY <2>1, <2>2, <1>9
  <2>5. Ids(D) \cup Ids(T) \subseteq (o + 1)..(n + m - 1) BY <2>1, <2>2, <1>9
  <2> QED BY <2>1, <2>3, <2>4, <2>5 DEF Account
<1> QED BY <1>7, <1>8, <1>10

LEMMA PutQueue == ASSUME BuffersFit, CallPlace, QueueInv, Put PROVE QueueInv'
<1>1. /\ call = "none" /\ stage = "pat" /\ sbuf \in Seq(Row) /\ dbuf \in Seq(Row)
      /\ Line(sbuf, dbuf, 0) /\ Account(sbuf, dbuf, out, next, settled)
  BY IdleQueue DEF Put
<1>2. PICK n \in 1..MaxPut :
        /\ next' = next + n
        /\ \E in \in [1..n -> DOMAIN Packets] :
             sbuf' = sbuf \o [i \in 1..n |-> [id |-> next + i - 1, pk |-> in[i], by |-> None]]
  BY DEF Put
<1>3. PICK in, a :
        /\ in \in [1..n -> DOMAIN Packets]
        /\ a = [i \in 1..n |-> [id |-> next + i - 1, pk |-> in[i], by |-> None]]
        /\ sbuf' = sbuf \o a
  BY <1>2
<1>4. a \in Seq(Row) /\ Len(a) = n /\ \A i \in 1..n : a[i].id = next + i - 1
  <2>1. next \in Int BY DEF BuffersFit
  <2>2. \A i \in 1..n : [id |-> next + i - 1, pk |-> in[i], by |-> None] \in Row
    BY <1>3, <2>1 DEF Row
  <2>3. a \in [1..n -> Row] BY <1>3, <2>2
  <2>4. a \in Seq(Row) BY <2>3, SeqDef
  <2> QED BY <1>3, <2>3, <2>4
<1>5. /\ Line(sbuf', dbuf, 0) /\ Undo(sbuf', dbuf, 0, Len(dbuf))
      /\ Account(sbuf', dbuf, out, next + n, settled)
  <2>1. n \in Nat OBVIOUS
  <2>2. PICK S, D, T, o, t, x : /\ S = sbuf /\ D = dbuf /\ T = sbuf'
                                /\ o = out /\ t = settled /\ x = next
    OBVIOUS
  <2>3. Line(S, D, 0) /\ Account(S, D, o, x, t) /\ S \in Seq(Row) /\ D \in Seq(Row) BY <1>1, <2>2
  <2>4. T = S \o a /\ \A i \in 1..n : a[i].id = x + i - 1 BY <1>3, <1>4, <2>2
  <2>5. /\ Line(T, D, 0) /\ Undo(T, D, 0, Len(D))
        /\ Account(T, D, o, x + n, t)
    BY <2>1, <2>3, <2>4, <1>4, LineMore
  <2> QED BY <2>2, <2>5
<1>6. /\ dbuf' = dbuf /\ out' = out /\ settled' = settled /\ stage' = stage
      /\ call' = "put" => dlen' = Len(dbuf)
  BY <1>1 DEF Put, place
<1>7. Behind' = 0 BY <1>1, <1>6 DEF Behind
<1> QED BY <1>1, <1>2, <1>5, <1>6, <1>7 DEF QueueInv

LEMMA ClientQueue ==
  ASSUME BuffersFit, CallPlace, QueueInv, Flush \/ Get \/ Withdraw \/ ResetDecoder
  PROVE  QueueInv'
<1>1. CASE Flush
  <2>1. call = "none" /\ Behind = 0 /\ res # "torn" /\ stage = "pat"
    BY <1>1, IdleQueue DEF Flush, Idle
  <2>2. Behind' = 0 /\ call' # "put"
    <3>1. CASE stage' = "proc" /\ step' = "loop" /\ at' = 1 /\ call' = "flush"
      BY <3>1 DEF Behind
    <3>2. CASE UNCHANGED place BY <3>2, <2>1 DEF place, Behind
    <3> QED BY <1>1, <3>1, <3>2 DEF Flush
  <2>3. UNCHANGED <<sbuf, dbuf, next, out, settled>> BY <1>1 DEF Flush, sent
  <2> QED BY <2>1, <2>2, <2>3, QueueSame
<1>2. CASE Get
  <2>1. /\ call = "none" /\ Behind = 0 /\ sbuf \in Seq(Row) /\ dbuf \in Seq(Row)
        /\ Line(sbuf, dbuf, 0) /\ Account(sbuf, dbuf, out, next, settled)
        /\ Ids(dbuf) \cap Ids(sbuf) = {}
    BY <1>2, IdleQueue DEF Get
  <2>2. /\ dbuf # <<>> /\ dbuf' = <<>> /\ out' = dbuf[Len(dbuf)].id
        /\ settled' = settled \cup Ids(dbuf)
        /\ UNCHANGED <<sbuf, next, call, stage, step, at, res>>
    BY <1>2 DEF Get, place, sent
  <2>3. Behind' = 0 BY <2>1, <2>2 DEF Behind
  <2>4. Line(sbuf, <<>>, 0) BY <2>1, EmptyRow DEF Line
  <2>5. Account(sbuf, <<>>, dbuf[Len(dbuf)].id, next, settled \cup Ids(dbuf))
    <3>1. Len(dbuf) \in 1..Len(dbuf) BY <2>1, <2>2, EmptySeq
    <3>2. PICK o : o = dbuf[Len(dbuf)].id OBVIOUS
    <3>3. o \in Ids(dbuf) BY <3>1, <3>2 DEF Ids
    <3>4. o \in (out + 1)..(next - 1) /\ out \in 0..(next - 1) /\ next \in Int
      BY <2>1, <3>3 DEF Account
    <3>5. ASSUME NEW x \in Ids(sbuf) PROVE x \in (o + 1)..(next - 1)
      <4>1. PICK j \in 1..Len(sbuf) : x = sbuf[j].id BY DEF Ids
      <4>2. j \in (0 + 1)..Len(sbuf) BY <2>1, RowsHave
      <4>3. o < x BY <2>1, <3>1, <3>2, <4>1, <4>2 DEF Line
      <4>4. x \in (out + 1)..(next - 1) BY <2>1 DEF Account
      <4> QED BY <3>4, <4>3, <4>4
    <3>6. o \in 0..(next - 1) BY <3>4
    <3>7. Account(sbuf, <<>>, o, next, settled \cup Ids(dbuf))
      BY <2>1, <3>5, <3>6, EmptyRow DEF Account
    <3> QED BY <3>2, <3>7
  <2> QED BY <2>1, <2>2, <2>3, <2>4, <2>5, EmptyRow DEF QueueInv
<1>3. CASE Withdraw
  <2>1. /\ call = "none" /\ Behind = 0 /\ sbuf \in Seq(Row) /\ dbuf \in Seq(Row)
        /\ Line(sbuf, dbuf, 0) /\ Account(sbuf, dbuf, out, next, settled)
        /\ Ids(dbuf) \cap Ids(sbuf) = {}
    BY <1>3, IdleQueue DEF Withdraw
  <2>2. /\ sbuf' = <<>> /\ settled' = settled \cup Ids(sbuf)
        /\ UNCHANGED <<dbuf, out, next, call, stage, step, at, res>>
    BY <1>3 DEF Withdraw, place, sent
  <2>3. Behind' = 0 BY <2>1, <2>2 DEF Behind
  <2>4. Line(<<>>, dbuf, 0) BY <2>1, EmptyRow DEF Line
  <2>5. Account(<<>>, dbuf, out, next, settled \cup Ids(sbuf)) BY <2>1, EmptyRow DEF Account
  <2> QED BY <2>1, <2>2, <2>3, <2>4, <2>5 DEF QueueInv
<1>4. CASE ResetDecoder
  <2>1. /\ call = "none" /\ stage = "pat" BY <1>4 DEF ResetDecoder, CallPlace
  <2>2. /\ sbuf' = <<>> /\ dbuf' = <<>> /\ settled' = settled \cup Ids(sbuf) \cup Ids(dbuf)
        /\ UNCHANGED <<out, next, call, stage, step, at>>
    BY <1>4 DEF ResetDecoder, place, sent
  <2>3. Behind' = 0 BY <2>1, <2>2 DEF Behind
  <2>4. Line(<<>>, <<>>, 0) BY EmptyRow DEF Line
  <2>5. Account(<<>>, <<>>, out, next, settled \cup Ids(sbuf) \cup Ids(dbuf))
    <3>1. Account(sbuf, dbuf, out, next, settled) BY DEF QueueInv
    <3> QED BY <3>1, EmptyRow DEF Account
  <2> QED BY <2>1, <2>2, <2>3, <2>4, <2>5, EmptyRow DEF QueueInv
<1> QED BY <1>1, <1>2, <1>3, <1>4

----------------------------------------------------------------------------
(* The searches.                                                           *)

\* What becomes of the buffers when the packets H before T are dropped
Cut(S, D, o, n, t, T, H) ==
  /\ T \in Seq(Row) /\ Line(T, D, 0)
  /\ \A l : Undo(S, D, 0, l) => Undo(T, D, 0, l)
  /\ Account(T, D, o, n, t \cup Ids(H))

\* A search cuts the first k packets off sbuf.
LEMMA CutQueue ==
  ASSUME NEW S \in Seq(Row), NEW D \in Seq(Row), Line(S, D, 0),
         NEW o, NEW n, NEW t, Account(S, D, o, n, t),
         NEW k \in 0..Len(S), NEW T, T = From(S, k + 1), NEW H, H = SubSeq(S, 1, k)
  PROVE  Cut(S, D, o, n, t, T, H)
<1>1. Len(S) \in Nat /\ k \in Nat /\ k + 1 \in 1..(Len(S) + 1) /\ k + 1 > 0 BY RowsHave
<1>2. T \in Seq(Row) /\ Line(T, D, 0) BY <1>1, LineRest
<1>3. Ids(H) = {S[i].id : i \in 1..k} \ Ids(D)
  <2>1. First(S, k, H) BY FirstOf
  <2>2. ASSUME NEW i \in 1..k, NEW j \in 1..Len(D) PROVE S[i].id # D[j].id
    <3>1. i \in (0 + 1)..Len(S) BY <1>1
    <3>2. D[j].id < S[i].id BY <3>1 DEF Line
    <3>3. D[j].id \in Int BY RowsHave
    <3> QED BY <3>2, <3>3
  <2> QED BY <2>1, <2>2 DEF First, Ids
<1>4. Account(T, D, o, n, t \cup Ids(H))
  <2>1. PICK cut : cut = {S[i].id : i \in 1..k} \ Ids(D) OBVIOUS
  <2>2. k >= 0 BY <1>1
  <2>3. Account(T, D, o, n, t \cup cut) BY <2>1, <2>2, AccountRest
  <2> QED BY <2>1, <2>3, <1>3
<1>5. ASSUME NEW l, Undo(S, D, 0, l) PROVE Undo(T, D, 0, l)
  <2>1. /\ Len(T) \in Nat
        /\ \A i \in 1..Len(T) : k + 1 + i - 1 \in (k + 1)..Len(S) /\ T[i] = S[k + 1 + i - 1]
    BY <1>1, RestOf, RowsHave
  <2>2. ASSUME NEW i \in 1..l, NEW j \in 1..Len(T) PROVE D[i].id < T[j].id
    <3>1. k + 1 + j - 1 \in 1..Len(S) /\ T[j] = S[k + 1 + j - 1] BY <1>1, <2>1
    <3> QED BY <3>1, <1>5 DEF Undo
  <2> QED BY <2>2, <1>5 DEF Undo
<1> QED BY <1>2, <1>4, <1>5 DEF Cut

LEMMA SearchPatQueue == ASSUME BuffersFit, CallPlace, QueueInv, SearchPat PROVE QueueInv'
<1>1. /\ stage \in {"pat", "pmt", "ecm"} /\ res # "torn" /\ at < Len(sbuf)
      /\ Searching
  BY DEF SearchPat, Searching, Here, CallPlace
<1>2. UNCHANGED <<dbuf, next, out, call, stage, dlen, res>> BY DEF SearchPat, sent
<1>3. Behind = 0 /\ Behind' = 0 BY <1>1, <1>2 DEF Behind
<1>4. CASE stage = "pat"
  <2>1. UNCHANGED <<sbuf, settled>> BY <1>4 DEF SearchPat
  <2> QED BY <1>2, <1>3, <2>1, QueueSame
<1>5. CASE stage # "pat"
  <2>1. at \in 1..Len(sbuf) BY <1>1, SearchAtHand
  <2>2. PICK k : k = at - 1 OBVIOUS
  <2>3. k \in 0..Len(sbuf) /\ at = k + 1 BY <2>1, <2>2, LenProperties DEF BuffersFit
  <2>4. sbuf' = From(sbuf, k + 1) /\ settled' = settled \cup Ids(SubSeq(sbuf, 1, k))
    BY <1>5, <2>2, <2>3 DEF SearchPat
  <2>5. PICK H : H = SubSeq(sbuf, 1, k) OBVIOUS
  <2>6. /\ sbuf \in Seq(Row) /\ dbuf \in Seq(Row) /\ Line(sbuf, dbuf, 0)
        /\ Account(sbuf, dbuf, out, next, settled)
        /\ call = "put" => Undo(sbuf, dbuf, 0, dlen)
    BY <1>1, <1>3 DEF QueueInv, BuffersFit
  <2>7. Cut(sbuf, dbuf, out, next, settled, sbuf', H)
    BY <2>3, <2>4, <2>5, <2>6, CutQueue
  <2> QED BY <1>2, <1>3, <2>4, <2>5, <2>6, <2>7 DEF Cut, QueueInv
<1> QED BY <1>4, <1>5

LEMMA SearchQueue ==
  ASSUME BuffersFit, CallPlace, QueueInv,
         \/ Check \/ Searched
         \/ SearchEnd \/ SearchSkip \/ SearchPat \/ SearchPmt \/ SearchedPmt \/ SearchEcm
  PROVE  QueueInv'
<1>1. CASE Check
  <2>1. /\ stage \in {"pat", "pmt", "ecm"} /\ step = "check" /\ res # "torn"
        /\ UNCHANGED <<sbuf, dbuf, next, out, settled, call, dlen, res>>
    BY <1>1 DEF Check, Here, CallPlace, buffers, sent, Proceed
  <2>2. \/ stage' \in {"pat", "pmt", "ecm"}
        \/ stage' = "proc" /\ step' = "loop" /\ at' = 1
    BY <1>1, <2>1 DEF Check, Proceed
  <2>3. Behind = 0 /\ Behind' = 0 BY <2>1, <2>2 DEF Behind
  <2> QED BY <2>1, <2>3, QueueSame
<1>2. CASE Searched
  <2>1. /\ stage \in {"pat", "pmt", "ecm"} /\ res # "torn"
        /\ UNCHANGED <<sbuf, dbuf, next, out, settled>>
        /\ call' \in {call, "none"}
        /\ call' = "put" => dlen' = dlen
    BY <1>2 DEF Searched, Here, CallPlace, sent, Proceed, Return
  <2>2. \/ stage' \in {"pat", "pmt", "ecm"}
        \/ stage' = "proc" /\ step' = "loop" /\ at' = 1
    BY <1>2, <2>1 DEF Searched, Proceed, Return
  <2>3. Behind = 0 /\ Behind' = 0 BY <2>1, <2>2 DEF Behind
  <2> QED BY <2>1, <2>3, QueueSame
<1>3. CASE SearchEnd \/ SearchSkip
  <2>1. /\ stage \in {"pat", "pmt", "ecm"}
        /\ UNCHANGED <<sbuf, dbuf, next, out, settled, call, stage, dlen, res>>
    BY <1>3 DEF SearchEnd, SearchSkip, Searching, buffers, history, sent
  <2>2. Behind = 0 /\ Behind' = 0 BY <2>1 DEF Behind
  <2> QED BY <2>1, <2>2, QueueSame
<1>4. CASE SearchPmt \/ SearchedPmt
  <2>1. /\ stage = "pmt"
        /\ UNCHANGED <<sbuf, dbuf, next, out, settled, call, stage, dlen, res>>
    BY <1>4 DEF SearchPmt, SearchedPmt, history, sent
  <2>2. Behind = 0 /\ Behind' = 0 BY <2>1 DEF Behind
  <2> QED BY <2>1, <2>2, QueueSame
<1>5. CASE SearchEcm
  <2>1. /\ stage = "ecm" /\ res # "torn"
        /\ UNCHANGED <<sbuf, dbuf, next, out, settled>>
    BY <1>5 DEF SearchEcm, Searching, Here, CallPlace, sent
  <2>2. UNCHANGED <<call, stage, dlen>> \/ (call' = "none" /\ stage' = "pat")
    BY <1>5 DEF SearchEcm, Return
  <2>3. Behind = 0 /\ Behind' = 0 BY <2>1, <2>2 DEF Behind
  <2> QED BY <2>1, <2>2, <2>3, QueueSame
<1> QED BY <1>1, <1>2, <1>3, <1>4, <1>5, SearchPatQueue

----------------------------------------------------------------------------
(* The packet loops.                                                       *)

LEMMA DamagedQueue == ASSUME BuffersFit, CallPlace, QueueInv, ProcDamaged PROVE QueueInv'
<1>1. /\ at \in 1..Len(sbuf) /\ sbuf \in Seq(Row) /\ dbuf \in Seq(Row)
      /\ Line(sbuf, dbuf, at - 1)
      /\ call = "put" => Undo(sbuf, dbuf, at - 1, dlen)
      /\ Account(sbuf, dbuf, out, next, settled)
      /\ stage \in {"proc", "rest"} /\ step = "loop"
  BY WorkQueue DEF ProcDamaged
<1>2. PICK y : y = sbuf[at] OBVIOUS
<1>3. y \in Row /\ y.id = sbuf[at].id /\ y.pk = sbuf[at].pk /\ ~Null(sbuf[at])
  BY <1>1, <1>2, ElementOfSeq DEF ProcDamaged, Null
<1>4. sbuf = [sbuf EXCEPT ![at] = y]
  BY <1>1, <1>2
<1>5. PutOut(sbuf, dbuf, at, sbuf, Append(dbuf, y)) BY <1>1, <1>3, <1>4, LinePutOut
<1>6. /\ dbuf' = Append(dbuf, y) /\ at' = at + 1
      /\ UNCHANGED <<sbuf, next, out, settled, call, stage, step, dlen>>
  BY <1>2 DEF ProcDamaged, history, sent
<1>7. Behind' = at BY <1>1, <1>6 DEF Behind
<1> QED BY <1>1, <1>5, <1>6, <1>7 DEF PutOut, QueueInv

LEMMA StripQueue == ASSUME BuffersFit, CallPlace, QueueInv, ProcStrip PROVE QueueInv'
<1>1. /\ at \in 1..Len(sbuf) /\ sbuf \in Seq(Row) /\ dbuf \in Seq(Row)
      /\ Line(sbuf, dbuf, at - 1)
      /\ call = "put" => Undo(sbuf, dbuf, at - 1, dlen)
      /\ Account(sbuf, dbuf, out, next, settled)
      /\ stage \in {"proc", "rest"} /\ step = "loop"
  BY WorkQueue DEF ProcStrip
<1>2. at \in Nat \ {0} /\ Len(sbuf) \in Nat BY <1>1, RowsHave
<1>3. Null(sbuf[at]) BY DEF ProcStrip
<1>4. sbuf[at].id \notin Ids(dbuf)
  <2> SUFFICES ASSUME NEW i \in 1..Len(dbuf) PROVE dbuf[i].id # sbuf[at].id BY DEF Ids
  <2>1. at \in (at - 1 + 1)..Len(sbuf) BY <1>1, <1>2
  <2>2. dbuf[i].id < sbuf[at].id BY <1>1, <2>1 DEF Line
  <2>3. dbuf[i].id \in Int BY <1>1, RowsHave
  <2> QED BY <2>2, <2>3
<1>5. Line(sbuf, dbuf, at)
  <2>1. ASSUME NEW j \in 1..at PROVE sbuf[j].id \in Ids(dbuf) <=> ~Null(sbuf[j])
    <3>1. CASE j = at BY <3>1, <1>3, <1>4
    <3>2. CASE j # at
      <4>1. j \in 1..(at - 1) BY <3>2, <1>2
      <4> QED BY <4>1, <1>1 DEF Line
    <3> QED BY <3>1, <3>2
  <2>2. ASSUME NEW i \in 1..Len(dbuf), NEW j \in (at + 1)..Len(sbuf)
        PROVE  dbuf[i].id < sbuf[j].id
    <3>1. j \in (at - 1 + 1)..Len(sbuf) BY <1>2
    <3> QED BY <3>1, <1>1 DEF Line
  <2> QED BY <2>1, <2>2, <1>1, <1>2 DEF Line
<1>6. call = "put" => Undo(sbuf, dbuf, at, dlen)
  <2> SUFFICES ASSUME Undo(sbuf, dbuf, at - 1, dlen) PROVE Undo(sbuf, dbuf, at, dlen)
    BY <1>1
  <2>1. ASSUME NEW i \in (dlen + 1)..Len(dbuf) PROVE \E j \in 1..at : dbuf[i].id = sbuf[j].id
    <3>1. PICK j \in 1..(at - 1) : dbuf[i].id = sbuf[j].id BY DEF Undo
    <3>2. j \in 1..at BY <1>2
    <3> QED BY <3>1, <3>2
  <2> QED BY <2>1 DEF Undo
<1>7. at' = at + 1 /\ UNCHANGED <<sbuf, dbuf, next, out, settled, call, stage, step, dlen>>
  BY DEF ProcStrip, buffers, history, sent
<1>8. Behind' = at BY <1>1, <1>2, <1>7 DEF Behind
<1> QED BY <1>1, <1>5, <1>6, <1>7, <1>8 DEF QueueInv

LEMMA EndQueue == ASSUME BuffersFit, CallPlace, QueueInv, ProcEnd PROVE QueueInv'
<1>1. /\ call # "none" /\ stage \in {"proc", "rest"} /\ step \in {"loop", "last"}
      /\ step = "last" => stage = "proc"
  BY DEF ProcEnd, Working, Here
<1>2. Behind = at - 1 /\ at \in Nat \ {0} BY <1>1 DEF Behind, BuffersFit
<1>3. /\ sbuf \in Seq(Row) /\ dbuf \in Seq(Row) /\ Line(sbuf, dbuf, at - 1)
      /\ Account(sbuf, dbuf, out, next, settled)
  BY <1>1, <1>2 DEF CallPlace, QueueInv, BuffersFit
<1>4. /\ sbuf' = From(sbuf, at) /\ settled' = settled \cup Stripped
      /\ UNCHANGED <<dbuf, next, out>>
  BY DEF ProcEnd, sent
<1>5. Behind' = 0 /\ call' # "put"
  <2>1. \/ stage' = "rest" /\ step' = "loop" /\ at' = 1 /\ call' = "flush"
        \/ stage' = "pat" /\ call' = "none"
    BY DEF ProcEnd, Return
  <2> QED BY <2>1 DEF Behind
<1>6. PICK k : k = at - 1 OBVIOUS
<1>7. /\ k \in 0..Len(sbuf) /\ at = k + 1 /\ at \in 1..(Len(sbuf) + 1) /\ at > k
      /\ k >= k /\ at - 1 <= k /\ Line(sbuf, dbuf, k)
  <2>1. Len(sbuf) \in Nat BY <1>3, RowsHave
  <2>2. k \in 0..Len(sbuf) BY <1>3, <1>6 DEF Line
  <2> QED BY <2>1, <2>2, <1>2, <1>3, <1>6
<1>8. sbuf' \in Seq(Row) /\ Line(sbuf', dbuf, 0) BY <1>3, <1>4, <1>7, LineRest
<1>9. Account(sbuf', dbuf, out, next, settled')
  <2>1. PICK cut : cut = {sbuf[i].id : i \in 1..k} \ Ids(dbuf) OBVIOUS
  <2>2. Stripped = cut
    <3>1. Stripped = {sbuf[i].id : i \in 1..(at - 1)} \ Ids(dbuf) BY <1>2, <1>3, <1>7, StrippedIs
    <3> QED BY <2>1, <3>1, <1>6
  <2>3. sbuf' = From(sbuf, k + 1) BY <1>4, <1>7
  <2>4. Account(sbuf', dbuf, out, next, settled \cup cut)
    BY <1>3, <1>7, <2>1, <2>3, AccountRest
  <2> QED BY <1>4, <2>2, <2>4
<1> QED BY <1>3, <1>4, <1>5, <1>8, <1>9 DEF QueueInv

LEMMA ProcQueue ==
  ASSUME IInv, KeysFit, BuffersFit, CallPlace, QueueInv,
         \/ ProcDamaged \/ ProcStrip \/ ProcNoKey \/ ProcRefused \/ ProcOther
         \/ ProcEcm \/ ProcEmm \/ ProcCat \/ ProcPmt \/ ProcedPmt \/ ProcPat \/ ProcEnd
  PROVE  QueueInv'
<1>1. CASE ProcNoKey
  <2>1. Working /\ More /\ Fail(sbuf, dbuf, "no key") /\ UNCHANGED <<next, out>>
    BY <1>1 DEF ProcNoKey, sent
  <2> QED BY <2>1, FailsQueue
<1>2. CASE ProcRefused
  <2>1. Working /\ More /\ Openable(sbuf[at]) /\ FailDelivered("error") /\ UNCHANGED <<next, out>>
    BY <1>2 DEF ProcRefused, sent
  <2> QED BY <2>1, FailDeliveredQueue
<1>3. CASE ProcOther
  <2>1. /\ Working /\ More /\ Openable(sbuf[at]) /\ Deliver /\ at' = at + 1 /\ step' = step
        /\ UNCHANGED <<next, out, settled, call, stage, dlen>>
    BY <1>3 DEF ProcOther, history, sent
  <2>2. step = "loop" BY <2>1 DEF Working, Here
  <2> QED BY <2>1, <2>2, DeliveredQueue
<1>4. CASE ProcEcm \/ ProcEmm
  <2>1. /\ Working /\ More /\ Openable(sbuf[at]) /\ UNCHANGED <<next, out>>
        /\ \/ FailDelivered("error")
           \/ /\ Deliver /\ at' = at + 1 /\ step' = step
              /\ UNCHANGED <<settled, call, stage, dlen>>
    BY <1>4 DEF ProcEcm, ProcEmm, Section, sent
  <2>2. step = "loop" BY <2>1 DEF Working, Here
  <2> QED BY <2>1, <2>2, DeliveredQueue, FailDeliveredQueue
<1>5. CASE ProcCat \/ ProcPat
  <2>1. /\ Working /\ More /\ Openable(sbuf[at]) /\ Deliver /\ at' = at + 1
        /\ step' \in {step, "loop", "last"}
        /\ UNCHANGED <<next, out, settled, call, stage, dlen>>
    BY <1>5 DEF ProcCat, ProcPat, Section, history, sent
  <2>2. step = "loop" BY <2>1 DEF Working, Here
  <2> QED BY <2>1, <2>2, DeliveredQueue
<1>6. CASE ProcPmt
  <2>1. /\ Working /\ More /\ Openable(sbuf[at]) /\ Deliver /\ at' = at /\ step' = "after"
        /\ UNCHANGED <<next, out, settled, call, stage, dlen>>
    BY <1>6 DEF ProcPmt, Section, history, sent
  <2> QED BY <2>1, DeliveredQueue
<1>7. CASE ProcedPmt
  <2>1. /\ stage \in {"proc", "rest"} /\ step = "after" /\ step' = "loop" /\ at' = at + 1
        /\ UNCHANGED <<sbuf, dbuf, next, out, settled, call, stage, dlen, res>>
    BY <1>7 DEF ProcedPmt, Here, buffers, history, sent
  <2>2. Behind = at /\ Behind' = at BY <2>1 DEF Behind, BuffersFit
  <2> QED BY <2>1, <2>2, QueueSame
<1> QED BY <1>1, <1>2, <1>3, <1>4, <1>5, <1>6, <1>7, DamagedQueue, StripQueue, EndQueue

----------------------------------------------------------------------------
(* The handlers, and the theorem.                                          *)

LEMMA HandlerQueue ==
  ASSUME BuffersFit, CallPlace, QueueInv, Handler \/ HandlerFails
  PROVE  QueueInv'
<1>1. CASE Handler
  <2>1. UNCHANGED <<sbuf, dbuf, next, out, settled, call, stage, step, at, dlen, res>>
    BY <1>1 DEF Handler, buffers, place, history, sent
  <2>2. Behind' = Behind BY <2>1 DEF Behind
  <2> QED BY <2>1, <2>2, QueueSame
<1>2. CASE HandlerFails /\ stage = "pmt"
  <2>1. /\ UNCHANGED <<sbuf, dbuf, next, out, settled>>
        /\ call' = "none" /\ stage' = "pat" /\ res' = "error"
    BY <1>2 DEF HandlerFails, Return, sent
  <2>2. step = "after" /\ res # "torn" BY <1>2 DEF HandlerFails, CallPlace
  <2>3. Behind = 0 /\ Behind' = 0 BY <1>2, <2>1 DEF Behind
  <2> QED BY <2>1, <2>2, <2>3, QueueSame
<1>3. CASE HandlerFails /\ stage # "pmt"
  <2>1. Fail(sbuf, dbuf, "error") /\ UNCHANGED <<next, out>> BY <1>3 DEF HandlerFails, sent
  <2>2. step = "after" /\ res # "torn" /\ stage \in {"proc", "rest"}
    BY <1>3 DEF HandlerFails, CallPlace
  <2>3. Behind = at BY <2>2 DEF Behind
  <2>4. /\ sbuf \in Seq(Row) /\ dbuf \in Seq(Row) /\ Line(sbuf, dbuf, at)
        /\ call = "put" => Undo(sbuf, dbuf, at, dlen)
        /\ Account(sbuf, dbuf, out, next, settled)
    BY <2>2, <2>3 DEF BuffersFit, QueueInv
  <2>5. at \in 1..Len(sbuf)
    <3>1. at >= 1 /\ at \in 0..Len(sbuf) BY <2>2, <2>4 DEF BuffersFit, Line
    <3> QED BY <3>1
  <2> QED BY <2>1, <2>4, <2>5, FailQueue
<1> QED BY <1>1, <1>2, <1>3

LEMMA StepQueue ==
  ASSUME DInv, CallPlace, QueueInv, [DecoderNext]_dvars
  PROVE  CallPlace' /\ QueueInv'
<1>1. BuffersFit /\ IInv /\ KeysFit BY DEF DInv
<1>2. CASE DecoderNext
  <2>1. CallPlace' BY <1>2, StepPlace
  <2>2. QueueInv'
    BY <1>1, <1>2, PutQueue, ClientQueue, SearchQueue, ProcQueue, HandlerQueue DEF DecoderNext
  <2> QED BY <2>1, <2>2
<1>3. CASE UNCHANGED dvars
  <2>1. UNCHANGED <<pc, sbuf, dbuf, next, out, settled, call, stage, step, at, dlen, res>>
    BY <1>3 DEF dvars, vars, buffers, place, history, sent
  <2>2. Behind' = Behind BY <2>1 DEF Behind
  <2>3. QueueInv' BY <2>1, <2>2, QueueSame
  <2> QED BY <2>1, <2>3 DEF CallPlace
<1> QED BY <1>2, <1>3

LEMMA InitQueue == DecoderInit => CallPlace /\ QueueInv
<1> SUFFICES ASSUME DecoderInit PROVE CallPlace /\ QueueInv OBVIOUS
<1>1. CallPlace BY DEF DecoderInit, Init, CallPlace
<1>2. /\ sbuf = <<>> /\ dbuf = <<>> /\ out = 0 /\ next = 1 /\ settled = {}
      /\ call = "none" /\ stage = "pat"
  BY DEF DecoderInit
<1>3. Behind = 0 BY <1>2 DEF Behind
<1>4. Line(<<>>, <<>>, 0) BY EmptyRow DEF Line
<1>5. Account(<<>>, <<>>, 0, 1, {}) BY EmptyRow DEF Account
<1> QED BY <1>1, <1>2, <1>3, <1>4, <1>5, EmptyRow DEF QueueInv

\* Between calls the two buffers are one queue.
LEMMA QueueAccounts == DInv /\ CallPlace /\ QueueInv => Accounted
<1> SUFFICES ASSUME DInv, CallPlace, QueueInv, Between PROVE Accounted
  BY DEF Accounted, PutOutOnce, NothingLost
<1>1. /\ sbuf \in Seq(Row) /\ dbuf \in Seq(Row) /\ Line(sbuf, dbuf, 0)
      /\ Account(sbuf, dbuf, out, next, settled)
  BY DEF Between, DInv, BuffersFit, CallPlace, QueueInv, Behind
<1>2. NothingLost
  <2>1. settled \cup Ids(dbuf) \cup Ids(sbuf) = settled \cup (Ids(dbuf) \cup Ids(sbuf))
    OBVIOUS
  <2> QED BY <1>1, <2>1 DEF Account, NothingLost
<1>3. PutOutOnce
  <2> DEFINE s == dbuf \o sbuf
  <2>1. /\ Len(dbuf) \in Nat /\ Len(sbuf) \in Nat /\ Len(s) = Len(dbuf) + Len(sbuf)
        /\ \A i \in 1..Len(s) : s[i] = IF i <= Len(dbuf) THEN dbuf[i] ELSE sbuf[i - Len(dbuf)]
    BY <1>1, RowsHave, ConcatProperties
  <2> HIDE DEF s
  <2>2. ASSUME NEW i \in 1..Len(s), i > Len(dbuf)
        PROVE  i - Len(dbuf) \in 1..Len(sbuf) /\ s[i] = sbuf[i - Len(dbuf)]
    BY <2>1, <2>2
  <2>3. ASSUME NEW i \in 1..Len(s), i <= Len(dbuf) PROVE i \in 1..Len(dbuf) /\ s[i] = dbuf[i]
    BY <2>1, <2>3
  <2>4. ASSUME NEW i \in 1..Len(s) PROVE s[i].id > out
    <3>1. s[i].id \in Ids(dbuf) \cup Ids(sbuf)
      <4>1. CASE i <= Len(dbuf) BY <2>3, <4>1 DEF Ids
      <4>2. CASE i > Len(dbuf) BY <2>2, <4>2 DEF Ids
      <4> QED BY <2>1, <4>1, <4>2
    <3>2. s[i].id \in (out + 1)..(next - 1) /\ out \in Int /\ next \in Int
      BY <1>1, <3>1 DEF Account
    <3> QED BY <3>2
  <2>5. ASSUME NEW i \in 1..Len(s), NEW j \in 1..Len(s), i < j PROVE s[i].id < s[j].id
    <3>1. CASE j <= Len(dbuf)
      <4>1. i <= Len(dbuf) BY <2>1, <2>5, <3>1
      <4> QED BY <1>1, <2>3, <2>5, <3>1, <4>1 DEF Line, Increasing
    <3>2. CASE i <= Len(dbuf) /\ j > Len(dbuf)
      <4>1. j - Len(dbuf) \in (0 + 1)..Len(sbuf) BY <2>2, <3>2
      <4> QED BY <1>1, <2>2, <2>3, <3>2, <4>1 DEF Line
    <3>3. CASE i > Len(dbuf)
      <4>1. j > Len(dbuf) /\ i - Len(dbuf) < j - Len(dbuf) BY <2>1, <2>5, <3>3
      <4> QED BY <1>1, <2>2, <3>3, <4>1 DEF Line, Increasing
    <3> QED BY <2>1, <3>1, <3>2, <3>3
  <2> QED BY <2>4, <2>5 DEF s, PutOutOnce
<1> QED BY <1>2, <1>3 DEF Accounted

\* Whatever searches, tables, failing packets and calls of the client there
\* were, between two calls every packet of put is in one of the buffers, or has
\* left the decoder for one of the reasons it may have; and the packets come out
\* in the order of put, none of them twice.
THEOREM PacketsAccounted == DecoderSpec => []Accounted
<1>1. DecoderInit => DInv /\ CallPlace /\ QueueInv BY InitDInv, InitQueue
<1>2. DInv /\ CallPlace /\ QueueInv /\ [DecoderNext]_dvars => (DInv /\ CallPlace /\ QueueInv)'
  BY NextDInv, StepQueue
<1> QED BY <1>1, <1>2, QueueAccounts, PTL DEF DecoderSpec

----------------------------------------------------------------------------
(* The types of the rest of the state.                                     *)

NamesFit ==
  /\ unit \in BOOLEAN
  /\ call \in {"none", "put", "flush"}
  /\ stage \in {"pat", "pmt", "ecm", "proc", "rest"}
  /\ step \in {"check", "loop", "after", "last"}
  /\ res \in {"ok", "warn", "error", "no key", "torn"}

EmmFits == emm \in [pid : EmmPids \cup {None}, last : Emms \cup {Unseen, Foreign}]

\* While proc_pat runs, the old programs go one by one and their phases stay.
PhasesFit == pc # "pat" => phase \in [1..Len(program) -> 0..2]

StreamFits == stream \in Streams /\ next <= Len(stream) + 1

FailNames ==
  /\ stage' = "pat" /\ step' = "check" /\ call' = "none"
  /\ res' \in {"error", "no key", "torn"}

LEMMA FailNamed ==
  ASSUME NEW S, NEW D, NEW r \in {"error", "no key"}, Fail(S, D, r)
  PROVE  FailNames
BY DEF Fail, Return, FailNames

LEMMA StepNames == ASSUME CallPlace, NamesFit, DecoderNext PROVE NamesFit'
<1> USE DEF NamesFit
<1>1. CASE Put
  <2>1. unit' \in BOOLEAN /\ UNCHANGED <<stage, step>>
        /\ \/ call' = "put" /\ res' = res
           \/ call' = call /\ res' = "ok"
    BY <1>1 DEF Put, place
  <2> QED BY <2>1
<1>2. CASE Flush
  <2>1. /\ unit' \in BOOLEAN
        /\ \/ call' = "flush" /\ stage' = "proc" /\ step' = "loop" /\ res' = res
           \/ UNCHANGED <<call, stage, step>> /\ res' = "error"
    BY <1>2 DEF Flush, place
  <2> QED BY <2>1
<1>3. CASE Get \/ Withdraw
  BY <1>3 DEF Get, Withdraw, place
<1>4. CASE ResetDecoder
  BY <1>4 DEF ResetDecoder, place
<1>5. CASE Check \/ Searched
  <2>1. UNCHANGED unit BY <1>5 DEF Check, Searched, buffers
  <2>2. \/ Proceed /\ stage \in {"pat", "pmt", "ecm"}
        \/ step' = "loop" /\ UNCHANGED <<call, stage, res>>
        \/ Return("warn") \/ Return("error")
    <3>1. CASE Searched BY <3>1 DEF Searched
    <3>2. CASE Check
      <4>1. stage \in {"pat", "pmt", "ecm"} BY <3>2 DEF Check, Here, CallPlace
      <4> QED BY <3>2, <4>1 DEF Check
    <3> QED BY <1>5, <3>1, <3>2
  <2>3. CASE Proceed /\ stage \in {"pat", "pmt", "ecm"}
    BY <2>1, <2>3 DEF Proceed
  <2> QED BY <2>1, <2>2, <2>3 DEF Return
<1>6. CASE SearchEnd \/ SearchSkip \/ SearchPat \/ SearchPmt \/ SearchedPmt
  <2>1. UNCHANGED <<unit, call, stage, res>> /\ step' \in {step, "loop", "after", "last"}
    BY <1>6 DEF SearchEnd, SearchSkip, SearchPat, SearchPmt, SearchedPmt, Leave, buffers
  <2> QED BY <2>1
<1>7. CASE SearchEcm
  <2>1. /\ UNCHANGED unit
        /\ \/ UNCHANGED <<call, stage, res>> /\ step' \in {step, "last"}
           \/ Return("error")
    BY <1>7 DEF SearchEcm, Leave
  <2> QED BY <2>1 DEF Return
<1>8. CASE ProcDamaged \/ ProcStrip \/ ProcOther \/ ProcedPmt \/ ProcCat \/ ProcPmt \/ ProcPat
  <2>1. UNCHANGED <<unit, call, stage, res>> /\ step' \in {step, "loop", "after", "last"}
    BY <1>8 DEF ProcDamaged, ProcStrip, ProcOther, ProcedPmt, ProcCat, ProcPmt, ProcPat, buffers
  <2> QED BY <2>1
<1>9. CASE ProcNoKey \/ ProcRefused \/ ProcEcm \/ ProcEmm
  <2>1. /\ UNCHANGED unit
        /\ \/ FailNames
           \/ UNCHANGED <<call, stage, step, res>>
    BY <1>9, FailNamed DEF ProcNoKey, ProcRefused, ProcEcm, ProcEmm, FailDelivered
  <2> QED BY <2>1 DEF FailNames
<1>10. CASE ProcEnd
  <2>1. /\ UNCHANGED unit
        /\ \/ stage' = "rest" /\ step' = "loop" /\ UNCHANGED <<call, res>>
           \/ Return("ok")
    BY <1>10 DEF ProcEnd
  <2> QED BY <2>1 DEF Return
<1>11. CASE Handler
  BY <1>11 DEF Handler, buffers, place
<1>12. CASE HandlerFails
  <2>1. UNCHANGED unit /\ (Return("error") \/ FailNames)
    BY <1>12, FailNamed DEF HandlerFails
  <2> QED BY <2>1 DEF Return, FailNames
<1> QED BY <1>1, <1>2, <1>3, <1>4, <1>5, <1>6, <1>7, <1>8, <1>9, <1>10, <1>11, <1>12
        DEF DecoderNext

LEMMA StepStream == ASSUME BuffersFit, StreamFits, DecoderNext PROVE StreamFits'
<1> USE DEF StreamFits
<1>1. CASE Put
  <2>1. PICK n \in 1..MaxPut : next + n - 1 <= Len(stream) /\ next' = next + n
    BY <1>1 DEF Put
  <2>2. stream \in Seq(SUBSET DOMAIN Packets) BY DecoderAssumption
  <2>3. Len(stream) \in Nat /\ next \in Int BY <2>2, LenProperties DEF BuffersFit
  <2>4. next' <= Len(stream) + 1 BY <2>1, <2>3
  <2> QED BY <1>1, <2>4 DEF Put
<1>2. CASE UNCHANGED sent BY <1>2 DEF sent
<1>3. CASE Flush \/ Get \/ Withdraw \/ ResetDecoder \/ Check \/ Searched
  BY <1>2, <1>3 DEF Flush, Get, Withdraw, ResetDecoder, Check, Searched
<1>4. CASE SearchEnd \/ SearchSkip \/ SearchPat \/ SearchPmt \/ SearchedPmt \/ SearchEcm
  BY <1>2, <1>4 DEF SearchEnd, SearchSkip, SearchPat, SearchPmt, SearchedPmt, SearchEcm, history
<1>5. CASE ProcDamaged \/ ProcStrip \/ ProcNoKey \/ ProcRefused \/ ProcOther
  BY <1>2, <1>5 DEF ProcDamaged, ProcStrip, ProcNoKey, ProcRefused, ProcOther, history
<1>6. CASE ProcEcm \/ ProcEmm \/ ProcCat \/ ProcPmt \/ ProcedPmt \/ ProcPat \/ ProcEnd
  BY <1>2, <1>6 DEF ProcEcm, ProcEmm, ProcCat, ProcPmt, ProcedPmt, ProcPat, ProcEnd, history
<1>7. CASE Handler \/ HandlerFails
  BY <1>2, <1>7 DEF Handler, HandlerFails, history
<1> QED BY <1>1, <1>3, <1>4, <1>5, <1>6, <1>7 DEF DecoderNext

LEMMA EmmParser ==
  ASSUME RolesMapped, NEW p, Parser(p) = "EMM"
  PROVE  p \in EmmPids
<1>1. Entry(p).type = "EMM" BY DEF Parser
<1>2. p \in Pid /\ map[p].type = "EMM" BY <1>1 DEF Entry, Unmapped
<1> QED BY <1>2 DEF RolesMapped

LEMMA StepEmm == ASSUME DInv, EmmFits, DecoderNext PROVE EmmFits'
<1> USE DEF EmmFits
<1>1. CASE UNCHANGED emm BY <1>1
<1>2. CASE Put \/ Flush \/ Get \/ Withdraw \/ Check \/ Searched
  BY <1>1, <1>2 DEF Put, Flush, Get, Withdraw, Check, Searched, served
<1>3. CASE SearchEnd \/ SearchSkip \/ SearchPat \/ SearchPmt \/ SearchedPmt \/ SearchEcm
  BY <1>1, <1>3 DEF SearchEnd, SearchSkip, SearchPat, SearchPmt, SearchedPmt, SearchEcm, served
<1>4. CASE ProcDamaged \/ ProcStrip \/ ProcNoKey \/ ProcRefused \/ ProcEcm
  BY <1>1, <1>4 DEF ProcDamaged, ProcStrip, ProcNoKey, ProcRefused, ProcEcm, served
<1>5. CASE ProcCat \/ ProcPmt \/ ProcedPmt \/ ProcPat \/ ProcEnd \/ Handler \/ HandlerFails
  BY <1>1, <1>5 DEF ProcCat, ProcPmt, ProcedPmt, ProcPat, ProcEnd, Handler, HandlerFails, served
<1>6. CASE ResetDecoder
  BY <1>6 DEF ResetDecoder, NoEmm
<1>7. CASE ProcOther
  <2> DEFINE k == Pk(sbuf[at])
  <2>1. emm' = IF Parser(k.pid) = "EMM" THEN [emm EXCEPT !.pid = k.pid] ELSE emm
    BY <1>7 DEF ProcOther
  <2>2. Parser(k.pid) = "EMM" => k.pid \in EmmPids BY EmmParser DEF DInv
  <2> HIDE DEF k
  <2> QED BY <2>1, <2>2
<1>8. CASE ProcEmm
  <2> DEFINE k == Pk(sbuf[at])
  <2>1. /\ emm' = [pid |-> k.pid, last |-> k.val] /\ Working /\ More
        /\ Parser(k.pid) = "EMM" /\ k.kind = "section"
    BY <1>8 DEF ProcEmm, Section, Parsed, New
  <2>2. sbuf[at].pk \in DOMAIN Packets /\ k = Packets[sbuf[at].pk]
    BY <2>1, WorkAtHand DEF DInv, Pk
  <2>3. k.pid \in EmmPids BY <2>1, EmmParser DEF DInv
  <2> HIDE DEF k
  <2>4. k.val \in Emms \cup {Foreign} BY <2>1, <2>2, <2>3, Delivered
  <2> QED BY <2>1, <2>3, <2>4
<1> QED BY <1>2, <1>3, <1>4, <1>5, <1>6, <1>7, <1>8 DEF DecoderNext

\* proc_pmt writes programs, and adds or removes none.
LEMMA LengthKept ==
  ASSUME IInv, IInv', DOMAIN program' = DOMAIN program
  PROVE  Len(program') = Len(program)
<1>1. program \in Seq(Program) /\ program' \in Seq(Program) BY DEF IInv, Control
<1>2. /\ Len(program) \in Nat /\ DOMAIN program = 1..Len(program)
      /\ Len(program') \in Nat /\ DOMAIN program' = 1..Len(program')
  BY <1>1, LenProperties
<1>3. PICK a, b : a = Len(program) /\ b = Len(program') OBVIOUS
<1>4. a \in Nat /\ b \in Nat /\ 1..a = 1..b BY <1>2, <1>3
<1>5. a = b
  <2>1. a < b => b \in 1..b /\ b \notin 1..a BY <1>4
  <2>2. b < a => a \in 1..a /\ a \notin 1..b BY <1>4
  <2> QED BY <1>4, <2>1, <2>2
<1> QED BY <1>3, <1>5

\* As many programs as before, as far as the fields of the programs go
Stays == DOMAIN program' = DOMAIN program

LEMMA HandlersStay ==
  ASSUME IInv
  PROVE  /\ PatForeign \/ CatForeign \/ DropStream \/ PmtEnd => Stays
         /\ PmtLists \/ PmtStream \/ PmtBind => Stays
         /\ \A c : Cat(c) \/ PatBegin(c) => Stays
         /\ \A i : PmtForeign(i) => Stays
         /\ \A i, t : PmtBegin(i, t) => Stays
<1> USE DEF Stays
<1>1. PatForeign \/ CatForeign \/ DropStream \/ PmtEnd => Stays
  BY DEF PatForeign, CatForeign, DropStream, PmtEnd
<1>2. CASE PmtLists BY <1>2 DEF PmtLists
<1>3. CASE PmtStream
  <2>1. program' = program \/ \E f : program' = [program EXCEPT ![cur].streams = f]
    BY <1>3 DEF PmtStream
  <2> QED BY <2>1
<1>4. CASE PmtBind
  <2>1. DOMAIN program = 1..Len(program) BY LenProperties DEF IInv, Control
  <2> QED BY <1>4, <2>1 DEF PmtBind
<1>5. \A c : Cat(c) \/ PatBegin(c) => Stays BY DEF Cat, PatBegin
<1>6. \A i : PmtForeign(i) => Stays BY DEF PmtForeign
<1>7. \A i, t : PmtBegin(i, t) => Stays BY DEF PmtBegin
<1> QED BY <1>1, <1>2, <1>3, <1>4, <1>5, <1>6, <1>7

\* Only proc_pat and reset make another list of programs.
LEMMA ProgramsStay ==
  ASSUME DInv, DecoderNext, ~ResetDecoder, pc # "pat" \/ ~Handler
  PROVE  Len(program') = Len(program)
<1>1. IInv /\ IInv'
  <2>1. [Next]_vars BY StepRuns
  <2> QED BY <2>1, NextIInv DEF DInv
<1>2. Stays
  <2>1. CASE UNCHANGED vars BY <2>1 DEF vars, Stays
  <2>2. CASE Put \/ Flush \/ Get \/ Withdraw \/ Check \/ Searched
    BY <2>1, <2>2 DEF Put, Flush, Get, Withdraw, Check, Searched
  <2>3. CASE SearchEnd \/ SearchSkip \/ SearchedPmt \/ SearchEcm
    BY <2>1, <2>3 DEF SearchEnd, SearchSkip, SearchedPmt, SearchEcm
  <2>4. CASE ProcDamaged \/ ProcStrip \/ ProcNoKey \/ ProcRefused \/ ProcOther
    BY <2>1, <2>4 DEF ProcDamaged, ProcStrip, ProcNoKey, ProcRefused, ProcOther
  <2>5. CASE ProcEcm \/ ProcEmm \/ ProcedPmt \/ ProcEnd
    BY <2>1, <2>5 DEF ProcEcm, ProcEmm, ProcedPmt, ProcEnd
  <2>6. CASE SearchPat \/ ProcPat
    <3>1. PatForeign \/ \E p : PatBegin(p) BY <2>6 DEF SearchPat, ProcPat
    <3> QED BY <1>1, <3>1, HandlersStay
  <2>7. CASE SearchPmt \/ ProcPmt
    <3>1. UNCHANGED vars \/ (\E i : PmtForeign(i)) \/ \E i, t : PmtBegin(i, t)
      BY <2>7 DEF SearchPmt, ProcPmt
    <3> QED BY <1>1, <2>1, <3>1, HandlersStay
  <2>8. CASE ProcCat
    <3>1. CatForeign \/ \E c : Cat(c) BY <2>8 DEF ProcCat
    <3> QED BY <1>1, <3>1, HandlersStay
  <2>9. CASE Handler /\ pc # "pat"
    <3>1. DropStream \/ PmtLists \/ PmtStream \/ PmtBind \/ PmtEnd
      BY <2>9 DEF Handler, PatRelease, PatForget, PatEnd
    <3> QED BY <1>1, <3>1, HandlersStay
  <2>10. CASE HandlerFails
    BY <1>1, <2>10, HandlersStay DEF HandlerFails
  <2> QED BY <2>2, <2>3, <2>4, <2>5, <2>6, <2>7, <2>8, <2>9, <2>10 DEF DecoderNext
<1> QED BY <1>1, <1>2, LengthKept DEF Stays

\* A phase is written, or they stay.
LEMMA PhaseWritten ==
  ASSUME DecoderNext, ~ResetDecoder, pc # "pat" \/ ~Handler
  PROVE  phase' = phase \/ \E i, n : n \in 0..2 /\ phase' = [phase EXCEPT ![i] = n]
<1>1. CASE Put \/ Flush \/ Get \/ Withdraw \/ Check \/ Searched
  BY <1>1 DEF Put, Flush, Get, Withdraw, Check, Searched, served
<1>2. CASE SearchEnd \/ SearchSkip \/ SearchPat \/ SearchEcm
  BY <1>2 DEF SearchEnd, SearchSkip, SearchPat, SearchEcm, served
<1>3. CASE ProcDamaged \/ ProcStrip \/ ProcNoKey \/ ProcRefused \/ ProcOther
  BY <1>3 DEF ProcDamaged, ProcStrip, ProcNoKey, ProcRefused, ProcOther, served
<1>4. CASE ProcEcm \/ ProcEmm \/ ProcCat \/ ProcPmt \/ ProcedPmt \/ ProcPat \/ ProcEnd
  BY <1>4 DEF ProcEcm, ProcEmm, ProcCat, ProcPmt, ProcedPmt, ProcPat, ProcEnd, served
<1>5. CASE SearchPmt
  <2>1. phase' = phase \/ \E i : phase' = [phase EXCEPT ![i] = 2] BY <1>5 DEF SearchPmt
  <2>2. 2 \in 0..2 OBVIOUS
  <2> QED BY <2>1, <2>2
<1>6. CASE SearchedPmt
  <2>1. \E i : phase' = [phase EXCEPT ![i] = 1] BY <1>6 DEF SearchedPmt
  <2>2. 1 \in 0..2 OBVIOUS
  <2> QED BY <2>1, <2>2
<1>7. CASE Handler /\ pc # "pat" BY <1>7 DEF Handler
<1>8. CASE HandlerFails BY <1>8 DEF HandlerFails
<1> QED BY <1>1, <1>2, <1>3, <1>4, <1>5, <1>6, <1>7, <1>8 DEF DecoderNext

\* proc_pat ends in its own step.
LEMMA PatStays ==
  ASSUME DecoderNext, pc = "pat", ~Handler
  PROVE  pc' = "pat"
<1>1. CASE Put \/ Flush \/ Get \/ Withdraw
  BY <1>1 DEF Put, Flush, Get, Withdraw, vars
<1>2. CASE ResetDecoder \/ HandlerFails
  BY <1>2 DEF ResetDecoder, Reset, HandlerFails
<1>3. CASE Check \/ Searched \/ SearchedPmt \/ ProcedPmt \/ ProcEnd
  BY <1>3 DEF Check, Searched, SearchedPmt, ProcedPmt, ProcEnd, Working, Here
<1>4. CASE SearchEnd \/ SearchSkip \/ SearchPat \/ SearchPmt \/ SearchEcm
  BY <1>4 DEF SearchEnd, SearchSkip, SearchPat, SearchPmt, SearchEcm, Searching, Here
<1>5. CASE ProcDamaged \/ ProcStrip \/ ProcNoKey \/ ProcRefused \/ ProcOther
  BY <1>5 DEF ProcDamaged, ProcStrip, ProcNoKey, ProcRefused, ProcOther, Working, Here
<1>6. CASE ProcEcm \/ ProcEmm \/ ProcCat \/ ProcPmt \/ ProcPat
  BY <1>6 DEF ProcEcm, ProcEmm, ProcCat, ProcPmt, ProcPat, Section, Working, Here
<1> QED BY <1>1, <1>2, <1>3, <1>4, <1>5, <1>6 DEF DecoderNext

LEMMA StepPhases == ASSUME DInv, PhasesFit, DecoderNext PROVE PhasesFit'
<1> SUFFICES ASSUME pc' # "pat" PROVE phase' \in [1..Len(program') -> 0..2]
  BY DEF PhasesFit
<1>1. CASE ResetDecoder
  <2>1. program' = <<>> /\ phase' = <<>> BY <1>1 DEF ResetDecoder, Reset
  <2>2. <<>> \in [1..0 -> 0..2] BY EmptySeq, LenProperties
  <2>3. Len(<<>>) = 0 BY EmptySeq
  <2> QED BY <2>1, <2>2, <2>3
<1>2. CASE Handler /\ pc = "pat"
  <2>1. pc' = "idle"
    BY <1>2 DEF Handler, PatRelease, PatForget, DropStream, PatEnd, PmtLists, PmtStream, PmtBind
  <2>2. phase' = [i \in 1..Len(program') |-> 0] BY <1>2, <2>1 DEF Handler
  <2> QED BY <2>2
<1>3. CASE ~ResetDecoder /\ ~(Handler /\ pc = "pat")
  <2>1. pc # "pat" BY <1>3, PatStays
  <2>2. phase \in [1..Len(program) -> 0..2] BY <2>1 DEF PhasesFit
  <2>3. Len(program') = Len(program) BY <2>1, <1>3, ProgramsStay
  <2>4. phase' = phase \/ \E i, n : n \in 0..2 /\ phase' = [phase EXCEPT ![i] = n]
    BY <2>1, <1>3, PhaseWritten
  <2>5. phase' \in [1..Len(program) -> 0..2] BY <2>2, <2>4
  <2> QED BY <2>3, <2>5
<1> QED BY <1>1, <1>2, <1>3

TypesInv == DInv /\ CallPlace /\ QueueInv /\ NamesFit /\ EmmFits /\ PhasesFit /\ StreamFits

LEMMA InitTypes == DecoderInit => TypesInv
<1> SUFFICES ASSUME DecoderInit PROVE TypesInv OBVIOUS
<1>1. NamesFit BY DEF NamesFit, DecoderInit
<1>2. EmmFits BY DEF EmmFits, NoEmm, DecoderInit
<1>3. PhasesFit
  <2>1. program = <<>> /\ phase = <<>> BY DEF DecoderInit, Init
  <2>2. <<>> \in [1..0 -> 0..2] /\ Len(<<>>) = 0 BY EmptySeq, LenProperties
  <2> QED BY <2>1, <2>2 DEF PhasesFit
<1>4. StreamFits
  <2>1. stream \in Seq(SUBSET DOMAIN Packets) BY DecoderAssumption DEF DecoderInit
  <2>2. Len(stream) \in Nat BY <2>1, LenProperties
  <2> QED BY <2>2 DEF StreamFits, DecoderInit
<1> QED BY <1>1, <1>2, <1>3, <1>4, InitDInv, InitQueue DEF TypesInv

LEMMA NextTypes == TypesInv /\ [DecoderNext]_dvars => TypesInv'
<1> SUFFICES ASSUME TypesInv, [DecoderNext]_dvars PROVE TypesInv' OBVIOUS
<1>1. DInv' /\ CallPlace' /\ QueueInv' BY NextDInv, StepQueue DEF TypesInv
<1>2. CASE DecoderNext
  BY <1>1, <1>2, StepNames, StepEmm, StepPhases, StepStream DEF TypesInv, DInv
<1>3. CASE UNCHANGED dvars
  <2>1. NamesFit' BY <1>3 DEF TypesInv, NamesFit, dvars, buffers, place
  <2>2. EmmFits' BY <1>3 DEF TypesInv, EmmFits, dvars, served
  <2>3. PhasesFit' BY <1>3 DEF TypesInv, PhasesFit, dvars, vars, served
  <2>4. StreamFits' BY <1>3 DEF TypesInv, StreamFits, dvars, history, sent
  <2> QED BY <1>1, <2>1, <2>2, <2>3, <2>4 DEF TypesInv
<1> QED BY <1>2, <1>3

\* Packets, keys and the place of the call have their types, whatever
\* the stream; a phase exists for every program when no proc_pat runs.
THEOREM DecoderTyped == DecoderSpec => []DecoderTypeOK
<1>1. TypesInv => DecoderTypeOK
  <2> SUFFICES ASSUME TypesInv PROVE DecoderTypeOK OBVIOUS
  <2>1. ASSUME NEW buf \in {sbuf, dbuf}, NEW i \in 1..Len(buf)
        PROVE  /\ buf[i].id \in 1..Len(stream) /\ buf[i].pk \in DOMAIN Packets
               /\ buf[i].by \in Ecms \cup {None}
    <3>1. sbuf \in Seq(Row) /\ dbuf \in Seq(Row) BY DEF TypesInv, DInv, BuffersFit, QueueInv
    <3>2. buf[i] \in Row BY <3>1, ElementOfSeq
    <3>3. buf[i].id \in Ids(dbuf) \cup Ids(sbuf) BY DEF Ids
    <3>4. buf[i].id \in (out + 1)..(next - 1) /\ out \in 0..(next - 1) /\ next \in Int
      BY <3>3 DEF TypesInv, QueueInv, Account
    <3>5. stream \in Seq(SUBSET DOMAIN Packets) BY DecoderAssumption DEF TypesInv, StreamFits
    <3>6. Len(stream) \in Nat BY <3>5, LenProperties
    <3>7. next - 1 <= Len(stream) BY <3>4, <3>6 DEF TypesInv, StreamFits
    <3>8. buf[i].id \in 1..Len(stream) BY <3>4, <3>6, <3>7
    <3> QED BY <3>2, <3>8 DEF Row
  <2>2. off \in Nat /\ unit \in BOOLEAN BY DEF TypesInv, DInv, BuffersFit, NamesFit
  <2>3. pc # "pat" => phase \in [1..Len(program) -> 0..2] BY DEF TypesInv, PhasesFit
  <2>4. keys \in [Dec -> [m2 : Ecms \cup {None, Cleared}, locked : BOOLEAN, phase : 0..2,
                          last : Ecms \cup {Unseen, Foreign}]]
    <3>1. {0, 1, 2} = 0..2 OBVIOUS
    <3>2. keys \in [Dec -> KeyRow] BY DEF TypesInv, DInv, KeysFit
    <3> QED BY <3>1, <3>2 DEF KeyRow
  <2>5. /\ emm.pid \in EmmPids \cup {None} /\ emm.last \in Emms \cup {Unseen, Foreign}
        /\ call \in {"none", "put", "flush"}
        /\ stage \in {"pat", "pmt", "ecm", "proc", "rest"}
        /\ step \in {"check", "loop", "after", "last"}
        /\ res \in {"ok", "warn", "error", "no key", "torn"}
    BY DEF TypesInv, EmmFits, NamesFit
  <2> QED BY <2>1, <2>2, <2>3, <2>4, <2>5 DEF DecoderTypeOK
<1> QED BY <1>1, InitTypes, NextTypes, PTL DEF DecoderSpec

----------------------------------------------------------------------------
(* How far the searches have looked.  W are the packets that are awaited.  *)

Awaiting == {x \in DOMAIN Packets : Awaited(Packets[x])}

OnPid(p) == {x \in DOMAIN Packets : Packets[x].pid = p}

\* The section of packet i is the latest of its PID among n packets.
Latest(S, i, n) ==
  \A j \in (i + 1)..n :
    Packets[S[j].pk].pid = Packets[S[i].pk].pid => Packets[S[j].pk].kind # "section"

Covers(S, n, W) == n \in 0..Len(S) /\ \A i \in 1..n : Latest(S, i, n) => S[i].pk \notin W

\* All but packet n itself
CoversRest(S, n, W) ==
  n \in 1..Len(S) /\ \A i \in 1..(n - 1) : Latest(S, i, n) => S[i].pk \notin W

LEMMA CoversOn ==
  ASSUME NEW S \in Seq(Row), NEW n \in Int, n \in 1..Len(S), NEW W, Covers(S, n - 1, W)
  PROVE  CoversRest(S, n, W)
<1>1. \A i \in 1..(n - 1) : Latest(S, i, n) => Latest(S, i, n - 1)
  <2>1. ASSUME NEW i \in 1..(n - 1), NEW j \in (i + 1)..(n - 1) PROVE j \in (i + 1)..n OBVIOUS
  <2> QED BY <2>1 DEF Latest
<1> QED BY <1>1 DEF Covers, CoversRest

\* A packet that is not awaited is passed.
LEMMA CoversNext ==
  ASSUME NEW S \in Seq(Row), NEW n \in Int, NEW W, CoversRest(S, n, W), S[n].pk \notin W
  PROVE  Covers(S, n, W)
<1>1. n \in 1..Len(S) /\ Len(S) \in Nat BY LenProperties DEF CoversRest
<1>2. n \in 0..Len(S) BY <1>1
<1>3. \A i \in 1..n : i = n \/ i \in 1..(n - 1) BY <1>1
<1> QED BY <1>2, <1>3 DEF Covers, CoversRest

\* A section that its parser takes changes what is awaited on its PID only.
LEMMA CoversTaken ==
  ASSUME NEW S \in Seq(Row), NEW n \in Int, NEW W, CoversRest(S, n, W),
         Packets[S[n].pk].kind = "section",
         NEW V, V \subseteq W \cup OnPid(Packets[S[n].pk].pid)
  PROVE  CoversRest(S, n, V)
<1>1. n \in 1..Len(S) /\ Len(S) \in Nat BY LenProperties DEF CoversRest
<1>2. ASSUME NEW i \in 1..(n - 1), Latest(S, i, n) PROVE S[i].pk \notin V
  <2>1. n \in (i + 1)..n BY <1>1
  <2>2. Packets[S[n].pk].pid # Packets[S[i].pk].pid BY <1>2, <2>1 DEF Latest
  <2>3. S[i].pk \notin W BY <1>2 DEF CoversRest
  <2> QED BY <2>2, <2>3 DEF OnPid
<1> QED BY <1>1, <1>2 DEF CoversRest

\* Packets behind the first n, and fewer that are awaited, change nothing.
LEMMA CoversStay ==
  ASSUME NEW S \in Seq(Row), NEW T \in Seq(Row), NEW n,
         NEW W, NEW V, V \subseteq W, Covers(S, n, W), Len(S) <= Len(T),
         \A i \in 1..n : T[i].pk = S[i].pk
  PROVE  Covers(T, n, V)
<1>1. n \in 0..Len(S) /\ Len(S) \in Nat /\ Len(T) \in Nat BY LenProperties DEF Covers
<1>2. n \in 0..Len(T) BY <1>1
<1>3. ASSUME NEW i \in 1..n, Latest(T, i, n) PROVE T[i].pk \notin V
  <2>1. \A j \in (i + 1)..n : j \in 1..n BY <1>1
  <2>2. Latest(S, i, n) BY <1>3, <2>1 DEF Latest
  <2> QED BY <2>2 DEF Covers
<1> QED BY <1>2, <1>3 DEF Covers

LEMMA CoversNone == ASSUME NEW S \in Seq(Row), NEW W PROVE Covers(S, 0, W)
<1>1. Len(S) \in Nat BY LenProperties
<1> QED BY <1>1 DEF Covers

LEMMA CoveredIs ==
  ASSUME BuffersFit, NEW n, Covers(sbuf, n, Awaiting)
  PROVE  Covered(n)
<1>1. sbuf \in Seq(Row) /\ Len(sbuf) \in Nat /\ n \in 0..Len(sbuf)
  BY LenProperties DEF BuffersFit, Covers
<1>2. n <= Len(sbuf) BY <1>1
<1>3. ASSUME NEW i \in 1..n, LatestOf(i, n) PROVE ~Awaited(Pk(sbuf[i]))
  <2>1. Latest(sbuf, i, n) BY <1>3 DEF LatestOf, Latest, Pk
  <2>2. sbuf[i].pk \notin Awaiting BY <2>1 DEF Covers
  <2>3. i \in 1..Len(sbuf) BY <1>1
  <2>4. sbuf[i] \in Row BY <1>1, <2>3, ElementOfSeq
  <2>5. sbuf[i].pk \in DOMAIN Packets BY <2>4 DEF Row
  <2> QED BY <2>2, <2>5 DEF Awaiting, Pk
<1> QED BY <1>2, <1>3 DEF Covered

----------------------------------------------------------------------------
(* What is awaited.                                                        *)

\* The sections of PMTs that no program has yet, and of ECMs no decryptor has
PmtsAwaited ==
  {x \in DOMAIN Packets : \E i \in 1..Len(program) :
     phase[i] = 0 /\ Packets[x].pid = program[i].pid /\ New(Packets[x], program[i].pmt)}

EcmAwaited(x) ==
  /\ Entry(Packets[x].pid).type = "ECM"
  /\ keys[Entry(Packets[x].pid).target].phase = 0
  /\ New(Packets[x], keys[Entry(Packets[x].pid).target].last)

LEMMA AwaitingPat ==
  ASSUME program = <<>>
  PROVE  Awaiting = {x \in OnPid(PatPid) : New(Packets[x], pat)}
BY DEF Awaiting, Awaited, OnPid

LEMMA PhaseLength ==
  ASSUME IInv, PhasesFit, pc # "pat"
  PROVE  Len(phase) = Len(program) /\ Len(program) \in Nat
<1>1. Len(program) \in Nat BY LenProperties DEF IInv, Control
<1>2. phase \in [1..Len(program) -> 0..2] BY DEF PhasesFit
<1> QED BY <1>1, <1>2

\* While PMTs are awaited there are programs.
LEMMA AwaitingPmt ==
  ASSUME IInv, PhasesFit, pc # "pat", ~PmtComplete(phase)
  PROVE  program # <<>> /\ Awaiting = PmtsAwaited
<1>1. Len(phase) = Len(program) BY PhaseLength
<1>2. program # <<>>
  <2> SUFFICES ASSUME program = <<>> PROVE PmtComplete(phase) OBVIOUS
  <2>1. Len(phase) = 0 BY <1>1, EmptySeq
  <2>2. {phase[i] : i \in 1..Len(phase)} = {} BY <2>1
  <2> QED BY <2>2 DEF PmtComplete, AllServed
<1>3. Awaiting = PmtsAwaited
  BY <1>2 DEF Awaiting, Awaited, PmtsAwaited
<1> QED BY <1>2, <1>3

\* The same of the state that a step leads to
LEMMA AwaitingPmtNext ==
  (IInv /\ PhasesFit /\ pc # "pat" /\ ~PmtComplete(phase)
     => Len(phase) = Len(program) /\ Awaiting = PmtsAwaited)'
<1>1. IInv /\ PhasesFit /\ pc # "pat" /\ ~PmtComplete(phase)
        => Len(phase) = Len(program) /\ Awaiting = PmtsAwaited
  BY PhaseLength, AwaitingPmt
<1> QED BY <1>1, PTL

LEMMA PhaseLengthNext ==
  (IInv /\ PhasesFit /\ pc # "pat" => Len(phase) = Len(program))'
<1>1. IInv /\ PhasesFit /\ pc # "pat" => Len(phase) = Len(program)
  BY PhaseLength
<1> QED BY <1>1, PTL

LEMMA AwaitingEcm ==
  ASSUME program # <<>>, PmtComplete(phase), ~EcmComplete(keys)
  PROVE  Awaiting = {x \in DOMAIN Packets : EcmAwaited(x)}
BY DEF Awaiting, Awaited, EcmAwaited

LEMMA AwaitingSame ==
  ASSUME UNCHANGED <<program, pat, phase, keys, live, map>>
  PROVE  Awaiting' = Awaiting
BY DEF Awaiting, Awaited, PmtComplete, EcmComplete, AllServed, Entry, New

----------------------------------------------------------------------------
Searches == {"pat", "pmt", "ecm"}

\* The search under way has not found all it looks for.
SearchOn ==
  /\ stage = "pat" => program = <<>>
  /\ stage = "pmt" => ~PmtComplete(phase)
  /\ stage = "ecm" => PmtComplete(phase) /\ ~EcmComplete(keys)

Found == program # <<>> /\ PmtComplete(phase) /\ EcmComplete(keys)

\* The last packet looked at is the PAT.
CutAtPat ==
  /\ off \in 1..Len(sbuf) /\ (off = 1 \/ stage = "pat")
  /\ Pk(sbuf[off]).pid = PatPid /\ Pk(sbuf[off]).kind = "section" /\ Pk(sbuf[off]).val = pat

\* proc_pmt has the section at hand.
Took ==
  /\ CoversRest(sbuf, at, Awaiting) /\ Pk(sbuf[at]).kind = "section"
  /\ \E i \in 1..Len(program) :
       program[i].pid = Pk(sbuf[at]).pid /\ program[i].pmt = Pk(sbuf[at]).val

AtCheck ==
  /\ Covers(sbuf, off, Awaiting)
  /\ off > 0 => ~Found /\ (stage # "pat" => program # <<>>)
  /\ stage = "ecm" => PmtComplete(phase)

CoverInv ==
  /\ call # "flush" /\ stage # "rest"
  /\ pc # "idle" => step \in {"after", "last"}
  /\ step = "after" => pc # "pat"
  /\ stage = "proc" => off = 0
  /\ step = "check" => AtCheck
  /\ step = "loop" /\ stage \in Searches => SearchOn /\ Covers(sbuf, at - 1, Awaiting)
  /\ step = "after" /\ stage = "pmt" => ~PmtComplete(phase) /\ Took
  /\ step = "last" /\ stage \in Searches =>
       CutAtPat \/ (pc = "idle" /\ (Covers(sbuf, off, Awaiting) \/ Complete))

LEMMA InitCover == DecoderInit => CoverInv
<1> SUFFICES ASSUME DecoderInit PROVE CoverInv OBVIOUS
<1>1. sbuf \in Seq(Row) BY EmptySeq DEF DecoderInit
<1>2. Covers(sbuf, 0, Awaiting) BY <1>1, CoversNone
<1>3. off = 0 /\ call = "none" /\ stage = "pat" /\ step = "check" /\ pc = "idle"
  BY DEF DecoderInit, Init
<1>4. AtCheck BY <1>2, <1>3 DEF AtCheck
<1> QED BY <1>3, <1>4 DEF CoverInv

\* What is known of a state
LEMMA Typed ==
  ASSUME TypesInv
  PROVE  /\ IInv /\ RolesMapped /\ BuffersFit /\ KeysFit /\ CallPlace /\ NamesFit /\ PhasesFit
         /\ sbuf \in Seq(Row) /\ Len(sbuf) \in Nat /\ off \in Nat /\ at \in Nat
<1>1. IInv /\ RolesMapped /\ BuffersFit /\ KeysFit /\ CallPlace /\ NamesFit /\ PhasesFit
  BY DEF TypesInv, DInv
<1>2. sbuf \in Seq(Row) /\ off \in Nat /\ at \in Nat BY <1>1 DEF BuffersFit
<1> QED BY <1>1, <1>2, LenProperties

LEMMA PutCovers == ASSUME TypesInv, TypesInv', CoverInv, Put PROVE CoverInv'
<1>0. PICK n \in 1..MaxPut :
        \E in \in [1..n -> DOMAIN Packets] :
          sbuf' = sbuf \o [i \in 1..n |-> [id |-> next + i - 1, pk |-> in[i], by |-> None]]
  BY DEF Put
<1>1. PICK in \in [1..n -> DOMAIN Packets] :
        sbuf' = sbuf \o [i \in 1..n |-> [id |-> next + i - 1, pk |-> in[i], by |-> None]]
  BY <1>0
<1> DEFINE new == [i \in 1..n |-> [id |-> next + i - 1, pk |-> in[i], by |-> None]]
<1>2. /\ sbuf \in Seq(Row) /\ sbuf' \in Seq(Row) /\ Len(sbuf) \in Nat /\ next \in Int
      /\ CallPlace
  BY Typed DEF TypesInv, DInv, BuffersFit
<1>3. new \in Seq(Row) /\ Len(new) \in Nat
  <2>1. \A i \in 1..n : [id |-> next + i - 1, pk |-> in[i], by |-> None] \in Row
    BY <1>2 DEF Row
  <2>2. new \in [1..n -> Row] BY <2>1
  <2>3. new \in Seq(Row) BY <2>2, SeqDef
  <2> HIDE DEF new
  <2> QED BY <2>3, LenProperties
<1>4. sbuf' = sbuf \o new BY <1>1
<1> HIDE DEF new
<1>5. Len(sbuf) <= Len(sbuf') /\ \A i \in 1..Len(sbuf) : sbuf'[i] = sbuf[i]
  BY <1>2, <1>3, <1>4, ConcatProperties
<1>6. /\ call = "none" /\ stage = "pat" /\ step = "check" /\ AtCheck /\ pc = "idle"
  BY <1>2 DEF Put, Idle, CallPlace, CoverInv
<1>7. /\ stage' = stage /\ step' = step /\ off' = off /\ pc' = pc /\ call' \in {"none", "put"}
      /\ UNCHANGED <<program, pat, phase, keys, live, map>>
  BY <1>6 DEF Put, place, vars, tables, served
<1>8. Awaiting' = Awaiting BY <1>7, AwaitingSame
<1>9. Covers(sbuf', off, Awaiting)
  <2>1. Covers(sbuf, off, Awaiting) BY <1>6 DEF AtCheck
  <2>2. \A i \in 1..off : i \in 1..Len(sbuf) BY <1>2, <2>1 DEF Covers
  <2> QED BY <1>2, <1>5, <2>1, <2>2, CoversStay
<1>10. AtCheck'
  <2>1. Found' = Found BY <1>7 DEF Found, PmtComplete, EcmComplete, AllServed
  <2> QED BY <1>6, <1>7, <1>8, <1>9, <2>1 DEF AtCheck
<1> QED BY <1>6, <1>7, <1>10 DEF CoverInv

LEMMA ClientCovers ==
  ASSUME TypesInv, TypesInv', CoverInv, Get \/ ResetDecoder
  PROVE  CoverInv'
<1>1. call = "none" /\ stage = "pat" /\ step = "check" /\ AtCheck /\ pc = "idle"
  BY Typed DEF Get, ResetDecoder, Idle, CallPlace, CoverInv
<1>2. CASE Get
  <2>1. UNCHANGED <<program, pat, phase, keys, live, map, sbuf, off, call, stage, step, pc>>
    BY <1>2 DEF Get, place, vars, tables, served
  <2>2. Awaiting' = Awaiting BY <2>1, AwaitingSame
  <2>3. Found' = Found BY <2>1 DEF Found, PmtComplete, EcmComplete, AllServed
  <2>4. AtCheck' BY <1>1, <2>1, <2>2, <2>3 DEF AtCheck
  <2> QED BY <1>1, <2>1, <2>4 DEF CoverInv
<1>3. CASE ResetDecoder
  <2>1. UNCHANGED <<call, stage, step, pc>> /\ off' = 0
    BY <1>3 DEF ResetDecoder, Reset, place, locals
  <2>2. sbuf' \in Seq(Row) BY Typed DEF TypesInv, DInv, BuffersFit
  <2>3. AtCheck' BY <1>1, <2>1, <2>2, CoversNone DEF AtCheck
  <2> QED BY <1>1, <2>1, <2>3 DEF CoverInv
<1> QED BY <1>2, <1>3

LEMMA CheckCovers == ASSUME TypesInv, CoverInv, Check PROVE CoverInv'
<1>1. /\ call # "none" /\ step = "check" /\ pc = "idle" /\ AtCheck
      /\ stage \in {"pat", "pmt", "ecm"} /\ call # "flush" /\ off \in Nat
  BY Typed DEF Check, Here, CallPlace, CoverInv
<1>2. UNCHANGED <<program, pat, phase, keys, live, map, sbuf, off, pc>>
  BY DEF Check, vars, tables, served, buffers
<1>3. Awaiting' = Awaiting BY <1>2, AwaitingSame
<1>4. Found' = Found /\ PmtComplete(phase)' = PmtComplete(phase)
      /\ EcmComplete(keys)' = EcmComplete(keys)
  BY <1>2 DEF Found, PmtComplete, EcmComplete, AllServed
<1>5. CASE Complete /\ Proceed
  <2>1. CASE stage = "pat"
    <3>1. stage' = "pmt" /\ step' = "check" /\ call' = call /\ program # <<>>
      BY <1>5, <2>1 DEF Proceed, Complete
    <3>2. AtCheck' BY <1>1, <1>2, <1>3, <1>4, <3>1 DEF AtCheck
    <3> QED BY <1>1, <1>2, <3>1, <3>2 DEF CoverInv
  <2>2. CASE stage = "pmt"
    <3>1. stage' = "ecm" /\ step' = "check" /\ call' = call /\ PmtComplete(phase)
      BY <1>5, <2>2 DEF Proceed, Complete
    <3>2. AtCheck' BY <1>1, <1>2, <1>3, <1>4, <2>2, <3>1 DEF AtCheck
    <3> QED BY <1>1, <1>2, <3>1, <3>2 DEF CoverInv
  <2>3. CASE stage = "ecm"
    <3>1. stage' = "proc" /\ step' = "loop" /\ call' = call /\ EcmComplete(keys)
      BY <1>5, <2>3 DEF Proceed, Complete
    <3>2. off = 0 BY <1>1, <2>3, <3>1 DEF AtCheck, Found
    <3> QED BY <1>1, <1>2, <3>1, <3>2 DEF CoverInv, Searches
  <2> QED BY <1>1, <2>1, <2>2, <2>3
<1>6. CASE ~Complete /\ step' = "loop" /\ at' = off + 1 /\ UNCHANGED <<call, stage>>
  <2>1. SearchOn' BY <1>1, <1>2, <1>4, <1>6 DEF SearchOn, Complete, AtCheck
  <2>2. Covers(sbuf, off, Awaiting) BY <1>1 DEF AtCheck
  <2>3. at' - 1 = off BY <1>1, <1>6
  <2>4. Covers(sbuf, at - 1, Awaiting)' BY <1>2, <1>3, <2>2, <2>3
  <2> QED BY <1>1, <1>2, <1>6, <2>1, <2>4 DEF CoverInv
<1> QED BY <1>5, <1>6 DEF Check

\* Behind a new PAT nothing else is awaited.
LEMMA CutCovers ==
  ASSUME TypesInv, CutAtPat, off = 1 \/ program = <<>>
  PROVE  Covers(sbuf, off, Awaiting)
<1>1. /\ IInv /\ sbuf \in Seq(Row) /\ Len(sbuf) \in Nat
      /\ off \in 1..Len(sbuf) /\ off \in 0..Len(sbuf)
  BY Typed DEF CutAtPat
<1>2. /\ Packets[sbuf[off].pk].pid = PatPid /\ Packets[sbuf[off].pk].kind = "section"
      /\ Packets[sbuf[off].pk].val = pat
  BY DEF CutAtPat, Pk
<1>3. sbuf[off].pk \notin Awaiting
  <2> SUFFICES ASSUME Awaited(Packets[sbuf[off].pk]) PROVE FALSE BY DEF Awaiting
  <2>1. program # <<>> BY <1>2 DEF Awaited, New
  <2>2. \A i \in 1..Len(program) : program[i].pid # PatPid
    <3>1. \A i \in 1..Len(program) : program[i] \in Program
      BY <1>1, ElementOfSeq DEF IInv, Control
    <3> QED BY <3>1, RolesAssumption DEF Program
  <2>3. Entry(PatPid).type = "ECM" BY <1>2, <2>1, <2>2 DEF Awaited
  <2>4. PatPid \in EcmPids BY <1>1, <2>3, EcmTarget
  <2> QED BY <2>4, RolesAssumption
<1>4. CASE off = 1 BY <1>1, <1>3, <1>4 DEF Covers
<1>5. CASE program = <<>>
  <2>1. ASSUME NEW i \in 1..off, Latest(sbuf, i, off), sbuf[i].pk \in Awaiting PROVE FALSE
    <3>1. Packets[sbuf[i].pk].pid = PatPid BY <1>5, <2>1, AwaitingPat DEF OnPid
    <3>2. i # off BY <1>3, <2>1
    <3>3. off \in (i + 1)..off BY <1>1, <3>2
    <3> QED BY <1>2, <2>1, <3>1, <3>3 DEF Latest
  <2> QED BY <1>1, <2>1 DEF Covers
<1> QED BY <1>4, <1>5

LEMMA SearchedCovers == ASSUME TypesInv, CoverInv, Searched PROVE CoverInv'
<1>1. /\ call # "none" /\ step = "last" /\ pc = "idle" /\ stage \in {"pat", "pmt", "ecm"}
      /\ call # "flush" /\ sbuf \in Seq(Row)
      /\ CutAtPat \/ Covers(sbuf, off, Awaiting) \/ Complete
  BY Typed DEF Searched, Here, CoverInv, Searches
<1>2. UNCHANGED <<program, pat, phase, keys, live, map, sbuf, pc>>
  BY DEF Searched, vars, tables, served
<1>3. Awaiting' = Awaiting BY <1>2, AwaitingSame
<1>4. Found' = Found /\ PmtComplete(phase)' = PmtComplete(phase)
  BY <1>2 DEF Found, PmtComplete, EcmComplete, AllServed
<1>5. Covers(sbuf, 0, Awaiting) BY <1>1, CoversNone
<1>6. CASE Complete /\ off' = 0 /\ Proceed
  <2>1. \/ stage' = "pmt" /\ step' = "check" /\ call' = call
        \/ stage' = "ecm" /\ step' = "check" /\ call' = call /\ PmtComplete(phase)
        \/ stage' = "proc" /\ step' = "loop" /\ call' = call
    BY <1>1, <1>6 DEF Proceed, Complete
  <2>2. step' = "check" => AtCheck' BY <1>2, <1>3, <1>4, <1>5, <1>6, <2>1 DEF AtCheck
  <2> QED BY <1>1, <1>2, <1>6, <2>1, <2>2 DEF CoverInv, Searches
<1>7. CASE ~Complete /\ off' = off /\ call' = "none" /\ stage' = "pat" /\ step' = "check"
  <2>1. Covers(sbuf, off, Awaiting)
    <3>1. CutAtPat => off = 1 \/ program = <<>> BY <1>7 DEF CutAtPat, Complete
    <3> QED BY <1>1, <1>7, <3>1, CutCovers
  <2>2. ~Found BY <1>1, <1>7 DEF Found, Complete
  <2>3. AtCheck' BY <1>2, <1>3, <1>4, <1>7, <2>1, <2>2 DEF AtCheck
  <2> QED BY <1>1, <1>2, <1>7, <2>3 DEF CoverInv
<1> QED BY <1>6, <1>7 DEF Searched, Return

\* The program of a PMT PID
LEMMA TheProgram ==
  ASSUME IInv, RolesMapped, NEW i \in 1..Len(program)
  PROVE  Entry(program[i].pid).type = "PMT" /\ ProgramOf(program[i].pid) = i
<1>1. program[i] \in Program BY ElementOfSeq DEF IInv, Control
<1>2. program[i].pid \in Pid BY <1>1 DEF Program, Pid
<1>3. map[program[i].pid].type = "PMT" BY DEF RolesMapped
<1>4. PICK j : j = ProgramOf(program[i].pid) OBVIOUS
<1>5. j \in 1..Len(program) /\ program[j].pid = program[i].pid BY <1>4 DEF ProgramOf
<1>6. j = i BY <1>5 DEF RolesMapped
<1> QED BY <1>2, <1>3, <1>4, <1>6 DEF Entry

\* A search passes over nothing that is awaited.
LEMMA AwaitedWanted ==
  ASSUME IInv, RolesMapped, SearchOn, stage \in Searches, NEW k, Awaited(k)
  PROVE  Wanted(k)
<1>1. CASE program = <<>> BY <1>1 DEF Awaited, Wanted
<1>2. CASE program # <<>> /\ ~PmtComplete(phase)
  <2>1. PICK i \in 1..Len(program) :
          phase[i] = 0 /\ k.pid = program[i].pid /\ New(k, program[i].pmt)
    BY <1>2 DEF Awaited
  <2>2. stage = "pmt" BY <1>2 DEF SearchOn, Searches
  <2>3. Entry(k.pid).type = "PMT" /\ ProgramOf(k.pid) = i BY <2>1, TheProgram
  <2> QED BY <2>1, <2>2, <2>3 DEF Wanted
<1>3. CASE program # <<>> /\ PmtComplete(phase)
  <2>1. /\ Entry(k.pid).type = "ECM"
        /\ keys[Entry(k.pid).target].phase = 0 /\ New(k, keys[Entry(k.pid).target].last)
    BY <1>3 DEF Awaited
  <2>2. stage = "ecm" BY <1>3 DEF SearchOn, Searches
  <2> QED BY <2>1, <2>2 DEF Wanted
<1> QED BY <1>1, <1>2, <1>3

\* What a search has before the packet at hand
LEMMA SearchSeen ==
  ASSUME TypesInv, CoverInv, Searching, at < Len(sbuf)
  PROVE  /\ at \in 1..Len(sbuf) /\ at \in Nat /\ sbuf \in Seq(Row)
         /\ sbuf[at].pk \in DOMAIN Packets /\ Pk(sbuf[at]) = Packets[sbuf[at].pk]
         /\ SearchOn /\ CoversRest(sbuf, at, Awaiting)
         /\ call # "none" /\ call # "flush" /\ pc = "idle" /\ step = "loop" /\ stage \in Searches
<1>1. BuffersFit /\ at \in Nat /\ sbuf \in Seq(Row) BY Typed
<1>2. at \in 1..Len(sbuf) /\ sbuf[at].pk \in DOMAIN Packets BY <1>1, SearchAtHand
<1>3. call # "none" /\ pc = "idle" /\ step = "loop" /\ stage \in Searches
  BY DEF Searching, Here, Searches
<1>4. SearchOn /\ Covers(sbuf, at - 1, Awaiting) /\ call # "flush" BY <1>3 DEF CoverInv
<1> QED BY <1>1, <1>2, <1>3, <1>4, CoversOn DEF Pk

LEMMA SearchEndCovers == ASSUME TypesInv, CoverInv, SearchEnd PROVE CoverInv'
<1>1. /\ call # "none" /\ pc = "idle" /\ step = "loop" /\ stage \in Searches
      /\ Covers(sbuf, at - 1, Awaiting) /\ call # "flush"
  BY DEF SearchEnd, Searching, Here, Searches, CoverInv
<1>2. /\ UNCHANGED <<program, pat, phase, keys, live, map, sbuf, pc, call, stage>>
      /\ off' = at - 1 /\ step' = "last"
  BY DEF SearchEnd, vars, served
<1>3. Awaiting' = Awaiting BY <1>2, AwaitingSame
<1>4. Covers(sbuf, off, Awaiting)' BY <1>1, <1>2, <1>3
<1> QED BY <1>1, <1>2, <1>4 DEF CoverInv, Searches

LEMMA SearchSkipCovers == ASSUME TypesInv, CoverInv, SearchSkip PROVE CoverInv'
<1>1. /\ at \in 1..Len(sbuf) /\ at \in Nat /\ sbuf \in Seq(Row)
      /\ sbuf[at].pk \in DOMAIN Packets /\ Pk(sbuf[at]) = Packets[sbuf[at].pk]
      /\ SearchOn /\ CoversRest(sbuf, at, Awaiting)
      /\ call # "none" /\ call # "flush" /\ pc = "idle" /\ step = "loop" /\ stage \in Searches
  BY SearchSeen DEF SearchSkip
<1>2. /\ UNCHANGED <<program, pat, phase, keys, live, map, sbuf, off, pc, call, stage, step>>
      /\ at' = at + 1
  BY DEF SearchSkip, vars, served, buffers
<1>3. Awaiting' = Awaiting BY <1>2, AwaitingSame
<1>4. sbuf[at].pk \notin Awaiting
  <2>1. IInv /\ RolesMapped BY Typed
  <2>2. ~Wanted(Packets[sbuf[at].pk]) BY <1>1 DEF SearchSkip
  <2>3. ~Awaited(Packets[sbuf[at].pk]) BY <1>1, <2>1, <2>2, AwaitedWanted
  <2> QED BY <2>3 DEF Awaiting
<1>5. Covers(sbuf, at, Awaiting) BY <1>1, <1>4, CoversNext
<1>6. at' - 1 = at BY <1>1, <1>2
<1>7. Covers(sbuf, at - 1, Awaiting)' BY <1>2, <1>3, <1>5, <1>6
<1>8. SearchOn' BY <1>1, <1>2 DEF SearchOn, PmtComplete, EcmComplete, AllServed
<1> QED BY <1>1, <1>2, <1>7, <1>8 DEF CoverInv, Searches

LEMMA SearchPatCovers == ASSUME TypesInv, CoverInv, SearchPat PROVE CoverInv'
<1>1. /\ at \in 1..Len(sbuf) /\ at \in Nat /\ sbuf \in Seq(Row) /\ Len(sbuf) \in Nat
      /\ call # "flush" /\ pc = "idle" /\ stage \in Searches
  BY SearchSeen, LenProperties DEF SearchPat
<1>2. PICK k : k = Pk(sbuf[at]) OBVIOUS
<1>3. k.pid = PatPid /\ k.kind = "section" /\ pat' = k.val
  BY <1>2 DEF SearchPat, New, PatForeign, PatBegin
<1>4. step' = "last" /\ UNCHANGED <<call, stage>> BY DEF SearchPat
<1>5. CASE stage = "pat"
  <2>1. off' = at /\ sbuf' = sbuf BY <1>5 DEF SearchPat
  <2>2. Pk(sbuf[off])' = k BY <1>2, <2>1 DEF Pk
  <2>3. CutAtPat' BY <1>1, <1>3, <1>4, <1>5, <2>1, <2>2 DEF CutAtPat
  <2> QED BY <1>1, <1>4, <2>3 DEF CoverInv, Searches
<1>6. CASE stage # "pat"
  <2>1. off' = 1 /\ sbuf' = From(sbuf, at) BY <1>6 DEF SearchPat
  <2>2. at \in 1..(Len(sbuf) + 1) /\ at + 1 - 1 = at /\ 1 \in 1..(Len(sbuf) - at + 1)
    BY <1>1
  <2>3. Len(sbuf') = Len(sbuf) - at + 1 /\ sbuf'[1] = sbuf[at] BY <1>1, <2>1, <2>2, RestRows
  <2>4. Pk(sbuf[off])' = k BY <1>2, <2>1, <2>3 DEF Pk
  <2>5. off' \in 1..Len(sbuf') BY <2>1, <2>2, <2>3
  <2>6. CutAtPat' BY <1>3, <2>1, <2>4, <2>5 DEF CutAtPat
  <2> QED BY <1>1, <1>4, <2>6 DEF CoverInv, Searches
<1> QED BY <1>5, <1>6

\* proc_pmt has taken a section: program i's PMT is that, all else is as it was.
Reads(i, v) ==
  /\ Len(program') = Len(program) /\ program'[i].pid = program[i].pid /\ program'[i].pmt = v
  /\ \A j \in 1..Len(program) : j # i => program'[j] = program[j]

LEMMA BeginReads ==
  ASSUME IInv, NEW i \in 1..Len(program),
         NEW t \in Pmts \cup {Foreign, Unseen},
         program' = [program EXCEPT ![i].pmt = t, ![i].mine = {}]
  PROVE  Reads(i, t)
<1> DEFINE g == [program[i] EXCEPT !.pmt = t, !.mine = {}]
<1>1. /\ g \in Program /\ g.pid = program[i].pid /\ program \in Seq(Program)
      /\ program[i] \in Program
  BY ProgramFields
<1>2. g.pmt = t BY <1>1 DEF Program
<1>3. program' = [program EXCEPT ![i] = g] BY <1>1
<1> HIDE DEF g
<1>4. program \in Seq(Program) /\ g \in Program BY <1>1
<1>5. /\ Len([program EXCEPT ![i] = g]) = Len(program)
      /\ \A j \in 1..Len(program) :
           [program EXCEPT ![i] = g][j] = IF j = i THEN g ELSE program[j]
  BY <1>4, ExceptSeq
<1> QED BY <1>1, <1>2, <1>3, <1>5 DEF Reads

LEMMA ReadAwaits ==
  ASSUME TypesInv, TypesInv', NEW i \in 1..Len(program), NEW v, Reads(i, v),
         ~PmtComplete(phase), UNCHANGED phase, pc # "pat", pc' # "pat"
  PROVE  /\ Awaiting' \subseteq Awaiting \cup OnPid(program[i].pid)
         /\ \A x \in Awaiting' : Packets[x].pid = program[i].pid => New(Packets[x], v)
<1>1. IInv /\ PhasesFit /\ RolesMapped BY Typed
<1>2. Awaiting = PmtsAwaited BY <1>1, AwaitingPmt
<1>3. Awaiting' = PmtsAwaited'
  <2>1. IInv' /\ PhasesFit' BY DEF TypesInv, DInv
  <2>2. ~PmtComplete(phase') OBVIOUS
  <2> QED BY <2>1, <2>2, AwaitingPmtNext
<1>4. ASSUME NEW x \in Awaiting'
      PROVE  /\ x \in Awaiting \cup OnPid(program[i].pid)
             /\ Packets[x].pid = program[i].pid => New(Packets[x], v)
  <2>1. PICK j \in 1..Len(program') :
          phase'[j] = 0 /\ Packets[x].pid = program'[j].pid /\ New(Packets[x], program'[j].pmt)
    BY <1>3 DEF PmtsAwaited
  <2>2. x \in DOMAIN Packets BY <1>3 DEF PmtsAwaited
  <2>3. j \in 1..Len(program) BY <2>1 DEF Reads
  <2>4. CASE j = i BY <2>1, <2>2, <2>4 DEF Reads, OnPid
  <2>5. CASE j # i
    <3>1. program'[j] = program[j] BY <2>3, <2>5 DEF Reads
    <3>2. x \in PmtsAwaited BY <2>1, <2>2, <2>3, <3>1 DEF PmtsAwaited
    <3>3. program[j].pid # program[i].pid BY <1>1, <2>3, <2>5 DEF RolesMapped
    <3> QED BY <1>2, <2>1, <3>1, <3>2, <3>3
  <2> QED BY <2>4, <2>5
<1> QED BY <1>4

LEMMA SearchPmtCovers == ASSUME TypesInv, TypesInv', CoverInv, SearchPmt PROVE CoverInv'
<1>1. /\ at \in 1..Len(sbuf) /\ at \in Nat /\ sbuf \in Seq(Row)
      /\ sbuf[at].pk \in DOMAIN Packets /\ Pk(sbuf[at]) = Packets[sbuf[at].pk]
      /\ SearchOn /\ CoversRest(sbuf, at, Awaiting)
      /\ call # "none" /\ call # "flush" /\ pc = "idle" /\ step = "loop" /\ stage = "pmt"
  BY SearchSeen DEF SearchPmt
<1>2. PICK k : k = Pk(sbuf[at]) OBVIOUS
<1>3. PICK i : i = ProgramOf(k.pid) OBVIOUS
<1>4. IInv /\ RolesMapped /\ PhasesFit BY Typed
<1>5. i \in 1..Len(program) /\ program[i].pid = k.pid
  <2>1. Entry(k.pid).type = "PMT" BY <1>2 DEF SearchPmt
  <2>2. k.pid \in Pid /\ map[k.pid].type = "PMT" BY <2>1 DEF Entry, Unmapped
  <2>3. PICK j \in 1..Len(program) : program[j].pid = k.pid BY <1>4, <2>2 DEF RolesMapped
  <2> QED BY <1>3, <2>3 DEF ProgramOf
<1>6. phase \in [1..Len(program) -> 0..2] /\ Len(phase) = Len(program)
  BY <1>1, <1>4, PhaseLength DEF PhasesFit
<1>7. ~PmtComplete(phase) BY <1>1 DEF SearchOn
<1>8. UNCHANGED <<sbuf, call, stage>> BY DEF SearchPmt
<1>9. CASE phase' = [phase EXCEPT ![i] = 2] /\ Leave /\ UNCHANGED <<vars, keys>>
  <2>1. step' = "last" /\ pc' = pc BY <1>9 DEF Leave, vars
  <2>2. Len(phase') = Len(program) /\ phase'[i] = 2
    <3>1. PhasesFit' /\ IInv' /\ pc' # "pat" /\ program' = program
      BY <1>1, <1>9 DEF TypesInv, DInv, vars
    <3>2. Len(phase') = Len(program') BY <3>1, PhaseLengthNext
    <3> QED BY <1>5, <1>6, <1>9, <3>1, <3>2
  <2>3. 2 \in {phase'[j] : j \in 1..Len(phase')} BY <1>5, <2>2
  <2>4. Complete' BY <1>1, <1>8, <2>3 DEF Complete, PmtComplete, AllServed
  <2> QED BY <1>1, <1>8, <2>1, <2>4 DEF CoverInv, Searches
<1>10. CASE /\ k.kind = "section" /\ k.val = Foreign /\ PmtForeign(i)
            /\ at' = at + 1 /\ UNCHANGED <<off, step, phase, keys>>
  <2>1. Reads(i, Foreign) BY <1>4, <1>5, <1>10, BeginReads DEF PmtForeign
  <2>2. pc' = pc BY <1>10 DEF PmtForeign
  <2>3. /\ Awaiting' \subseteq Awaiting \cup OnPid(program[i].pid)
        /\ \A x \in Awaiting' : Packets[x].pid = program[i].pid => New(Packets[x], Foreign)
    BY <1>1, <1>5, <1>7, <1>10, <2>1, <2>2, ReadAwaits
  <2>4. CoversRest(sbuf, at, Awaiting')
    BY <1>1, <1>2, <1>5, <1>10, <2>3, CoversTaken
  <2>5. sbuf[at].pk \notin Awaiting' BY <1>1, <1>2, <1>5, <1>10, <2>3 DEF New
  <2>6. Covers(sbuf, at, Awaiting') BY <1>1, <2>4, <2>5, CoversNext
  <2>7. at' - 1 = at BY <1>1, <1>10
  <2>8. Covers(sbuf, at - 1, Awaiting)' BY <1>8, <2>6, <2>7
  <2>9. SearchOn' BY <1>1, <1>7, <1>8, <1>10 DEF SearchOn
  <2> QED BY <1>1, <1>8, <1>10, <2>2, <2>8, <2>9 DEF CoverInv, Searches
<1>11. CASE /\ k.kind = "section" /\ k.val # Foreign /\ PmtBegin(i, k.val)
            /\ step' = "after" /\ UNCHANGED <<off, at, phase>>
  <2>1. k.val \in Pmts \cup {Foreign, Unseen}
    <3>1. program[i] \in Program BY <1>4, <1>5, ElementOfSeq DEF IInv, Control
    <3>2. k.pid \in PmtPids BY <1>5, <3>1 DEF Program
    <3> QED BY <1>1, <1>2, <1>11, <3>2, Delivered
  <2>2. Reads(i, k.val) BY <1>4, <1>5, <1>11, <2>1, BeginReads DEF PmtBegin
  <2>3. pc' \in {"lists", "end"} BY <1>11 DEF PmtBegin
  <2>4. Awaiting' \subseteq Awaiting \cup OnPid(program[i].pid)
    BY <1>1, <1>5, <1>7, <1>11, <2>2, <2>3, ReadAwaits
  <2>5. CoversRest(sbuf, at, Awaiting')
    BY <1>1, <1>2, <1>5, <1>11, <2>4, CoversTaken
  <2>6. Pk(sbuf[at])' = k BY <1>2, <1>8, <1>11 DEF Pk
  <2>7. i \in 1..Len(program') /\ program'[i].pid = k.pid /\ program'[i].pmt = k.val
    BY <1>5, <2>2 DEF Reads
  <2>8. Took' BY <1>8, <1>11, <2>5, <2>6, <2>7 DEF Took
  <2>9. ~PmtComplete(phase)' BY <1>7, <1>11
  <2> QED BY <1>1, <1>8, <1>11, <2>3, <2>8, <2>9 DEF CoverInv, Searches
<1> QED BY <1>2, <1>3, <1>9, <1>10, <1>11 DEF SearchPmt, New

LEMMA SearchedPmtCovers == ASSUME TypesInv, TypesInv', CoverInv, SearchedPmt PROVE CoverInv'
<1>1. /\ call # "none" /\ call # "flush" /\ pc = "idle" /\ step = "after" /\ stage = "pmt"
      /\ ~PmtComplete(phase) /\ Took
  BY DEF SearchedPmt, Here, CoverInv
<1>2. IInv /\ RolesMapped /\ PhasesFit /\ sbuf \in Seq(Row) /\ Len(sbuf) \in Nat BY Typed
<1>3. at \in 1..Len(sbuf) /\ at \in Int BY <1>1, <1>2 DEF Took, CoversRest
<1>4. PICK k : k = Pk(sbuf[at]) OBVIOUS
<1>5. PICK i \in 1..Len(program) : program[i].pid = k.pid /\ program[i].pmt = k.val
  BY <1>1, <1>4 DEF Took
<1>6. phase' = [phase EXCEPT ![i] = 1]
  BY <1>2, <1>4, <1>5, TheProgram DEF SearchedPmt
<1>7. UNCHANGED <<program, pat, map, live, keys, sbuf, pc, call, stage>>
  BY DEF SearchedPmt, vars
<1>8. CASE PmtComplete(phase') /\ Leave
  <2>1. step' = "last" BY <1>8 DEF Leave
  <2>2. Complete' BY <1>1, <1>7, <1>8 DEF Complete
  <2> QED BY <1>1, <1>7, <2>1, <2>2 DEF CoverInv, Searches
<1>9. CASE ~PmtComplete(phase') /\ step' = "loop" /\ at' = at + 1 /\ UNCHANGED off
  <2>1. Awaiting = PmtsAwaited BY <1>1, <1>2, AwaitingPmt
  <2>2. Awaiting' = PmtsAwaited'
    <3>1. IInv' /\ PhasesFit' BY DEF TypesInv, DInv
    <3>2. pc' # "pat" BY <1>1, <1>7
    <3> QED BY <1>9, <3>1, <3>2, AwaitingPmtNext
  <2>3. phase \in [1..Len(program) -> 0..2] BY <1>1, <1>2 DEF PhasesFit
  <2>4. ASSUME NEW x \in Awaiting'
        PROVE  x \in Awaiting /\ Packets[x].pid # k.pid
    <3>1. PICK j \in 1..Len(program) :
            phase'[j] = 0 /\ Packets[x].pid = program[j].pid /\ New(Packets[x], program[j].pmt)
      BY <1>7, <2>2 DEF PmtsAwaited
    <3>2. x \in DOMAIN Packets BY <2>2 DEF PmtsAwaited
    <3>3. j # i /\ phase[j] = 0 BY <1>6, <2>3, <3>1
    <3>4. program[j].pid # program[i].pid BY <1>2, <3>3 DEF RolesMapped
    <3> QED BY <1>5, <2>1, <3>1, <3>2, <3>3, <3>4 DEF PmtsAwaited
  <2>5. CoversRest(sbuf, at, Awaiting')
    <3>1. Packets[sbuf[at].pk].kind = "section" /\ CoversRest(sbuf, at, Awaiting)
      BY <1>1 DEF Took, Pk
    <3>2. Awaiting' \subseteq Awaiting \cup OnPid(Packets[sbuf[at].pk].pid) BY <2>4
    <3> QED BY <1>2, <1>3, <3>1, <3>2, CoversTaken
  <2>6. sbuf[at].pk \notin Awaiting' BY <1>4, <2>4 DEF Pk
  <2>7. Covers(sbuf, at, Awaiting') BY <1>2, <1>3, <2>5, <2>6, CoversNext
  <2>8. at' - 1 = at BY <1>3, <1>9
  <2>9. Covers(sbuf, at - 1, Awaiting)' BY <1>7, <2>7, <2>8
  <2>10. SearchOn' BY <1>1, <1>7, <1>9 DEF SearchOn
  <2> QED BY <1>1, <1>7, <1>9, <2>9, <2>10 DEF CoverInv, Searches
<1> QED BY <1>8, <1>9 DEF SearchedPmt

\* An ECM PID has its own decryptor.
LEMMA EcmOwner ==
  ASSUME IInv, NEW p, Entry(p).type = "ECM"
  PROVE  /\ p \in EcmPids /\ p # PatPid /\ Entry(p).target \in live /\ Entry(p).target \in Dec
         /\ \A x : Entry(x).type = "ECM" /\ Entry(x).target = Entry(p).target => x = p
<1>1. Fit(Tables, Held, None) /\ Tables.map = map /\ Tables.live = live /\ Tables.dec = dec
  BY TablesTyped DEF IInv
<1>2. ASSUME NEW x, Entry(x).type = "ECM"
      PROVE  /\ x \in EcmPids /\ Entry(x).target \in live
             /\ dec[Entry(x).target].ecm = x
  <2>1. x \in Pid /\ map[x].type = "ECM" /\ Entry(x) = map[x] BY <1>2 DEF Entry, Unmapped
  <2>2. x # None BY <2>1, RolesAssumption
  <2>3. EntryFits(Tables, x) BY <1>1, <2>1, <2>2 DEF Fit
  <2> QED BY <1>1, <2>1, <2>3 DEF EntryFits
<1>3. p # PatPid BY <1>2, RolesAssumption
<1>4. ASSUME NEW x, Entry(x).type = "ECM", Entry(x).target = Entry(p).target PROVE x = p
  <2>1. dec[Entry(x).target].ecm = x /\ dec[Entry(p).target].ecm = p BY <1>2, <1>4
  <2> QED BY <1>4, <2>1
<1>5. live \subseteq Dec BY TablesTyped DEF IInv
<1> QED BY <1>2, <1>3, <1>4, <1>5

\* proc_ecm has taken a section of PID p.
LEMMA EcmTaken ==
  ASSUME TypesInv, PmtComplete(phase), ~EcmComplete(keys),
         NEW p, Entry(p).type = "ECM", NEW r, keys' = [keys EXCEPT ![Entry(p).target] = r],
         UNCHANGED <<program, pat, phase, live, map>>
  PROVE  /\ Awaiting' \subseteq Awaiting \cup OnPid(p)
         /\ \A x \in Awaiting' : Packets[x].pid = p => New(Packets[x], r.last)
<1>1. IInv /\ KeysFit BY Typed
<1>2. PICK d : d = Entry(p).target OBVIOUS
<1>3. /\ d \in Dec /\ p # PatPid
      /\ \A x : Entry(x).type = "ECM" /\ Entry(x).target = d => x = p
  BY <1>1, <1>2, EcmOwner
<1>4. keys'[d] = r /\ \A e \in Dec : e # d => keys'[e] = keys[e]
  BY <1>1, <1>2, <1>3 DEF KeysFit
<1>5. \A x : Entry(x)' = Entry(x) BY DEF Entry
<1>6. ASSUME NEW x \in Awaiting'
      PROVE  /\ x \in Awaiting \cup OnPid(p)
             /\ Packets[x].pid = p => New(Packets[x], r.last)
  <2>1. x \in DOMAIN Packets BY <1>6 DEF Awaiting
  <2>2. CASE program = <<>>
    <3>1. Awaited(Packets[x])' BY <1>6 DEF Awaiting
    <3>2. Packets[x].pid = PatPid /\ New(Packets[x], pat) BY <2>2, <3>1 DEF Awaited, New
    <3> QED BY <1>3, <2>1, <2>2, <3>2 DEF Awaited, Awaiting
  <2>3. CASE program # <<>>
    <3>1. EcmAwaited(x)'
      <4>1. Awaited(Packets[x])' BY <1>6 DEF Awaiting
      <4>2. program' # <<>> /\ PmtComplete(phase)' BY <2>3
      <4> QED BY <4>1, <4>2 DEF Awaited, EcmAwaited
    <3>2. PICK e : e = Entry(Packets[x].pid).target OBVIOUS
    <3>3. /\ Entry(Packets[x].pid).type = "ECM" /\ keys'[e].phase = 0
          /\ New(Packets[x], keys'[e].last)
      BY <1>5, <3>1, <3>2 DEF EcmAwaited, New
    <3>4. e \in Dec BY <1>1, <3>2, <3>3, EcmOwner
    <3>5. CASE e = d BY <1>3, <1>4, <2>1, <3>2, <3>3, <3>5 DEF OnPid
    <3>6. CASE e # d
      <4>1. keys'[e] = keys[e] BY <1>4, <3>4, <3>6
      <4>2. EcmAwaited(x) BY <3>2, <3>3, <4>1 DEF EcmAwaited
      <4>3. x \in Awaiting BY <2>1, <2>3, <4>2, AwaitingEcm
      <4>4. Packets[x].pid # p BY <1>2, <3>2, <3>6
      <4> QED BY <4>3, <4>4
    <3> QED BY <3>5, <3>6
  <2> QED BY <2>2, <2>3
<1> QED BY <1>6

LEMMA AnswerMarks ==
  ASSUME KeysFit, NEW d \in Dec, NEW n \in Ecms \cup {Foreign}, NEW a \in EcmAnswers(d, n)
  PROVE  a.k \in KeyRow /\ a.k.last = n /\ a.k.phase = keys[d].phase
<1> DEFINE k == [keys[d] EXCEPT !.last = n]
<1>1. keys[d] \in KeyRow BY DEF KeysFit
<1>2. k \in KeyRow /\ k.last = n /\ k.phase = keys[d].phase BY <1>1 DEF KeyRow
<1>3. \/ a.k = k
      \/ \E m : a.k = [k EXCEPT !.m2 = m]
      \/ a.k = [k EXCEPT !.m2 = None, !.locked = TRUE]
  <2>1. CASE n = Foreign
    <3>1. a.k = k BY <2>1 DEF EcmAnswers
    <3> HIDE DEF k
    <3> QED BY <3>1
  <2>2. CASE n # Foreign /\ keys[d].locked
    <3>1. a.k = k BY <1>2, <2>2 DEF EcmAnswers
    <3> HIDE DEF k
    <3> QED BY <3>1
  <2>3. CASE n # Foreign /\ ~keys[d].locked
    <3>1. \/ a.k = [k EXCEPT !.m2 = n]
          \/ a.k = [k EXCEPT !.m2 = None, !.locked = TRUE]
          \/ a.k = [k EXCEPT !.m2 = IF k.m2 = None THEN None ELSE Cleared]
      BY <1>2, <2>3 DEF EcmAnswers
    <3> HIDE DEF k
    <3> QED BY <3>1
  <2> QED BY <2>1, <2>2, <2>3
<1> HIDE DEF k
<1>4. a.k.last = n /\ a.k.phase = keys[d].phase BY <1>2, <1>3 DEF KeyRow
<1> QED BY <1>4, AnswersFit

\* An ECM that is not served leaves the decryptors that wait as they are.
LEMMA EcmWaits ==
  ASSUME KeysFit, NEW d \in Dec, NEW r, r.phase = keys[d].phase,
         keys' = [keys EXCEPT ![d] = r], live \subseteq Dec, live' = live
  PROVE  EcmComplete(keys)' <=> EcmComplete(keys)
<1>1. \A e \in live : keys'[e].phase = keys[e].phase BY DEF KeysFit
<1>2. {keys'[e].phase : e \in live} = {keys[e].phase : e \in live} BY <1>1
<1> QED BY <1>2 DEF EcmComplete

LEMMA SearchEcmCovers == ASSUME TypesInv, CoverInv, SearchEcm PROVE CoverInv'
<1>1. /\ at \in 1..Len(sbuf) /\ at \in Nat /\ sbuf \in Seq(Row)
      /\ sbuf[at].pk \in DOMAIN Packets /\ Pk(sbuf[at]) = Packets[sbuf[at].pk]
      /\ SearchOn /\ CoversRest(sbuf, at, Awaiting)
      /\ call # "none" /\ call # "flush" /\ pc = "idle" /\ step = "loop" /\ stage = "ecm"
  BY SearchSeen DEF SearchEcm
<1>2. PICK k : k = Pk(sbuf[at]) OBVIOUS
<1>3. PICK d : d = Entry(k.pid).target OBVIOUS
<1>4. Entry(k.pid).type = "ECM" BY <1>2 DEF SearchEcm
<1>5. IInv /\ KeysFit BY Typed
<1>6. k.pid \in EcmPids /\ d \in live /\ d \in Dec /\ live \subseteq Dec
  BY <1>3, <1>4, <1>5, EcmOwner, TablesTyped DEF IInv
<1>7. PmtComplete(phase) /\ ~EcmComplete(keys) BY <1>1 DEF SearchOn
<1>8. UNCHANGED <<program, pat, phase, live, map, sbuf, pc>> BY DEF SearchEcm, vars
<1>9. CASE keys' = [keys EXCEPT ![d].phase = 2] /\ Leave /\ UNCHANGED <<call, stage>>
  <2>1. step' = "last" BY <1>9 DEF Leave
  <2>2. keys'[d].phase = 2 BY <1>5, <1>6, <1>9 DEF KeysFit, KeyRow
  <2>3. 2 \in {keys'[e].phase : e \in live} BY <1>6, <2>2
  <2>4. EcmComplete(keys') /\ live' = live BY <1>8, <2>3 DEF EcmComplete, AllServed
  <2>5. Complete' BY <1>1, <1>9, <2>3, <2>4 DEF Complete, EcmComplete, AllServed
  <2> QED BY <1>1, <1>8, <1>9, <2>1, <2>5 DEF CoverInv, Searches
<1>10. ASSUME k.kind = "section", NEW a \in EcmAnswers(d, k.val), NEW r,
              r.last = k.val, keys' = [keys EXCEPT ![d] = r]
       PROVE  Covers(sbuf, at, Awaiting')
  <2>1. /\ Awaiting' \subseteq Awaiting \cup OnPid(k.pid)
        /\ \A x \in Awaiting' : Packets[x].pid = k.pid => New(Packets[x], r.last)
    BY <1>3, <1>4, <1>7, <1>8, <1>10, EcmTaken
  <2>2. CoversRest(sbuf, at, Awaiting')
    BY <1>1, <1>2, <1>10, <2>1, CoversTaken
  <2>3. sbuf[at].pk \notin Awaiting' BY <1>1, <1>2, <1>10, <2>1 DEF New
  <2> QED BY <1>1, <2>2, <2>3, CoversNext
<1>11. ASSUME k.kind = "section", NEW a \in EcmAnswers(d, k.val)
       PROVE  a.k \in KeyRow /\ a.k.last = k.val /\ a.k.phase = keys[d].phase
  <2>1. k.val \in Ecms \cup {Foreign} BY <1>1, <1>2, <1>6, <1>11, Delivered
  <2> QED BY <1>5, <1>6, <1>11, <2>1, AnswerMarks
<1>12. ASSUME k.kind = "section", NEW a \in EcmAnswers(d, k.val),
              keys' = [keys EXCEPT ![d] = a.k], off' = at, Return("error")
       PROVE  CoverInv'
  <2>1. Covers(sbuf, at, Awaiting') BY <1>10, <1>11, <1>12
  <2>2. ~EcmComplete(keys)' BY <1>5, <1>6, <1>7, <1>8, <1>11, <1>12, EcmWaits
  <2>3. call' = "none" /\ stage' = "pat" /\ step' = "check" BY <1>12 DEF Return
  <2>4. AtCheck' BY <1>8, <1>12, <2>1, <2>2, <2>3 DEF AtCheck, Found
  <2> QED BY <1>1, <1>8, <2>3, <2>4 DEF CoverInv
<1>13. ASSUME k.kind = "section", NEW a \in EcmAnswers(d, k.val),
              keys' = [keys EXCEPT ![d] = a.k], at' = at + 1, UNCHANGED <<off, call, stage, step>>
       PROVE  CoverInv'
  <2>1. Covers(sbuf, at, Awaiting') BY <1>10, <1>11, <1>13
  <2>2. ~EcmComplete(keys)' BY <1>5, <1>6, <1>7, <1>8, <1>11, <1>13, EcmWaits
  <2>3. at' - 1 = at BY <1>1, <1>13
  <2>4. Covers(sbuf, at - 1, Awaiting)' BY <1>8, <2>1, <2>3
  <2>5. SearchOn' BY <1>1, <1>7, <1>8, <1>13, <2>2 DEF SearchOn, PmtComplete
  <2> QED BY <1>1, <1>8, <1>13, <2>4, <2>5 DEF CoverInv, Searches
<1>14. ASSUME k.kind = "section", NEW a \in EcmAnswers(d, k.val),
              keys' = [keys EXCEPT ![d] = [a.k EXCEPT !.phase = 1]],
              IF EcmComplete(keys') THEN Leave ELSE at' = at + 1 /\ UNCHANGED <<off, step>>,
              UNCHANGED <<call, stage>>
       PROVE  CoverInv'
  <2> DEFINE r == [a.k EXCEPT !.phase = 1]
  <2>1. r.last = k.val BY <1>11, <1>14 DEF KeyRow
  <2>2. keys' = [keys EXCEPT ![d] = r] BY <1>14
  <2> HIDE DEF r
  <2>3. Covers(sbuf, at, Awaiting') BY <1>10, <1>14, <2>1, <2>2
  <2>4. EcmComplete(keys') <=> EcmComplete(keys)' BY <1>8 DEF EcmComplete
  <2>5. CASE EcmComplete(keys') /\ Leave
    <3>1. step' = "last" BY <2>5 DEF Leave
    <3>2. Complete' BY <1>1, <1>14, <2>4, <2>5 DEF Complete
    <3> QED BY <1>1, <1>8, <1>14, <3>1, <3>2 DEF CoverInv, Searches
  <2>6. CASE ~EcmComplete(keys') /\ at' = at + 1 /\ UNCHANGED <<off, step>>
    <3>1. at' - 1 = at BY <1>1, <2>6
    <3>2. Covers(sbuf, at - 1, Awaiting)' BY <1>8, <2>3, <3>1
    <3>3. SearchOn' BY <1>1, <1>7, <1>8, <1>14, <2>4, <2>6 DEF SearchOn, PmtComplete
    <3> QED BY <1>1, <1>8, <1>14, <2>6, <3>2, <3>3 DEF CoverInv, Searches
  <2> QED BY <1>14, <2>5, <2>6
<1>15. \/ keys' = [keys EXCEPT ![d].phase = 2] /\ Leave /\ UNCHANGED <<call, stage>>
       \/ /\ k.kind = "section"
          /\ \E a \in EcmAnswers(d, k.val) :
               \/ keys' = [keys EXCEPT ![d] = a.k] /\ off' = at /\ Return("error")
               \/ /\ keys' = [keys EXCEPT ![d] = a.k] /\ at' = at + 1
                  /\ UNCHANGED <<off, call, stage, step>>
               \/ /\ keys' = [keys EXCEPT ![d] = [a.k EXCEPT !.phase = 1]]
                  /\ IF EcmComplete(keys')
                       THEN Leave ELSE at' = at + 1 /\ UNCHANGED <<off, step>>
                  /\ UNCHANGED <<call, stage>>
  BY <1>2, <1>3 DEF SearchEcm, New
<1> QED BY <1>9, <1>12, <1>13, <1>14, <1>15

----------------------------------------------------------------------------
(* Beyond the searches sbuf_offset is 0.                                   *)

LEMMA ReturnCovers ==
  ASSUME TypesInv', off' = 0, pc' = "idle", call' = "none", stage' = "pat", step' = "check"
  PROVE  CoverInv'
<1>1. sbuf' \in Seq(Row) BY DEF TypesInv, DInv, BuffersFit
<1>2. AtCheck' BY <1>1, CoversNone DEF AtCheck
<1> QED BY <1>2 DEF CoverInv

LEMMA WorkCovers ==
  ASSUME off' = 0, call' # "flush", stage' = "proc", step' \in {"loop", "after", "last"},
         pc' # "idle" => step' \in {"after", "last"}, step' = "after" => pc' # "pat"
  PROVE  CoverInv'
BY DEF CoverInv, Searches

LEMMA ProcCovers ==
  ASSUME TypesInv, TypesInv', CoverInv,
         \/ ProcDamaged \/ ProcStrip \/ ProcNoKey \/ ProcRefused \/ ProcOther
         \/ ProcEcm \/ ProcEmm \/ ProcCat \/ ProcPmt \/ ProcedPmt \/ ProcPat \/ ProcEnd
  PROVE  CoverInv'
<1>1. /\ pc = "idle" /\ stage = "proc" /\ off = 0 /\ call # "none" /\ call # "flush"
  <2>1. pc = "idle" /\ stage \in {"proc", "rest"} /\ call # "none"
    BY DEF ProcDamaged, ProcStrip, ProcNoKey, ProcRefused, ProcOther, ProcEcm, ProcEmm, ProcCat,
           ProcPmt, ProcedPmt, ProcPat, ProcEnd, Section, Working, Here
  <2> QED BY <2>1 DEF CoverInv
<1>2. off' = off
  BY DEF ProcDamaged, ProcStrip, ProcNoKey, ProcRefused, ProcOther, ProcEcm, ProcEmm, ProcCat,
         ProcPmt, ProcedPmt, ProcPat, ProcEnd, buffers
<1>3. CASE ProcDamaged \/ ProcStrip \/ ProcOther \/ ProcedPmt
  <2>1. pc' = pc /\ call' = call /\ stage' = stage /\ step' = "loop"
    BY <1>3 DEF ProcDamaged, ProcStrip, ProcOther, ProcedPmt, Working, Here, vars
  <2> QED BY <1>1, <1>2, <2>1, WorkCovers
<1>4. CASE ProcNoKey \/ ProcRefused
  <2>1. pc' = pc BY <1>4 DEF ProcNoKey, ProcRefused, vars
  <2>2. call' = "none" /\ stage' = "pat" /\ step' = "check"
    BY <1>4, FailPlace DEF ProcNoKey, ProcRefused, FailDelivered
  <2> QED BY <1>1, <1>2, <2>1, <2>2, ReturnCovers
<1>5. CASE ProcEcm \/ ProcEmm
  <2>1. pc' = pc /\ step = "loop" BY <1>5 DEF ProcEcm, ProcEmm, Section, Working, Here, vars
  <2>2. \/ UNCHANGED <<call, stage, step>>
        \/ call' = "none" /\ stage' = "pat" /\ step' = "check"
    BY <1>5, FailPlace DEF ProcEcm, ProcEmm, FailDelivered
  <2>3. CASE UNCHANGED <<call, stage, step>> BY <1>1, <1>2, <2>1, <2>3, WorkCovers
  <2>4. CASE call' = "none" /\ stage' = "pat" /\ step' = "check"
    BY <1>1, <1>2, <2>1, <2>4, ReturnCovers
  <2> QED BY <2>2, <2>3, <2>4
<1>6. CASE ProcCat
  <2>1. step = "loop" /\ UNCHANGED <<call, stage, step>>
    BY <1>6 DEF ProcCat, Section, Working, Here
  <2>2. pc' = pc BY <1>6, StartPlace DEF ProcCat
  <2> QED BY <1>1, <1>2, <2>1, <2>2, WorkCovers
<1>7. CASE ProcPmt
  <2>1. step' = "after" /\ UNCHANGED <<call, stage>> BY <1>7 DEF ProcPmt
  <2>2. pc' \in {pc, "lists", "end"} BY <1>7 DEF ProcPmt, PmtForeign, PmtBegin
  <2> QED BY <1>1, <1>2, <2>1, <2>2, WorkCovers
<1>8. CASE ProcPat
  <2>1. step' = "last" /\ UNCHANGED <<call, stage>> BY <1>1, <1>8 DEF ProcPat
  <2> QED BY <1>1, <1>2, <2>1, WorkCovers
<1>9. CASE ProcEnd
  <2>1. pc' = pc /\ call' = "none" /\ stage' = "pat" /\ step' = "check"
    BY <1>1, <1>9 DEF ProcEnd, Return, vars
  <2> QED BY <1>1, <1>2, <2>1, ReturnCovers
<1> QED BY <1>3, <1>4, <1>5, <1>6, <1>7, <1>8, <1>9

----------------------------------------------------------------------------
(* While proc_pmt runs, the PMTs are those it found.                       *)

SamePmts ==
  /\ Len(program') = Len(program)
  /\ \A j \in 1..Len(program) : program'[j].pid = program[j].pid /\ program'[j].pmt = program[j].pmt

LEMMA HandlersPmts ==
  ASSUME IInv, IInv', DropStream \/ PmtLists \/ PmtStream \/ PmtBind \/ PmtEnd
  PROVE  SamePmts
<1>1. Stays BY HandlersStay
<1>2. Len(program') = Len(program) BY <1>1, LengthKept DEF Stays
<1>3. \A j \in 1..Len(program) : program[j] \in Program BY ElementOfSeq DEF IInv, Control
<1>4. DOMAIN program = 1..Len(program) BY LenProperties DEF IInv, Control
<1>5. ASSUME NEW j \in 1..Len(program)
      PROVE  program'[j].pid = program[j].pid /\ program'[j].pmt = program[j].pmt
  <2>1. program[j] \in Program BY <1>3
  <2>2. CASE DropStream \/ PmtEnd BY <2>2 DEF DropStream, PmtEnd
  <2>3. CASE PmtLists
    <3>1. \E o, s : program' = [program EXCEPT ![cur].old = o, ![cur].streams = s]
      BY <2>3 DEF PmtLists
    <3> QED BY <1>4, <2>1, <3>1 DEF Program
  <2>4. CASE PmtStream
    <3>1. program' = program \/ \E s : program' = [program EXCEPT ![cur].streams = s]
      BY <2>4 DEF PmtStream
    <3> QED BY <1>4, <2>1, <3>1 DEF Program
  <2>5. CASE PmtBind
    <3>1. \E s, m : program'[j] \in {[program[j] EXCEPT !.streams = s, !.mine = m],
                                     [program[j] EXCEPT !.mine = m]}
      BY <2>5 DEF PmtBind
    <3> QED BY <2>1, <3>1 DEF Program
  <2> QED BY <2>2, <2>3, <2>4, <2>5
<1> QED BY <1>2, <1>5 DEF SamePmts

LEMMA SameAwait ==
  ASSUME SamePmts, UNCHANGED phase
  PROVE  PmtsAwaited' = PmtsAwaited
<1>1. ASSUME NEW x \in DOMAIN Packets
      PROVE  (\E i \in 1..Len(program') :
                /\ phase'[i] = 0 /\ Packets[x].pid = program'[i].pid
                /\ New(Packets[x], program'[i].pmt))
             <=> \E i \in 1..Len(program) :
                phase[i] = 0 /\ Packets[x].pid = program[i].pid /\ New(Packets[x], program[i].pmt)
  BY DEF SamePmts
<1> QED BY <1>1 DEF PmtsAwaited, New

LEMMA HandlerCovers == ASSUME TypesInv, TypesInv', CoverInv, Handler PROVE CoverInv'
<1>1. IInv /\ PhasesFit /\ RolesMapped /\ CallPlace BY Typed
<1>2. UNCHANGED <<sbuf, off, call, stage, step, at>> BY DEF Handler, buffers, place
<1>3. pc # "idle"
  BY DEF Handler, PatRelease, PatForget, DropStream, PatEnd, PmtLists, PmtStream, PmtBind
<1>4. pat' = pat
  BY DEF Handler, PatRelease, PatForget, DropStream, PatEnd, PmtLists, PmtStream, PmtBind, PmtEnd
<1>5. step \in {"after", "last"} /\ stage # "rest" /\ call # "flush" BY <1>3 DEF CoverInv
<1>6. step = "after" => stage \in {"pmt", "proc"} BY <1>1, <1>5 DEF CallPlace
<1>7. step = "after" => pc # "pat" /\ pc' # "pat"
  <2>1. step = "after" => pc # "pat" BY DEF CoverInv
  <2>2. pc # "pat" => pc' # "pat"
    BY DEF Handler, PatRelease, PatForget, DropStream, PatEnd, PmtLists, PmtStream, PmtBind, PmtEnd
  <2> QED BY <2>1, <2>2
<1>8. CASE stage = "proc"
  <2>1. off = 0 BY <1>8 DEF CoverInv
  <2> QED BY <1>2, <1>5, <1>7, <1>8, <2>1, WorkCovers
<1>9. CASE step = "last" /\ stage # "proc"
  <2>1. stage \in Searches => CutAtPat BY <1>3, <1>9 DEF CoverInv
  <2>2. stage \in Searches => CutAtPat' BY <1>2, <1>4, <2>1 DEF CutAtPat, Pk
  <2> QED BY <1>2, <1>5, <1>9, <2>2 DEF CoverInv
<1>10. CASE step = "after" /\ stage = "pmt"
  <2>1. ~PmtComplete(phase) /\ Took BY <1>10 DEF CoverInv
  <2>2. pc # "pat" /\ pc' # "pat" BY <1>7, <1>10
  <2>3. phase' = phase BY <2>2 DEF Handler
  <2>4. DropStream \/ PmtLists \/ PmtStream \/ PmtBind \/ PmtEnd
    BY <2>2 DEF Handler, PatRelease, PatForget, PatEnd
  <2>5. IInv' /\ PhasesFit' BY DEF TypesInv, DInv
  <2>6. SamePmts BY <1>1, <2>4, <2>5, HandlersPmts
  <2>7. Awaiting' = Awaiting
    <3>1. Awaiting = PmtsAwaited BY <1>1, <2>1, <2>2, AwaitingPmt
    <3>2. Awaiting' = PmtsAwaited' BY <2>1, <2>2, <2>3, <2>5, AwaitingPmtNext
    <3> QED BY <2>3, <2>6, <3>1, <3>2, SameAwait
  <2>8. Pk(sbuf[at])' = Pk(sbuf[at]) BY <1>2 DEF Pk
  <2>9. Took' BY <1>2, <2>1, <2>6, <2>7, <2>8 DEF Took, SamePmts
  <2>10. ~PmtComplete(phase)' BY <2>1, <2>3
  <2> QED BY <1>2, <1>5, <1>10, <2>2, <2>9, <2>10 DEF CoverInv
<1> QED BY <1>5, <1>6, <1>8, <1>9, <1>10

LEMMA HandlerFailsCovers == ASSUME TypesInv, TypesInv', CoverInv, HandlerFails PROVE CoverInv'
<1>1. /\ IInv /\ PhasesFit /\ RolesMapped /\ CallPlace /\ sbuf \in Seq(Row) /\ Len(sbuf) \in Nat
  BY Typed
<1>2. pc = "end" /\ pc' = "idle" /\ program' = program /\ phase' = phase
  BY DEF HandlerFails, PmtEnd
<1>3. step = "after" /\ stage # "rest" BY <1>1, <1>2 DEF CallPlace, CoverInv
<1>4. stage \in {"pmt", "proc"} BY <1>1, <1>3 DEF CallPlace
<1>5. CASE stage = "proc"
  <2>1. off' = 0 BY <1>5 DEF HandlerFails, CoverInv
  <2>2. call' = "none" /\ stage' = "pat" /\ step' = "check"
    BY <1>5, FailPlace DEF HandlerFails
  <2> QED BY <1>2, <2>1, <2>2, ReturnCovers
<1>6. CASE stage = "pmt"
  <2>1. ~PmtComplete(phase) /\ Took BY <1>3, <1>6 DEF CoverInv
  <2>2. /\ off' = at /\ sbuf' = sbuf /\ call' = "none" /\ stage' = "pat" /\ step' = "check"
    BY <1>6 DEF HandlerFails, Return
  <2>3. Awaiting = PmtsAwaited BY <1>1, <1>2, <2>1, AwaitingPmt
  <2>4. Awaiting' = Awaiting
    <3>1. IInv' /\ PhasesFit' BY DEF TypesInv, DInv
    <3>2. Awaiting' = PmtsAwaited' BY <1>2, <2>1, <3>1, AwaitingPmtNext
    <3>3. SamePmts BY <1>2 DEF SamePmts
    <3> QED BY <1>2, <2>3, <3>2, <3>3, SameAwait
  <2>5. sbuf[at].pk \notin Awaiting
    <3>1. PICK k : k = Pk(sbuf[at]) OBVIOUS
    <3>2. PICK i \in 1..Len(program) : program[i].pid = k.pid /\ program[i].pmt = k.val
      BY <2>1, <3>1 DEF Took
    <3>3. ASSUME sbuf[at].pk \in PmtsAwaited PROVE FALSE
      <4>1. PICK j \in 1..Len(program) : k.pid = program[j].pid /\ New(k, program[j].pmt)
        BY <3>1, <3>3 DEF PmtsAwaited, Pk
      <4>2. j = i BY <1>1, <3>2, <4>1 DEF RolesMapped
      <4> QED BY <3>2, <4>1, <4>2 DEF New
    <3> QED BY <2>3, <3>3
  <2>6. at \in 1..Len(sbuf) /\ at \in Int BY <1>1, <2>1 DEF Took, CoversRest
  <2>7. Covers(sbuf, at, Awaiting) BY <1>1, <2>1, <2>5, <2>6, CoversNext DEF Took
  <2>8. ~Found' BY <1>2, <2>1 DEF Found
  <2>9. AtCheck' BY <2>2, <2>4, <2>7, <2>8 DEF AtCheck
  <2> QED BY <1>2, <2>2, <2>9 DEF CoverInv
<1> QED BY <1>4, <1>5, <1>6

LEMMA NextCovers ==
  ASSUME ~MayFlush, ~MayWithdraw, TypesInv, CoverInv, [DecoderNext]_dvars
  PROVE  TypesInv' /\ CoverInv'
<1>1. TypesInv' BY NextTypes
<1>2. CASE DecoderNext
  <2>1. ~Flush /\ ~Withdraw BY DEF Flush, Withdraw
  <2> QED
    BY <1>1, <1>2, <2>1, PutCovers, ClientCovers, CheckCovers, SearchedCovers, SearchEndCovers,
       SearchSkipCovers, SearchPatCovers, SearchPmtCovers, SearchedPmtCovers, SearchEcmCovers,
       ProcCovers, HandlerCovers, HandlerFailsCovers
    DEF DecoderNext
<1>3. CASE UNCHANGED dvars
  <2>1. /\ UNCHANGED <<program, pat, phase, keys, live, map, sbuf, off, pc>>
        /\ UNCHANGED <<call, stage, step, at>>
    BY <1>3 DEF dvars, vars, buffers, served, place
  <2>2. Awaiting' = Awaiting BY <2>1, AwaitingSame
  <2>3. /\ PmtComplete(phase)' <=> PmtComplete(phase)
        /\ Found' <=> Found
        /\ Complete' <=> Complete
        /\ SearchOn' <=> SearchOn
    BY <2>1 DEF Found, Complete, SearchOn, PmtComplete, EcmComplete, AllServed
  <2>4. CutAtPat' <=> CutAtPat BY <2>1 DEF CutAtPat, Pk
  <2>5. Took' <=> Took BY <2>1, <2>2 DEF Took, Pk
  <2>6. AtCheck' <=> AtCheck BY <2>1, <2>2, <2>3 DEF AtCheck
  <2>7. /\ Covers(sbuf, at - 1, Awaiting)' <=> Covers(sbuf, at - 1, Awaiting)
        /\ Covers(sbuf, off, Awaiting)' <=> Covers(sbuf, off, Awaiting)
    BY <2>1, <2>2
  <2>8. call' = call /\ stage' = stage /\ step' = step /\ pc' = pc /\ off' = off BY <2>1
  <2> QED BY <1>1, <2>3, <2>4, <2>5, <2>6, <2>7, <2>8 DEF CoverInv
<1> QED BY <1>1, <1>2, <1>3

\* What a search has passed is what its parsers have seen: no section that the
\* decoder still waits for lies before sbuf_offset between two calls, whatever
\* the stream, the order of the tables and the errors; the client neither
\* flushes nor withdraws, after which sbuf_offset is stale.
THEOREM SearchesCover ==
  ASSUME ~MayFlush, ~MayWithdraw
  PROVE  DecoderSpec => []SearchCovers
<1>1. DecoderInit => TypesInv /\ CoverInv BY InitTypes, InitCover
<1>2. TypesInv /\ CoverInv /\ [DecoderNext]_dvars => (TypesInv /\ CoverInv)'
  BY NextCovers
<1>3. TypesInv /\ CoverInv => SearchCovers
  <2> SUFFICES ASSUME TypesInv, CoverInv, Between PROVE Covered(off) BY DEF SearchCovers
  <2>1. BuffersFit /\ CallPlace BY Typed
  <2>2. AtCheck BY <2>1 DEF Between, CallPlace, CoverInv
  <2> QED BY <2>1, <2>2, CoveredIs DEF AtCheck
<1> QED BY <1>1, <1>2, <1>3, PTL DEF DecoderSpec

----------------------------------------------------------------------------
(* The decoder is the queue of PacketService.  While a call runs, the      *)
(* queue is still the one the client knew when it began.                   *)

QIn == IF call = "none" THEN Numbers(sbuf) ELSE base.in

QDone == IF call = "none" THEN Numbers(dbuf) ELSE base.done

QNext == IF call = "put" THEN base.next ELSE next

QTorn == res = "torn"

\* Comes of PacketService, for the queue as it was and as it is
Rising(s) == \A i, j \in 1..Len(s) : i < j => s[i] < s[j]

Elements(s) == {s[i] : i \in 1..Len(s)}

CameTo(a, d, s) ==
  LET t == From(d, Len(a) + 1)
  IN  d = a \o t /\ Rising(t) /\ Elements(t) \subseteq Elements(s)

LEMMA ComesIs == ASSUME NEW s, CameTo(QDone, QDone', s) PROVE Service!Comes(s)
BY DEF CameTo, QDone, Service!Comes, Service!From, Service!Increasing, Service!Members,
       From, Rising, Elements

\* put has returned.
NewOnes(m, n) == [i \in 1..n |-> m + i - 1]

LEMMA PutIs ==
  ASSUME ~QTorn, NEW n \in 1..MaxPut, QNext' = QNext + n,
         NEW all, all = QIn \o NewOnes(QNext, n),
         NEW j \in 1..Len(all), NEW left, left = From(all, j),
         \/ /\ \E k \in 0..(Len(left) - 1) :
                 QIn' = From(left, k + 1) /\ CameTo(QDone, QDone', SubSeq(left, 1, k))
            /\ QTorn' = QTorn
         \/ /\ QIn' = SubSeq(left, 1, IF Len(QIn) <= Len(left) THEN Len(QIn) ELSE Len(left))
            /\ QTorn' = (Len(QIn) > Len(left))
            /\ QDone' = QDone
  PROVE  Service!Put
<1>1. Service!From(all, j) = left BY DEF From, Service!From
<1>2. Service!Works(left) \/ Service!Refuses(left)
  <2>1. ASSUME QTorn' = QTorn,
               NEW k \in 0..(Len(left) - 1),
               QIn' = From(left, k + 1), CameTo(QDone, QDone', SubSeq(left, 1, k))
        PROVE  Service!Works(left)
    <3>1. Service!Comes(SubSeq(left, 1, k)) BY <2>1, ComesIs
    <3> QED BY <2>1, <3>1 DEF Service!Works, Service!From, From, QIn, QTorn
  <2>2. ASSUME QTorn' = (Len(QIn) > Len(left)), QDone' = QDone,
               QIn' = SubSeq(left, 1, IF Len(QIn) <= Len(left) THEN Len(QIn) ELSE Len(left))
        PROVE  Service!Refuses(left)
    BY <2>2 DEF Service!Refuses, QIn, QDone, QTorn
  <2> QED BY <2>1, <2>2
<1> QED BY <1>1, <1>2 DEF Service!Put, QIn, QNext, QTorn, NewOnes

\* flush has returned.
LEMMA FlushIs ==
  ASSUME ~QTorn, QNext' = QNext, NEW k \in 0..Len(QIn),
         CameTo(QDone, QDone', SubSeq(QIn, 1, k)),
         \/ QIn' = From(QIn, k + 1) /\ QTorn' = QTorn
         \/ QIn' = QIn /\ QTorn'
  PROVE  Service!Flush
<1>1. Service!Comes(SubSeq(QIn, 1, k)) BY ComesIs
<1>2. \/ QIn' = Service!From(QIn, k + 1) /\ QTorn' = QTorn
      \/ QIn' = QIn /\ QTorn' = TRUE
  BY DEF From, Service!From, QTorn
<1> QED BY <1>1, <1>2 DEF Service!Flush, QIn, QNext, QTorn

LEMMA StutterIs ==
  ASSUME QIn' = QIn, QDone' = QDone, QNext' = QNext, QTorn' = QTorn
  PROVE  UNCHANGED Service!vars
BY DEF Service!vars, QIn, QDone, QNext, QTorn

----------------------------------------------------------------------------
(* The numbers of the packets in a buffer.                                 *)

LEMMA NumbersAre ==
  ASSUME NEW s \in Seq(Row)
  PROVE  /\ Numbers(s) \in Seq(Int) /\ Len(Numbers(s)) = Len(s) /\ Len(s) \in Nat
         /\ \A i \in 1..Len(s) : Numbers(s)[i] = s[i].id
<1>1. Len(s) \in Nat /\ \A i \in 1..Len(s) : s[i].id \in Int BY RowsHave
<1>2. Numbers(s) \in [1..Len(s) -> Int] BY <1>1 DEF Numbers
<1>3. Numbers(s) \in Seq(Int) BY <1>1, <1>2, SeqDef
<1> QED BY <1>1, <1>2, <1>3 DEF Numbers

\* A piece of a buffer of numbers
LEMMA RestIs ==
  ASSUME NEW a \in Seq(Int), NEW m \in 1..(Len(a) + 1)
  PROVE  /\ From(a, m) \in Seq(Int) /\ Len(From(a, m)) = Len(a) - m + 1
         /\ \A i \in 1..(Len(a) - m + 1) : From(a, m)[i] = a[m + i - 1]
<1>1. Len(a) \in Nat /\ m \in Nat \ {0} BY LenProperties
<1>2. \A i \in m..Len(a) : a[i] \in Int BY <1>1, ElementOfSeq
<1>3. /\ From(a, m) \in Seq(Int)
      /\ Len(From(a, m)) = IF m <= Len(a) THEN Len(a) - m + 1 ELSE 0
      /\ \A i \in 1..(Len(a) - m + 1) : From(a, m)[i] = a[m + i - 1]
  BY <1>1, <1>2, SubSeqProperties DEF From
<1>4. (IF m <= Len(a) THEN Len(a) - m + 1 ELSE 0) = Len(a) - m + 1 BY <1>1
<1> QED BY <1>3, <1>4

LEMMA HeadIs ==
  ASSUME NEW a \in Seq(Int), NEW n \in 0..Len(a)
  PROVE  /\ SubSeq(a, 1, n) \in Seq(Int) /\ Len(SubSeq(a, 1, n)) = n
         /\ \A i \in 1..n : SubSeq(a, 1, n)[i] = a[i]
<1>1. Len(a) \in Nat /\ n \in Nat BY LenProperties
<1>2. \A i \in 1..n : a[i] \in Int BY <1>1, ElementOfSeq
<1>3. /\ SubSeq(a, 1, n) \in Seq(Int)
      /\ Len(SubSeq(a, 1, n)) = IF 1 <= n THEN n - 1 + 1 ELSE 0
      /\ \A i \in 1..(n - 1 + 1) : SubSeq(a, 1, n)[i] = a[1 + i - 1]
  BY <1>1, <1>2, SubSeqProperties
<1>4. \A i \in 1..n : i \in 1..(n - 1 + 1) /\ 1 + i - 1 = i BY <1>1
<1>5. (IF 1 <= n THEN n - 1 + 1 ELSE 0) = n BY <1>1
<1> QED BY <1>3, <1>4, <1>5

LEMMA NumbersFrom ==
  ASSUME NEW s \in Seq(Row), NEW m \in 1..(Len(s) + 1)
  PROVE  Numbers(From(s, m)) = From(Numbers(s), m)
<1>1. PICK t : t = From(s, m) OBVIOUS
<1>2. /\ t \in Seq(Row) /\ Len(t) = Len(s) - m + 1
      /\ \A i \in 1..Len(t) : m + i - 1 \in m..Len(s) /\ t[i] = s[m + i - 1]
  <2>1. /\ t \in Seq(Row) /\ Len(t) = Len(s) - m + 1
        /\ \A i \in 1..(Len(s) - m + 1) : t[i] = s[m + i - 1]
    BY <1>1, RestRows
  <2>2. Len(s) \in Nat /\ m \in Nat BY LenProperties
  <2> QED BY <2>1, <2>2
<1>3. PICK a : a = Numbers(s) OBVIOUS
<1>4. a \in Seq(Int) /\ Len(a) = Len(s) /\ Len(s) \in Nat /\ \A i \in 1..Len(s) : a[i] = s[i].id
  BY <1>3, NumbersAre
<1>5. /\ From(a, m) \in Seq(Int) /\ Len(From(a, m)) = Len(s) - m + 1
      /\ \A i \in 1..(Len(s) - m + 1) : From(a, m)[i] = a[m + i - 1]
  BY <1>4, RestIs
<1>6. /\ Numbers(t) \in Seq(Int) /\ Len(Numbers(t)) = Len(t)
      /\ \A i \in 1..Len(t) : Numbers(t)[i] = t[i].id
  BY <1>2, NumbersAre
<1>7. ASSUME NEW i \in 1..Len(t) PROVE Numbers(t)[i] = From(a, m)[i]
  <2>1. m + i - 1 \in 1..Len(s) /\ t[i] = s[m + i - 1]
    <3>1. m + i - 1 \in m..Len(s) /\ t[i] = s[m + i - 1] BY <1>2
    <3>2. m..Len(s) \subseteq 1..Len(s) BY <1>4
    <3> QED BY <3>1, <3>2
  <2> QED BY <1>2, <1>4, <1>5, <1>6, <2>1
<1>8. Numbers(t) = From(a, m) BY <1>2, <1>5, <1>6, <1>7, SeqEqual
<1> QED BY <1>1, <1>3, <1>8

LEMMA NumbersFirst ==
  ASSUME NEW s \in Seq(Row), NEW n \in 0..Len(s)
  PROVE  Numbers(SubSeq(s, 1, n)) = SubSeq(Numbers(s), 1, n)
<1>1. PICK t : t = SubSeq(s, 1, n) OBVIOUS
<1>2. t \in Seq(Row) /\ Len(t) = n /\ \A i \in 1..n : t[i] = s[i]
  <2>1. First(s, n, t) BY <1>1, FirstOf
  <2> QED BY <2>1 DEF First
<1>3. PICK a : a = Numbers(s) OBVIOUS
<1>4. a \in Seq(Int) /\ Len(a) = Len(s) /\ Len(s) \in Nat /\ \A i \in 1..Len(s) : a[i] = s[i].id
  BY <1>3, NumbersAre
<1>5. /\ SubSeq(a, 1, n) \in Seq(Int) /\ Len(SubSeq(a, 1, n)) = n
      /\ \A i \in 1..n : SubSeq(a, 1, n)[i] = a[i]
  BY <1>4, HeadIs
<1>6. /\ Numbers(t) \in Seq(Int) /\ Len(Numbers(t)) = n
      /\ \A i \in 1..n : Numbers(t)[i] = t[i].id
  BY <1>2, NumbersAre
<1>7. ASSUME NEW i \in 1..n PROVE Numbers(t)[i] = SubSeq(a, 1, n)[i]
  <2>1. i \in 1..Len(s) BY <1>4
  <2> QED BY <1>2, <1>4, <1>5, <1>6, <2>1
<1>8. Numbers(t) = SubSeq(a, 1, n) BY <1>5, <1>6, <1>7, SeqEqual
<1> QED BY <1>1, <1>3, <1>8

LEMMA NumbersJoined ==
  ASSUME NEW s \in Seq(Row), NEW t \in Seq(Row)
  PROVE  Numbers(s \o t) = Numbers(s) \o Numbers(t)
<1>1. PICK u, a, b : u = s \o t /\ a = Numbers(s) /\ b = Numbers(t) OBVIOUS
<1>2. /\ u \in Seq(Row) /\ Len(u) = Len(s) + Len(t)
      /\ \A i \in 1..Len(s) + Len(t) : u[i] = IF i <= Len(s) THEN s[i] ELSE t[i - Len(s)]
  BY <1>1, ConcatProperties
<1>3. /\ a \in Seq(Int) /\ Len(a) = Len(s) /\ Len(s) \in Nat /\ \A i \in 1..Len(s) : a[i] = s[i].id
      /\ b \in Seq(Int) /\ Len(b) = Len(t) /\ Len(t) \in Nat /\ \A i \in 1..Len(t) : b[i] = t[i].id
  BY <1>1, NumbersAre
<1>4. /\ a \o b \in Seq(Int) /\ Len(a \o b) = Len(s) + Len(t)
      /\ \A i \in 1..Len(s) + Len(t) : (a \o b)[i] = IF i <= Len(s) THEN a[i] ELSE b[i - Len(s)]
  <2>1. a \in Seq(Int) /\ b \in Seq(Int) BY <1>3
  <2>2. /\ a \o b \in Seq(Int) /\ Len(a \o b) = Len(a) + Len(b)
        /\ \A i \in 1..Len(a) + Len(b) :
             (a \o b)[i] = IF i <= Len(a) THEN a[i] ELSE b[i - Len(a)]
    BY <2>1, ConcatProperties
  <2>3. Len(a) = Len(s) /\ Len(b) = Len(t) BY <1>3
  <2> QED BY <2>2, <2>3
<1>5. /\ Numbers(u) \in Seq(Int) /\ Len(Numbers(u)) = Len(u)
      /\ \A i \in 1..Len(u) : Numbers(u)[i] = u[i].id
  BY <1>2, NumbersAre
<1>6. ASSUME NEW i \in 1..Len(u) PROVE Numbers(u)[i] = (a \o b)[i]
  <2>1. CASE i <= Len(s)
    <3>1. i \in 1..Len(s) BY <1>3, <2>1
    <3> QED BY <1>2, <1>3, <1>4, <1>5, <2>1, <3>1
  <2>2. CASE ~(i <= Len(s))
    <3>1. i - Len(s) \in 1..Len(t) BY <1>2, <1>3, <2>2
    <3> QED BY <1>2, <1>3, <1>4, <1>5, <2>2, <3>1
  <2> QED BY <2>1, <2>2
<1>7. Numbers(u) = a \o b BY <1>2, <1>4, <1>5, <1>6, SeqEqual
<1> QED BY <1>1, <1>7

LEMMA NumbersAppended ==
  ASSUME NEW s \in Seq(Row), NEW y \in Row
  PROVE  Numbers(Append(s, y)) = Append(Numbers(s), y.id)
<1>1. PICK u, a : u = Append(s, y) /\ a = Numbers(s) OBVIOUS
<1>2. u \in Seq(Row) /\ Len(u) = Len(s) + 1 /\ (\A i \in 1..Len(s) : u[i] = s[i]) /\ u[Len(s) + 1] = y
  BY <1>1, AppendProperties
<1>3. a \in Seq(Int) /\ Len(a) = Len(s) /\ Len(s) \in Nat /\ \A i \in 1..Len(s) : a[i] = s[i].id
  BY <1>1, NumbersAre
<1>4. y.id \in Int BY DEF Row
<1>5. PICK b : b = Append(a, y.id) OBVIOUS
<1>6. b \in Seq(Int) /\ Len(b) = Len(s) + 1 /\ (\A i \in 1..Len(s) : b[i] = a[i]) /\ b[Len(s) + 1] = y.id
  BY <1>3, <1>4, <1>5, AppendProperties
<1>7. Numbers(u) \in Seq(Int) /\ Len(Numbers(u)) = Len(u) /\ \A i \in 1..Len(u) : Numbers(u)[i] = u[i].id
  BY <1>2, NumbersAre
<1>8. ASSUME NEW i \in 1..Len(u) PROVE Numbers(u)[i] = b[i]
  <2>1. i \in 1..Len(s) \/ i = Len(s) + 1 BY <1>2, <1>3
  <2> QED BY <1>2, <1>3, <1>6, <1>7, <2>1
<1>9. Numbers(u) = b BY <1>2, <1>6, <1>7, <1>8, SeqEqual
<1> QED BY <1>1, <1>5, <1>9

LEMMA NumbersSame ==
  ASSUME NEW s \in Seq(Row), NEW p \in 1..Len(s), NEW y \in Row, y.id = s[p].id
  PROVE  Numbers([s EXCEPT ![p] = y]) = Numbers(s)
<1>1. PICK u : u = [s EXCEPT ![p] = y] OBVIOUS
<1>2. u \in Seq(Row) /\ Len(u) = Len(s) /\ \A j \in 1..Len(s) : u[j] = IF j = p THEN y ELSE s[j]
  BY <1>1, ExceptSeq
<1>3. \A i \in 1..Len(s) : u[i].id = s[i].id BY <1>2
<1>4. Numbers(u) = Numbers(s) BY <1>2, <1>3 DEF Numbers
<1> QED BY <1>1, <1>4

LEMMA RestOfRest ==
  ASSUME NEW a \in Seq(Int), NEW i \in 1..(Len(a) + 1), NEW j \in 1..(Len(a) - i + 2)
  PROVE  From(From(a, i), j) = From(a, i + j - 1)
<1>1. Len(a) \in Nat /\ i \in Nat /\ j \in Nat /\ i >= 1 /\ j >= 1 BY LenProperties
<1>2. PICK b : b = From(a, i) OBVIOUS
<1>3. /\ b \in Seq(Int) /\ Len(b) = Len(a) - i + 1
      /\ \A k \in 1..(Len(a) - i + 1) : b[k] = a[i + k - 1]
  BY <1>2, RestIs
<1>4. j \in 1..(Len(b) + 1) BY <1>1, <1>3
<1>5. PICK c : c = From(b, j) OBVIOUS
<1>6. /\ c \in Seq(Int) /\ Len(c) = Len(b) - j + 1
      /\ \A k \in 1..(Len(b) - j + 1) : c[k] = b[j + k - 1]
  BY <1>3, <1>4, <1>5, RestIs
<1>7. PICK n : n = i + j - 1 OBVIOUS
<1>8. n \in 1..(Len(a) + 1) BY <1>1, <1>7
<1>9. PICK d : d = From(a, n) OBVIOUS
<1>10. /\ d \in Seq(Int) /\ Len(d) = Len(a) - n + 1
       /\ \A k \in 1..(Len(a) - n + 1) : d[k] = a[n + k - 1]
  BY <1>8, <1>9, RestIs
<1>11. Len(c) = Len(d) BY <1>1, <1>3, <1>6, <1>7, <1>10
<1>12. ASSUME NEW k \in 1..Len(c) PROVE c[k] = d[k]
  <2>1. /\ k \in 1..(Len(b) - j + 1) /\ j + k - 1 \in 1..(Len(a) - i + 1)
        /\ i + (j + k - 1) - 1 = n + k - 1 /\ k \in 1..(Len(a) - n + 1)
    <3>1. Len(b) = Len(a) - i + 1 /\ Len(c) = Len(b) - j + 1 BY <1>3, <1>6
    <3>2. k \in Nat /\ k >= 1 /\ k <= Len(c) BY <1>1, <3>1
    <3> QED BY <1>1, <1>7, <3>1, <3>2
  <2> QED BY <1>3, <1>6, <1>10, <2>1
<1>13. c = d BY <1>6, <1>10, <1>11, <1>12, SeqEqual
<1> QED BY <1>2, <1>5, <1>7, <1>9, <1>13

\* What has come out of s
LEMMA CameIs ==
  ASSUME NEW a \in Seq(Int), NEW d \in Seq(Int), Len(a) <= Len(d),
         \A i \in 1..Len(a) : d[i] = a[i], Rising(d), NEW s,
         \A i \in (Len(a) + 1)..Len(d) : \E j \in 1..Len(s) : d[i] = s[j]
  PROVE  CameTo(a, d, s)
<1>1. Len(a) \in Nat /\ Len(d) \in Nat BY LenProperties
<1>2. PICK m \in Nat : m = Len(a) + 1 BY <1>1
<1>3. m \in 1..(Len(d) + 1) BY <1>1, <1>2
<1>4. PICK t : t = From(d, m) OBVIOUS
<1>5. /\ t \in Seq(Int) /\ Len(t) = Len(d) - m + 1
      /\ \A i \in 1..(Len(d) - m + 1) : t[i] = d[m + i - 1]
  BY <1>3, <1>4, RestIs
<1>6. PICK u : u = a \o t OBVIOUS
<1>7. /\ u \in Seq(Int) /\ Len(u) = Len(a) + Len(t)
      /\ \A i \in 1..Len(a) + Len(t) : u[i] = IF i <= Len(a) THEN a[i] ELSE t[i - Len(a)]
  BY <1>5, <1>6, ConcatProperties
<1>8. Len(u) = Len(d) BY <1>1, <1>2, <1>5, <1>7
<1>9. ASSUME NEW i \in 1..Len(u) PROVE u[i] = d[i]
  <2>1. CASE i <= Len(a)
    <3>1. i \in 1..Len(a) BY <1>1, <2>1
    <3> QED BY <1>7, <2>1, <3>1
  <2>2. CASE ~(i <= Len(a))
    <3>1. i - Len(a) \in 1..(Len(d) - m + 1) /\ m + (i - Len(a)) - 1 = i
      BY <1>1, <1>2, <1>8, <2>2
    <3>2. t[i - Len(a)] = d[i] BY <1>5, <3>1
    <3> QED BY <1>7, <2>2, <3>2
  <2> QED BY <2>1, <2>2
<1>10. u = d BY <1>7, <1>8, <1>9, SeqEqual
<1>11. ASSUME NEW i \in 1..Len(t)
       PROVE  m + i - 1 \in m..Len(d) /\ m + i - 1 \in 1..Len(d) /\ t[i] = d[m + i - 1]
  <2>1. i \in 1..(Len(d) - m + 1) BY <1>5
  <2>2. m + i - 1 \in m..Len(d) /\ m + i - 1 \in 1..Len(d) BY <1>1, <1>2, <2>1
  <2> QED BY <1>5, <2>1, <2>2
<1>12. Rising(t)
  <2> SUFFICES ASSUME NEW i \in 1..Len(t), NEW j \in 1..Len(t), i < j PROVE t[i] < t[j]
    BY DEF Rising
  <2>1. m + i - 1 < m + j - 1 BY <1>2
  <2> QED BY <1>11, <2>1 DEF Rising
<1>13. Elements(t) \subseteq Elements(s)
  <2> SUFFICES ASSUME NEW i \in 1..Len(t) PROVE t[i] \in Elements(s) BY DEF Elements
  <2>1. \E j \in 1..Len(s) : d[m + i - 1] = s[j] BY <1>2, <1>11
  <2> QED BY <1>11, <2>1 DEF Elements
<1> QED BY <1>2, <1>4, <1>6, <1>10, <1>12, <1>13 DEF CameTo

----------------------------------------------------------------------------
(* What a call that runs has made of the queue its client knows.           *)

\* What put works with, from base b on to number n
All(b, n) == b.in \o NewOnes(b.next, n - b.next)

KeptDone(b, d) == Len(b.done) <= Len(d) /\ \A i \in 1..Len(b.done) : d[i] = b.done[i]

LeftOf(all, s) == \E j \in 1..Len(all) : s = From(all, j)

\* What flush has taken from s came to d, or was stripped.
Drained(b, s, d, w, st) ==
  \E c \in 0..Len(b.in) :
    /\ s = From(b.in, c + 1) /\ (st = "proc" => c = 0)
    /\ \A i \in (Len(b.done) + 1)..Len(d) : \E j \in 1..(c + w) : d[i] = b.in[j]

ServeInv ==
  /\ call \in {"none", "put", "flush"}
  /\ call # "none" =>
       /\ base.in \in Seq(Int) /\ base.done \in Seq(Int) /\ base.next \in Int
       /\ KeptDone(base, Numbers(dbuf))
  /\ call = "put" =>
       /\ slen = Len(base.in) /\ dlen = Len(base.done) /\ next - base.next \in 1..MaxPut
       /\ LeftOf(All(base, next), Numbers(sbuf))
       /\ Behind < Len(sbuf) /\ stage # "rest"
  /\ call = "flush" =>
       /\ stage \in {"proc", "rest"}
       /\ Drained(base, Numbers(sbuf), Numbers(dbuf), Behind, stage)

LEMMA NewOnesAre ==
  ASSUME NEW m \in Int, NEW n \in Nat
  PROVE  NewOnes(m, n) \in Seq(Int) /\ Len(NewOnes(m, n)) = n
<1>1. NewOnes(m, n) \in [1..n -> Int] BY DEF NewOnes
<1> QED BY <1>1, SeqDef

LEMMA Whole == ASSUME NEW a \in Seq(Int) PROVE From(a, 1) = a
<1>1. Len(a) \in Nat BY LenProperties
<1>2. 1 \in 1..(Len(a) + 1) BY <1>1
<1>3. PICK b : b = From(a, 1) OBVIOUS
<1>4. b \in Seq(Int) /\ Len(b) = Len(a) - 1 + 1 /\ \A i \in 1..(Len(a) - 1 + 1) : b[i] = a[1 + i - 1]
  BY <1>2, <1>3, RestIs
<1>5. Len(b) = Len(a) BY <1>1, <1>4
<1>6. ASSUME NEW i \in 1..Len(b) PROVE b[i] = a[i]
  <2>1. i \in 1..(Len(a) - 1 + 1) /\ 1 + i - 1 = i BY <1>4
  <2> QED BY <1>4, <2>1
<1>7. b = a BY <1>4, <1>5, <1>6, SeqEqual
<1> QED BY <1>3, <1>7

\* Nothing has come.
LEMMA NothingCame ==
  ASSUME NEW a \in Seq(Int), Rising(a), NEW s PROVE CameTo(a, a, s)
<1>1. Len(a) \in Nat BY LenProperties
<1>2. (Len(a) + 1)..Len(a) = {} BY <1>1
<1> QED BY <1>1, <1>2, CameIs

LEMMA NumbersRise == ASSUME NEW s \in Seq(Row), Increasing(s) PROVE Rising(Numbers(s))
<1>1. Len(Numbers(s)) = Len(s) /\ \A i \in 1..Len(s) : Numbers(s)[i] = s[i].id BY NumbersAre
<1> QED BY <1>1 DEF Increasing, Rising

----------------------------------------------------------------------------
(* The calls of the client.                                                *)

LEMMA PutServes ==
  ASSUME BuffersFit, CallPlace, QueueInv, Put
  PROVE  ServeInv' /\ [Service!Next]_Service!vars
<1>1. /\ call = "none" /\ Behind = 0 /\ stage = "pat" /\ step = "check" /\ res # "torn"
      /\ sbuf \in Seq(Row) /\ dbuf \in Seq(Row) /\ Line(sbuf, dbuf, 0)
  BY IdleQueue DEF Put, Idle
<1>2. PICK n \in 1..MaxPut :
        /\ next' = next + n
        /\ \E in \in [1..n -> DOMAIN Packets] :
             sbuf' = sbuf \o [i \in 1..n |-> [id |-> next + i - 1, pk |-> in[i], by |-> None]]
  BY DEF Put
<1>3. PICK in, a :
        /\ in \in [1..n -> DOMAIN Packets]
        /\ a = [i \in 1..n |-> [id |-> next + i - 1, pk |-> in[i], by |-> None]]
        /\ sbuf' = sbuf \o a
  BY <1>2
<1>4. a \in Seq(Row) /\ Len(a) = n /\ Numbers(a) = NewOnes(next, n)
  <2>1. next \in Int BY DEF BuffersFit
  <2>2. \A i \in 1..n : [id |-> next + i - 1, pk |-> in[i], by |-> None] \in Row
    BY <1>3, <2>1 DEF Row
  <2>3. a \in [1..n -> Row] BY <1>3, <2>2
  <2>4. n \in Nat OBVIOUS
  <2>5. a \in Seq(Row) /\ Len(a) = n BY <2>3, <2>4, SeqDef
  <2>6. Numbers(a) = NewOnes(next, n) BY <1>3, <2>5 DEF Numbers, NewOnes
  <2> QED BY <2>5, <2>6
<1>5. PICK s, d, all : s = Numbers(sbuf) /\ d = Numbers(dbuf) /\ all = s \o NewOnes(next, n)
  OBVIOUS
<1>6. /\ s \in Seq(Int) /\ Len(s) = Len(sbuf) /\ Len(s) \in Nat
      /\ d \in Seq(Int) /\ Len(d) = Len(dbuf) /\ Rising(d)
  BY <1>1, <1>5, NumbersAre, NumbersRise DEF Line
<1>7. Numbers(sbuf') = all /\ Len(sbuf') = Len(sbuf) + n
  <2>1. Numbers(sbuf \o a) = Numbers(sbuf) \o Numbers(a) BY <1>1, <1>4, NumbersJoined
  <2>2. Len(sbuf \o a) = Len(sbuf) + Len(a) BY <1>1, <1>4, ConcatProperties
  <2> QED BY <1>3, <1>4, <1>5, <2>1, <2>2
<1>8. all \in Seq(Int) /\ Len(all) = Len(s) + n
  <2>1. next \in Int /\ n \in Nat BY DEF BuffersFit
  <2>2. NewOnes(next, n) \in Seq(Int) /\ Len(NewOnes(next, n)) = n BY <2>1, NewOnesAre
  <2>3. PICK b : b = NewOnes(next, n) OBVIOUS
  <2>4. s \in Seq(Int) /\ b \in Seq(Int) /\ Len(b) = n BY <1>6, <2>2, <2>3
  <2>5. s \o b \in Seq(Int) /\ Len(s \o b) = Len(s) + Len(b) BY <2>4, ConcatProperties
  <2> QED BY <1>5, <2>3, <2>4, <2>5
<1>9. From(all, 1) = all /\ 1 \in 1..Len(all) BY <1>6, <1>8, Whole
<1>10. dbuf' = dbuf BY DEF Put
<1>11. CASE unit'
  <2>1. /\ call' = "put" /\ slen' = Len(sbuf) /\ dlen' = Len(dbuf)
        /\ base' = [next |-> next, in |-> s, done |-> d]
        /\ UNCHANGED <<stage, step, at, res>>
    BY <1>5, <1>11 DEF Put, Base
  <2>2. base'.in = s /\ base'.done = d /\ base'.next = next BY <2>1
  <2>3. All(base', next') = all
    <3>1. next' - base'.next = n BY <1>2, <2>2 DEF BuffersFit
    <3> QED BY <1>5, <2>2, <3>1 DEF All
  <2>4. Behind' = 0 BY <1>1, <2>1 DEF Behind
  <2>5. LeftOf(All(base', next'), Numbers(sbuf')) BY <1>7, <1>9, <2>3 DEF LeftOf
  <2>6. KeptDone(base', Numbers(dbuf')) BY <1>5, <1>6, <1>10, <2>2 DEF KeptDone
  <2>7. next' - base'.next \in 1..MaxPut BY <1>2, <2>2 DEF BuffersFit
  <2>8. 0 < Len(sbuf') BY <1>6, <1>7
  <2>9. ServeInv'
    BY <1>1, <1>6, <2>1, <2>2, <2>4, <2>5, <2>6, <2>7, <2>8 DEF ServeInv, BuffersFit
  <2>10. UNCHANGED Service!vars
    BY <1>1, <1>5, <2>1, <2>2, StutterIs DEF QIn, QDone, QNext, QTorn
  <2> QED BY <2>9, <2>10
<1>12. CASE ~unit'
  <2>1. call' = "none" /\ res' = "ok" BY <1>1, <1>12 DEF Put, place
  <2>2. ServeInv' BY <2>1 DEF ServeInv
  <2>3. QIn = s /\ QIn' = all /\ QDone = d /\ QDone' = d /\ QNext = next /\ QNext' = next + n
        /\ ~QTorn /\ ~QTorn'
    BY <1>1, <1>2, <1>5, <1>7, <1>10, <2>1 DEF QIn, QDone, QNext, QTorn
  <2>4. CameTo(d, d, SubSeq(all, 1, 0)) BY <1>6, NothingCame
  <2>5. 0 \in 0..(Len(all) - 1) /\ From(all, 0 + 1) = all BY <1>6, <1>8, <1>9
  <2>6. PICK z \in Nat : z = 0 OBVIOUS
  <2>7. \E k \in 0..(Len(all) - 1) :
           QIn' = From(all, k + 1) /\ CameTo(QDone, QDone', SubSeq(all, 1, k))
    <3>1. z \in 0..(Len(all) - 1) /\ From(all, z + 1) = all BY <2>5, <2>6
    <3>2. CameTo(d, d, SubSeq(all, 1, z)) BY <2>4, <2>6
    <3> QED BY <2>3, <3>1, <3>2
  <2>8. Service!Put
    <3>1. QTorn' = QTorn BY <2>3 DEF QTorn
    <3>2. all = QIn \o NewOnes(QNext, n) BY <1>5, <2>3
    <3>6. PICK j \in 1..Len(all) : j = 1 BY <1>9
    <3>3. PICK left : left = From(all, j) /\ left = all BY <1>9, <3>6
    <3>4. QNext' = QNext + n BY <2>3
    <3>5. \E k \in 0..(Len(left) - 1) :
             QIn' = From(left, k + 1) /\ CameTo(QDone, QDone', SubSeq(left, 1, k))
      BY <2>7, <3>3
    <3> QED BY <2>3, <3>1, <3>2, <3>3, <3>4, <3>5, PutIs
  <2> QED BY <2>2, <2>8 DEF Service!Next
<1> QED BY <1>11, <1>12

LEMMA FlushServes ==
  ASSUME BuffersFit, CallPlace, QueueInv, Flush
  PROVE  ServeInv' /\ [Service!Next]_Service!vars
<1>1. /\ call = "none" /\ Behind = 0 /\ stage = "pat" /\ res # "torn"
      /\ sbuf \in Seq(Row) /\ dbuf \in Seq(Row)
  BY IdleQueue DEF Flush, Idle
<1>2. UNCHANGED <<sbuf, dbuf, next>> BY DEF Flush, sent
<1>3. PICK s, d : s = Numbers(sbuf) /\ d = Numbers(dbuf) OBVIOUS
<1>4. s \in Seq(Int) /\ Len(s) \in Nat /\ d \in Seq(Int) /\ Len(d) \in Nat
  BY <1>1, <1>3, NumbersAre
<1>5. CASE unit'
  <2>1. /\ call' = "flush" /\ stage' = "proc" /\ step' = "loop" /\ at' = 1 /\ res' = res
        /\ base' = [next |-> next, in |-> s, done |-> d]
    BY <1>3, <1>5 DEF Flush, Base
  <2>2. base'.in = s /\ base'.done = d /\ base'.next = next BY <2>1
  <2>3. Drained(base', Numbers(sbuf'), Numbers(dbuf'), Behind', stage')
    <3>1. PICK c \in 0..Len(s) : c = 0 BY <1>4
    <3>2. s = From(s, c + 1) BY <1>4, <3>1, Whole
    <3>3. (Len(d) + 1)..Len(d) = {} BY <1>4
    <3> QED BY <1>2, <1>3, <2>2, <3>1, <3>2, <3>3 DEF Drained
  <2>4. KeptDone(base', Numbers(dbuf')) BY <1>2, <1>3, <1>4, <2>2 DEF KeptDone
  <2>5. ServeInv' BY <1>4, <2>1, <2>2, <2>3, <2>4 DEF ServeInv, BuffersFit
  <2>6. UNCHANGED Service!vars
    BY <1>1, <1>2, <1>3, <2>1, <2>2, StutterIs DEF QIn, QDone, QNext, QTorn
  <2> QED BY <2>5, <2>6
<1>6. CASE ~unit'
  <2>1. call' = "none" /\ res' = "error" BY <1>1, <1>6 DEF Flush, place
  <2>2. ServeInv' BY <2>1 DEF ServeInv
  <2>3. UNCHANGED Service!vars
    BY <1>1, <1>2, <2>1, StutterIs DEF QIn, QDone, QNext, QTorn
  <2> QED BY <2>2, <2>3
<1> QED BY <1>5, <1>6

LEMMA ClientServes ==
  ASSUME BuffersFit, CallPlace, QueueInv, Get \/ Withdraw \/ ResetDecoder
  PROVE  ServeInv' /\ [Service!Next]_Service!vars
<1>1. Numbers(<<>>) = <<>> BY DEF Numbers
<1>2. call = "none" /\ call' = "none"
  BY DEF Get, Withdraw, ResetDecoder, Idle, place
<1>3. ServeInv' BY <1>2 DEF ServeInv
<1>4. /\ QIn = Numbers(sbuf) /\ QIn' = Numbers(sbuf') /\ QNext = next /\ QNext' = next'
      /\ QDone = Numbers(dbuf) /\ QDone' = Numbers(dbuf')
  BY <1>2 DEF QIn, QDone, QNext
<1>5. CASE Get
  <2>1. /\ res # "torn" /\ dbuf' = <<>> /\ UNCHANGED <<sbuf, next, res>>
    BY <1>5 DEF Get, Idle, sent
  <2>2. ~QTorn /\ QTorn' = QTorn /\ QIn' = QIn /\ QNext' = QNext /\ QDone' = <<>>
    BY <1>1, <1>4, <2>1 DEF QTorn
  <2>3. Service!Get BY <2>2 DEF Service!Get, QIn, QDone, QNext, QTorn
  <2> QED BY <1>3, <2>3 DEF Service!Next
<1>6. CASE Withdraw
  <2>1. res # "torn" /\ sbuf' = <<>> /\ UNCHANGED <<dbuf, next, res>>
    BY <1>6 DEF Withdraw, Idle, sent
  <2>2. ~QTorn /\ QTorn' = QTorn /\ QIn' = <<>> /\ QNext' = QNext /\ QDone' = QDone
    BY <1>1, <1>4, <2>1 DEF QTorn
  <2>3. Service!Withdraw BY <2>2 DEF Service!Withdraw, QIn, QDone, QNext, QTorn
  <2> QED BY <1>3, <2>3 DEF Service!Next
<1>7. CASE ResetDecoder
  <2>1. sbuf' = <<>> /\ dbuf' = <<>> /\ res' = "ok" /\ next' = next
    BY <1>7 DEF ResetDecoder, sent
  <2>2. ~QTorn' /\ QIn' = <<>> /\ QNext' = QNext /\ QDone' = <<>>
    BY <1>1, <1>4, <2>1 DEF QTorn
  <2>3. Service!Reset BY <2>2 DEF Service!Reset, QIn, QDone, QNext, QTorn
  <2> QED BY <1>3, <2>3 DEF Service!Next
<1> QED BY <1>5, <1>6, <1>7

----------------------------------------------------------------------------
(* The call goes on: nothing for the client.                               *)

LEMMA RunsOn ==
  ASSUME call # "none", UNCHANGED <<call, base, next, res>>
  PROVE  UNCHANGED Service!vars
BY StutterIs DEF QIn, QDone, QNext, QTorn

LEMMA MovesServe ==
  ASSUME ServeInv, call # "none", UNCHANGED <<call, base, next, slen, dlen, res>>,
         Numbers(sbuf') = Numbers(sbuf), Len(sbuf') = Len(sbuf),
         KeptDone(base, Numbers(dbuf')),
         call = "put" => Behind' < Len(sbuf) /\ stage' # "rest",
         call = "flush" => /\ stage' \in {"proc", "rest"}
                           /\ Drained(base, Numbers(sbuf), Numbers(dbuf'), Behind', stage')
  PROVE  ServeInv' /\ [Service!Next]_Service!vars
<1>1. base' = base /\ call' = call /\ next' = next /\ slen' = slen /\ dlen' = dlen OBVIOUS
<1>2. ServeInv' BY <1>1 DEF ServeInv
<1> QED BY <1>2, RunsOn

----------------------------------------------------------------------------
(* The call returns.                                                       *)

LEMMA PutReturns ==
  ASSUME BuffersFit, QueueInv, ServeInv, res # "torn", call = "put",
         call' = "none", res' # "torn", UNCHANGED <<dbuf, next>>,
         sbuf' = From(sbuf, Behind + 1)
  PROVE  ServeInv' /\ [Service!Next]_Service!vars
<1>1. /\ sbuf \in Seq(Row) /\ dbuf \in Seq(Row) /\ Line(sbuf, dbuf, Behind)
      /\ Undo(sbuf, dbuf, Behind, dlen)
  BY DEF BuffersFit, QueueInv
<1>2. /\ base.in \in Seq(Int) /\ base.done \in Seq(Int) /\ base.next \in Int
      /\ KeptDone(base, Numbers(dbuf)) /\ dlen = Len(base.done)
      /\ next - base.next \in 1..MaxPut
      /\ LeftOf(All(base, next), Numbers(sbuf)) /\ Behind < Len(sbuf)
  BY DEF ServeInv
<1>3. PICK n \in 1..MaxPut : n = next - base.next BY <1>2
<1>4. PICK k \in 0..(Len(sbuf) - 1) : k = Behind
  <2>1. Behind \in 0..Len(sbuf) /\ Len(sbuf) \in Nat BY <1>1, RowsHave DEF Line
  <2> QED BY <1>2, <2>1
<1>5. PICK left, d, a : left = Numbers(sbuf) /\ d = Numbers(dbuf) /\ a = base.done OBVIOUS
<1>6. /\ left \in Seq(Int) /\ Len(left) = Len(sbuf) /\ Len(sbuf) \in Nat
      /\ \A i \in 1..Len(sbuf) : left[i] = sbuf[i].id
      /\ d \in Seq(Int) /\ Len(d) = Len(dbuf) /\ Len(dbuf) \in Nat
      /\ \A i \in 1..Len(dbuf) : d[i] = dbuf[i].id
  BY <1>1, <1>5, NumbersAre
<1>7. Rising(d) BY <1>1, <1>5, NumbersRise DEF Line
<1>8. Len(SubSeq(left, 1, k)) = k /\ \A i \in 1..k : SubSeq(left, 1, k)[i] = left[i]
  <2>1. k \in 0..Len(left) BY <1>6
  <2> QED BY <1>6, <2>1, HeadIs
<1>9. CameTo(a, d, SubSeq(left, 1, k))
  <2>1. Len(a) <= Len(d) /\ \A i \in 1..Len(a) : d[i] = a[i] BY <1>2, <1>5 DEF KeptDone
  <2>2. ASSUME NEW i \in (Len(a) + 1)..Len(d)
        PROVE  \E j \in 1..Len(SubSeq(left, 1, k)) : d[i] = SubSeq(left, 1, k)[j]
    <3>1. i \in (dlen + 1)..Len(dbuf) BY <1>2, <1>5, <1>6
    <3>2. PICK j \in 1..k : dbuf[i].id = sbuf[j].id BY <1>1, <1>4, <3>1 DEF Undo
    <3>3. j \in 1..Len(sbuf) /\ i \in 1..Len(dbuf)
      <4>1. Len(a) \in Nat BY <1>2, <1>5, LenProperties
      <4> QED BY <1>5, <1>6, <4>1
    <3> QED BY <1>6, <1>8, <3>2, <3>3
  <2>3. a \in Seq(Int) BY <1>2, <1>5
  <2> QED BY <1>6, <1>7, <2>1, <2>2, <2>3, CameIs
<1>10. Numbers(sbuf') = From(left, k + 1)
  <2>1. k + 1 \in 1..(Len(sbuf) + 1) BY <1>6
  <2> QED BY <1>1, <1>4, <1>5, <2>1, NumbersFrom
<1>11. /\ QIn = base.in /\ QDone = a /\ QNext = base.next /\ ~QTorn /\ ~QTorn'
       /\ QIn' = From(left, k + 1) /\ QDone' = d /\ QNext' = next
  BY <1>5, <1>10 DEF QIn, QDone, QNext, QTorn
<1>12. Service!Put
  <2>1. PICK all : all = All(base, next) OBVIOUS
  <2>2. all = QIn \o NewOnes(QNext, n) BY <1>3, <1>11, <2>1 DEF All
  <2>3. PICK j \in 1..Len(all) : left = From(all, j) BY <1>2, <1>5, <2>1 DEF LeftOf
  <2>4. QNext' = QNext + n
    <3>1. next \in Int /\ base.next \in Int BY <1>2 DEF BuffersFit
    <3> QED BY <1>3, <1>11, <3>1
  <2>5. \E l \in 0..(Len(left) - 1) :
           QIn' = From(left, l + 1) /\ CameTo(QDone, QDone', SubSeq(left, 1, l))
    BY <1>6, <1>9, <1>11
  <2>6. QTorn' = QTorn BY <1>11 DEF QTorn
  <2> QED BY <1>11, <2>2, <2>3, <2>4, <2>5, <2>6, PutIs
<1> QED BY <1>12 DEF ServeInv, Service!Next

LEMMA FlushReturns ==
  ASSUME BuffersFit, ServeInv, res # "torn", call = "flush",
         call' = "none", next' = next, NEW D \in Seq(Row), Increasing(D), dbuf' = D,
         KeptDone(base, Numbers(D)),
         NEW k \in 0..Len(base.in),
         \A i \in (Len(base.done) + 1)..Len(D) : \E j \in 1..k : Numbers(D)[i] = base.in[j],
         \/ Numbers(sbuf') = From(base.in, k + 1) /\ res' # "torn"
         \/ Numbers(sbuf') = base.in /\ res' = "torn"
  PROVE  ServeInv' /\ [Service!Next]_Service!vars
<1>1. base.in \in Seq(Int) /\ base.done \in Seq(Int) BY DEF ServeInv
<1>2. PICK s, a, d : s = base.in /\ a = base.done /\ d = Numbers(D) OBVIOUS
<1>3. d \in Seq(Int) /\ Len(d) = Len(D) /\ Rising(d) BY <1>2, NumbersAre, NumbersRise
<1>4. Len(SubSeq(s, 1, k)) = k /\ \A i \in 1..k : SubSeq(s, 1, k)[i] = s[i]
  BY <1>1, <1>2, HeadIs
<1>5. CameTo(a, d, SubSeq(s, 1, k))
  <2>1. Len(a) <= Len(d) /\ \A i \in 1..Len(a) : d[i] = a[i] BY <1>2 DEF KeptDone
  <2>2. ASSUME NEW i \in (Len(a) + 1)..Len(d)
        PROVE  \E j \in 1..Len(SubSeq(s, 1, k)) : d[i] = SubSeq(s, 1, k)[j]
    <3>1. PICK j \in 1..k : d[i] = s[j] BY <1>2, <1>3
    <3> QED BY <1>4, <3>1
  <2>3. a \in Seq(Int) BY <1>1, <1>2
  <2> QED BY <1>3, <2>1, <2>2, <2>3, CameIs
<1>6. /\ QIn = s /\ QDone = a /\ QNext = next /\ ~QTorn
      /\ QIn' = Numbers(sbuf') /\ QDone' = d /\ QNext' = next
  BY <1>2 DEF QIn, QDone, QNext, QTorn
<1>7. Service!Flush
  <2>1. k \in 0..Len(QIn) BY <1>2, <1>6
  <2>2. CameTo(QDone, QDone', SubSeq(QIn, 1, k)) BY <1>5, <1>6
  <2>3. \/ QIn' = From(QIn, k + 1) /\ QTorn' = QTorn
        \/ QIn' = QIn /\ QTorn'
    BY <1>2, <1>6 DEF QTorn
  <2> QED BY <1>6, <2>1, <2>2, <2>3, FlushIs
<1> QED BY <1>7 DEF ServeInv, Service!Next

LEMMA DoneIs ==
  ASSUME NEW b, b.done \in Seq(Int), NEW d \in Seq(Int), KeptDone(b, d)
  PROVE  Len(b.done) \in 0..Len(d) /\ SubSeq(d, 1, Len(b.done)) = b.done
<1>1. PICK a : a = b.done OBVIOUS
<1>2. a \in Seq(Int) /\ Len(a) \in Nat /\ Len(d) \in Nat BY <1>1, LenProperties
<1>3. Len(a) \in 0..Len(d) /\ \A i \in 1..Len(a) : d[i] = a[i] BY <1>1, <1>2 DEF KeptDone
<1>4. PICK c : c = SubSeq(d, 1, Len(a)) OBVIOUS
<1>5. c \in Seq(Int) /\ Len(c) = Len(a) /\ \A i \in 1..Len(a) : c[i] = d[i]
  BY <1>3, <1>4, HeadIs
<1>6. \A i \in 1..Len(c) : c[i] = a[i] BY <1>3, <1>5
<1>7. c = a BY <1>2, <1>5, <1>6, SeqEqual
<1> QED BY <1>1, <1>3, <1>4, <1>7

\* A packet fails.
LEMMA FailServes ==
  ASSUME BuffersFit, ServeInv, call # "none", res # "torn",
         NEW S \in Seq(Row), NEW D \in Seq(Row), NEW w \in {at - 1, at}, Line(S, D, w),
         call = "put" => Undo(S, D, w, dlen), at \in 1..Len(S),
         Numbers(S) = Numbers(sbuf), KeptDone(base, Numbers(D)),
         call = "flush" => Drained(base, Numbers(S), Numbers(D), w, stage),
         NEW r, r # "torn", Fail(S, D, r), next' = next
  PROVE  ServeInv' /\ [Service!Next]_Service!vars
<1>1. call' = "none" BY FailPlace
<1>2. PICK left, d : left = Numbers(S) /\ d = Numbers(D) OBVIOUS
<1>3. /\ left \in Seq(Int) /\ Len(left) = Len(S) /\ Len(S) \in Nat
      /\ d \in Seq(Int) /\ Len(d) = Len(D) /\ Len(D) \in Nat
      /\ at \in Nat
  BY <1>2, NumbersAre DEF BuffersFit
<1>4. /\ base.in \in Seq(Int) /\ base.done \in Seq(Int) /\ base.next \in Int
  BY DEF ServeInv
<1>5. CASE call = "put"
  <2>1. /\ slen = Len(base.in) /\ dlen = Len(base.done) /\ next - base.next \in 1..MaxPut
        /\ LeftOf(All(base, next), left)
    BY <1>2, <1>5 DEF ServeInv
  <2>2. PICK n \in 1..MaxPut : n = next - base.next BY <2>1
  <2>3. PICK m : m = IF slen < Len(S) THEN slen ELSE Len(S) OBVIOUS
  <2>4. m \in 0..Len(S) /\ m = (IF slen <= Len(S) THEN slen ELSE Len(S)) /\ slen \in Nat
    BY <1>3, <2>3 DEF BuffersFit
  <2>5. /\ sbuf' = SubSeq(S, 1, m) /\ dbuf' = SubSeq(D, 1, dlen)
        /\ res' = IF slen > Len(S) THEN "torn" ELSE r
    BY <1>5, <2>3 DEF Fail, Return
  <2>6. Numbers(sbuf') = SubSeq(left, 1, m) BY <1>2, <2>4, <2>5, NumbersFirst
  <2>7. Numbers(dbuf') = base.done
    <3>1. dlen \in 0..Len(D) /\ SubSeq(d, 1, dlen) = base.done
      BY <1>2, <1>3, <1>4, <2>1, DoneIs
    <3>2. Numbers(SubSeq(D, 1, dlen)) = SubSeq(Numbers(D), 1, dlen) BY <3>1, NumbersFirst
    <3> QED BY <1>2, <2>5, <3>1, <3>2
  <2>8. /\ QIn = base.in /\ QDone = base.done /\ QNext = base.next /\ ~QTorn
        /\ QIn' = SubSeq(left, 1, m) /\ QDone' = QDone /\ QNext' = next
        /\ QTorn' = (slen > Len(S))
    <3>1. QTorn' = (slen > Len(S)) BY <2>5 DEF QTorn
    <3> QED BY <1>1, <1>5, <2>6, <2>7, <3>1 DEF QIn, QDone, QNext, QTorn
  <2>9. Service!Put
    <3>1. PICK all : all = All(base, next) OBVIOUS
    <3>2. all = QIn \o NewOnes(QNext, n) BY <2>2, <2>8, <3>1 DEF All
    <3>3. PICK j \in 1..Len(all) : left = From(all, j) BY <2>1, <3>1 DEF LeftOf
    <3>4. QNext' = QNext + n
      <4>1. next \in Int BY DEF BuffersFit
      <4> QED BY <1>4, <2>2, <2>8, <4>1
    <3>5. /\ QIn' = SubSeq(left, 1, IF Len(QIn) <= Len(left) THEN Len(QIn) ELSE Len(left))
          /\ QTorn' = (Len(QIn) > Len(left))
      BY <1>3, <2>1, <2>4, <2>8
    <3> QED BY <2>8, <3>2, <3>3, <3>4, <3>5, PutIs
  <2> QED BY <1>1, <2>9 DEF ServeInv, Service!Next
<1>6. CASE call = "flush"
  <2>1. PICK c \in 0..Len(base.in) :
          /\ left = From(base.in, c + 1) /\ (stage = "proc" => c = 0)
          /\ \A i \in (Len(base.done) + 1)..Len(d) : \E j \in 1..(c + w) : d[i] = base.in[j]
    BY <1>2, <1>6 DEF Drained
  <2>2. Len(base.in) \in Nat /\ c \in Nat /\ Len(S) = Len(base.in) - c
    <3>1. Len(base.in) \in Nat BY <1>4, LenProperties
    <3>2. c + 1 \in 1..(Len(base.in) + 1) BY <3>1
    <3>3. Len(left) = Len(base.in) - (c + 1) + 1 BY <1>4, <2>1, <3>2, RestIs
    <3> QED BY <1>3, <3>1, <3>3
  <2>3. Increasing(D) BY DEF Line
  <2>4. CASE stage = "proc"
    <3>1. sbuf' = S /\ dbuf' = D /\ res' = "torn" BY <1>6, <2>4 DEF Fail, Return
    <3>2. Numbers(sbuf') = base.in
      <4>1. c + 1 = 1 BY <2>1, <2>4
      <4>2. left = base.in BY <1>4, <2>1, <4>1, Whole
      <4> QED BY <1>2, <3>1, <4>2
    <3>3. PICK k \in 0..Len(base.in) : k = w BY <1>3, <2>1, <2>2, <2>4
    <3>4. c + w = k BY <1>3, <2>1, <2>4, <3>3
    <3>5. \A i \in (Len(base.done) + 1)..Len(D) : \E j \in 1..k : Numbers(D)[i] = base.in[j]
      BY <1>2, <1>3, <2>1, <3>4
    <3> QED BY <1>1, <1>6, <2>3, <3>1, <3>2, <3>5, FlushReturns
  <2>5. CASE stage # "proc"
    <3>1. sbuf' = From(S, at + 1) /\ dbuf' = D /\ res' = r BY <1>6, <2>5 DEF Fail, Return
    <3>2. PICK k \in 0..Len(base.in) : k = c + at BY <1>3, <2>2
    <3>3. Numbers(sbuf') = From(base.in, k + 1)
      <4>1. at + 1 \in 1..(Len(S) + 1) BY <1>3
      <4>2. Numbers(From(S, at + 1)) = From(left, at + 1) BY <1>2, <4>1, NumbersFrom
      <4>3. c + 1 \in 1..(Len(base.in) + 1) /\ at + 1 \in 1..(Len(base.in) - (c + 1) + 2)
        BY <1>3, <2>2
      <4>4. From(From(base.in, c + 1), at + 1) = From(base.in, (c + 1) + (at + 1) - 1)
        BY <1>4, <4>3, RestOfRest
      <4>5. (c + 1) + (at + 1) - 1 = k + 1 BY <1>3, <2>2, <3>2
      <4> QED BY <2>1, <3>1, <4>2, <4>4, <4>5
    <3>4. \A i \in (Len(base.done) + 1)..Len(D) : \E j \in 1..k : Numbers(D)[i] = base.in[j]
      <4>1. 1..(c + w) \subseteq 1..k BY <1>3, <2>2, <3>2
      <4> QED BY <1>2, <1>3, <2>1, <4>1
    <3> QED BY <1>1, <1>6, <2>3, <3>1, <3>3, <3>4, FlushReturns
  <2> QED BY <2>4, <2>5
<1> QED BY <1>5, <1>6 DEF ServeInv

----------------------------------------------------------------------------
(* The packet loops.                                                       *)

\* Where the loop is
LEMMA LoopServes ==
  ASSUME BuffersFit, CallPlace, QueueInv, ServeInv, Working, More
  PROVE  /\ call # "none" /\ res # "torn" /\ at \in 1..Len(sbuf) /\ Len(sbuf) \in Nat
         /\ sbuf \in Seq(Row) /\ dbuf \in Seq(Row) /\ Behind = at - 1
         /\ Numbers(sbuf) \in Seq(Int) /\ Len(Numbers(sbuf)) = Len(sbuf)
         /\ call = "put" => at < Len(sbuf) /\ stage # "rest"
         /\ call = "flush" => stage \in {"proc", "rest"}
<1>1. /\ at \in 1..Len(sbuf) /\ sbuf \in Seq(Row) /\ dbuf \in Seq(Row) /\ Behind = at - 1
      /\ call # "none" /\ res # "torn" /\ stage \in {"proc", "rest"}
  BY WorkQueue
<1>2. call = "put" => stage # "rest" BY DEF ServeInv
<1>3. call = "put" => at < Len(sbuf) BY <1>1, <1>2 DEF More
<1>4. Numbers(sbuf) \in Seq(Int) /\ Len(Numbers(sbuf)) = Len(sbuf) /\ Len(sbuf) \in Nat
  BY <1>1, NumbersAre
<1> QED BY <1>1, <1>2, <1>3, <1>4

\* The packet at hand has been put out, or stripped.
LEMMA PassedServes ==
  ASSUME BuffersFit, CallPlace, QueueInv, ServeInv, Working, More,
         NEW D, \/ D = Numbers(dbuf)
                \/ D = Append(Numbers(dbuf), sbuf[at].id)
  PROVE  /\ KeptDone(base, D)
         /\ call = "flush" => Drained(base, Numbers(sbuf), D, at, stage)
<1>1. /\ call # "none" /\ at \in 1..Len(sbuf) /\ Len(sbuf) \in Nat /\ at \in Nat
      /\ sbuf \in Seq(Row) /\ dbuf \in Seq(Row) /\ Behind = at - 1
  BY LoopServes DEF BuffersFit
<1>2. PICK s, d, a : s = Numbers(sbuf) /\ d = Numbers(dbuf) /\ a = base.done OBVIOUS
<1>3. /\ s \in Seq(Int) /\ Len(s) = Len(sbuf) /\ s[at] = sbuf[at].id /\ s[at] \in Int
      /\ d \in Seq(Int) /\ Len(d) \in Nat
      /\ a \in Seq(Int) /\ Len(a) \in Nat /\ base.in \in Seq(Int) /\ Len(base.in) \in Nat
  <2>1. /\ s \in Seq(Int) /\ Len(s) = Len(sbuf) /\ s[at] = sbuf[at].id
        /\ d \in Seq(Int)
    BY <1>1, <1>2, NumbersAre
  <2>2. a \in Seq(Int) /\ base.in \in Seq(Int) BY <1>1, <1>2 DEF ServeInv
  <2>3. s[at] \in Int BY <1>1, <2>1, ElementOfSeq
  <2> QED BY <2>1, <2>2, <2>3, LenProperties
<1>4. \/ D = d
      \/ /\ D = Append(d, s[at]) /\ Len(D) = Len(d) + 1
         /\ \A i \in 1..Len(d) : D[i] = d[i]
         /\ D[Len(d) + 1] = s[at]
  <2>1. CASE D = Append(Numbers(dbuf), sbuf[at].id)
    <3>1. D = Append(d, s[at]) BY <1>2, <1>3, <2>1
    <3> QED BY <1>3, <3>1, AppendProperties
  <2> QED BY <1>2, <2>1
<1>5. Len(a) <= Len(d) /\ \A i \in 1..Len(a) : d[i] = a[i]
  BY <1>1, <1>2 DEF ServeInv, KeptDone
<1>6. KeptDone(base, D)
  <2>1. Len(a) <= Len(D) /\ \A i \in 1..Len(a) : i \in 1..Len(d) BY <1>3, <1>4, <1>5
  <2> QED BY <1>2, <1>4, <1>5, <2>1 DEF KeptDone
<1>7. ASSUME call = "flush" PROVE Drained(base, s, D, at, stage)
  <2>1. PICK c \in 0..Len(base.in) :
          /\ s = From(base.in, c + 1) /\ (stage = "proc" => c = 0)
          /\ \A i \in (Len(a) + 1)..Len(d) : \E j \in 1..(c + (at - 1)) : d[i] = base.in[j]
    BY <1>1, <1>2, <1>7 DEF ServeInv, Drained
  <2>2. s[at] = base.in[c + at]
    <3>1. c + 1 \in 1..(Len(base.in) + 1) BY <1>3
    <3>2. /\ Len(s) = Len(base.in) - (c + 1) + 1
          /\ \A i \in 1..(Len(base.in) - (c + 1) + 1) : s[i] = base.in[(c + 1) + i - 1]
      BY <1>3, <2>1, <3>1, RestIs
    <3>3. at \in 1..(Len(base.in) - (c + 1) + 1) /\ (c + 1) + at - 1 = c + at
      BY <1>1, <1>3, <3>2
    <3> QED BY <3>2, <3>3
  <2>3. ASSUME NEW i \in (Len(a) + 1)..Len(D) PROVE \E j \in 1..(c + at) : D[i] = base.in[j]
    <3>1. 1..(c + (at - 1)) \subseteq 1..(c + at) /\ c + at \in 1..(c + at) BY <1>1, <1>3
    <3>2. CASE i \in (Len(a) + 1)..Len(d)
      <4>1. i \in 1..Len(d) BY <1>3, <3>2
      <4>2. D[i] = d[i] BY <1>4, <4>1
      <4> QED BY <2>1, <3>1, <3>2, <4>2
    <3>3. CASE i \notin (Len(a) + 1)..Len(d)
      <4>1. i = Len(d) + 1 /\ D[i] = s[at] BY <1>3, <1>4, <3>3
      <4> QED BY <2>2, <3>1, <4>1
    <3> QED BY <3>2, <3>3
  <2> QED BY <1>2, <2>1, <2>3 DEF Drained
<1> QED BY <1>2, <1>6, <1>7

LEMMA PassesServe ==
  ASSUME BuffersFit, CallPlace, QueueInv, ServeInv, Working, More,
         UNCHANGED <<call, base, next, slen, dlen, res, stage>>,
         Numbers(sbuf') = Numbers(sbuf), Len(sbuf') = Len(sbuf), Behind' = at,
         \/ Numbers(dbuf') = Numbers(dbuf)
         \/ Numbers(dbuf') = Append(Numbers(dbuf), sbuf[at].id)
  PROVE  ServeInv' /\ [Service!Next]_Service!vars
<1>1. /\ call # "none" /\ (call = "put" => at < Len(sbuf) /\ stage # "rest")
      /\ call = "flush" => stage \in {"proc", "rest"}
  BY LoopServes
<1>2. PICK D : D = Numbers(dbuf') OBVIOUS
<1>3. KeptDone(base, D) /\ (call = "flush" => Drained(base, Numbers(sbuf), D, at, stage))
  BY <1>2, PassedServes
<1>4. stage' = stage OBVIOUS
<1> QED BY <1>1, <1>2, <1>3, <1>4, MovesServe

LEMMA OpenedNumbers ==
  ASSUME IInv, KeysFit, BuffersFit, CallPlace, QueueInv, Working, More,
         Openable(sbuf[at]),
         NEW S, S = [sbuf EXCEPT ![at] = Opened], NEW D, D = Append(dbuf, Opened)
  PROVE  /\ Numbers(S) = Numbers(sbuf) /\ Len(S) = Len(sbuf)
         /\ Numbers(D) = Append(Numbers(dbuf), sbuf[at].id)
<1>1. at \in 1..Len(sbuf) /\ sbuf \in Seq(Row) /\ dbuf \in Seq(Row) BY WorkQueue
<1>2. PICK y : y = Opened OBVIOUS
<1>3. y \in Row /\ y.id = sbuf[at].id BY <1>1, <1>2, OpenedIs
<1>4. Numbers(S) = Numbers(sbuf) BY <1>1, <1>2, <1>3, NumbersSame
<1>5. Len(S) = Len(sbuf) BY <1>1, <1>2, <1>3, ExceptSeq
<1>6. Numbers(D) = Append(Numbers(dbuf), y.id) BY <1>1, <1>2, <1>3, NumbersAppended
<1> QED BY <1>3, <1>4, <1>5, <1>6

LEMMA DeliveredServes ==
  ASSUME IInv, KeysFit, BuffersFit, CallPlace, QueueInv, ServeInv, Working, More,
         Openable(sbuf[at]), Deliver,
         UNCHANGED <<call, base, next, slen, dlen, res, stage>>,
         \/ at' = at + 1 /\ step' \in {"loop", "last"}
         \/ at' = at /\ step' = "after"
  PROVE  ServeInv' /\ [Service!Next]_Service!vars
<1>1. Behind' = at
  <2>1. stage \in {"proc", "rest"} /\ at \in Nat BY WorkQueue DEF BuffersFit
  <2> QED BY <2>1 DEF Behind
<1>2. /\ Numbers(sbuf') = Numbers(sbuf) /\ Len(sbuf') = Len(sbuf)
      /\ Numbers(dbuf') = Append(Numbers(dbuf), sbuf[at].id)
  BY OpenedNumbers DEF Deliver
<1> QED BY <1>1, <1>2, PassesServe

LEMMA FailsServes ==
  ASSUME BuffersFit, CallPlace, QueueInv, ServeInv, Working, More,
         NEW r, r # "torn", Fail(sbuf, dbuf, r), next' = next
  PROVE  ServeInv' /\ [Service!Next]_Service!vars
<1>1. /\ at \in 1..Len(sbuf) /\ sbuf \in Seq(Row) /\ dbuf \in Seq(Row) /\ Behind = at - 1
      /\ Line(sbuf, dbuf, at - 1)
      /\ call = "put" => Undo(sbuf, dbuf, at - 1, dlen)
      /\ call # "none" /\ res # "torn"
  BY WorkQueue
<1>2. PICK w \in {at - 1, at} : w = at - 1 OBVIOUS
<1>3. /\ KeptDone(base, Numbers(dbuf))
      /\ call = "flush" => Drained(base, Numbers(sbuf), Numbers(dbuf), w, stage)
  BY <1>1, <1>2 DEF ServeInv
<1>4. Line(sbuf, dbuf, w) /\ (call = "put" => Undo(sbuf, dbuf, w, dlen)) BY <1>1, <1>2
<1> QED BY <1>1, <1>3, <1>4, FailServes

LEMMA FailDeliveredServes ==
  ASSUME IInv, KeysFit, BuffersFit, CallPlace, QueueInv, ServeInv, Working, More,
         Openable(sbuf[at]), NEW r, r # "torn", FailDelivered(r), next' = next
  PROVE  ServeInv' /\ [Service!Next]_Service!vars
<1> DEFINE S == [sbuf EXCEPT ![at] = Opened]
           D == Append(dbuf, Opened)
<1>1. /\ S \in Seq(Row) /\ D \in Seq(Row) /\ Line(S, D, at)
      /\ call = "put" => Undo(S, D, at, dlen)
      /\ at \in 1..Len(S)
  BY DeliverQueue
<1>2. Fail(S, D, r) BY DEF FailDelivered
<1>3. Numbers(S) = Numbers(sbuf) /\ Numbers(D) = Append(Numbers(dbuf), sbuf[at].id)
  BY OpenedNumbers
<1> HIDE DEF S, D
<1>4. /\ KeptDone(base, Numbers(D))
      /\ call = "flush" => Drained(base, Numbers(S), Numbers(D), at, stage)
  BY <1>3, PassedServes
<1>5. call # "none" /\ res # "torn" BY LoopServes
<1> QED BY <1>1, <1>2, <1>3, <1>4, <1>5, FailServes

LEMMA EndServes ==
  ASSUME BuffersFit, CallPlace, QueueInv, ServeInv, ProcEnd
  PROVE  ServeInv' /\ [Service!Next]_Service!vars
<1>1. /\ call # "none" /\ res # "torn" /\ stage \in {"proc", "rest"} /\ step \in {"loop", "last"}
  BY DEF ProcEnd, Working, Here, CallPlace
<1>2. /\ Behind = at - 1 /\ at \in Nat \ {0} BY <1>1 DEF Behind, BuffersFit, ProcEnd, Here, Working
<1>3. sbuf' = From(sbuf, at) /\ UNCHANGED <<dbuf, next>> BY DEF ProcEnd, sent
<1>4. /\ sbuf \in Seq(Row) /\ dbuf \in Seq(Row) /\ Line(sbuf, dbuf, at - 1)
      /\ at - 1 \in 0..Len(sbuf) /\ Len(sbuf) \in Nat
  BY <1>1, <1>2, RowsHave DEF QueueInv, BuffersFit, Line
<1>5. CASE call = "put"
  <2>1. call' = "none" /\ res' # "torn" BY <1>5 DEF ProcEnd, Return
  <2>2. sbuf' = From(sbuf, Behind + 1) BY <1>2, <1>3
  <2> QED BY <1>1, <1>3, <1>5, <2>1, <2>2, PutReturns
<1>6. CASE call = "flush"
  <2>1. PICK s, d : s = Numbers(sbuf) /\ d = Numbers(dbuf) OBVIOUS
  <2>2. /\ s \in Seq(Int) /\ Len(s) = Len(sbuf) /\ d \in Seq(Int) /\ Len(d) = Len(dbuf)
        /\ base.in \in Seq(Int) /\ Len(base.in) \in Nat
    <3>1. base.in \in Seq(Int) BY <1>1 DEF ServeInv
    <3> QED BY <1>4, <2>1, <3>1, NumbersAre, LenProperties
  <2>3. PICK c \in 0..Len(base.in) :
          /\ s = From(base.in, c + 1) /\ (stage = "proc" => c = 0)
          /\ \A i \in (Len(base.done) + 1)..Len(d) :
               \E j \in 1..(c + (at - 1)) : d[i] = base.in[j]
    BY <1>2, <1>6, <2>1 DEF ServeInv, Drained
  <2>4. Len(s) = Len(base.in) - (c + 1) + 1 /\ c + 1 \in 1..(Len(base.in) + 1)
    <3>1. c + 1 \in 1..(Len(base.in) + 1) BY <2>2
    <3> QED BY <2>2, <2>3, <3>1, RestIs
  <2>5. PICK k \in 0..Len(base.in) : k = c + (at - 1) BY <1>2, <1>4, <2>2, <2>4
  <2>6. Numbers(sbuf') = From(base.in, k + 1)
    <3>1. at \in 1..(Len(sbuf) + 1) BY <1>2, <1>4
    <3>2. Numbers(From(sbuf, at)) = From(s, at) BY <1>4, <2>1, <3>1, NumbersFrom
    <3>3. at \in 1..(Len(base.in) - (c + 1) + 2) BY <1>2, <1>4, <2>2, <2>4
    <3>4. From(From(base.in, c + 1), at) = From(base.in, (c + 1) + at - 1)
      BY <2>2, <2>4, <3>3, RestOfRest
    <3>5. (c + 1) + at - 1 = k + 1 BY <1>2, <2>5
    <3> QED BY <1>3, <2>3, <3>2, <3>4, <3>5
  <2>7. /\ KeptDone(base, d) /\ Increasing(dbuf)
    BY <1>1, <1>4, <2>1 DEF ServeInv, Line
  <2>8. \A i \in (Len(base.done) + 1)..Len(d) : \E j \in 1..k : d[i] = base.in[j]
    BY <2>3, <2>5
  <2>9. CASE stage = "proc"
    <3>1. /\ UNCHANGED <<call, base, res>>
          /\ stage' = "rest" /\ step' = "loop" /\ at' = 1
      BY <1>6, <2>9 DEF ProcEnd
    <3>2. Behind' = 0 BY <3>1 DEF Behind
    <3>3. Drained(base, Numbers(sbuf'), d, 0, "rest")
      <4>1. 1..k = 1..(k + 0) OBVIOUS
      <4> QED BY <2>6, <2>8, <4>1 DEF Drained
    <3>4. d = Numbers(dbuf') BY <1>3, <2>1
    <3>5. call' = "flush" /\ base' = base /\ base.done \in Seq(Int) /\ base.next \in Int
      BY <1>6, <3>1 DEF ServeInv
    <3>6. ServeInv' BY <2>2, <2>7, <3>1, <3>2, <3>3, <3>4, <3>5 DEF ServeInv
    <3> QED BY <1>1, <1>3, <3>1, <3>6, RunsOn
  <2>10. CASE stage # "proc"
    <3>1. call' = "none" /\ res' = "ok" BY <2>10 DEF ProcEnd, Return
    <3>2. dbuf' = dbuf /\ next' = next BY <1>3
    <3>3. \A i \in (Len(base.done) + 1)..Len(dbuf) :
            \E j \in 1..k : Numbers(dbuf)[i] = base.in[j]
      BY <2>1, <2>2, <2>8
    <3>4. Numbers(sbuf') = From(base.in, k + 1) /\ res' # "torn" BY <2>6, <3>1
    <3>5. KeptDone(base, Numbers(dbuf)) /\ Increasing(dbuf) BY <2>1, <2>7
    <3> QED BY <1>1, <1>4, <1>6, <3>1, <3>2, <3>3, <3>4, <3>5, FlushReturns
  <2> QED BY <2>9, <2>10
<1> QED BY <1>1, <1>5, <1>6 DEF ServeInv

LEMMA ProcServes ==
  ASSUME IInv, KeysFit, BuffersFit, CallPlace, QueueInv, ServeInv,
         \/ ProcDamaged \/ ProcStrip \/ ProcNoKey \/ ProcRefused \/ ProcOther
         \/ ProcEcm \/ ProcEmm \/ ProcCat \/ ProcPmt \/ ProcedPmt \/ ProcPat
  PROVE  ServeInv' /\ [Service!Next]_Service!vars
<1>1. CASE ProcDamaged \/ ProcStrip
  <2>1. /\ Working /\ More /\ at' = at + 1
        /\ UNCHANGED <<sbuf, call, base, next, slen, dlen, res, stage, step>>
        /\ dbuf' = Append(dbuf, sbuf[at]) \/ dbuf' = dbuf
    BY <1>1 DEF ProcDamaged, ProcStrip, buffers, history, sent
  <2>2. /\ at \in 1..Len(sbuf) /\ sbuf \in Seq(Row) /\ dbuf \in Seq(Row)
        /\ stage \in {"proc", "rest"} /\ step = "loop" /\ at \in Nat
    BY <2>1, WorkQueue DEF BuffersFit
  <2>3. Behind' = at BY <2>1, <2>2 DEF Behind
  <2>4. PICK y : y = sbuf[at] OBVIOUS
  <2>5. y \in Row BY <2>2, <2>4, ElementOfSeq
  <2>6. Numbers(Append(dbuf, y)) = Append(Numbers(dbuf), y.id) BY <2>2, <2>5, NumbersAppended
  <2>7. \/ Numbers(dbuf') = Numbers(dbuf)
        \/ Numbers(dbuf') = Append(Numbers(dbuf), sbuf[at].id)
    BY <2>1, <2>4, <2>6
  <2> QED BY <2>1, <2>3, <2>7, PassesServe
<1>2. CASE ProcNoKey
  <2>1. Working /\ More /\ Fail(sbuf, dbuf, "no key") /\ next' = next
    BY <1>2 DEF ProcNoKey, sent
  <2> QED BY <2>1, FailsServes
<1>3. CASE ProcRefused
  <2>1. Working /\ More /\ Openable(sbuf[at]) /\ FailDelivered("error") /\ next' = next
    BY <1>3 DEF ProcRefused, sent
  <2> QED BY <2>1, FailDeliveredServes
<1>4. CASE ProcOther \/ ProcCat \/ ProcPat
  <2>1. /\ Working /\ More /\ Openable(sbuf[at]) /\ Deliver /\ at' = at + 1
        /\ step' \in {step, "loop", "last"}
        /\ UNCHANGED <<call, base, next, slen, dlen, res, stage>>
    BY <1>4 DEF ProcOther, ProcCat, ProcPat, Section, history, sent
  <2>2. step = "loop" BY <2>1 DEF Working, Here
  <2> QED BY <2>1, <2>2, DeliveredServes
<1>5. CASE ProcEcm \/ ProcEmm
  <2>1. /\ Working /\ More /\ Openable(sbuf[at]) /\ next' = next
        /\ \/ FailDelivered("error")
           \/ /\ Deliver /\ at' = at + 1 /\ step' = step
              /\ UNCHANGED <<call, base, slen, dlen, res, stage>>
    BY <1>5 DEF ProcEcm, ProcEmm, Section, sent
  <2>2. step = "loop" BY <2>1 DEF Working, Here
  <2>3. CASE FailDelivered("error") BY <2>1, <2>3, FailDeliveredServes
  <2>4. CASE Deliver /\ at' = at + 1 /\ step' = step
             /\ UNCHANGED <<call, base, slen, dlen, res, stage>>
    <3>1. UNCHANGED <<call, base, next, slen, dlen, res, stage>> BY <2>1, <2>4
    <3> QED BY <2>1, <2>2, <2>4, <3>1, DeliveredServes
  <2> QED BY <2>1, <2>3, <2>4
<1>6. CASE ProcPmt
  <2>1. /\ Working /\ More /\ Openable(sbuf[at]) /\ Deliver /\ at' = at /\ step' = "after"
        /\ UNCHANGED <<call, base, next, slen, dlen, res, stage>>
    BY <1>6 DEF ProcPmt, Section, history, sent
  <2> QED BY <2>1, DeliveredServes
<1>7. CASE ProcedPmt
  <2>1. /\ call # "none" /\ stage \in {"proc", "rest"} /\ step = "after"
        /\ step' = "loop" /\ at' = at + 1
        /\ UNCHANGED <<sbuf, dbuf, call, base, next, slen, dlen, res, stage>>
    BY <1>7 DEF ProcedPmt, Here, buffers, history, sent
  <2>2. Behind' = Behind BY <2>1 DEF Behind, BuffersFit
  <2> QED BY <2>1, <2>2, MovesServe DEF ServeInv
<1> QED BY <1>1, <1>2, <1>3, <1>4, <1>5, <1>6, <1>7

----------------------------------------------------------------------------
(* The searches.                                                           *)

\* Where a search is
LEMMA SearchServes ==
  ASSUME CallPlace, BuffersFit, ServeInv, call # "none", stage \in {"pat", "pmt", "ecm"}
  PROVE  /\ call = "put" /\ Behind = 0 /\ res # "torn" /\ sbuf \in Seq(Row)
         /\ Len(sbuf) \in Nat /\ 0 < Len(sbuf) /\ KeptDone(base, Numbers(dbuf))
<1>1. call = "put" BY DEF ServeInv
<1>2. Behind = 0 BY DEF Behind
<1>3. sbuf \in Seq(Row) BY DEF BuffersFit
<1> QED BY <1>1, <1>2, <1>3, RowsHave DEF ServeInv, CallPlace

\* It goes on, or proc_arib_std_b25 begins.
LEMMA SearchMoves ==
  ASSUME CallPlace, BuffersFit, ServeInv, call # "none", stage \in {"pat", "pmt", "ecm"},
         UNCHANGED <<sbuf, dbuf, call, base, next, slen, dlen, res>>,
         \/ stage' \in {"pat", "pmt", "ecm"}
         \/ stage' = "proc" /\ step' = "loop" /\ at' = 1
  PROVE  ServeInv' /\ [Service!Next]_Service!vars
<1>1. Behind' = 0 /\ stage' # "rest" BY DEF Behind
<1>2. /\ call = "put" /\ 0 < Len(sbuf) /\ KeptDone(base, Numbers(dbuf)) BY SearchServes
<1> QED BY <1>1, <1>2, MovesServe

\* It ends the call.
LEMMA SearchReturns ==
  ASSUME CallPlace, BuffersFit, QueueInv, ServeInv, call # "none",
         stage \in {"pat", "pmt", "ecm"},
         UNCHANGED <<sbuf, dbuf, next>>, call' = "none", res' # "torn"
  PROVE  ServeInv' /\ [Service!Next]_Service!vars
<1>1. call = "put" /\ Behind = 0 /\ res # "torn" /\ sbuf \in Seq(Row) BY SearchServes
<1>2. sbuf' = From(sbuf, Behind + 1)
  <2>1. Len(sbuf) \in Nat BY <1>1, RowsHave
  <2>2. 1 \in 1..(Len(sbuf) + 1) BY <2>1
  <2>3. PICK t : t = From(sbuf, 1) OBVIOUS
  <2>4. t \in Seq(Row) /\ Len(t) = Len(sbuf) - 1 + 1 /\ \A i \in 1..Len(t) : t[i] = sbuf[1 + i - 1]
    BY <1>1, <2>2, <2>3, RestOf
  <2>5. Len(t) = Len(sbuf) /\ \A i \in 1..Len(t) : t[i] = sbuf[i]
    <3>1. \A i \in 1..Len(t) : 1 + i - 1 = i BY <2>1, <2>4
    <3> QED BY <2>1, <2>4, <3>1
  <2>6. t = sbuf BY <1>1, <2>4, <2>5, SeqEqual
  <2> QED BY <1>1, <2>3, <2>6
<1> QED BY <1>1, <1>2, PutReturns

\* It drops what is before a new PAT.
LEMMA SearchDrops ==
  ASSUME CallPlace, BuffersFit, ServeInv, call # "none", stage \in {"pat", "pmt", "ecm"},
         UNCHANGED <<dbuf, call, base, next, slen, dlen, res, stage>>,
         at \in 1..Len(sbuf), at < Len(sbuf), sbuf' = From(sbuf, at)
  PROVE  ServeInv' /\ [Service!Next]_Service!vars
<1>1. /\ call = "put" /\ sbuf \in Seq(Row) /\ Len(sbuf) \in Nat
      /\ KeptDone(base, Numbers(dbuf))
  BY SearchServes
<1>2. at \in 1..(Len(sbuf) + 1) /\ at \in Nat BY <1>1
<1>3. PICK all, s : all = All(base, next) /\ s = Numbers(sbuf) OBVIOUS
<1>4. PICK j \in 1..Len(all) : s = From(all, j) BY <1>1, <1>3 DEF ServeInv, LeftOf
<1>5. all \in Seq(Int)
  <2>1. PICK n, b, c : n = next - base.next /\ b = base.in /\ c = NewOnes(base.next, n)
    OBVIOUS
  <2>2. n \in Nat /\ base.next \in Int BY <1>1, <2>1 DEF ServeInv
  <2>3. c \in Seq(Int) BY <2>1, <2>2, NewOnesAre
  <2>4. b \in Seq(Int) BY <1>1, <2>1 DEF ServeInv
  <2>5. b \o c \in Seq(Int) BY <2>3, <2>4, ConcatProperties
  <2> QED BY <1>3, <2>1, <2>5 DEF All
<1>6. /\ Len(all) \in Nat /\ Len(s) = Len(sbuf) /\ Len(s) = Len(all) - j + 1
      /\ j \in 1..(Len(all) + 1)
  <2>1. Len(all) \in Nat BY <1>5, LenProperties
  <2>2. j \in 1..(Len(all) + 1) BY <2>1
  <2> QED BY <1>1, <1>3, <1>4, <1>5, <2>1, <2>2, NumbersAre, RestIs
<1>7. Numbers(sbuf') = From(s, at) BY <1>1, <1>2, <1>3, NumbersFrom
<1>8. From(s, at) = From(all, j + at - 1)
  <2>1. at \in 1..(Len(all) - j + 2) BY <1>2, <1>6
  <2> QED BY <1>4, <1>5, <1>6, <2>1, RestOfRest
<1>9. LeftOf(all, Numbers(sbuf'))
  <2>1. j + at - 1 \in 1..Len(all) BY <1>2, <1>6
  <2> QED BY <1>7, <1>8, <2>1 DEF LeftOf
<1>10. Len(sbuf') > 0
  <2>1. Len(sbuf') = Len(sbuf) - at + 1 BY <1>1, <1>2, RestOf
  <2> QED BY <1>1, <1>2, <2>1
<1>11. Behind' = 0 /\ stage' # "rest" BY DEF Behind
<1>12. base' = base /\ call' = call /\ next' = next /\ slen' = slen /\ dlen' = dlen
       /\ dbuf' = dbuf
  OBVIOUS
<1>13. ServeInv' BY <1>1, <1>3, <1>9, <1>10, <1>11, <1>12 DEF ServeInv
<1> QED BY <1>13, RunsOn

LEMMA SearchesServe ==
  ASSUME BuffersFit, CallPlace, QueueInv, ServeInv,
         \/ Check \/ Searched
         \/ SearchEnd \/ SearchSkip \/ SearchPat \/ SearchPmt \/ SearchedPmt \/ SearchEcm
  PROVE  ServeInv' /\ [Service!Next]_Service!vars
<1>1. call # "none" /\ stage \in {"pat", "pmt", "ecm"}
  BY DEF Check, Searched, SearchEnd, SearchSkip, SearchPat, SearchPmt, SearchedPmt, SearchEcm,
         Searching, Here, CallPlace
<1>2. CASE Check
  <2>1. /\ UNCHANGED <<sbuf, dbuf, call, base, next, slen, dlen, res>>
        /\ \/ stage' \in {"pat", "pmt", "ecm"}
           \/ stage' = "proc" /\ step' = "loop" /\ at' = 1
    BY <1>1, <1>2 DEF Check, Proceed, buffers, sent
  <2> QED BY <1>1, <2>1, SearchMoves
<1>3. CASE Searched
  <2>1. UNCHANGED <<sbuf, dbuf, next>> BY <1>3 DEF Searched, sent
  <2>2. CASE Proceed
    <3>1. /\ UNCHANGED <<call, base, slen, dlen, res>>
          /\ \/ stage' \in {"pat", "pmt", "ecm"}
             \/ stage' = "proc" /\ step' = "loop" /\ at' = 1
      BY <1>1, <2>2 DEF Proceed
    <3> QED BY <1>1, <2>1, <3>1, SearchMoves
  <2>3. CASE Return(IF off < Limit THEN "warn" ELSE "error")
    <3>1. call' = "none" /\ res' # "torn" BY <2>3 DEF Return
    <3> QED BY <1>1, <2>1, <3>1, SearchReturns
  <2> QED BY <1>3, <2>2, <2>3 DEF Searched
<1>4. CASE SearchEnd \/ SearchSkip \/ SearchPmt \/ SearchedPmt
  <2>1. UNCHANGED <<sbuf, dbuf, call, base, next, slen, dlen, res, stage>>
    BY <1>4 DEF SearchEnd, SearchSkip, SearchPmt, SearchedPmt, buffers, history, sent
  <2> QED BY <1>1, <2>1, SearchMoves
<1>5. CASE SearchPat
  <2>1. /\ UNCHANGED <<dbuf, call, base, next, slen, dlen, res, stage>>
        /\ at < Len(sbuf) /\ Searching
    BY <1>5 DEF SearchPat, sent
  <2>2. sbuf' = sbuf \/ sbuf' = From(sbuf, at) BY <1>5 DEF SearchPat
  <2>3. at \in 1..Len(sbuf) BY <2>1, SearchAtHand
  <2> QED BY <1>1, <2>1, <2>2, <2>3, SearchMoves, SearchDrops
<1>6. CASE SearchEcm
  <2>1. UNCHANGED <<sbuf, dbuf, next>> BY <1>6 DEF SearchEcm, sent
  <2>2. \/ Return("error")
        \/ UNCHANGED <<call, stage, slen, dlen, res, base>>
    BY <1>6 DEF SearchEcm
  <2>3. CASE Return("error")
    <3>1. call' = "none" /\ res' # "torn" BY <2>3 DEF Return
    <3> QED BY <1>1, <2>1, <3>1, SearchReturns
  <2>4. CASE UNCHANGED <<call, stage, slen, dlen, res, base>>
    BY <1>1, <2>1, <2>4, SearchMoves
  <2> QED BY <2>2, <2>3, <2>4
<1> QED BY <1>2, <1>3, <1>4, <1>5, <1>6

----------------------------------------------------------------------------
(* The handlers, and the theorem.                                          *)

LEMMA HandlersServe ==
  ASSUME BuffersFit, CallPlace, QueueInv, ServeInv, Handler \/ HandlerFails
  PROVE  ServeInv' /\ [Service!Next]_Service!vars
<1>1. CASE Handler
  <2>1. UNCHANGED <<sbuf, dbuf, next, base, call, stage, step, at, slen, dlen, res>>
    BY <1>1 DEF Handler, buffers, place, history, sent
  <2>2. Behind' = Behind BY <2>1 DEF Behind
  <2>3. CASE call = "none"
    <3>1. ServeInv' BY <2>1, <2>3 DEF ServeInv
    <3>2. UNCHANGED Service!vars BY <2>1, StutterIs DEF QIn, QDone, QNext, QTorn
    <3> QED BY <3>1, <3>2
  <2>4. CASE call # "none" BY <2>1, <2>2, <2>4, MovesServe DEF ServeInv
  <2> QED BY <2>3, <2>4
<1>2. ASSUME HandlerFails PROVE step = "after" /\ stage \in {"pmt", "proc", "rest"} /\ call # "none"
  BY <1>2 DEF HandlerFails, CallPlace
<1>3. CASE HandlerFails /\ stage = "pmt"
  <2>1. UNCHANGED <<sbuf, dbuf, next>> /\ call' = "none" /\ res' # "torn"
    BY <1>3 DEF HandlerFails, Return, sent
  <2> QED BY <1>2, <1>3, <2>1, SearchReturns
<1>4. CASE HandlerFails /\ stage # "pmt"
  <2>1. Fail(sbuf, dbuf, "error") /\ next' = next BY <1>4 DEF HandlerFails, sent
  <2>2. step = "after" /\ call # "none" /\ res # "torn" /\ stage \in {"proc", "rest"}
    BY <1>2, <1>4 DEF CallPlace
  <2>3. Behind = at BY <2>2 DEF Behind
  <2>4. PICK w \in {at - 1, at} : w = at OBVIOUS
  <2>5. /\ sbuf \in Seq(Row) /\ dbuf \in Seq(Row) /\ Line(sbuf, dbuf, w)
        /\ call = "put" => Undo(sbuf, dbuf, w, dlen)
    BY <2>2, <2>3, <2>4 DEF BuffersFit, QueueInv
  <2>6. at \in 1..Len(sbuf)
    <3>1. at >= 1 /\ at \in 0..Len(sbuf) BY <2>2, <2>4, <2>5 DEF BuffersFit, Line
    <3> QED BY <3>1
  <2>7. /\ KeptDone(base, Numbers(dbuf))
        /\ call = "flush" => Drained(base, Numbers(sbuf), Numbers(dbuf), w, stage)
    BY <2>2, <2>3, <2>4 DEF ServeInv
  <2> QED BY <2>1, <2>2, <2>5, <2>6, <2>7, FailServes
<1> QED BY <1>1, <1>3, <1>4

LEMMA InitServes == DecoderInit => ServeInv /\ Service!Init
<1> SUFFICES ASSUME DecoderInit PROVE ServeInv /\ Service!Init OBVIOUS
<1>1. /\ sbuf = <<>> /\ dbuf = <<>> /\ next = 1 /\ call = "none" /\ res = "ok"
  BY DEF DecoderInit
<1>2. Numbers(<<>>) = <<>> BY DEF Numbers
<1> QED BY <1>1, <1>2 DEF ServeInv, Service!Init

LEMMA StepServes ==
  ASSUME DInv, CallPlace, QueueInv, ServeInv, [DecoderNext]_dvars
  PROVE  ServeInv' /\ [Service!Next]_Service!vars
<1>1. BuffersFit /\ IInv /\ KeysFit BY DEF DInv
<1>2. CASE DecoderNext
  BY <1>1, <1>2, PutServes, FlushServes, ClientServes, SearchesServe, ProcServes, EndServes,
     HandlersServe
  DEF DecoderNext
<1>3. CASE UNCHANGED dvars
  <2>1. UNCHANGED <<sbuf, dbuf, next, base, call, stage, step, at, slen, dlen, res>>
    BY <1>3 DEF dvars, buffers, place, history, sent
  <2>2. Behind' = Behind BY <2>1 DEF Behind
  <2>3. ServeInv' BY <2>1, <2>2 DEF ServeInv
  <2>4. UNCHANGED Service!vars BY <2>1, StutterIs DEF QIn, QDone, QNext, QTorn
  <2> QED BY <2>3, <2>4
<1> QED BY <1>2, <1>3

\* For its client the decoder is the queue of PacketService, whatever it does
\* with its buffers while a call runs: each step is one of the queue, when the
\* call returns, or none.  Calls that fail take back what they put out, flush
\* leaves the buffers torn or not, and a new PAT drops what is before it.
THEOREM ServesQueue == DecoderSpec => ServiceSpec
<1>1. DecoderInit => DInv /\ CallPlace /\ QueueInv /\ ServeInv /\ Service!Init
  BY InitDInv, InitQueue, InitServes
<1>2. DInv /\ CallPlace /\ QueueInv /\ ServeInv /\ [DecoderNext]_dvars
        => (DInv /\ CallPlace /\ QueueInv /\ ServeInv)' /\ [Service!Next]_Service!vars
  BY NextDInv, StepQueue, StepServes
<1> QED BY <1>1, <1>2, PTL DEF DecoderSpec, ServiceSpec, Service!Spec
==============================================================================
