-------------------------- MODULE ProgramMapProofs --------------------------
(***************************************************************************)
(* The counts of ProgramMap are exact, nothing dangles and every stream is *)
(* bound as its PMT declares, for every set of tables, of PIDs and of      *)
(* decryptors.                                                             *)
(***************************************************************************)
EXTENDS ProgramMap, FiniteSetTheorems, SequenceTheorems, TLAPS

StreamPid == EcmPids \cup EsPids

Program == [pid : PmtPids, pmt : Pmts \cup {Foreign, Unseen},
            streams : Seq(StreamPid), old : Seq(StreamPid),
            mine : SUBSET [pid : EsPids, ecm : CaPid]]

----------------------------------------------------------------------------
(* Counting the stream entries that name a PID.                            *)

\* A list holds finitely many entries.
LEMMA WhereFinite ==
  ASSUME NEW S, NEW list \in Seq(S), NEW p
  PROVE  /\ IsFiniteSet(Where(list, p)) /\ Where(list, p) \subseteq Nat
         /\ Occurrences(list, p) \in Nat
<1>1. Where(list, p) \in SUBSET (1..Len(list)) BY DEF Where
<1>2. IsFiniteSet(1..Len(list)) BY FS_Interval, LenProperties
<1>3. Len(list) \in Nat BY LenProperties
<1>4. Where(list, p) \subseteq Nat BY <1>1, <1>3
<1> QED BY <1>1, <1>2, <1>4, FS_Subset, FS_CardinalityType DEF Occurrences

\* Both parts of a concatenation count.
LEMMA OccurrencesConcat ==
  ASSUME NEW S, NEW s \in Seq(S), NEW t \in Seq(S), NEW p
  PROVE  Occurrences(s \o t, p) = Occurrences(s, p) + Occurrences(t, p)
<1> DEFINE moved == {k + Len(s) : k \in Where(t, p)}
           f == [k \in Where(t, p) |-> k + Len(s)]
<1>1. Len(s) \in Nat /\ Len(t) \in Nat BY LenProperties
<1>2. Where(s \o t, p) = Where(s, p) \cup moved
  <2>1. ASSUME NEW k \in Where(s \o t, p) PROVE k \in Where(s, p) \cup moved
    <3>1. k \in 1..(Len(s) + Len(t)) /\ (s \o t)[k] = p BY ConcatProperties DEF Where
    <3>2. CASE k <= Len(s) BY <3>1, <3>2, <1>1, ConcatProperties DEF Where
    <3>3. CASE k > Len(s)
      <4>1. k - Len(s) \in Where(t, p) BY <3>1, <3>3, <1>1, ConcatProperties DEF Where
      <4>2. k = (k - Len(s)) + Len(s) BY <3>1, <1>1
      <4> QED BY <4>1, <4>2
    <3> QED BY <3>1, <3>2, <3>3, <1>1
  <2>2. ASSUME NEW k \in Where(s, p) PROVE k \in Where(s \o t, p)
    BY <2>2, <1>1, ConcatProperties DEF Where
  <2>3. ASSUME NEW k \in Where(t, p) PROVE k + Len(s) \in Where(s \o t, p)
    <3>1. k \in 1..Len(t) /\ t[k] = p BY <2>3 DEF Where
    <3>2. k + Len(s) \in 1..(Len(s) + Len(t)) /\ ~(k + Len(s) <= Len(s))
          /\ (k + Len(s)) - Len(s) = k BY <3>1, <1>1
    <3> QED BY <3>1, <3>2, <1>1, ConcatProperties DEF Where
  <2> QED BY <2>1, <2>2, <2>3
<1>3. Where(s, p) \cap moved = {} BY <1>1 DEF Where
<1>4. ExistsBijection(Where(t, p), moved)
  <2>1. f \in Bijection(Where(t, p), moved)
    BY <1>1 DEF Bijection, Injection, Surjection, IsInjective, Where
  <2> QED BY <2>1 DEF ExistsBijection
<1>5. IsFiniteSet(moved) /\ Cardinality(moved) = Occurrences(t, p)
  BY <1>4, WhereFinite, FS_Bijection DEF Occurrences
<1>6. IsFiniteSet(Where(s, p)) /\ Occurrences(s, p) \in Nat /\ Occurrences(t, p) \in Nat
  BY WhereFinite
<1>7. Cardinality(Where(s, p) \cup moved)
        = Cardinality(Where(s, p)) + Cardinality(moved) - Cardinality(Where(s, p) \cap moved)
  BY <1>5, <1>6, FS_Union
<1>8. Cardinality(Where(s, p) \cap moved) = 0 BY <1>3, FS_EmptySet
<1>9. Occurrences(s \o t, p) = Cardinality(Where(s, p) \cup moved) BY <1>2 DEF Occurrences
<1>10. Occurrences(s, p) = Cardinality(Where(s, p)) BY DEF Occurrences
<1> HIDE DEF moved, f
<1> QED BY <1>5, <1>6, <1>7, <1>8, <1>9, <1>10

\* A list of one entry, and the empty list
LEMMA OccurrencesSmall ==
  ASSUME NEW x, NEW p
  PROVE  /\ Occurrences(<<x>>, p) = IF x = p THEN 1 ELSE 0
         /\ Occurrences(<<>>, p) = 0
<1>1. Where(<<x>>, p) = IF x = p THEN {1} ELSE {} BY DEF Where
<1>2. Where(<<>>, p) = {} BY DEF Where
<1> QED BY <1>1, <1>2, FS_EmptySet, FS_Singleton DEF Occurrences

\* What taking the first entry off a list changes
LEMMA OccurrencesTail ==
  ASSUME NEW S, NEW s \in Seq(S), s # <<>>, NEW p
  PROVE  Occurrences(s, p) = Occurrences(Tail(s), p) + IF Head(s) = p THEN 1 ELSE 0
<1>1. Tail(s) \in Seq(S) /\ Head(s) \in S /\ <<Head(s)>> \in Seq(S) BY HeadTailProperties
<1>2. s = <<Head(s)>> \o Tail(s)
  <2>1. Len(s) \in Nat \ {0} BY EmptySeq
  <2>2. /\ Len(<<Head(s)>> \o Tail(s)) = Len(s)
        /\ <<Head(s)>> \o Tail(s) \in Seq(S)
        /\ \A i \in 1..Len(s) : (<<Head(s)>> \o Tail(s))[i] = s[i]
    BY <1>1, <2>1, ConcatProperties, HeadTailProperties
  <2> QED BY <2>2, SeqEqual
<1>3. Occurrences(s, p) = Occurrences(<<Head(s)>>, p) + Occurrences(Tail(s), p)
  <2>1. PICK h \in Seq(S), t \in Seq(S) : h = <<Head(s)>> /\ t = Tail(s) BY <1>1
  <2>2. Occurrences(h \o t, p) = Occurrences(h, p) + Occurrences(t, p) BY OccurrencesConcat
  <2> QED BY <1>2, <2>1, <2>2
<1>4. Occurrences(<<Head(s)>>, p) = IF Head(s) = p THEN 1 ELSE 0 BY OccurrencesSmall
<1>5. Occurrences(Tail(s), p) \in Nat BY <1>1, WhereFinite
<1> QED BY <1>3, <1>4, <1>5

\* What adding an entry changes
LEMMA OccurrencesAppend ==
  ASSUME NEW S, NEW s \in Seq(S), NEW x \in S, NEW p
  PROVE  Occurrences(Append(s, x), p) = Occurrences(s, p) + IF x = p THEN 1 ELSE 0
<1>1. Append(s, x) = s \o <<x>> /\ <<x>> \in Seq(S) BY AppendIsConcat
<1>2. Occurrences(s \o <<x>>, p) = Occurrences(s, p) + Occurrences(<<x>>, p)
  BY <1>1, OccurrencesConcat
<1>3. Occurrences(<<x>>, p) = IF x = p THEN 1 ELSE 0 BY OccurrencesSmall
<1> QED BY <1>1, <1>2, <1>3

\* Finitely many entries name a PID.
LEMMA ListedFinite ==
  ASSUME NEW P \in Seq(Program), NEW p
  PROVE  IsFiniteSet(Listed(P, p)) /\ Cardinality(Listed(P, p)) \in Nat
<1> DEFINE Own(j) == {j} \X Where(P[j].old \o P[j].streams, p)
           all == {Own(j) : j \in 1..Len(P)}
<1>1. IsFiniteSet(1..Len(P)) BY FS_Interval, LenProperties
<1>2. ASSUME NEW j \in 1..Len(P) PROVE IsFiniteSet(Own(j))
  <2>1. P[j] \in Program BY ElementOfSeq
  <2>2. P[j].old \o P[j].streams \in Seq(StreamPid) BY <2>1, ConcatProperties DEF Program
  <2>3. IsFiniteSet(Where(P[j].old \o P[j].streams, p)) BY <2>2, WhereFinite
  <2>4. IsFiniteSet({j}) BY FS_Singleton
  <2> QED BY <2>3, <2>4, FS_Product
<1>3. IsFiniteSet(all)
  <2> DEFINE g == [j \in 1..Len(P) |-> Own(j)]
  <2>1. g \in Surjection(1..Len(P), all) BY DEF Surjection
  <2> QED BY <1>1, <2>1, FS_Surjection
<1>4. Listed(P, p) = UNION all BY DEF Listed
<1> QED BY <1>2, <1>3, <1>4, FS_UNION, FS_CardinalityType

\* The entries of the programs but i
Others(P, i, p) == UNION {{j} \X Where(P[j].old \o P[j].streams, p) : j \in (1..Len(P)) \ {i}}

\* The entries of program i and those of the others
LEMMA ListedSplit ==
  ASSUME NEW P \in Seq(Program), NEW i \in 1..Len(P), NEW p
  PROVE  /\ Cardinality(Others(P, i, p)) \in Nat
         /\ Cardinality(Listed(P, p)) = Cardinality(Others(P, i, p))
              + Occurrences(P[i].old, p) + Occurrences(P[i].streams, p)
<1> DEFINE list == P[i].old \o P[i].streams
           own == {i} \X Where(list, p)
           rest == Others(P, i, p)
<1>1. P[i].old \in Seq(StreamPid) /\ P[i].streams \in Seq(StreamPid) /\ list \in Seq(StreamPid)
  <2>1. P[i] \in Program BY ElementOfSeq
  <2> QED BY <2>1, ConcatProperties DEF Program
<1>2. IsFiniteSet(own) /\ Cardinality(own) = Occurrences(list, p)
  <2>1. IsFiniteSet(Where(list, p)) /\ Occurrences(list, p) \in Nat BY <1>1, WhereFinite
  <2>2. IsFiniteSet({i}) /\ Cardinality({i}) = 1 BY FS_Singleton
  <2>3. IsFiniteSet(own) /\ Cardinality(own) = 1 * Cardinality(Where(list, p))
    BY <2>1, <2>2, FS_Product
  <2> QED BY <2>1, <2>3 DEF Occurrences
<1>3. Listed(P, p) = rest \cup own BY DEF Listed, Others
<1>4. IsFiniteSet(rest) /\ Cardinality(rest) \in Nat
  BY <1>3, ListedFinite, FS_Subset, FS_CardinalityType
<1>5. rest \cap own = {} BY DEF Others
<1>6. Cardinality(rest \cup own) = Cardinality(rest) + Cardinality(own) - Cardinality(rest \cap own)
  BY <1>2, <1>4, FS_Union
<1>7. Cardinality(rest \cap own) = 0 BY <1>5, FS_EmptySet
<1>8. Occurrences(list, p) = Occurrences(P[i].old, p) + Occurrences(P[i].streams, p)
  BY <1>1, OccurrencesConcat
<1>9. Occurrences(P[i].old, p) \in Nat /\ Occurrences(P[i].streams, p) \in Nat
  BY <1>1, WhereFinite
<1> HIDE DEF own, list, rest
<1>10. Cardinality(Listed(P, p)) = Cardinality(rest) + Occurrences(P[i].old, p) + Occurrences(P[i].streams, p)
  BY <1>2, <1>3, <1>4, <1>6, <1>7, <1>8, <1>9
<1> QED BY <1>4, <1>10 DEF rest

\* A step that touches the lists of one program
LEMMA ListedChange ==
  ASSUME NEW P \in Seq(Program), NEW Q \in Seq(Program), Len(P) = Len(Q),
         NEW i \in 1..Len(P), NEW p,
         \A j \in (1..Len(P)) \ {i} : Q[j].old = P[j].old /\ Q[j].streams = P[j].streams
  PROVE  /\ Cardinality(Listed(P, p)) \in Nat /\ Cardinality(Listed(Q, p)) \in Nat
         /\ Cardinality(Listed(Q, p)) + Occurrences(P[i].old, p) + Occurrences(P[i].streams, p)
              = Cardinality(Listed(P, p)) + Occurrences(Q[i].old, p) + Occurrences(Q[i].streams, p)
<1>1. Others(P, i, p) = Others(Q, i, p) BY DEF Others
<1>2. P[i] \in Program /\ Q[i] \in Program BY ElementOfSeq
<1>3. /\ Occurrences(P[i].old, p) \in Nat /\ Occurrences(P[i].streams, p) \in Nat
      /\ Occurrences(Q[i].old, p) \in Nat /\ Occurrences(Q[i].streams, p) \in Nat
  BY <1>2, WhereFinite DEF Program
<1>4. /\ Cardinality(Others(P, i, p)) \in Nat
      /\ Cardinality(Listed(P, p)) = Cardinality(Others(P, i, p))
           + Occurrences(P[i].old, p) + Occurrences(P[i].streams, p)
  BY ListedSplit
<1>5. Cardinality(Listed(Q, p)) = Cardinality(Others(P, i, p))
           + Occurrences(Q[i].old, p) + Occurrences(Q[i].streams, p)
  BY <1>1, ListedSplit
<1> QED BY <1>3, <1>4, <1>5

\* Forgetting the first program when its lists are empty
LEMMA ListedTail ==
  ASSUME NEW P \in Seq(Program), P # <<>>, P[1].old \o P[1].streams = <<>>, NEW p
  PROVE  Cardinality(Listed(Tail(P), p)) = Cardinality(Listed(P, p))
<1> DEFINE W(j) == Where(P[j].old \o P[j].streams, p)
           L == Listed(P, p)
           M == Listed(Tail(P), p)
           f == [x \in L |-> <<x[1] - 1, x[2]>>]
<1>1. Len(P) \in Nat \ {0} /\ Len(Tail(P)) = Len(P) - 1
      /\ \A i \in 1..Len(Tail(P)) : Tail(P)[i] = P[i + 1]
  BY EmptySeq, HeadTailProperties
<1>0. ASSUME NEW j \in 1..Len(P) PROVE W(j) \subseteq Nat
  <2>1. P[j] \in Program BY ElementOfSeq
  <2>2. P[j].old \o P[j].streams \in Seq(StreamPid) BY <2>1, ConcatProperties DEF Program
  <2> QED BY <2>2, WhereFinite
<1>2. W(1) = {} BY DEF Where
<1>3. L = {x \in (2..Len(P)) \X Nat : x[2] \in W(x[1])}
  <2>1. L = UNION {{j} \X W(j) : j \in 1..Len(P)} BY DEF Listed
  <2> HIDE DEF W, L
  <2>3. ASSUME NEW x \in L PROVE x \in (2..Len(P)) \X Nat /\ x[2] \in W(x[1])
    <3>1. PICK j \in 1..Len(P) : x \in {j} \X W(j) BY <2>1
    <3>2. j # 1 BY <3>1, <1>2
    <3> QED BY <3>1, <3>2, <1>1, <1>0
  <2>4. ASSUME NEW x \in (2..Len(P)) \X Nat, x[2] \in W(x[1]) PROVE x \in L
    <3>1. x[1] \in 1..Len(P) /\ x \in {x[1]} \X W(x[1]) BY <2>4, <1>1
    <3> QED BY <3>1, <2>1
  <2> QED BY <2>3, <2>4
<1>4. M = {x \in (1..(Len(P) - 1)) \X Nat : x[2] \in W(x[1] + 1)}
  <2>1. M = UNION {{j} \X W(j + 1) : j \in 1..(Len(P) - 1)}
    BY <1>1 DEF Listed
  <2> HIDE DEF W, M
  <2>3. ASSUME NEW x \in M PROVE x \in (1..(Len(P) - 1)) \X Nat /\ x[2] \in W(x[1] + 1)
    <3>1. PICK j \in 1..(Len(P) - 1) : x \in {j} \X W(j + 1) BY <2>1
    <3>2. j + 1 \in 1..Len(P) BY <1>1
    <3> QED BY <3>1, <3>2, <1>0
  <2>4. ASSUME NEW x \in (1..(Len(P) - 1)) \X Nat, x[2] \in W(x[1] + 1) PROVE x \in M
    <3>1. x \in {x[1]} \X W(x[1] + 1) BY <2>4
    <3> QED BY <3>1, <2>1
  <2> QED BY <2>3, <2>4
<1> HIDE DEF W, L, M
<1>5. f \in Bijection(L, M)
  <2>1. ASSUME NEW x \in L PROVE f[x] \in M BY <1>1, <1>3, <1>4
  <2>2. ASSUME NEW x \in L, NEW y \in L, f[x] = f[y] PROVE x = y BY <2>2, <1>1, <1>3
  <2>3. ASSUME NEW y \in M PROVE \E x \in L : f[x] = y
    <3>1. <<y[1] + 1, y[2]>> \in L BY <1>1, <1>3, <1>4
    <3>2. f[<<y[1] + 1, y[2]>>] = y BY <3>1, <1>1, <1>4
    <3> QED BY <3>1, <3>2
  <2> QED BY <2>1, <2>2, <2>3 DEF Bijection, Injection, Surjection, IsInjective
<1>6. IsFiniteSet(L) BY ListedFinite DEF L
<1>7. ExistsBijection(L, M) BY <1>5 DEF ExistsBijection
<1>8. Cardinality(M) = Cardinality(L) BY <1>6, <1>7, FS_Bijection
<1> QED BY <1>8 DEF L, M

----------------------------------------------------------------------------
(* Tables that fit together.                                               *)

MapEntry == [type : {"UNKNOWN", "PAT", "CAT", "PMT", "ECM", "EMM", "OTHER"},
          ref : Nat, target : Dec \cup {None}]

TableType == [map : [Pid -> MapEntry], live : SUBSET Dec,
              dec : [Dec -> [ecm : EcmPids \cup {None}, ref : Nat]]]

\* The entry of p leads to a decryptor on the list: an ECM PID's to the one
\* that gets its ECMs, a stream's when some program names it.
EntryFits(R, p) ==
  LET m == R.map[p]
  IN  /\ m.target \in R.live \cup {None}
      /\ m.type = "ECM" => p \in EcmPids /\ m.target # None /\ R.dec[m.target].ecm = p
      /\ m.type = "OTHER" => p \in EsPids
      /\ m.type \notin {"ECM", "OTHER"} => m.target = None
      /\ p \in EsPids => m.type = IF m.ref = 0 THEN "UNKNOWN" ELSE "OTHER"

BoundTo(R, d) == {p \in Pid : R.map[p].type = "OTHER" /\ R.map[p].target = d}

\* The tables fit together but for the entry of q, which is about to be
\* overwritten; n says how many references there are besides the map's.
Fit(R, n, q) ==
  /\ R \in TableType
  /\ \A d \in R.live : R.dec[d].ecm \in EcmPids
  /\ \A p \in Pid \ {q} : EntryFits(R, p)
  /\ \A d \in R.live : R.dec[d].ref = Cardinality(BoundTo(R, d) \ {q}) + n[d]

\* The streams bound to a decryptor are finitely many.
LEMMA BoundFinite ==
  ASSUME NEW R, NEW n, NEW q \in EsPids \cup {None}, Fit(R, n, q), NEW d
  PROVE  IsFiniteSet(BoundTo(R, d)) /\ Cardinality(BoundTo(R, d) \ {q}) \in Nat
<1>1. BoundTo(R, d) \in SUBSET EsPids
  BY RolesAssumption DEF BoundTo, Fit, EntryFits, Pid
<1>2. IsFiniteSet(EsPids) BY RolesAssumption
<1>3. IsFiniteSet(BoundTo(R, d)) BY <1>1, <1>2, FS_Subset
<1> QED BY <1>3, FS_Difference, FS_CardinalityType

\* What ReleaseDecryptor leaves as it was: other decryptors, and d itself while
\* k still counts a reference of it.
Released(R, S, d, k) ==
  /\ S.live \subseteq R.live
  /\ \A x \in R.live : k[x] > 0 \/ x # d => x \in S.live
  /\ d \in S.live => S.dec[d].ref > 0
  /\ \A x \in S.live : x # d => S.dec[x] = R.dec[x]
  /\ \A p \in Pid : S.map[p].ref = R.map[p].ref
  /\ \A p \in Pid \ EcmPids : S.map[p] = R.map[p]

\* Giving back one of the references n counts: a decryptor goes with its last
\* one, and no entry leads to it then.
LEMMA ReleaseFits ==
  ASSUME NEW R, NEW n \in [Dec -> Nat], NEW q \in EsPids \cup {None}, Fit(R, n, q),
         NEW d \in R.live, NEW k \in [Dec -> Nat], n[d] = k[d] + 1,
         \A x \in Dec : x # d => k[x] = n[x],
         NEW S, S = ReleaseDecryptor(R, d)
  PROVE  Fit(S, k, q) /\ Released(R, S, d, k)
<1> DEFINE e == R.dec[d].ecm
<1>1. /\ R \in TableType /\ R.live \in SUBSET Dec /\ R.map \in [Pid -> MapEntry] /\ d \in Dec
      /\ R.dec \in [Dec -> [ecm : EcmPids \cup {None}, ref : Nat]]
      /\ e \in EcmPids /\ e \in Pid
  BY DEF Fit, TableType, Pid
<1>2. R.dec[d].ref = Cardinality(BoundTo(R, d) \ {q}) + n[d]
      /\ Cardinality(BoundTo(R, d) \ {q}) \in Nat /\ n[d] \in Nat
  BY <1>1, BoundFinite DEF Fit
<1>3. k[d] \in Nat /\ k[d] = n[d] - 1 /\ \A x \in Dec : x # d => k[x] = n[x]
  BY <1>1
<1>4. CASE R.dec[d].ref - 1 < 1
  <2>1. n[d] = 1 /\ k[d] = 0 /\ Cardinality(BoundTo(R, d) \ {q}) = 0 BY <1>2, <1>3, <1>4
  <2>2. BoundTo(R, d) \ {q} = {}
    BY <2>1, BoundFinite, FS_Difference, FS_EmptySet
  <2>3. S = RemoveDecryptor(R, d) BY <1>4 DEF ReleaseDecryptor
  <2>4. S.live = R.live \ {d} /\ S.dec = [R.dec EXCEPT ![d] = NoDecryptor]
        /\ S \in TableType
    BY <1>1, <2>3 DEF RemoveDecryptor, TableType, MapEntry, NoDecryptor
  <2>5. \A p \in Pid : S.map[p] =
           IF p = e /\ R.map[p].type = "ECM" /\ R.map[p].target = d
             THEN [type |-> "UNKNOWN", ref |-> R.map[p].ref, target |-> None] ELSE R.map[p]
    BY <1>1, <2>3 DEF RemoveDecryptor
  <2>6. ASSUME NEW p \in Pid \ {q} PROVE EntryFits(S, p)
    <3>1. EntryFits(R, p) BY DEF Fit
    <3>2. R.map[p].type = "OTHER" => R.map[p].target # d BY <2>2 DEF BoundTo
    <3>3. R.map[p].type = "ECM" /\ R.map[p].target = d => p = e BY <3>1 DEF EntryFits
    <3>4. R.map[p] \in MapEntry BY <1>1
    <3>5. CASE p = e /\ R.map[p].type = "ECM" /\ R.map[p].target = d
      <4>1. S.map[p] = [type |-> "UNKNOWN", ref |-> R.map[p].ref, target |-> None]
        BY <2>5, <3>5
      <4>2. p \notin EsPids BY <1>1, <3>5, RolesAssumption
      <4> QED BY <4>1, <4>2 DEF EntryFits
    <3>6. CASE ~(p = e /\ R.map[p].type = "ECM" /\ R.map[p].target = d)
      <4>1. S.map[p] = R.map[p] BY <2>5, <3>6
      <4>2. R.map[p].target # d
        BY <3>1, <3>2, <3>3, <3>6, <1>1, RolesAssumption DEF EntryFits
      <4>3. R.map[p].target # None => S.dec[R.map[p].target] = R.dec[R.map[p].target]
        BY <2>4, <4>2, <3>4, <1>1 DEF MapEntry
      <4> QED BY <3>1, <4>1, <4>2, <4>3, <2>4 DEF EntryFits
    <3> QED BY <3>5, <3>6
  <2>10. ASSUME NEW p \in Pid
         PROVE  /\ S.map[p].ref = R.map[p].ref
                /\ \/ S.map[p] = R.map[p]
                   \/ S.map[p].type = "UNKNOWN" /\ R.map[p].type = "ECM"
    <3>1. CASE p = e /\ R.map[p].type = "ECM" /\ R.map[p].target = d
      <4>1. S.map[p] = [type |-> "UNKNOWN", ref |-> R.map[p].ref, target |-> None]
        BY <2>5, <3>1
      <4> QED BY <4>1, <3>1
    <3>2. CASE ~(p = e /\ R.map[p].type = "ECM" /\ R.map[p].target = d) BY <2>5, <3>2
    <3> QED BY <3>1, <3>2
  <2>7. ASSUME NEW x PROVE BoundTo(S, x) = BoundTo(R, x) BY <2>10 DEF BoundTo
  <2>8. Fit(S, k, q)
    <3>1. ASSUME NEW x \in S.live
          PROVE  /\ S.dec[x].ecm \in EcmPids
                 /\ S.dec[x].ref = Cardinality(BoundTo(S, x) \ {q}) + k[x]
      <4>1. x # d /\ x \in R.live /\ x \in Dec BY <2>4, <1>1
      <4>2. S.dec[x] = R.dec[x] /\ k[x] = n[x] /\ BoundTo(S, x) = BoundTo(R, x)
        BY <4>1, <2>4, <2>7, <1>1, <1>3
      <4>3. /\ R.dec[x].ecm \in EcmPids
            /\ R.dec[x].ref = Cardinality(BoundTo(R, x) \ {q}) + n[x]
        BY <4>1 DEF Fit
      <4> QED BY <4>2, <4>3
    <3> QED BY <3>1, <2>4, <2>6 DEF Fit
  <2>9. \A p \in Pid \ EcmPids : S.map[p] = R.map[p] BY <2>5, <1>1
  <2>11. \A x \in R.live : k[x] > 0 \/ x # d => x \in S.live BY <2>1, <2>4
  <2>12. d \notin S.live /\ S.live \subseteq R.live BY <2>4
  <2>13. \A x \in S.live : x # d => S.dec[x] = R.dec[x] BY <2>4, <1>1
  <2> QED BY <2>8, <2>9, <2>10, <2>11, <2>12, <2>13 DEF Released
<1>5. CASE ~(R.dec[d].ref - 1 < 1)
  <2>1. S = [R EXCEPT !.dec = [R.dec EXCEPT ![d].ref = @ - 1]] BY <1>5 DEF ReleaseDecryptor
  <2>2. S.live = R.live /\ S.map = R.map /\ S.dec = [R.dec EXCEPT ![d].ref = @ - 1]
    BY <1>1, <2>1 DEF TableType
  <2>3. R.dec[d].ref - 1 \in Nat /\ R.dec[d].ref - 1 > 0 BY <1>1, <1>5
  <2>4. S \in TableType
    <3>1. S.dec \in [Dec -> [ecm : EcmPids \cup {None}, ref : Nat]] BY <1>1, <2>2, <2>3
    <3> QED BY <1>1, <2>1, <2>2, <3>1 DEF TableType
  <2>5. /\ \A x \in Dec : S.dec[x].ecm = R.dec[x].ecm
        /\ \A x \in Dec : x # d => S.dec[x] = R.dec[x]
        /\ S.dec[d].ref = R.dec[d].ref - 1
    BY <1>1, <2>2
  <2>6. ASSUME NEW p \in Pid \ {q} PROVE EntryFits(S, p)
    <3>1. EntryFits(R, p) BY DEF Fit
    <3>2. R.map[p].target \in Dec \cup {None} BY <1>1 DEF MapEntry
    <3> QED BY <3>1, <3>2, <2>2, <2>5 DEF EntryFits
  <2>7. ASSUME NEW x PROVE BoundTo(S, x) = BoundTo(R, x) BY <2>2 DEF BoundTo
  <2>8. ASSUME NEW x \in S.live PROVE S.dec[x].ref = Cardinality(BoundTo(S, x) \ {q}) + k[x]
    <3>1. CASE x = d
      <4>1. S.dec[d].ref = Cardinality(BoundTo(R, d) \ {q}) + k[d] BY <1>2, <1>3, <2>5
      <4> QED BY <3>1, <4>1, <2>7
    <3>2. CASE x # d
      <4>1. R.dec[x].ref = Cardinality(BoundTo(R, x) \ {q}) + n[x] BY <2>2 DEF Fit
      <4> QED BY <3>2, <4>1, <1>1, <1>3, <2>2, <2>5, <2>7
    <3> QED BY <3>1, <3>2
  <2>9. \A x \in S.live : S.dec[x].ecm \in EcmPids BY <2>2, <2>5, <1>1 DEF Fit
  <2>10. Fit(S, k, q) BY <2>4, <2>6, <2>8, <2>9 DEF Fit
  <2> QED BY <2>2, <2>3, <2>5, <2>10, <1>1 DEF Released
<1> QED BY <1>4, <1>5

\* The entry of stream p set aside: its reference becomes one of n.
LEMMA SetAsideFits ==
  ASSUME NEW R, NEW n \in [Dec -> Nat], NEW p \in EsPids, Fit(R, n, None)
  PROVE  LET t == R.map[p].target
         IN  IF t = None THEN Fit(R, n, p) ELSE Fit(R, [n EXCEPT ![t] = @ + 1], p)
<1> DEFINE t == R.map[p].target
           k == IF t = None THEN n ELSE [n EXCEPT ![t] = @ + 1]
<1>1. /\ R \in TableType /\ R.live \in SUBSET Dec /\ R.map \in [Pid -> MapEntry]
      /\ p \in Pid /\ None \notin Pid /\ None \notin Dec /\ t \in R.live \cup {None}
  BY RolesAssumption DEF Fit, TableType, EntryFits, Pid
<1>2. t # None => R.map[p].type = "OTHER"
  BY <1>1, RolesAssumption DEF Fit, EntryFits, Pid
<1>3. ASSUME NEW d \in R.live
      PROVE  R.dec[d].ref = Cardinality(BoundTo(R, d) \ {p}) + k[d]
  <2>1. R.dec[d].ref = Cardinality(BoundTo(R, d) \ {None}) + n[d] BY DEF Fit
  <2>2. BoundTo(R, d) \ {None} = BoundTo(R, d) BY <1>1 DEF BoundTo
  <2>3. IsFiniteSet(BoundTo(R, d)) /\ Cardinality(BoundTo(R, d)) \in Nat
    BY <2>2, BoundFinite
  <2>4. CASE t = d
    <3>1. p \in BoundTo(R, d) BY <1>1, <1>2, <2>4 DEF BoundTo
    <3>2. Cardinality(BoundTo(R, d) \ {p}) = Cardinality(BoundTo(R, d)) - 1
      BY <2>3, <3>1, FS_RemoveElement
    <3>3. d \in Dec /\ n[d] \in Nat /\ k[d] = n[d] + 1 BY <1>1, <2>4
    <3>4. R.dec[d].ref = Cardinality(BoundTo(R, d)) + n[d] BY <2>1, <2>2
    <3> HIDE DEF k
    <3> QED BY <2>3, <3>2, <3>3, <3>4
  <2>5. CASE t # d
    <3>1. BoundTo(R, d) \ {p} = BoundTo(R, d) BY <2>5 DEF BoundTo
    <3>2. k[d] = n[d] BY <2>5, <1>1
    <3> QED BY <2>1, <2>2, <3>1, <3>2
  <2> QED BY <2>4, <2>5
<1>4. Fit(R, k, p) BY <1>1, <1>3 DEF Fit
<1> QED BY <1>4

\* The entry of stream p written anew, the decryptor it leads to counted.
LEMMA ReplaceFits ==
  ASSUME NEW R, NEW n \in [Dec -> Nat], NEW p \in EsPids, Fit(R, n, p),
         NEW m \in MapEntry, m.target \in R.live \cup {None},
         m.type = IF m.ref = 0 THEN "UNKNOWN" ELSE "OTHER",
         m.type = "UNKNOWN" => m.target = None,
         NEW S,
         S = [R EXCEPT !.map = [R.map EXCEPT ![p] = m],
                       !.dec = IF m.target = None THEN R.dec
                               ELSE [R.dec EXCEPT ![m.target].ref = @ + 1]]
  PROVE  Fit(S, n, None)
<1> DEFINE t == m.target
<1>1. /\ R \in TableType /\ R.live \in SUBSET Dec /\ R.map \in [Pid -> MapEntry]
      /\ R.dec \in [Dec -> [ecm : EcmPids \cup {None}, ref : Nat]]
      /\ p \in Pid /\ None \notin Pid /\ None \notin Dec /\ p \notin EcmPids
  BY RolesAssumption DEF Fit, TableType, Pid
<1>2. /\ S.live = R.live /\ S.map = [R.map EXCEPT ![p] = m]
      /\ S.dec = IF t = None THEN R.dec ELSE [R.dec EXCEPT ![t].ref = @ + 1]
  BY <1>1 DEF TableType
<1>3. /\ S \in TableType
      /\ \A d \in R.live : S.dec[d].ecm = R.dec[d].ecm
      /\ \A d \in R.live : S.dec[d].ref = IF d = t THEN R.dec[d].ref + 1 ELSE R.dec[d].ref
  <2>1. CASE t = None
    <3>1. S = [R EXCEPT !.map = [R.map EXCEPT ![p] = m]]
      BY <2>1, <1>1, <1>2 DEF TableType
    <3> QED BY <2>1, <3>1, <1>1, <1>2 DEF TableType
  <2>2. CASE t # None
    <3>1. t \in R.live /\ t \in Dec BY <2>2, <1>1
    <3>2. S.dec = [R.dec EXCEPT ![t].ref = @ + 1]
          /\ S.dec \in [Dec -> [ecm : EcmPids \cup {None}, ref : Nat]]
      BY <2>2, <3>1, <1>1, <1>2
    <3> QED BY <3>1, <3>2, <1>1, <1>2 DEF TableType
  <2> QED BY <2>1, <2>2
<1>4. ASSUME NEW x \in Pid PROVE EntryFits(S, x)
  <2>1. CASE x = p
    <3>1. S.map[x] = m BY <2>1, <1>1, <1>2
    <3> QED BY <2>1, <3>1, <1>1, <1>2 DEF EntryFits
  <2>2. CASE x # p
    <3>1. EntryFits(R, x) BY <2>2 DEF Fit
    <3>2. S.map[x] = R.map[x] BY <2>2, <1>1, <1>2
    <3> QED BY <3>1, <3>2, <1>2, <1>3 DEF EntryFits
  <2> QED BY <2>1, <2>2
<1>5. ASSUME NEW d \in R.live
      PROVE  S.dec[d].ref = Cardinality(BoundTo(S, d) \ {None}) + n[d]
  <2>1. /\ R.dec[d].ref = Cardinality(BoundTo(R, d) \ {p}) + n[d] /\ n[d] \in Nat
        /\ IsFiniteSet(BoundTo(R, d)) /\ Cardinality(BoundTo(R, d) \ {p}) \in Nat
    BY <1>1, BoundFinite DEF Fit
  <2>2. BoundTo(S, d) \ {None} = BoundTo(S, d) BY <1>1 DEF BoundTo
  <2>3. CASE d = t
    <3>1. m.type = "OTHER" BY <2>3, <1>1
    <3>2. BoundTo(S, d) = (BoundTo(R, d) \ {p}) \cup {p}
      BY <2>3, <3>1, <1>1, <1>2 DEF BoundTo
    <3>3. IsFiniteSet(BoundTo(R, d) \ {p}) BY <2>1, FS_Difference
    <3>4. Cardinality((BoundTo(R, d) \ {p}) \cup {p}) = Cardinality(BoundTo(R, d) \ {p}) + 1
      BY <3>3, FS_AddElement
    <3>5. Cardinality(BoundTo(S, d) \ {None}) = Cardinality(BoundTo(R, d) \ {p}) + 1
      BY <2>2, <3>2, <3>4
    <3>6. S.dec[d].ref = R.dec[d].ref + 1 BY <2>3, <1>3
    <3> QED BY <2>1, <3>5, <3>6
  <2>4. CASE d # t
    <3>1. BoundTo(S, d) = BoundTo(R, d) \ {p} BY <2>4, <1>1, <1>2 DEF BoundTo
    <3> QED BY <2>1, <2>2, <2>4, <3>1, <1>3
  <2> QED BY <2>3, <2>4
<1> QED BY <1>2, <1>3, <1>4, <1>5 DEF Fit

\* A reference taken besides the map's, as proc_pmt takes one for dec[0]
LEMMA HoldFits ==
  ASSUME NEW R, NEW n \in [Dec -> Nat], NEW q \in EsPids \cup {None}, Fit(R, n, q), NEW d \in R.live,
         NEW S, S = [R EXCEPT !.dec = [R.dec EXCEPT ![d].ref = @ + 1]]
  PROVE  Fit(S, [n EXCEPT ![d] = @ + 1], q)
<1> DEFINE k == [n EXCEPT ![d] = @ + 1]
<1>1. /\ R \in TableType /\ R.live \in SUBSET Dec /\ R.map \in [Pid -> MapEntry] /\ d \in Dec
      /\ R.dec \in [Dec -> [ecm : EcmPids \cup {None}, ref : Nat]]
  BY DEF Fit, TableType
<1>2. /\ S \in TableType /\ S.live = R.live /\ S.map = R.map
      /\ \A x \in Dec : S.dec[x].ecm = R.dec[x].ecm
      /\ \A x \in Dec : S.dec[x].ref = IF x = d THEN R.dec[x].ref + 1 ELSE R.dec[x].ref
  <2>1. S.live = R.live /\ S.map = R.map /\ S.dec = [R.dec EXCEPT ![d].ref = @ + 1]
    BY <1>1 DEF TableType
  <2>2. S.dec \in [Dec -> [ecm : EcmPids \cup {None}, ref : Nat]]
    BY <1>1, <2>1
  <2>3. S \in TableType BY <1>1, <2>1, <2>2 DEF TableType
  <2> QED BY <1>1, <2>1, <2>3
<1>3. ASSUME NEW x \in Pid \ {q} PROVE EntryFits(S, x)
  <2>1. EntryFits(R, x) /\ R.map[x].target \in Dec \cup {None} BY <1>1 DEF Fit, MapEntry
  <2> QED BY <2>1, <1>2 DEF EntryFits
<1>4. ASSUME NEW x \in R.live
      PROVE  S.dec[x].ref = Cardinality(BoundTo(S, x) \ {q}) + k[x] /\ S.dec[x].ecm \in EcmPids
  <2>1. /\ R.dec[x].ref = Cardinality(BoundTo(R, x) \ {q}) + n[x] /\ R.dec[x].ecm \in EcmPids
        /\ n[x] \in Nat /\ Cardinality(BoundTo(R, x) \ {q}) \in Nat /\ x \in Dec
    BY <1>1, BoundFinite DEF Fit
  <2>2. BoundTo(S, x) = BoundTo(R, x) BY <1>2 DEF BoundTo
  <2>3. k[x] = IF x = d THEN n[x] + 1 ELSE n[x] BY <1>1, <2>1
  <2>4. S.dec[x].ecm \in EcmPids BY <2>1, <1>2
  <2>5. Cardinality(BoundTo(S, x) \ {q}) = Cardinality(BoundTo(R, x) \ {q}) BY <2>2
  <2>6. S.dec[x].ref = IF x = d THEN R.dec[x].ref + 1 ELSE R.dec[x].ref BY <2>1, <1>2
  <2> HIDE DEF k
  <2> QED BY <2>1, <2>3, <2>4, <2>5, <2>6
<1> QED BY <1>2, <1>3, <1>4 DEF Fit

\* The count of an ECM PID's stream entries is nobody else's.
LEMMA CountFits ==
  ASSUME NEW R, NEW n, NEW q, Fit(R, n, q), NEW e \in EcmPids, NEW i \in Nat,
         NEW S, S = [R EXCEPT !.map = [R.map EXCEPT ![e].ref = i]]
  PROVE  Fit(S, n, q)
<1>1. /\ R \in TableType /\ R.map \in [Pid -> MapEntry] /\ e \in Pid /\ e \notin EsPids
  BY RolesAssumption DEF Fit, TableType, Pid
<1>2. /\ S \in TableType /\ S.live = R.live /\ S.dec = R.dec
      /\ \A x \in Pid : S.map[x].type = R.map[x].type /\ S.map[x].target = R.map[x].target
      /\ \A x \in Pid : x # e => S.map[x] = R.map[x]
  BY <1>1 DEF TableType, MapEntry
<1>3. ASSUME NEW x \in Pid \ {q} PROVE EntryFits(S, x)
  <2>1. EntryFits(R, x) BY DEF Fit
  <2> QED BY <2>1, <1>1, <1>2 DEF EntryFits
<1>4. ASSUME NEW x PROVE BoundTo(S, x) = BoundTo(R, x) BY <1>2 DEF BoundTo
<1> QED BY <1>2, <1>3, <1>4 DEF Fit

\* The entry of a stream that some program names, its target kept
LEMMA NamedFits ==
  ASSUME NEW R, NEW n \in [Dec -> Nat], Fit(R, n, None), NEW p \in EsPids, NEW i \in Nat \ {0},
         NEW S, S = [R EXCEPT !.map = [R.map EXCEPT ![p] =
                       [type |-> "OTHER", ref |-> i, target |-> R.map[p].target]]]
  PROVE  Fit(S, n, None)
<1>1. /\ R \in TableType /\ R.map \in [Pid -> MapEntry] /\ p \in Pid /\ None \notin Pid
      /\ R.live \in SUBSET Dec /\ p \notin EcmPids /\ None \notin Dec
  BY RolesAssumption DEF Fit, TableType, Pid
<1>2. /\ S \in TableType /\ S.live = R.live /\ S.dec = R.dec
      /\ S.map[p] = [type |-> "OTHER", ref |-> i, target |-> R.map[p].target]
      /\ \A x \in Pid : x # p => S.map[x] = R.map[x]
  BY <1>1 DEF TableType, MapEntry
<1>3. EntryFits(R, p) BY <1>1 DEF Fit
<1>4. ASSUME NEW x \in Pid \ {None} PROVE EntryFits(S, x)
  <2>1. EntryFits(R, x) BY DEF Fit
  <2>2. CASE x = p
    BY <1>1, <1>2, <1>3, <2>2 DEF EntryFits
  <2>3. CASE x # p BY <2>1, <2>3, <1>1, <1>2 DEF EntryFits
  <2> QED BY <2>2, <2>3
<1>5. ASSUME NEW x \in R.live PROVE BoundTo(S, x) = BoundTo(R, x)
  <2>1. R.map[p].target = x => R.map[p].type = "OTHER" BY <1>1, <1>3 DEF EntryFits
  <2> QED BY <2>1, <1>1, <1>2 DEF BoundTo
<1> QED BY <1>2, <1>4, <1>5 DEF Fit

\* unref_stream
LEMMA UnrefFits ==
  ASSUME NEW R, NEW n \in [Dec -> Nat], Fit(R, n, None), NEW p \in StreamPid, R.map[p].ref > 0,
         NEW S, S = UnrefStream(R, p)
  PROVE  /\ Fit(S, n, None) /\ S.live \subseteq R.live
         /\ \A x \in R.live : n[x] > 0 => x \in S.live
         /\ \A x \in S.live : S.dec[x].ref > 0 \/ S.dec[x] = R.dec[x]
         /\ \A x \in StreamPid : S.map[x].ref = IF x = p THEN R.map[x].ref - 1 ELSE R.map[x].ref
<1>1. /\ R \in TableType /\ R.map \in [Pid -> MapEntry] /\ p \in Pid /\ StreamPid \subseteq Pid
      /\ R.live \in SUBSET Dec /\ None \notin Pid /\ None \notin Dec /\ EntryFits(R, p)
      /\ R.map[p].ref \in Nat /\ \A x \in Pid : R.map[x].ref \in Nat
  BY RolesAssumption DEF Fit, TableType, Pid, StreamPid, MapEntry
<1>2. CASE p \in EcmPids
  <2>1. p \notin EsPids BY <1>2, RolesAssumption
  <2>2. ReleaseTarget(R, p) = R BY <2>1, <1>1 DEF ReleaseTarget, EntryFits
  <2>3. CASE R.map[p].ref - 1 < 1
    <3>1. S = [R EXCEPT !.map = [R.map EXCEPT ![p] = Unmapped]]
      BY <2>2, <2>3 DEF UnrefStream
    <3>2. /\ S \in TableType /\ S.live = R.live /\ S.dec = R.dec /\ S.map[p] = Unmapped
          /\ \A x \in Pid : x # p => S.map[x] = R.map[x]
      <4>1. Unmapped \in MapEntry BY DEF Unmapped, MapEntry
      <4>2. S.map = [R.map EXCEPT ![p] = Unmapped] /\ S.live = R.live /\ S.dec = R.dec
        BY <3>1, <1>1 DEF TableType
      <4>3. S \in TableType BY <3>1, <4>1, <1>1 DEF TableType
      <4> QED BY <4>2, <4>3, <1>1
    <3>3. ASSUME NEW x \in Pid \ {None} PROVE EntryFits(S, x)
      <4>1. EntryFits(R, x) BY DEF Fit
      <4>2. CASE x = p BY <4>2, <3>2, <2>1 DEF EntryFits, Unmapped
      <4>3. CASE x # p BY <4>1, <4>3, <3>2 DEF EntryFits
      <4> QED BY <4>2, <4>3
    <3>4. R.map[p].type # "OTHER" BY <2>1, <1>1 DEF EntryFits
    <3>5. ASSUME NEW x PROVE BoundTo(S, x) = BoundTo(R, x)
      BY <3>2, <3>4 DEF BoundTo, Unmapped
    <3>6. Fit(S, n, None) BY <3>2, <3>3, <3>5 DEF Fit
    <3>7. ASSUME NEW x \in StreamPid
          PROVE  S.map[x].ref = IF x = p THEN R.map[x].ref - 1 ELSE R.map[x].ref
      <4>1. CASE x = p
        <5>1. R.map[p].ref - 1 = 0 BY <2>3, <1>1
        <5> QED BY <4>1, <5>1, <3>2 DEF Unmapped
      <4>2. CASE x # p BY <4>2, <3>2, <1>1
      <4> QED BY <4>1, <4>2
    <3> QED BY <3>2, <3>6, <3>7
  <2>4. CASE ~(R.map[p].ref - 1 < 1)
    <3>1. S = [R EXCEPT !.map = [R.map EXCEPT ![p].ref = R.map[p].ref - 1]]
      BY <2>4, <1>1 DEF UnrefStream
    <3>2. R.map[p].ref - 1 \in Nat BY <1>1
    <3>3. Fit(S, n, None) BY <3>1, <3>2, <1>2, CountFits
    <3>4. /\ S.live = R.live /\ S.dec = R.dec
          /\ \A x \in Pid : S.map[x].ref = IF x = p THEN R.map[x].ref - 1 ELSE R.map[x].ref
      BY <3>1, <1>1 DEF TableType, MapEntry
    <3> QED BY <3>3, <3>4, <1>1
  <2> QED BY <2>3, <2>4
<1>3. CASE p \in EsPids
  <2>1. R.map[p].type = "OTHER" /\ p \notin EcmPids
    BY <1>1, <1>3, RolesAssumption DEF EntryFits
  <2>2. CASE R.map[p].ref - 1 < 1
    <3> DEFINE t == R.map[p].target
               T == ReleaseTarget(R, p)
    <3>1. /\ Fit(T, n, p) /\ T.live \subseteq R.live
          /\ \A x \in R.live : n[x] > 0 => x \in T.live
          /\ \A x \in T.live : T.dec[x].ref > 0 \/ T.dec[x] = R.dec[x]
          /\ \A x \in Pid : T.map[x].ref = R.map[x].ref
      <4>1. CASE t = None
        <5>1. T = R BY <4>1 DEF ReleaseTarget
        <5>2. Fit(R, n, p) BY <4>1, <1>3, SetAsideFits
        <5> QED BY <5>1, <5>2
      <4>2. CASE t # None
        <5> DEFINE k == [n EXCEPT ![t] = @ + 1]
        <5>1. T = ReleaseDecryptor(R, t) BY <2>1, <4>2 DEF ReleaseTarget
        <5>2. t \in R.live /\ t \in Dec BY <1>1, <4>2 DEF EntryFits
        <5>3. Fit(R, k, p) BY <4>2, <1>3, SetAsideFits
        <5> HIDE DEF t, T
        <5>4. k \in [Dec -> Nat] /\ k[t] = n[t] + 1 /\ n[t] \in Nat
              /\ \A x \in Dec : x # t => k[x] = n[x]
          BY <5>2
        <5> HIDE DEF k
        <5>5. Fit(T, n, p) /\ Released(R, T, t, n)
          BY <5>1, <5>2, <5>3, <5>4, <1>3, ReleaseFits
        <5> QED BY <5>5 DEF Released
      <4> QED BY <4>1, <4>2
    <3>2. S = [T EXCEPT !.map = [T.map EXCEPT ![p] = Unmapped]] BY <2>2 DEF UnrefStream
    <3>3. T \in TableType BY <3>1 DEF Fit
    <3> HIDE DEF T, t
    <3>4. S = [T EXCEPT !.map = [T.map EXCEPT ![p] = Unmapped],
                        !.dec = IF Unmapped.target = None THEN T.dec
                                ELSE [T.dec EXCEPT ![Unmapped.target].ref = @ + 1]]
      BY <3>2, <3>3 DEF Unmapped, TableType
    <3>5. /\ Unmapped \in MapEntry /\ Unmapped.target = None
          /\ Unmapped.type = IF Unmapped.ref = 0 THEN "UNKNOWN" ELSE "OTHER"
      BY DEF Unmapped, MapEntry
    <3>6. Fit(S, n, None) BY <3>1, <3>4, <3>5, <1>3, ReplaceFits
    <3>7. /\ S.live = T.live /\ S.dec = T.dec /\ S.map[p] = Unmapped
          /\ \A x \in Pid : x # p => S.map[x] = T.map[x]
      BY <3>2, <3>3, <1>1 DEF TableType
    <3>8. ASSUME NEW x \in StreamPid
          PROVE  S.map[x].ref = IF x = p THEN R.map[x].ref - 1 ELSE R.map[x].ref
      <4>1. CASE x = p
        <5>1. R.map[p].ref - 1 = 0 BY <2>2, <1>1
        <5> QED BY <4>1, <5>1, <3>7 DEF Unmapped
      <4>2. CASE x # p BY <4>2, <3>1, <3>7, <1>1
      <4> QED BY <4>1, <4>2
    <3> QED BY <3>1, <3>6, <3>7, <3>8
  <2>3. CASE ~(R.map[p].ref - 1 < 1)
    <3>1. S = [R EXCEPT !.map = [R.map EXCEPT ![p].ref = @ - 1]] BY <2>3 DEF UnrefStream
    <3>2. R.map[p].ref - 1 \in Nat \ {0} BY <2>3, <1>1
    <3>3. [R.map[p] EXCEPT !.ref = @ - 1]
            = [type |-> "OTHER", ref |-> R.map[p].ref - 1, target |-> R.map[p].target]
      BY <2>1, <1>1 DEF MapEntry
    <3>4. S = [R EXCEPT !.map = [R.map EXCEPT ![p] =
                [type |-> "OTHER", ref |-> R.map[p].ref - 1, target |-> R.map[p].target]]]
      BY <3>1, <3>3
    <3>5. Fit(S, n, None) BY <3>2, <3>4, <1>3, NamedFits
    <3>6. /\ S.live = R.live /\ S.dec = R.dec
          /\ \A x \in Pid : S.map[x].ref = IF x = p THEN R.map[x].ref - 1 ELSE R.map[x].ref
      BY <3>1, <1>1 DEF TableType, MapEntry
    <3> QED BY <3>5, <3>6, <1>1
  <2> QED BY <2>2, <2>3
<1> QED BY <1>2, <1>3 DEF StreamPid

\* bind_stream_decryptor
LEMMA BindFits ==
  ASSUME NEW R, NEW n \in [Dec -> Nat], Fit(R, n, None), NEW p \in EsPids, R.map[p].type = "OTHER",
         NEW d \in R.live \cup {None},
         NEW S, S = BindStream(R, p, d)
  PROVE  /\ Fit(S, n, None) /\ S.live \subseteq R.live
         /\ \A x \in R.live : n[x] > 0 => x \in S.live
         /\ \A x \in S.live : S.dec[x].ref > 0 \/ (S.dec[x] = R.dec[x] /\ x # d)
         /\ \A x \in Pid : S.map[x].ref = R.map[x].ref
<1> DEFINE t == R.map[p].target
           T == IF t = None THEN R ELSE ReleaseDecryptor(R, t)
           m == [R.map[p] EXCEPT !.target = d]
<1>1. /\ R \in TableType /\ R.map \in [Pid -> MapEntry] /\ p \in Pid /\ None \notin Pid
      /\ R.live \in SUBSET Dec /\ None \notin Dec /\ EntryFits(R, p)
      /\ t \in R.live \cup {None} /\ p \notin EcmPids /\ R.map[p].ref \in Nat
      /\ R.dec \in [Dec -> [ecm : EcmPids \cup {None}, ref : Nat]]
  BY RolesAssumption DEF Fit, TableType, Pid, MapEntry, EntryFits
<1>2. CASE t = d
  <2>1. S = R BY <1>2 DEF BindStream
  <2>2. d \in R.live => R.dec[d].ref > 0
    <3> SUFFICES ASSUME d \in R.live PROVE R.dec[d].ref > 0 OBVIOUS
    <3>1. R.dec[d].ref = Cardinality(BoundTo(R, d) \ {None}) + n[d] /\ n[d] \in Nat
      BY <1>1 DEF Fit
    <3>2. p \in BoundTo(R, d) \ {None} BY <1>1, <1>2 DEF BoundTo
    <3>3. /\ IsFiniteSet(BoundTo(R, d) \ {None})
          /\ Cardinality(BoundTo(R, d) \ {None}) \in Nat
      BY BoundFinite, FS_Difference
    <3>4. Cardinality(BoundTo(R, d) \ {None}) # 0 BY <3>2, <3>3, FS_EmptySet
    <3> QED BY <3>1, <3>3, <3>4
  <2>3. \A x \in R.live : R.dec[x].ref > 0 \/ x # d BY <2>2
  <2> QED BY <2>1, <2>3
<1>3. CASE t # d
  <2>1. /\ Fit(T, n, p) /\ T.live \subseteq R.live
        /\ \A x \in R.live : n[x] > 0 \/ x # t => x \in T.live
        /\ \A x \in T.live : T.dec[x].ref > 0 \/ T.dec[x] = R.dec[x]
        /\ \A x \in Pid : T.map[x].ref = R.map[x].ref
        /\ T.map[p] = R.map[p]
    <3>1. CASE t = None
      <4>1. Fit(R, n, p) BY <3>1, SetAsideFits
      <4> QED BY <3>1, <4>1
    <3>2. CASE t # None
      <4> DEFINE k == [n EXCEPT ![t] = @ + 1]
      <4>1. T = ReleaseDecryptor(R, t) /\ t \in R.live /\ t \in Dec BY <3>2, <1>1
      <4>2. Fit(R, k, p) BY <3>2, SetAsideFits
      <4> HIDE DEF t, T
      <4>3. k \in [Dec -> Nat] /\ k[t] = n[t] + 1 /\ n[t] \in Nat
            /\ \A x \in Dec : x # t => k[x] = n[x]
        BY <4>1
      <4> HIDE DEF k
      <4>4. Fit(T, n, p) /\ Released(R, T, t, n) BY <4>1, <4>2, <4>3, ReleaseFits
      <4> QED BY <4>4, <1>1 DEF Released
    <3> QED BY <3>1, <3>2
  <2>2. T \in TableType BY <2>1 DEF Fit
  <2>3. /\ m \in MapEntry /\ m.target = d /\ m.type = "OTHER" /\ m.ref = R.map[p].ref /\ m.ref # 0
    BY <1>1 DEF MapEntry, EntryFits
  <2>4. d \in T.live \cup {None} BY <2>1, <1>3
  <2>5. S = [T EXCEPT !.map = [T.map EXCEPT ![p] = m],
                      !.dec = IF d = None THEN T.dec ELSE [T.dec EXCEPT ![d].ref = @ + 1]]
    <3>1. S = [T EXCEPT !.map = [T.map EXCEPT ![p].target = d],
                        !.dec = IF d = None THEN T.dec ELSE [T.dec EXCEPT ![d].ref = @ + 1]]
      BY <1>3 DEF BindStream
    <3>2. [T.map EXCEPT ![p].target = d] = [T.map EXCEPT ![p] = m] BY <2>1
    <3> QED BY <3>1, <3>2
  <2> HIDE DEF T, t, m
  <2>6. Fit(S, n, None)
    <3>1. S = [T EXCEPT !.map = [T.map EXCEPT ![p] = m],
                        !.dec = IF m.target = None THEN T.dec
                                ELSE [T.dec EXCEPT ![m.target].ref = @ + 1]]
      BY <2>3, <2>5
    <3>2. m.target \in T.live \cup {None} /\ (m.type = "UNKNOWN" => m.target = None)
          /\ m.type = IF m.ref = 0 THEN "UNKNOWN" ELSE "OTHER"
      BY <2>3, <2>4
    <3>3. Fit(T, n, p) /\ m \in MapEntry BY <2>1, <2>3
    <3> QED BY <3>1, <3>2, <3>3, ReplaceFits
  <2>7. /\ S.live = T.live /\ S.map = [T.map EXCEPT ![p] = m]
        /\ S.dec = IF d = None THEN T.dec ELSE [T.dec EXCEPT ![d].ref = @ + 1]
    BY <2>2, <2>5 DEF TableType
  <2>8. T.map \in [Pid -> MapEntry] /\ T.dec \in [Dec -> [ecm : EcmPids \cup {None}, ref : Nat]]
        /\ T.live \subseteq Dec
    BY <2>2 DEF TableType
  <2>9. ASSUME NEW x \in Pid PROVE S.map[x].ref = R.map[x].ref
    BY <2>1, <2>3, <2>7, <2>8
  <2>10. ASSUME NEW x \in S.live PROVE S.dec[x].ref > 0 \/ (S.dec[x] = R.dec[x] /\ x # d)
    <3>1. x \in Dec /\ x \in T.live /\ T.dec[x].ref \in Nat BY <2>7, <2>8
    <3>2. CASE x = d
      <4>1. S.dec[x].ref = T.dec[x].ref + 1 BY <3>1, <3>2, <2>7, <2>8, <1>1
      <4> QED BY <3>1, <4>1
    <3>3. CASE x # d
      <4>1. S.dec[x] = T.dec[x] BY <3>1, <3>3, <2>7, <2>8
      <4> QED BY <3>1, <3>3, <4>1, <2>1
    <3> QED BY <3>2, <3>3
  <2>11. \A x \in R.live : n[x] > 0 => x \in S.live BY <2>1, <2>7
  <2> QED BY <2>1, <2>6, <2>7, <2>9, <2>10, <2>11
<1> QED BY <1>2, <1>3

\* set_decryptor when the ECM PID has no decryptor yet
LEMMA AddFits ==
  ASSUME NEW R, NEW n \in [Dec -> Nat], Fit(R, n, None), NEW e \in EcmPids, R.map[e].type # "ECM",
         NEW d \in Dec \ R.live, n[d] = 0,
         NEW S, S = AddDecryptor(R, e, d)
  PROVE  /\ Fit(S, n, None) /\ S.live = R.live \cup {d}
         /\ \A x \in R.live : S.dec[x] = R.dec[x]
         /\ \A x \in Pid : S.map[x].ref = R.map[x].ref
<1> DEFINE m == [type |-> "ECM", ref |-> R.map[e].ref, target |-> d]
           c == [ecm |-> e, ref |-> 0]
           T == [R EXCEPT !.live = R.live \cup {d}, !.dec = [R.dec EXCEPT ![d] = c]]
<1>1. /\ R \in TableType /\ R.map \in [Pid -> MapEntry] /\ e \in Pid /\ None \notin Pid
      /\ R.live \in SUBSET Dec /\ None \notin Dec /\ EntryFits(R, e) /\ e \notin EsPids
      /\ R.dec \in [Dec -> [ecm : EcmPids \cup {None}, ref : Nat]] /\ R.map[e].ref \in Nat
  BY RolesAssumption DEF Fit, TableType, Pid, MapEntry
<1>2. T.map = R.map BY <1>1 DEF TableType
<1>3. ReleaseTarget(T, e) = T BY <1>1, <1>2 DEF ReleaseTarget, EntryFits
<1>4. S = [T EXCEPT !.map = [R.map EXCEPT ![e] = m]]
  BY <1>2, <1>3 DEF AddDecryptor
<1>5. /\ S.live = R.live \cup {d} /\ S.dec = [R.dec EXCEPT ![d] = c]
      /\ S.map = [R.map EXCEPT ![e] = m] /\ S \in TableType
  <2>1. m \in MapEntry /\ c \in [ecm : EcmPids \cup {None}, ref : Nat] BY <1>1 DEF MapEntry
  <2>2. /\ S.live = T.live /\ S.dec = T.dec /\ S.map = [R.map EXCEPT ![e] = m]
    BY <1>1, <1>4 DEF TableType
  <2>3. T.live = R.live \cup {d} /\ T.dec = [R.dec EXCEPT ![d] = c] BY <1>1 DEF TableType
  <2>4. S = [map |-> S.map, live |-> S.live, dec |-> S.dec]
    BY <1>1, <1>4 DEF TableType
  <2> HIDE DEF m, c, T
  <2>5. /\ S.map \in [Pid -> MapEntry] /\ S.live \in SUBSET Dec
        /\ S.dec \in [Dec -> [ecm : EcmPids \cup {None}, ref : Nat]]
    BY <2>1, <2>2, <2>3, <1>1
  <2> QED BY <2>2, <2>3, <2>4, <2>5 DEF TableType
<1>6. ASSUME NEW x \in Pid \ {None} PROVE EntryFits(S, x)
  <2>1. EntryFits(R, x) BY DEF Fit
  <2>2. CASE x = e BY <2>2, <1>1, <1>5 DEF EntryFits
  <2>3. CASE x # e
    <3>1. S.map[x] = R.map[x] /\ R.map[x].target # d BY <2>1, <2>3, <1>1, <1>5 DEF EntryFits
    <3>2. R.map[x].target # None => S.dec[R.map[x].target] = R.dec[R.map[x].target]
      BY <2>1, <3>1, <1>1, <1>5 DEF EntryFits
    <3> QED BY <2>1, <3>1, <3>2, <1>5 DEF EntryFits
  <2> QED BY <2>2, <2>3
<1>7. ASSUME NEW x \in Dec PROVE BoundTo(S, x) = BoundTo(R, x)
  <2>1. R.map[e].type # "OTHER" BY <1>1 DEF EntryFits
  <2> QED BY <2>1, <1>1, <1>5 DEF BoundTo
<1>8. BoundTo(R, d) \ {None} = {}
  <2>1. ASSUME NEW x \in Pid \ {None} PROVE R.map[x].target # d
    <3>1. EntryFits(R, x) BY DEF Fit
    <3> QED BY <3>1, <1>1 DEF EntryFits
  <2> QED BY <2>1, <1>1 DEF BoundTo
<1>9. ASSUME NEW x \in S.live
      PROVE  S.dec[x].ecm \in EcmPids /\ S.dec[x].ref = Cardinality(BoundTo(S, x) \ {None}) + n[x]
  <2>1. x \in Dec /\ BoundTo(S, x) = BoundTo(R, x) BY <1>1, <1>5, <1>7
  <2>2. CASE x = d
    <3>1. Cardinality(BoundTo(S, x) \ {None}) = 0 BY <2>1, <2>2, <1>8, FS_EmptySet
    <3>2. S.dec[x] = c BY <2>2, <1>1, <1>5
    <3> QED BY <2>2, <3>1, <3>2
  <2>3. CASE x # d
    <3>1. S.dec[x] = R.dec[x] /\ x \in R.live BY <2>1, <2>3, <1>1, <1>5
    <3> QED BY <2>1, <3>1 DEF Fit
  <2> QED BY <2>2, <2>3
<1>10. Fit(S, n, None) BY <1>5, <1>6, <1>9 DEF Fit
<1>11. \A x \in Pid : S.map[x].ref = R.map[x].ref BY <1>1, <1>5
<1>12. \A x \in R.live : S.dec[x] = R.dec[x] BY <1>1, <1>5
<1> QED BY <1>5, <1>10, <1>11, <1>12

\* Entries of other PIDs than an ECM's or a stream's lead nowhere.
LEMMA PlainFits ==
  ASSUME NEW R, NEW n \in [Dec -> Nat], Fit(R, n, None), NEW S \in TableType,
         S.live = R.live, S.dec = R.dec,
         \A x \in StreamPid : S.map[x] = R.map[x],
         \A x \in Pid \ StreamPid : S.map[x].target = None /\ S.map[x].type \notin {"ECM", "OTHER"}
  PROVE  Fit(S, n, None)
<1>1. ASSUME NEW x \in Pid \ {None} PROVE EntryFits(S, x)
  <2>1. EntryFits(R, x) BY DEF Fit
  <2>2. CASE x \in StreamPid BY <2>1, <2>2 DEF EntryFits
  <2>3. CASE x \notin StreamPid BY <2>3 DEF EntryFits, StreamPid
  <2> QED BY <2>2, <2>3
<1>2. ASSUME NEW d PROVE BoundTo(S, d) = BoundTo(R, d)
  <2>1. \A x \in Pid : R.map[x].type = "OTHER" => x \in StreamPid
    BY RolesAssumption DEF Fit, EntryFits, StreamPid
  <2> QED BY <2>1 DEF BoundTo
<1> QED BY <1>1, <1>2 DEF Fit

----------------------------------------------------------------------------
(* The invariant.                                                          *)

\* proc_pmt's own reference
Held == [d \in Dec |-> IF dec0 = d THEN 1 ELSE 0]

\* A decryptor no reference counts yet is the one just made.
Busy == \A d \in live : dec[d].ref > 0 \/ d = dec1

\* Where the handlers are, and what they work on
Control ==
  /\ program \in Seq(Program)
  /\ pat \in Pats \cup {Foreign, Unseen} /\ cat \in Cats \cup {Foreign, Unseen}
  /\ drop \in Seq(StreamPid) /\ todo \in Seq([pid : EsPids, ecm : CaPid])
  /\ pc \in {"idle", "pat", "lists", "drop", "bind", "end"}
  /\ pc \in {"lists", "drop", "bind", "end"} => cur \in 1..Len(program)
  /\ pc = "lists" => program[cur].pmt \in Pmts
  /\ pc = "pat" => pat \in Pats
  /\ pc = "bind" => todo # <<>>
  /\ drop # <<>> => pc \in {"pat", "drop"}
  /\ pc \in {"idle", "pat"} => dec0 = None
  /\ pc # "bind" => dec1 = None
  /\ {dec0, dec1} \subseteq live \cup {None}

IInv == Control /\ Fit(Tables, Held, None) /\ Busy /\ MapRefExact

\* The tables of a state, and those a step sets
LEMMA TablesTyped ==
  ASSUME Fit(Tables, Held, None)
  PROVE  /\ map \in [Pid -> MapEntry] /\ live \in SUBSET Dec
         /\ dec \in [Dec -> [ecm : EcmPids \cup {None}, ref : Nat]]
         /\ Tables.map = map /\ Tables.live = live /\ Tables.dec = dec
         /\ Held \in [Dec -> Nat]
BY DEF Fit, TableType, Tables, Held

LEMMA TablesSet ==
  ASSUME NEW R \in TableType, SetTables(R)
  PROVE  Tables' = R
BY DEF TableType, SetTables, Tables

\* Programs whose lists are the same
LEMMA ListedSame ==
  ASSUME NEW P, NEW Q, Len(P) = Len(Q), NEW p,
         \A j \in 1..Len(P) : Q[j].old = P[j].old /\ Q[j].streams = P[j].streams
  PROVE  Listed(Q, p) = Listed(P, p)
BY DEF Listed

\* Without programs there are no entries.
LEMMA NoEntries ==
  ASSUME program = <<>>, drop = <<>>
  PROVE  \A p : Entries(p) = 0
<1> SUFFICES ASSUME NEW p PROVE Entries(p) = 0 OBVIOUS
<1>1. Listed(<<>>, p) = {} BY DEF Listed
<1>2. Cardinality(Listed(<<>>, p)) = 0 BY <1>1, FS_EmptySet
<1>3. Occurrences(<<>>, p) = 0 BY OccurrencesSmall
<1> QED BY <1>2, <1>3 DEF Entries

THEOREM InitIInv == Init => IInv
<1> SUFFICES ASSUME Init PROVE IInv OBVIOUS
<1> USE DEF Init
<1>1. Unmapped \in MapEntry /\ NoDecryptor \in [ecm : EcmPids \cup {None}, ref : Nat]
  BY DEF Unmapped, NoDecryptor, MapEntry
<1>2. Control BY DEF Control
<1>3. Fit(Tables, Held, None)
  <2>1. Tables \in TableType BY <1>1 DEF Tables, TableType
  <2>2. ASSUME NEW p \in Pid PROVE EntryFits(Tables, p)
    BY DEF EntryFits, Tables, Unmapped
  <2> QED BY <2>1, <2>2 DEF Fit, Tables
<1>4. Busy BY DEF Busy
<1>5. MapRefExact
  <2>1. \A p : Entries(p) = 0 BY NoEntries
  <2>2. \A p \in EsPids \cup EcmPids : map[p].ref = 0 BY DEF Unmapped, Pid
  <2> QED BY <2>1, <2>2 DEF MapRefExact
<1> QED BY <1>2, <1>3, <1>4, <1>5 DEF IInv

----------------------------------------------------------------------------
(* The steps of proc_pat.                                                  *)

\* Steps that leave the tables, the lists and proc_pmt's locals alone
LEMMA AsideKeeps ==
  ASSUME IInv, UNCHANGED <<tables, drop, dec0, dec1>>, Control',
         Len(program') = Len(program),
         \A j \in 1..Len(program) : /\ program'[j].old = program[j].old
                                    /\ program'[j].streams = program[j].streams
  PROVE  IInv'
<1>1. Fit(Tables, Held, None)' BY DEF IInv, Tables, Held, tables
<1>2. Busy' BY DEF IInv, Busy, tables
<1>3. \A p : Listed(program', p) = Listed(program, p) BY ListedSame
<1>4. MapRefExact' BY <1>3 DEF IInv, MapRefExact, Entries, tables
<1> QED BY <1>1, <1>2, <1>4 DEF IInv

LEMMA PatForeignKeeps == ASSUME IInv, PatForeign PROVE IInv'
<1>1. Control' BY DEF IInv, Control, PatForeign, tables, locals
<1> QED BY <1>1, AsideKeeps DEF PatForeign, tables, locals

LEMMA CatForeignKeeps == ASSUME IInv, CatForeign PROVE IInv'
<1>1. Control' BY DEF IInv, Control, CatForeign, tables, locals
<1> QED BY <1>1, AsideKeeps DEF CatForeign, tables, locals

LEMMA PatBeginKeeps == ASSUME IInv, NEW t \in Pats, PatBegin(t) PROVE IInv'
<1>1. Control' BY DEF IInv, Control, PatBegin, tables, locals
<1> QED BY <1>1, AsideKeeps DEF PatBegin, tables, locals

LEMMA PmtForeignKeeps == ASSUME IInv, NEW i \in 1..Len(program), PmtForeign(i) PROVE IInv'
<1> DEFINE g == [program[i] EXCEPT !.pmt = Foreign, !.mine = {}]
<1>1. program \in Seq(Program) /\ program[i] \in Program BY ElementOfSeq DEF IInv, Control
<1>2. program' = [program EXCEPT ![i] = g] BY <1>1 DEF PmtForeign
<1>3. g \in Program /\ g.old = program[i].old /\ g.streams = program[i].streams
  BY <1>1 DEF Program
<1> HIDE DEF g
<1>4. /\ program' \in Seq(Program) /\ Len(program') = Len(program)
      /\ \A j \in 1..Len(program) : program'[j] = IF j = i THEN g ELSE program[j]
  BY <1>1, <1>2, <1>3, ExceptSeq
<1>5. Control' BY <1>4 DEF IInv, Control, PmtForeign, tables, locals
<1> QED BY <1>3, <1>4, <1>5, AsideKeeps DEF PmtForeign, tables, locals

\* release_program moves a program's entries to those being dropped.
LEMMA PatReleaseKeeps == ASSUME IInv, PatRelease PROVE IInv'
<1> DEFINE g == [program[1] EXCEPT !.old = <<>>, !.streams = <<>>]
<1>1. /\ program \in Seq(Program) /\ program # <<>> /\ Len(program) \in Nat \ {0}
      /\ 1 \in 1..Len(program) /\ program[1] \in Program
  BY EmptySeq, ElementOfSeq DEF IInv, Control, PatRelease
<1>2. program' = [program EXCEPT ![1] = g] BY <1>1 DEF PatRelease
<1>3. g \in Program /\ g.old = <<>> /\ g.streams = <<>>
  <2>1. <<>> \in Seq(StreamPid) BY EmptySeq
  <2> QED BY <1>1, <2>1 DEF Program
<1>4. program[1].old \in Seq(StreamPid) /\ program[1].streams \in Seq(StreamPid)
  BY <1>1 DEF Program
<1> HIDE DEF g
<1>5. /\ program' \in Seq(Program) /\ Len(program') = Len(program) /\ program'[1] = g
      /\ \A j \in (1..Len(program)) \ {1} : program'[j] = program[j]
  BY <1>1, <1>2, <1>3, ExceptSeq
<1>6. Control'
  <2>1. drop' \in Seq(StreamPid) BY <1>4, ConcatProperties DEF PatRelease
  <2> QED BY <1>5, <2>1 DEF IInv, Control, PatRelease, tables
<1>7. ASSUME NEW p PROVE Entries(p)' = Entries(p)
  <2>1. /\ Cardinality(Listed(program, p)) \in Nat /\ Cardinality(Listed(program', p)) \in Nat
        /\ Cardinality(Listed(program', p))
              + Occurrences(program[1].old, p) + Occurrences(program[1].streams, p)
            = Cardinality(Listed(program, p)) + Occurrences(g.old, p) + Occurrences(g.streams, p)
    BY <1>1, <1>5, ListedChange
  <2>2. Occurrences(g.old, p) = 0 /\ Occurrences(g.streams, p) = 0 BY <1>3, OccurrencesSmall
  <2>3. /\ Occurrences(program[1].old, p) \in Nat /\ Occurrences(program[1].streams, p) \in Nat
        /\ Occurrences(drop', p) = Occurrences(program[1].old, p) + Occurrences(program[1].streams, p)
    BY <1>4, OccurrencesConcat, WhereFinite DEF PatRelease
  <2>4. Occurrences(drop, p) = 0 BY OccurrencesSmall DEF PatRelease
  <2>5. Entries(p) = Occurrences(drop, p) + Cardinality(Listed(program, p)) BY DEF Entries
  <2>6. Entries(p)' = Occurrences(drop', p) + Cardinality(Listed(program', p)) BY DEF Entries
  <2> QED BY <2>1, <2>2, <2>3, <2>4, <2>5, <2>6
<1>8. MapRefExact' BY <1>7 DEF IInv, MapRefExact, PatRelease, tables
<1>9. Fit(Tables, Held, None)' BY DEF IInv, Tables, Held, PatRelease, tables
<1>10. Busy' BY DEF IInv, Busy, PatRelease, tables
<1> QED BY <1>6, <1>8, <1>9, <1>10 DEF IInv

\* and forgets the program when they are gone.
LEMMA PatForgetKeeps == ASSUME IInv, PatForget PROVE IInv'
<1>1. /\ program \in Seq(Program) /\ program # <<>> /\ program[1] \in Program
      /\ program[1].pid \in PmtPids /\ Tail(program) \in Seq(Program)
  <2>1. program \in Seq(Program) /\ program # <<>> BY DEF IInv, Control, PatForget
  <2>2. 1 \in 1..Len(program) BY <2>1, EmptySeq
  <2>3. program[1] \in Program BY <2>1, <2>2, ElementOfSeq
  <2>4. Tail(program) \in Seq(Program) BY <2>1, HeadTailProperties
  <2> QED BY <2>1, <2>3, <2>4 DEF Program
<1> DEFINE m == program[1].pid
<1>2. m \in Pid /\ m \notin StreamPid BY <1>1, RolesAssumption DEF Pid, StreamPid
<1>3. map \in [Pid -> MapEntry] /\ Fit(Tables, Held, None) /\ Tables \in TableType /\ Held \in [Dec -> Nat]
      /\ Tables.map = map /\ Tables.live = live /\ Tables.dec = dec
  BY TablesTyped DEF IInv, Fit
<1>4. /\ map' = [map EXCEPT ![m] = Unmapped] /\ live' = live /\ dec' = dec
      /\ Tables'.map = map' /\ Tables'.live = live' /\ Tables'.dec = dec'
  BY DEF PatForget, Tables
<1>5. Control' BY <1>1 DEF IInv, Control, PatForget, locals
<1>6. Fit(Tables', Held, None)
  <2>1. Unmapped \in MapEntry BY DEF Unmapped, MapEntry
  <2>2. Tables' \in TableType BY <1>2, <1>3, <1>4, <2>1, TablesTyped DEF TableType, Tables, IInv
  <2>3. \A x \in StreamPid : map'[x] = map[x] BY <1>2, <1>3, <1>4 DEF StreamPid, Pid
  <2>4. ASSUME NEW x \in Pid \ StreamPid
        PROVE  map'[x].target = None /\ map'[x].type \notin {"ECM", "OTHER"}
    <3>1. EntryFits(Tables, x) BY <1>3, RolesAssumption DEF Fit
    <3>2. map[x].target = None /\ map[x].type \notin {"ECM", "OTHER"}
      BY <3>1, <1>3 DEF EntryFits, StreamPid
    <3> QED BY <3>2, <1>2, <1>3, <1>4 DEF Unmapped
  <2>5. /\ Tables'.live = Tables.live /\ Tables'.dec = Tables.dec
        /\ \A x \in StreamPid : Tables'.map[x] = Tables.map[x]
        /\ \A x \in Pid \ StreamPid :
             Tables'.map[x].target = None /\ Tables'.map[x].type \notin {"ECM", "OTHER"}
    BY <1>3, <1>4, <2>3, <2>4
  <2> QED BY <1>3, <2>2, <2>5, PlainFits
<1>7. Fit(Tables, Held, None)' BY <1>6 DEF Held, PatForget, locals
<1>8. Busy' BY DEF IInv, Busy, PatForget, locals
<1>9. MapRefExact'
  <2>1. ASSUME NEW p PROVE Cardinality(Listed(program', p)) = Cardinality(Listed(program, p))
    BY <1>1, ListedTail DEF PatForget
  <2>2. \A p \in EsPids \cup EcmPids : map'[p] = map[p]
    BY <1>2, <1>3, <1>4 DEF StreamPid, Pid
  <2> QED BY <2>1, <2>2 DEF IInv, MapRefExact, Entries, PatForget, locals
<1> QED BY <1>5, <1>7, <1>8, <1>9 DEF IInv

\* Dropping an entry takes its reference along.
LEMMA DropStreamKeeps == ASSUME IInv, DropStream PROVE IInv'
<1>0. PICK p : p = Head(drop) OBVIOUS
<1> DEFINE S == UnrefStream(Tables, p)
<1>1. drop \in Seq(StreamPid) /\ drop # <<>> /\ p \in StreamPid /\ drop' \in Seq(StreamPid)
  BY <1>0, HeadTailProperties DEF IInv, Control, DropStream
<1>2. /\ map \in [Pid -> MapEntry] /\ Fit(Tables, Held, None) /\ Held \in [Dec -> Nat]
      /\ Tables.map = map /\ Tables.live = live /\ Tables.dec = dec /\ live \subseteq Dec
  BY TablesTyped DEF IInv
<1>3. ASSUME NEW x
      PROVE  Entries(x) = Entries(x)' + (IF x = p THEN 1 ELSE 0) /\ Entries(x)' \in Nat
  <2>1. Occurrences(drop, x) = Occurrences(drop', x) + (IF p = x THEN 1 ELSE 0)
    BY <1>0, <1>1, OccurrencesTail DEF DropStream
  <2>2. Occurrences(drop', x) \in Nat BY <1>1, WhereFinite
  <2>3. program' = program BY DEF DropStream
  <2>4. Cardinality(Listed(program, x)) \in Nat BY ListedFinite DEF IInv, Control
  <2>5. Entries(x) = Occurrences(drop, x) + Cardinality(Listed(program, x)) BY DEF Entries
  <2>6. Entries(x)' = Occurrences(drop', x) + Cardinality(Listed(program, x))
    BY <2>3 DEF Entries
  <2> QED BY <2>1, <2>2, <2>4, <2>5, <2>6
<1>4. \A x \in StreamPid : map[x].ref = Entries(x) BY DEF IInv, MapRefExact, StreamPid
<1>5. Tables.map[p].ref > 0
  <2>1. Entries(p) = Entries(p)' + 1 /\ Entries(p)' \in Nat BY <1>3
  <2> QED BY <1>1, <1>2, <1>4, <2>1
<1> HIDE DEF S
<1>6. /\ Fit(S, Held, None) /\ S.live \subseteq Tables.live
      /\ \A x \in Tables.live : Held[x] > 0 => x \in S.live
      /\ \A x \in S.live : S.dec[x].ref > 0 \/ S.dec[x] = Tables.dec[x]
      /\ \A x \in StreamPid : S.map[x].ref =
            IF x = p THEN Tables.map[x].ref - 1 ELSE Tables.map[x].ref
  BY <1>1, <1>2, <1>5, UnrefFits DEF S
<1>7. Tables' = S /\ map' = S.map /\ live' = S.live /\ dec' = S.dec
  <2>1. SetTables(S) BY <1>0 DEF DropStream, S
  <2>2. S \in TableType BY <1>6 DEF Fit
  <2> QED BY <2>1, <2>2, TablesSet DEF SetTables
<1>8. UNCHANGED <<program, pat, cat, pc, cur, dec0, dec1, todo>> BY DEF DropStream
<1>9. dec1 = None /\ pc \in {"pat", "drop"} BY DEF IInv, Control, DropStream
<1>10. Control'
  <2>1. dec0 \in live' \cup {None}
    <3>1. dec0 \in live \cup {None} BY DEF IInv, Control
    <3>2. dec0 # None => Held[dec0] = 1 BY <1>2, <3>1 DEF Held
    <3> QED BY <3>1, <3>2, <1>2, <1>6, <1>7
  <2> QED BY <2>1, <1>1, <1>8, <1>9 DEF IInv, Control
<1>11. Fit(Tables, Held, None)' BY <1>6, <1>7, <1>8 DEF Held
<1>12. Busy' BY <1>2, <1>6, <1>7, <1>8, <1>9 DEF IInv, Busy
<1>13. MapRefExact'
  <2>1. ASSUME NEW x \in StreamPid PROVE map'[x].ref = Entries(x)'
    <3>1. map'[x].ref = IF x = p THEN map[x].ref - 1 ELSE map[x].ref BY <1>2, <1>6, <1>7
    <3>2. Entries(x) = Entries(x)' + (IF x = p THEN 1 ELSE 0) /\ Entries(x)' \in Nat BY <1>3
    <3>3. map[x].ref = Entries(x) BY <1>4
    <3> QED BY <3>1, <3>2, <3>3
  <2> QED BY <2>1 DEF MapRefExact, StreamPid
<1> QED BY <1>10, <1>11, <1>12, <1>13 DEF IInv

\* Without entries no stream is bound, and no decryptor is left.
LEMMA NoneLive ==
  ASSUME IInv, program = <<>>, drop = <<>>, dec0 = None, dec1 = None
  PROVE  live = {}
<1> SUFFICES ASSUME NEW d \in live PROVE FALSE OBVIOUS
<1>1. /\ Fit(Tables, Held, None) /\ Tables.map = map /\ Tables.live = live /\ Tables.dec = dec
      /\ d \in Dec /\ None \notin Dec
  BY TablesTyped, RolesAssumption DEF IInv
<1>2. BoundTo(Tables, d) \ {None} = {}
  <2>1. ASSUME NEW x \in Pid \ {None}, map[x].type = "OTHER" PROVE FALSE
    <3>1. EntryFits(Tables, x) BY <1>1 DEF Fit
    <3>2. x \in EsPids /\ map[x].ref # 0 BY <2>1, <3>1, <1>1 DEF EntryFits
    <3>3. map[x].ref = 0 BY <3>2, NoEntries DEF IInv, MapRefExact
    <3> QED BY <3>2, <3>3
  <2> QED BY <2>1, <1>1 DEF BoundTo
<1>3. dec[d].ref = Cardinality(BoundTo(Tables, d) \ {None}) + Held[d] BY <1>1 DEF Fit
<1>4. Held[d] = 0 BY <1>1 DEF Held
<1>5. dec[d].ref = 0
  <2>1. Cardinality(BoundTo(Tables, d) \ {None}) = 0 BY <1>2, FS_EmptySet
  <2> QED BY <2>1, <1>3, <1>4
<1> QED BY <1>1, <1>5 DEF IInv, Busy

\* The new programs come without streams.
LEMMA PatEndKeeps == ASSUME IInv, PatEnd PROVE IInv'
<1>1. /\ dec0 = None /\ dec1 = None /\ program = <<>> /\ drop = <<>> /\ pat \in Pats
      /\ UNCHANGED <<live, dec, pat, cat, cur, dec0, dec1, todo, drop>> /\ pc' = "idle"
  BY DEF IInv, Control, PatEnd, locals
<1>2. live = {} BY <1>1, NoneLive
<1>3. /\ map \in [Pid -> MapEntry] /\ Fit(Tables, Held, None) /\ Tables \in TableType
      /\ dec \in [Dec -> [ecm : EcmPids \cup {None}, ref : Nat]]
  BY TablesTyped DEF IInv, Fit
<1>4. /\ pat \in Seq(PmtPids) /\ Len(pat) \in Nat
      /\ \A i \in 1..Len(pat) : pat[i] \in PmtPids
  <2>1. pat \in Seq(PmtPids) BY <1>1, TablesAssumption
  <2> QED BY <2>1, LenProperties, ElementOfSeq
<1>5. /\ program' \in Seq(Program) /\ Len(program') = Len(pat)
      /\ \A i \in 1..Len(pat) : program'[i].old = <<>> /\ program'[i].streams = <<>>
  <2>1. <<>> \in Seq(StreamPid) BY EmptySeq
  <2>2. \A i \in 1..Len(pat) : NewProgram(pat[i]) \in Program BY <1>4, <2>1 DEF NewProgram, Program
  <2>3. program' = [i \in 1..Len(pat) |-> NewProgram(pat[i])] BY DEF PatEnd
  <2>4. program' \in [1..Len(pat) -> Program] BY <2>2, <2>3
  <2>5. program' \in Seq(Program) BY <1>4, <2>4, SeqDef
  <2>6. Len(program') = Len(pat) BY <1>4, <2>4
  <2> QED BY <2>3, <2>5, <2>6 DEF NewProgram
<1>6. Control' BY <1>1, <1>5 DEF IInv, Control
<1>7. /\ map' \in [Pid -> MapEntry]
      /\ \A p \in Pid : /\ map'[p].target = None /\ map'[p].type \notin {"ECM", "OTHER"}
                        /\ p \in StreamPid => map'[p] = Unmapped
  <2>1. ASSUME NEW p \in StreamPid PROVE p # PatPid /\ ~Names(pat, p)
    BY <1>4, RolesAssumption DEF StreamPid, Names
  <2>2. Unmapped \in MapEntry BY DEF Unmapped, MapEntry
  <2> QED BY <2>1, <2>2 DEF PatEnd, Unmapped, MapEntry
<1>8. Fit(Tables, Held, None)'
  <2>1. Tables' \in TableType BY <1>1, <1>2, <1>3, <1>7 DEF Tables, TableType
  <2>2. ASSUME NEW p \in Pid PROVE EntryFits(Tables', p)
    BY <1>7 DEF EntryFits, Tables, StreamPid, Unmapped
  <2>3. Tables'.live = {} BY <1>1, <1>2 DEF Tables
  <2> QED BY <2>1, <2>2, <2>3 DEF Fit
<1>9. Busy' BY <1>1, <1>2 DEF Busy
<1>10. MapRefExact'
  <2>1. ASSUME NEW p PROVE Entries(p)' = 0
    <3>1. ASSUME NEW i \in 1..Len(program')
          PROVE  Where(program'[i].old \o program'[i].streams, p) = {}
      <4>1. program'[i].old \o program'[i].streams = <<>> BY <1>5
      <4>2. Where(<<>>, p) = {} BY DEF Where
      <4> QED BY <4>1, <4>2
    <3>2. Listed(program', p) = {} BY <3>1 DEF Listed
    <3>3. Cardinality(Listed(program', p)) = 0 BY <3>2, FS_EmptySet
    <3>4. Occurrences(drop', p) = 0 BY <1>1, OccurrencesSmall
    <3> QED BY <3>3, <3>4 DEF Entries
  <2>2. \A p \in StreamPid : map'[p].ref = 0 BY <1>7 DEF Unmapped, StreamPid, Pid
  <2> QED BY <2>1, <2>2 DEF MapRefExact, StreamPid
<1> QED BY <1>6, <1>8, <1>9, <1>10 DEF IInv

----------------------------------------------------------------------------
(* reset and proc_cat.                                                     *)

LEMMA ResetKeeps == ASSUME IInv, Reset PROVE IInv'
<1>1. UNCHANGED <<pc, cur, dec0, dec1, todo, drop>> /\ pc = "idle" /\ drop = <<>>
      /\ dec0 = None /\ dec1 = None /\ todo \in Seq([pid : EsPids, ecm : CaPid])
  BY DEF Reset, locals, IInv, Control
<1>2. <<>> \in Seq(Program) /\ <<>> \in Seq(StreamPid) BY EmptySeq
<1>3. Control' BY <1>1, <1>2 DEF Reset, Control
<1>4. Fit(Tables, Held, None)'
  <2>1. Unmapped \in MapEntry /\ NoDecryptor \in [ecm : EcmPids \cup {None}, ref : Nat]
    BY DEF Unmapped, NoDecryptor, MapEntry
  <2>2. Tables' \in TableType BY <2>1 DEF Tables, TableType, Reset
  <2>3. ASSUME NEW p \in Pid PROVE EntryFits(Tables', p)
    BY DEF EntryFits, Tables, Unmapped, Reset
  <2> QED BY <2>2, <2>3 DEF Fit, Tables, Reset
<1>5. Busy' BY DEF Busy, Reset
<1>6. MapRefExact'
  <2>1. ASSUME NEW p PROVE Entries(p)' = 0
    <3>1. Listed(<<>>, p) = {} BY DEF Listed
    <3>2. Cardinality(Listed(<<>>, p)) = 0 BY <3>1, FS_EmptySet
    <3>3. Occurrences(<<>>, p) = 0 BY OccurrencesSmall
    <3> QED BY <1>1, <3>2, <3>3 DEF Entries, Reset
  <2>2. \A p \in EsPids \cup EcmPids : map'[p].ref = 0 BY DEF Unmapped, Pid, Reset
  <2> QED BY <2>1, <2>2 DEF MapRefExact
<1> QED BY <1>3, <1>4, <1>5, <1>6 DEF IInv

\* proc_cat writes entries that are no stream's.
LEMMA CatKeeps == ASSUME IInv, NEW c \in Cats, Cat(c) PROVE IInv'
<1>1. c \in EmmPids \cup {None} BY TablesAssumption
<1>2. /\ map \in [Pid -> MapEntry] /\ Fit(Tables, Held, None) /\ Held \in [Dec -> Nat]
      /\ Tables.map = map /\ Tables.live = live /\ Tables.dec = dec /\ live \in SUBSET Dec
      /\ dec \in [Dec -> [ecm : EcmPids \cup {None}, ref : Nat]] /\ None \notin Pid
  BY TablesTyped, RolesAssumption DEF IInv
<1>3. c # None => ReleaseTarget(Tables, c) = Tables
  <2> SUFFICES ASSUME c # None PROVE ReleaseTarget(Tables, c) = Tables OBVIOUS
  <2>1. c \in Pid \ {None} /\ c \notin EsPids BY <1>1, <1>2, RolesAssumption DEF Pid
  <2>2. EntryFits(Tables, c) BY <1>2, <2>1 DEF Fit
  <2> QED BY <2>1, <2>2 DEF EntryFits, ReleaseTarget
<1> DEFINE entry(type) == [type |-> type, ref |-> 1, target |-> None]
           m == [p \in Pid |-> IF p = CatPid THEN entry("CAT")
                               ELSE IF p = c THEN entry("EMM") ELSE map[p]]
<1>4. map' = m /\ live' = live /\ dec' = dec
  <2>1. SetTables([Tables EXCEPT !.map = m]) BY <1>2, <1>3 DEF Cat
  <2> HIDE DEF m
  <2> QED BY <2>1 DEF SetTables, Tables
<1>5. UNCHANGED <<program, pat, pc, cur, dec0, dec1, todo, drop>> /\ cat' = c BY DEF Cat, locals
<1>6. Control' BY <1>4, <1>5 DEF IInv, Control
<1>7. Fit(Tables, Held, None)'
  <2>1. entry("CAT") \in MapEntry /\ entry("EMM") \in MapEntry BY DEF MapEntry
  <2>2. m \in [Pid -> MapEntry] BY <1>2, <2>1
  <2>3. Tables' \in TableType BY <1>2, <1>4, <2>2 DEF Tables, TableType
  <2>4. \A x \in StreamPid : m[x] = map[x]
    BY <1>1, <1>2, RolesAssumption DEF StreamPid, Pid
  <2>5. ASSUME NEW x \in Pid \ StreamPid
        PROVE  m[x].target = None /\ m[x].type \notin {"ECM", "OTHER"}
    <3>1. EntryFits(Tables, x) BY <1>2 DEF Fit
    <3>2. map[x].target = None /\ map[x].type \notin {"ECM", "OTHER"}
      BY <3>1, <1>2 DEF EntryFits, StreamPid
    <3> QED BY <3>2
  <2> HIDE DEF m
  <2>6. /\ Tables'.live = Tables.live /\ Tables'.dec = Tables.dec /\ Tables'.map = m
    BY <1>4 DEF Tables
  <2>7. Fit(Tables', Held, None) BY <1>2, <2>3, <2>4, <2>5, <2>6, PlainFits
  <2> QED BY <2>7, <1>5 DEF Held
<1>8. Busy' BY <1>4, <1>5 DEF IInv, Busy
<1>9. MapRefExact'
  <2>1. \A x \in StreamPid : m[x] = map[x]
    BY <1>1, <1>2, RolesAssumption DEF StreamPid, Pid
  <2> HIDE DEF m
  <2> QED BY <2>1, <1>4, <1>5 DEF IInv, MapRefExact, Entries, StreamPid
<1> QED BY <1>6, <1>7, <1>8, <1>9 DEF IInv

----------------------------------------------------------------------------
(* The steps of proc_pmt.                                                  *)

\* An ECM PID without a decryptor, and one with
LEMMA RegisteredTarget ==
  ASSUME IInv, NEW e \in EcmPids
  PROVE  IF Registered(e) THEN map[e].target \in live ELSE map[e].type # "ECM"
<1>1. Fit(Tables, Held, None) /\ Tables.map = map /\ Tables.live = live /\ e \in Pid \ {None}
  BY TablesTyped, RolesAssumption DEF IInv, Pid
<1>2. EntryFits(Tables, e) BY <1>1 DEF Fit
<1> QED BY <1>1, <1>2 DEF EntryFits, Registered

\* proc_pmt takes its reference to d, which is on the list or was just put there.
LEMMA HoldKeeps ==
  ASSUME IInv, dec0 = None, dec1 = None, NEW R, Fit(R, Held, None), NEW d \in R.live,
         \A x \in R.live : x # d => x \in live /\ R.dec[x] = dec[x],
         \A x \in Pid : R.map[x].ref = map[x].ref,
         Tables' = [R EXCEPT !.dec = [R.dec EXCEPT ![d].ref = @ + 1]], dec0' = d
  PROVE  /\ Fit(Tables, Held, None)' /\ Busy' /\ dec0' \in live'
         /\ \A x \in StreamPid : map'[x].ref = map[x].ref
<1>1. /\ R \in TableType /\ R.live \in SUBSET Dec /\ d \in Dec /\ Held \in [Dec -> Nat]
      /\ R.dec \in [Dec -> [ecm : EcmPids \cup {None}, ref : Nat]] /\ None \notin Dec
  BY TablesTyped, RolesAssumption DEF IInv, Fit, TableType
<1>2. map' = R.map /\ live' = R.live /\ dec' = [R.dec EXCEPT ![d].ref = @ + 1]
  BY <1>1 DEF Tables, TableType
<1>3. Held' = [Held EXCEPT ![d] = @ + 1] BY <1>1 DEF Held
<1>4. Fit(Tables', Held', None)
  <2>1. Fit(Tables', [Held EXCEPT ![d] = @ + 1], None) BY <1>1, HoldFits
  <2> QED BY <2>1, <1>3
<1>5. Busy'
  <2>1. ASSUME NEW x \in live' PROVE dec'[x].ref > 0
    <3>1. CASE x = d BY <3>1, <1>1, <1>2
    <3>2. CASE x # d
      <4>1. x \in live /\ R.dec[x] = dec[x] /\ x \in Dec BY <2>1, <3>2, <1>1, <1>2
      <4>2. dec[x].ref > 0 BY <4>1, <1>1 DEF IInv, Busy
      <4> QED BY <3>2, <4>1, <4>2, <1>1, <1>2
    <3> QED BY <3>1, <3>2
  <2> QED BY <2>1 DEF Busy
<1>6. \A x \in StreamPid : map'[x].ref = map[x].ref BY <1>2 DEF StreamPid, Pid
<1> QED BY <1>2, <1>4, <1>5, <1>6

LEMMA PmtBeginKeeps == ASSUME IInv, NEW i \in 1..Len(program), NEW t \in Pmts, PmtBegin(i, t) PROVE IInv'
<1> DEFINE g == [program[i] EXCEPT !.pmt = t, !.mine = {}]
<1>1. /\ program \in Seq(Program) /\ program[i] \in Program
      /\ drop = <<>> /\ drop' = drop /\ dec0 = None /\ dec1 = None /\ dec1' = None
      /\ pat' = pat /\ cat' = cat /\ cur' = i /\ pc' \in {"lists", "end"}
      /\ todo' = t.es /\ t.es \in Seq([pid : EsPids, ecm : CaPid])
  BY TablesAssumption, ElementOfSeq DEF IInv, Control, PmtBegin
<1>2. program' = [program EXCEPT ![i] = g] BY <1>1 DEF PmtBegin
<1>3. g \in Program /\ g.old = program[i].old /\ g.streams = program[i].streams /\ g.pmt = t
  BY <1>1 DEF Program
<1> HIDE DEF g
<1>4. /\ program' \in Seq(Program) /\ Len(program') = Len(program) /\ program'[i].pmt = t
      /\ \A j \in 1..Len(program) : /\ program'[j].old = program[j].old
                                    /\ program'[j].streams = program[j].streams
  <2>1. /\ program' \in Seq(Program) /\ Len(program') = Len(program)
        /\ \A j \in 1..Len(program) : program'[j] = IF j = i THEN g ELSE program[j]
    BY <1>1, <1>2, <1>3, ExceptSeq
  <2> QED BY <2>1, <1>3
<1>5. /\ Fit(Tables, Held, None) /\ Held \in [Dec -> Nat] /\ Tables \in TableType
      /\ Tables.map = map /\ Tables.live = live /\ Tables.dec = dec /\ None \notin Dec
      /\ live \subseteq Dec
  BY TablesTyped, RolesAssumption DEF IInv, Fit
<1>6. /\ Fit(Tables, Held, None)' /\ Busy' /\ dec0' \in live' \cup {None}
      /\ \A x \in StreamPid : map'[x].ref = map[x].ref
  <2> DEFINE Goal == /\ Fit(Tables, Held, None)' /\ Busy' /\ dec0' \in live' \cup {None}
                     /\ \A x \in StreamPid : map'[x].ref = map[x].ref
             Held1 == dec' = [dec EXCEPT ![dec0'].ref = @ + 1] /\ UNCHANGED <<map, live>>
             Added(d) == LET R == AddDecryptor(Tables, t.ecm, d)
                         IN  SetTables([R EXCEPT !.dec = [R.dec EXCEPT ![d].ref = @ + 1]])
  <2>1. ASSUME dec0' \in live, Held1 PROVE Goal
    <3> PICK d \in live : d = dec0' BY <2>1
    <3>1. Tables' = [Tables EXCEPT !.dec = [Tables.dec EXCEPT ![d].ref = @ + 1]]
      BY <2>1, <1>5 DEF Tables
    <3> QED BY <3>1, <1>1, <1>5, HoldKeeps
  <2>2. ASSUME t.ecm \in EcmPids, ~Registered(t.ecm), NEW d \in Dec \ live, dec0' = d, Added(d)
        PROVE  Goal
    <3> DEFINE R == AddDecryptor(Tables, t.ecm, d)
               S == [R EXCEPT !.dec = [R.dec EXCEPT ![d].ref = @ + 1]]
    <3>1. map[t.ecm].type # "ECM" BY <2>2, RegisteredTarget
    <3>2. Held[d] = 0 BY <1>1, <1>5 DEF Held
    <3>3. /\ Fit(R, Held, None) /\ R.live = live \cup {d}
          /\ \A x \in live : R.dec[x] = dec[x]
          /\ \A x \in Pid : R.map[x].ref = map[x].ref
      BY <2>2, <3>1, <3>2, <1>5, AddFits
    <3>4. SetTables(S) BY <2>2
    <3> HIDE DEF R
    <3>5. S \in TableType /\ d \in R.live
      <4>1. Fit(S, [Held EXCEPT ![d] = @ + 1], None) BY <1>5, <3>3, HoldFits
      <4> QED BY <4>1, <3>3 DEF Fit
    <3>6. Tables' = S BY <3>4, <3>5, TablesSet
    <3>7. \A x \in R.live : x # d => x \in live /\ R.dec[x] = dec[x] BY <3>3
    <3> QED BY <2>2, <3>3, <3>5, <3>6, <3>7, <1>1, HoldKeeps
  <2>3. ASSUME UNCHANGED tables, dec0' = None PROVE Goal
    BY <2>3, <1>1 DEF IInv, Busy, Tables, Held, tables
  <2> HIDE DEF Goal
  <2>4. ASSUME t.ecm \in EcmPids, Registered(t.ecm), dec0' = map[t.ecm].target, Held1 PROVE Goal
    <3>1. dec0' \in live BY <2>4, RegisteredTarget
    <3> QED BY <3>1, <2>1, <2>4
  <2> HIDE DEF Held1
  <2>5. \/ t.ecm \in EcmPids /\ Registered(t.ecm) /\ dec0' = map[t.ecm].target /\ Held1
        \/ /\ t.ecm \in EcmPids /\ ~Registered(t.ecm)
           /\ \E d \in Dec \ live : dec0' = d /\ Added(d)
        \/ UNCHANGED tables /\ dec0' = None
        \/ dec0' \in live /\ Held1
    BY DEF PmtBegin, Held1
  <2> HIDE DEF Added
  <2>6. Goal BY <2>1, <2>2, <2>3, <2>4, <2>5
  <2> QED BY <2>6 DEF Goal
<1>7. Control' BY <1>1, <1>4, <1>6 DEF IInv, Control
<1>8. MapRefExact'
  <2>1. \A p : Listed(program', p) = Listed(program, p) BY <1>4, ListedSame
  <2> QED BY <2>1, <1>1, <1>6 DEF IInv, MapRefExact, Entries, StreamPid
<1> QED BY <1>6, <1>7, <1>8 DEF IInv

\* The old list goes, the new one takes its place.
LEMMA PmtListsKeeps == ASSUME IInv, PmtLists PROVE IInv'
<1> DEFINE e == program[cur].pmt.ecm
           new == IF e \in EcmPids THEN <<e>> ELSE <<>>
           g == [program[cur] EXCEPT !.old = program[cur].streams, !.streams = new]
<1>1. /\ program \in Seq(Program) /\ cur \in 1..Len(program) /\ program[cur] \in Program
      /\ drop = <<>> /\ dec1 = None /\ pc' = "drop"
      /\ UNCHANGED <<live, dec, pat, cat, cur, dec0, dec1, todo>>
  BY ElementOfSeq DEF IInv, Control, PmtLists
<1>2. program[cur].old \in Seq(StreamPid) /\ program[cur].streams \in Seq(StreamPid)
  BY <1>1 DEF Program
<1>3. new \in Seq(StreamPid)
  <2>1. <<>> \in Seq(StreamPid) BY EmptySeq
  <2>2. e \in EcmPids => <<e>> \in Seq(StreamPid) BY DEF StreamPid
  <2> QED BY <2>1, <2>2
<1>4. /\ program' = [program EXCEPT ![cur] = g] /\ drop' = program[cur].old
      /\ map' = IF e \in EcmPids THEN MapWithEcm(map, <<>>, e) ELSE map
  BY <1>1 DEF PmtLists
<1>5. \A p : Occurrences(new, p) = IF e \in EcmPids /\ e = p THEN 1 ELSE 0
  BY OccurrencesSmall
<1> HIDE DEF e, new
<1>6. g \in Program /\ g.old = program[cur].streams /\ g.streams = new
  BY <1>1, <1>2, <1>3 DEF Program
<1> HIDE DEF g
<1>7. /\ program' \in Seq(Program) /\ Len(program') = Len(program) /\ program'[cur] = g
      /\ \A j \in (1..Len(program)) \ {cur} : program'[j] = program[j]
  BY <1>1, <1>4, <1>6, ExceptSeq
<1>8. /\ Fit(Tables, Held, None) /\ map \in [Pid -> MapEntry] /\ Tables \in TableType
      /\ Tables.map = map /\ Tables.live = live /\ Tables.dec = dec
      /\ EcmPids \subseteq Pid /\ \A p \in Pid : map[p].ref \in Nat
  BY TablesTyped DEF IInv, Fit, Pid, MapEntry
<1>9. /\ Fit(Tables', Held, None)
      /\ \A p \in StreamPid : map'[p].ref = map[p].ref + (IF e \in EcmPids /\ e = p THEN 1 ELSE 0)
  <2>1. CASE e \in EcmPids
    <3>1. map' = [map EXCEPT ![e].ref = map[e].ref + 1]
      <4>1. ~Names(<<>>, e) BY DEF Names
      <4> QED BY <4>1, <2>1, <1>4 DEF MapWithEcm
    <3>2. Tables' = [Tables EXCEPT !.map = [Tables.map EXCEPT ![e].ref = map[e].ref + 1]]
      BY <3>1, <1>1, <1>8 DEF Tables
    <3>3. map[e].ref + 1 \in Nat BY <1>8, <2>1
    <3>4. Fit(Tables', Held, None) BY <3>2, <3>3, <2>1, <1>8, CountFits
    <3>5. \A p \in Pid : map'[p].ref = map[p].ref + (IF e = p THEN 1 ELSE 0)
      BY <3>1, <2>1, <1>8 DEF MapEntry
    <3> QED BY <2>1, <3>4, <3>5 DEF StreamPid, Pid
  <2>2. CASE e \notin EcmPids
    <3>1. map' = map /\ Tables' = Tables BY <2>2, <1>1, <1>4 DEF Tables
    <3> QED BY <2>2, <3>1, <1>8 DEF StreamPid, Pid
  <2> QED BY <2>1, <2>2
<1>10. Control' BY <1>1, <1>2, <1>4, <1>7 DEF IInv, Control, PmtLists
<1>11. Fit(Tables, Held, None)' BY <1>1, <1>9 DEF Held
<1>12. Busy' BY <1>1 DEF IInv, Busy
<1>13. MapRefExact'
  <2>1. ASSUME NEW p
        PROVE  Entries(p)' = Entries(p) + (IF e \in EcmPids /\ e = p THEN 1 ELSE 0)
    <3>1. /\ Cardinality(Listed(program, p)) \in Nat /\ Cardinality(Listed(program', p)) \in Nat
          /\ Cardinality(Listed(program', p))
                + Occurrences(program[cur].old, p) + Occurrences(program[cur].streams, p)
              = Cardinality(Listed(program, p)) + Occurrences(g.old, p) + Occurrences(g.streams, p)
      BY <1>1, <1>7, ListedChange
    <3>2. /\ Occurrences(program[cur].old, p) \in Nat /\ Occurrences(program[cur].streams, p) \in Nat
      BY <1>2, WhereFinite
    <3>3. Occurrences(drop, p) = 0 BY <1>1, OccurrencesSmall
    <3>4. Entries(p) = Occurrences(drop, p) + Cardinality(Listed(program, p)) BY DEF Entries
    <3>5. Entries(p)' = Occurrences(drop', p) + Cardinality(Listed(program', p)) BY DEF Entries
    <3>6. /\ Occurrences(g.old, p) = Occurrences(program[cur].streams, p)
          /\ Occurrences(g.streams, p) = Occurrences(new, p)
          /\ Occurrences(drop', p) = Occurrences(program[cur].old, p)
      BY <1>4, <1>6
    <3>7. Entries(p)' = Entries(p) + Occurrences(new, p)
      <4>1. Occurrences(new, p) \in Nat BY <1>5
      <4> QED BY <3>1, <3>2, <3>3, <3>4, <3>5, <3>6, <4>1
    <3> QED BY <3>7, <1>5
  <2> QED BY <2>1, <1>9 DEF IInv, MapRefExact, StreamPid
<1> QED BY <1>10, <1>11, <1>12, <1>13 DEF IInv

\* proc_pmt gives back its reference.
LEMMA PmtEndKeeps == ASSUME IInv, PmtEnd PROVE IInv'
<1>1. /\ dec1 = None /\ drop = <<>> /\ pc' = "idle" /\ dec0' = None /\ dec1' = None /\ todo' = <<>>
      /\ UNCHANGED <<program, pat, cat, drop>>
      /\ SetTables(IF dec0 = None THEN Tables ELSE ReleaseDecryptor(Tables, dec0))
  BY DEF IInv, Control, PmtEnd
<1>2. /\ Fit(Tables, Held, None) /\ Held \in [Dec -> Nat] /\ Held' \in [Dec -> Nat]
      /\ Tables.map = map /\ Tables.live = live /\ Tables.dec = dec /\ live \subseteq Dec
      /\ None \notin Dec /\ dec0 \in live \cup {None} /\ StreamPid \subseteq Pid
  BY TablesTyped, RolesAssumption DEF IInv, Held, Control, StreamPid, Pid
<1>3. Control'
  <2>1. <<>> \in Seq([pid : EsPids, ecm : CaPid]) BY EmptySeq
  <2> QED BY <2>1, <1>1 DEF IInv, Control
<1>4. Fit(Tables, Held, None)' /\ Busy' /\ \A x \in StreamPid : map'[x].ref = map[x].ref
  <2>1. CASE dec0 = None
    <3>1. Held' = Held BY <2>1, <1>1 DEF Held
    <3>2. UNCHANGED <<map, live, dec>> BY <2>1, <1>1, <1>2 DEF SetTables
    <3>3. Tables' = Tables BY <3>2 DEF Tables
    <3> QED BY <3>1, <3>2, <3>3, <1>1, <1>2 DEF IInv, Busy
  <2>2. CASE dec0 # None
    <3> PICK d \in live : d = dec0 BY <2>2, <1>2
    <3> DEFINE S == ReleaseDecryptor(Tables, d)
               k == [x \in Dec |-> 0]
    <3>1. Held[d] = k[d] + 1 /\ k \in [Dec -> Nat] /\ \A x \in Dec : x # d => k[x] = Held[x]
      BY <1>2 DEF Held
    <3>2. Held' = k BY <1>1, <1>2 DEF Held
    <3> HIDE DEF k, S
    <3>3. Fit(S, k, None) /\ Released(Tables, S, d, k)
      BY <3>1, <1>2, ReleaseFits DEF S
    <3>4. SetTables(S) BY <1>1, <2>2 DEF S
    <3>5. Tables' = S /\ map' = S.map /\ live' = S.live /\ dec' = S.dec
      BY <3>3, <3>4, TablesSet DEF SetTables, Fit
    <3>6. Busy' BY <3>3, <3>5, <1>1, <1>2 DEF IInv, Busy, Released
    <3> QED BY <3>2, <3>3, <3>5, <3>6, <1>2 DEF Released
  <2> QED BY <2>1, <2>2
<1>5. MapRefExact' BY <1>1, <1>4 DEF IInv, MapRefExact, Entries, StreamPid
<1> QED BY <1>3, <1>4, <1>5 DEF IInv

\* add_ecm_stream, on the tables R that set_decryptor leaves
EcmEntered(R, e) ==
  /\ SetTables([R EXCEPT !.map = MapWithEcm(R.map, program[cur].streams, e)])
  /\ program' = [program EXCEPT ![cur].streams = ListWithEcm(program[cur].streams, e)]

\* The stream's own ECM PID is entered once per list, and counted once.
LEMMA EcmEntryKeeps ==
  ASSUME IInv, pc = "drop", drop = <<>>, drop' = drop, dec0' = dec0, NEW e \in EcmPids,
         NEW R, Fit(R, Held, None), \A x \in Pid : R.map[x].ref = map[x].ref,
         EcmEntered(R, e)
  PROVE  /\ Fit(Tables, Held, None)' /\ live' = R.live /\ dec' = R.dec /\ MapRefExact'
         /\ program' \in Seq(Program) /\ Len(program') = Len(program)
<1> DEFINE list == program[cur].streams
           longer == ListWithEcm(list, e)
           g == [program[cur] EXCEPT !.streams = longer]
           m == MapWithEcm(R.map, list, e)
           one(p) == IF e = p /\ ~Names(list, e) THEN 1 ELSE 0
<1>1. program \in Seq(Program) /\ cur \in 1..Len(program) /\ program[cur] \in Program
  BY ElementOfSeq DEF IInv, Control
<1>2. program[cur].old \in Seq(StreamPid) /\ list \in Seq(StreamPid) BY <1>1 DEF Program
<1>3. /\ R \in TableType /\ R.map \in [Pid -> MapEntry] /\ e \in Pid /\ e \in StreamPid
      /\ \A p \in Pid : R.map[p].ref \in Nat
  BY DEF Fit, TableType, Pid, StreamPid, MapEntry
<1>4. longer \in Seq(StreamPid)
      /\ \A p : Occurrences(longer, p) = Occurrences(list, p) + one(p)
  <2>1. CASE Names(list, e)
    <3>1. \A p : Occurrences(list, p) \in Nat BY <1>2, WhereFinite
    <3> HIDE DEF list
    <3> QED BY <2>1, <3>1, <1>2 DEF ListWithEcm
  <2>2. CASE ~Names(list, e)
    <3>1. longer = Append(list, e) BY <2>2 DEF ListWithEcm
    <3>2. Append(list, e) \in Seq(StreamPid) BY <1>2, <1>3, AppendProperties
    <3>3. ASSUME NEW p PROVE Occurrences(Append(list, e), p) = Occurrences(list, p) + one(p)
      BY <2>2, <1>2, <1>3, OccurrencesAppend
    <3> QED BY <3>1, <3>2, <3>3
  <2> QED BY <2>1, <2>2
<1>5. program' = [program EXCEPT ![cur] = g] BY <1>1 DEF EcmEntered
<1>6. g \in Program /\ g.old = program[cur].old /\ g.streams = longer
  BY <1>1, <1>4 DEF Program
<1>7. /\ Fit([R EXCEPT !.map = m], Held, None)
      /\ \A p \in StreamPid : m[p].ref = R.map[p].ref + one(p)
  <2>1. CASE Names(list, e)
    <3>1. m = R.map BY <2>1 DEF MapWithEcm
    <3>2. [R EXCEPT !.map = m] = R BY <3>1, <1>3 DEF TableType
    <3>3. \A p \in StreamPid : R.map[p].ref \in Nat BY <1>3 DEF StreamPid, Pid
    <3>4. \A p : one(p) = 0 BY <2>1
    <3> HIDE DEF m, one
    <3> QED BY <3>1, <3>2, <3>3, <3>4
  <2>2. CASE ~Names(list, e)
    <3>1. m = [R.map EXCEPT ![e].ref = R.map[e].ref + 1] BY <2>2 DEF MapWithEcm
    <3>2. R.map[e].ref + 1 \in Nat BY <1>3
    <3>3. Fit([R EXCEPT !.map = m], Held, None) BY <3>1, <3>2, CountFits
    <3>4. \A p \in Pid : m[p].ref = R.map[p].ref + (IF e = p THEN 1 ELSE 0)
      BY <3>1, <1>3 DEF MapEntry
    <3> QED BY <2>2, <3>3, <3>4 DEF StreamPid, Pid
  <2> QED BY <2>1, <2>2
<1> HIDE DEF g, longer, m
<1>8. /\ program' \in Seq(Program) /\ Len(program') = Len(program) /\ program'[cur] = g
      /\ \A j \in (1..Len(program)) \ {cur} : program'[j] = program[j]
  BY <1>1, <1>5, <1>6, ExceptSeq
<1>9. /\ Tables' = [R EXCEPT !.map = m] /\ live' = R.live /\ dec' = R.dec
      /\ map' = m
  <2>1. [R EXCEPT !.map = m] \in TableType BY <1>7 DEF Fit
  <2>2. SetTables([R EXCEPT !.map = m]) BY DEF EcmEntered, m
  <2> QED BY <2>1, <2>2, <1>3, TablesSet DEF SetTables, TableType
<1>10. Fit(Tables, Held, None)' BY <1>7, <1>9 DEF Held
<1>11. MapRefExact'
  <2>1. ASSUME NEW p PROVE Entries(p)' = Entries(p) + one(p)
    <3>0. \A j \in (1..Len(program)) \ {cur} : /\ program'[j].old = program[j].old
                                                /\ program'[j].streams = program[j].streams
      BY <1>8
    <3>1. /\ Cardinality(Listed(program, p)) \in Nat /\ Cardinality(Listed(program', p)) \in Nat
          /\ Cardinality(Listed(program', p))
                + Occurrences(program[cur].old, p) + Occurrences(program[cur].streams, p)
              = Cardinality(Listed(program, p))
                + Occurrences(program'[cur].old, p) + Occurrences(program'[cur].streams, p)
      BY <1>1, <1>8, <3>0, ListedChange
    <3>2. Occurrences(program[cur].old, p) \in Nat /\ Occurrences(list, p) \in Nat
          /\ Occurrences(drop, p) = 0
      BY <1>2, WhereFinite, OccurrencesSmall
    <3>3. Entries(p) = Occurrences(drop, p) + Cardinality(Listed(program, p)) BY DEF Entries
    <3>4. Entries(p)' = Occurrences(drop, p) + Cardinality(Listed(program', p)) BY DEF Entries
    <3>5. Occurrences(program'[cur].old, p) = Occurrences(program[cur].old, p)
          /\ Occurrences(program'[cur].streams, p) = Occurrences(list, p) + one(p)
      BY <1>4, <1>6, <1>8
    <3>6. one(p) \in Nat OBVIOUS
    <3> HIDE DEF one
    <3> QED BY <3>1, <3>2, <3>3, <3>4, <3>5, <3>6
  <2>2. ASSUME NEW p \in StreamPid PROVE map'[p].ref = Entries(p)'
    <3>1. map'[p].ref = R.map[p].ref + one(p) BY <1>7, <1>9
    <3>2. R.map[p].ref = map[p].ref BY DEF StreamPid, Pid
    <3>3. map[p].ref = Entries(p) BY DEF IInv, MapRefExact, StreamPid
    <3> QED BY <2>1, <3>1, <3>2, <3>3
  <2> QED BY <2>2 DEF MapRefExact, StreamPid
<1> QED BY <1>8, <1>9, <1>10, <1>11

LEMMA PmtStreamKeeps == ASSUME IInv, PmtStream PROVE IInv'
<1> DEFINE e == Head(todo).ecm
           list == program[cur].streams
           Listed1 == program' = [program EXCEPT ![cur].streams = ListWithEcm(list, e)]
           Added(d) == LET R == AddDecryptor(Tables, e, d)
                       IN  SetTables([R EXCEPT !.map = MapWithEcm(R.map, list, e)])
<1>1. /\ pc = "drop" /\ drop = <<>> /\ todo # <<>> /\ dec1 = None /\ cur \in 1..Len(program)
      /\ UNCHANGED <<pat, cat, cur, dec0, todo, drop>>
  BY DEF IInv, Control, PmtStream
<1>2. /\ Fit(Tables, Held, None) /\ Held \in [Dec -> Nat] /\ Tables \in TableType
      /\ Tables.map = map /\ Tables.live = live /\ Tables.dec = dec /\ live \subseteq Dec
      /\ None \notin Dec /\ dec0 \in live \cup {None}
  BY TablesTyped, RolesAssumption DEF IInv, Fit, Control
<1>3. ASSUME dec1' = None, pc' \in {"bind", "end"}, UNCHANGED <<tables, program>> PROVE IInv'
  <2>1. Control' BY <1>1, <1>3 DEF IInv, Control, tables
  <2>2. Busy' BY <1>1, <1>3 DEF IInv, Busy, tables
  <2>3. Fit(Tables, Held, None)' BY <1>1, <1>2, <1>3 DEF Tables, Held, tables
  <2>4. MapRefExact' BY <1>1, <1>3 DEF IInv, MapRefExact, Entries, tables
  <2> QED BY <2>1, <2>2, <2>3, <2>4 DEF IInv
<1>4. ASSUME e \in EcmPids, Registered(e), dec1' = map[e].target, pc' = "bind",
             map' = MapWithEcm(map, list, e), Listed1, UNCHANGED <<live, dec>>
      PROVE  IInv'
  <2>1. map[e].target \in live BY <1>4, RegisteredTarget
  <2>2. EcmEntered(Tables, e)
    BY <1>2, <1>4 DEF SetTables, Tables, EcmEntered
  <2>3. /\ Fit(Tables, Held, None)' /\ live' = live /\ dec' = dec /\ MapRefExact'
        /\ program' \in Seq(Program) /\ Len(program') = Len(program)
    BY <2>2, <1>1, <1>2, <1>4, EcmEntryKeeps
  <2>4. Control' BY <2>1, <2>3, <1>1, <1>4 DEF IInv, Control
  <2>5. Busy' BY <2>3, <1>1, <1>2 DEF IInv, Busy
  <2> QED BY <2>3, <2>4, <2>5 DEF IInv
<1>5. ASSUME e \in EcmPids, ~Registered(e), NEW d \in Dec \ live, dec1' = d, Added(d),
             pc' = "bind", Listed1
      PROVE  IInv'
  <2> DEFINE R == AddDecryptor(Tables, e, d)
  <2>1. map[e].type # "ECM" BY <1>5, RegisteredTarget
  <2>2. Held[d] = 0 BY <1>2 DEF Held
  <2>3. /\ Fit(R, Held, None) /\ R.live = live \cup {d}
        /\ \A x \in live : R.dec[x] = dec[x]
        /\ \A x \in Pid : R.map[x].ref = map[x].ref
    BY <2>1, <2>2, <1>2, <1>5, AddFits
  <2>4. EcmEntered(R, e) /\ e \in EcmPids BY <1>5 DEF EcmEntered
  <2> HIDE DEF R
  <2>5. /\ Fit(Tables, Held, None)' /\ live' = R.live /\ dec' = R.dec /\ MapRefExact'
        /\ program' \in Seq(Program) /\ Len(program') = Len(program)
    BY <2>3, <2>4, <1>1, EcmEntryKeeps
  <2>6. Control' BY <2>3, <2>5, <1>1, <1>2, <1>5 DEF IInv, Control
  <2>7. Busy' BY <2>3, <2>5, <1>1, <1>2, <1>5 DEF IInv, Busy
  <2> QED BY <2>5, <2>6, <2>7 DEF IInv
<1>6. \/ dec1' = None /\ pc' \in {"bind", "end"} /\ UNCHANGED <<tables, program>>
      \/ /\ e \in EcmPids /\ Registered(e) /\ dec1' = map[e].target /\ pc' = "bind"
         /\ map' = MapWithEcm(map, list, e) /\ Listed1 /\ UNCHANGED <<live, dec>>
      \/ /\ e \in EcmPids /\ ~Registered(e) /\ pc' = "bind" /\ Listed1
         /\ \E d \in Dec \ live : dec1' = d /\ Added(d)
  BY DEF PmtStream
<1> HIDE DEF e, list, Listed1, Added
<1> QED BY <1>3, <1>4, <1>5, <1>6

\* The stream's entry, and what it is bound to.
LEMMA PmtBindKeeps == ASSUME IInv, PmtBind PROVE IInv'
<1>0. PICK p : p = Head(todo).pid OBVIOUS
<1> DEFINE d == ActiveDecryptor(Head(todo).ecm)
           m == [map EXCEPT ![p] = [type |-> "OTHER", ref |-> map[p].ref + 1, target |-> map[p].target]]
           R == [Tables EXCEPT !.map = m]
           S == BindStream(R, p, d)
<1>1. /\ pc = "bind" /\ drop = <<>> /\ todo # <<>> /\ pc' = "drop" /\ dec1' = None
      /\ todo' = Tail(todo) /\ UNCHANGED <<pat, cat, cur, dec0, drop>>
      /\ program \in Seq(Program) /\ cur \in 1..Len(program) /\ Len(program) \in Nat
      /\ program[cur] \in Program
  BY LenProperties, ElementOfSeq DEF IInv, Control, PmtBind
<1>2. p \in EsPids /\ p \in StreamPid /\ p \in Pid /\ todo' \in Seq([pid : EsPids, ecm : CaPid])
  <2>1. Head(todo) \in [pid : EsPids, ecm : CaPid] /\ todo' \in Seq([pid : EsPids, ecm : CaPid])
    BY <1>1, HeadTailProperties DEF IInv, Control
  <2> QED BY <2>1, <1>0 DEF StreamPid, Pid
<1>3. /\ Fit(Tables, Held, None) /\ Held \in [Dec -> Nat] /\ Tables \in TableType
      /\ Tables.map = map /\ Tables.live = live /\ Tables.dec = dec /\ live \subseteq Dec
      /\ None \notin Dec /\ dec0 \in live \cup {None} /\ dec1 \in live \cup {None}
      /\ map \in [Pid -> MapEntry] /\ StreamPid \subseteq Pid
      /\ \A x \in Pid : map[x].ref \in Nat
  BY TablesTyped, RolesAssumption DEF IInv, Fit, Control, MapEntry, StreamPid, Pid
<1>4. SetTables(S)
  <2>1. m = [map EXCEPT ![Head(todo).pid] =
               [type |-> "OTHER", ref |-> @.ref + 1, target |-> @.target]]
    BY <1>0
  <2> QED BY <2>1, <1>0 DEF PmtBind
<1>5. d \in live \cup {None} BY <1>3 DEF ActiveDecryptor
<1>6. dec1 # None => d = dec1 BY DEF ActiveDecryptor
<1>7. /\ Fit(R, Held, None) /\ R.live = live /\ R.dec = dec /\ R.map[p].type = "OTHER"
      /\ \A x \in Pid : R.map[x].ref = map[x].ref + (IF x = p THEN 1 ELSE 0)
  <2>1. map[p].ref + 1 \in Nat \ {0} BY <1>2, <1>3
  <2>2. Fit(R, Held, None) BY <2>1, <1>2, <1>3, NamedFits
  <2>3. R.live = live /\ R.dec = dec /\ R.map = m BY <1>3 DEF TableType
  <2>4. \A x \in Pid : m[x].ref = map[x].ref + (IF x = p THEN 1 ELSE 0) BY <1>2, <1>3
  <2>5. m[p].type = "OTHER" BY <1>2, <1>3
  <2> QED BY <2>2, <2>3, <2>4, <2>5
<1> HIDE DEF d, R
<1>8. /\ Fit(S, Held, None) /\ S.live \subseteq R.live
      /\ \A x \in R.live : Held[x] > 0 => x \in S.live
      /\ \A x \in S.live : S.dec[x].ref > 0 \/ (S.dec[x] = R.dec[x] /\ x # d)
      /\ \A x \in Pid : S.map[x].ref = R.map[x].ref
  BY <1>2, <1>3, <1>5, <1>7, BindFits
<1> HIDE DEF S
<1>9. Tables' = S /\ map' = S.map /\ live' = S.live /\ dec' = S.dec
  BY <1>4, <1>8, TablesSet DEF SetTables, Fit
<1>10. Fit(Tables, Held, None)' BY <1>1, <1>8, <1>9 DEF Held
<1>11. Busy'
  <2>1. ASSUME NEW x \in live' PROVE dec'[x].ref > 0
    <3>1. x \in live /\ x # None BY <1>3, <1>7, <1>8, <1>9
    <3>2. dec[x].ref > 0 \/ x = dec1 BY <3>1 DEF IInv, Busy
    <3> QED BY <3>1, <3>2, <1>6, <1>7, <1>8, <1>9
  <2> QED BY <2>1 DEF Busy
<1>12. dec0' \in live' \cup {None}
  <2>1. dec0 # None => Held[dec0] = 1 BY <1>3 DEF Held
  <2> QED BY <2>1, <1>1, <1>3, <1>7, <1>8, <1>9
<1>13. /\ program' \in Seq(Program) /\ Len(program') = Len(program)
       /\ program'[cur].old = program[cur].old
       /\ program'[cur].streams = Append(program[cur].streams, p)
       /\ \A j \in (1..Len(program)) \ {cur} : /\ program'[j].old = program[j].old
                                               /\ program'[j].streams = program[j].streams
  <2>1. program' = [i \in 1..Len(program) |->
              IF i = cur THEN [program[i] EXCEPT !.streams = Append(@, p),
                                                 !.mine = OfOthers(@, p) \cup {Head(todo)}]
                         ELSE [program[i] EXCEPT !.mine = OfOthers(@, p)]]
    BY <1>0 DEF PmtBind
  <2>2. \A i \in 1..Len(program) : program[i] \in Program BY <1>1, ElementOfSeq
  <2>3. Append(program[cur].streams, p) \in Seq(StreamPid)
    BY <1>1, <1>2, <2>2, AppendProperties DEF Program
  <2>4. ASSUME NEW i \in 1..Len(program) PROVE program'[i] \in Program
    <3>1. Head(todo) \in [pid : EsPids, ecm : CaPid]
      BY <1>1, HeadTailProperties DEF IInv, Control
    <3>2. OfOthers(program[i].mine, p) \in SUBSET [pid : EsPids, ecm : CaPid]
      BY <2>2 DEF OfOthers, Program
    <3>3. OfOthers(program[i].mine, p) \cup {Head(todo)} \in SUBSET [pid : EsPids, ecm : CaPid]
      BY <3>1, <3>2
    <3> QED BY <2>1, <2>2, <2>3, <3>2, <3>3 DEF Program
  <2>5. DOMAIN program' = 1..Len(program) BY <2>1
  <2>6. program' \in [1..Len(program) -> Program] BY <2>1, <2>4
  <2>7. program' \in Seq(Program) BY <1>1, <2>6, SeqDef
  <2>8. Len(program') = Len(program) BY <1>1, <2>5, <2>7, LenProperties
  <2>9. /\ program'[cur].old = program[cur].old
        /\ program'[cur].streams = Append(program[cur].streams, p)
    BY <2>1, <2>2, <1>1 DEF Program
  <2>10. \A j \in (1..Len(program)) \ {cur} : /\ program'[j].old = program[j].old
                                              /\ program'[j].streams = program[j].streams
    BY <2>1, <2>2 DEF Program
  <2> QED BY <2>7, <2>8, <2>9, <2>10
<1>14. Control' BY <1>1, <1>2, <1>12, <1>13 DEF IInv, Control
<1>15. MapRefExact'
  <2>1. ASSUME NEW x PROVE Entries(x)' = Entries(x) + (IF x = p THEN 1 ELSE 0)
    <3>1. /\ Cardinality(Listed(program, x)) \in Nat /\ Cardinality(Listed(program', x)) \in Nat
          /\ Cardinality(Listed(program', x))
                + Occurrences(program[cur].old, x) + Occurrences(program[cur].streams, x)
              = Cardinality(Listed(program, x))
                + Occurrences(program'[cur].old, x) + Occurrences(program'[cur].streams, x)
      BY <1>1, <1>13, ListedChange
    <3>2. program[cur].old \in Seq(StreamPid) /\ program[cur].streams \in Seq(StreamPid)
      BY <1>1 DEF Program
    <3>3. /\ Occurrences(program[cur].old, x) \in Nat /\ Occurrences(program[cur].streams, x) \in Nat
          /\ Occurrences(drop, x) = 0
      BY <3>2, <1>1, WhereFinite, OccurrencesSmall
    <3>4. Occurrences(program'[cur].streams, x)
            = Occurrences(program[cur].streams, x) + (IF p = x THEN 1 ELSE 0)
      BY <3>2, <1>2, <1>13, OccurrencesAppend
    <3>5. Entries(x) = Occurrences(drop, x) + Cardinality(Listed(program, x)) BY DEF Entries
    <3>6. Entries(x)' = Occurrences(drop, x) + Cardinality(Listed(program', x))
      BY <1>1 DEF Entries
    <3>7. Occurrences(program'[cur].old, x) = Occurrences(program[cur].old, x) BY <1>13
    <3> QED BY <3>1, <3>3, <3>4, <3>5, <3>6, <3>7
  <2>2. ASSUME NEW x \in StreamPid PROVE map'[x].ref = Entries(x)'
    <3>1. map'[x].ref = map[x].ref + (IF x = p THEN 1 ELSE 0) BY <1>3, <1>7, <1>8, <1>9
    <3>2. map[x].ref = Entries(x) BY DEF IInv, MapRefExact, StreamPid
    <3> QED BY <2>1, <3>1, <3>2
  <2> QED BY <2>2 DEF MapRefExact, StreamPid
<1> QED BY <1>10, <1>11, <1>14, <1>15 DEF IInv

----------------------------------------------------------------------------
(* The theorems.                                                           *)

LEMMA NextIInv == IInv /\ [Next]_vars => IInv'
<1> SUFFICES ASSUME IInv, [Next]_vars PROVE IInv' OBVIOUS
<1>1. CASE UNCHANGED vars
  BY <1>1 DEF vars, IInv, Control, Busy, Fit, Tables, Held, MapRefExact, Entries
<1>2. CASE Next
  BY <1>2, PatForeignKeeps, PatBeginKeeps, PatReleaseKeeps, PatForgetKeeps, DropStreamKeeps,
     PatEndKeeps, PmtForeignKeeps, PmtBeginKeeps, PmtListsKeeps, PmtStreamKeeps, PmtBindKeeps,
     PmtEndKeeps, CatForeignKeeps, CatKeeps, ResetKeeps DEF Next
<1> QED BY <1>1, <1>2

THEOREM InvariantKept == Spec => []IInv
<1> QED BY InitIInv, NextIInv, PTL DEF Spec

\* The tables, the lists and the handlers' locals keep the types their
\* declarations give them, whatever tables a stream carries.
THEOREM TypeCorrect == Spec => []TypeOK
<1>1. IInv => TypeOK
  <2> SUFFICES ASSUME IInv PROVE TypeOK OBVIOUS
  <2>1. /\ map \in [Pid -> MapEntry] /\ live \in SUBSET Dec
        /\ dec \in [Dec -> [ecm : EcmPids \cup {None}, ref : Nat]]
    BY TablesTyped DEF IInv
  <2>2. \A i \in 1..Len(program) : program[i] \in Program BY ElementOfSeq DEF IInv, Control
  <2>3. dec0 \in Dec \cup {None} /\ dec1 \in Dec \cup {None} BY <2>1 DEF IInv, Control
  <2> QED BY <2>1, <2>2, <2>3 DEF TypeOK, IInv, Control, MapEntry, Program, StreamPid
<1> QED BY <1>1, InvariantKept, PTL

\* map[].ref counts the stream entries that name the PID and dec->ref the
\* streams bound to the decryptor, in every state of every handler: neither
\* wraps below zero, and no entry outlives its last user.
THEOREM CountsExact == Spec => []RefsExact
<1>1. IInv => RefsExact
  <2> SUFFICES ASSUME IInv, NEW d \in live
               PROVE  dec[d].ref = Cardinality(Bound(d)) + (IF dec0 = d THEN 1 ELSE 0)
    BY DEF RefsExact, DecRefExact, IInv
  <2>1. Fit(Tables, Held, None) /\ Tables.map = map /\ Tables.live = live /\ Tables.dec = dec
        /\ d \in Dec /\ None \notin Pid
    BY TablesTyped, RolesAssumption DEF IInv
  <2>2. dec[d].ref = Cardinality(BoundTo(Tables, d) \ {None}) + Held[d] BY <2>1 DEF Fit
  <2>3. BoundTo(Tables, d) \ {None} = Bound(d) BY <2>1 DEF BoundTo, Bound
  <2>4. Held[d] = IF dec0 = d THEN 1 ELSE 0 BY <2>1 DEF Held
  <2> QED BY <2>2, <2>3, <2>4
<1> QED BY <1>1, InvariantKept, PTL

\* No pointer of the map, and none proc_pmt keeps across its loops, leads to a
\* decryptor that was freed.
THEOREM NothingDangles == Spec => []NoDangling
<1>1. IInv => NoDangling
  <2> SUFFICES ASSUME IInv, NEW p \in Pid PROVE map[p].target \in live \cup {None}
    BY DEF NoDangling, IInv, Control
  <2>1. Fit(Tables, Held, None) /\ Tables.map = map /\ Tables.live = live /\ p # None
    BY TablesTyped, RolesAssumption DEF IInv
  <2> QED BY <2>1 DEF Fit, EntryFits
<1> QED BY <1>1, InvariantKept, PTL

\* Between two sections every decryptor on the list has a stream.
THEOREM NoneIdle == Spec => []NoIdleDecryptor
<1>1. IInv => NoIdleDecryptor
  <2> SUFFICES ASSUME IInv, pc = "idle", NEW d \in live, Bound(d) = {} PROVE FALSE
    BY DEF NoIdleDecryptor
  <2>1. Fit(Tables, Held, None) /\ Tables.map = map /\ Tables.live = live /\ Tables.dec = dec
        /\ d \in Dec /\ None \notin Dec /\ dec0 = None /\ dec1 = None
    BY TablesTyped, RolesAssumption DEF IInv, Control
  <2>2. dec[d].ref = Cardinality(BoundTo(Tables, d) \ {None}) + Held[d] BY <2>1 DEF Fit
  <2>3. BoundTo(Tables, d) \ {None} = {} BY <2>1 DEF BoundTo, Bound
  <2>4. Cardinality(BoundTo(Tables, d) \ {None}) = 0 BY <2>3, FS_EmptySet
  <2>5. Held[d] = 0 BY <2>1 DEF Held
  <2>6. dec[d].ref > 0 BY <2>1 DEF IInv, Busy
  <2> QED BY <2>2, <2>4, <2>5, <2>6
<1> QED BY <1>1, InvariantKept, PTL

----------------------------------------------------------------------------
(* What a stream is bound to.                                              *)

\* The entry of e is its ECM PID's, and leads to d.
Leads(e, d) == d # None /\ map[e].type = "ECM" /\ map[e].target = d

\* Entry es of program i's PMT: where it declares an ECM PID, the stream leads
\* where that PID does, and the program's list names both.
Right(i, es) ==
  LET e == Declared(program[i].pmt, es)
  IN  e \in EcmPids =>
        /\ map[e].type = "ECM" /\ map[es.pid].target = map[e].target
        /\ Names(program[i].streams, e) /\ Names(program[i].streams, es.pid)

\* proc_pmt: dec[0] is the decryptor of the program's own ECM PID,
ProgramEcm ==
  LET e == program[cur].pmt.ecm
  IN  e \in EcmPids => Leads(e, dec0) /\ (pc # "lists" => Names(program[cur].streams, e))

\* and dec[1] that of the stream's.
StreamEcm ==
  LET e == Head(todo).ecm
  IN  IF e \in EcmPids THEN Leads(e, dec1) /\ Names(program[cur].streams, e) ELSE dec1 = None

Bindings ==
  /\ pc # "pat" => \A i \in 1..Len(program) : \A es \in program[i].mine : Right(i, es)
  /\ pc = "lists" => program[cur].mine = {}
  /\ pc \in {"lists", "drop", "bind"} => ProgramEcm
  /\ pc = "bind" => StreamEcm

\* A stream on a program's list counts.
LEMMA NamedListed ==
  ASSUME NEW P \in Seq(Program), NEW i \in 1..Len(P), NEW x, Names(P[i].streams, x)
  PROVE  Cardinality(Listed(P, x)) # 0
<1>1. P[i].old \in Seq(StreamPid) /\ P[i].streams \in Seq(StreamPid)
  <2>1. P[i] \in Program BY ElementOfSeq
  <2> QED BY <2>1 DEF Program
<1>2. /\ Occurrences(P[i].old, x) \in Nat /\ Occurrences(P[i].streams, x) \in Nat
      /\ IsFiniteSet(Where(P[i].streams, x))
  BY <1>1, WhereFinite
<1>3. Occurrences(P[i].streams, x) # 0
  <2>1. Where(P[i].streams, x) # {} BY DEF Names, Where
  <2> QED BY <2>1, <1>2, FS_EmptySet DEF Occurrences
<1> QED BY <1>2, <1>3, ListedSplit

\* Its entry in the map is in use.
LEMMA NamedMapped ==
  ASSUME IInv', NEW i \in 1..Len(program'), NEW x \in StreamPid,
         Names(program'[i].streams, x)
  PROVE  map'[x].ref # 0
<1>1. program' \in Seq(Program) /\ drop' \in Seq(StreamPid) BY DEF IInv, Control
<1>2. Cardinality(Listed(program', x)) # 0 BY <1>1, NamedListed
<1>3. Cardinality(Listed(program', x)) \in Nat BY <1>1, ListedFinite
<1>4. Occurrences(drop', x) \in Nat BY <1>1, WhereFinite
<1>5. Entries(x)' = Occurrences(drop', x) + Cardinality(Listed(program', x)) BY DEF Entries
<1>6. map'[x].ref = Entries(x)' BY DEF IInv, MapRefExact, StreamPid
<1> QED BY <1>2, <1>3, <1>4, <1>5, <1>6

\* The entry of x leads where it did, or its decryptor is gone, or it is unused.
Led(R, S, x) ==
  \/ S.map[x].type = R.map[x].type /\ S.map[x].target = R.map[x].target
  \/ R.map[x].type = "ECM" /\ R.map[x].target \notin S.live
  \/ S.map[x].ref = 0

LEMMA ReleaseLeads ==
  ASSUME NEW R \in TableType, NEW d, NEW x \in Pid, NEW S, S = ReleaseDecryptor(R, d)
  PROVE  /\ Led(R, S, x) /\ DOMAIN S.map = Pid
         /\ S.map[x] = R.map[x] \/ (R.map[x].type = "ECM" /\ R.map[x].target \notin S.live)
<1>1. R.map \in [Pid -> MapEntry] BY DEF TableType
<1>2. CASE R.dec[d].ref - 1 < 1
  <2>1. S = RemoveDecryptor(R, d) BY <1>2 DEF ReleaseDecryptor
  <2>2. S.live = R.live \ {d} BY <2>1 DEF RemoveDecryptor
  <2>3. DOMAIN S.map = Pid BY <2>1, <1>1 DEF RemoveDecryptor
  <2>4. S.map[x] = R.map[x] \/ (R.map[x].type = "ECM" /\ R.map[x].target = d)
    BY <2>1, <1>1 DEF RemoveDecryptor
  <2> QED BY <2>2, <2>3, <2>4 DEF Led
<1>3. CASE ~(R.dec[d].ref - 1 < 1)
  <2>1. S.map = R.map BY <1>3 DEF ReleaseDecryptor, TableType
  <2> QED BY <2>1, <1>1 DEF Led
<1> QED BY <1>2, <1>3

LEMMA UnrefLeads ==
  ASSUME NEW R \in TableType, NEW p \in Pid, NEW x \in Pid, NEW S, S = UnrefStream(R, p)
  PROVE  Led(R, S, x)
<1>1. R.map \in [Pid -> MapEntry] BY DEF TableType
<1>2. CASE R.map[p].ref - 1 < 1
  <2>1. PICK T : T = ReleaseTarget(R, p) OBVIOUS
  <2>2. S = [T EXCEPT !.map = [T.map EXCEPT ![p] = Unmapped]] BY <2>1, <1>2 DEF UnrefStream
  <2>3. /\ DOMAIN T.map = Pid /\ T = [map |-> T.map, live |-> T.live, dec |-> T.dec]
        /\ T.map[x] = R.map[x] \/ (R.map[x].type = "ECM" /\ R.map[x].target \notin T.live)
    <3>1. CASE T = R BY <3>1, <1>1 DEF TableType
    <3>2. CASE T = ReleaseDecryptor(R, R.map[p].target)
      <4>1. T = [map |-> T.map, live |-> T.live, dec |-> T.dec]
        BY <3>2 DEF ReleaseDecryptor, RemoveDecryptor, TableType
      <4> QED BY <3>2, <4>1, ReleaseLeads
    <3> QED BY <2>1, <3>1, <3>2 DEF ReleaseTarget
  <2>4. S.live = T.live /\ S.map = [T.map EXCEPT ![p] = Unmapped] BY <2>2, <2>3
  <2>5. CASE x = p BY <2>3, <2>4, <2>5 DEF Led, Unmapped
  <2>6. CASE x # p BY <2>3, <2>4, <2>6 DEF Led
  <2> QED BY <2>5, <2>6
<1>3. CASE ~(R.map[p].ref - 1 < 1)
  <2>1. S.map = [R.map EXCEPT ![p].ref = R.map[p].ref - 1] BY <1>3 DEF UnrefStream, TableType
  <2> QED BY <2>1, <1>1 DEF Led, MapEntry
<1> QED BY <1>2, <1>3

\* The stream bound is led to d, and no other entry elsewhere.
LEMMA BindLeads ==
  ASSUME NEW R \in TableType, NEW p \in Pid, NEW d, NEW S, S = BindStream(R, p, d)
  PROVE  S.map[p].target = d /\ \A x \in Pid \ {p} : Led(R, S, x)
<1>1. R.map \in [Pid -> MapEntry] BY DEF TableType
<1>2. CASE R.map[p].target = d BY <1>2 DEF BindStream, Led
<1>3. CASE R.map[p].target # d
  <2>1. PICK T : T = IF R.map[p].target = None THEN R ELSE ReleaseDecryptor(R, R.map[p].target)
    OBVIOUS
  <2>2. /\ S = [T EXCEPT !.map = [T.map EXCEPT ![p].target = d],
                         !.dec = IF d = None THEN T.dec ELSE [T.dec EXCEPT ![d].ref = @ + 1]]
    BY <2>1, <1>3 DEF BindStream
  <2>3. T = [map |-> T.map, live |-> T.live, dec |-> T.dec]
    BY <2>1 DEF ReleaseDecryptor, RemoveDecryptor, TableType
  <2>4. S.live = T.live /\ S.map = [T.map EXCEPT ![p].target = d] BY <2>2, <2>3
  <2>5. ASSUME NEW x \in Pid
        PROVE  /\ DOMAIN T.map = Pid
               /\ T.map[x] = R.map[x] \/ (R.map[x].type = "ECM" /\ R.map[x].target \notin T.live)
    BY <2>1, <1>1, ReleaseLeads
  <2>6. S.map[p].target = d
    <3>1. T.map[p] \in MapEntry
      <4>1. R.map[p] \in MapEntry BY <1>1
      <4> QED BY <4>1, <1>1, <2>1 DEF ReleaseDecryptor, RemoveDecryptor, TableType, MapEntry
    <3> QED BY <2>4, <2>5, <3>1 DEF MapEntry
  <2>7. ASSUME NEW x \in Pid \ {p} PROVE Led(R, S, x) BY <2>4, <2>5 DEF Led
  <2> QED BY <2>6, <2>7
<1> QED BY <1>2, <1>3

\* The new decryptor's ECM PID leads to it.
LEMMA AddLeads ==
  ASSUME NEW R \in TableType, NEW e \in Pid, R.map[e].type # "OTHER", NEW d,
         NEW S, S = AddDecryptor(R, e, d)
  PROVE  /\ S = [map |-> S.map, live |-> S.live, dec |-> S.dec]
         /\ S.map[e].type = "ECM" /\ S.map[e].target = d
         /\ DOMAIN S.map = Pid /\ \A x \in Pid \ {e} : S.map[x] = R.map[x]
<1>1. R.map \in [Pid -> MapEntry] BY DEF TableType
<1>2. PICK T : T = [R EXCEPT !.live = R.live \cup {d},
                             !.dec = [R.dec EXCEPT ![d] = [ecm |-> e, ref |-> 0]]]
  OBVIOUS
<1>3. T.map = R.map /\ T = [map |-> T.map, live |-> T.live, dec |-> T.dec]
  BY <1>2 DEF TableType
<1>4. ReleaseTarget(T, e) = T BY <1>3 DEF ReleaseTarget
<1>5. S = [T EXCEPT !.map = [T.map EXCEPT ![e] = [type |-> "ECM", ref |-> T.map[e].ref,
                                                  target |-> d]]]
  BY <1>2, <1>4 DEF AddDecryptor
<1> QED BY <1>1, <1>3, <1>5

\* A right binding stays right while the list still names both PIDs.
LEMMA RightKept ==
  ASSUME IInv, IInv', NEW i \in 1..Len(program), i \in 1..Len(program'),
         NEW es \in [pid : EsPids, ecm : CaPid], Right(i, es),
         program'[i].pmt = program[i].pmt,
         \A x : Names(program[i].streams, x) => Names(program'[i].streams, x),
         Led(Tables, Tables', es.pid),
         \A x \in EcmPids : map[x].type = "ECM" => Led(Tables, Tables', x)
  PROVE  Right(i, es)'
<1>1. PICK e : e = Declared(program[i].pmt, es) OBVIOUS
<1>2. PICK q \in EsPids : q = es.pid OBVIOUS
<1>3. Declared(program'[i].pmt, es) = e BY <1>1 DEF Declared
<1> SUFFICES ASSUME e \in EcmPids
             PROVE  /\ map'[e].type = "ECM" /\ map'[q].target = map'[e].target
                    /\ Names(program'[i].streams, e) /\ Names(program'[i].streams, q)
  BY <1>2, <1>3 DEF Right
<1>4. /\ map[e].type = "ECM" /\ map[q].target = map[e].target
      /\ Names(program'[i].streams, e) /\ Names(program'[i].streams, q)
  BY <1>1, <1>2 DEF Right
<1>5. map'[e].ref # 0 /\ map'[q].ref # 0 BY <1>4, NamedMapped DEF StreamPid
<1>6. /\ Tables.map = map /\ Tables.live = live /\ Tables'.map = map' /\ Tables'.live = live'
      /\ e \in Pid \ {None} /\ q \in Pid \ {None}
  BY RolesAssumption DEF Tables, Pid
<1>7. EntryFits(Tables, e) /\ EntryFits(Tables, q) BY <1>6 DEF IInv, Fit
<1>8. map[e].target # None /\ map[q].type # "ECM" BY <1>4, <1>6, <1>7 DEF EntryFits
<1>9. map'[q].target = map[q].target BY <1>2, <1>5, <1>6, <1>8 DEF Led
<1>10. map'[q].target \in live' \cup {None}
  <2>1. Fit(Tables', Held', None) BY DEF IInv
  <2>2. EntryFits(Tables', q) BY <2>1, <1>6 DEF Fit
  <2> QED BY <2>2, <1>6 DEF EntryFits
<1>11. map[e].target \in live' BY <1>4, <1>8, <1>9, <1>10
<1>12. map'[e].type = "ECM" /\ map'[e].target = map[e].target
  BY <1>4, <1>5, <1>6, <1>11 DEF Led
<1> QED BY <1>4, <1>9, <1>12

\* So does a decryptor proc_pmt holds stay its ECM PID's.
LEMMA LeadsKept ==
  ASSUME NEW e, NEW d \in live', Leads(e, d), Led(Tables, Tables', e), map'[e].ref # 0
  PROVE  Leads(e, d)'
<1>1. Tables.map = map /\ Tables'.map = map' /\ Tables'.live = live' BY DEF Tables
<1> QED BY <1>1 DEF Leads, Led

\* A step that reads no PMT: all bindings stay right.
LEMMA RightsKept ==
  ASSUME IInv, IInv', Bindings, pc # "pat", program' = program,
         \A x \in StreamPid : Led(Tables, Tables', x)
  PROVE  \A i \in 1..Len(program) : \A es \in program[i].mine : Right(i, es)'
<1> SUFFICES ASSUME NEW i \in 1..Len(program), NEW es \in program[i].mine PROVE Right(i, es)'
  OBVIOUS
<1>1. program[i] \in Program BY ElementOfSeq DEF IInv, Control
<1>2. es \in [pid : EsPids, ecm : CaPid] BY <1>1 DEF Program
<1>3. Right(i, es) BY DEF Bindings
<1> QED BY <1>2, <1>3, RightKept DEF StreamPid

\* Dropping the streams of the PMT before the last one takes nothing away from
\* those of the last one, nor from proc_pmt.
LEMMA DropStreamBinds == ASSUME IInv, IInv', Bindings, DropStream PROVE Bindings'
<1>1. PICK p : p = Head(drop) OBVIOUS
<1>2. p \in Pid
  BY <1>1, HeadTailProperties DEF IInv, Control, DropStream, StreamPid, Pid
<1>3. Tables \in TableType BY DEF IInv, Fit
<1>4. PICK S : S = UnrefStream(Tables, p) OBVIOUS
<1>5. Tables'.map = S.map /\ Tables'.live = S.live
  BY <1>1, <1>4 DEF DropStream, SetTables, Tables
<1>6. ASSUME NEW x \in StreamPid PROVE Led(Tables, Tables', x)
  <2>1. x \in Pid BY DEF StreamPid, Pid
  <2>2. Led(Tables, S, x) BY <1>2, <1>3, <1>4, <2>1, UnrefLeads
  <2> QED BY <2>2, <1>5 DEF Led
<1>7. UNCHANGED <<program, pc, cur, dec0, dec1, todo>> /\ pc \in {"pat", "drop"}
  BY DEF DropStream
<1>8. ASSUME pc = "drop" PROVE ProgramEcm'
  <2>1. cur \in 1..Len(program) BY <1>8 DEF IInv, Control
  <2>2. PICK e : e = program[cur].pmt.ecm OBVIOUS
  <2> SUFFICES ASSUME e \in EcmPids PROVE Leads(e, dec0)' /\ Names(program[cur].streams, e)
    BY <2>2, <1>7 DEF ProgramEcm
  <2>3. Leads(e, dec0) /\ Names(program[cur].streams, e)
    BY <1>8, <2>2 DEF Bindings, ProgramEcm
  <2>4. dec0 \in live' \cup {None} BY <1>7 DEF IInv, Control
  <2>5. PICK d \in live' : d = dec0 BY <2>3, <2>4 DEF Leads
  <2>6. map'[e].ref # 0 BY <1>7, <2>1, <2>3, NamedMapped DEF StreamPid
  <2>7. Leads(e, d)' BY <1>6, <2>3, <2>5, <2>6, LeadsKept DEF StreamPid
  <2> QED BY <2>3, <2>5, <2>7, <1>7 DEF Leads
<1>9. CASE pc = "drop" BY <1>6, <1>7, <1>8, <1>9, RightsKept DEF Bindings
<1> QED BY <1>7, <1>9 DEF Bindings

\* Nor does proc_pmt by giving back dec[0].
LEMMA PmtEndBinds == ASSUME IInv, IInv', Bindings, PmtEnd PROVE Bindings'
<1>1. Tables \in TableType BY DEF IInv, Fit
<1>2. PICK S : S = IF dec0 = None THEN Tables ELSE ReleaseDecryptor(Tables, dec0) OBVIOUS
<1>3. Tables'.map = S.map /\ Tables'.live = S.live BY <1>2 DEF PmtEnd, SetTables, Tables
<1>4. ASSUME NEW x \in StreamPid PROVE Led(Tables, Tables', x)
  <2>1. x \in Pid BY DEF StreamPid, Pid
  <2>2. Led(Tables, S, x)
    <3>1. CASE dec0 = None BY <3>1, <1>2 DEF Led
    <3>2. CASE dec0 # None BY <3>2, <1>1, <1>2, <2>1, ReleaseLeads
    <3> QED BY <3>1, <3>2
  <2> QED BY <2>2, <1>3 DEF Led
<1>5. program' = program /\ pc' = "idle" /\ pc \in {"end", "drop"} BY DEF PmtEnd
<1> QED BY <1>4, <1>5, RightsKept DEF Bindings

\* proc_cat writes the entries of its own PIDs only.
LEMMA CatBinds == ASSUME IInv, IInv', Bindings, NEW c \in Cats, Cat(c) PROVE Bindings'
<1>1. /\ c \in EmmPids \cup {None} /\ None \notin Pid /\ CatPid \notin StreamPid
      /\ EmmPids \cap StreamPid = {} /\ StreamPid \subseteq Pid
  BY TablesAssumption, RolesAssumption DEF StreamPid, Pid
<1>2. ReleaseTarget(Tables, c) = Tables \/ c = None
  <2> SUFFICES ASSUME c # None PROVE Tables.map[c].type # "OTHER" BY DEF ReleaseTarget
  <2>1. EntryFits(Tables, c) BY <1>1 DEF IInv, Fit, Pid
  <2> QED BY <1>1, <2>1 DEF EntryFits, StreamPid
<1>3. \A x \in StreamPid : map'[x] = map[x] BY <1>1, <1>2 DEF Cat, SetTables, Tables
<1>4. ASSUME NEW x \in StreamPid PROVE Led(Tables, Tables', x) BY <1>3 DEF Led, Tables
<1>5. program' = program /\ pc = "idle" /\ pc' = "idle" BY DEF Cat
<1> QED BY <1>4, <1>5, RightsKept DEF Bindings

\* A PMT that cannot be read declares nothing.
LEMMA PmtForeignBinds ==
  ASSUME IInv, IInv', Bindings, NEW i \in 1..Len(program), PmtForeign(i) PROVE Bindings'
<1> DEFINE g == [program[i] EXCEPT !.pmt = Foreign, !.mine = {}]
<1>1. program \in Seq(Program) /\ program[i] \in Program BY ElementOfSeq DEF IInv, Control
<1>2. program' = [program EXCEPT ![i] = g] /\ map' = map /\ pc = "idle" /\ pc' = pc
  BY <1>1 DEF PmtForeign, tables
<1>3. g \in Program /\ g.mine = {} BY <1>1 DEF Program
<1> HIDE DEF g
<1>4. /\ Len(program') = Len(program)
      /\ \A j \in 1..Len(program) : program'[j] = IF j = i THEN g ELSE program[j]
  BY <1>1, <1>2, <1>3, ExceptSeq
<1>5. ASSUME NEW j \in 1..Len(program), NEW es \in program'[j].mine PROVE Right(j, es)'
  <2>1. j # i /\ program'[j] = program[j] BY <1>3, <1>4, <1>5
  <2>2. Right(j, es) BY <1>2, <1>5, <2>1 DEF Bindings
  <2> QED BY <1>2, <2>1, <2>2 DEF Right
<1> QED BY <1>2, <1>4, <1>5 DEF Bindings

\* The PAT's programs come without a PMT.
LEMMA PatEndBinds == ASSUME IInv, PatEnd PROVE Bindings'
<1>1. pat \in Seq(PmtPids) BY TablesAssumption DEF IInv, Control, PatEnd
<1>2. Len(pat) \in Nat BY <1>1, LenProperties
<1>3. program' = [i \in 1..Len(pat) |-> NewProgram(pat[i])] BY DEF PatEnd
<1>4. Len(program') = Len(pat) BY <1>2, <1>3
<1>5. \A i \in 1..Len(program') : program'[i].mine = {} BY <1>3, <1>4 DEF NewProgram
<1> QED BY <1>5 DEF Bindings, PatEnd

\* reset() leaves no program.
LEMMA ResetBinds == ASSUME IInv, Reset PROVE Bindings'
<1>1. 1..Len(program') = {} BY EmptySeq DEF Reset
<1> QED BY <1>1 DEF Bindings, Reset, locals

\* set_decryptor makes an entry, and touches no other.
LEMMA EntryMade ==
  ASSUME IInv, NEW e \in EcmPids, ~Registered(e), NEW d \in Dec,
         NEW R, R = AddDecryptor(Tables, e, d)
  PROVE  /\ map[e].type # "ECM" /\ d # None /\ DOMAIN R.map = Pid
         /\ R = [map |-> R.map, live |-> R.live, dec |-> R.dec]
         /\ R.map[e].type = "ECM" /\ R.map[e].target = d
         /\ \A x \in Pid \ {e} : R.map[x] = map[x]
<1>1. /\ e \in Pid \ {None} /\ e \notin EsPids /\ d # None
      /\ Tables \in TableType /\ Tables.map = map
  BY TablesTyped, RolesAssumption DEF IInv, Fit, Pid
<1>2. map[e].type # "ECM" BY RegisteredTarget
<1>3. EntryFits(Tables, e) BY <1>1 DEF IInv, Fit
<1>4. Tables.map[e].type # "OTHER" BY <1>1, <1>3 DEF EntryFits
<1> QED BY <1>1, <1>2, <1>4, AddLeads

\* A list that grows names what it named.
LEMMA AppendNames ==
  ASSUME NEW X, NEW list \in Seq(X), NEW e \in X
  PROVE  /\ Names(Append(list, e), e)
         /\ \A x : Names(list, x) => Names(Append(list, e), x)
<1>1. Len(list) \in Nat /\ Len(Append(list, e)) = Len(list) + 1
  BY LenProperties, AppendProperties
<1>2. Append(list, e)[Len(list) + 1] = e /\ \A i \in 1..Len(list) : Append(list, e)[i] = list[i]
  BY <1>1, AppendProperties
<1>3. \A i \in 1..Len(list) : i \in 1..Len(Append(list, e)) BY <1>1
<1>4. Len(list) + 1 \in 1..Len(Append(list, e)) BY <1>1
<1> QED BY <1>2, <1>3, <1>4 DEF Names

\* proc_pmt begins: program i reads t, and dec[0] is the one of its ECM PID.
LEMMA PmtBeginBinds ==
  ASSUME IInv, IInv', Bindings, NEW i \in 1..Len(program), NEW t \in Pmts, PmtBegin(i, t)
  PROVE  Bindings'
<1> DEFINE g == [program[i] EXCEPT !.pmt = t, !.mine = {}]
<1>1. program \in Seq(Program) /\ program[i] \in Program BY ElementOfSeq DEF IInv, Control
<1>2. program' = [program EXCEPT ![i] = g] BY <1>1 DEF PmtBegin
<1>3. g \in Program /\ g.mine = {} /\ g.pmt = t BY <1>1 DEF Program
<1> HIDE DEF g
<1>4. /\ Len(program') = Len(program)
      /\ \A j \in 1..Len(program) : program'[j] = IF j = i THEN g ELSE program[j]
  BY <1>1, <1>2, <1>3, ExceptSeq
<1>5. pc = "idle" /\ cur' = i /\ pc' \in {"lists", "end"} BY DEF PmtBegin
<1>6. /\ Tables \in TableType /\ Tables.map = map /\ EcmPids \subseteq Pid
      /\ map \in [Pid -> MapEntry]
  BY TablesTyped DEF IInv, Fit, Pid
\* Either the map is as it was, or the ECM PID's entry is made.
<1>7. /\ map' = map \/ (/\ t.ecm \in EcmPids /\ map[t.ecm].type # "ECM"
                        /\ \A x \in Pid \ {t.ecm} : map'[x] = map[x])
      /\ pc' = "lists" /\ t.ecm \in EcmPids => Leads(t.ecm, dec0)'
  <2>1. CASE t.ecm \in EcmPids /\ Registered(t.ecm)
    BY <2>1 DEF PmtBegin, Registered, Leads, tables
  <2>2. CASE t.ecm \notin EcmPids BY <2>2 DEF PmtBegin, tables
  <2>3. CASE t.ecm \in EcmPids /\ ~Registered(t.ecm)
    <3>1. CASE map' = map /\ pc' = "end" BY <3>1
    <3>2. ASSUME NEW d \in Dec \ live, dec0' = d,
                 LET R == AddDecryptor(Tables, t.ecm, d)
                 IN  SetTables([R EXCEPT !.dec = [R.dec EXCEPT ![d].ref = @ + 1]])
          PROVE  /\ map[t.ecm].type # "ECM"
                 /\ \A x \in Pid \ {t.ecm} : map'[x] = map[x]
                 /\ Leads(t.ecm, dec0)'
      <4>1. PICK R : R = AddDecryptor(Tables, t.ecm, d) OBVIOUS
      <4>2. /\ map[t.ecm].type # "ECM" /\ d # None
            /\ R = [map |-> R.map, live |-> R.live, dec |-> R.dec]
            /\ R.map[t.ecm].type = "ECM" /\ R.map[t.ecm].target = d
            /\ \A x \in Pid \ {t.ecm} : R.map[x] = map[x]
        BY <2>3, <4>1, EntryMade
      <4>3. map' = R.map BY <3>2, <4>1, <4>2 DEF SetTables
      <4> QED BY <3>2, <4>2, <4>3 DEF Leads
    <3>3. \/ map' = map /\ pc' = "end"
          \/ \E d \in Dec \ live :
               /\ dec0' = d
               /\ LET R == AddDecryptor(Tables, t.ecm, d)
                  IN  SetTables([R EXCEPT !.dec = [R.dec EXCEPT ![d].ref = @ + 1]])
      BY <2>3 DEF PmtBegin, tables
    <3> QED BY <2>3, <3>1, <3>2, <3>3
  <2> QED BY <2>1, <2>2, <2>3
<1>8. ASSUME NEW j \in 1..Len(program), NEW es \in program'[j].mine PROVE Right(j, es)'
  <2>1. j # i /\ program'[j] = program[j] BY <1>3, <1>4, <1>8
  <2>2. program[j] \in Program BY <1>1, ElementOfSeq
  <2>3. es \in [pid : EsPids, ecm : CaPid] BY <1>8, <2>1, <2>2 DEF Program
  <2>4. Right(j, es) BY <1>5, <1>8, <2>1 DEF Bindings
  <2>5. Led(Tables, Tables', es.pid)
    <3>1. es.pid \in Pid /\ es.pid \notin EcmPids BY <2>3, RolesAssumption DEF Pid
    <3> QED BY <3>1, <1>7 DEF Led, Tables
  <2>6. \A x \in EcmPids : map[x].type = "ECM" => Led(Tables, Tables', x)
    BY <1>6, <1>7 DEF Led, Tables
  <2> QED BY <1>4, <2>1, <2>3, <2>4, <2>5, <2>6, RightKept
<1>9. program'[i].mine = {} /\ program'[i].pmt = t BY <1>3, <1>4
<1>10. pc' = "lists" => ProgramEcm' BY <1>5, <1>7, <1>9 DEF ProgramEcm
<1> QED BY <1>4, <1>5, <1>8, <1>9, <1>10 DEF Bindings

\* The program's own ECM PID is on the new list.
LEMMA PmtListsBinds == ASSUME IInv, IInv', Bindings, PmtLists PROVE Bindings'
<1> DEFINE e == program[cur].pmt.ecm
           new == IF e \in EcmPids THEN <<e>> ELSE <<>>
           g == [program[cur] EXCEPT !.old = program[cur].streams, !.streams = new]
<1>1. /\ program \in Seq(Program) /\ cur \in 1..Len(program) /\ program[cur] \in Program
      /\ pc = "lists" /\ pc' = "drop" /\ cur' = cur /\ dec0' = dec0 /\ dec1' = dec1
  BY ElementOfSeq DEF IInv, Control, PmtLists
<1>2. /\ program' = [program EXCEPT ![cur] = g]
      /\ map' = IF e \in EcmPids THEN MapWithEcm(map, <<>>, e) ELSE map
  BY <1>1 DEF PmtLists
<1>3. e \in EcmPids => Names(new, e)
  <2>1. Len(<<e>>) = 1 /\ <<e>>[1] = e OBVIOUS
  <2> QED BY <2>1 DEF Names
<1>4. g \in Program /\ g.streams = new /\ g.mine = program[cur].mine /\ g.pmt = program[cur].pmt
  <2>1. <<>> \in Seq(StreamPid) BY EmptySeq
  <2>2. e \in EcmPids => <<e>> \in Seq(StreamPid) BY DEF StreamPid
  <2>3. new \in Seq(StreamPid) BY <2>1, <2>2
  <2> HIDE DEF new
  <2> QED BY <1>1, <2>3 DEF Program
<1> HIDE DEF e, new, g
<1>5. /\ Len(program') = Len(program)
      /\ \A j \in 1..Len(program) : program'[j] = IF j = cur THEN g ELSE program[j]
  BY <1>1, <1>2, <1>4, ExceptSeq
<1>6. map \in [Pid -> MapEntry] BY TablesTyped DEF IInv
<1>7. \A x \in Pid : map'[x].type = map[x].type /\ map'[x].target = map[x].target
  BY <1>2, <1>6 DEF MapWithEcm, MapEntry
<1>8. program[cur].mine = {} BY <1>1 DEF Bindings
<1>9. ASSUME NEW j \in 1..Len(program), NEW es \in program'[j].mine PROVE Right(j, es)'
  <2>1. j # cur /\ program'[j] = program[j] BY <1>4, <1>5, <1>8, <1>9
  <2>2. program[j] \in Program BY <1>1, ElementOfSeq
  <2>3. es \in [pid : EsPids, ecm : CaPid] BY <1>9, <2>1, <2>2 DEF Program
  <2>4. Right(j, es) BY <1>1, <1>9, <2>1 DEF Bindings
  <2>5. EsPids \subseteq Pid /\ EcmPids \subseteq Pid BY DEF Pid
  <2> QED BY <1>7, <2>1, <2>3, <2>4, <2>5 DEF Right
<1>10. ProgramEcm'
  <2>1. program'[cur].pmt.ecm = e /\ program'[cur].streams = new BY <1>1, <1>4, <1>5 DEF e
  <2>2. e \in EcmPids => Leads(e, dec0) BY <1>1 DEF Bindings, ProgramEcm, e
  <2>3. EcmPids \subseteq Pid BY DEF Pid
  <2> QED BY <1>1, <1>3, <1>7, <2>1, <2>2, <2>3 DEF ProgramEcm, Leads
<1> QED BY <1>1, <1>5, <1>9, <1>10 DEF Bindings

\* proc_pmt turns to the next stream: dec[1] is the one of its ECM PID.
LEMMA PmtStreamBinds == ASSUME IInv, IInv', Bindings, PmtStream PROVE Bindings'
<1> DEFINE list == program[cur].streams
<1>0. PICK e : e = Head(todo).ecm OBVIOUS
<1>1. /\ program \in Seq(Program) /\ cur \in 1..Len(program) /\ program[cur] \in Program
      /\ pc = "drop" /\ cur' = cur /\ dec0' = dec0 /\ todo' = todo /\ pc' \in {"bind", "end"}
  BY ElementOfSeq DEF IInv, Control, PmtStream
<1>2. ASSUME UNCHANGED <<tables, program>>, pc' = "bind" => e \notin EcmPids /\ dec1' = None
      PROVE  Bindings'
  <2>1. pc' = "bind" => ProgramEcm' /\ StreamEcm'
    BY <1>0, <1>1, <1>2 DEF Bindings, ProgramEcm, StreamEcm, Leads, tables
  <2>2. \A i \in 1..Len(program) : \A es \in program[i].mine : Right(i, es)'
    BY <1>1, <1>2 DEF Bindings, Right, tables
  <2> QED BY <1>1, <1>2, <2>1, <2>2 DEF Bindings
<1>3. ASSUME e \in EcmPids, NEW R, R.map[e].type = "ECM", R.map[e].target = dec1', dec1' # None,
             DOMAIN R.map = Pid, \A x \in Pid \ {e} : R.map[x] = map[x],
             map[e].type = "ECM" => R.map[e].target = map[e].target,
             R.map[e] \in MapEntry,
             map' = MapWithEcm(R.map, list, e), pc' = "bind",
             program' = [program EXCEPT ![cur].streams = ListWithEcm(list, e)]
      PROVE  Bindings'
  <2> DEFINE longer == ListWithEcm(list, e)
             g == [program[cur] EXCEPT !.streams = longer]
  <2>1. list \in Seq(StreamPid) /\ e \in StreamPid /\ StreamPid \subseteq Pid
    BY <1>1, <1>3 DEF Program, StreamPid, Pid
  <2>2. longer \in Seq(StreamPid) /\ Names(longer, e) /\ \A x : Names(list, x) => Names(longer, x)
    <3>1. CASE Names(list, e) BY <2>1, <3>1 DEF ListWithEcm
    <3>2. CASE ~Names(list, e)
      <4>1. longer = Append(list, e) BY <3>2 DEF ListWithEcm
      <4>2. Append(list, e) \in Seq(StreamPid) BY <2>1, AppendProperties
      <4> QED BY <2>1, <4>1, <4>2, AppendNames
    <3> QED BY <3>1, <3>2
  <2>3. program' = [program EXCEPT ![cur] = g] BY <1>1, <1>3
  <2> HIDE DEF longer
  <2>4. /\ g \in Program /\ g.streams = longer /\ g.mine = program[cur].mine
        /\ g.pmt = program[cur].pmt
    BY <1>1, <2>2 DEF Program
  <2> HIDE DEF g
  <2>5. /\ Len(program') = Len(program)
        /\ \A j \in 1..Len(program) : program'[j] = IF j = cur THEN g ELSE program[j]
    BY <1>1, <2>3, <2>4, ExceptSeq
  <2>6. /\ map'[e].type = "ECM" /\ map'[e].target = dec1'
        /\ \A x \in Pid \ {e} : map'[x] = map[x]
    BY <1>3, <2>1 DEF MapWithEcm, MapEntry
  <2>7. ASSUME NEW x \in EcmPids, map[x].type = "ECM"
        PROVE  map'[x].type = "ECM" /\ map'[x].target = map[x].target
    BY <1>3, <2>6, <2>7 DEF Pid
  <2>8. ASSUME NEW j \in 1..Len(program), NEW es \in program'[j].mine PROVE Right(j, es)'
    <3>1. program[j] \in Program BY <1>1, ElementOfSeq
    <3>2. /\ es \in program[j].mine /\ program'[j].pmt = program[j].pmt
          /\ \A x : Names(program[j].streams, x) => Names(program'[j].streams, x)
      BY <2>2, <2>4, <2>5, <2>8
    <3>3. es \in [pid : EsPids, ecm : CaPid] BY <3>1, <3>2 DEF Program
    <3>4. Right(j, es) BY <1>1, <3>2 DEF Bindings
    <3>5. es.pid \in Pid \ {e} BY <3>3, <1>3, RolesAssumption DEF Pid
    <3>6. map'[es.pid].target = map[es.pid].target BY <3>5, <2>6
    <3>7. Declared(program'[j].pmt, es) = Declared(program[j].pmt, es) BY <3>2
    <3> QED BY <2>7, <3>2, <3>4, <3>6, <3>7 DEF Right
  <2>9. ProgramEcm'
    <3>1. program'[cur].pmt = program[cur].pmt /\ program'[cur].streams = longer
      BY <1>1, <2>4, <2>5
    <3>2. PICK c : c = program[cur].pmt.ecm OBVIOUS
    <3>3. c \in EcmPids => Leads(c, dec0) /\ Names(list, c)
      BY <1>1, <3>2 DEF Bindings, ProgramEcm
    <3>4. c \in EcmPids => Leads(c, dec0)' /\ Names(longer, c)
      BY <1>1, <2>2, <2>7, <3>3 DEF Leads
    <3> QED BY <1>1, <3>1, <3>2, <3>4 DEF ProgramEcm, Leads
  <2>10. StreamEcm'
    <3>1. program'[cur].streams = longer BY <1>1, <2>4, <2>5
    <3> QED BY <1>0, <1>1, <1>3, <2>2, <2>6, <3>1 DEF StreamEcm, Leads
  <2> QED BY <1>3, <2>5, <2>8, <2>9, <2>10 DEF Bindings
<1>4. CASE e \in EcmPids /\ Registered(e)
  <2>1. /\ dec1' = map[e].target /\ pc' = "bind" /\ map' = MapWithEcm(map, list, e)
        /\ program' = [program EXCEPT ![cur].streams = ListWithEcm(list, e)]
    BY <1>0, <1>4 DEF PmtStream
  <2>2. Tables.map = map /\ map \in [Pid -> MapEntry] /\ e \in Pid
    BY <1>4, TablesTyped DEF IInv, Pid
  <2> QED BY <1>3, <1>4, <2>1, <2>2 DEF Registered
<1>5. CASE e \in EcmPids /\ ~Registered(e)
  <2>1. ASSUME NEW d \in Dec \ live, dec1' = d,
               LET R == AddDecryptor(Tables, e, d)
               IN  SetTables([R EXCEPT !.map = MapWithEcm(R.map, list, e)]),
               program' = [program EXCEPT ![cur].streams = ListWithEcm(list, e)], pc' = "bind"
        PROVE  Bindings'
    <3>1. PICK R : R = AddDecryptor(Tables, e, d) OBVIOUS
    <3>2. /\ map[e].type # "ECM" /\ d # None /\ DOMAIN R.map = Pid
          /\ R = [map |-> R.map, live |-> R.live, dec |-> R.dec]
          /\ R.map[e].type = "ECM" /\ R.map[e].target = d
          /\ \A x \in Pid \ {e} : R.map[x] = map[x]
      BY <1>5, <3>1, EntryMade
    <3>3. R.map[e] \in MapEntry
      <4>1. Held[d] = 0 /\ map[e].type # "ECM" /\ Tables.map = map /\ Tables.live = live
            /\ Held \in [Dec -> Nat]
        BY <1>5, <2>1, <3>2, TablesTyped DEF IInv, Control, Held
      <4>2. Fit(R, Held, None) BY <1>5, <3>1, <4>1, AddFits DEF IInv
      <4> QED BY <4>2, <1>5 DEF Fit, TableType, Pid
    <3>4. map' = MapWithEcm(R.map, list, e) BY <2>1, <3>1, <3>2 DEF SetTables
    <3> HIDE DEF list
    <3> QED BY <1>3, <1>5, <2>1, <3>2, <3>3, <3>4
  <2>2. \/ UNCHANGED <<tables, program>> /\ pc' = "end"
        \/ /\ program' = [program EXCEPT ![cur].streams = ListWithEcm(list, e)] /\ pc' = "bind"
           /\ \E d \in Dec \ live :
                /\ dec1' = d
                /\ LET R == AddDecryptor(Tables, e, d)
                   IN  SetTables([R EXCEPT !.map = MapWithEcm(R.map, list, e)])
    BY <1>0, <1>5 DEF PmtStream
  <2> HIDE DEF list
  <2> QED BY <1>2, <2>1, <2>2
<1>6. CASE e \notin EcmPids
  <2>1. UNCHANGED <<tables, program>> /\ dec1' = None BY <1>0, <1>6 DEF PmtStream
  <2> QED BY <1>2, <1>6, <2>1
<1> QED BY <1>4, <1>5, <1>6

\* The stream is bound to what its entry declares, and to nothing else from then
\* on.
LEMMA PmtBindBinds == ASSUME IInv, IInv', Bindings, PmtBind PROVE Bindings'
<1>0. PICK s, p, d : s = Head(todo) /\ p = s.pid /\ d = ActiveDecryptor(s.ecm) OBVIOUS
<1> DEFINE m == [map EXCEPT ![p] = [type |-> "OTHER", ref |-> map[p].ref + 1,
                                    target |-> map[p].target]]
           R == [Tables EXCEPT !.map = m]
           S == BindStream(R, p, d)
<1>1. /\ program \in Seq(Program) /\ cur \in 1..Len(program) /\ Len(program) \in Nat
      /\ pc = "bind" /\ pc' = "drop" /\ cur' = cur /\ dec0' = dec0
      /\ s \in [pid : EsPids, ecm : CaPid] /\ p \in EsPids /\ p \in Pid /\ p \notin EcmPids
  <2>1. s \in [pid : EsPids, ecm : CaPid]
    BY <1>0, HeadTailProperties DEF IInv, Control, PmtBind
  <2> QED BY <1>0, <2>1, LenProperties, RolesAssumption DEF IInv, Control, PmtBind, Pid
<1>2. /\ Tables \in TableType /\ Tables.map = map /\ Tables.live = live
      /\ map \in [Pid -> MapEntry]
  BY TablesTyped DEF IInv, Fit
<1>3. R \in TableType /\ R.live = live /\ \A x \in Pid \ {p} : R.map[x] = map[x]
  <2>1. m \in [Pid -> MapEntry] BY <1>1, <1>2 DEF MapEntry
  <2> HIDE DEF m
  <2>2. R \in TableType /\ R.map = m /\ R.live = live BY <1>2, <2>1 DEF TableType
  <2>3. \A x \in Pid \ {p} : m[x] = map[x] BY <1>2 DEF m
  <2> QED BY <2>2, <2>3
<1>4. map' = S.map /\ live' = S.live
  <2>1. m = [map EXCEPT ![Head(todo).pid] =
               [type |-> "OTHER", ref |-> @.ref + 1, target |-> @.target]]
    BY <1>0
  <2>2. SetTables(S) BY <2>1, <1>0 DEF PmtBind
  <2> QED BY <2>2 DEF SetTables
<1> HIDE DEF R
<1>5. S.map[p].target = d /\ \A x \in Pid \ {p} : Led(R, S, x) BY <1>1, <1>3, BindLeads
<1> HIDE DEF S
<1>6. \A x \in Pid \ {p} : Led(Tables, Tables', x)
  BY <1>2, <1>3, <1>4, <1>5 DEF Led, Tables
<1>7. map'[p].target = d BY <1>4, <1>5
<1>8. d # None => d \in live'
  <2>1. Fit(Tables', Held', None) /\ p \in Pid \ {None} BY <1>1, RolesAssumption DEF IInv
  <2>2. EntryFits(Tables', p) BY <2>1 DEF Fit
  <2> QED BY <2>2, <1>7 DEF EntryFits, Tables
<1>9. /\ Len(program') = Len(program)
      /\ \A i \in 1..Len(program) :
           /\ program'[i].pmt = program[i].pmt
           /\ \A x : Names(program[i].streams, x) => Names(program'[i].streams, x)
           /\ program'[i].mine \subseteq
                {es \in program[i].mine : es.pid # p} \cup (IF i = cur THEN {s} ELSE {})
      /\ Names(program'[cur].streams, p)
  <2>1. program' = [i \in 1..Len(program) |->
              IF i = cur THEN [program[i] EXCEPT !.streams = Append(@, p),
                                                 !.mine = OfOthers(@, p) \cup {s}]
                         ELSE [program[i] EXCEPT !.mine = OfOthers(@, p)]]
    BY <1>0 DEF PmtBind
  <2>2. \A i \in 1..Len(program) : program[i] \in Program BY <1>1, ElementOfSeq
  <2>3. Len(program') = Len(program)
    <3>1. DOMAIN program' = 1..Len(program) BY <2>1
    <3>2. program' \in Seq(Program) BY DEF IInv, Control
    <3> QED BY <1>1, <3>1, <3>2, LenProperties
  <2>4. ASSUME NEW i \in 1..Len(program)
        PROVE  /\ program'[i].pmt = program[i].pmt
               /\ program'[i].streams =
                    IF i = cur THEN Append(program[i].streams, p) ELSE program[i].streams
               /\ program'[i].mine = OfOthers(program[i].mine, p) \cup
                                       (IF i = cur THEN {s} ELSE {})
    BY <2>1, <2>2 DEF Program
  <2>5. program[cur].streams \in Seq(StreamPid) /\ p \in StreamPid
    BY <1>1, <2>2 DEF Program, StreamPid
  <2>6. /\ Names(Append(program[cur].streams, p), p)
        /\ \A x : Names(program[cur].streams, x) => Names(Append(program[cur].streams, p), x)
    BY <2>5, AppendNames
  <2> QED BY <1>1, <2>3, <2>4, <2>6 DEF OfOthers
<1>10. \A x \in EcmPids : Led(Tables, Tables', x) BY <1>1, <1>6 DEF Pid
<1>11. ASSUME NEW i \in 1..Len(program), NEW es \in program[i].mine, es.pid # p
       PROVE  Right(i, es)'
  <2>1. program[i] \in Program BY <1>1, ElementOfSeq
  <2>2. es \in [pid : EsPids, ecm : CaPid] BY <2>1 DEF Program
  <2>3. Led(Tables, Tables', es.pid) BY <1>6, <1>11, <2>2 DEF Pid
  <2>4. Right(i, es) BY <1>1 DEF Bindings
  <2> QED BY <1>9, <1>10, <2>2, <2>3, <2>4, RightKept
<1>12. ASSUME NEW e \in EcmPids, NEW h \in live', Leads(e, h), Names(program[cur].streams, e)
       PROVE  Leads(e, h)' /\ Names(program'[cur].streams, e)
  <2>1. Names(program'[cur].streams, e) BY <1>1, <1>9, <1>12
  <2>2. map'[e].ref # 0 BY <1>1, <1>9, <2>1, NamedMapped DEF StreamPid
  <2> QED BY <1>10, <1>12, <2>1, <2>2, LeadsKept
<1>13. ASSUME NEW i \in 1..Len(program), i = cur, NEW es, es = s PROVE Right(i, es)'
  <2>1. PICK e : e = Declared(program[cur].pmt, s) OBVIOUS
  <2> SUFFICES ASSUME e \in EcmPids
               PROVE  /\ map'[e].type = "ECM" /\ map'[p].target = map'[e].target
                      /\ Names(program'[cur].streams, e) /\ Names(program'[cur].streams, p)
    BY <1>0, <1>9, <1>13, <2>1 DEF Right, Declared
  <2>2. Leads(e, d) /\ Names(program[cur].streams, e)
    <3>1. ProgramEcm /\ StreamEcm BY <1>1 DEF Bindings
    <3>2. CASE s.ecm = None
      <4>1. e = program[cur].pmt.ecm BY <2>1, <3>2 DEF Declared
      <4>2. Leads(e, dec0) /\ Names(program[cur].streams, e)
        BY <1>1, <3>1, <4>1 DEF ProgramEcm
      <4>3. None \notin EcmPids /\ None # Clear BY RolesAssumption DEF Pid
      <4>4. dec1 = None BY <1>0, <3>1, <3>2, <4>3 DEF StreamEcm
      <4>5. d = dec0 BY <1>0, <3>2, <4>3, <4>4 DEF ActiveDecryptor
      <4> QED BY <4>2, <4>5
    <3>3. CASE s.ecm # None
      <4>1. e = s.ecm BY <2>1, <3>3 DEF Declared
      <4>2. Leads(e, dec1) /\ Names(program[cur].streams, e)
        BY <1>0, <3>1, <4>1 DEF StreamEcm
      <4>3. d = dec1 BY <1>0, <4>2 DEF ActiveDecryptor, Leads
      <4> QED BY <4>2, <4>3
    <3> QED BY <3>2, <3>3
  <2>3. d \in live' BY <1>8, <2>2 DEF Leads
  <2>4. Leads(e, d)' /\ Names(program'[cur].streams, e)
    <3>1. PICK h \in live' : h = d BY <2>3
    <3>2. Leads(e, h)' /\ Names(program'[cur].streams, e) BY <1>12, <2>2, <3>1
    <3> QED BY <3>1, <3>2 DEF Leads
  <2> QED BY <1>7, <1>9, <2>4 DEF Leads
<1>14. ProgramEcm'
  <2>1. PICK e : e = program[cur].pmt.ecm OBVIOUS
  <2> SUFFICES ASSUME e \in EcmPids PROVE Leads(e, dec0)' /\ Names(program'[cur].streams, e)
    BY <1>1, <1>9, <2>1 DEF ProgramEcm
  <2>2. Leads(e, dec0) /\ Names(program[cur].streams, e)
    BY <1>1, <2>1 DEF Bindings, ProgramEcm
  <2>3. dec0 \in live' \cup {None} BY <1>1 DEF IInv, Control
  <2>4. PICK h \in live' : h = dec0 BY <2>2, <2>3 DEF Leads
  <2>5. Leads(e, h)' /\ Names(program'[cur].streams, e) BY <1>12, <2>2, <2>4
  <2> QED BY <1>1, <2>4, <2>5 DEF Leads
<1>15. ASSUME NEW i \in 1..Len(program), NEW es \in program'[i].mine PROVE Right(i, es)'
  <2>1. CASE es \in program[i].mine /\ es.pid # p BY <2>1, <1>11
  <2>2. CASE i = cur /\ es = s BY <2>2, <1>13
  <2> QED BY <2>1, <2>2, <1>9
<1> QED BY <1>1, <1>9, <1>14, <1>15 DEF Bindings

LEMMA NextBindings == ASSUME IInv, IInv', Bindings, [Next]_vars PROVE Bindings'
<1>1. CASE UNCHANGED vars
  BY <1>1 DEF vars, Bindings, Right, ProgramEcm, StreamEcm, Leads
<1>2. CASE PatForeign \/ CatForeign \/ \E t \in Pats : PatBegin(t)
  BY <1>2 DEF PatForeign, CatForeign, PatBegin, tables, locals, Bindings, Right
<1>3. CASE PatRelease \/ PatForget
  BY <1>3 DEF PatRelease, PatForget, tables, locals, Bindings
<1> QED BY <1>1, <1>2, <1>3, DropStreamBinds, PatEndBinds, PmtForeignBinds, PmtBeginBinds,
           PmtListsBinds, PmtStreamBinds, PmtBindBinds, PmtEndBinds, CatBinds, ResetBinds
        DEF Next

\* A stream whose PMT declares an ECM PID is bound to the decryptor that gets the
\* ECMs of that PID: whatever PMTs came before, whatever the other programs did
\* in the meantime, and wherever a PMT was given up for want of memory.
THEOREM BoundAsDeclared == Spec => []DeclaredBinding
<1>1. Init => Bindings
  <2> SUFFICES ASSUME Init PROVE Bindings OBVIOUS
  <2>1. 1..Len(program) = {} BY EmptySeq DEF Init
  <2> QED BY <2>1 DEF Init, Bindings
<1>2. IInv /\ Bindings => DeclaredBinding
  <2> SUFFICES ASSUME IInv, Bindings, pc = "idle",
                      NEW i \in 1..Len(program), NEW es \in program[i].mine,
                      NEW e \in EcmPids, e = Declared(program[i].pmt, es),
                      NEW d, d = map[es.pid].target
               PROVE  d # None /\ dec[d].ecm = e /\ map[e].type = "ECM" /\ map[e].target = d
    BY DEF DeclaredBinding
  <2>1. map[e].type = "ECM" /\ d = map[e].target BY DEF Bindings, Right
  <2>2. Tables.map = map /\ Tables.dec = dec /\ e \in Pid \ {None}
    BY RolesAssumption DEF Tables, Pid
  <2>3. EntryFits(Tables, e) BY <2>2 DEF IInv, Fit
  <2> QED BY <2>1, <2>2, <2>3 DEF EntryFits
<1>3. IInv /\ IInv' /\ Bindings /\ [Next]_vars => Bindings' BY NextBindings
<1> QED BY <1>1, <1>2, <1>3, InvariantKept, PTL DEF Spec
=============================================================================
