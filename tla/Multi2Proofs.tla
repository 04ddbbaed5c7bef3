---------------------------- MODULE Multi2Proofs ----------------------------
(***************************************************************************)
(* The keys of MULTI2, for any decryptors, cards and keys: both            *)
(* implementations decrypt with the keys they were given.                  *)
(***************************************************************************)
EXTENDS Multi2, TLAPS

Instance ==
  [cbc : Status \cup {Zero}, sys : Status \cup {Zero}, wrk : [Kind -> WorkKey],
   round : Nat, state : SUBSET {"cbc", "sys", "scr"},
   simd : Tables \cup {None}, decrypt : {"plain", "simd"}]

LazyInstance ==
  [iv : Status \cup {None}, sys : Status \cup {None}, data : [Kind -> DataKey \cup {None}],
   work : [Kind -> [sys : Status, data : DataKey] \cup {None}], round : Nat]

\* What multi2.c has in an instance m that was given what w says, when the
\* instruction type in use is i
\* and the processor supports those up to s.
Eager(m, w, i, s) ==
  /\ m \in Instance /\ (w.stat # None => m.round = w.round)
  /\ w.stat = None => "cbc" \notin m.state
  /\ w.stat # None => {"cbc", "sys"} \subseteq m.state /\ m.cbc = w.stat /\ m.sys = w.stat
  /\ w.key # None <=> "scr" \in m.state
  /\ w.key # None => \A k \in Kind : m.wrk[k] = Schedule(m.sys, w.key[k])
  /\ m.decrypt = "simd" => m.simd # None
  /\ m.simd # None => m.simd.kernel <= s
  /\ m.simd # None /\ w.ours => m.simd.kernel = i
  /\ m.simd # None /\ w.ours /\ w.key # None =>
       \A k \in Kind : m.simd.wrk[k] = [wide |-> Wide(i), key |-> m.wrk[k]]

\* And multi2.cc: a work key that was kept is that of both keys.
Lazy(m, w) ==
  /\ m \in LazyInstance /\ (w.stat # None => m.round = w.round) /\ m.iv = w.stat /\ m.sys = w.stat
  /\ \A k \in Kind :
       /\ m.data[k] = IF w.key = None THEN None ELSE w.key[k]
       /\ m.work[k] # None => /\ w.stat # None /\ w.key # None
                              /\ m.work[k] = Schedule(w.stat, w.key[k])

Settings ==
  /\ supported \in Supports /\ simd_mode \in 0..3 /\ instruction \in 0..supported
  /\ multi2_round \in Nat

Instances ==
  \A d \in Live : want[d] \in Wish /\ Eager(c[d], want[d], instruction, supported) /\ Lazy(cc[d], want[d])

Maps == /\ c = [d \in Decryptor |-> c[d]] /\ cc = [d \in Decryptor |-> cc[d]]
        /\ want = [d \in Decryptor |-> want[d]]

IInv == Settings /\ Maps /\ Instances

----------------------------------------------------------------------------
(* What the operations do with an instance.                                *)

LEMMA ScheduleOK ==
  ASSUME NEW s \in Status, NEW x \in DataKey
  PROVE  Schedule(s, x) # None
BY Multi2Assumption DEF Schedule

\* set_scramble_key, field by field
Keyed(n, m, key, i) ==
  /\ n \in Instance /\ n.round = m.round /\ n.cbc = m.cbc /\ n.sys = m.sys
  /\ n.decrypt = m.decrypt /\ n.state = m.state \cup {"scr"}
  /\ \A k \in Kind : n.wrk[k] = Schedule(m.sys, key[k])
  /\ n.simd # None <=> m.simd # None
  /\ n.simd # None =>
       /\ n.simd.kernel = m.simd.kernel
       /\ \A k \in Kind : n.simd.wrk[k] = [wide |-> Wide(i), key |-> n.wrk[k]]

LEMMA SetScrambleKeyOK ==
  ASSUME NEW m \in Instance, NEW key \in ScrambleKey, NEW i \in 0..3
  PROVE  Keyed(SetScrambleKey(m, key, i), m, key, i)
<1> DEFINE wrk == [k \in Kind |-> Schedule(m.sys, key[k])]
           wide == Wide(i)
           table == [k \in Kind |-> [wide |-> wide, key |-> wrk[k]]]
           simd == IF m.simd = None THEN None ELSE [m.simd EXCEPT !.wrk = table]
<1> SUFFICES ASSUME NEW n, n = SetScrambleKey(m, key, i)
             PROVE  Keyed(n, m, key, i)
  OBVIOUS
<1>1. wrk \in [Kind -> WorkKey]
  BY DEF Instance, ScrambleKey, Schedule, WorkKey
<1>2. wide \in BOOLEAN
  BY DEF Wide
<1>3. table \in [Kind -> [wide : BOOLEAN, key : WorkKey \cup {Garbage}]]
  <2> HIDE DEF wrk, wide
  <2> QED BY <1>1, <1>2
<1>4. /\ simd \in Tables \cup {None} /\ (simd # None <=> m.simd # None)
      /\ simd # None => simd.kernel = m.simd.kernel /\ simd.wrk = table
  <2> HIDE DEF table
  <2>1. CASE m.simd = None
    BY <2>1
  <2>2. CASE m.simd # None
    <3>1. m.simd \in Tables
      BY <2>2 DEF Instance
    <3>2. simd \in Tables /\ simd.kernel = m.simd.kernel /\ simd.wrk = table
      BY <1>3, <2>2, <3>1 DEF Tables
    <3> QED BY <2>2, <3>2, Multi2Assumption
  <2> QED BY <2>1, <2>2
<1>5. n = [m EXCEPT !.wrk = wrk, !.state = @ \cup {"scr"}, !.simd = simd]
  BY DEF SetScrambleKey
<1>6. /\ n \in Instance /\ n.round = m.round /\ n.cbc = m.cbc /\ n.sys = m.sys
      /\ n.decrypt = m.decrypt /\ n.state = m.state \cup {"scr"} /\ n.wrk = wrk /\ n.simd = simd
  <2> HIDE DEF wrk, simd
  <2>1. DOMAIN m = DOMAIN n /\ n.round = m.round /\ n.cbc = m.cbc /\ n.sys = m.sys
        /\ n.decrypt = m.decrypt /\ n.state = m.state \cup {"scr"} /\ n.wrk = wrk /\ n.simd = simd
    BY <1>5 DEF Instance
  <2>2. n \in Instance
    <3>1. n = [cbc |-> m.cbc, sys |-> m.sys, wrk |-> wrk, round |-> m.round,
               state |-> m.state \cup {"scr"}, simd |-> simd, decrypt |-> m.decrypt]
      BY <1>5 DEF Instance
    <3>2. m.state \cup {"scr"} \in SUBSET {"cbc", "sys", "scr"}
      BY DEF Instance
    <3> QED
      BY <1>1, <1>4, <3>1, <3>2 DEF Instance
  <2> QED BY <2>1, <2>2
<1> HIDE DEF simd
<1> QED BY <1>4, <1>6 DEF Keyed

LEMMA EagerNext ==
  ASSUME NEW m, NEW w \in Wish, NEW i \in 0..3, NEW s, Eager(m, w, i, s), NEW key \in ScrambleKey,
         NEW n, n = SetScrambleKey(m, key, i)
  PROVE  Eager(n, [w EXCEPT !.key = key], i, s)
<1> DEFINE v == [w EXCEPT !.key = key]
<1>1. /\ v.stat = w.stat /\ v.key = key /\ v.round = w.round /\ v.ours = w.ours /\ key # None
  BY Multi2Assumption DEF Wish
<1>2. m \in Instance
  BY DEF Eager
<1>3. Keyed(n, m, key, i)
  BY <1>2, SetScrambleKeyOK
<1> HIDE DEF v
<1>4. Eager(n, v, i, s)
  BY <1>1, <1>3 DEF Eager, Keyed
<1> QED BY <1>4 DEF v

LEMMA EagerNoKey ==
  ASSUME NEW m, NEW w \in Wish, NEW i \in 0..3, NEW s, Eager(m, w, i, s)
  PROVE  Eager(ClearScrambleKey(m), [w EXCEPT !.key = None], i, s)
<1> DEFINE n == ClearScrambleKey(m)
           v == [w EXCEPT !.key = None]
<1>1. /\ v.stat = w.stat /\ v.key = None /\ v.round = w.round /\ v.ours = w.ours
  BY DEF Wish
<1>2. m \in Instance
  BY DEF Eager
<1>3. /\ n \in Instance /\ n.round = m.round /\ n.cbc = m.cbc /\ n.sys = m.sys
      /\ n.decrypt = m.decrypt /\ n.state = m.state \ {"scr"} /\ n.simd = m.simd
  BY <1>2 DEF ClearScrambleKey, Instance, WorkKey
<1> HIDE DEF n, v
<1>4. Eager(n, v, i, s)
  BY <1>1, <1>3 DEF Eager
<1> QED BY <1>4 DEF n, v

\* Another instruction type was selected meanwhile.
LEMMA EagerLost ==
  ASSUME NEW m, NEW w \in Wish, NEW i, NEW j, NEW s, Eager(m, w, i, s)
  PROVE  Eager(m, [w EXCEPT !.ours = FALSE], j, s)
<1> DEFINE v == [w EXCEPT !.ours = FALSE]
<1>1. /\ v.stat = w.stat /\ v.key = w.key /\ v.round = w.round /\ v.ours = FALSE
  BY DEF Wish
<1> HIDE DEF v
<1>2. ~v.ours
  BY <1>1
<1>3. Eager(m, v, j, s)
  BY <1>1, <1>2 DEF Eager
<1> QED BY <1>3 DEF v

LEMMA LazyNext ==
  ASSUME NEW m, NEW w \in Wish, Lazy(m, w), NEW key \in ScrambleKey
  PROVE  Lazy(CcSetWorkKeys(m, key), [w EXCEPT !.key = key])
<1> DEFINE n == CcSetWorkKeys(m, key)
           v == [w EXCEPT !.key = key]
           work == [k \in Kind |-> IF m.data[k] = key[k] THEN m.work[k] ELSE None]
<1>1. /\ v.stat = w.stat /\ v.key = key /\ v.round = w.round /\ key # None
      /\ \A k \in Kind : key[k] \in DataKey /\ key[k] # None
  BY Multi2Assumption DEF Wish, ScrambleKey
<1>2. m \in LazyInstance
  BY DEF Lazy
<1>3. work \in [Kind -> [sys : Status, data : DataKey] \cup {None}]
      /\ key \in [Kind -> DataKey \cup {None}]
  BY <1>2 DEF LazyInstance, ScrambleKey
<1>4. n = [m EXCEPT !.data = key, !.work = work]
  BY <1>2 DEF CcSetWorkKeys, LazyInstance
<1>5. /\ n \in LazyInstance /\ n.round = m.round /\ n.iv = m.iv /\ n.sys = m.sys
      /\ n.data = key /\ n.work = work
  <2> HIDE DEF work, n
  <2> QED BY <1>2, <1>3, <1>4 DEF LazyInstance
<1> HIDE DEF n, v
<1>6. ASSUME NEW k \in Kind, n.work[k] # None
      PROVE  v.stat # None /\ n.work[k] = Schedule(v.stat, key[k])
  <2>1. m.data[k] = key[k] /\ n.work[k] = m.work[k]
    BY <1>5, <1>6
  <2>2. w.key # None /\ w.key[k] = key[k]
    BY <1>1, <2>1 DEF Lazy
  <2> QED
    BY <1>1, <1>6, <2>1, <2>2 DEF Lazy
<1>7. Lazy(n, v)
  BY <1>1, <1>5, <1>6 DEF Lazy
<1> QED BY <1>7 DEF n, v

LEMMA LazyNoKey ==
  ASSUME NEW m, NEW w \in Wish, Lazy(m, w)
  PROVE  Lazy(CcClearWorkKeys(m), [w EXCEPT !.key = None])
<1> DEFINE n == CcClearWorkKeys(m)
           v == [w EXCEPT !.key = None]
<1>1. v.stat = w.stat /\ v.key = None /\ v.round = w.round
  BY DEF Wish
<1>2. m \in LazyInstance
  BY DEF Lazy
<1>3. /\ n \in LazyInstance /\ n.round = m.round /\ n.iv = m.iv /\ n.sys = m.sys
      /\ \A k \in Kind : n.data[k] = None /\ n.work[k] = None
  BY <1>2 DEF CcClearWorkKeys, LazyInstance
<1> HIDE DEF n, v
<1>4. Lazy(n, v)
  BY <1>1, <1>3 DEF Lazy
<1> QED BY <1>4 DEF n, v

\* The work key decrypt uses
LEMMA WorkKeyOK ==
  ASSUME NEW m, NEW w \in Wish, Lazy(m, w), NEW k \in Kind
  PROVE  /\ w.stat # None /\ w.key # None =>
              CcWorkKey(m, k) = Schedule(w.stat, w.key[k]) /\ CcWorkKey(m, k) # None
         /\ w.stat = None \/ w.key = None => CcWorkKey(m, k) = None /\ m.work[k] = None
<1>1. CASE w.stat # None /\ w.key # None
  <2>1. w.stat \in Status /\ w.key[k] \in DataKey /\ w.key[k] # None
    BY <1>1, Multi2Assumption DEF Wish, ScrambleKey
  <2> QED
    BY <1>1, <2>1, ScheduleOK DEF Lazy, CcWorkKey
<1>2. CASE w.stat = None \/ w.key = None
  BY <1>2 DEF Lazy, CcWorkKey
<1> QED BY <1>1, <1>2

LEMMA LazyUse ==
  ASSUME NEW m, NEW w \in Wish, Lazy(m, w), NEW k \in Kind
  PROVE  Lazy([m EXCEPT !.work[k] = CcWorkKey(m, k)], w)
<1> DEFINE n == [m EXCEPT !.work[k] = CcWorkKey(m, k)]
<1>1. m \in LazyInstance
  BY DEF Lazy
<1>2. CcWorkKey(m, k) \in [sys : Status, data : DataKey] \cup {None}
  <2>1. CASE w.stat # None /\ w.key # None
    <3>1. w.stat \in Status /\ w.key[k] \in DataKey
      BY <2>1 DEF Wish, ScrambleKey
    <3> QED
      BY <2>1, <3>1, WorkKeyOK DEF Schedule
  <2>2. CASE w.stat = None \/ w.key = None
    BY <2>2, WorkKeyOK
  <2> QED BY <2>1, <2>2
<1>3. /\ n \in LazyInstance /\ n.round = m.round /\ n.iv = m.iv /\ n.sys = m.sys /\ n.data = m.data
      /\ \A j \in Kind : n.work[j] = IF j = k THEN CcWorkKey(m, k) ELSE m.work[j]
  BY <1>1, <1>2 DEF LazyInstance
<1> HIDE DEF n
<1>4. Lazy(n, w)
  BY <1>3, WorkKeyOK DEF Lazy
<1> QED BY <1>4 DEF n

\* create_multi2 and set_simd
LEMMA MadeOK ==
  ASSUME Settings, NEW room \in BOOLEAN, NEW m, m = SetSimd(Create, simd_mode, room)
  PROVE  /\ m \in Instance /\ m.state = {} /\ m.round = DefaultRound
         /\ m.decrypt = "simd" => m.simd # None
         /\ m.simd # None => m.simd.kernel = Selected(simd_mode)
         /\ Selected(simd_mode) \in 0..supported /\ supported \in 1..3
<1>1. supported \in 1..3 /\ Selected(simd_mode) \in 0..supported
      /\ (simd_mode # 0 => Selected(simd_mode) \in 1..3)
  BY Multi2Assumption DEF Settings, Selected
<1>2. Create \in Instance /\ Create.state = {} /\ Create.round = DefaultRound
      /\ Create.simd = None /\ Create.decrypt = "plain"
  BY DEF Create, Instance, WorkKey, DefaultRound
<1>3. CASE simd_mode # 0 /\ room
  <2> DEFINE row == [wide |-> FALSE, key |-> Garbage]
             t == [kernel |-> Selected(simd_mode), wrk |-> [k \in Kind |-> row]]
  <2>1. t \in Tables /\ t.kernel = Selected(simd_mode) /\ t # None
    <3>1. row \in [wide : BOOLEAN, key : WorkKey \cup {Garbage}]
      OBVIOUS
    <3> HIDE DEF row
    <3>2. [k \in Kind |-> row] \in [Kind -> [wide : BOOLEAN, key : WorkKey \cup {Garbage}]]
      BY <3>1
    <3>3. t \in Tables /\ t.kernel = Selected(simd_mode)
      BY <1>1, <1>3, <3>2 DEF Tables
    <3> QED
      BY <3>3, Multi2Assumption
  <2>2. m = [Create EXCEPT !.decrypt = "simd", !.simd = t]
    BY <1>3 DEF SetSimd
  <2> HIDE DEF t
  <2>3. m \in Instance /\ m.state = {} /\ m.round = DefaultRound /\ m.simd = t
    BY <1>2, <2>1, <2>2 DEF Instance
  <2> QED
    BY <1>1, <2>1, <2>3
<1>4. CASE ~(simd_mode # 0 /\ room)
  <2>1. m = Create
    BY <1>4 DEF SetSimd
  <2> QED
    BY <1>1, <1>2, <2>1
<1> QED BY <1>3, <1>4

\* proc_ecm makes an instance.
LEMMA FirstEager ==
  ASSUME Settings, NEW room \in BOOLEAN, NEW stat \in Status, NEW key \in ScrambleKey,
         NEW m, m = SetSimd(Create, simd_mode, room),
         NEW m1, m1 = SetRound(SetInitCbc(SetSystemKey(m, stat), stat), multi2_round),
         NEW n, n = SetScrambleKey(m1, key, Selected(simd_mode))
  PROVE  /\ Eager(m, [stat |-> None, key |-> None, round |-> multi2_round, ours |-> TRUE],
                  Selected(simd_mode), supported)
         /\ Eager(n, [stat |-> stat, key |-> key, round |-> multi2_round, ours |-> TRUE],
                  Selected(simd_mode), supported)
<1> DEFINE w == [stat |-> stat, key |-> None, round |-> multi2_round, ours |-> TRUE]
           i == Selected(simd_mode)
<1>1. /\ m \in Instance /\ m.state = {} /\ m.round = DefaultRound
      /\ m.decrypt = "simd" => m.simd # None
      /\ m.simd # None => m.simd.kernel = i
      /\ i \in 0..supported /\ i \in 0..3 /\ supported \in 1..3 /\ multi2_round \in Nat
  BY MadeOK DEF Settings
<1> HIDE DEF i
<1>2. Eager(m, [stat |-> None, key |-> None, round |-> multi2_round, ours |-> TRUE], i, supported)
  BY <1>1 DEF Eager
<1>3. /\ m1 \in Instance /\ m1.state = {"cbc", "sys"} /\ m1.round = multi2_round
      /\ m1.cbc = stat /\ m1.sys = stat /\ m1.decrypt = m.decrypt /\ m1.simd = m.simd
  <2>1. m1 = [cbc |-> stat, sys |-> stat, wrk |-> m.wrk, round |-> multi2_round,
              state |-> {"cbc", "sys"}, simd |-> m.simd, decrypt |-> m.decrypt]
    BY <1>1 DEF SetRound, SetInitCbc, SetSystemKey, Instance
  <2> QED
    BY <1>1, <2>1 DEF Instance
<1>4. w \in Wish /\ w.stat = stat /\ w.key = None /\ w.round = multi2_round /\ w.ours /\ stat # None
  BY <1>1, Multi2Assumption DEF Wish
<1> HIDE DEF w
<1>5. Eager(m1, w, i, supported)
  BY <1>1, <1>3, <1>4 DEF Eager
<1>6. n = SetScrambleKey(m1, key, i)
  BY DEF i
<1>7. Eager(n, [w EXCEPT !.key = key], i, supported)
  BY <1>1, <1>4, <1>5, <1>6, EagerNext
<1> DEFINE both == [stat |-> stat, key |-> key, round |-> multi2_round, ours |-> TRUE]
           v == [w EXCEPT !.key = key]
<1>8. /\ both.stat = stat /\ both.key = key /\ both.round = multi2_round /\ both.ours
      /\ v.stat = stat /\ v.key = key /\ v.round = multi2_round /\ v.ours
  BY <1>4 DEF Wish
<1> HIDE DEF both, v
<1>9. Eager(n, both, i, supported)
  <2>1. Eager(n, v, i, supported)
    BY <1>7 DEF v
  <2> QED
    BY <1>8, <2>1 DEF Eager
<1> QED BY <1>2, <1>9 DEF i, both

LEMMA FirstLazy ==
  ASSUME NEW r \in Nat, NEW stat \in Status, NEW key \in ScrambleKey,
         NEW n, n = [CcSetIv(CcSetSystemKey(CcCreate, stat), stat) EXCEPT !.round = r]
  PROVE  /\ Lazy(CcCreate, [stat |-> None, key |-> None, round |-> r, ours |-> TRUE])
         /\ Lazy(CcSetWorkKeys(n, key), [stat |-> stat, key |-> key, round |-> r, ours |-> TRUE])
<1> DEFINE w == [stat |-> stat, key |-> None, round |-> r, ours |-> TRUE]
<1>1. Lazy(CcCreate, [stat |-> None, key |-> None, round |-> r, ours |-> TRUE])
  BY DEF Lazy, CcCreate, LazyInstance, DefaultRound
<1>2. n = [iv |-> stat, sys |-> stat, data |-> [k \in Kind |-> None],
           work |-> [k \in Kind |-> None], round |-> r]
  BY DEF CcCreate, CcSetIv, CcSetSystemKey
<1>3. w \in Wish /\ w.stat = stat /\ w.key = None /\ w.round = r
  BY DEF Wish
<1> HIDE DEF w
<1>4. n \in LazyInstance
  <2> DEFINE empty == [k \in Kind |-> None]
  <2>1. /\ empty \in [Kind -> DataKey \cup {None}]
        /\ empty \in [Kind -> [sys : Status, data : DataKey] \cup {None}]
    OBVIOUS
  <2>2. n = [iv |-> stat, sys |-> stat, data |-> empty, work |-> empty, round |-> r]
    BY <1>2
  <2> HIDE DEF empty
  <2> QED
    BY ONLY stat \in Status, r \in Nat, <2>1, <2>2 DEF LazyInstance
<1>5. Lazy(n, w)
  BY <1>2, <1>3, <1>4 DEF Lazy
<1> DEFINE both == [stat |-> stat, key |-> key, round |-> r, ours |-> TRUE]
           v == [w EXCEPT !.key = key]
           next == CcSetWorkKeys(n, key)
<1>6. /\ both.stat = stat /\ both.key = key /\ both.round = r
      /\ v.stat = stat /\ v.key = key /\ v.round = r
  BY <1>3 DEF Wish
<1>7. Lazy(next, v)
  BY <1>3, <1>5, LazyNext
<1> HIDE DEF both, v, next
<1>8. Lazy(next, both)
  BY <1>6, <1>7 DEF Lazy
<1> QED BY <1>1, <1>8 DEF next, both

----------------------------------------------------------------------------
(* The invariant.                                                          *)

LEMMA InitInv == Init => IInv
BY Multi2Assumption DEF Init, IInv, Settings, Maps, Instances, Live, DefaultRound

LEMMA FirstKeyInv ==
  ASSUME IInv, NEW d \in Decryptor, NEW key \in ScrambleKey, NEW stat \in Status,
         NEW room \in BOOLEAN, NEW known \in BOOLEAN, FirstKey(d, key, stat, room, known)
  PROVE  IInv'
<1> DEFINE m == SetSimd(Create, simd_mode, room)
           m1 == SetRound(SetInitCbc(SetSystemKey(m, stat), stat), multi2_round)
           n == [CcSetIv(CcSetSystemKey(CcCreate, stat), stat) EXCEPT !.round = multi2_round]
           none == [stat |-> None, key |-> None, round |-> multi2_round, ours |-> TRUE]
           both == [stat |-> stat, key |-> key, round |-> multi2_round, ours |-> TRUE]
<1>1. /\ instruction' = Selected(simd_mode) /\ UNCHANGED <<supported, simd_mode, multi2_round>>
      /\ c' = [c EXCEPT ![d] = IF known THEN SetScrambleKey(m1, key, instruction') ELSE m]
      /\ cc' = [cc EXCEPT ![d] = IF known THEN CcSetWorkKeys(n, key) ELSE CcCreate]
      /\ \A e \in Decryptor : want'[e] =
            IF e = d THEN IF known THEN both ELSE none
            ELSE IF want[e] = None \/ instruction' = instruction THEN want[e]
            ELSE [want[e] EXCEPT !.ours = FALSE]
      /\ want' = [e \in Decryptor |-> want'[e]]
  BY DEF FirstKey, settings
<1>2. Settings' /\ Maps'
  <2>1. Selected(simd_mode) \in 0..supported
    BY Multi2Assumption DEF IInv, Settings, Selected
  <2> HIDE DEF m, m1, n, none, both
  <2> QED
    BY <1>1, <2>1 DEF IInv, Settings, Maps
<1>3. /\ Eager(m, none, instruction', supported') /\ Lazy(CcCreate, none)
      /\ Eager(SetScrambleKey(m1, key, instruction'), both, instruction', supported')
      /\ Lazy(CcSetWorkKeys(n, key), both)
  BY <1>1, FirstEager, FirstLazy DEF IInv, Settings
<1>4. none \in Wish /\ both \in Wish
  BY DEF Wish, IInv, Settings
<1> HIDE DEF m, m1, n, none, both
<1>5. ASSUME NEW e \in Live'
      PROVE  want'[e] \in Wish /\ Eager(c'[e], want'[e], instruction', supported')
             /\ Lazy(cc'[e], want'[e])
  <2>1. e \in Decryptor
    BY DEF Live
  <2>2. CASE e = d
    <3>1. /\ c'[d] = (IF known THEN SetScrambleKey(m1, key, instruction') ELSE m)
          /\ cc'[d] = (IF known THEN CcSetWorkKeys(n, key) ELSE CcCreate)
          /\ want'[d] = IF known THEN both ELSE none
      BY <1>1 DEF IInv, Maps
    <3> QED
      BY <1>3, <1>4, <2>2, <3>1
  <2>3. CASE e # d
    <3>1. c'[e] = c[e] /\ cc'[e] = cc[e] /\ e \in Live
      BY <1>1, <2>1, <2>3 DEF IInv, Maps, Live
    <3>2. want[e] \in Wish /\ want[e] # None /\ Eager(c[e], want[e], instruction, supported)
          /\ Lazy(cc[e], want[e])
      BY <3>1, Multi2Assumption DEF IInv, Instances
    <3>3. CASE instruction' = instruction
      BY <1>1, <2>1, <2>3, <3>1, <3>2, <3>3
    <3>4. CASE instruction' # instruction
      <4>1. want'[e] = [want[e] EXCEPT !.ours = FALSE]
        BY <1>1, <2>1, <2>3, <3>2, <3>4
      <4>2. Eager(c'[e], want'[e], instruction', supported')
        BY <1>1, <3>1, <3>2, <4>1, EagerLost
      <4>3. want'[e] \in Wish /\ want'[e].stat = want[e].stat /\ want'[e].key = want[e].key
            /\ want'[e].round = want[e].round
        BY <3>2, <4>1 DEF Wish
      <4>4. Lazy(cc'[e], want'[e])
        BY <3>1, <3>2, <4>3 DEF Lazy
      <4> QED
        BY <4>2, <4>3, <4>4
    <3> QED
      BY <3>3, <3>4
  <2> QED BY <2>2, <2>3
<1> QED BY <1>2, <1>5 DEF IInv, Instances

\* Only the instance of d changes.
LEMMA OneInv ==
  ASSUME IInv, NEW d \in Decryptor, NEW m, NEW n, NEW w,
         UNCHANGED <<settings, instruction>>,
         c' = [c EXCEPT ![d] = m], cc' = [cc EXCEPT ![d] = n], want' = [want EXCEPT ![d] = w],
         m # None => w \in Wish /\ Eager(m, w, instruction, supported) /\ Lazy(n, w)
  PROVE  IInv'
<1>1. Settings' /\ Maps'
  BY DEF IInv, Settings, Maps, settings
<1>2. \A e \in Decryptor : IF e = d THEN c'[e] = m /\ cc'[e] = n /\ want'[e] = w
                          ELSE c'[e] = c[e] /\ cc'[e] = cc[e] /\ want'[e] = want[e]
  BY DEF IInv, Maps
<1>3. Instances'
  BY <1>2 DEF IInv, Instances, Live, settings
<1> QED BY <1>1, <1>3 DEF IInv

LEMMA NextInv == IInv /\ [Next]_vars => IInv'
<1> SUFFICES ASSUME IInv, [Next]_vars PROVE IInv'
  OBVIOUS
<1>0. /\ \A d \in Live : /\ want[d] \in Wish /\ Eager(c[d], want[d], instruction, supported)
                        /\ Lazy(cc[d], want[d]) /\ d \in Decryptor
      /\ instruction \in 0..3
  BY Multi2Assumption DEF IInv, Instances, Live, Settings
<1>1. CASE UNCHANGED vars
  BY <1>1 DEF vars, settings, IInv, Settings, Maps, Instances, Live
<1>2. CASE \/ \E i \in Modes : SetSimdMode(i)
           \/ \E r \in Rounds : SetMulti2Round(r)
  BY <1>2, Multi2Assumption
  DEF SetSimdMode, SetMulti2Round, IInv, Settings, Maps, Instances, Live
<1>3. ASSUME NEW d \in Decryptor, NEW key \in ScrambleKey, NextKey(d, key)
      PROVE  IInv'
  <2>1. /\ d \in Live /\ UNCHANGED <<settings, instruction>>
        /\ c' = [c EXCEPT ![d] = SetScrambleKey(c[d], key, instruction)]
        /\ cc' = [cc EXCEPT ![d] = CcSetWorkKeys(cc[d], key)]
        /\ want' = [want EXCEPT ![d] = [want[d] EXCEPT !.key = key]]
    BY <1>3 DEF NextKey, Live, IInv, Maps
  <2>2. [want[d] EXCEPT !.key = key] \in Wish
    BY <1>0, <2>1 DEF Wish
  <2> QED
    BY <1>0, <2>1, <2>2, EagerNext, LazyNext, OneInv
<1>4. ASSUME NEW d \in Decryptor, NoKey(d)
      PROVE  IInv'
  <2>1. /\ d \in Live /\ UNCHANGED <<settings, instruction>>
        /\ c' = [c EXCEPT ![d] = ClearScrambleKey(c[d])]
        /\ cc' = [cc EXCEPT ![d] = CcClearWorkKeys(cc[d])]
        /\ want' = [want EXCEPT ![d] = [want[d] EXCEPT !.key = None]]
    BY <1>4 DEF NoKey, Live, IInv, Maps
  <2>2. [want[d] EXCEPT !.key = None] \in Wish
    BY <1>0, <2>1 DEF Wish
  <2> QED
    BY <1>0, <2>1, <2>2, EagerNoKey, LazyNoKey, OneInv
<1>5. ASSUME NEW d \in Decryptor, Release(d)
      PROVE  IInv'
  BY <1>5, OneInv DEF Release
<1>6. ASSUME NEW d \in Decryptor, NEW k \in Kind, Use(d, k)
      PROVE  IInv'
  <2>1. /\ d \in Live /\ UNCHANGED <<settings, instruction>>
        /\ c' = [c EXCEPT ![d] = c[d]] /\ want' = [want EXCEPT ![d] = want[d]]
        /\ cc' = [cc EXCEPT ![d] = [cc[d] EXCEPT !.work[k] = CcWorkKey(cc[d], k)]]
    BY <1>6 DEF Use, Live, IInv, Maps
  <2> QED
    BY <1>0, <2>1, LazyUse, OneInv
<1> QED
  BY <1>1, <1>2, <1>3, <1>4, <1>5, <1>6, FirstKeyInv DEF Next

LEMMA Inductive == Spec => []IInv
BY InitInv, NextInv, PTL DEF Spec

----------------------------------------------------------------------------
(* Theorems. *)

(* The instances keep their types, and initialize_multi2_simd never        *)
(* selects what the processor lacks.                                       *)
THEOREM TypeCorrect == Spec => []TypeOK
<1>1. IInv => TypeOK
  BY DEF IInv, Settings, Instances, TypeOK, Eager, Instance
<1> QED BY <1>1, Inductive, PTL

(* decrypt_with_simd_multi2 is only called with its tables allocated.      *)
THEOREM SimdHasTables == Spec => []TablesAllocated
<1>1. IInv => TablesAllocated
  BY DEF IInv, Instances, TablesAllocated, Eager
<1> QED BY <1>1, Inductive, PTL

(* multi2.cc decrypts with the keys it was given last, kept work keys      *)
(* included, and with none after they were cleared.                        *)
THEOREM LazyRight == Spec => []LazyKeysRight
<1>1. ASSUME IInv, NEW d \in Live, NEW k \in Kind
      PROVE  CcDecrypt(cc[d], k) = Wanted(d, k)
  <2>1. want[d] \in Wish /\ Lazy(cc[d], want[d])
    BY <1>1 DEF IInv, Instances
  <2>2. cc[d].iv = want[d].stat /\ cc[d].sys = want[d].stat
        /\ (want[d].stat # None => cc[d].round = want[d].round)
    BY <2>1 DEF Lazy
  <2> QED
    BY <2>1, <2>2, WorkKeyOK DEF CcDecrypt, Wanted
<1>2. IInv => LazyKeysRight
  BY <1>1 DEF LazyKeysRight
<1> QED BY <1>2, Inductive, PTL

(* multi2.c does so as well, with its tables too, as long as no other      *)
(* instruction type was selected since the instance was made and the       *)
(* kernels' number of rounds is the one asked for.                         *)
THEOREM EagerRight == Spec => []EagerKeysRight
<1>1. ASSUME IInv, NEW d \in Live, NEW k \in Kind, want[d].ours,
             c[d].decrypt = "simd" => want[d].round = DefaultRound
      PROVE  Decrypt(c[d], k) = Wanted(d, k)
  <2> DEFINE m == c[d]
             w == want[d]
  <2>1. Eager(m, w, instruction, supported)
    BY <1>1 DEF IInv, Instances
  <2> HIDE DEF m, w
  <2>2. CASE w.stat = None
    BY <2>1, <2>2 DEF Eager, Decrypt, Wanted, m, w
  <2>3. CASE w.stat # None /\ w.key = None
    BY <2>1, <2>3 DEF Eager, Decrypt, Wanted, m, w
  <2>4. CASE w.stat # None /\ w.key # None
    <3>1. /\ {"cbc", "sys", "scr"} \subseteq m.state /\ m.cbc = w.stat /\ m.round = w.round
          /\ m.wrk[k] = Schedule(w.stat, w.key[k]) /\ m.decrypt \in {"plain", "simd"}
      BY <2>1, <2>4 DEF Eager, Instance
    <3>2. m.decrypt = "simd" => /\ m.simd.wrk[k] = [wide |-> Wide(instruction), key |-> m.wrk[k]]
                                /\ m.simd.kernel = instruction
      BY <1>1, <2>1, <2>4 DEF Eager, w
    <3>3. Wanted(d, k) = Text(m.wrk[k], m.wrk[k], m.cbc, w.round)
      BY <2>4, <3>1 DEF Wanted, w
    <3>4. CASE m.decrypt = "plain"
      BY <3>1, <3>3, <3>4 DEF Decrypt, m
    <3>5. CASE m.decrypt = "simd"
      <4>1. Decrypt(m, k) = LET p == m.simd.wrk[k]
                            IN  Text(IF p.wide = Wide(m.simd.kernel) THEN p.key ELSE Garbage,
                                     m.wrk[k], m.cbc, DefaultRound)
        BY <3>1, <3>5 DEF Decrypt
      <4>2. Decrypt(m, k) = Text(m.wrk[k], m.wrk[k], m.cbc, DefaultRound)
        BY <3>2, <3>5, <4>1
      <4>3. w.round = DefaultRound
        BY <1>1, <3>5 DEF m, w
      <4> QED
        BY <3>3, <4>2, <4>3 DEF m
    <3> QED
      BY <3>1, <3>4, <3>5
  <2> QED
    BY <2>2, <2>3, <2>4
<1>2. IInv => EagerKeysRight
  BY <1>1 DEF EagerKeysRight
<1> QED BY <1>2, Inductive, PTL

=============================================================================
