------------------------------- MODULE Multi2 -------------------------------
(***************************************************************************)
(* The keys of MULTI2: src/aribb25/multi2.c with its SIMD tables (built    *)
(* with ENABLE_MULTI2_SIMD) and src/aribb25/multi2.cc (built otherwise),   *)
(* both driven by the calls proc_ecm and decrypt of arib_std_b25.c make.   *)
(*                                                                         *)
(* A work key is named by what core_schedule made it from.  c and cc hold  *)
(* the instance of each decryptor in either build.                         *)
(***************************************************************************)
EXTENDS Integers

CONSTANTS
  Decryptor,
  Status,     \* what cards give as system key and initial CBC
  DataKey,    \* halves of a scramble key
  Supports,   \* instruction types a processor may support at best
  Modes,      \* and those asked for: 0 none, 1 SSE2, 2 SSSE3, 3 AVX2
  Rounds,     \* numbers of rounds asked for
  None, Zero, Garbage

DefaultRound == 4

Kind == {"odd", "even"}
ScrambleKey == [Kind -> DataKey]

WorkKey == [sys : Status \cup {Zero}, data : DataKey] \cup {Zero}
Tables == [kernel : 1..3, wrk : [Kind -> [wide : BOOLEAN, key : WorkKey \cup {Garbage}]]]
Wish == [stat : Status \cup {None}, key : ScrambleKey \cup {None}, round : Nat, ours : BOOLEAN]

ASSUME Multi2Assumption ==
  /\ Modes \subseteq 0..3 /\ Supports \subseteq 1..3 /\ Rounds \subseteq Nat
  /\ None \notin Status \cup DataKey
  /\ None \notin ScrambleKey \cup Tables \cup Wish \cup [sys : Status, data : DataKey]

VARIABLES
  supported,    \* get_supported_simd_instruction
  simd_mode, multi2_round,  \* settings of the decoder
  instruction,  \* the instruction type in use, global
  c, cc,        \* the instances, or None
  want          \* history: what each was given, and whether the instruction
                \* type has stayed the one it was made under

settings == <<supported, simd_mode, multi2_round>>
vars == <<settings, instruction, c, cc, want>>

Schedule(s, k) == [sys |-> s, data |-> k]

\* How decrypt ends: with an error, or with what it used for the whole blocks
\* of a payload and for what is left over.
Unset(what) == [unset |-> what]
Text(body, tail, cbc, round) == [body |-> body, tail |-> tail, cbc |-> cbc, round |-> round]

----------------------------------------------------------------------------
(* multi2.c                                                                *)

Create == [cbc |-> Zero, sys |-> Zero, wrk |-> [k \in Kind |-> Zero],
           round |-> DefaultRound, state |-> {}, simd |-> None, decrypt |-> "plain"]

SetRound(m, r) == [m EXCEPT !.round = r]
SetSystemKey(m, s) == [m EXCEPT !.sys = s, !.state = @ \cup {"sys"}]
SetInitCbc(m, s) == [m EXCEPT !.cbc = s, !.state = @ \cup {"cbc"}]

\* initialize_multi2_simd: the instruction type it selects
Selected(i) == IF i <= supported THEN i ELSE supported

\* set_simd on a new instance; the tables are to be had or not.
SetSimd(m, i, room) ==
  IF i # 0 /\ room
    THEN [m EXCEPT !.decrypt = "simd",
                   !.simd = [kernel |-> Selected(i),
                             wrk |-> [k \in Kind |-> [wide |-> FALSE, key |-> Garbage]]]]
    ELSE m

\* AVX2 has a layout of its own.
Wide(i) == i = 3

\* The tables are laid out for the instruction type in use at this moment.
SetScrambleKey(m, key, i) ==
  LET wrk == [k \in Kind |-> Schedule(m.sys, key[k])]
  IN  [m EXCEPT !.wrk = wrk, !.state = @ \cup {"scr"},
                !.simd = IF @ = None THEN None
                         ELSE [@ EXCEPT !.wrk = [k \in Kind |-> [wide |-> Wide(i), key |-> wrk[k]]]]]

\* Mutant of ClearScrambleKey: the bit in state stays.
ClearScrambleKeyOnly(m) == [m EXCEPT !.wrk = [k \in Kind |-> Zero]]

ClearScrambleKey(m) == [m EXCEPT !.wrk = [k \in Kind |-> Zero], !.state = @ \ {"scr"}]

\* decrypt_multi2, and decrypt_with_simd_multi2 with the kernels, which have
\* their own number of rounds
Decrypt(m, k) ==
  CASE "cbc" \notin m.state -> Unset("cbc")
    [] "cbc" \in m.state /\ "sys" \notin m.state -> Unset("system key")
    [] {"cbc", "sys"} \subseteq m.state /\ "scr" \notin m.state -> Unset("scramble key")
    [] OTHER ->
         IF m.decrypt = "plain" THEN Text(m.wrk[k], m.wrk[k], m.cbc, m.round)
         ELSE LET p == m.simd.wrk[k]
              IN  Text(IF p.wide = Wide(m.simd.kernel) THEN p.key ELSE Garbage,
                       m.wrk[k], m.cbc, DefaultRound)

----------------------------------------------------------------------------
(* multi2.cc: the work keys are made when they are needed.                 *)

CcCreate == [iv |-> None, sys |-> None, data |-> [k \in Kind |-> None],
             work |-> [k \in Kind |-> None], round |-> DefaultRound]

CcSetSystemKey(m, s) == [m EXCEPT !.sys = s]
CcSetIv(m, s) == [m EXCEPT !.iv = s]

\* Mutant of CcSetWorkKeys: when one half is the same, both work keys stay.
CcSetWorkKeysBoth(m, key) ==
  [m EXCEPT !.data = key,
            !.work = [k \in Kind |-> IF \E j \in Kind : m.data[j] = key[j] THEN @[k] ELSE None]]

\* A half that has not changed keeps its work key.
CcSetWorkKeys(m, key) ==
  [m EXCEPT !.data = key,
            !.work = [k \in Kind |-> IF m.data[k] = key[k] THEN @[k] ELSE None]]

CcClearWorkKeys(m) ==
  [m EXCEPT !.data = [k \in Kind |-> None], !.work = [k \in Kind |-> None]]

\* The work key decrypt finds or makes, or None
CcWorkKey(m, k) ==
  IF m.iv = None \/ m.work[k] # None \/ m.sys = None \/ m.data[k] = None
    THEN m.work[k] ELSE Schedule(m.sys, m.data[k])

CcDecrypt(m, k) ==
  CASE m.iv = None -> Unset("cbc")
    [] m.iv # None /\ CcWorkKey(m, k) # None ->
         Text(CcWorkKey(m, k), CcWorkKey(m, k), m.iv, m.round)
    [] OTHER -> IF m.sys = None THEN Unset("system key") ELSE Unset("scramble key")

----------------------------------------------------------------------------
Init ==
  /\ supported \in Supports
  /\ simd_mode = supported /\ multi2_round = DefaultRound
  /\ instruction = 0
  /\ c = [d \in Decryptor |-> None] /\ cc = c /\ want = c

\* set_simd_mode, set_multi2_round: for the instances to come
SetSimdMode(i) ==
  /\ simd_mode' = i
  /\ UNCHANGED <<supported, multi2_round, instruction, c, cc, want>>

SetMulti2Round(r) ==
  /\ multi2_round' = r
  /\ UNCHANGED <<supported, simd_mode, instruction, c, cc, want>>

\* proc_ecm makes an instance: known says whether get_init_status succeeds.
\* Without it the call ends there.
FirstKey(d, key, stat, room, known) ==
  /\ c[d] = None
  /\ instruction' = Selected(simd_mode)
  /\ LET m == SetSimd(Create, simd_mode, room)
         m1 == SetRound(SetInitCbc(SetSystemKey(m, stat), stat), multi2_round)
         n == [CcSetIv(CcSetSystemKey(CcCreate, stat), stat) EXCEPT !.round = multi2_round]
     IN  /\ c' = [c EXCEPT ![d] = IF known THEN SetScrambleKey(m1, key, instruction') ELSE m]
         /\ cc' = [cc EXCEPT ![d] = IF known THEN CcSetWorkKeys(n, key) ELSE CcCreate]
  /\ want' = [e \in Decryptor |->
                IF e = d
                  THEN [stat |-> IF known THEN stat ELSE None, key |-> IF known THEN key ELSE None,
                        round |-> multi2_round, ours |-> TRUE]
                ELSE IF want[e] = None \/ instruction' = instruction THEN want[e]
                ELSE [want[e] EXCEPT !.ours = FALSE]]
  /\ UNCHANGED settings

\* proc_ecm with an instance
NextKey(d, key) ==
  /\ c[d] # None
  /\ c' = [c EXCEPT ![d] = SetScrambleKey(@, key, instruction)]
  /\ cc' = [cc EXCEPT ![d] = CcSetWorkKeys(@, key)]
  /\ want' = [want EXCEPT ![d].key = key]
  /\ UNCHANGED <<settings, instruction>>

\* proc_ecm when the card fails
NoKey(d) ==
  /\ c[d] # None
  /\ c' = [c EXCEPT ![d] = ClearScrambleKey(@)]
  /\ cc' = [cc EXCEPT ![d] = CcClearWorkKeys(@)]
  /\ want' = [want EXCEPT ![d].key = None]
  /\ UNCHANGED <<settings, instruction>>

\* proc_ecm when the card refuses, and remove_decryptor
Release(d) ==
  /\ c[d] # None
  /\ c' = [c EXCEPT ![d] = None] /\ cc' = [cc EXCEPT ![d] = None]
  /\ want' = [want EXCEPT ![d] = None]
  /\ UNCHANGED <<settings, instruction>>

\* A scrambled packet is decrypted: only multi2.cc changes.
Use(d, k) ==
  /\ c[d] # None
  /\ cc' = [cc EXCEPT ![d].work[k] = CcWorkKey(cc[d], k)]
  /\ UNCHANGED <<settings, instruction, c, want>>

Next ==
  \/ \E i \in Modes : SetSimdMode(i)
  \/ \E r \in Rounds : SetMulti2Round(r)
  \/ \E d \in Decryptor :
       \/ \E key \in ScrambleKey, s \in Status, room, known \in BOOLEAN :
            FirstKey(d, key, s, room, known)
       \/ \E key \in ScrambleKey : NextKey(d, key)
       \/ NoKey(d) \/ Release(d)
       \/ \E k \in Kind : Use(d, k)

Spec == Init /\ [][Next]_vars

----------------------------------------------------------------------------
(* Properties. *)

Live == {d \in Decryptor : c[d] # None}

\* The state has the types its declarations give it, and no instruction is
\* selected that the processor lacks.
TypeOK ==
  /\ supported \in Supports /\ simd_mode \in 0..3 /\ instruction \in 0..supported
  /\ multi2_round \in Nat
  /\ \A d \in Live :
       /\ c[d] \in [cbc : Status \cup {Zero}, sys : Status \cup {Zero}, wrk : [Kind -> WorkKey],
                    round : Nat, state : SUBSET {"cbc", "sys", "scr"},
                    simd : Tables \cup {None}, decrypt : {"plain", "simd"}]
       /\ c[d].simd # None => c[d].simd.kernel <= supported
       /\ want[d] \in Wish

\* The SIMD entry is only called with tables (multi2.c:505).
TablesAllocated == \A d \in Live : c[d].decrypt = "simd" => c[d].simd # None

\* What decrypt has to use: the system key and initial CBC the instance was
\* made with, the scramble key set last, and nothing after a key was cleared.
Wanted(d, k) ==
  LET w == want[d]
  IN  IF w.stat = None THEN Unset("cbc")
      ELSE IF w.key = None THEN Unset("scramble key")
      ELSE Text(Schedule(w.stat, w.key[k]), Schedule(w.stat, w.key[k]), w.stat, w.round)

\* multi2.cc uses the right keys, work keys it has kept included.
LazyKeysRight == \A d \in Live, k \in Kind : CcDecrypt(cc[d], k) = Wanted(d, k)

\* So does multi2.c, with its tables too, as long as no other instruction type
\* was selected since the instance was made and the kernels' number of rounds
\* is the one asked for.
EagerKeysRight ==
  \A d \in Live, k \in Kind :
    want[d].ours /\ (c[d].decrypt = "simd" => want[d].round = DefaultRound)
      => Decrypt(c[d], k) = Wanted(d, k)
=============================================================================
