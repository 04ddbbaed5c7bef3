------------------------- MODULE CB25DecoderProofs -------------------------
(***************************************************************************)
(* The card objects, the pointers handed out and the retries of            *)
(* CB25Decoder, for any number of card objects, packets and any interval.  *)
(***************************************************************************)
EXTENDS CB25Decoder, FiniteSetTheorems, SequenceTheorems, WellFoundedInduction, TLAPS

\* A decoder of card c, whatever its buffers hold
Holds(b, c) == \E s, t : b = [card |-> c, in |-> s, done |-> t]

ObjectsInv ==
  /\ bcas \in Card \cup {None} /\ live = {bcas} \ {None}
  /\ Holds(b25, bcas) /\ (bcas = None => b25 = NoDecoder)

\* _errtime is set whenever a card that was made fails, and at other times too.
ClockInv ==
  /\ since \in -1..(Interval + 1)
  /\ waited \in 0..(Interval + 1) /\ lacked \in 0..(Interval + 1) /\ tries \in 0..1
  /\ since <= waited

WInv == ObjectsInv /\ ClockInv /\ HandedValid

LEMMA NoDecoderHolds == Holds(NoDecoder, None)
BY DEF Holds, NoDecoder

LEMMA HoldsCard == ASSUME NEW b, NEW c, Holds(b, c) PROVE b.card = c
BY DEF Holds

LEMMA NoneHeld == ASSUME ObjectsInv PROVE b25 = NoDecoder <=> bcas = None
BY HoldsCard DEF ObjectsInv, NoDecoder

\* put, get and flush leave a decoder its card.
LEMMA BuffersHold ==
  ASSUME NEW b, NEW c, Holds(b, c), NEW s, NEW t
  PROVE  /\ Holds([b EXCEPT !.in = s], c)
         /\ Holds([b EXCEPT !.done = t], c)
         /\ Holds([b EXCEPT !.in = s, !.done = t], c)
<1>1. PICK x, y : b = [card |-> c, in |-> x, done |-> y] BY DEF Holds
<1>2. [b EXCEPT !.in = s] = [card |-> c, in |-> s, done |-> y] BY <1>1
<1>3. [b EXCEPT !.done = t] = [card |-> c, in |-> x, done |-> t] BY <1>1
<1>4. [b EXCEPT !.in = s, !.done = t] = [card |-> c, in |-> s, done |-> t]
  <2>1. [b EXCEPT !.in = s, !.done = t] = [[b EXCEPT !.in = s] EXCEPT !.done = t] OBVIOUS
  <2>2. PICK e : e = [b EXCEPT !.in = s] OBVIOUS
  <2>3. e = [card |-> c, in |-> s, done |-> y] BY <1>2, <2>2
  <2>4. [e EXCEPT !.done = t] = [card |-> c, in |-> s, done |-> t] BY <2>3
  <2> QED BY <2>1, <2>2, <2>4
<1> QED BY <1>2, <1>3, <1>4 DEF Holds

LEMMA ProcessedHolds ==
  ASSUME NEW b, NEW c, Holds(b, c), NEW s, NEW k
  PROVE  Holds(Processed(b, s, k), c)
<1>1. PICK x, y : x = From(s, k + 1) /\ y = b.done \o Kept(SubSeq(s, 1, k)) OBVIOUS
<1>2. Processed(b, s, k) = [b EXCEPT !.in = x, !.done = y] BY <1>1 DEF Processed
<1>3. Holds([b EXCEPT !.in = x, !.done = y], c) BY BuffersHold
<1> QED BY <1>2, <1>3

LEMMA PutsHold ==
  ASSUME NEW b, NEW c, Holds(b, c), NEW new
  PROVE  /\ \A e \in Puts(b, new) : Holds(e, c)
         /\ \A e \in PutFails(b, new) : Holds(e, c)
         /\ \A e \in Flushes(b) : Holds(e, c)
<1>1. ASSUME NEW e \in Puts(b, new) PROVE Holds(e, c)
  <2>1. PICK s, k : e = Processed(b, s, k) BY DEF Puts
  <2> QED BY <2>1, ProcessedHolds
<1>2. ASSUME NEW e \in PutFails(b, new) PROVE Holds(e, c)
  <2>1. PICK s : e = [b EXCEPT !.in = s] BY DEF PutFails
  <2> QED BY <2>1, BuffersHold
<1>3. ASSUME NEW e \in Flushes(b) PROVE Holds(e, c)
  <2>1. PICK k : e = Processed(b, b.in, k) BY DEF Flushes
  <2> QED BY <2>1, ProcessedHolds
<1> QED BY <1>1, <1>2, <1>3

----------------------------------------------------------------------------
(* The objects.                                                            *)

\* Card c and its decoder e are the objects now.
LEMMA NowHeld ==
  ASSUME ObjectsInv, NEW c \in Card, bcas \in {c, None}, NEW e, Holds(e, c),
         bcas' = c, b25' = e, live' = live \cup {c}
  PROVE  ObjectsInv' /\ b25' # NoDecoder
<1>1. c # None BY WrapperAssumption
<1>2. e # NoDecoder BY <1>1, HoldsCard DEF NoDecoder
<1> QED BY <1>1, <1>2 DEF ObjectsInv

LEMMA NowGone ==
  ASSUME ObjectsInv, NEW c \in Card, bcas \in {c, None}, GiveUp(c)
  PROVE  ObjectsInv'
BY WrapperAssumption, NoDecoderHolds DEF ObjectsInv, GiveUp

LEMMA FreshHolds == ASSUME NEW c PROVE Holds(Registered(c), c)
BY DEF Holds, Registered

LEMMA InitializeObjects == ASSUME ObjectsInv, Initialize \/ Reset PROVE ObjectsInv'
<1>1. CASE Reset
  <2>1. UNCHANGED <<bcas, live>> /\ bcas # None
    BY <1>1, NoneHeld DEF Reset
  <2>2. Holds(b25', bcas)
    <3>1. PICK s : s = <<>> OBVIOUS
    <3>2. b25' = [b25 EXCEPT !.in = s, !.done = s] BY <1>1, <3>1 DEF Reset
    <3> QED BY <3>2, BuffersHold DEF ObjectsInv
  <2> QED BY <2>1, <2>2 DEF ObjectsInv
<1>2. CASE Fails
  <2>1. UNCHANGED objects BY <1>2 DEF Fails, NoCardObject, CardFails
  <2> QED BY <2>1 DEF objects, ObjectsInv
<1>3. CASE b25 = NoDecoder /\ Opens
  <2>1. PICK c \in Card : live' = live \cup {c} /\ bcas' = c /\ b25' = Registered(c)
    BY <1>3 DEF Opens
  <2>2. bcas = None BY <1>3, NoneHeld
  <2> QED BY <2>1, <2>2, FreshHolds, NowHeld
<1> QED BY <1>1, <1>2, <1>3 DEF Initialize

LEMMA DecodeObjects == ASSUME ObjectsInv, Decode PROVE ObjectsInv' /\ HandedValid'
<1>1. PICK c, new, d :
        /\ c \in Card /\ d = IF b25 = NoDecoder THEN Registered(c) ELSE b25
        /\ b25 # NoDecoder => c = bcas
        /\ \/ DecodeGets(c, d, new) \/ DecodeNoPat(c, d, new)
           \/ DecodeHeadError(c, d, new) \/ DecodeError(c, d, new)
  BY DEF Decode
<1>2. c \in Card /\ bcas \in {c, None} BY <1>1, NoneHeld
<1>3. Holds(d, c)
  <2>1. CASE b25 = NoDecoder BY <1>1, <2>1, FreshHolds
  <2>2. CASE b25 # NoDecoder BY <1>1, <2>2 DEF ObjectsInv
  <2> QED BY <2>1, <2>2
<1>4. CASE DecodeGets(c, d, new)
  <2>1. PICK e \in Puts(d, new) :
          /\ GoOn(c, Got(e)) /\ Hand([at |-> "dbuf", pk |-> e.done], new)
    BY <1>4 DEF DecodeGets
  <2>2. Holds(e, c) BY <1>3, PutsHold
  <2>3. Holds(Got(e), c) BY <2>2, BuffersHold DEF Got
  <2>4. ObjectsInv' /\ b25' # NoDecoder BY <1>2, <2>1, <2>3, NowHeld DEF GoOn
  <2>5. dst'.at = "dbuf" BY <2>1 DEF Hand
  <2> QED BY <2>4, <2>5 DEF HandedValid
<1>5. CASE DecodeNoPat(c, d, new)
  <2>1. PICK s : s = d.in \o new OBVIOUS
  <2>2. Holds([d EXCEPT !.in = s], c) BY <1>3, BuffersHold
  <2>3. GoOn(c, [d EXCEPT !.in = s]) BY <1>5, <2>1 DEF DecodeNoPat
  <2>4. ObjectsInv' BY <1>2, <2>2, <2>3, NowHeld DEF GoOn
  <2>5. dst'.at = "src" BY <1>5 DEF DecodeNoPat, Hand, Src
  <2> QED BY <2>4, <2>5 DEF HandedValid
<1>6. CASE DecodeHeadError(c, d, new)
  <2>1. GiveUp(c) /\ dst'.at = "src" BY <1>6 DEF DecodeHeadError, Hand, Src
  <2> QED BY <1>2, <2>1, NowGone DEF HandedValid
<1>7. CASE DecodeError(c, d, new)
  <2>1. PICK e \in PutFails(d, new) :
          /\ \/ Hand(Withdrawn(e, new), new)
             \/ Hand(Src(new), new)
          /\ GiveUp(c) \/ GoOn(c, [e EXCEPT !.in = <<>>])
    BY <1>7 DEF DecodeError
  <2>2. ObjectsInv'
    <3>1. Holds(e, c) BY <1>3, PutsHold
    <3>2. Holds([e EXCEPT !.in = <<>>], c) BY <3>1, BuffersHold
    <3>3. CASE GoOn(c, [e EXCEPT !.in = <<>>]) BY <1>2, <3>2, <3>3, NowHeld DEF GoOn
    <3> QED BY <1>2, <2>1, <3>3, NowGone
  <2>3. \/ dst'.at = "src"
        \/ dst'.at = "data" /\ data' = dst'.pk
    <3>1. PICK w : Hand(w, new) /\ w \in {Withdrawn(e, new), Src(new)} BY <2>1
    <3>2. w.at \in {"src", "data"} BY <3>1 DEF Withdrawn, Src
    <3> QED BY <3>1, <3>2 DEF Hand
  <2> QED BY <2>2, <2>3 DEF HandedValid
<1> QED BY <1>1, <1>4, <1>5, <1>6, <1>7

LEMMA FlushObjects == ASSUME ObjectsInv, Flush PROVE ObjectsInv'
<1>1. UNCHANGED <<bcas, live>> /\ bcas # None /\ Holds(b25, bcas)
  BY NoneHeld DEF Flush, ObjectsInv
<1>2. \E e \in Flushes(b25) : b25' = e \/ b25' = [b25 EXCEPT !.done = e.done] BY DEF Flush
<1>3. Holds(b25', bcas)
  <2> SUFFICES ASSUME NEW e, e \in Flushes(b25), b25' = [b25 EXCEPT !.done = e.done]
               PROVE  Holds(b25', bcas)
    BY <1>1, <1>2, PutsHold
  <2>1. PICK t : t = e.done OBVIOUS
  <2> QED BY <1>1, <2>1, BuffersHold
<1> QED BY <1>1, <1>3 DEF ObjectsInv

LEMMA NextObjects == ASSUME ObjectsInv, HandedValid, Next PROVE ObjectsInv' /\ HandedValid'
<1>1. CASE Initialize \/ Reset
  <2>1. dst' = Nothing BY <1>1 DEF Initialize, Reset
  <2> QED BY <1>1, <2>1, InitializeObjects DEF HandedValid, Nothing
<1>2. CASE DecodeWithout
  <2>1. UNCHANGED objects /\ dst'.at = "src"
    BY <1>2 DEF DecodeWithout, Fails, NoCardObject, CardFails, objects
  <2> QED BY <2>1 DEF objects, ObjectsInv, HandedValid
<1>3. CASE Flush
  <2>1. dst' = Nothing BY <1>3 DEF Flush
  <2> QED BY <1>3, <2>1, FlushObjects DEF HandedValid, Nothing
<1>4. CASE Release
  <2>1. /\ bcas' = None /\ b25' = NoDecoder /\ live' = live \ {bcas} /\ dst' = Nothing
    BY <1>4 DEF Release, Renewed
  <2> QED BY <2>1, NoDecoderHolds DEF ObjectsInv, HandedValid, Nothing
<1>5. CASE Tick
  BY <1>5 DEF Tick, objects, ObjectsInv, HandedValid
<1> QED BY <1>1, <1>2, <1>3, <1>4, <1>5, DecodeObjects DEF Next

----------------------------------------------------------------------------
(* The clock.                                                              *)

\* Decode makes an attempt only when _errtime is longer ago than the interval, and
\* no failure of a card that was made is older than _errtime.
LEMMA NextClock ==
  ASSUME ClockInv, Next
  PROVE  ClockInv' /\ (tries' # tries => waited > Interval)
<1>0. Interval \in Nat BY WrapperAssumption
<1>1. ASSUME UNCHANGED clocks, tries' = tries PROVE ClockInv'
  BY <1>1 DEF ClockInv, clocks
<1>2. ASSUME Fails, tries' \in 0..1 PROVE ClockInv'
  <2>1. \/ lacked' = 0 /\ UNCHANGED <<since, waited>>
        \/ since' = 0 /\ waited' = 0 /\ lacked' = lacked
    BY <1>2 DEF Fails, NoCardObject, CardFails
  <2> QED BY <1>0, <1>2, <2>1 DEF ClockInv
<1>3. CASE Initialize \/ Reset
  <2>1. tries' = tries /\ (Fails \/ UNCHANGED clocks)
    BY <1>3 DEF Initialize, Reset, Opens
  <2>2. tries' \in 0..1 BY <2>1 DEF ClockInv
  <2> QED BY <1>1, <1>2, <2>1, <2>2
<1>4. CASE DecodeWithout
  <2>1. CASE Due
    <3>1. Fails /\ tries' = 1 - tries BY <1>4, <2>1 DEF DecodeWithout
    <3>2. tries' \in 0..1 BY <3>1 DEF ClockInv
    <3> QED BY <1>0, <1>2, <2>1, <3>1, <3>2 DEF ClockInv, Due
  <2>2. CASE ~Due
    <3>1. UNCHANGED clocks /\ tries' = tries BY <1>4, <2>2 DEF DecodeWithout
    <3> QED BY <1>1, <3>1
  <2> QED BY <2>1, <2>2
<1>5. CASE Decode
  <2>1. PICK c, d, new : \/ DecodeGets(c, d, new) \/ DecodeNoPat(c, d, new)
                         \/ DecodeHeadError(c, d, new) \/ DecodeError(c, d, new)
    BY <1>5 DEF Decode
  <2>2. /\ \/ UNCHANGED <<since, waited>>
           \/ since' = 0 /\ waited' \in {waited, 0}
        /\ lacked' = lacked
    BY <2>1 DEF DecodeGets, DecodeNoPat, DecodeHeadError, DecodeError, clocks
  <2>3. /\ tries' = IF b25 = NoDecoder THEN 1 - tries ELSE tries
        /\ b25 = NoDecoder => Due
    BY <1>5 DEF Decode
  <2>4. tries' \in 0..1 BY <2>3 DEF ClockInv
  <2> QED BY <1>0, <2>2, <2>3, <2>4 DEF ClockInv, Due
<1>6. CASE Flush
  <2>1. UNCHANGED clocks /\ tries' = tries BY <1>6 DEF Flush
  <2> QED BY <1>1, <2>1
<1>7. CASE Release
  <2>1. /\ since' \in AnyTime /\ waited' = Interval + 1 /\ lacked' = Interval + 1
        /\ tries' = tries
    BY <1>7 DEF Release, Renewed
  <2> QED BY <1>0, <2>1 DEF ClockInv, AnyTime
<1>8. CASE Tick
  <2>1. /\ since' = Later(since) /\ waited' = Later(waited) /\ lacked' = Later(lacked)
        /\ tries' = tries
    BY <1>8 DEF Tick
  <2> QED BY <1>0, <2>1 DEF ClockInv, Later
<1> QED BY <1>3, <1>4, <1>5, <1>6, <1>7, <1>8 DEF Next

(* Induction.  The library has it with a predicate as a parameter; here it *)
(* is stated with sets, and comes from the order of finite sets.           *)

Below(n) == 0..(n - 1)

\* A set of numbers that is not empty has a least element.
LEMMA LeastNat ==
  ASSUME NEW T, T \subseteq Nat, T # {}
  PROVE  \E x \in T : \A y \in T : x <= y
<1> DEFINE B == {Below(n) : n \in T}
<1>1. B \subseteq FiniteSubsetsOf(Nat)
  <2>1. SUFFICES ASSUME NEW n \in T PROVE Below(n) \in FiniteSubsetsOf(Nat)
    OBVIOUS
  <2>2. n \in Nat OBVIOUS
  <2>3. IsFiniteSet(Below(n)) BY <2>2, FS_Interval DEF Below
  <2>4. Below(n) \subseteq Nat BY <2>2 DEF Below
  <2> QED BY <2>3, <2>4 DEF FiniteSubsetsOf
<1>2. B # {} OBVIOUS
<1>3. PICK b \in B : \A y \in B : ~(<<y, b>> \in StrictSubsetOrdering(Nat))
  <2> HIDE DEF B
  <2>1. IsWellFoundedOn(StrictSubsetOrdering(Nat), FiniteSubsetsOf(Nat))
    BY FS_StrictSubsetOrderingWellFounded
  <2> QED BY <1>1, <1>2, <2>1, WFMin
<1>4. PICK x \in T : b = Below(x) OBVIOUS
<1>5. ASSUME NEW y \in T PROVE x <= y
  <2>1. x \in Nat /\ y \in Nat OBVIOUS
  <2>2. SUFFICES ASSUME y < x PROVE FALSE BY <2>1
  <2>3. Below(y) \subseteq Below(x) BY <2>1, <2>2 DEF Below
  <2>4. y \in Below(x) /\ y \notin Below(y) BY <2>1, <2>2 DEF Below
  <2>5. Below(y) # Below(x) BY <2>4
  <2>6. Below(y) \subseteq Nat /\ Below(x) \subseteq Nat BY <2>1 DEF Below
  <2>7. <<Below(y), b>> \in StrictSubsetOrdering(Nat)
    BY <2>3, <2>5, <2>6, <1>4 DEF StrictSubsetOrdering
  <2> QED BY <2>7, <1>3
<1> QED BY <1>5

\* A set that has 0, and with each number the next one, has all.
LEMMA Upward ==
  ASSUME NEW T, 0 \in T, \A n \in Nat : n \in T => n + 1 \in T
  PROVE  Nat \subseteq T
<1> SUFFICES ASSUME Nat \ T # {} PROVE FALSE OBVIOUS
<1>1. PICK x \in Nat \ T : \A y \in Nat \ T : x <= y BY LeastNat
<1>2. x # 0 OBVIOUS
<1>3. x - 1 \in Nat /\ ~(x <= x - 1) BY <1>1, <1>2
<1>4. x - 1 \in T BY <1>1, <1>3
<1>5. (x - 1) + 1 \in T BY <1>3, <1>4
<1> QED BY <1>1, <1>5

----------------------------------------------------------------------------
(* Sequences of packets                                                    *)

LEMMA PacketsIn ==
  ASSUME NEW S, NEW s \in Seq(S)
  PROVE  Packets(s) \subseteq S
BY DEF Packets

LEMMA PacketsJoined ==
  ASSUME NEW S, NEW s \in Seq(S), NEW t \in Seq(S)
  PROVE  s \o t \in Seq(S) /\ Packets(s \o t) = Packets(s) \cup Packets(t)
<1>1. PICK u \in Seq(S) : u = s \o t BY ConcatProperties
<1>2. /\ Len(u) = Len(s) + Len(t) /\ Len(s) \in Nat /\ Len(t) \in Nat
      /\ \A i \in 1..(Len(s) + Len(t)) : u[i] = IF i <= Len(s) THEN s[i] ELSE t[i - Len(s)]
  BY <1>1, ConcatProperties
<1>3. ASSUME NEW i \in 1..Len(u) PROVE u[i] \in Packets(s) \cup Packets(t)
  <2>1. CASE i <= Len(s)
    <3>1. i \in 1..Len(s) /\ u[i] = s[i] BY <1>2, <2>1
    <3> QED BY <3>1 DEF Packets
  <2>2. CASE i > Len(s)
    <3>1. i - Len(s) \in 1..Len(t) /\ u[i] = t[i - Len(s)] BY <1>2, <2>2
    <3> QED BY <3>1 DEF Packets
  <2> QED BY <1>2, <2>1, <2>2
<1>4. ASSUME NEW i \in 1..Len(s) PROVE s[i] \in Packets(u)
  <2>1. i \in 1..Len(u) /\ u[i] = s[i] BY <1>2
  <2> QED BY <2>1 DEF Packets
<1>5. ASSUME NEW i \in 1..Len(t) PROVE t[i] \in Packets(u)
  <2>1. PICK k \in 1..Len(u) : k = Len(s) + i BY <1>2
  <2>2. ~(k <= Len(s)) /\ k - Len(s) = i BY <1>2, <2>1
  <2>3. u[k] = t[i] BY <1>2, <2>1, <2>2
  <2> QED BY <2>3 DEF Packets
<1>6. Packets(u) = Packets(s) \cup Packets(t) BY <1>3, <1>4, <1>5 DEF Packets
<1> QED BY <1>1, <1>6

Distinct(s) == \A i, j \in 1..Len(s) : i # j => s[i] # s[j]

LEMMA DistinctJoined ==
  ASSUME NEW S, NEW s \in Seq(S), NEW t \in Seq(S), Distinct(s), Distinct(t),
         Packets(s) \cap Packets(t) = {}
  PROVE  Distinct(s \o t)
<1>1. PICK u \in Seq(S) : u = s \o t BY ConcatProperties
<1>2. /\ Len(u) = Len(s) + Len(t) /\ Len(s) \in Nat /\ Len(t) \in Nat
      /\ \A i \in 1..(Len(s) + Len(t)) : u[i] = IF i <= Len(s) THEN s[i] ELSE t[i - Len(s)]
  BY <1>1, ConcatProperties
<1>3. ASSUME NEW i \in 1..Len(u)
      PROVE  \/ i \in 1..Len(s) /\ u[i] = s[i] /\ u[i] \in Packets(s)
             \/ i - Len(s) \in 1..Len(t) /\ u[i] = t[i - Len(s)] /\ u[i] \in Packets(t)
  BY <1>2 DEF Packets
<1>4. ASSUME NEW i \in 1..Len(u), NEW j \in 1..Len(u), i # j PROVE u[i] # u[j]
  <2>1. CASE i \in 1..Len(s) /\ j \in 1..Len(s)
    <3>1. s[i] # s[j] BY <1>4, <2>1 DEF Distinct
    <3> QED BY <1>2, <2>1, <3>1
  <2>2. CASE i \in 1..Len(s) /\ j \notin 1..Len(s) BY <1>3, <2>2
  <2>3. CASE i \notin 1..Len(s) /\ j \in 1..Len(s) BY <1>3, <2>3
  <2>4. CASE i \notin 1..Len(s) /\ j \notin 1..Len(s)
    <3>1. PICK x \in 1..Len(t), y \in 1..Len(t) :
            x = i - Len(s) /\ y = j - Len(s) /\ u[i] = t[x] /\ u[j] = t[y]
      BY <1>3, <2>4
    <3>2. x # y BY <1>2, <1>4, <3>1
    <3> QED BY <3>1, <3>2 DEF Distinct
  <2> QED BY <2>1, <2>2, <2>3, <2>4
<1> QED BY <1>1, <1>4 DEF Distinct

\* A sequence cut behind element k
LEMMA CutIs ==
  ASSUME NEW S, NEW s \in Seq(S), NEW k \in 0..Len(s)
  PROVE  /\ SubSeq(s, 1, k) \in Seq(S) /\ Packets(SubSeq(s, 1, k)) \subseteq Packets(s)
         /\ From(s, k + 1) \in Seq(S) /\ Packets(From(s, k + 1)) \subseteq Packets(s)
         /\ Distinct(s) => /\ Distinct(From(s, k + 1))
                           /\ Packets(SubSeq(s, 1, k)) \cap Packets(From(s, k + 1)) = {}
<1>0. Len(s) \in Nat /\ k \in Nat /\ k <= Len(s) OBVIOUS
<1>1. PICK a : a = SubSeq(s, 1, k) OBVIOUS
<1>2. PICK b : b = From(s, k + 1) OBVIOUS
<1>3. \A i \in 1..Len(s) : s[i] \in S OBVIOUS
<1>4. /\ a \in Seq(S) /\ Len(a) = k /\ \A i \in 1..k : a[i] = s[i]
  <2>1. \A i \in 1..k : s[i] \in S BY <1>0, <1>3
  <2>2. /\ SubSeq(s, 1, k) \in Seq(S)
        /\ Len(SubSeq(s, 1, k)) = IF 1 <= k THEN k - 1 + 1 ELSE 0
        /\ \A i \in 1..(k - 1 + 1) : SubSeq(s, 1, k)[i] = s[1 + i - 1]
    BY <1>0, <2>1, SubSeqProperties
  <2> QED BY <1>0, <1>1, <2>2
<1>5. /\ b \in Seq(S) /\ Len(b) = Len(s) - k /\ \A i \in 1..(Len(s) - k) : b[i] = s[k + i]
  <2>1. \A i \in (k + 1)..Len(s) : s[i] \in S BY <1>0, <1>3
  <2>2. /\ SubSeq(s, k + 1, Len(s)) \in Seq(S)
        /\ Len(SubSeq(s, k + 1, Len(s))) = IF k + 1 <= Len(s) THEN Len(s) - (k + 1) + 1 ELSE 0
        /\ \A i \in 1..(Len(s) - (k + 1) + 1) : SubSeq(s, k + 1, Len(s))[i] = s[k + 1 + i - 1]
    BY <1>0, <2>1, SubSeqProperties
  <2> QED BY <1>0, <1>2, <2>2 DEF From
<1>6. ASSUME NEW i \in 1..Len(a) PROVE a[i] = s[i] /\ i \in 1..Len(s)
  BY <1>0, <1>4
<1>7. ASSUME NEW i \in 1..Len(b) PROVE b[i] = s[k + i] /\ k + i \in 1..Len(s)
  BY <1>0, <1>5
<1>8. Packets(a) \subseteq Packets(s) BY <1>6 DEF Packets
<1>9. Packets(b) \subseteq Packets(s) BY <1>7 DEF Packets
<1>10. ASSUME Distinct(s)
       PROVE  Distinct(b) /\ Packets(a) \cap Packets(b) = {}
  <2>1. ASSUME NEW i \in 1..Len(b), NEW j \in 1..Len(b), i # j PROVE b[i] # b[j]
    <3>1. k + i # k + j BY <1>0, <1>5, <2>1
    <3> QED BY <1>7, <1>10, <3>1 DEF Distinct
  <2>2. ASSUME NEW i \in 1..Len(a), NEW j \in 1..Len(b) PROVE a[i] # b[j]
    <3>1. i # k + j BY <1>0, <1>4, <1>5
    <3> QED BY <1>6, <1>7, <1>10, <3>1 DEF Distinct
  <2> QED BY <2>1, <2>2 DEF Distinct, Packets
<1> QED BY <1>1, <1>2, <1>4, <1>5, <1>8, <1>9, <1>10

\* s with one packet more, unless that is stripped
Taken(t, x) == IF x \in Nulls THEN t ELSE Append(t, x)

\* f[i] is what is kept of the first i packets of s.
Keeps(f, s, n) == f[0] = <<>> /\ \A i \in 1..n : f[i] = Taken(f[i - 1], s[i])

\* set_strip(1) only takes packets out.
LEMMA KeptIs ==
  ASSUME NEW S, NEW s \in Seq(S)
  PROVE  Kept(s) \in Seq(S) /\ Packets(Kept(s)) \subseteq Packets(s)
<1> DEFINE V == {t \in Seq(S) : Packets(t) \subseteq Packets(s)}
<1>0. Len(s) \in Nat OBVIOUS
<1>1. ASSUME NEW t \in V, NEW i \in 1..Len(s) PROVE Taken(t, s[i]) \in V
  <2>1. CASE s[i] \in Nulls BY <2>1 DEF Taken
  <2>2. CASE s[i] \notin Nulls
    <3>1. s[i] \in S /\ s[i] \in Packets(s) BY DEF Packets
    <3>2. PICK u : u = Append(t, s[i]) OBVIOUS
    <3>3. /\ u \in Seq(S) /\ Len(u) = Len(t) + 1 /\ Len(t) \in Nat
          /\ \A j \in 1..(Len(t) + 1) : u[j] = IF j <= Len(t) THEN t[j] ELSE s[i]
      BY <3>1, <3>2
    <3>4. ASSUME NEW j \in 1..Len(u) PROVE u[j] \in Packets(s)
      <4>1. CASE j <= Len(t)
        <5>1. j \in 1..Len(t) /\ u[j] = t[j] BY <3>3, <4>1
        <5>2. t[j] \in Packets(t) BY <5>1 DEF Packets
        <5> QED BY <5>1, <5>2
      <4>2. CASE j > Len(t) BY <3>1, <3>3, <4>2
      <4> QED BY <3>3, <4>1, <4>2
    <3>5. u \in V BY <3>3, <3>4 DEF Packets
    <3> QED BY <2>2, <3>2, <3>5 DEF Taken
  <2> QED BY <2>1, <2>2
<1>2. <<>> \in V
  <2>1. <<>> \in Seq(S) /\ Packets(<<>>) = {} BY DEF Packets
  <2> QED BY <2>1
<1> HIDE DEF V
<1> DEFINE T == {n \in Nat : n <= Len(s) => \E f \in [0..n -> V] : Keeps(f, s, n)}
<1>3. 0 \in T
  <2>1. PICK f \in [0..0 -> V] : f[0] = <<>>
    <3>1. [i \in 0..0 |-> <<>>] \in [0..0 -> V] BY <1>2
    <3>2. [i \in 0..0 |-> <<>>][0] = <<>> OBVIOUS
    <3> QED BY <3>1, <3>2
  <2>2. Keeps(f, s, 0) BY <2>1 DEF Keeps
  <2> QED BY <2>2
<1>4. ASSUME NEW n \in Nat, n \in T PROVE n + 1 \in T
  <2> SUFFICES ASSUME n + 1 <= Len(s) PROVE \E f \in [0..(n + 1) -> V] : Keeps(f, s, n + 1)
    OBVIOUS
  <2>1. PICK f \in [0..n -> V] : Keeps(f, s, n) BY <1>0, <1>4
  <2>2. PICK v \in V : v = Taken(f[n], s[n + 1])
    <3>1. f[n] \in V /\ n + 1 \in 1..Len(s) BY <1>0, <2>1
    <3> QED BY <1>1, <3>1
  <2>3. PICK g \in [0..(n + 1) -> V] :
          g[n + 1] = v /\ \A i \in 0..n : g[i] = f[i]
    <3>1. PICK g : g = [i \in 0..(n + 1) |-> IF i = n + 1 THEN v ELSE f[i]] OBVIOUS
    <3>2. \A i \in 0..(n + 1) : (IF i = n + 1 THEN v ELSE f[i]) \in V BY <2>1
    <3>3. g \in [0..(n + 1) -> V] BY <3>1, <3>2
    <3> QED BY <3>1, <3>3
  <2>4. ASSUME NEW i \in 1..(n + 1) PROVE g[i] = Taken(g[i - 1], s[i])
    <3>1. CASE i = n + 1
      <4>1. g[n] = f[n] /\ i - 1 = n BY <2>3, <3>1
      <4> QED BY <2>2, <2>3, <3>1, <4>1
    <3>2. CASE i # n + 1
      <4>1. i \in 1..n /\ i \in 0..n /\ i - 1 \in 0..n BY <3>2
      <4>2. f[i] = Taken(f[i - 1], s[i]) BY <2>1, <4>1 DEF Keeps
      <4> QED BY <2>3, <4>1, <4>2
    <3> QED BY <3>1, <3>2
  <2>5. g[0] = <<>> BY <2>1, <2>3 DEF Keeps
  <2>6. Keeps(g, s, n + 1) BY <2>4, <2>5 DEF Keeps
  <2> QED BY <2>6
<1>5. Nat \subseteq T
  <2>1. \A n \in Nat : n \in T => n + 1 \in T BY <1>4
  <2> HIDE DEF T
  <2> QED BY <1>3, <2>1, Upward
<1>6. PICK f \in [0..Len(s) -> V] : Keeps(f, s, Len(s)) BY <1>0, <1>5
<1> DEFINE Body(K) == [n \in 0..Len(s) |->
                         IF n = 0 THEN <<>>
                         ELSE IF s[n] \in Nulls THEN K[n - 1] ELSE Append(K[n - 1], s[n])]
           K == CHOOSE g : g = Body(g)
<1>7. f = Body(f)
  <2>1. ASSUME NEW n \in 0..Len(s)
        PROVE  f[n] = IF n = 0 THEN <<>>
                      ELSE IF s[n] \in Nulls THEN f[n - 1] ELSE Append(f[n - 1], s[n])
    <3>1. CASE n = 0 BY <1>6, <3>1 DEF Keeps
    <3>2. CASE n # 0
      <4>1. n \in 1..Len(s) BY <1>0, <3>2
      <4>2. f[n] = Taken(f[n - 1], s[n]) BY <1>6, <4>1 DEF Keeps
      <4> QED BY <3>2, <4>2 DEF Taken
    <3> QED BY <3>1, <3>2
  <2> QED BY <1>6, <2>1
<1>8. K = Body(K) BY <1>7
<1>9. Kept(s) = K[Len(s)] BY DEF Kept
<1>10. \A n \in 0..Len(s) :
         K[n] = IF n = 0 THEN <<>>
                ELSE IF s[n] \in Nulls THEN K[n - 1] ELSE Append(K[n - 1], s[n])
  <2> HIDE DEF K
  <2>1. PICK g : g = K OBVIOUS
  <2>2. g = Body(g) BY <1>8, <2>1
  <2> QED BY <2>1, <2>2
<1> HIDE DEF K
<1> DEFINE W == {n \in Nat : n <= Len(s) => K[n] \in V}
<1>11. 0 \in W BY <1>0, <1>2, <1>10
<1>12. ASSUME NEW n \in Nat, n \in W PROVE n + 1 \in W
  <2> SUFFICES ASSUME n + 1 <= Len(s) PROVE K[n + 1] \in V OBVIOUS
  <2>1. K[n] \in V /\ n + 1 \in 1..Len(s) /\ n + 1 \in 0..Len(s) /\ n + 1 # 0
        /\ (n + 1) - 1 = n
    BY <1>0, <1>12
  <2>2. K[n + 1] = Taken(K[n], s[n + 1]) BY <1>10, <2>1 DEF Taken
  <2> QED BY <1>1, <2>1, <2>2
<1>13. Nat \subseteq W
  <2>1. \A n \in Nat : n \in W => n + 1 \in W BY <1>12
  <2> HIDE DEF W
  <2> QED BY <1>11, <2>1, Upward
<1>14. Kept(s) \in V BY <1>0, <1>9, <1>13
<1> QED BY <1>14 DEF V

----------------------------------------------------------------------------
(* The buffers.                                                            *)

\* The decoder's packets have numbers up to n.
Typed(d, n) == d.in \in Seq(1..n) /\ d.done \in Seq(1..n)

\* None of them is in both buffers, nor twice in the first, nor has come out.
Once(d, P) ==
  /\ Distinct(d.in)
  /\ Packets(d.in) \cap Packets(d.done) = {}
  /\ Buffered(d) \cap P = {}

QueueInv ==
  /\ next \in 1..(Total + 1) /\ Typed(b25, next - 1)
  /\ processed \subseteq 1..(next - 1)
  /\ data # None => Packets(data) \subseteq Given
  /\ dst.at \in {"none", "src", "dbuf", "data"} /\ Packets(dst.pk) \subseteq Given
  /\ stamped \in BOOLEAN /\ torn \in BOOLEAN
  /\ b25 = NoDecoder => ~torn

OnceInv == ~torn => Once(b25, processed)

LEMMA Buffers ==
  ASSUME NEW c, NEW d, Holds(d, c), NEW s, NEW t
  PROVE  /\ [d EXCEPT !.in = s].in = s /\ [d EXCEPT !.in = s].done = d.done
         /\ [d EXCEPT !.done = t].in = d.in /\ [d EXCEPT !.done = t].done = t
         /\ [d EXCEPT !.in = s, !.done = t].in = s /\ [d EXCEPT !.in = s, !.done = t].done = t
<1>1. PICK x, y : d = [card |-> c, in |-> x, done |-> y] BY DEF Holds
<1>2. [d EXCEPT !.in = s] = [card |-> c, in |-> s, done |-> y] BY <1>1
<1>3. [d EXCEPT !.done = t] = [card |-> c, in |-> x, done |-> t] BY <1>1
<1>4. [d EXCEPT !.in = s, !.done = t] = [card |-> c, in |-> s, done |-> t]
  <2>1. [d EXCEPT !.in = s, !.done = t] = [[d EXCEPT !.in = s] EXCEPT !.done = t] OBVIOUS
  <2>2. PICK e : e = [d EXCEPT !.in = s] OBVIOUS
  <2>3. e = [card |-> c, in |-> s, done |-> y] BY <1>2, <2>2
  <2>4. [e EXCEPT !.done = t] = [card |-> c, in |-> s, done |-> t] BY <2>3
  <2> QED BY <2>1, <2>2, <2>4
<1> QED BY <1>1, <1>2, <1>3, <1>4

\* The first k packets of s have been processed.
LEMMA ProcessedIs ==
  ASSUME NEW c, NEW d, Holds(d, c), NEW n \in Nat, d.done \in Seq(1..n),
         NEW s \in Seq(1..n), NEW k \in 0..Len(s), NEW e, e = Processed(d, s, k)
  PROVE  /\ Typed(e, n)
         /\ Packets(e.in) \subseteq Packets(s)
         /\ Packets(e.done) \subseteq Packets(d.done) \cup Packets(s)
         /\ Packets(d.done) \subseteq Packets(e.done)
         /\ Distinct(s) /\ Packets(s) \cap Packets(d.done) = {} =>
              Distinct(e.in) /\ Packets(e.in) \cap Packets(e.done) = {}
<1>1. PICK a : a = SubSeq(s, 1, k) OBVIOUS
<1>2. PICK b : b = Kept(a) OBVIOUS
<1>3. PICK x : x = From(s, k + 1) OBVIOUS
<1>4. e.in = x /\ e.done = d.done \o b
  <2>1. PICK y : y = d.done \o b OBVIOUS
  <2>2. e = [d EXCEPT !.in = x, !.done = y] BY <1>1, <1>2, <1>3, <2>1 DEF Processed
  <2> QED BY <2>1, <2>2, Buffers
<1>5. /\ a \in Seq(1..n) /\ Packets(a) \subseteq Packets(s)
      /\ x \in Seq(1..n) /\ Packets(x) \subseteq Packets(s)
      /\ Distinct(s) => Distinct(x) /\ Packets(a) \cap Packets(x) = {}
  BY <1>1, <1>3, CutIs
<1>6. b \in Seq(1..n) /\ Packets(b) \subseteq Packets(a) BY <1>2, <1>5, KeptIs
<1>7. d.done \o b \in Seq(1..n) /\ Packets(d.done \o b) = Packets(d.done) \cup Packets(b)
  BY <1>6, PacketsJoined
<1> QED BY <1>4, <1>5, <1>6, <1>7 DEF Typed

\* The packets of one call
LEMMA NewIs ==
  ASSUME NEW p \in Nat \ {0}, NEW n \in Nat
  PROVE  LET new == [i \in 1..n |-> p + i - 1]
         IN  /\ new \in Seq(1..(p + n - 1)) /\ Len(new) = n
             /\ Packets(new) = p..(p + n - 1) /\ Distinct(new)
<1>1. PICK new : new = [i \in 1..n |-> p + i - 1] OBVIOUS
<1>2. \A i \in 1..n : p + i - 1 \in p..(p + n - 1) OBVIOUS
<1>3. new \in Seq(1..(p + n - 1)) /\ Len(new) = n /\ \A i \in 1..n : new[i] = p + i - 1
  BY <1>1, <1>2
<1>4. ASSUME NEW x \in p..(p + n - 1) PROVE x \in Packets(new)
  <2>1. x - p + 1 \in 1..n /\ p + (x - p + 1) - 1 = x OBVIOUS
  <2>2. new[x - p + 1] = x BY <1>3, <2>1
  <2> QED BY <1>3, <2>1, <2>2 DEF Packets
<1>5. Packets(new) = p..(p + n - 1) BY <1>2, <1>3, <1>4 DEF Packets
<1>6. Distinct(new) BY <1>3 DEF Distinct
<1> QED BY <1>1, <1>3, <1>5, <1>6

\* What a search has left is from a packet on.
LEMMA LeftIs ==
  ASSUME NEW S, NEW all \in Seq(S), NEW s \in Left(all)
  PROVE  /\ s \in Seq(S) /\ Packets(s) \subseteq Packets(all)
         /\ Distinct(all) => Distinct(s)
<1>1. PICK j \in 1..Len(all) : s = From(all, j) BY DEF Left
<1>2. PICK k \in 0..Len(all) : j = k + 1
  <2>1. Len(all) \in Nat OBVIOUS
  <2>2. j - 1 \in 0..Len(all) /\ j = (j - 1) + 1 BY <2>1
  <2> QED BY <2>2
<1> QED BY <1>1, <1>2, CutIs

\* d with the packets of a call
Filled(d, n, all) ==
  /\ all \in Seq(1..n) /\ Packets(all) \cap Packets(d.done) = {} /\ Distinct(all)

LEMMA PutsAre ==
  ASSUME NEW c, NEW d, Holds(d, c), NEW n \in Nat, d.done \in Seq(1..n), NEW new,
         d.in \o new \in Seq(1..n), NEW e \in Puts(d, new)
  PROVE  /\ Typed(e, n) /\ Buffered(e) \subseteq Buffered(d) \cup Packets(d.in \o new)
         /\ Distinct(d.in \o new) /\ Packets(d.in \o new) \cap Packets(d.done) = {} =>
              Distinct(e.in) /\ Packets(e.in) \cap Packets(e.done) = {}
<1>1. PICK all \in Seq(1..n) : all = d.in \o new OBVIOUS
<1>2. PICK s \in Left(all) : \E k \in 0..(Len(s) - 1) : e = Processed(d, s, k)
  BY <1>1 DEF Puts
<1>3. /\ s \in Seq(1..n) /\ Packets(s) \subseteq Packets(all)
      /\ Distinct(all) => Distinct(s)
  BY LeftIs
<1>4. PICK k \in 0..Len(s) : e = Processed(d, s, k)
  <2>1. Len(s) \in Nat BY <1>3
  <2>2. 0..(Len(s) - 1) \subseteq 0..Len(s) BY <2>1
  <2> QED BY <1>2, <2>2
<1>5. /\ Typed(e, n)
      /\ Packets(e.in) \subseteq Packets(s)
      /\ Packets(e.done) \subseteq Packets(d.done) \cup Packets(s)
      /\ Distinct(s) /\ Packets(s) \cap Packets(d.done) = {} =>
           Distinct(e.in) /\ Packets(e.in) \cap Packets(e.done) = {}
  BY <1>3, <1>4, ProcessedIs
<1>6. Buffered(e) \subseteq Buffered(d) \cup Packets(d.in \o new)
  BY <1>1, <1>3, <1>5 DEF Buffered
<1>7. Distinct(d.in \o new) /\ Packets(d.in \o new) \cap Packets(d.done) = {} =>
        Distinct(e.in) /\ Packets(e.in) \cap Packets(e.done) = {}
  BY <1>1, <1>3, <1>5
<1> QED BY <1>5, <1>6, <1>7

LEMMA PutFailsAre ==
  ASSUME NEW c, NEW d, Holds(d, c), NEW n \in Nat, NEW new,
         d.in \in Seq(1..n), d.in \o new \in Seq(1..n), NEW e \in PutFails(d, new)
  PROVE  /\ e.in \in Seq(0..n) /\ Packets(e.in) \subseteq {0} \cup Packets(d.in \o new)
         /\ e.done = d.done
<1>1. PICK all \in Seq(1..n) : all = d.in \o new OBVIOUS
<1>2. PICK s \in Left(all) :
        \/ e = [d EXCEPT !.in = s]
        \/ e = [d EXCEPT !.in = [i \in 1..Len(d.in) |-> IF i <= Len(s) THEN s[i] ELSE 0]]
  BY <1>1 DEF PutFails
<1>3. s \in Seq(1..n) /\ Packets(s) \subseteq Packets(all) BY LeftIs
<1>4. CASE e = [d EXCEPT !.in = s]
  <2>1. e.in = s /\ e.done = d.done BY <1>4, Buffers
  <2>2. s \in Seq(0..n) BY <1>3
  <2> QED BY <1>1, <1>3, <2>1, <2>2
<1>5. CASE e = [d EXCEPT !.in = [i \in 1..Len(d.in) |-> IF i <= Len(s) THEN s[i] ELSE 0]]
  <2>1. PICK t : t = [i \in 1..Len(d.in) |-> IF i <= Len(s) THEN s[i] ELSE 0] OBVIOUS
  <2>2. e.in = t /\ e.done = d.done BY <1>5, <2>1, Buffers
  <2>3. Len(s) \in Nat /\ Len(d.in) \in Nat BY <1>3
  <2>4. ASSUME NEW i \in 1..Len(d.in)
        PROVE  (IF i <= Len(s) THEN s[i] ELSE 0) \in {0} \cup Packets(s)
               /\ (IF i <= Len(s) THEN s[i] ELSE 0) \in 0..n
    <3>1. CASE i <= Len(s)
      <4>1. i \in 1..Len(s) BY <2>3, <3>1
      <4>2. s[i] \in Packets(s) /\ s[i] \in 1..n BY <1>3, <4>1 DEF Packets
      <4> QED BY <3>1, <4>2
    <3>2. CASE ~(i <= Len(s)) BY <3>2
    <3> QED BY <3>1, <3>2
  <2>5. t \in Seq(0..n) /\ Len(t) = Len(d.in) BY <2>1, <2>3, <2>4
  <2>6. Packets(t) \subseteq {0} \cup Packets(s) BY <2>1, <2>3, <2>4, <2>5 DEF Packets
  <2> QED BY <1>1, <1>3, <2>2, <2>5, <2>6
<1> QED BY <1>2, <1>4, <1>5

LEMMA HeldIs == ASSUME NEW c \in Card, NEW e, Holds(e, c) PROVE e # NoDecoder
BY HoldsCard, WrapperAssumption DEF NoDecoder

PInv == QueueInv /\ OnceInv /\ NothingWithheld

\* A decoder that has nothing
Empty(d) == d.in = <<>> /\ d.done = <<>>

LEMMA EmptyIs ==
  ASSUME NEW d, Empty(d)
  PROVE  /\ \A n \in Nat : Typed(d, n)
         /\ \A P : Once(d, P)
         /\ Buffered(d) = {}
<1>1. \A n \in Nat : <<>> \in Seq(1..n) OBVIOUS
<1>2. Packets(<<>>) = {} /\ Distinct(<<>>) BY DEF Packets, Distinct
<1> QED BY <1>1, <1>2 DEF Empty, Typed, Once, Buffered

LEMMA EmptyOnes == Empty(NoDecoder) /\ \A c : Empty(Registered(c))
BY DEF Empty, NoDecoder, Registered

LEMMA TypedMore ==
  ASSUME NEW d, NEW n \in Nat, NEW m \in Nat, n <= m, Typed(d, n)
  PROVE  Typed(d, m)
<1>1. 1..n \subseteq 1..m OBVIOUS
<1>2. \A s \in Seq(1..n) : s \in Seq(1..m) BY <1>1
<1> QED BY <1>2 DEF Typed

\* What Decode works with: decoder d, packets new, of which m is the last.
Args(c, d, new, m) ==
  /\ c \in Card /\ Holds(d, c) /\ m \in next..Total
  /\ new \in Seq(1..m) /\ Packets(new) = next..m /\ next + Len(new) = m + 1
  /\ Typed(d, next - 1) /\ Typed(d, m)
  /\ d.in \o new \in Seq(1..m) /\ Packets(d.in \o new) = Packets(d.in) \cup (next..m)
  /\ Buffered(d) = Buffered(b25)
  /\ ~torn => /\ Once(d, processed) /\ Distinct(d.in \o new)
              /\ Packets(d.in \o new) \cap Packets(d.done) = {}
              /\ (next..m) \cap processed = {}

LEMMA DecodeArgs ==
  ASSUME ObjectsInv, QueueInv, OnceInv, Decode
  PROVE  \E c, d, new, m :
           /\ Args(c, d, new, m)
           /\ \/ DecodeGets(c, d, new) \/ DecodeNoPat(c, d, new)
              \/ DecodeHeadError(c, d, new) \/ DecodeError(c, d, new)
<1>0. PICK n \in 1..MaxPut, c \in Card :
         LET new == [i \in 1..n |-> next + i - 1]
             d == IF b25 = NoDecoder THEN Registered(c) ELSE b25
         IN  /\ next + n - 1 <= Total
             /\ IF b25 = NoDecoder THEN Due /\ c \notin live ELSE c = bcas
             /\ \/ DecodeGets(c, d, new) \/ DecodeNoPat(c, d, new)
                \/ DecodeHeadError(c, d, new) \/ DecodeError(c, d, new)
  BY DEF Decode
<1>1. PICK new, d :
        /\ new = [i \in 1..n |-> next + i - 1]
        /\ d = IF b25 = NoDecoder THEN Registered(c) ELSE b25
        /\ next + n - 1 <= Total
        /\ b25 # NoDecoder => c = bcas
        /\ \/ DecodeGets(c, d, new) \/ DecodeNoPat(c, d, new)
           \/ DecodeHeadError(c, d, new) \/ DecodeError(c, d, new)
  BY <1>0
<1>2. n \in Nat /\ n >= 1 /\ next \in Nat \ {0} /\ next - 1 \in Nat /\ Total \in Nat
  BY WrapperAssumption DEF QueueInv
<1>3. PICK m \in Nat : m = next + n - 1 BY <1>2
<1>4. m \in next..Total /\ next - 1 <= m BY <1>1, <1>2, <1>3
<1>5. new \in Seq(1..m) /\ Len(new) = n /\ Packets(new) = next..m /\ Distinct(new)
  BY <1>1, <1>2, <1>3, NewIs
<1>6. Holds(d, c)
  <2>1. CASE b25 = NoDecoder BY <1>1, <2>1, FreshHolds
  <2>2. CASE b25 # NoDecoder BY <1>1, <2>2 DEF ObjectsInv
  <2> QED BY <2>1, <2>2
<1>7. Typed(d, next - 1) /\ Buffered(d) = Buffered(b25) /\ (~torn => Once(d, processed))
  <2>1. CASE b25 = NoDecoder
    <3>1. Empty(d) /\ Empty(b25) BY <1>1, <2>1, EmptyOnes
    <3> QED BY <1>2, <3>1, EmptyIs
  <2>2. CASE b25 # NoDecoder BY <1>1, <2>2 DEF QueueInv, OnceInv
  <2> QED BY <2>1, <2>2
<1>8. Typed(d, m) BY <1>2, <1>3, <1>4, <1>7, TypedMore
<1>9. d.in \o new \in Seq(1..m) /\ Packets(d.in \o new) = Packets(d.in) \cup (next..m)
  <2>1. d.in \in Seq(1..m) /\ new \in Seq(1..m) BY <1>5, <1>8 DEF Typed
  <2>2. Packets(d.in \o new) = Packets(d.in) \cup Packets(new) /\ d.in \o new \in Seq(1..m)
    BY <2>1, PacketsJoined
  <2> QED BY <1>5, <2>2
<1>10. /\ Packets(d.in) \subseteq 1..(next - 1) /\ Packets(d.done) \subseteq 1..(next - 1)
       /\ processed \subseteq 1..(next - 1)
  BY <1>7, PacketsIn DEF Typed, QueueInv
<1>11. (next..m) \cap (1..(next - 1)) = {} BY <1>2
<1>12. ASSUME ~torn
       PROVE  /\ Distinct(d.in \o new) /\ Packets(d.in \o new) \cap Packets(d.done) = {}
              /\ (next..m) \cap processed = {}
  <2>1. Distinct(d.in) /\ Packets(d.in) \cap Packets(d.done) = {}
    BY <1>7, <1>12 DEF Once
  <2>2. Packets(d.in) \cap Packets(new) = {} BY <1>5, <1>10, <1>11
  <2>3. Distinct(d.in \o new) BY <1>5, <1>8, <2>1, <2>2, DistinctJoined DEF Typed
  <2> QED BY <1>9, <1>10, <1>11, <2>1, <2>3
<1>13. next + Len(new) = m + 1 BY <1>2, <1>3, <1>5
<1>14. Args(c, d, new, m)
  BY <1>4, <1>5, <1>6, <1>7, <1>8, <1>9, <1>12, <1>13 DEF Args
<1> QED BY <1>1, <1>14

\* All packets of a call have been taken into account.
LEMMA AllTaken ==
  ASSUME QueueInv, NothingWithheld, NEW c, NEW d, NEW new, NEW m, Args(c, d, new, m),
         next' = m + 1, settled \subseteq settled',
         next..m \subseteq settled' \cup Buffered(b25'),
         Buffered(d) \subseteq settled' \cup Buffered(b25')
  PROVE  NothingWithheld' /\ next' \in 1..(Total + 1) /\ next' - 1 = m /\ m \in Nat
<1>1. next \in Nat /\ m \in Nat /\ m <= Total /\ next <= m /\ next >= 1 /\ Total \in Nat
  BY WrapperAssumption DEF Args, QueueInv
<1>2. 1..m = (1..(next - 1)) \cup (next..m) BY <1>1
<1>3. 1..(next - 1) \subseteq settled \cup Buffered(d) BY DEF NothingWithheld, Args
<1>4. next' - 1 = m /\ next' \in 1..(Total + 1) BY <1>1
<1>5. 1..m \subseteq settled' \cup Buffered(b25') BY <1>2, <1>3
<1>6. Buffered(b25)' = Buffered(b25') BY DEF Buffered, Packets
<1> QED BY <1>1, <1>4, <1>5, <1>6 DEF NothingWithheld

\* What is handed out is a packet or 0.
LEMMA HandIs ==
  ASSUME NEW w, NEW new, NEW m \in Nat, next' = m + 1, Hand(w, new),
         w.at \in {"none", "src", "dbuf", "data"}, w.pk \in Seq(0..m)
  PROVE  /\ (data # None => Packets(data) \subseteq Given)'
         /\ (dst.at \in {"none", "src", "dbuf", "data"} /\ Packets(dst.pk) \subseteq Given)'
<1>1. Packets(w.pk) \subseteq 0..m BY PacketsIn
<1>2. m = next' - 1 OBVIOUS
<1>3. Packets(w.pk) \subseteq 0..(next' - 1) BY <1>1, <1>2
<1> QED BY <1>3 DEF Hand, Packets, Given

LEMMA WithZero == ASSUME NEW n \in Nat, NEW s \in Seq(1..n) PROVE s \in Seq(0..n)
<1>1. 1..n \subseteq 0..n OBVIOUS
<1> QED BY <1>1

LEMMA GetsQueue ==
  ASSUME PInv, NEW c, NEW d, NEW new, NEW m, Args(c, d, new, m), DecodeGets(c, d, new)
  PROVE  PInv' /\ (~torn => Packets(dst'.pk) \cap processed = {})
<1>1. PICK e \in Puts(d, new) :
        /\ GoOn(c, Got(e)) /\ Hand([at |-> "dbuf", pk |-> e.done], new)
        /\ processed' = processed \cup Packets(e.done)
        /\ settled' = settled \cup Packets(e.done) \cup Dropped(d, new, e)
        /\ UNCHANGED <<stamped, torn>>
  BY DEF DecodeGets, clocks
<1>2. m \in Nat /\ m <= Total /\ next \in Nat /\ next <= m /\ next + Len(new) = m + 1
  BY WrapperAssumption DEF Args, PInv, QueueInv
<1>3. /\ Typed(e, m) /\ Buffered(e) \subseteq Buffered(d) \cup Packets(d.in \o new)
      /\ ~torn => Distinct(e.in) /\ Packets(e.in) \cap Packets(e.done) = {}
  BY <1>2, PutsAre DEF Args, Typed
<1>4. Holds(e, c) BY PutsHold DEF Args
<1>5. b25'.in = e.in /\ b25'.done = <<>> BY <1>1, <1>4, Buffers DEF GoOn, Got
<1>6. next' = m + 1 BY <1>1, <1>2 DEF Hand
<1>7. Packets(<<>>) = {} BY DEF Packets
<1>8. Buffered(b25') = Packets(e.in) BY <1>5, <1>7 DEF Buffered
<1>9. /\ settled \subseteq settled' /\ next..m \subseteq settled' \cup Buffered(b25')
      /\ Buffered(d) \subseteq settled' \cup Buffered(b25')
  BY <1>1, <1>8 DEF Dropped, Buffered, Args
<1>10. NothingWithheld' /\ next' \in 1..(Total + 1) /\ next' - 1 = m
  BY <1>6, <1>9, AllTaken DEF PInv
<1>11. Packets(e.done) \subseteq 1..m BY <1>3, PacketsIn DEF Typed
<1>12. QueueInv'
  <2>1. e.done \in Seq(0..m)
    <3>1. e.done \in Seq(1..m) BY <1>3 DEF Typed
    <3> QED BY <1>2, <3>1, WithZero
  <2>2. /\ (data # None => Packets(data) \subseteq Given)'
        /\ (dst.at \in {"none", "src", "dbuf", "data"} /\ Packets(dst.pk) \subseteq Given)'
    BY <1>1, <1>2, <1>6, <2>1, HandIs
  <2>3. Typed(b25', m) BY <1>2, <1>3, <1>5 DEF Typed
  <2>4. processed' \subseteq 1..m
    <3>1. processed \subseteq 1..(next - 1) BY DEF PInv, QueueInv
    <3>2. 1..(next - 1) \subseteq 1..m BY <1>2
    <3> QED BY <1>1, <1>11, <3>1, <3>2
  <2>5. b25' # NoDecoder
    <3>1. Holds(Got(e), c) BY <1>4, BuffersHold DEF Got
    <3> QED BY <1>1, <3>1, HeldIs DEF GoOn, Args
  <2>6. stamped' \in BOOLEAN /\ torn' \in BOOLEAN BY <1>1 DEF PInv, QueueInv
  <2>7. Typed(b25, next - 1)' BY <1>10, <2>3 DEF Typed
  <2> QED BY <1>10, <2>2, <2>4, <2>5, <2>6, <2>7 DEF QueueInv
<1>13. ASSUME ~torn
       PROVE  Once(b25', processed') /\ Packets(e.done) \cap processed = {}
  <2>1. Buffered(e) \cap processed = {}
    BY <1>3, <1>13 DEF Args, Once, Buffered
  <2>2. Distinct(b25'.in) BY <1>3, <1>5, <1>13
  <2>3. Packets(b25'.in) \cap Packets(b25'.done) = {} BY <1>5, <1>7
  <2>4. Buffered(b25') \cap processed' = {} BY <1>1, <1>3, <1>8, <1>13, <2>1 DEF Buffered
  <2> QED BY <2>1, <2>2, <2>3, <2>4 DEF Once, Buffered
<1>14. OnceInv'
  <2>1. torn' = torn BY <1>1
  <2> QED BY <1>13, <2>1 DEF OnceInv, Once, Distinct, Buffered, Packets
<1> QED BY <1>1, <1>10, <1>12, <1>13, <1>14 DEF PInv, Hand

LEMMA NoPatQueue ==
  ASSUME PInv, NEW c, NEW d, NEW new, NEW m, Args(c, d, new, m), DecodeNoPat(c, d, new)
  PROVE  PInv' /\ (~torn => Packets(dst'.pk) \cap processed = {})
<1>1. PICK all : all = d.in \o new OBVIOUS
<1>2. m \in Nat /\ m <= Total /\ next \in Nat /\ next <= m /\ next + Len(new) = m + 1
  BY WrapperAssumption DEF Args, PInv, QueueInv
<1>3. /\ b25' = [d EXCEPT !.in = all] /\ Hand(Src(new), new) /\ processed' = processed
      /\ settled' = settled \cup Packets(new) /\ stamped' = stamped /\ torn' = torn
  BY <1>1 DEF DecodeNoPat, GoOn, clocks
<1>4. b25'.in = all /\ b25'.done = d.done BY <1>3, Buffers DEF Args
<1>5. next' = m + 1 /\ dst' = Src(new) BY <1>2, <1>3 DEF Hand
<1>6. Buffered(b25') = Packets(all) \cup Packets(d.done) BY <1>4 DEF Buffered
<1>7. NothingWithheld' /\ next' \in 1..(Total + 1) /\ next' - 1 = m
  <2>1. next..m \subseteq settled' \cup Buffered(b25') BY <1>3 DEF Args
  <2>2. Buffered(d) \subseteq settled' \cup Buffered(b25')
    BY <1>1, <1>6 DEF Args, Buffered
  <2>3. settled \subseteq settled' BY <1>3
  <2> QED BY <1>5, <2>1, <2>2, <2>3, AllTaken DEF PInv
<1>8. QueueInv'
  <2>1. new \in Seq(0..m)
    <3>1. new \in Seq(1..m) BY DEF Args
    <3> QED BY <1>2, <3>1, WithZero
  <2>2. /\ (data # None => Packets(data) \subseteq Given)'
        /\ (dst.at \in {"none", "src", "dbuf", "data"} /\ Packets(dst.pk) \subseteq Given)'
    BY <1>2, <1>3, <1>5, <2>1, HandIs DEF Src
  <2>3. Typed(b25, next - 1)' BY <1>1, <1>4, <1>7 DEF Typed, Args
  <2>4. processed' \subseteq 1..m
    <3>1. processed \subseteq 1..(next - 1) BY DEF PInv, QueueInv
    <3>2. 1..(next - 1) \subseteq 1..m BY <1>2
    <3> QED BY <1>3, <3>1, <3>2
  <2>5. b25' # NoDecoder
    <3>1. Holds([d EXCEPT !.in = all], c) BY BuffersHold DEF Args
    <3> QED BY <1>3, <3>1, HeldIs DEF Args
  <2>6. stamped' \in BOOLEAN /\ torn' \in BOOLEAN BY <1>3 DEF PInv, QueueInv
  <2> QED BY <1>7, <2>2, <2>3, <2>4, <2>5, <2>6 DEF QueueInv
<1>9. ASSUME ~torn
      PROVE  Once(b25', processed') /\ Packets(dst'.pk) \cap processed = {}
  <2>1. Distinct(all) /\ Packets(all) \cap Packets(d.done) = {} BY <1>1, <1>9 DEF Args
  <2>2. (next..m) \cap processed = {} /\ Buffered(d) \cap processed = {}
    BY <1>9 DEF Args, Once
  <2>3. Packets(all) = Packets(d.in) \cup (next..m) BY <1>1 DEF Args
  <2>4. Buffered(b25') \cap processed' = {} BY <1>3, <1>6, <2>2, <2>3 DEF Buffered
  <2>5. Packets(dst'.pk) = next..m BY <1>5 DEF Src, Args
  <2> QED BY <1>4, <2>1, <2>2, <2>4, <2>5 DEF Once
<1>10. OnceInv' BY <1>3, <1>9 DEF OnceInv, Once, Distinct, Buffered, Packets
<1> QED BY <1>7, <1>8, <1>9, <1>10 DEF PInv

LEMMA HeadErrorQueue ==
  ASSUME PInv, NEW c, NEW d, NEW new, NEW m, Args(c, d, new, m), DecodeHeadError(c, d, new)
  PROVE  PInv' /\ (~torn => Packets(dst'.pk) \cap processed = {})
<1>2. m \in Nat /\ m <= Total /\ next \in Nat /\ next <= m /\ next + Len(new) = m + 1
  BY WrapperAssumption DEF Args, PInv, QueueInv
<1>3. /\ b25' = NoDecoder /\ Hand(Src(new), new) /\ processed' = processed
      /\ settled' = settled \cup Packets(new) \cup Buffered(d)
      /\ stamped' = TRUE /\ torn' = FALSE
  BY DEF DecodeHeadError, GiveUp
<1>5. next' = m + 1 /\ dst' = Src(new) BY <1>2, <1>3 DEF Hand
<1>7. NothingWithheld' /\ next' \in 1..(Total + 1) /\ next' - 1 = m
  <2>1. next..m \subseteq settled' \cup Buffered(b25') BY <1>3 DEF Args
  <2>2. Buffered(d) \subseteq settled' \cup Buffered(b25') BY <1>3
  <2>3. settled \subseteq settled' BY <1>3
  <2> QED BY <1>5, <2>1, <2>2, <2>3, AllTaken DEF PInv
<1>8. QueueInv'
  <2>1. new \in Seq(0..m)
    <3>1. new \in Seq(1..m) BY DEF Args
    <3> QED BY <1>2, <3>1, WithZero
  <2>2. /\ (data # None => Packets(data) \subseteq Given)'
        /\ (dst.at \in {"none", "src", "dbuf", "data"} /\ Packets(dst.pk) \subseteq Given)'
    BY <1>2, <1>3, <1>5, <2>1, HandIs DEF Src
  <2>3. Typed(b25, next - 1)'
    <3>1. Typed(b25', m) BY <1>2, <1>3, EmptyOnes, EmptyIs
    <3> QED BY <1>7, <3>1 DEF Typed
  <2>4. processed' \subseteq 1..m
    <3>1. processed \subseteq 1..(next - 1) BY DEF PInv, QueueInv
    <3>2. 1..(next - 1) \subseteq 1..m BY <1>2
    <3> QED BY <1>3, <3>1, <3>2
  <2> QED BY <1>3, <1>7, <2>2, <2>3, <2>4 DEF QueueInv
<1>9. OnceInv'
  <2>1. Once(b25', processed') BY <1>3, EmptyOnes, EmptyIs
  <2> QED BY <2>1 DEF OnceInv, Once, Distinct, Buffered, Packets
<1>10. ~torn => Packets(dst'.pk) \cap processed = {} BY <1>5 DEF Src, Args
<1> QED BY <1>7, <1>8, <1>9, <1>10 DEF PInv

LEMMA ErrorQueue ==
  ASSUME PInv, NEW c, NEW d, NEW new, NEW m, Args(c, d, new, m), DecodeError(c, d, new)
  PROVE  PInv' /\ (~torn => Packets(dst'.pk) \cap processed = {})
<1>1. PICK e \in PutFails(d, new), malloc \in BOOLEAN, ecmFailure \in BOOLEAN :
        /\ Hand(IF malloc THEN Withdrawn(e, new) ELSE Src(new), new)
        /\ IF ecmFailure THEN GiveUp(c) ELSE GoOn(c, [e EXCEPT !.in = <<>>])
        /\ settled' = settled \cup Packets(dst'.pk) \cup Dropped(d, new, e)
                              \cup (IF malloc THEN {} ELSE Packets(e.in))
                              \cup (IF ecmFailure THEN Packets(e.done) ELSE {})
        /\ torn' = (torn /\ ~ecmFailure)
        /\ stamped' = TRUE /\ processed' = processed
  BY DEF DecodeError
<1>2. m \in Nat /\ m <= Total /\ next \in Nat /\ next <= m /\ next + Len(new) = m + 1
  BY WrapperAssumption DEF Args, PInv, QueueInv
<1>3. /\ e.in \in Seq(0..m) /\ Packets(e.in) \subseteq {0} \cup Packets(d.in \o new)
      /\ e.done = d.done
  BY <1>2, PutFailsAre DEF Args, Typed
<1>4. Holds(e, c) BY PutsHold DEF Args
<1>5. PICK w : w = (IF malloc THEN Withdrawn(e, new) ELSE Src(new)) OBVIOUS
<1>6. Hand(w, new) /\ dst' = w /\ next' = m + 1 BY <1>1, <1>2, <1>5 DEF Hand
<1>7. new \in Seq(0..m)
  <2>1. new \in Seq(1..m) BY DEF Args
  <2> QED BY <1>2, <2>1, WithZero
<1>8. PICK p \in Seq(0..m) : p = e.in \o new /\ Packets(p) = Packets(e.in) \cup Packets(new)
  <2>1. e.in \in Seq(0..m) /\ new \in Seq(0..m) BY <1>3, <1>7
  <2>2. /\ e.in \o new \in Seq(0..m)
        /\ Packets(e.in \o new) = Packets(e.in) \cup Packets(new)
    BY <2>1, PacketsJoined
  <2> QED BY <2>2
<1>9. /\ w.at \in {"src", "data"} /\ w.pk \in Seq(0..m)
      /\ Packets(w.pk) \subseteq Packets(e.in) \cup Packets(new)
      /\ malloc => Packets(e.in) \cup Packets(new) \subseteq Packets(w.pk)
      /\ Packets(new) \subseteq Packets(w.pk)
  <2>1. CASE malloc /\ e.in # <<>>
    <3>1. w = [at |-> "data", pk |-> p] BY <1>5, <1>8, <2>1 DEF Withdrawn
    <3> QED BY <1>8, <3>1
  <2>2. CASE ~(malloc /\ e.in # <<>>)
    <3>1. w = [at |-> "src", pk |-> new] BY <1>5, <2>2 DEF Withdrawn, Src
    <3>2. malloc => Packets(e.in) = {} BY <2>2 DEF Packets
    <3> QED BY <1>7, <3>1, <3>2
  <2> QED BY <2>1, <2>2
<1>10. /\ ecmFailure => b25' = NoDecoder
       /\ ~ecmFailure => b25'.in = <<>> /\ b25'.done = d.done /\ b25' # NoDecoder
  <2>1. ASSUME ~ecmFailure PROVE b25'.in = <<>> /\ b25'.done = d.done /\ b25' # NoDecoder
    <3>1. PICK s : s = <<>> OBVIOUS
    <3>2. b25' = [e EXCEPT !.in = s] BY <1>1, <2>1, <3>1 DEF GoOn
    <3>3. b25'.in = s /\ b25'.done = e.done BY <1>4, <3>2, Buffers
    <3>4. Holds(b25', c) BY <1>4, <3>2, BuffersHold
    <3> QED BY <1>3, <3>1, <3>3, <3>4, HeldIs DEF Args
  <2> QED BY <1>1, <2>1 DEF GiveUp
<1>11. Packets(<<>>) = {} BY DEF Packets
<1>12. /\ ecmFailure => Empty(b25')
       /\ ~ecmFailure => Buffered(b25') = Packets(d.done)
  BY <1>10, <1>11, EmptyOnes DEF Buffered
<1>13. NothingWithheld' /\ next' \in 1..(Total + 1) /\ next' - 1 = m
  <2>1. Packets(e.in) \subseteq settled' BY <1>1, <1>6, <1>9
  <2>2. Packets(e.done) \subseteq settled' \cup Buffered(b25') BY <1>1, <1>3, <1>12
  <2>3. Buffered(d) \cup Packets(new) \subseteq settled' \cup Buffered(b25')
    BY <1>1, <2>1, <2>2 DEF Dropped, Buffered
  <2>4. settled \subseteq settled' BY <1>1
  <2>5. next..m \subseteq settled' \cup Buffered(b25') BY <2>3 DEF Args
  <2> QED BY <1>6, <2>3, <2>4, <2>5, AllTaken DEF PInv
<1>14. QueueInv'
  <2>2. /\ (data # None => Packets(data) \subseteq Given)'
        /\ (dst.at \in {"none", "src", "dbuf", "data"} /\ Packets(dst.pk) \subseteq Given)'
    BY <1>2, <1>6, <1>9, HandIs
  <2>3. Typed(b25', m)
    <3>1. CASE ecmFailure BY <1>2, <1>12, <3>1, EmptyIs
    <3>2. CASE ~ecmFailure
      <4>1. <<>> \in Seq(1..m) OBVIOUS
      <4> QED BY <1>10, <3>2, <4>1 DEF Args, Typed
    <3> QED BY <3>1, <3>2
  <2>4. processed' \subseteq 1..m
    <3>1. processed \subseteq 1..(next - 1) BY DEF PInv, QueueInv
    <3>2. 1..(next - 1) \subseteq 1..m BY <1>2
    <3> QED BY <1>1, <3>1, <3>2
  <2>5. torn \in BOOLEAN BY DEF PInv, QueueInv
  <2>6. torn' \in BOOLEAN /\ (b25' = NoDecoder => ~torn')
    BY <1>1, <1>10, <2>5
  <2>7. Typed(b25, next - 1)' BY <1>13, <2>3 DEF Typed
  <2> QED BY <1>1, <1>13, <2>2, <2>4, <2>6, <2>7 DEF QueueInv
<1>15. OnceInv'
  <2> SUFFICES ASSUME ~torn' PROVE Once(b25', processed')
    BY DEF OnceInv, Once, Distinct, Buffered, Packets
  <2>1. CASE ecmFailure BY <1>12, <2>1, EmptyIs
  <2>2. CASE ~ecmFailure
    <3>1. Once(d, processed) BY <1>1, <2>2 DEF Args
    <3>2. Distinct(<<>>) BY DEF Distinct
    <3> QED BY <1>1, <1>10, <1>11, <1>12, <2>2, <3>1, <3>2 DEF Once, Buffered
  <2> QED BY <2>1, <2>2
<1>16. ASSUME ~torn PROVE Packets(dst'.pk) \cap processed = {}
  <2>1. 0 \notin processed
    <3>1. processed \subseteq 1..(next - 1) BY DEF PInv, QueueInv
    <3> QED BY <3>1
  <2>2. Packets(d.in \o new) \cap processed = {} /\ Packets(new) \cap processed = {}
    BY <1>16 DEF Args, Once, Buffered
  <2> QED BY <1>3, <1>6, <1>9, <2>1, <2>2
<1> QED BY <1>13, <1>14, <1>15, <1>16 DEF PInv

LEMMA DecodeQueue ==
  ASSUME ObjectsInv, PInv, Decode
  PROVE  PInv' /\ (~torn => Packets(dst'.pk) \cap processed = {})
BY DecodeArgs, GetsQueue, NoPatQueue, HeadErrorQueue, ErrorQueue DEF PInv

LEMMA DrainedIs ==
  ASSUME NEW c, NEW d, Holds(d, c), NEW n \in Nat, Typed(d, n),
         NEW e \in Flushes(d)
  PROVE  /\ Typed(e, n) /\ Packets(e.in) \subseteq Packets(d.in)
         /\ Packets(e.done) \subseteq Packets(d.done) \cup Packets(d.in)
         /\ Packets(d.done) \subseteq Packets(e.done)
         /\ Distinct(d.in) /\ Packets(d.in) \cap Packets(d.done) = {} =>
              Distinct(e.in) /\ Packets(e.in) \cap Packets(e.done) = {}
<1>1. PICK s : s = d.in OBVIOUS
<1>2. d.done \in Seq(1..n) /\ s \in Seq(1..n) BY <1>1 DEF Typed
<1>3. PICK k \in 0..Len(s) : e = Processed(d, s, k) BY <1>1 DEF Flushes
<1>4. /\ Typed(e, n) /\ Packets(e.in) \subseteq Packets(s)
      /\ Packets(e.done) \subseteq Packets(d.done) \cup Packets(s)
      /\ Packets(d.done) \subseteq Packets(e.done)
      /\ Distinct(s) /\ Packets(s) \cap Packets(d.done) = {} =>
           Distinct(e.in) /\ Packets(e.in) \cap Packets(e.done) = {}
  BY <1>2, <1>3, ProcessedIs
<1> QED BY <1>1, <1>4

LEMMA FlushQueue == ASSUME ObjectsInv, PInv, Flush PROVE PInv'
<1>1. PICK e \in Flushes(b25) :
        \/ /\ b25' = e /\ settled' = settled \cup Dropped(b25, <<>>, e) /\ torn' = torn
        \/ b25' = [b25 EXCEPT !.done = e.done] /\ torn' = TRUE /\ settled' = settled
  BY DEF Flush
<1>2. /\ b25 # NoDecoder /\ ~torn /\ dst' = Nothing /\ data' = data /\ next' = next
      /\ processed' = processed /\ stamped' = stamped /\ bcas' = bcas
  BY DEF Flush, clocks
<1>3. PICK n \in Nat : n = next - 1 BY DEF PInv, QueueInv
<1>4. Typed(b25, n) /\ Holds(b25, bcas) /\ Once(b25, processed)
  BY <1>2, <1>3 DEF PInv, QueueInv, OnceInv, ObjectsInv
<1>6. /\ Typed(e, n) /\ Packets(e.in) \subseteq Packets(b25.in)
      /\ Packets(e.done) \subseteq Packets(b25.done) \cup Packets(b25.in)
      /\ Packets(b25.done) \subseteq Packets(e.done)
      /\ Distinct(b25.in) /\ Packets(b25.in) \cap Packets(b25.done) = {} =>
           Distinct(e.in) /\ Packets(e.in) \cap Packets(e.done) = {}
  BY <1>4, DrainedIs
<1>7. bcas \in Card BY <1>2, NoneHeld DEF ObjectsInv
<1>8. /\ Holds(b25', bcas) /\ Typed(b25', n)
      /\ ~torn' => Once(b25', processed')
      /\ Buffered(b25) \subseteq settled' \cup Buffered(b25')
      /\ settled \subseteq settled'
  <2>1. CASE b25' = e /\ settled' = settled \cup Dropped(b25, <<>>, e) /\ torn' = torn
    <3>1. Holds(e, bcas) BY <1>4, PutsHold
    <3>2. Once(e, processed) BY <1>4, <1>6 DEF Once, Buffered
    <3>3. Buffered(b25) \subseteq Dropped(b25, <<>>, e) \cup Buffered(e)
      BY DEF Dropped
    <3>4. b25' = e /\ processed' = processed BY <1>2, <2>1
    <3>5. settled' = settled \cup Dropped(b25, <<>>, e) BY <2>1
    <3>6. Buffered(b25) \subseteq settled' \cup Buffered(e) BY <3>3, <3>5
    <3>7. settled \subseteq settled' BY <3>5
    <3> QED BY <1>6, <3>1, <3>2, <3>4, <3>6, <3>7
  <2>2. CASE b25' = [b25 EXCEPT !.done = e.done] /\ torn' = TRUE /\ settled' = settled
    <3>1. PICK t : t = e.done OBVIOUS
    <3>2. b25' = [b25 EXCEPT !.done = t] BY <2>2, <3>1
    <3>3. b25'.in = b25.in /\ b25'.done = t BY <1>4, <3>2, Buffers
    <3>4. Holds(b25', bcas) BY <1>4, <3>2, BuffersHold
    <3>5. Typed(b25', n) BY <1>4, <1>6, <3>1, <3>3 DEF Typed
    <3>6. Buffered(b25) \subseteq Buffered(b25') BY <1>6, <3>1, <3>3 DEF Buffered
    <3> QED BY <2>2, <3>4, <3>5, <3>6
  <2> QED BY <1>1, <2>1, <2>2
<1>9. QueueInv'
  <2>1. Typed(b25, next - 1)' BY <1>2, <1>3, <1>8 DEF Typed
  <2>2. b25' # NoDecoder BY <1>7, <1>8, HeldIs
  <2>3. torn' \in BOOLEAN BY <1>1 DEF PInv, QueueInv
  <2>4. Packets(Nothing.pk) = {} /\ Nothing.at = "none" BY DEF Nothing, Packets
  <2>5. (data # None => Packets(data) \subseteq Given)'
    BY <1>2 DEF PInv, QueueInv, Packets, Given
  <2>6. (dst.at \in {"none", "src", "dbuf", "data"} /\ Packets(dst.pk) \subseteq Given)'
    BY <1>2, <2>4 DEF Packets, Given
  <2> QED BY <1>2, <2>1, <2>2, <2>3, <2>5, <2>6 DEF PInv, QueueInv
<1>10. OnceInv' BY <1>2, <1>8 DEF OnceInv, Once, Distinct, Buffered, Packets
<1>11. NothingWithheld'
  <2>1. 1..(next - 1) \subseteq settled \cup Buffered(b25) BY DEF PInv, NothingWithheld
  <2>2. 1..(next - 1) \subseteq settled' \cup Buffered(b25') BY <1>8, <2>1
  <2> QED BY <1>2, <2>2 DEF NothingWithheld, Buffered, Packets
<1> QED BY <1>9, <1>10, <1>11 DEF PInv

\* The decoder and what it held are no more, and nothing is handed out.
LEMMA ClearedQueue ==
  ASSUME PInv, Empty(b25'), Buffered(b25) \subseteq settled', settled \subseteq settled',
         dst' = Nothing, torn' = FALSE, UNCHANGED <<data, next, processed, stamped>>
  PROVE  PInv'
<1>1. data' = data /\ next' = next /\ processed' = processed /\ stamped' = stamped OBVIOUS
<1>2. Typed(b25, next - 1)'
  <2>1. next - 1 \in Nat BY DEF PInv, QueueInv
  <2>2. Typed(b25', next - 1) BY <2>1, EmptyIs
  <2> QED BY <1>1, <2>2 DEF Typed
<1>3. Packets(Nothing.pk) = {} /\ Nothing.at = "none" BY DEF Nothing, Packets
<1>4. (data # None => Packets(data) \subseteq Given)'
  BY <1>1 DEF PInv, QueueInv, Packets, Given
<1>5. (dst.at \in {"none", "src", "dbuf", "data"} /\ Packets(dst.pk) \subseteq Given)'
  BY <1>3 DEF Packets, Given
<1>6. QueueInv' BY <1>1, <1>2, <1>4, <1>5 DEF PInv, QueueInv
<1>7. Once(b25', processed') BY EmptyIs
<1>8. OnceInv' BY <1>7 DEF OnceInv, Once, Distinct, Buffered, Packets
<1>9. NothingWithheld'
  <2>1. 1..(next - 1) \subseteq settled' BY DEF PInv, NothingWithheld
  <2> QED BY <1>1, <2>1 DEF NothingWithheld
<1> QED BY <1>6, <1>8, <1>9 DEF PInv

LEMMA ResetQueue == ASSUME ObjectsInv, PInv, Reset PROVE PInv'
<1>1. PICK s : s = <<>> OBVIOUS
<1>2. b25' = [b25 EXCEPT !.in = s, !.done = s] BY <1>1 DEF Reset
<1>3. b25'.in = s /\ b25'.done = s BY <1>2, Buffers DEF ObjectsInv
<1>4. Empty(b25') BY <1>1, <1>3 DEF Empty
<1>5. settled' = settled \cup Buffered(b25) /\ dst' = Nothing /\ torn' = FALSE
      /\ UNCHANGED <<data, next, processed, stamped>>
  BY DEF Reset, clocks
<1> QED BY <1>4, <1>5, ClearedQueue

\* Nothing has changed but the time, and what is handed out is the input.
LEMMA SameQueue ==
  ASSUME PInv, UNCHANGED <<b25, data, next, history, torn>>, stamped' \in BOOLEAN,
         \/ dst' = dst \/ dst' = Nothing \/ dst' = [at |-> "src", pk |-> <<>>]
  PROVE  PInv'
<1>1. b25' = b25 /\ data' = data /\ next' = next /\ processed' = processed
      /\ settled' = settled /\ torn' = torn
  BY DEF history
<1>2. (dst.at \in {"none", "src", "dbuf", "data"} /\ Packets(dst.pk) \subseteq Given)'
  <2>1. Packets(<<>>) = {} BY DEF Packets
  <2>2. dst'.at \in {"none", "src", "dbuf", "data"} /\ Packets(dst'.pk) \subseteq Given
    BY <2>1 DEF PInv, QueueInv, Nothing
  <2> QED BY <2>2 DEF Packets, Given
<1>3. QueueInv' BY <1>1, <1>2 DEF PInv, QueueInv, Typed, Packets, Given
<1>4. OnceInv'
  <2>1. ~torn' => Once(b25', processed') BY <1>1 DEF PInv, OnceInv
  <2> QED BY <2>1 DEF OnceInv, Once, Distinct, Buffered, Packets
<1>5. NothingWithheld' BY <1>1 DEF PInv, NothingWithheld, Buffered, Packets
<1> QED BY <1>3, <1>4, <1>5 DEF PInv

LEMMA InitializeQueue == ASSUME ObjectsInv, PInv, Initialize PROVE PInv'
<1>1. CASE Reset BY <1>1, ResetQueue
<1>2. CASE b25 = NoDecoder /\ Fails /\ dst' = Nothing /\ UNCHANGED <<data, next, history, torn>>
  <2>1. b25' = b25 /\ stamped' \in BOOLEAN
    BY <1>2 DEF Fails, NoCardObject, CardFails, objects, PInv, QueueInv
  <2> QED BY <1>2, <2>1, SameQueue
<1>3. CASE b25 = NoDecoder /\ Opens /\ dst' = Nothing /\ UNCHANGED <<data, next, history, torn>>
  <2>1. PICK c \in Card : b25' = Registered(c) BY <1>3 DEF Opens
  <2>2. Empty(b25') /\ Empty(b25) BY <1>3, <2>1, EmptyOnes
  <2>3. Buffered(b25) = {} BY <2>2, EmptyIs
  <2>4. torn' = FALSE BY <1>3 DEF PInv, QueueInv
  <2>5. UNCHANGED <<data, next, processed, stamped>> /\ settled' = settled
    BY <1>3 DEF Opens, history, clocks
  <2> QED BY <1>3, <2>2, <2>3, <2>4, <2>5, ClearedQueue
<1> QED BY <1>1, <1>2, <1>3 DEF Initialize

LEMMA ReleaseQueue == ASSUME PInv, Release PROVE PInv'
<1>1. /\ b25' = NoDecoder /\ data' = None /\ stamped' = FALSE /\ torn' = FALSE
      /\ dst' = Nothing /\ next' = 1 /\ processed' = {} /\ settled' = {}
  BY DEF Release, Renewed
<1>2. Empty(b25') BY <1>1, EmptyOnes
<1>3. Typed(b25, next - 1)'
  <2>1. Typed(b25', 0) BY <1>2, EmptyIs
  <2> QED BY <1>1, <2>1 DEF Typed
<1>4. (dst.at \in {"none", "src", "dbuf", "data"} /\ Packets(dst.pk) \subseteq Given)'
  <2>1. Packets(Nothing.pk) = {} /\ Nothing.at = "none" BY DEF Nothing, Packets
  <2> QED BY <1>1, <2>1 DEF Packets, Given
<1>5. QueueInv'
  <2>1. next' \in 1..(Total + 1) /\ processed' \subseteq 1..(next' - 1)
    BY <1>1, WrapperAssumption
  <2> QED BY <1>1, <1>3, <1>4, <2>1 DEF QueueInv
<1>6. Once(b25', processed') BY <1>2, EmptyIs
<1>7. OnceInv' BY <1>6 DEF OnceInv, Once, Distinct, Buffered, Packets
<1>8. NothingWithheld' BY <1>1 DEF NothingWithheld
<1> QED BY <1>5, <1>7, <1>8 DEF PInv

LEMMA NextQueue ==
  ASSUME ObjectsInv, PInv, Next
  PROVE  PInv' /\ (next' # next /\ ~torn => Packets(dst'.pk) \cap processed = {})
<1>1. CASE Initialize \/ Reset
  <2>1. next' = next BY <1>1 DEF Initialize, Reset
  <2> QED BY <1>1, <2>1, InitializeQueue, ResetQueue
<1>2. CASE DecodeWithout
  <2>1. /\ b25' = b25 /\ stamped' \in BOOLEAN /\ UNCHANGED <<data, next, history, torn>>
        /\ dst' = [at |-> "src", pk |-> <<>>]
    BY <1>2
    DEF DecodeWithout, Fails, NoCardObject, CardFails, objects, clocks, PInv, QueueInv
  <2> QED BY <2>1, SameQueue
<1>3. CASE Decode BY <1>3, DecodeQueue
<1>4. CASE Flush
  <2>1. next' = next BY <1>4 DEF Flush
  <2> QED BY <1>4, <2>1, FlushQueue
<1>5. CASE Release
  <2>1. Packets(dst'.pk) = {} BY <1>5 DEF Release, Renewed, Nothing, Packets
  <2> QED BY <1>5, <2>1, ReleaseQueue
<1>6. CASE Tick
  <2>1. UNCHANGED <<b25, data, next, history, torn>> /\ stamped' \in BOOLEAN /\ dst' = dst
    BY <1>6 DEF Tick, objects, PInv, QueueInv
  <2> QED BY <2>1, SameQueue
<1> QED BY <1>1, <1>2, <1>3, <1>4, <1>5, <1>6 DEF Next

----------------------------------------------------------------------------
(* The theorems.                                                           *)

LEMMA InitPInv == Init => PInv
<1> SUFFICES ASSUME Init PROVE PInv OBVIOUS
<1>1. /\ b25 = NoDecoder /\ data = None /\ stamped = FALSE /\ torn = FALSE
      /\ dst = Nothing /\ next = 1 /\ processed = {} /\ settled = {}
  BY DEF Init
<1>2. Empty(b25) BY <1>1, EmptyOnes
<1>3. Typed(b25, next - 1)
  <2>1. Typed(b25, 0) BY <1>2, EmptyIs
  <2> QED BY <1>1, <2>1
<1>4. Packets(Nothing.pk) = {} /\ Nothing.at = "none" BY DEF Nothing, Packets
<1>5. QueueInv
  <2>1. next \in 1..(Total + 1) /\ processed \subseteq 1..(next - 1)
    BY <1>1, WrapperAssumption
  <2>2. dst.at \in {"none", "src", "dbuf", "data"} /\ Packets(dst.pk) \subseteq Given
    BY <1>1, <1>4
  <2> QED BY <1>1, <1>3, <2>1, <2>2 DEF QueueInv
<1>6. OnceInv BY <1>2, EmptyIs DEF OnceInv
<1>7. NothingWithheld BY <1>1 DEF NothingWithheld
<1> QED BY <1>5, <1>6, <1>7 DEF PInv

LEMMA StepPInv == WInv /\ PInv /\ [Next]_vars => PInv'
<1> SUFFICES ASSUME WInv, PInv, [Next]_vars PROVE PInv' OBVIOUS
<1>1. CASE Next BY <1>1, NextQueue DEF WInv
<1>2. CASE UNCHANGED vars
  <2>1. UNCHANGED <<b25, data, next, history, torn>> /\ stamped' \in BOOLEAN /\ dst' = dst
    BY <1>2 DEF vars, objects, clocks, PInv, QueueInv
  <2> QED BY <2>1, SameQueue
<1> QED BY <1>1, <1>2

LEMMA InitWInv == Init => WInv
<1> SUFFICES ASSUME Init PROVE WInv OBVIOUS
<1>1. ObjectsInv BY NoDecoderHolds DEF Init, ObjectsInv
<1>2. ClockInv BY WrapperAssumption DEF Init, ClockInv, AnyTime
<1>3. HandedValid BY DEF Init, HandedValid, Nothing
<1> QED BY <1>1, <1>2, <1>3 DEF WInv

LEMMA StepWInv == WInv /\ [Next]_vars => WInv'
<1> SUFFICES ASSUME WInv, [Next]_vars PROVE WInv' OBVIOUS
<1>1. CASE Next BY <1>1, NextObjects, NextClock DEF WInv
<1>2. CASE UNCHANGED vars
  BY <1>2 DEF vars, objects, clocks, WInv, ObjectsInv, ClockInv, HandedValid
<1> QED BY <1>1, <1>2

\* No card object is leaked, released twice or lost to its decoder, over any
\* number of initialisations that fail and decoders that are given up.
THEOREM CardOwned == Spec => []CardWithDecoder
<1>1. WInv => CardWithDecoder BY HoldsCard DEF WInv, ObjectsInv, CardWithDecoder
<1> QED BY <1>1, InitWInv, StepWInv, PTL DEF Spec

\* The packets a call hands out are in memory that stays until the next call.
THEOREM HandedStays == Spec => []HandedValid
<1>1. WInv => HandedValid BY DEF WInv
<1> QED BY <1>1, InitWInv, StepWInv, PTL DEF Spec

\* However errors set _errtime, Decode makes no attempt to open a card, be it one
\* that succeeds, within RETRY_INTERVAL of one that was made and not opened, by
\* Decode or by Initialize, or that was given up.
THEOREM RetriesSpaced == Spec => RetrySpaced
<1>1. WInv /\ [Next]_vars => [tries' # tries => waited > Interval]_vars
  <2> SUFFICES ASSUME WInv, [Next]_vars, ~UNCHANGED vars
               PROVE  tries' # tries => waited > Interval
    OBVIOUS
  <2> QED BY NextClock DEF WInv
<1> QED BY <1>1, InitWInv, StepWInv, PTL DEF Spec, RetrySpaced

\* The state has the types its declarations give it.  Every packet in the decoder's
\* buffers is one the client has given to this object; so is every packet handed
\* out or kept in _data, but for the places of a rollback over a shorter buffer.
THEOREM TypeCorrect == Spec => []TypeOK
<1>1. WInv /\ PInv => TypeOK
  <2> SUFFICES ASSUME WInv, PInv PROVE TypeOK OBVIOUS
  <2>1. bcas \in Card \cup {None} /\ live \subseteq Card /\ b25.card = bcas
    BY HoldsCard DEF WInv, ObjectsInv
  <2>2. Buffered(b25) \subseteq Given \ {0}
    <3>1. Packets(b25.in) \subseteq 1..(next - 1) /\ Packets(b25.done) \subseteq 1..(next - 1)
      BY PacketsIn DEF PInv, QueueInv, Typed
    <3>2. 1..(next - 1) \subseteq Given \ {0} BY WrapperAssumption DEF PInv, QueueInv, Given
    <3> QED BY <3>1, <3>2 DEF Buffered
  <2>3. /\ data # None => Packets(data) \subseteq Given
        /\ dst.at \in {"none", "src", "dbuf", "data"} /\ Packets(dst.pk) \subseteq Given
        /\ next \in 1..(Total + 1) /\ stamped \in BOOLEAN /\ torn \in BOOLEAN
    BY DEF PInv, QueueInv
  <2>4. /\ since \in -1..(Interval + 1) /\ tries \in 0..1
        /\ waited \in 0..(Interval + 1) /\ lacked \in 0..(Interval + 1)
    BY DEF WInv, ClockInv
  <2> QED BY <2>1, <2>2, <2>3, <2>4 DEF TypeOK
<1> QED BY <1>1, InitWInv, StepWInv, InitPInv, StepPInv, PTL DEF Spec

\* A packet that came out of get is neither in the decoder nor handed out again,
\* over failed puts, withdrawals, retries and flushes.
THEOREM HandedOnce == Spec => ProcessedOnce
<1>1. WInv /\ PInv /\ [Next]_vars =>
        [next' # next /\ ~torn => Packets(dst'.pk) \cap processed = {}]_vars
  <2> SUFFICES ASSUME WInv, PInv, [Next]_vars, ~UNCHANGED vars
               PROVE  next' # next /\ ~torn => Packets(dst'.pk) \cap processed = {}
    OBVIOUS
  <2> QED BY NextQueue DEF WInv
<1> QED BY <1>1, InitWInv, StepWInv, InitPInv, StepPInv, PTL DEF Spec, ProcessedOnce

\* What Decode took is handed out, dropped by the decoder or still in it, however
\* its puts fail.
THEOREM NoneWithheld == Spec => []NothingWithheld
<1>1. PInv => NothingWithheld BY DEF PInv
<1> QED BY <1>1, InitWInv, StepWInv, InitPInv, StepPInv, PTL DEF Spec
=============================================================================
