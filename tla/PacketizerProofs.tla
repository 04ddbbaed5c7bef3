-------------------------- MODULE PacketizerProofs --------------------------
(***************************************************************************)
(* The input buffer holds the end of what was received, packets come out   *)
(* in order, the pool stays bounded, the unit size of a regular stream is  *)
(* found, and cutting the input differently changes nothing: for every     *)
(* stream, packet size and way to cut it.                                  *)
(***************************************************************************)
EXTENDS Packetizer, FiniteSetTheorems, SequenceTheorems, WellFoundedInduction, TLAPS

----------------------------------------------------------------------------
(* Induction.  The library has it with a predicate as a parameter; here it *)
(* is stated with sets, and comes from the order of finite sets.           *)

Below(n) == 0..(n - 1)

\* A set of numbers that is not empty has a least element.
LEMMA LeastNat ==
  ASSUME NEW T, T \subseteq Nat, T # {}
  PROVE  \E x \in T : \A y \in T : x <= y
<1> DEFINE B == {Below(n) : n \in T}
<1>1. B \subseteq FiniteSubsetsOf(Nat)
  <2>1. SUFFICES ASSUME NEW n \in T PROVE Below(n) \in FiniteSubsetsOf(Nat)
    OBVIOUS
  <2>2. n \in Nat OBVIOUS
  <2>3. IsFiniteSet(Below(n)) BY <2>2, FS_Interval DEF Below
  <2>4. Below(n) \subseteq Nat BY <2>2 DEF Below
  <2> QED BY <2>3, <2>4 DEF FiniteSubsetsOf
<1>2. B # {} OBVIOUS
<1>3. PICK b \in B : \A y \in B : ~(<<y, b>> \in StrictSubsetOrdering(Nat))
  <2> HIDE DEF B
  <2>1. IsWellFoundedOn(StrictSubsetOrdering(Nat), FiniteSubsetsOf(Nat))
    BY FS_StrictSubsetOrderingWellFounded
  <2> QED BY <1>1, <1>2, <2>1, WFMin
<1>4. PICK x \in T : b = Below(x) OBVIOUS
<1>5. ASSUME NEW y \in T PROVE x <= y
  <2>1. x \in Nat /\ y \in Nat OBVIOUS
  <2>2. SUFFICES ASSUME y < x PROVE FALSE BY <2>1
  <2>3. Below(y) \subseteq Below(x) BY <2>1, <2>2 DEF Below
  <2>4. y \in Below(x) /\ y \notin Below(y) BY <2>1, <2>2 DEF Below
  <2>5. Below(y) # Below(x) BY <2>4
  <2>6. Below(y) \subseteq Nat /\ Below(x) \subseteq Nat BY <2>1 DEF Below
  <2>7. <<Below(y), b>> \in StrictSubsetOrdering(Nat)
    BY <2>3, <2>5, <2>6, <1>4 DEF StrictSubsetOrdering
  <2> QED BY <2>7, <1>3
<1> QED BY <1>5

\* T has all numbers from limit on, and each number when it has all greater ones.
Descends(T, limit) ==
  /\ \A k \in Nat : limit <= k => k \in T
  /\ \A k \in Nat : k < limit /\ (\A j \in Nat : k < j => j \in T) => k \in T

\* Such a set has all numbers.
LEMMA Downward ==
  ASSUME NEW T, NEW limit \in Nat, Descends(T, limit)
  PROVE  Nat \subseteq T
<1> DEFINE S == {m \in Nat : \A k \in Nat : m <= k => k \in T}
<1>1. limit \in S BY DEF Descends
<1>2. PICK m \in S : \A y \in S : m <= y
  <2>1. S \subseteq Nat /\ S # {} BY <1>1
  <2> HIDE DEF S
  <2> QED BY <2>1, LeastNat
<1>3. m \in Nat /\ \A k \in Nat : m <= k => k \in T OBVIOUS
<1>4. CASE m = 0 BY <1>3, <1>4
<1>5. CASE m # 0
  <2>1. m - 1 \in Nat BY <1>3, <1>5
  <2>2. m - 1 \in T BY <1>3, <2>1 DEF Descends
  <2>3. m - 1 \in S BY <1>3, <2>1, <2>2
  <2> QED BY <1>2, <1>3, <2>3
<1> QED BY <1>4, <1>5

\* f solves its equation from m on.
SolvesFrom(f, V, limit, stop, nxt, g, m) ==
  /\ f \in [Nat -> V]
  /\ \A k \in Nat : m <= k => f[k] = IF k < limit THEN g[k][f[nxt[k]]] ELSE stop[k]

Upwards(nxt, limit) == \A k \in Nat : k < limit => k < nxt[k]

\* A recursion that goes upwards to a limit defines a function.
LEMMA Recursion ==
  ASSUME NEW V, NEW limit \in Nat, NEW stop \in [Nat -> V], NEW nxt \in [Nat -> Nat],
         NEW g \in [Nat -> [V -> V]], Upwards(nxt, limit)
  PROVE  \E f : SolvesFrom(f, V, limit, stop, nxt, g, 0)
<1> DEFINE T == {m \in Nat : \E f : SolvesFrom(f, V, limit, stop, nxt, g, m)}
<1>1. limit \in T
  <2>1. SolvesFrom(stop, V, limit, stop, nxt, g, limit) BY DEF SolvesFrom
  <2> QED BY <2>1
<1>2. PICK m \in T : \A y \in T : m <= y
  <2>1. T \subseteq Nat /\ T # {} BY <1>1
  <2> HIDE DEF T
  <2> QED BY <2>1, LeastNat
<1>3. PICK f : SolvesFrom(f, V, limit, stop, nxt, g, m) OBVIOUS
<1>4. CASE m = 0 BY <1>3, <1>4
<1>5. CASE m # 0
  <2>1. m \in Nat /\ m - 1 \in Nat BY <1>5
  <2> DEFINE h == [f EXCEPT ![m - 1] = IF m - 1 < limit THEN g[m - 1][f[nxt[m - 1]]] ELSE stop[m - 1]]
  <2>2. h \in [Nat -> V] BY <2>1, <1>3 DEF SolvesFrom
  <2>3. ASSUME NEW k \in Nat, m - 1 <= k
        PROVE  h[k] = IF k < limit THEN g[k][h[nxt[k]]] ELSE stop[k]
    <3>1. CASE k = m - 1
      <4>1. k < limit => h[nxt[k]] = f[nxt[k]] BY <2>1, <3>1, <1>3 DEF SolvesFrom, Upwards
      <4> QED BY <4>1, <3>1, <2>1, <1>3 DEF SolvesFrom
    <3>2. CASE m <= k
      <4>1. k < limit => h[nxt[k]] = f[nxt[k]] BY <2>1, <3>2, <1>3 DEF SolvesFrom, Upwards
      <4>2. h[k] = f[k] BY <2>1, <3>2, <1>3 DEF SolvesFrom
      <4> QED BY <4>1, <4>2, <3>2, <1>3 DEF SolvesFrom
    <3> QED BY <2>1, <2>3, <3>1, <3>2
  <2>4. SolvesFrom(h, V, limit, stop, nxt, g, m - 1) BY <2>2, <2>3 DEF SolvesFrom
  <2>5. m - 1 \in T BY <2>1, <2>4
  <2> QED BY <2>5, <1>2, <2>1
<1> QED BY <1>4, <1>5

----------------------------------------------------------------------------
(* The size of a new pool.                                                 *)

\* The doubling of reserve_work_buffer ends at the first size that is enough.
LEMMA DoubledIs ==
  ASSUME NEW n \in Nat \ {0}, NEW size \in Nat
  PROVE  /\ Doubled(n, size) \in Nat /\ Doubled(n, size) >= size
         /\ Doubled(n, size) = n \/ Doubled(n, size) < 2 * size
<1> DEFINE Body(f) == [m \in Nat |-> IF m < size THEN f[2 * m] ELSE m]
           D == CHOOSE f : f = Body(f)
<1>1. Doubled(n, size) = D[n] BY DEF Doubled
<1>2. \E f : f = Body(f)
  <2>1. PICK stop \in [Nat -> Nat] : stop = [m \in Nat |-> m] OBVIOUS
  <2>2. PICK nxt \in [Nat -> Nat] : nxt = [m \in Nat |-> IF m = 0 THEN 1 ELSE 2 * m]
    <3>1. \A m \in Nat : (IF m = 0 THEN 1 ELSE 2 * m) \in Nat OBVIOUS
    <3> QED BY <3>1
  <2>3. PICK g \in [Nat -> [Nat -> Nat]] :
          g = [m \in Nat |-> [v \in Nat |-> IF m = 0 THEN 0 ELSE v]] OBVIOUS
  <2>4. Upwards(nxt, size) BY <2>2 DEF Upwards
  <2>5. PICK f : SolvesFrom(f, Nat, size, stop, nxt, g, 0) BY <2>4, Recursion
  <2>6. /\ f \in [Nat -> Nat]
        /\ \A k \in Nat : f[k] = IF k < size THEN g[k][f[nxt[k]]] ELSE stop[k]
    BY <2>5 DEF SolvesFrom
  <2>7. PICK e \in [Nat -> Nat] : e = [f EXCEPT ![0] = 0] BY <2>6
  <2>8. ASSUME NEW k \in Nat PROVE e[k] = IF k < size THEN e[2 * k] ELSE k
    <3>1. CASE k = 0 BY <2>7, <3>1
    <3>2. CASE k # 0
      <4>1. nxt[k] = 2 * k /\ stop[k] = k BY <2>1, <2>2, <3>2
      <4>2. 2 * k \in Nat /\ f[2 * k] \in Nat BY <2>6, <3>2
      <4>3. g[k][f[2 * k]] = f[2 * k] BY <2>3, <3>2, <4>2
      <4>4. e[k] = f[k] /\ e[2 * k] = f[2 * k] BY <2>6, <2>7, <3>2
      <4> QED BY <2>6, <4>1, <4>3, <4>4
    <3> QED BY <3>1, <3>2
  <2>9. e = Body(e) BY <2>8
  <2> QED BY <2>9
<1>3. D = Body(D) BY <1>2
<1>4. \A m \in Nat : D[m] = IF m < size THEN D[2 * m] ELSE m
  <2> HIDE DEF D
  <2>1. PICK E : E = D OBVIOUS
  <2>2. E = Body(E) BY <1>3, <2>1
  <2> QED BY <2>1, <2>2
<1> HIDE DEF D
<1> DEFINE T == {m \in Nat : m = 0 \/ 2 * size <= m \/ D[m] \in size..(2 * size - 1)}
<1>5. \A k \in Nat : size <= k => k \in T BY <1>4
<1>6. \A k \in Nat : k < size /\ (\A j \in Nat : k < j => j \in T) => k \in T
  <2> SUFFICES ASSUME NEW k \in Nat, k < size, \A j \in Nat : k < j => j \in T
               PROVE  k \in T
    OBVIOUS
  <2>1. CASE k = 0 BY <2>1
  <2>2. CASE k # 0
    <3>1. 2 * k \in T /\ 2 * k \in Nat BY <2>2
    <3>2. D[2 * k] \in size..(2 * size - 1) BY <3>1, <2>2
    <3> QED BY <1>4, <3>2
  <2> QED BY <2>1, <2>2
<1>7. Nat \subseteq T
  <2>1. Descends(T, size) BY <1>5, <1>6 DEF Descends
  <2> HIDE DEF T
  <2> QED BY <2>1, Downward
<1>8. n \in T BY <1>7
<1>9. CASE n < size BY <1>1, <1>8, <1>9
<1>10. CASE size <= n BY <1>1, <1>4, <1>10
<1> QED BY <1>9, <1>10

----------------------------------------------------------------------------
(* The invariant.                                                          *)

Bytes == {Sync, Other, Pat, Broken}

Units == Packet..(UnitEnd - 1)

\* How many bytes were received in front of offset p of the pool
Place(p) == Len(input) - Len(mem) + p

\* The offset of the first byte that has not been looked at
At == IF stage = "none" THEN head ELSE curr

\* m has the last of the first n numbers.
EndOf(m, n) ==
  /\ m \in Seq(Nat) /\ Len(m) <= n
  /\ \A i \in 1..Len(m) : m[i] = n - Len(m) + i

\* The pool holds the end of the input.
BufferInv ==
  /\ input \in Seq(Bytes) /\ EndOf(mem, Len(input))
  /\ head \in 0..Len(mem) /\ max \in Nat /\ Len(mem) <= max
  /\ over \in Nat

\* Where the loops are
LoopInv ==
  /\ unit \in {0} \cup Units /\ stage \in {"none", "proc", "rest"} /\ curr \in Nat
  /\ flush \in BOOLEAN /\ cut \in {"no", "pat", "flush"}
  /\ stage = "none" => ~flush
  /\ stage # "none" => unit # 0 /\ head <= curr
  /\ stage = "proc" => curr <= Len(mem)
  /\ stage = "rest" => flush
  /\ flush => cut = "flush"
  /\ unit = 0 => stage = "none" /\ head = 0 /\ Len(mem) = Len(input) /\ out = <<>>

\* s has numbers up to top, each greater than those in front of it.
Rising(s, top) ==
  /\ s \in Seq(Nat)
  /\ \A i, j \in 1..Len(s) : i < j => s[i] < s[j]
  /\ \A i \in 1..Len(s) : s[i] <= top

\* All that came out was in front of the byte at hand.
OutInv == Rising(out, Place(At)) /\ Rising(out, Len(input))

\* No more than half of the pool is in front of head.
SizeInv ==
  /\ peak \in Nat /\ 2 * head <= max
  /\ max <= FirstSize \/ max < 4 * peak

PInv == BufferInv /\ LoopInv /\ OutInv /\ SizeInv

----------------------------------------------------------------------------
(* What the operations on the pool do.                                     *)

LEMMA FromIs ==
  ASSUME NEW S, NEW s \in Seq(S), NEW p \in Nat
  PROVE  /\ From(s, p) \in Seq(S)
         /\ Len(From(s, p)) = IF p <= Len(s) THEN Len(s) - p ELSE 0
         /\ \A i \in 1..Len(From(s, p)) : From(s, p)[i] = s[p + i]
<1>1. \A i \in (p + 1)..Len(s) : s[i] \in S OBVIOUS
<1>2. Len(s) \in Nat OBVIOUS
<1>3. /\ SubSeq(s, p + 1, Len(s)) \in Seq(S)
      /\ Len(SubSeq(s, p + 1, Len(s))) = IF p + 1 <= Len(s) THEN Len(s) - (p + 1) + 1 ELSE 0
      /\ \A i \in 1..(Len(s) - (p + 1) + 1) : SubSeq(s, p + 1, Len(s))[i] = s[p + 1 + i - 1]
  BY <1>1, <1>2, SubSeqProperties
<1> QED BY <1>2, <1>3 DEF From

LEMMA PartIs ==
  ASSUME NEW S, NEW s \in Seq(S), NEW p \in Nat, NEW n \in Nat, p + n <= Len(s)
  PROVE  /\ Part(s, p, n) \in Seq(S)
         /\ Len(Part(s, p, n)) = n
         /\ \A i \in 1..n : Part(s, p, n)[i] = s[p + i]
<1>1. \A i \in (p + 1)..(p + n) : s[i] \in S OBVIOUS
<1>2. /\ SubSeq(s, p + 1, p + n) \in Seq(S)
      /\ Len(SubSeq(s, p + 1, p + n)) = IF p + 1 <= p + n THEN p + n - (p + 1) + 1 ELSE 0
      /\ \A i \in 1..(p + n - (p + 1) + 1) : SubSeq(s, p + 1, p + n)[i] = s[p + 1 + i - 1]
  BY <1>1, SubSeqProperties
<1> QED BY <1>2 DEF Part

LEMMA EndFrom ==
  ASSUME NEW m, NEW n \in Nat, EndOf(m, n), NEW p \in Nat
  PROVE  /\ EndOf(From(m, p), n)
         /\ Len(From(m, p)) = IF p <= Len(m) THEN Len(m) - p ELSE 0
<1>1. m \in Seq(Nat) /\ Len(m) \in Nat /\ Len(m) <= n BY DEF EndOf
<1>2. PICK a : a = From(m, p) OBVIOUS
<1>3. /\ a \in Seq(Nat) /\ Len(a) = IF p <= Len(m) THEN Len(m) - p ELSE 0
      /\ \A i \in 1..Len(a) : a[i] = m[p + i]
  BY <1>1, <1>2, FromIs
<1>4. ASSUME NEW i \in 1..Len(a) PROVE a[i] = n - Len(a) + i
  <2>0. Len(a) = (IF p <= Len(m) THEN Len(m) - p ELSE 0) /\ Len(m) \in Nat BY <1>1, <1>3
  <2>1. p + i \in 1..Len(m) /\ Len(a) = Len(m) - p BY <2>0
  <2>2. m[p + i] = n - Len(m) + (p + i) BY <2>1 DEF EndOf
  <2>3. a[i] = m[p + i] BY <1>3
  <2>4. n - Len(m) + (p + i) = n - (Len(m) - p) + i BY <1>1
  <2> QED BY <2>1, <2>2, <2>3, <2>4
<1>5. Len(a) <= n BY <1>1, <1>3
<1> QED BY <1>2, <1>3, <1>4, <1>5 DEF EndOf

LEMMA EndMore ==
  ASSUME NEW a, NEW n \in Nat, EndOf(a, n), NEW d \in Seq(Nat),
         \A i \in 1..Len(d) : d[i] = n + i
  PROVE  EndOf(a \o d, n + Len(d)) /\ Len(a \o d) = Len(a) + Len(d)
<1>0. a \in Seq(Nat) /\ Len(a) <= n BY DEF EndOf
<1>1. /\ a \o d \in Seq(Nat) /\ Len(a \o d) = Len(a) + Len(d)
      /\ \A i \in 1..(Len(a) + Len(d)) : (a \o d)[i] = IF i <= Len(a) THEN a[i] ELSE d[i - Len(a)]
  BY <1>0, ConcatProperties
<1>2. Len(a) \in Nat /\ Len(d) \in Nat BY <1>0
<1>3. ASSUME NEW i \in 1..(Len(a) + Len(d)) PROVE (a \o d)[i] = n - Len(a) + i
  <2>1. CASE i <= Len(a)
    <3>1. (a \o d)[i] = a[i] BY <1>1, <2>1
    <3>2. a[i] = n - Len(a) + i BY <1>2, <2>1 DEF EndOf
    <3> QED BY <3>1, <3>2
  <2>2. CASE i > Len(a)
    <3>1. i - Len(a) \in 1..Len(d) BY <1>2, <2>2
    <3>2. (a \o d)[i] = d[i - Len(a)] BY <1>1, <1>2, <2>2
    <3> QED BY <1>2, <3>1, <3>2
  <2> QED BY <1>2, <2>1, <2>2
<1>4. PICK b : b = a \o d OBVIOUS
<1>5. b \in Seq(Nat) /\ Len(b) = Len(a) + Len(d) /\ Len(b) <= n + Len(d)
  BY <1>0, <1>1, <1>2, <1>4
<1>6. ASSUME NEW i \in 1..Len(b) PROVE b[i] = (n + Len(d)) - Len(b) + i
  <2>1. b[i] = n - Len(a) + i BY <1>3, <1>4, <1>5
  <2> QED BY <1>2, <1>5, <2>1
<1> QED BY <1>4, <1>5, <1>6 DEF EndOf

\* LAST of proc_arib_std_b25: the same bytes stay, and at most half of the pool
\* is in front of them.
LEMMA Compacted ==
  ASSUME BufferInv, SizeInv, NEW p \in Nat, Compact(p), UNCHANGED <<input, peak>>
  PROVE  /\ BufferInv' /\ SizeInv'
         /\ Len(input) - Len(mem') + head' = IF p <= Len(mem) THEN Place(p) ELSE Len(input)
         /\ Len(mem') <= Len(mem)
<1>0. /\ Len(input) \in Nat /\ Len(mem) \in Nat /\ head \in Nat /\ max \in Nat
      /\ input \in Seq(Bytes) /\ Len(mem) <= Len(input) /\ Len(mem) <= max
      /\ head <= Len(mem) /\ over \in Nat
      /\ EndOf(mem, Len(input))
      /\ input' = input /\ peak' = peak
  BY DEF BufferInv, EndOf
<1>1. CASE Len(mem) - p < Small \/ p > max \div 2
  <2>1. mem' = From(mem, p) /\ head' = 0 /\ max' = max BY <1>1 DEF Compact
  <2>2. EndOf(mem', Len(input)) /\ Len(mem') = IF p <= Len(mem) THEN Len(mem) - p ELSE 0
    BY <1>0, <2>1, EndFrom
  <2>3. over' \in Nat BY <1>0 DEF Compact
  <2>4. Len(mem') \in Nat /\ Len(mem') <= Len(mem) BY <1>0, <2>2
  <2>5. BufferInv' BY <1>0, <2>1, <2>2, <2>3, <2>4 DEF BufferInv
  <2>6. SizeInv' BY <1>0, <2>1 DEF SizeInv
  <2> QED BY <1>0, <2>1, <2>2, <2>4, <2>5, <2>6 DEF Place
<1>2. CASE ~(Len(mem) - p < Small \/ p > max \div 2)
  <2>1. mem' = mem /\ head' = p /\ max' = max BY <1>2 DEF Compact
  <2>2. p <= Len(mem) /\ 2 * p <= max
    BY <1>0, <1>2, PacketizerAssumption
  <2>3. over' \in Nat BY <1>0 DEF Compact
  <2>4. BufferInv' BY <1>0, <2>1, <2>2, <2>3 DEF BufferInv
  <2>5. SizeInv' BY <1>0, <2>1, <2>2 DEF SizeInv
  <2> QED BY <1>0, <2>1, <2>2, <2>4, <2>5 DEF Place
<1> QED BY <1>1, <1>2

\* append_work_buffer: what was live stays, and the pool is at most four times
\* as large as what it holds then.
LEMMA AppendedIs ==
  ASSUME BufferInv, SizeInv, NEW c \in Seq(Bytes),
         AppendData([i \in 1..Len(c) |-> Len(input) + i]),
         input' = input \o c,
         peak' = IF peak < Live + Len(c) THEN Live + Len(c) ELSE peak,
         UNCHANGED over
  PROVE  /\ BufferInv' /\ SizeInv'
         /\ Len(input') - Len(mem') + head' = Place(head)
         /\ Len(input') = Len(input) + Len(c)
         /\ Len(mem) = Len(input) /\ head = 0 => Len(mem') = Len(input') /\ head' = 0
<1>0. /\ Len(input) \in Nat /\ Len(mem) \in Nat /\ head \in Nat /\ max \in Nat /\ Len(c) \in Nat
      /\ input \in Seq(Bytes) /\ Len(mem) <= Len(input) /\ Len(mem) <= max
      /\ head <= Len(mem) /\ over \in Nat /\ peak \in Nat /\ 2 * head <= max
      /\ EndOf(mem, Len(input))
      /\ max <= FirstSize \/ max < 4 * peak
  BY DEF BufferInv, SizeInv, EndOf
<1>1. PICK d \in Seq(Nat) : d = [i \in 1..Len(c) |-> Len(input) + i]
  <2>1. \A i \in 1..Len(c) : Len(input) + i \in Nat BY <1>0
  <2>2. [i \in 1..Len(c) |-> Len(input) + i] \in Seq(Nat) BY <1>0, <2>1
  <2> QED BY <2>2
<1>2. Len(d) = Len(c) /\ \A i \in 1..Len(d) : d[i] = Len(input) + i
  BY <1>0, <1>1
<1>3. AppendData(d) BY <1>1
<1>4. input' \in Seq(Bytes) /\ Len(input') = Len(input) + Len(c)
  BY <1>0, ConcatProperties
<1>5. PICK size \in Nat : size = Len(mem) + Len(c) BY <1>0
<1>6. peak' \in Nat /\ peak <= peak' /\ size - head <= peak'
  BY <1>0, <1>5 DEF Live
<1>7. CASE size > max
  <2>1. max' = Reserved(size) /\ mem' = From(mem, head) \o d /\ head' = 0
    BY <1>2, <1>3, <1>5, <1>7 DEF AppendData
  <2>2. EndOf(From(mem, head), Len(input)) /\ Len(From(mem, head)) = Len(mem) - head
    BY <1>0, EndFrom
  <2>3. EndOf(mem', Len(input')) /\ Len(mem') = size - head
    <3>1. EndOf(mem', Len(input) + Len(d)) /\ Len(mem') = Len(From(mem, head)) + Len(d)
      BY <1>0, <1>2, <2>1, <2>2, EndMore
    <3> QED BY <1>0, <1>2, <1>4, <1>5, <2>2, <3>1
  <2>6. PICK n \in Nat \ {0} : n = IF max < FirstSize THEN FirstSize ELSE 2 * max
    BY <1>0, PacketizerAssumption
  <2>7. /\ max' \in Nat /\ max' >= size /\ (max' = n \/ max' < 2 * size)
    BY <2>1, <2>6, DoubledIs DEF Reserved
  <2>8. BufferInv'
    <3>1. Len(mem') \in Nat /\ Len(mem') <= max' BY <1>0, <1>5, <2>3, <2>7
    <3> QED BY <1>0, <1>4, <2>1, <2>3, <2>7, <3>1 DEF BufferInv
  <2>9. max' <= FirstSize \/ max' < 4 * peak'
    <3>1. FirstSize \in Nat BY PacketizerAssumption
    <3>2. peak' \in Nat /\ size - head <= peak' /\ 2 * head <= max /\ head \in Nat /\ max \in Nat
      BY <1>0, <1>6
    <3>3. CASE max' = n BY <1>7, <2>6, <3>1, <3>2, <3>3
    <3>4. CASE max' < 2 * size BY <1>7, <2>7, <3>2, <3>4
    <3> QED BY <2>7, <3>3, <3>4
  <2>10. SizeInv' BY <1>6, <2>1, <2>7, <2>9 DEF SizeInv
  <2>11. Len(input') - Len(mem') + head' = Place(head)
    BY <1>0, <1>4, <1>5, <2>1, <2>3 DEF Place
  <2>12. Len(mem) = Len(input) /\ head = 0 => Len(mem') = Len(input') /\ head' = 0
    BY <1>0, <1>4, <1>5, <2>1, <2>3
  <2> QED BY <1>4, <2>8, <2>10, <2>11, <2>12
<1>8. CASE size <= max
  <2>1. mem' = mem \o d /\ head' = head /\ max' = max
    BY <1>0, <1>2, <1>3, <1>5, <1>8 DEF AppendData
  <2>2. EndOf(mem', Len(input')) /\ Len(mem') = size
    <3>1. EndOf(mem', Len(input) + Len(d)) /\ Len(mem') = Len(mem) + Len(d)
      BY <1>0, <1>2, <2>1, EndMore
    <3> QED BY <1>0, <1>2, <1>4, <1>5, <3>1
  <2>3. BufferInv' BY <1>0, <1>4, <1>5, <1>8, <2>1, <2>2 DEF BufferInv
  <2>4. SizeInv' BY <1>0, <1>6, <2>1 DEF SizeInv
  <2>5. Len(input') - Len(mem') + head' = Place(head)
    BY <1>0, <1>2, <1>4, <1>5, <2>1, <2>2 DEF Place
  <2>6. Len(mem) = Len(input) /\ head = 0 => Len(mem') = Len(input') /\ head' = 0
    BY <1>0, <1>4, <1>5, <2>1, <2>2
  <2> QED BY <1>4, <2>3, <2>4, <2>5, <2>6
<1> QED BY <1>0, <1>5, <1>7, <1>8

----------------------------------------------------------------------------
(* What comes out.                                                         *)

LEMMA RisingUp ==
  ASSUME NEW s, NEW a \in Int, Rising(s, a), NEW b \in Int, a <= b
  PROVE  Rising(s, b)
BY DEF Rising

\* s goes on with n numbers behind b.
LEMMA RisingMore ==
  ASSUME NEW s, NEW b \in Nat, Rising(s, b), NEW n \in Nat,
         NEW d \in Seq(Nat), Len(d) = n, \A i \in 1..n : d[i] = b + i
  PROVE  Rising(s \o d, b + n)
<1>1. s \in Seq(Nat) /\ Len(s) \in Nat BY DEF Rising
<1>2. /\ s \o d \in Seq(Nat) /\ Len(s \o d) = Len(s) + n
      /\ \A i \in 1..(Len(s) + n) : (s \o d)[i] = IF i <= Len(s) THEN s[i] ELSE d[i - Len(s)]
  BY <1>1, ConcatProperties
<1>3. PICK t : t = s \o d OBVIOUS
<1>4. ASSUME NEW i \in 1..(Len(s) + n)
      PROVE  /\ i <= Len(s) => t[i] = s[i] /\ s[i] \in Nat /\ s[i] <= b
             /\ i > Len(s) => t[i] = b + (i - Len(s))
  <2>1. i <= Len(s) => t[i] = s[i] /\ s[i] \in Nat /\ s[i] <= b
    BY <1>1, <1>2, <1>3 DEF Rising
  <2>2. ASSUME i > Len(s) PROVE t[i] = b + (i - Len(s))
    <3>1. i - Len(s) \in 1..n BY <1>1, <2>2
    <3>2. t[i] = d[i - Len(s)] BY <1>1, <1>2, <1>3, <2>2
    <3> QED BY <3>1, <3>2
  <2> QED BY <2>1, <2>2
<1>5. ASSUME NEW i \in 1..(Len(s) + n), NEW j \in 1..(Len(s) + n), i < j
      PROVE  t[i] < t[j]
  <2>1. CASE j <= Len(s)
    <3>1. i \in 1..Len(s) /\ j \in 1..Len(s) BY <1>1, <1>5, <2>1
    <3>2. s[i] < s[j] BY <1>5, <3>1 DEF Rising
    <3> QED BY <1>4, <1>5, <2>1, <3>1, <3>2
  <2>2. CASE j > Len(s)
    <3>1. t[j] = b + (j - Len(s)) BY <1>4, <2>2
    <3>2. CASE i <= Len(s)
      <4>1. t[i] \in Nat /\ t[i] <= b BY <1>4, <3>2
      <4> QED BY <1>1, <2>2, <3>1, <4>1
    <3>3. CASE i > Len(s)
      <4>1. t[i] = b + (i - Len(s)) BY <1>4, <3>3
      <4> QED BY <1>1, <1>5, <3>1, <4>1
    <3> QED BY <1>1, <3>2, <3>3
  <2> QED BY <1>1, <2>1, <2>2
<1>6. ASSUME NEW i \in 1..(Len(s) + n) PROVE t[i] <= b + n
  <2>1. CASE i <= Len(s)
    <3>1. t[i] \in Nat /\ t[i] <= b BY <1>4, <2>1
    <3> QED BY <3>1
  <2>2. CASE i > Len(s)
    <3>1. t[i] = b + (i - Len(s)) BY <1>4, <2>2
    <3> QED BY <1>1, <3>1
  <2> QED BY <1>1, <2>1, <2>2
<1> QED BY <1>2, <1>3, <1>5, <1>6 DEF Rising

\* The packets of the pool between offsets p and p + n follow what came out.
LEMMA RisingPart ==
  ASSUME BufferInv, NEW s, NEW p \in Nat, NEW n \in Nat, p + n <= Len(mem),
         Rising(s, Place(p))
  PROVE  Rising(s \o Part(mem, p, n), Place(p + n))
<1>1. mem \in Seq(Nat) /\ Len(mem) \in Nat /\ Len(input) \in Nat /\ Len(mem) <= Len(input)
  BY DEF BufferInv, EndOf
<1>2. PICK d : d = Part(mem, p, n) OBVIOUS
<1>3. d \in Seq(Nat) /\ Len(d) = n /\ \A i \in 1..n : d[i] = mem[p + i]
  <2>1. mem \in Seq(Nat) BY <1>1
  <2> QED BY <1>2, <2>1, PartIs
<1>4. Place(p) \in Nat /\ Place(p) + n = Place(p + n) BY <1>1 DEF Place
<1>5. ASSUME NEW i \in 1..n PROVE d[i] = Place(p) + i
  <2>1. p + i \in 1..Len(mem) BY <1>1
  <2>2. mem[p + i] = Len(input) - Len(mem) + (p + i) BY <2>1 DEF BufferInv, EndOf
  <2>3. d[i] = mem[p + i] BY <1>3
  <2> QED BY <1>1, <2>2, <2>3 DEF Place
<1>6. Rising(s \o d, Place(p) + n) BY <1>3, <1>4, <1>5, RisingMore
<1> QED BY <1>2, <1>4, <1>6

----------------------------------------------------------------------------
(* The unit size.                                                          *)

LEMMA CountIs ==
  ASSUME NEW t, Len(t) \in Nat, NEW i \in Nat
  PROVE  Count(t, i) \in 0..Len(t)
<1> DEFINE P == {p \in 1..(Len(t) - i) : t[p] = Sync /\ t[p + i] = Sync}
<1>1. P \subseteq 1..Len(t) OBVIOUS
<1>2. IsFiniteSet(1..Len(t)) /\ Cardinality(1..Len(t)) = Len(t)
  <2>1. PICK n \in Nat : n = Len(t) OBVIOUS
  <2>2. IsFiniteSet(1..n) /\ Cardinality(1..n) = IF 1 > n THEN 0 ELSE n - 1 + 1 BY FS_Interval
  <2> QED BY <2>1, <2>2
<1>3. IsFiniteSet(P) /\ Cardinality(P) <= Cardinality(1..Len(t))
  <2> HIDE DEF P
  <2> QED BY <1>1, <1>2, FS_Subset
<1>4. Cardinality(P) \in Nat
  <2> HIDE DEF P
  <2> QED BY <1>3, FS_CardinalityType
<1>5. Count(t, i) = Cardinality(P) BY DEF Count
<1> QED BY <1>2, <1>3, <1>4, <1>5

\* Interval i has been counted at least as often as the others, and those
\* counted as often are not smaller.
Best(t, i) ==
  \A j \in Units : Count(t, j) < Count(t, i) \/ (Count(t, j) = Count(t, i) /\ i <= j)

LEMMA BestExists ==
  ASSUME NEW t, Len(t) \in Nat
  PROVE  \E i \in Units : Best(t, i)
<1>1. Units \subseteq Nat /\ Packet \in Units
  BY PacketizerAssumption DEF Units
<1>2. \A i \in Units : Count(t, i) \in 0..Len(t) BY <1>1, CountIs
<1> DEFINE T == {Len(t) - Count(t, i) : i \in Units}
<1>3. PICK x \in T : \A y \in T : x <= y
  <2>1. T \subseteq Nat
    <3>1. \A i \in Units : Len(t) - Count(t, i) \in Nat BY <1>2
    <3> QED BY <3>1
  <2>2. T # {} BY <1>1
  <2> HIDE DEF T
  <2> QED BY <2>1, <2>2, LeastNat
<1>4. \A j \in Units : x <= Len(t) - Count(t, j) BY <1>3
<1> DEFINE W == {i \in Units : x = Len(t) - Count(t, i)}
<1>5. PICK i \in W : \A y \in W : i <= y
  <2>1. W \subseteq Nat /\ W # {} BY <1>1, <1>3
  <2> HIDE DEF W
  <2> QED BY <2>1, LeastNat
<1>6. ASSUME NEW j \in Units
      PROVE  Count(t, j) < Count(t, i) \/ (Count(t, j) = Count(t, i) /\ i <= j)
  <2>1. /\ Count(t, j) \in 0..Len(t) /\ Count(t, i) \in 0..Len(t)
        /\ x = Len(t) - Count(t, i) /\ x <= Len(t) - Count(t, j)
    BY <1>2, <1>4, <1>5
  <2>2. Count(t, j) = Count(t, i) => j \in W BY <2>1
  <2> QED BY <1>5, <2>1, <2>2
<1> QED BY <1>5, <1>6 DEF Best

LEMMA SelectedIs ==
  ASSUME NEW s \in Seq(Bytes)
  PROVE  /\ Selected(s) \in {0} \cup Units
         /\ Selected(s) # 0 => Best(Inspected(s), Selected(s))
<1>1. PICK t : t = Inspected(s) OBVIOUS
<1>2. Len(t) \in Nat
  <2>1. Len(s) \in Nat OBVIOUS
  <2>2. HeadPackets * Packet \in Nat BY PacketizerAssumption
  <2>3. PICK m \in Nat : m = HeadPackets * Packet BY <2>2
  <2>4. 2 * HeadPackets * Packet = 2 * m BY <2>3, PacketizerAssumption
  <2>5. PICK n \in Nat : n = (IF Len(s) > 2 * m THEN 2 * m ELSE Len(s)) /\ n <= Len(s)
    BY <2>1
  <2>6. t = Part(s, 0, n) BY <1>1, <2>4, <2>5 DEF Inspected
  <2> QED BY <2>5, <2>6, PartIs
<1> DEFINE b == CHOOSE i \in Units : Best(t, i)
<1>3. b \in Units /\ Best(t, b) BY <1>2, BestExists
<1>4. Selected(s) = IF Len(s) < HeadPackets * Packet THEN 0
                    ELSE IF Count(t, b) < MinCount \/ (Count(t, b) + 3) * b < Len(t) THEN 0
                    ELSE b
  BY <1>1 DEF Selected, Best, Units
<1> HIDE DEF b
<1>5. 0 \notin Units BY PacketizerAssumption DEF Units
<1> QED BY <1>1, <1>3, <1>4, <1>5

----------------------------------------------------------------------------
(* The steps.                                                              *)

\* What the invariant says of the numbers
LEMMA Numeric ==
  ASSUME PInv
  PROVE  /\ Len(input) \in Nat /\ Len(mem) \in Nat /\ head \in Nat /\ curr \in Nat
         /\ Len(mem) <= Len(input) /\ head <= Len(mem)
         /\ mem \in Seq(Nat) /\ input \in Seq(Bytes) /\ out \in Seq(Nat)
         /\ stage # "none" => unit \in Nat /\ unit >= Packet /\ unit <= UnitEnd - 1
  BY PacketizerAssumption DEF PInv, BufferInv, EndOf, LoopInv, OutInv, Rising, Units

\* The call returns from its loop, or flush goes on with its own.
LEMMA LeaveKeeps ==
  ASSUME PInv, stage # "none", NEW p \in Nat, Leave(p),
         UNCHANGED <<unit, input, peak>>,
         Rising(out', Place(p)), Rising(out', Len(input)),
         cut' = cut \/ (~flush /\ cut' \in {"no", "pat", "flush"})
  PROVE  PInv'
<1>1. BufferInv' /\ SizeInv'
      /\ Len(input) - Len(mem') + head' = IF p <= Len(mem) THEN Place(p) ELSE Len(input)
  BY Compacted DEF PInv, Leave
<1>2. head' \in Nat /\ head' <= Len(mem') /\ Len(mem') \in Nat
  BY <1>1 DEF BufferInv, EndOf
<1>3. \/ stage' = "rest" /\ curr' = head' /\ flush' = flush /\ flush
      \/ stage' = "none" /\ curr' = 0 /\ flush' = FALSE
  BY DEF Leave
<1>4. LoopInv'
  <2>1. unit' # 0 /\ unit' \in Units BY DEF PInv, LoopInv
  <2>2. flush \in BOOLEAN /\ (flush => cut = "flush") /\ cut \in {"no", "pat", "flush"}
    BY DEF PInv, LoopInv
  <2>3. flush' \in BOOLEAN /\ cut' \in {"no", "pat", "flush"} /\ (flush' => cut' = "flush")
    BY <1>3, <2>2
  <2>4. CASE stage' = "rest" /\ curr' = head' /\ flush' = flush /\ flush
    BY <1>2, <2>1, <2>3, <2>4 DEF LoopInv
  <2>5. CASE stage' = "none" /\ curr' = 0 /\ flush' = FALSE
    BY <1>2, <2>1, <2>3, <2>5 DEF LoopInv
  <2> QED BY <1>3, <2>4, <2>5
<1>5. OutInv'
  <2>1. Place(At)' = Len(input) - Len(mem') + head'
    BY <1>3 DEF Place, At
  <2>2. Rising(out', Place(At)') BY <1>1, <2>1
  <2> QED BY <2>2 DEF OutInv
<1> QED BY <1>1, <1>4, <1>5 DEF PInv

\* A loop goes on at another byte.
LEMMA MoveKeeps ==
  ASSUME PInv, stage # "none", UNCHANGED <<buffer, unit, stage, flush, input, peak, cut>>,
         curr' \in Nat, curr <= curr', stage = "proc" => curr' <= Len(mem),
         Rising(out', Place(curr')), Rising(out', Len(input))
  PROVE  PInv'
<1>1. mem' = mem /\ head' = head /\ max' = max /\ over' = over /\ input' = input /\ peak' = peak
      /\ unit' = unit /\ stage' = stage /\ flush' = flush /\ cut' = cut
  BY DEF buffer
<1>2. BufferInv' /\ SizeInv' BY <1>1 DEF PInv, BufferInv, SizeInv
<1>3. LoopInv'
  <2>1. head <= curr' BY Numeric DEF PInv, LoopInv
  <2> QED BY <1>1, <2>1 DEF PInv, LoopInv
<1>4. Place(At)' = Place(curr') BY <1>1 DEF Place, At
<1> QED BY <1>1, <1>2, <1>3, <1>4 DEF PInv, OutInv

LEMMA InitPInv == ASSUME Init PROVE PInv
<1>1. BufferInv BY DEF Init, BufferInv, EndOf
<1>2. LoopInv BY DEF Init, LoopInv
<1>3. OutInv BY DEF Init, OutInv, Rising
<1>4. SizeInv BY PacketizerAssumption DEF Init, SizeInv
<1> QED BY <1>1, <1>2, <1>3, <1>4 DEF PInv

\* The bytes of the pool from head on
LEMMA LiveBytesIs ==
  ASSUME NEW s \in Seq(Bytes), NEW m, EndOf(m, Len(s)), NEW h \in 0..Len(m)
  PROVE  LiveBytes(m, h, s) \in Seq(Bytes) /\ Len(LiveBytes(m, h, s)) = Len(m) - h
<1>1. Len(s) \in Nat /\ Len(m) \in Nat /\ Len(m) <= Len(s) BY DEF EndOf
<1>2. PICK n \in Nat : n = Len(m) - h BY <1>1
<1>3. ASSUME NEW i \in 1..n PROVE s[m[h + i]] \in Bytes
  <2>1. h + i \in 1..Len(m) BY <1>1, <1>2
  <2>2. m[h + i] = Len(s) - Len(m) + (h + i) BY <2>1 DEF EndOf
  <2>3. m[h + i] \in 1..Len(s) BY <1>1, <1>2, <2>1, <2>2
  <2> QED BY <2>3
<1>4. [i \in 1..n |-> s[m[h + i]]] \in Seq(Bytes) /\ Len([i \in 1..n |-> s[m[h + i]]]) = n
  BY <1>3
<1> QED BY <1>2, <1>4 DEF LiveBytes

LEMMA PutPInv == ASSUME PInv, Put PROVE PInv'
<1>1. PICK c \in Chunk :
        /\ input' = input \o c
        /\ AppendData([i \in 1..Len(c) |-> Len(input) + i])
        /\ peak' = IF peak < Live + Len(c) THEN Live + Len(c) ELSE peak
  BY DEF Put
<1>2. c \in Seq(Bytes) /\ over' = over /\ flush' = flush /\ out' = out /\ stage = "none"
  BY PacketizerAssumption DEF Put, Bytes
<1>3. /\ BufferInv' /\ SizeInv'
      /\ Len(input') - Len(mem') + head' = Place(head)
      /\ Len(input') = Len(input) + Len(c)
      /\ Len(mem) = Len(input) /\ head = 0 => Len(mem') = Len(input') /\ head' = 0
  BY <1>1, <1>2, AppendedIs DEF PInv
<1>4. unit' \in {0} \cup Units
  <2>1. LiveBytes(mem', head', input') \in Seq(Bytes)
    BY <1>3, LiveBytesIs DEF BufferInv
  <2>2. Selected(LiveBytes(mem', head', input')) \in {0} \cup Units BY <2>1, SelectedIs
  <2> QED BY <2>2 DEF Put, PInv, LoopInv
<1>5. /\ head' \in Nat /\ head' <= Len(mem') /\ Len(mem') \in Nat
      /\ Len(input) \in Nat /\ Len(c) \in Nat /\ Len(mem) \in Nat /\ head \in Nat
      /\ Len(mem) <= Len(input)
  BY <1>2, <1>3, Numeric DEF BufferInv, EndOf
<1>6. LoopInv' /\ Place(At)' = Place(head)
  <2>1. CASE unit' = 0
    <3>1. stage' = stage /\ curr' = curr /\ cut' = cut BY <2>1 DEF Put
    <3>2. unit = 0 BY <2>1, PacketizerAssumption DEF Put, PInv, LoopInv
    <3>3. LoopInv' BY <1>2, <1>3, <2>1, <3>1, <3>2 DEF PInv, LoopInv
    <3> QED BY <1>2, <1>3, <3>1, <3>3 DEF Place, At
  <2>2. CASE unit' # 0
    <3>1. stage' = "proc" /\ curr' = head' /\ cut' \in {cut, "no"}
      BY <2>2 DEF Put
    <3>2. flush' = FALSE /\ cut' \in {"no", "pat", "flush"} BY <1>2, <3>1 DEF PInv, LoopInv
    <3>3. curr' \in Nat /\ head' <= curr' /\ curr' <= Len(mem') BY <1>5, <3>1
    <3>4. flush' \in BOOLEAN /\ ~flush' /\ (flush' => cut' = "flush") BY <3>2
    <3>5. LoopInv' BY <1>4, <2>2, <3>1, <3>2, <3>3, <3>4 DEF LoopInv
    <3> QED BY <1>3, <3>1, <3>5 DEF Place, At
  <2> QED BY <2>1, <2>2
<1>7. OutInv'
  <2>1. Rising(out, Place(head)) /\ Rising(out, Len(input))
    BY <1>2 DEF PInv, OutInv, At
  <2>2. Rising(out, Len(input')) BY <1>3, <1>5, <2>1, RisingUp
  <2> QED BY <1>2, <1>6, <2>1, <2>2 DEF OutInv
<1> QED BY <1>3, <1>6, <1>7 DEF PInv

LEMMA FlushPInv == ASSUME PInv, Flush PROVE PInv'
<1>1. /\ mem' = mem /\ head' = head /\ max' = max /\ over' = over
      /\ out' = out /\ input' = input /\ peak' = peak /\ stage = "none"
      /\ stage' = "proc" /\ flush' = TRUE /\ curr' = head /\ cut' = "flush" /\ unit' # 0
  BY DEF Flush, buffer
<1>2. BufferInv' /\ SizeInv' BY <1>1 DEF PInv, BufferInv, SizeInv
<1>3. unit' \in {0} \cup Units
  <2>1. LiveBytes(mem, head, input) \in Seq(Bytes)
    BY LiveBytesIs DEF PInv, BufferInv
  <2>2. Selected(LiveBytes(mem, head, input)) \in {0} \cup Units BY <2>1, SelectedIs
  <2> QED BY <2>2 DEF Flush, PInv, LoopInv
<1>4. LoopInv' BY <1>1, <1>3, Numeric DEF LoopInv
<1>5. Place(At)' = Place(At) BY <1>1 DEF Place, At
<1> QED BY <1>1, <1>2, <1>4, <1>5 DEF PInv, OutInv

LEMMA ResetPInv == ASSUME PInv, Reset PROVE PInv'
<1>1. BufferInv' BY DEF Reset, BufferInv, EndOf
<1>2. LoopInv' BY DEF Reset, PInv, LoopInv
<1>3. OutInv' BY DEF Reset, OutInv, Rising
<1>4. SizeInv' BY PacketizerAssumption DEF Reset, SizeInv
<1> QED BY <1>1, <1>2, <1>3, <1>4 DEF PInv

LEMMA LeaveAtPInv ==
  ASSUME PInv, stage # "none", Leave(curr), UNCHANGED <<unit, out, history>>
  PROVE  PInv'
<1>1. input' = input /\ peak' = peak /\ cut' = cut BY DEF history
<1>2. Rising(out', Place(curr)) /\ Rising(out', Len(input)) BY DEF PInv, OutInv, At
<1> QED BY <1>1, <1>2, Numeric, LeaveKeeps

LEMMA EndPInv == ASSUME PInv, End PROVE PInv'
BY LeaveAtPInv DEF End

LEMMA LostPInv == ASSUME PInv, Lost PROVE PInv'
BY LeaveAtPInv DEF Lost

LEMMA ResyncPInv == ASSUME PInv, Resync PROVE PInv'
<1>1. PICK p \in Resyncs :
        /\ curr' = p
        /\ out' = out \o (IF p - curr >= unit - Packet
                           THEN Part(mem, p - (unit - Packet), unit - Packet) ELSE <<>>)
  BY DEF Resync
<1>2. stage # "none" /\ UNCHANGED <<buffer, unit, stage, flush, input, peak, cut>>
  BY DEF Resync, history
<1>3. p \in curr..(Len(mem) - 1) BY DEF Resyncs
<1>4. unit - Packet \in Nat BY <1>2, Numeric, PacketizerAssumption
<1>5. Rising(out, Place(curr)) BY <1>2 DEF PInv, OutInv, At
<1>6. p \in Nat /\ curr <= p /\ p <= Len(mem) /\ Place(curr) \in Int /\ Place(p) \in Int
      /\ Place(curr) <= Place(p) /\ Place(p) <= Len(input) /\ Len(input) \in Int
  BY <1>3, Numeric DEF Place
<1>7. Rising(out', Place(p))
  <2>1. CASE p - curr >= unit - Packet
    <3>1. PICK q \in Nat : q = p - (unit - Packet) /\ curr <= q
      BY <1>4, <1>6, <2>1, Numeric
    <3>2. q + (unit - Packet) = p BY <1>4, <1>6, <3>1
    <3>3. Rising(out, Place(q))
      <4>1. Place(curr) <= Place(q) /\ Place(q) \in Int BY <3>1, Numeric DEF Place
      <4> QED BY <1>5, <1>6, <4>1, RisingUp
    <3>4. Rising(out \o Part(mem, q, unit - Packet), Place(p))
      BY <1>4, <1>6, <3>1, <3>2, <3>3, RisingPart DEF PInv
    <3> QED BY <1>1, <2>1, <3>1, <3>4
  <2>2. CASE ~(p - curr >= unit - Packet)
    <3>1. out' = out BY <1>1, <2>2, Numeric
    <3> QED BY <1>5, <1>6, <3>1, RisingUp
  <2> QED BY <2>1, <2>2
<1>8. Rising(out', Len(input)) BY <1>6, <1>7, RisingUp
<1> QED BY <1>1, <1>2, <1>6, <1>7, <1>8, MoveKeeps

LEMMA BrokenPInv == ASSUME PInv, BrokenPacket PROVE PInv'
<1>1. stage # "none" /\ curr' = curr + 1 /\ out' = out
      /\ UNCHANGED <<buffer, unit, stage, flush, input, peak, cut>>
  BY DEF BrokenPacket, history
<1>2. stage = "proc" => curr' <= Len(mem)
  BY <1>1, Numeric, PacketizerAssumption DEF BrokenPacket, More
<1>3. Rising(out', Place(curr')) /\ Rising(out', Len(input))
  <2>1. Place(curr) \in Int /\ Place(curr') \in Int /\ Place(curr) <= Place(curr')
    BY <1>1, Numeric DEF Place
  <2> QED BY <1>1, <2>1, RisingUp DEF PInv, OutInv, At
<1> QED BY <1>1, <1>2, <1>3, Numeric, MoveKeeps

LEMMA WholePInv == ASSUME PInv, WholePacket PROVE PInv'
<1>1. stage # "none" /\ unit' = unit /\ input' = input /\ peak' = peak /\ More
  BY DEF WholePacket
<1>2. unit \in Nat /\ Packet \in Nat /\ Packet <= unit /\ unit # 0
  BY <1>1, Numeric, PacketizerAssumption
<1>3. PICK n \in Nat : n = (IF curr + unit <= Len(mem) THEN unit ELSE Packet)
  BY <1>2
<1>4. curr + n <= Len(mem) /\ n <= unit
  BY <1>1, <1>2, <1>3, Numeric DEF More
<1>5. out' = out \o Part(mem, curr, n) BY <1>3 DEF WholePacket
<1>6. Rising(out, Place(curr)) BY <1>1 DEF PInv, OutInv, At
<1>7. Rising(out', Place(curr + n))
  BY <1>4, <1>5, <1>6, Numeric, RisingPart DEF PInv
<1>8. Rising(out', Place(curr + unit)) /\ Rising(out', Len(input))
  <2>1. /\ Place(curr + n) \in Int /\ Place(curr + unit) \in Int /\ Len(input) \in Int
        /\ Place(curr + n) <= Place(curr + unit) /\ Place(curr + n) <= Len(input)
    BY <1>2, <1>4, Numeric DEF Place
  <2> QED BY <1>7, <2>1, RisingUp
<1>9. CASE stage = "proc" /\ Byte(curr + 1) = Pat
  <2>1. Leave(curr + unit) /\ cut' = IF cut = "flush" THEN cut ELSE "pat"
    BY <1>9 DEF WholePacket
  <2>2. cut' = cut \/ (~flush /\ cut' \in {"no", "pat", "flush"})
    BY <2>1 DEF PInv, LoopInv
  <2> QED BY <1>1, <1>2, <1>8, <2>1, <2>2, Numeric, LeaveKeeps
<1>10. CASE ~(stage = "proc" /\ Byte(curr + 1) = Pat)
  <2>1. curr' = curr + unit /\ UNCHANGED <<buffer, stage, flush, cut>>
    BY <1>10 DEF WholePacket
  <2>2. stage = "proc" => curr' <= Len(mem) BY <1>1, <1>2, <2>1, Numeric DEF More
  <2> QED BY <1>1, <1>2, <1>8, <2>1, <2>2, Numeric, MoveKeeps
<1> QED BY <1>9, <1>10

LEMMA NextPInv == ASSUME PInv, [Next]_vars PROVE PInv'
<1>1. CASE Next
  BY <1>1, PutPInv, FlushPInv, ResetPInv, EndPInv, LostPInv, ResyncPInv, BrokenPInv, WholePInv
     DEF Next
<1>2. CASE UNCHANGED vars
  BY <1>2 DEF vars, buffer, history, PInv, BufferInv, LoopInv, OutInv, SizeInv, Place, At
<1> QED BY <1>1, <1>2

\* What the buffer holds is the end of what was received, over growing, moving
\* and resets (append_work_buffer, reserve_work_buffer, and LAST in
\* proc_arib_std_b25 and flush), as long as tail is not in front of pool.
THEOREM BufferHoldsTail == Spec => []BufferIsTail
<1>1. Init => PInv BY InitPInv
<1>2. PInv /\ [Next]_vars => PInv' BY NextPInv
<1>3. PInv => BufferIsTail
  <2> SUFFICES ASSUME PInv PROVE BufferIsTail OBVIOUS
  <2>1. head \in 0..Len(mem) /\ Len(mem) <= max BY DEF PInv, BufferInv
  <2>2. ASSUME NEW i \in (head + 1)..Len(mem) PROVE mem[i] = Len(input) - Len(mem) + i
    <3>1. i \in 1..Len(mem) BY Numeric
    <3> QED BY <3>1 DEF PInv, BufferInv, EndOf
  <2> QED BY <2>1, <2>2 DEF BufferIsTail
<1> QED BY <1>1, <1>2, <1>3, PTL DEF Spec

\* No byte comes out twice and none overtakes another: resync goes forward only,
\* and what LAST keeps begins behind what was put out.
THEOREM BytesInOrder == Spec => []InOrder
<1>1. Init => PInv BY InitPInv
<1>2. PInv /\ [Next]_vars => PInv' BY NextPInv
<1>3. PInv => InOrder
  <2> SUFFICES ASSUME PInv, NEW i \in 1..(Len(out) - 1) PROVE out[i] < out[i + 1]
    BY DEF InOrder
  <2>1. i \in 1..Len(out) /\ i + 1 \in 1..Len(out) /\ i < i + 1 BY Numeric
  <2> QED BY <2>1 DEF PInv, OutInv, Rising
<1> QED BY <1>1, <1>2, <1>3, PTL DEF Spec

\* LAST leaves at most half of the pool in front of head, so that the pool stays
\* within four times of what it ever held, however long the stream is.
THEOREM PoolStaysSmall == Spec => []PoolBounded
<1>1. Init => PInv BY InitPInv
<1>2. PInv /\ [Next]_vars => PInv' BY NextPInv
<1>3. PInv => PoolBounded BY DEF PInv, SizeInv, PoolBounded
<1> QED BY <1>1, <1>2, <1>3, PTL DEF Spec

----------------------------------------------------------------------------
(* The unit size of a regular stream.                                      *)

LEMMA Division ==
  ASSUME NEW p \in Nat, NEW u \in Nat \ {0}
  PROVE  p \div u \in Nat /\ p % u \in 0..(u - 1) /\ p = u * (p \div u) + (p % u)
  OBVIOUS

LEMMA Remainder ==
  ASSUME NEW a \in Nat, NEW u \in Nat \ {0}, NEW o \in 0..(u - 1)
  PROVE  (u * a + o) % u = o
  OBVIOUS

LEMMA LessThanOne ==
  ASSUME NEW u \in Nat \ {0}, NEW d \in Int, u * d < u, -u < u * d
  PROVE  d = 0
  OBVIOUS

\* Numbers with the same remainder that are less than u apart are the same.
LEMMA SameRemainder ==
  ASSUME NEW u \in Nat \ {0}, NEW p \in Nat, NEW q \in Nat, p % u = q % u, p - q < u, q - p < u
  PROVE  p = q
<1>1. PICK a \in Nat, b \in Nat : p = u * a + (p % u) /\ q = u * b + (q % u)
  <2>1. p \div u \in Nat /\ q \div u \in Nat BY Division
  <2>2. p = u * (p \div u) + (p % u) /\ q = u * (q \div u) + (q % u) BY Division
  <2> QED BY <2>1, <2>2
<1>2. PICK o \in Nat : o = p % u /\ o = q % u
  <2>1. p % u \in 0..(u - 1) BY Division
  <2> QED BY <2>1
<1>3. PICK d \in Int : d = a - b OBVIOUS
<1>4. u * d = u * a - u * b BY <1>3
<1>5. u * a \in Int /\ u * b \in Int OBVIOUS
<1>6. u * d < u /\ -u < u * d BY <1>1, <1>2, <1>4, <1>5
<1>7. d = 0 BY <1>6, LessThanOne
<1>8. a = b BY <1>3, <1>7
<1> QED BY <1>1, <1>2, <1>8

\* The places with remainder o, and those that look like a packet
Starts(t, u, o) == {p \in 1..Len(t) : p % u = o}
Syncs(t) == {p \in 1..Len(t) : t[p] = Sync}

\* As many as there are units in t, or one more
LEMMA StartsMany ==
  ASSUME NEW t, Len(t) \in Nat, NEW u \in Nat \ {0}, NEW o \in 0..(u - 1)
  PROVE  /\ IsFiniteSet(Starts(t, u, o)) /\ Cardinality(Starts(t, u, o)) \in Nat
         /\ Len(t) \div u <= Cardinality(Starts(t, u, o))
<1>1. PICK m \in Nat : m = Len(t) OBVIOUS
<1>2. PICK n \in Nat : n = Len(t) \div u /\ u * n <= m /\ m < u * (n + 1)
  <2>1. m \div u \in Nat /\ m % u \in 0..(u - 1) /\ m = u * (m \div u) + (m % u) BY Division
  <2>2. PICK n \in Nat : n = m \div u BY <2>1
  <2>3. u * n \in Nat /\ u * (n + 1) = u * n + u BY <2>2
  <2>4. u * n <= m /\ m < u * (n + 1) BY <2>1, <2>2, <2>3
  <2> QED BY <1>1, <2>2, <2>4
<1>3. IsFiniteSet(Starts(t, u, o)) /\ Cardinality(Starts(t, u, o)) \in Nat
  <2>1. Starts(t, u, o) \subseteq 1..m BY <1>1 DEF Starts
  <2>2. IsFiniteSet(1..m) BY FS_Interval
  <2> QED BY <2>1, <2>2, FS_Subset, FS_CardinalityType
<1> DEFINE f == [k \in 1..n |-> IF o = 0 THEN u * k ELSE u * (k - 1) + o]
<1>4. ASSUME NEW k \in 1..n PROVE f[k] \in Starts(t, u, o)
  <2>1. u * k <= u * n /\ u * k \in Nat /\ u * n \in Nat
    <3>1. PICK d \in Nat : k + d = n OBVIOUS
    <3>2. u * n = u * k + u * d BY <3>1
    <3>3. u * k \in Nat /\ u * d \in Nat BY <3>1
    <3> QED BY <3>2, <3>3
  <2>2. u * (k - 1) = u * k - u /\ u * (k - 1) \in Nat OBVIOUS
  <2>3. CASE o = 0
    <3>1. f[k] = u * k + 0 BY <2>3
    <3>2. (u * k + 0) % u = 0 BY <2>3, Remainder
    <3>3. u * k >= 1 BY <2>2
    <3>4. f[k] \in 1..m BY <1>2, <2>1, <3>1, <3>3
    <3>5. f[k] % u = o BY <2>3, <3>1, <3>2
    <3> HIDE DEF f
    <3> QED BY <1>1, <3>4, <3>5 DEF Starts
  <2>4. CASE o # 0
    <3>1. f[k] = u * (k - 1) + o BY <2>4
    <3>2. (u * (k - 1) + o) % u = o BY <2>2, Remainder
    <3>3. u * (k - 1) + o \in 1..m BY <1>2, <2>1, <2>2, <2>4
    <3> QED BY <1>1, <3>1, <3>2, <3>3 DEF Starts
  <2> QED BY <2>3, <2>4
<1>5. ASSUME NEW j \in 1..n, NEW k \in 1..n, f[j] = f[k] PROVE j = k
  <2>1. u * j = u * k
    <3>1. /\ u * (k - 1) = u * k - u /\ u * (j - 1) = u * j - u
          /\ u * k \in Int /\ u * j \in Int
      OBVIOUS
    <3> QED BY <1>5, <3>1
  <2>2. PICK d \in Int : d = j - k OBVIOUS
  <2>3. u * d = u * j - u * k BY <2>2
  <2>4. u * d = 0 BY <2>1, <2>3
  <2>5. d = 0 BY <2>4, LessThanOne
  <2> QED BY <2>2, <2>5
<1>6. f \in Injection(1..n, Starts(t, u, o))
  <2>1. f \in [1..n -> Starts(t, u, o)] BY <1>4
  <2> HIDE DEF f
  <2> QED BY <1>5, <2>1 DEF Injection, IsInjective
<1>7. Cardinality(1..n) <= Cardinality(Starts(t, u, o))
  <2> HIDE DEF f
  <2> QED BY <1>3, <1>6, FS_Injection
<1>8. Cardinality(1..n) = n BY FS_Interval
<1> QED BY <1>3, <1>7, <1>8, <1>2

\* Each of them but the last is followed by another.
LEMMA StartsCounted ==
  ASSUME NEW t, Len(t) \in Nat, NEW u \in Nat \ {0}, NEW o \in 0..(u - 1),
         Starts(t, u, o) \subseteq Syncs(t)
  PROVE  Count(t, u) + 1 >= Cardinality(Starts(t, u, o))
<1> DEFINE S == Starts(t, u, o)
           C == {p \in 1..(Len(t) - u) : t[p] = Sync /\ t[p + u] = Sync}
           L == {p \in S : p > Len(t) - u}
<1>1. IsFiniteSet(S) /\ Cardinality(S) \in Nat BY StartsMany
<1>2. S \subseteq C \cup L
  <2>1. SUFFICES ASSUME NEW p \in S, ~(p > Len(t) - u) PROVE p \in C OBVIOUS
  <2>2. p \in 1..(Len(t) - u) /\ p % u = o BY <2>1 DEF Starts
  <2>3. p + u \in 1..Len(t) BY <2>2
  <2>4. (p + u) % u = o
    <3>1. PICK a \in Nat : p = u * a + o
      <4>1. p \in Nat BY <2>2
      <4>2. p \div u \in Nat /\ p = u * (p \div u) + (p % u) BY <4>1, Division
      <4> QED BY <4>2, <2>2
    <3>2. p + u = u * (a + 1) + o BY <3>1
    <3>3. (u * (a + 1) + o) % u = o BY Remainder
    <3> QED BY <3>2, <3>3
  <2>5. p \in Syncs(t) /\ p + u \in Syncs(t) BY <2>3, <2>4 DEF Starts
  <2> QED BY <2>2, <2>5 DEF Syncs
<1>3. IsFiniteSet(L) /\ Cardinality(L) <= 1
  <2>1. ASSUME NEW p \in L, NEW q \in L PROVE p = q
    <3>1. p \in Nat /\ q \in Nat /\ p % u = q % u /\ p - q < u /\ q - p < u BY DEF Starts
    <3> QED BY <3>1, SameRemainder
  <2>2. L \subseteq S OBVIOUS
  <2> HIDE DEF L, S
  <2>3. CASE L = {} BY <2>3, FS_EmptySet
  <2>4. CASE L # {}
    <3>1. PICK x \in L : TRUE BY <2>4
    <3>2. L = {x} BY <2>1, <3>1
    <3>3. IsFiniteSet({x}) /\ Cardinality({x}) = 1 BY FS_Singleton
    <3> QED BY <3>2, <3>3
  <2> QED BY <2>3, <2>4
<1>4. IsFiniteSet(C) /\ Cardinality(C) \in Nat
  <2>1. C \subseteq 1..Len(t) OBVIOUS
  <2>2. IsFiniteSet(1..Len(t)) BY FS_Interval
  <2> HIDE DEF C
  <2> QED BY <2>1, <2>2, FS_Subset, FS_CardinalityType
<1>5. Cardinality(S) <= Cardinality(C) + 1
  <2> HIDE DEF C, L, S
  <2>1. IsFiniteSet(C \cup L) /\ IsFiniteSet(C \cap L)
        /\ Cardinality(C \cup L) = Cardinality(C) + Cardinality(L) - Cardinality(C \cap L)
    BY <1>3, <1>4, FS_Union, FS_Subset
  <2>2. Cardinality(C \cap L) \in Nat /\ Cardinality(L) \in Nat /\ Cardinality(C \cup L) \in Nat
    BY <1>3, <2>1, FS_CardinalityType
  <2>3. Cardinality(S) <= Cardinality(C \cup L) BY <1>2, <2>1, FS_Subset
  <2> QED BY <1>1, <1>3, <1>4, <2>1, <2>2, <2>3
<1>6. Count(t, u) = Cardinality(C) BY DEF Count
<1> QED BY <1>1, <1>4, <1>5, <1>6

\* At another distance, one of two that are counted is no packet: each byte that
\* only looks like one is counted twice at most.
LEMMA OthersCounted ==
  ASSUME NEW t, Len(t) \in Nat, NEW u \in Units, NEW o \in 0..(u - 1), NEW j \in Units, j # u
  PROVE  Count(t, j) <= 2 * Cardinality(Syncs(t) \ Starts(t, u, o))
<1> DEFINE C == {p \in 1..(Len(t) - j) : t[p] = Sync /\ t[p + j] = Sync}
           X == Syncs(t) \ Starts(t, u, o)
           B == {p \in C : p + j \in X}
<1>1. u \in Nat \ {0} /\ j \in Nat \ {0} /\ u - j < u /\ j - u < u
  BY PacketizerAssumption DEF Units
<1>2. C \subseteq X \cup B
  <2>1. SUFFICES ASSUME NEW p \in C, p \notin X, p + j \notin X PROVE FALSE OBVIOUS
  <2>2. p \in 1..Len(t) /\ p + j \in 1..Len(t) BY <1>1
  <2>3. p \in Syncs(t) /\ p + j \in Syncs(t) BY <2>2 DEF Syncs
  <2>4. p % u = o /\ (p + j) % u = o BY <2>1, <2>2, <2>3 DEF Starts
  <2>5. PICK a \in Nat : p = u * a + o
    <3>1. p \in Nat BY <2>2
    <3>2. p \div u \in Nat /\ p = u * (p \div u) + (p % u) BY <1>1, <3>1, Division
    <3> QED BY <3>2, <2>4
  <2>6. p + u = u * (a + 1) + o BY <1>1, <2>5
  <2>7. (p + u) % u = o
    <3>1. (u * (a + 1) + o) % u = o BY <1>1, Remainder
    <3> QED BY <2>6, <3>1
  <2>8. p + u = p + j
    <3>1. p + u \in Nat /\ p + j \in Nat /\ (p + u) - (p + j) < u /\ (p + j) - (p + u) < u
      BY <1>1, <2>2
    <3> QED BY <1>1, <2>4, <2>7, <3>1, SameRemainder
  <2> QED BY <1>1, <2>2, <2>8
<1>3. IsFiniteSet(X) /\ Cardinality(X) \in Nat
  <2>1. X \subseteq 1..Len(t) BY DEF Syncs
  <2>2. IsFiniteSet(1..Len(t)) BY FS_Interval
  <2> HIDE DEF X
  <2> QED BY <2>1, <2>2, FS_Subset, FS_CardinalityType
<1>4. IsFiniteSet(B) /\ Cardinality(B) <= Cardinality(X)
  <2> DEFINE f == [p \in B |-> p + j]
  <2>1. f \in [B -> X] OBVIOUS
  <2>2. ASSUME NEW p \in B, NEW q \in B, f[p] = f[q] PROVE p = q
    <3>1. p \in Nat /\ q \in Nat OBVIOUS
    <3> QED BY <1>1, <2>2, <3>1
  <2>3. f \in Injection(B, X)
    <3> HIDE DEF f, B, X
    <3> QED BY <2>1, <2>2 DEF Injection, IsInjective
  <2>4. IsFiniteSet(B)
    <3>1. B \subseteq 1..Len(t) BY <1>1
    <3>2. IsFiniteSet(1..Len(t)) BY FS_Interval
    <3> HIDE DEF B
    <3> QED BY <3>1, <3>2, FS_Subset
  <2> HIDE DEF f, B, X
  <2> QED BY <1>3, <2>3, FS_Injection
<1>5. Cardinality(C) <= 2 * Cardinality(X)
  <2> HIDE DEF C, B, X
  <2>1. IsFiniteSet(X \cup B) /\ IsFiniteSet(X \cap B)
        /\ Cardinality(X \cup B) = Cardinality(X) + Cardinality(B) - Cardinality(X \cap B)
    BY <1>3, <1>4, FS_Union, FS_Subset
  <2>2. Cardinality(X \cap B) \in Nat /\ Cardinality(B) \in Nat /\ Cardinality(X \cup B) \in Nat
    BY <1>4, <2>1, FS_CardinalityType
  <2>3. IsFiniteSet(C) /\ Cardinality(C) <= Cardinality(X \cup B) BY <1>2, <2>1, FS_Subset
  <2>4. Cardinality(C) \in Nat BY <2>3, FS_CardinalityType
  <2> QED BY <1>3, <1>4, <2>1, <2>2, <2>3, <2>4
<1>6. Count(t, j) = Cardinality(C) BY DEF Count
<1> QED BY <1>5, <1>6

\* Enough of them follow each other.
LEMMA EnoughCounted ==
  ASSUME NEW t, Len(t) \in Nat, Len(t) >= HeadPackets * Packet, NEW u \in Units,
         NEW o \in 0..(u - 1), Starts(t, u, o) \subseteq Syncs(t)
  PROVE  Count(t, u) >= MinCount /\ (Count(t, u) + 3) * u >= Len(t)
<1>1. u \in Nat \ {0} /\ u <= UnitEnd - 1 /\ UnitEnd \in Nat /\ MinCount \in Nat
      /\ HeadPackets * Packet \in Nat /\ UnitEnd - 1 \in Nat
  BY PacketizerAssumption DEF Units
<1>2. PICK m \in Nat : m = Len(t) OBVIOUS
<1>3. PICK n \in Nat : n = m \div u /\ m < u * (n + 1)
  <2>1. m \div u \in Nat /\ m % u \in 0..(u - 1) /\ m = u * (m \div u) + (m % u)
    BY <1>1, Division
  <2>2. PICK n \in Nat : n = m \div u BY <2>1
  <2>3. u * n \in Nat /\ u * (n + 1) = u * n + u BY <1>1, <2>2
  <2>4. m < u * (n + 1) BY <1>1, <2>1, <2>2, <2>3
  <2> QED BY <2>2, <2>4
<1>4. PICK c \in Nat : c = Count(t, u) /\ n <= c + 1
  <2>1. Count(t, u) \in Nat BY <1>1, CountIs
  <2>2. /\ Cardinality(Starts(t, u, o)) \in Nat /\ n <= Cardinality(Starts(t, u, o))
        /\ Cardinality(Starts(t, u, o)) <= Count(t, u) + 1
    BY <1>1, <1>2, <1>3, StartsMany, StartsCounted
  <2> QED BY <2>1, <2>2
<1>5. MinCount <= c
  <2>1. SUFFICES ASSUME c < MinCount PROVE FALSE BY <1>1
  <2>2. PICK d \in Nat : MinCount + 1 = (n + 1) + d BY <1>1, <1>4, <2>1
  <2>3. PICK e \in Nat : UnitEnd - 1 = u + e BY <1>1
  <2>4. (MinCount + 1) * (UnitEnd - 1) = u * (n + 1) + (u * d + e * (n + 1) + e * d)
    BY <1>1, <2>2, <2>3
  <2>5. u * d \in Nat /\ e * (n + 1) \in Nat /\ e * d \in Nat /\ u * (n + 1) \in Nat
    BY <1>1, <2>2, <2>3
  <2>6. (MinCount + 1) * (UnitEnd - 1) <= HeadPackets * Packet BY PacketizerAssumption
  <2> QED BY <1>1, <1>2, <1>3, <2>4, <2>5, <2>6
<1>6. (c + 3) * u >= m
  <2>1. PICK d \in Nat : c + 3 = (n + 1) + d
    <3>1. (c + 3) - (n + 1) \in Nat BY <1>4
    <3> QED BY <3>1
  <2>2. (c + 3) * u = u * (n + 1) + u * d BY <1>1, <2>1
  <2>3. u * d \in Nat /\ u * (n + 1) \in Nat BY <1>1
  <2> QED BY <1>3, <2>2, <2>3
<1> QED BY <1>2, <1>4, <1>5, <1>6

\* The distance that is counted most often is the unit of a regular stream.
LEMMA RegularSelected ==
  ASSUME NEW s \in Seq(Bytes), Len(s) >= HeadPackets * Packet, NEW u \in Units,
         Regular(Inspected(s), u)
  PROVE  Selected(s) = u
<1>1. PICK t : t = Inspected(s) OBVIOUS
<1>2. Len(t) \in Nat /\ Len(t) >= HeadPackets * Packet
  <2>1. Len(s) \in Nat OBVIOUS
  <2>2. PICK m \in Nat : m = HeadPackets * Packet BY PacketizerAssumption
  <2>3. 2 * HeadPackets * Packet = 2 * m BY <2>2, PacketizerAssumption
  <2>4. PICK n \in Nat : n = (IF Len(s) > 2 * m THEN 2 * m ELSE Len(s)) /\ n <= Len(s)
                         /\ n >= m
    BY <2>1, <2>2
  <2>5. t = Part(s, 0, n) BY <1>1, <2>3, <2>4 DEF Inspected
  <2>6. Len(t) = n BY <2>4, <2>5, PartIs
  <2> QED BY <2>2, <2>4, <2>6
<1>3. PICK o \in 0..(u - 1) :
        /\ Starts(t, u, o) \subseteq Syncs(t)
        /\ 2 * Cardinality(Syncs(t) \ Starts(t, u, o)) < Cardinality(Starts(t, u, o)) - 1
  BY <1>1 DEF Regular, Starts, Syncs
<1>4. u \in Nat \ {0} BY PacketizerAssumption DEF Units
<1> DEFINE b == CHOOSE i \in Units : Best(t, i)
<1>5. b \in Units /\ Best(t, b) BY <1>2, BestExists
<1>6. Selected(s) = IF Len(s) < HeadPackets * Packet THEN 0
                    ELSE IF Count(t, b) < MinCount \/ (Count(t, b) + 3) * b < Len(t) THEN 0
                    ELSE b
  BY <1>1 DEF Selected, Best, Units
<1> HIDE DEF b
<1>7. b = u
  <2>1. SUFFICES ASSUME b # u PROVE FALSE OBVIOUS
  <2>2. Count(t, b) <= 2 * Cardinality(Syncs(t) \ Starts(t, u, o))
    BY <1>2, <1>5, <2>1, OthersCounted
  <2>3. Count(t, u) + 1 >= Cardinality(Starts(t, u, o)) BY <1>2, <1>3, <1>4, StartsCounted
  <2>4. Count(t, u) < Count(t, b) \/ Count(t, u) = Count(t, b) BY <1>5 DEF Best
  <2>5. b \in Nat BY <1>5, PacketizerAssumption DEF Units
  <2>6. Count(t, u) \in Nat /\ Count(t, b) \in Nat
    <3>1. Count(t, u) \in 0..Len(t) BY <1>2, <1>4, CountIs
    <3>2. Count(t, b) \in 0..Len(t) BY <1>2, <2>5, CountIs
    <3> QED BY <1>2, <3>1, <3>2
  <2>7. Cardinality(Starts(t, u, o)) \in Nat BY <1>2, <1>4, StartsMany
  <2>8. Cardinality(Syncs(t) \ Starts(t, u, o)) \in Nat
    <3>1. Syncs(t) \ Starts(t, u, o) \subseteq 1..Len(t) BY DEF Syncs
    <3>2. IsFiniteSet(1..Len(t)) BY <1>2, FS_Interval
    <3> QED BY <3>1, <3>2, FS_Subset, FS_CardinalityType
  <2> QED BY <1>3, <2>2, <2>3, <2>4, <2>6, <2>7, <2>8
<1>8. Count(t, u) >= MinCount /\ (Count(t, u) + 3) * u >= Len(t)
  BY <1>2, <1>3, EnoughCounted
<1>9. /\ ~(Len(s) < HeadPackets * Packet) /\ ~(Count(t, u) < MinCount)
      /\ ~((Count(t, u) + 3) * u < Len(t))
  <2>1. Count(t, u) \in Nat BY <1>2, <1>4, CountIs
  <2>2. (Count(t, u) + 3) * u \in Nat BY <1>4, <2>1
  <2>3. HeadPackets * Packet \in Nat /\ MinCount \in Nat BY PacketizerAssumption
  <2> QED BY <1>2, <1>8, <2>1, <2>2, <2>3
<1> QED BY <1>6, <1>7, <1>9

\* As long as the unit size is not known the pool holds all of the input.
LEMMA AllLive ==
  ASSUME NEW s \in Seq(Bytes), NEW m, EndOf(m, Len(s)), Len(m) = Len(s)
  PROVE  LiveBytes(m, 0, s) = s
<1>1. Len(s) \in Nat OBVIOUS
<1>2. LiveBytes(m, 0, s) \in Seq(Bytes) /\ Len(LiveBytes(m, 0, s)) = Len(s)
  BY <1>1, LiveBytesIs
<1>3. ASSUME NEW i \in 1..Len(s) PROVE LiveBytes(m, 0, s)[i] = s[i]
  <2>1. m[0 + i] = i BY <1>1 DEF EndOf
  <2>2. LiveBytes(m, 0, s)[i] = s[m[0 + i]] BY <1>1 DEF LiveBytes
  <2> QED BY <2>1, <2>2
<1> QED BY <1>2, <1>3, SeqEqual

\* select_unit_size finds the unit size at the first try, wherever the first
\* packet begins and however the bytes in between look, as long as less than half
\* as many of them look like the start of a packet as there are units.
THEOREM UnitFound == Spec => UnitRight
<1> DEFINE Step == unit = 0 /\ input' # <<>> /\ Len(input') >= HeadPackets * Packet =>
                     \A u \in Packet..(UnitEnd - 1) : Regular(Inspected(input'), u) => unit' = u
<1>1. Init => PInv BY InitPInv
<1>2. PInv /\ [Next]_vars => PInv' BY NextPInv
<1>3. PInv /\ PInv' /\ [Next]_vars => [Step]_<<input, unit>>
  <2> SUFFICES ASSUME PInv, PInv', Next, unit = 0, input' # <<>>,
                      Len(input') >= HeadPackets * Packet,
                      NEW u \in Units, Regular(Inspected(input'), u)
               PROVE  unit' = u
    BY DEF vars, history, Units
  <2>1. stage = "none" /\ head = 0 /\ Len(mem) = Len(input) BY DEF PInv, LoopInv
  <2>2. input' \in Seq(Bytes) /\ EndOf(mem', Len(input')) BY DEF PInv, BufferInv
  <2>3. CASE Put
    <3>1. PICK c \in Chunk :
            /\ input' = input \o c
            /\ AppendData([i \in 1..Len(c) |-> Len(input) + i])
            /\ peak' = IF peak < Live + Len(c) THEN Live + Len(c) ELSE peak
      BY <2>3 DEF Put
    <3>2. c \in Seq(Bytes) /\ over' = over BY <2>3, PacketizerAssumption DEF Put, Bytes
    <3>3. Len(mem') = Len(input') /\ head' = 0 BY <2>1, <3>1, <3>2, AppendedIs DEF PInv
    <3>4. LiveBytes(mem', head', input') = input' BY <2>2, <3>3, AllLive
    <3>5. unit' = Selected(input') BY <2>3, <3>4 DEF Put
    <3> QED BY <2>2, <3>5, RegularSelected
  <2>4. CASE Flush
    <3>1. input' = input /\ mem' = mem /\ head' = head BY <2>4 DEF Flush, buffer
    <3>2. LiveBytes(mem, head, input) = input' BY <2>1, <2>2, <3>1, AllLive
    <3>3. unit' = Selected(input') BY <2>4, <3>2 DEF Flush
    <3> QED BY <2>2, <3>3, RegularSelected
  <2>5. CASE Reset BY <2>5 DEF Reset
  <2>6. CASE End \/ Lost \/ Resync \/ BrokenPacket \/ WholePacket
    BY <2>1, <2>6 DEF End, Lost, Resync, BrokenPacket, WholePacket
  <2> QED BY <2>3, <2>4, <2>5, <2>6 DEF Next
<1> QED BY <1>1, <1>2, <1>3, PTL DEF Spec, UnitRight

----------------------------------------------------------------------------
(* The reference: what AtOnce is.                                          *)

LEMMA FirstIs ==
  ASSUME NEW S, S \subseteq Nat, S # {}
  PROVE  First(S) \in S /\ \A y \in S : First(S) <= y
<1>1. \E x \in S : \A y \in S : x <= y BY LeastNat
<1> QED BY <1>1 DEF First

LEMMA RunIs ==
  ASSUME NEW p \in Nat, NEW n \in Nat, p > 0 \/ n = 0
  PROVE  Run(p, n) \in Seq(Nat) /\ Len(Run(p, n)) = n /\ \A i \in 1..n : Run(p, n)[i] = p + i - 1
<1>1. \A i \in 1..n : p + i - 1 \in Nat OBVIOUS
<1>2. [i \in 1..n |-> p + i - 1] \in Seq(Nat) BY <1>1
<1> QED BY <1>2 DEF Run

\* A decoder that goes on goes forward.
LEMMA OnwardIs ==
  ASSUME NEW u \in Units, NEW s \in Seq(Bytes), NEW p \in Nat, ~EndsAt(u, s, p)
  PROVE  /\ p < Len(s) /\ Onward(u, s, p) \in Nat /\ p < Onward(u, s, p)
         /\ Emitted(u, s, p) \in Seq(Int)
<1>1. u \in Nat /\ u >= Packet /\ u > 0 /\ Packet \in Nat /\ Len(s) \in Nat
  BY PacketizerAssumption DEF Units
<1>2. p + u <= Len(s) BY <1>1 DEF EndsAt
<1>3. CASE LostAt(u, s, p)
  <2>1. PICK M : M = Marked(u, s, p) OBVIOUS
  <2>2. M # {} BY <1>3, <2>1 DEF EndsAt
  <2>3. M \subseteq Nat BY <2>1 DEF Marked
  <2>4. PICK q \in Nat : q = First(M) /\ q \in M BY <2>2, <2>3, FirstIs
  <2>5. p <= q BY <2>1, <2>4 DEF Marked
  <2>6. q # p
    <3>1. \A i \in 0..(ResyncUnits - 1) : s[q + i * u] = Sync BY <2>1, <2>4 DEF Marked
    <3>2. 0 \in 0..(ResyncUnits - 1) /\ 1 \in 0..(ResyncUnits - 1) BY PacketizerAssumption
    <3>3. s[q + 0 * u] = Sync /\ s[q + 1 * u] = Sync BY <3>1, <3>2
    <3>4. s[q] = Sync /\ s[q + u] = Sync BY <1>1, <3>3
    <3> QED BY <1>3, <3>4 DEF LostAt
  <2>7. Onward(u, s, p) = q BY <1>3, <2>1, <2>4 DEF Onward
  <2>8. Emitted(u, s, p) \in Seq(Int)
    <3>1. Emitted(u, s, p) = IF q - p >= u - Packet THEN Run(q - (u - Packet), u - Packet) ELSE <<>>
      BY <1>3, <2>1, <2>4 DEF Emitted
    <3>2. PICK n \in Nat : n = u - Packet BY <1>1
    <3>3. \A i \in 1..n : (q - n) + i - 1 \in Int BY <2>5
    <3>4. [i \in 1..n |-> (q - n) + i - 1] \in Seq(Int) BY <3>3
    <3> QED BY <3>1, <3>2, <3>4 DEF Run
  <2> QED BY <1>1, <1>2, <2>5, <2>6, <2>7, <2>8
<1>4. CASE ~LostAt(u, s, p)
  <2>1. CASE s[p + 1] = Broken
    <3>1. Onward(u, s, p) = p + 1 /\ Emitted(u, s, p) = <<>>
      BY <1>4, <2>1 DEF Onward, Emitted
    <3> QED BY <1>1, <1>2, <3>1
  <2>2. CASE s[p + 1] # Broken
    <3>1. Onward(u, s, p) = p + u /\ Emitted(u, s, p) = Run(p, u)
      BY <1>4, <2>2 DEF Onward, Emitted
    <3>2. \A i \in 1..u : p + i - 1 \in Int BY <1>1
    <3>3. [i \in 1..u |-> p + i - 1] \in Seq(Int) BY <1>1, <3>2
    <3> QED BY <1>1, <1>2, <3>1, <3>3 DEF Run
  <2> QED BY <2>1, <2>2
<1> QED BY <1>3, <1>4

\* f is what comes out of s.
Solves(f, u, s) ==
  f = [q \in Nat |-> IF EndsAt(u, s, q) THEN <<>> ELSE Emitted(u, s, q) \o f[Onward(u, s, q)]]

LEMMA SolutionExists ==
  ASSUME NEW u \in Units, NEW s \in Seq(Bytes)
  PROVE  \E f : Solves(f, u, s)
<1> DEFINE V == Seq(Int)
<1>0. Len(s) \in Nat /\ <<>> \in V OBVIOUS
<1>1. PICK stop \in [Nat -> V] : stop = [q \in Nat |-> <<>>]
  <2> HIDE DEF V
  <2> QED BY <1>0
<1>2. PICK nxt \in [Nat -> Nat] :
        nxt = [q \in Nat |-> IF EndsAt(u, s, q) THEN q + 1 ELSE Onward(u, s, q)]
  <2>1. \A q \in Nat : (IF EndsAt(u, s, q) THEN q + 1 ELSE Onward(u, s, q)) \in Nat
    BY OnwardIs
  <2> QED BY <2>1
<1>3. PICK g \in [Nat -> [V -> V]] :
        g = [q \in Nat |-> [v \in V |-> IF EndsAt(u, s, q) THEN <<>> ELSE Emitted(u, s, q) \o v]]
  <2>1. ASSUME NEW q \in Nat, NEW v \in V
        PROVE  (IF EndsAt(u, s, q) THEN <<>> ELSE Emitted(u, s, q) \o v) \in V
    <3>1. CASE EndsAt(u, s, q) BY <3>1
    <3>2. CASE ~EndsAt(u, s, q)
      <4>1. Emitted(u, s, q) \in V BY <3>2, OnwardIs
      <4> QED BY <3>2, <4>1, ConcatProperties
    <3> QED BY <3>1, <3>2
  <2> HIDE DEF V
  <2> QED BY <2>1
<1>4. Upwards(nxt, Len(s))
  <2>1. \A q \in Nat : q < (IF EndsAt(u, s, q) THEN q + 1 ELSE Onward(u, s, q)) BY OnwardIs
  <2> QED BY <1>2, <2>1 DEF Upwards
<1>5. PICK f : SolvesFrom(f, V, Len(s), stop, nxt, g, 0)
  <2> HIDE DEF V
  <2> QED BY <1>0, <1>4, Recursion
<1>6. /\ f \in [Nat -> V]
      /\ \A k \in Nat : f[k] = IF k < Len(s) THEN g[k][f[nxt[k]]] ELSE stop[k]
  BY <1>5 DEF SolvesFrom
<1>7. ASSUME NEW q \in Nat
      PROVE  f[q] = IF EndsAt(u, s, q) THEN <<>> ELSE Emitted(u, s, q) \o f[Onward(u, s, q)]
  <2> HIDE DEF V
  <2>1. CASE EndsAt(u, s, q)
    <3>1. f[nxt[q]] \in V BY <1>2, <1>6
    <3>2. g[q][f[nxt[q]]] = <<>> BY <1>3, <2>1, <3>1
    <3>3. stop[q] = <<>> BY <1>1
    <3> QED BY <1>6, <2>1, <3>2, <3>3
  <2>2. CASE ~EndsAt(u, s, q)
    <3>1. q < Len(s) /\ nxt[q] = Onward(u, s, q) BY <1>2, <2>2, OnwardIs
    <3>2. f[nxt[q]] \in V BY <1>2, <1>6
    <3>3. g[q][f[nxt[q]]] = Emitted(u, s, q) \o f[nxt[q]] BY <1>3, <2>2, <3>2
    <3> QED BY <1>6, <2>2, <3>1, <3>3
  <2> QED BY <2>1, <2>2
<1>8. f = [q \in Nat |-> IF EndsAt(u, s, q) THEN <<>> ELSE Emitted(u, s, q) \o f[Onward(u, s, q)]]
  <2> HIDE DEF V
  <2> QED BY <1>6, <1>7
<1> QED BY <1>8 DEF Solves

LEMMA AtOnceIs ==
  ASSUME NEW u \in Units, NEW s \in Seq(Bytes), NEW p \in Nat
  PROVE  /\ AtOnce(u, s, p) \in Seq(Int)
         /\ AtOnce(u, s, p) = IF EndsAt(u, s, p) THEN <<>>
                              ELSE Emitted(u, s, p) \o AtOnce(u, s, Onward(u, s, p))
<1>1. PICK f : Solves(f, u, s) /\ \A q : AtOnce(u, s, q) = f[q]
  <2> DEFINE A == CHOOSE f : Solves(f, u, s)
  <2>1. \A q : AtOnce(u, s, q) = A[q] BY DEF AtOnce, Solves
  <2>2. Solves(A, u, s) BY SolutionExists
  <2> HIDE DEF A
  <2> QED BY <2>1, <2>2
<1>2. \A q \in Nat : f[q] = IF EndsAt(u, s, q) THEN <<>> ELSE Emitted(u, s, q) \o f[Onward(u, s, q)]
  BY <1>1 DEF Solves
<1> DEFINE T == {q \in Nat : f[q] \in Seq(Int)}
<1>3. \A q \in Nat : Len(s) <= q => q \in T
  <2> SUFFICES ASSUME NEW q \in Nat, Len(s) <= q PROVE f[q] \in Seq(Int) OBVIOUS
  <2>1. EndsAt(u, s, q) BY OnwardIs
  <2>2. f[q] = <<>> BY <1>2, <2>1
  <2> QED BY <2>2
<1>4. \A q \in Nat : q < Len(s) /\ (\A j \in Nat : q < j => j \in T) => q \in T
  <2> SUFFICES ASSUME NEW q \in Nat, \A j \in Nat : q < j => j \in T
               PROVE  f[q] \in Seq(Int)
    OBVIOUS
  <2>1. CASE EndsAt(u, s, q)
    <3>1. f[q] = <<>> BY <1>2, <2>1
    <3> QED BY <3>1
  <2>2. CASE ~EndsAt(u, s, q)
    <3>1. Onward(u, s, q) \in T /\ Emitted(u, s, q) \in Seq(Int) BY <2>2, OnwardIs
    <3>2. f[Onward(u, s, q)] \in Seq(Int) BY <3>1
    <3> QED BY <1>2, <2>2, <3>1, <3>2, ConcatProperties
  <2> QED BY <2>1, <2>2
<1>5. Nat \subseteq T
  <2>1. Descends(T, Len(s)) BY <1>3, <1>4 DEF Descends
  <2>2. Len(s) \in Nat OBVIOUS
  <2> HIDE DEF T
  <2> QED BY <2>1, <2>2, Downward
<1>6. f[p] \in Seq(Int) BY <1>5
<1> QED BY <1>1, <1>2, <1>6

----------------------------------------------------------------------------
(* The output is that of the reference.                                    *)

\* The position of the byte at hand in the input
Position == Place(At) + 1

\* Whatever is received later: what came out is the beginning of what comes out
\* of everything at once, and the rest of that comes from the byte at hand on.
Follows(u, s, o, p) ==
  \A e \in Seq(Bytes) : AtOnce(u, s \o e, 1) = o \o AtOnce(u, s \o e, p)

CutInv ==
  unit # 0 /\ cut # "flush" =>
    /\ Follows(unit, input, out, Position)
    /\ stage = "none" /\ cut = "no" => AtOnce(unit, input, Position) = <<>>

LEMMA Joined ==
  ASSUME NEW s \in Seq(Bytes), NEW e \in Seq(Bytes)
  PROVE  /\ s \o e \in Seq(Bytes) /\ Len(s) \in Nat
         /\ Len(s \o e) \in Nat /\ Len(s) <= Len(s \o e)
         /\ \A i \in 1..Len(s) : (s \o e)[i] = s[i]
<1>1. /\ s \o e \in Seq(Bytes) /\ Len(s \o e) = Len(s) + Len(e)
      /\ \A i \in 1..(Len(s) + Len(e)) : (s \o e)[i] = IF i <= Len(s) THEN s[i] ELSE e[i - Len(s)]
  BY ConcatProperties
<1>2. Len(s) \in Nat /\ Len(e) \in Nat OBVIOUS
<1> QED BY <1>1, <1>2

LEMMA JoinedTwice ==
  ASSUME NEW a \in Seq(Int), NEW b \in Seq(Int), NEW c \in Seq(Int)
  PROVE  (a \o b) \o c = a \o (b \o c)
BY ConcatAssociative

\* One turn of the loop: d comes out, and it goes on at q.
LEMMA FollowsOn ==
  ASSUME NEW u \in Units, NEW s \in Seq(Bytes), NEW o \in Seq(Nat), NEW p \in Nat,
         NEW d \in Seq(Nat), NEW q \in Nat, Follows(u, s, o, p),
         \A e \in Seq(Bytes) : /\ ~EndsAt(u, s \o e, p)
                               /\ Emitted(u, s \o e, p) = d /\ Onward(u, s \o e, p) = q
  PROVE  Follows(u, s, o \o d, q)
<1> SUFFICES ASSUME NEW e \in Seq(Bytes)
             PROVE  AtOnce(u, s \o e, 1) = (o \o d) \o AtOnce(u, s \o e, q)
  BY DEF Follows
<1>1. PICK t \in Seq(Bytes) : t = s \o e BY Joined
<1>2. AtOnce(u, t, 1) = o \o AtOnce(u, t, p) BY <1>1 DEF Follows
<1>3. ~EndsAt(u, t, p) /\ Emitted(u, t, p) = d /\ Onward(u, t, p) = q BY <1>1
<1>4. AtOnce(u, t, p) = d \o AtOnce(u, t, q) BY <1>3, AtOnceIs
<1>5. PICK x \in Seq(Int) : x = AtOnce(u, t, q) BY AtOnceIs
<1>6. o \in Seq(Int) /\ d \in Seq(Int) OBVIOUS
<1>7. (o \o d) \o x = o \o (d \o x) BY <1>6, JoinedTwice
<1>8. AtOnce(u, t, 1) = o \o (d \o x) BY <1>2, <1>4, <1>5
<1> QED BY <1>1, <1>5, <1>7, <1>8

\* More input changes nothing of this.
LEMMA FollowsMore ==
  ASSUME NEW u, NEW s \in Seq(Bytes), NEW c \in Seq(Bytes), NEW o, NEW p, Follows(u, s, o, p)
  PROVE  Follows(u, s \o c, o, p)
<1> SUFFICES ASSUME NEW e \in Seq(Bytes)
             PROVE  AtOnce(u, (s \o c) \o e, 1) = o \o AtOnce(u, (s \o c) \o e, p)
  BY DEF Follows
<1>1. (s \o c) \o e = s \o (c \o e) BY ConcatAssociative
<1>2. c \o e \in Seq(Bytes) BY ConcatProperties
<1> QED BY <1>1, <1>2 DEF Follows

\* The bytes of the pool in the input
LEMMA ByteIs ==
  ASSUME PInv, NEW k \in Nat, k < Len(mem), NEW e \in Seq(Bytes)
  PROVE  /\ Place(k) + 1 \in 1..Len(input)
         /\ Byte(k) = (input \o e)[Place(k) + 1] /\ Byte(k) = input[Place(k) + 1]
<1>1. k + 1 \in 1..Len(mem) BY Numeric
<1>2. mem[k + 1] = Len(input) - Len(mem) + (k + 1) BY <1>1 DEF PInv, BufferInv, EndOf
<1>3. Place(k) + 1 \in 1..Len(input) /\ mem[k + 1] = Place(k) + 1
  BY <1>2, Numeric DEF Place
<1>4. (input \o e)[Place(k) + 1] = input[Place(k) + 1] BY <1>3, Numeric, Joined
<1> QED BY <1>3, <1>4 DEF Byte

\* When the loop of proc runs, and whatever follows: the reference is at the
\* same byte, and it is lost when the loop is.
LEMMA SameBytes ==
  ASSUME PInv, stage = "proc", More, NEW e \in Seq(Bytes)
  PROVE  /\ Position \in Nat \ {0} /\ Position = Place(curr) + 1
         /\ Position + unit <= Len(input) /\ Len(input) <= Len(input \o e)
         /\ LostAt(unit, input \o e, Position) <=> ~Aligned(curr)
         /\ Byte(curr + 1) = (input \o e)[Position + 1]
<1>1. unit \in Nat /\ unit >= 2 BY Numeric, PacketizerAssumption
<1>2. Position = Place(curr) + 1 BY DEF Position, At
<1>3. curr + unit < Len(mem) BY <1>1, Numeric DEF More
<1>4. /\ curr \in Nat /\ curr < Len(mem) /\ curr + 1 \in Nat /\ curr + 1 < Len(mem)
      /\ curr + unit \in Nat
  BY <1>1, <1>3, Numeric
<1>0. Len(mem) \in Nat /\ Len(input) \in Nat /\ Len(mem) <= Len(input) BY Numeric
<1>5. /\ Place(curr) \in Nat /\ Place(curr + 1) = Place(curr) + 1
      /\ Place(curr + unit) = Place(curr) + unit /\ Place(curr + unit) + 1 <= Len(input)
  <2>1. Place(curr) \in Nat /\ Place(curr + 1) = Place(curr) + 1 BY <1>0, <1>4 DEF Place
  <2>2. Place(curr + unit) = Place(curr) + unit BY <1>0, <1>1, <1>4 DEF Place
  <2>3. Place(curr + unit) + 1 <= Len(input) BY <1>0, <1>3, <1>4 DEF Place
  <2> QED BY <2>1, <2>2, <2>3
<1>6. /\ Byte(curr) = (input \o e)[Position]
      /\ Byte(curr + 1) = (input \o e)[Position + 1]
      /\ Byte(curr + unit) = (input \o e)[Place(curr + unit) + 1]
  BY <1>2, <1>3, <1>4, <1>5, ByteIs
<1>7. Position + unit = Place(curr + unit) + 1 BY <1>1, <1>2, <1>5
<1>8. Len(input) <= Len(input \o e) BY Numeric, Joined
<1>9. Byte(curr + unit) = (input \o e)[Position + unit] BY <1>6, <1>7
<1>10. LostAt(unit, input \o e, Position) <=> ~Aligned(curr)
  BY <1>6, <1>9 DEF LostAt, Aligned
<1>11. Position \in Nat \ {0} BY <1>2, <1>5
<1>12. Position + unit <= Len(input) BY <1>5, <1>7
<1>13. Byte(curr + 1) = (input \o e)[Position + 1] BY <1>6
<1> QED BY <1>2, <1>8, <1>10, <1>11, <1>12, <1>13

\* The boundaries the loop finds are those of the reference.
LEMMA SameMarks ==
  ASSUME PInv, stage = "proc", NEW e \in Seq(Bytes), NEW k \in Nat
  PROVE  k \in Resyncs <=>
           /\ Place(k) + 1 \in Marked(unit, input \o e, Position)
           /\ Place(k) + ResyncUnits * unit <= Len(input)
<1>1. unit \in Nat /\ unit >= 2 /\ ResyncUnits \in Nat /\ ResyncUnits >= 2
  BY Numeric, PacketizerAssumption
<1>2. Position = Place(curr) + 1 BY DEF Position, At
<1>3. PICK r \in Nat : r = ResyncUnits * unit BY <1>1
<1>4. r >= ResyncUnits
  BY <1>1, <1>3
<1>0. /\ Len(mem) \in Nat /\ Len(input) \in Nat /\ curr \in Nat
      /\ Len(input \o e) \in Nat /\ Len(input) <= Len(input \o e)
  BY Numeric, Joined
<1>5. /\ Place(k) \in Int /\ Position \in Int
      /\ k + r <= Len(mem) <=> Place(k) + r <= Len(input)
      /\ curr <= k <=> Position <= Place(k) + 1
  <2>1. Place(k) \in Int /\ Position \in Int BY <1>0, <1>2 DEF Place
  <2>2. k + r <= Len(mem) <=> Place(k) + r <= Len(input) BY <1>0, <1>3 DEF Place
  <2>3. curr <= k <=> Position <= Place(k) + 1 BY <1>0, <1>2 DEF Place
  <2> QED BY <2>1, <2>2, <2>3
<1>6. ASSUME k + r <= Len(mem), NEW i \in 0..(ResyncUnits - 1)
      PROVE  Byte(k + i * unit) = (input \o e)[Place(k) + 1 + i * unit]
  <2>1. PICK j \in Nat : j = i * unit BY <1>1
  <2>2. j < r
    <3>1. i + 1 <= ResyncUnits BY <1>1
    <3>2. (i + 1) * unit <= ResyncUnits * unit BY <1>1, <3>1
    <3>3. (i + 1) * unit = j + unit BY <1>1, <2>1
    <3> QED BY <1>1, <1>3, <2>1, <3>2, <3>3
  <2>3. k + j \in Nat /\ k + j < Len(mem)
    <3> HIDE DEF PInv
    <3>1. k + r <= Len(mem) BY <1>6
    <3> QED BY <1>0, <1>3, <2>1, <2>2, <3>1
  <2>4. Byte(k + j) = (input \o e)[Place(k + j) + 1] BY <2>3, ByteIs
  <2>5. Place(k + j) + 1 = Place(k) + 1 + j BY Numeric, <2>1 DEF Place
  <2> QED BY <2>1, <2>4, <2>5
<1>7. Place(k) + r <= Len(input) => Place(k) + 1 <= Len(input \o e) - r + 1
  <2>1. PICK q \in Int : q = Place(k) BY <1>5
  <2>2. PICK m, n \in Nat : m = Len(input) /\ n = Len(input \o e) /\ m <= n BY <1>0
  <2>3. q + r <= m => q + 1 <= n - r + 1 BY <2>2
  <2> QED BY <2>1, <2>2, <2>3
<1>8. Place(k) + 1 \in Int /\ Position \in Int /\ Len(input \o e) - r + 1 \in Int
  <2>1. Place(k) \in Int /\ Position \in Int BY <1>5
  <2>2. Len(input \o e) \in Nat BY <1>0
  <2> QED BY <2>1, <2>2
<1>9. k + r <= Len(mem) => k \in 0..(Len(mem) - 1) BY <1>0, <1>1, <1>3, <1>4
<1>10. CASE k + r <= Len(mem)
  <2>1. k \in Resyncs <=>
          curr <= k /\ \A i \in 0..(ResyncUnits - 1) : Byte(k + i * unit) = Sync
    BY <1>3, <1>9, <1>10, Numeric DEF Resyncs
  <2>2. Place(k) + 1 \in Marked(unit, input \o e, Position) <=>
          /\ Position <= Place(k) + 1
          /\ \A i \in 0..(ResyncUnits - 1) : (input \o e)[Place(k) + 1 + i * unit] = Sync
    <3>0. PICK t : t = input \o e OBVIOUS
    <3>1. PICK q, m \in Int : q = Place(k) + 1 /\ m = Len(t) - r + 1 BY <1>8, <3>0
    <3>2. q <= m BY <1>5, <1>7, <1>10, <3>0, <3>1
    <3>3. Marked(unit, t, Position) =
            {x \in Position..m : \A i \in 0..(ResyncUnits - 1) : t[x + i * unit] = Sync}
      BY <1>3, <3>1 DEF Marked
    <3>4. q \in Position..m <=> Position <= q BY <1>8, <3>1, <3>2
    <3> QED BY <3>0, <3>1, <3>3, <3>4
  <2> QED BY <1>3, <1>5, <1>6, <1>10, <2>1, <2>2
<1>11. CASE ~(k + r <= Len(mem)) BY <1>3, <1>5, <1>11 DEF Resyncs
<1> QED BY <1>10, <1>11
\* Bytes of the pool are bytes of the input.
LEMMA PartRun ==
  ASSUME PInv, NEW p \in Nat, NEW n \in Nat, p + n <= Len(mem)
  PROVE  Part(mem, p, n) = Run(Place(p) + 1, n) /\ Part(mem, p, n) \in Seq(Nat)
<1>0. Len(mem) \in Nat /\ Len(input) \in Nat /\ mem \in Seq(Nat) /\ Place(p) \in Nat
  BY Numeric DEF Place
<1>1. PICK d : d = Part(mem, p, n) OBVIOUS
<1>2. d \in Seq(Nat) /\ Len(d) = n /\ \A i \in 1..n : d[i] = mem[p + i]
  <2> HIDE DEF PInv
  <2>1. mem \in Seq(Nat) BY <1>0
  <2> QED BY <1>1, <2>1, PartIs
<1>3. ASSUME NEW i \in 1..n PROVE d[i] = (Place(p) + 1) + i - 1
  <2>1. p + i \in 1..Len(mem) BY <1>0
  <2>2. mem[p + i] = Len(input) - Len(mem) + (p + i) BY <2>1 DEF PInv, BufferInv, EndOf
  <2>3. d[i] = mem[p + i] BY <1>2
  <2> QED BY <1>0, <2>2, <2>3 DEF Place
<1>4. d = [i \in 1..n |-> d[i]] BY <1>2
<1>5. [i \in 1..n |-> d[i]] = [i \in 1..n |-> (Place(p) + 1) + i - 1] BY <1>3
<1> QED BY <1>1, <1>2, <1>4, <1>5 DEF Run

\* A loop that is left keeps its place.
LEMMA LeavePlace ==
  ASSUME PInv, stage # "none", NEW p \in Nat, p <= Len(mem), Leave(p), UNCHANGED <<input, peak>>
  PROVE  Position' = Place(p) + 1
<1>1. Len(input) - Len(mem') + head' = Place(p) /\ input' = input
  BY Compacted DEF PInv, Leave
<1>2. \/ stage' = "rest" /\ curr' = head'
      \/ stage' = "none"
  BY DEF Leave
<1>3. Position' = Len(input') - Len(mem') + head' + 1 BY <1>2 DEF Position, Place, At
<1> QED BY <1>1, <1>3

\* The loops of a call that is no flush
LEMMA Proc ==
  ASSUME PInv, stage # "none", cut # "flush"
  PROVE  stage = "proc" /\ ~flush /\ unit \in Units /\ curr <= Len(mem)
         /\ Position = Place(curr) + 1 /\ Position \in Nat
<1>1. stage = "proc" /\ ~flush /\ unit \in Units /\ curr <= Len(mem) BY DEF PInv, LoopInv
<1>2. Position = Place(curr) + 1 BY <1>1 DEF Position, At
<1>3. Place(curr) \in Nat BY Numeric DEF Place
<1> QED BY <1>1, <1>2, <1>3

LEMMA PutCut == ASSUME PInv, PInv', CutInv, Put PROVE CutInv'
<1> SUFFICES ASSUME unit' # 0, cut' # "flush"
             PROVE  /\ Follows(unit', input', out', Position')
                    /\ stage' = "proc"
  BY DEF CutInv
<1>1. PICK c \in Chunk :
        /\ input' = input \o c
        /\ AppendData([i \in 1..Len(c) |-> Len(input) + i])
        /\ peak' = IF peak < Live + Len(c) THEN Live + Len(c) ELSE peak
  BY DEF Put
<1>2. /\ c \in Seq(Bytes) /\ over' = over /\ out' = out /\ stage = "none"
      /\ stage' = "proc" /\ curr' = head' /\ cut # "flush"
  BY PacketizerAssumption DEF Put, Bytes
<1>3. /\ Len(input') - Len(mem') + head' = Place(head)
      /\ Len(mem) = Len(input) /\ head = 0 => Len(mem') = Len(input') /\ head' = 0
  BY <1>1, <1>2, AppendedIs DEF PInv
<1>4. Position' = Place(head) + 1 /\ Position = Place(head) + 1
  BY <1>2, <1>3 DEF Position, Place, At
<1>5. CASE unit = 0
  <2>1. head = 0 /\ Len(mem) = Len(input) /\ out = <<>> BY <1>5 DEF PInv, LoopInv
  <2>2. Position' = 1 BY <1>4, <2>1, Numeric DEF Place
  <2>3. unit' \in Units /\ input' \in Seq(Bytes) BY DEF PInv, LoopInv, BufferInv
  <2>4. ASSUME NEW w \in Units, NEW s \in Seq(Bytes) PROVE Follows(w, s, <<>>, 1)
    <3>1. ASSUME NEW e \in Seq(Bytes)
          PROVE  AtOnce(w, s \o e, 1) = <<>> \o AtOnce(w, s \o e, 1)
      <4>1. s \o e \in Seq(Bytes) BY Joined
      <4>2. AtOnce(w, s \o e, 1) \in Seq(Int) BY <4>1, AtOnceIs
      <4> QED BY <4>2
    <3> QED BY <3>1 DEF Follows
  <2> QED BY <1>2, <2>1, <2>2, <2>3, <2>4
<1>6. CASE unit # 0
  <2>1. unit' = unit BY <1>6 DEF Put
  <2>2. Follows(unit, input, out, Position) BY <1>2, <1>6 DEF CutInv
  <2>3. Follows(unit, input \o c, out, Position) BY <1>2, <2>2, Numeric, FollowsMore
  <2> QED BY <1>1, <1>2, <1>4, <2>1, <2>3
<1> QED BY <1>5, <1>6

\* What was at the byte at hand still is when the call returns.
LEMMA LeaveCut ==
  ASSUME PInv, CutInv, stage # "none", Leave(curr), UNCHANGED <<unit, out, history>>,
         stage = "proc" => EndsAt(unit, input, Position)
  PROVE  CutInv'
<1> SUFFICES ASSUME unit # 0, cut # "flush"
             PROVE  /\ Follows(unit', input', out', Position')
                    /\ AtOnce(unit', input', Position') = <<>>
  BY DEF CutInv, history
<1>1. unit' = unit /\ out' = out /\ input' = input /\ peak' = peak BY DEF history
<1>2. stage = "proc" /\ unit \in Units /\ curr <= Len(mem) /\ Position = Place(curr) + 1
      /\ Position \in Nat
  BY Proc
<1>3. Position' = Position BY <1>1, <1>2, Numeric, LeavePlace
<1>4. Follows(unit, input, out, Position) BY DEF CutInv
<1>5. AtOnce(unit, input, Position) = <<>> BY <1>2, Numeric, AtOnceIs
<1> QED BY <1>1, <1>3, <1>4, <1>5

LEMMA EndCut == ASSUME PInv, CutInv, End PROVE CutInv'
<1>1. ASSUME stage = "proc" PROVE EndsAt(unit, input, Position)
  <2>1. Position = Place(curr) + 1 BY <1>1 DEF Position, At
  <2>2. Position + unit > Len(input)
    BY <1>1, <2>1, Numeric, PacketizerAssumption DEF End, More, Place
  <2> QED BY <2>2 DEF EndsAt
<1> QED BY <1>1, LeaveCut DEF End

\* A boundary of the reference is in the pool.
LEMMA MarkedPlace ==
  ASSUME PInv, stage = "proc", NEW t, NEW y \in Marked(unit, t, Position)
  PROVE  \E k \in Nat : y = Place(k) + 1 /\ curr <= k
<1>1. Position = Place(curr) + 1 BY DEF Position, At
<1>2. y \in Int /\ Position <= y
  <2>1. Len(input) \in Nat /\ Len(mem) \in Nat /\ curr \in Nat BY Numeric
  <2>2. Position \in Int BY <1>1, <2>1 DEF Place
  <2>3. y \in Position..(Len(t) - ResyncUnits * unit + 1) BY DEF Marked
  <2> QED BY <2>2, <2>3
<1>3. PICK k \in Int : k = y - 1 - (Len(input) - Len(mem))
  <2>1. Len(input) \in Nat /\ Len(mem) \in Nat BY Numeric
  <2>2. y - 1 - (Len(input) - Len(mem)) \in Int BY <1>2, <2>1
  <2> QED BY <2>2
<1>4. y = Place(k) + 1 /\ curr <= k BY <1>1, <1>2, <1>3, Numeric DEF Place
<1> QED BY <1>4, Numeric

LEMMA NothingMore ==
  ASSUME PInv
  PROVE  \E e \in Seq(Bytes) : e = <<>> /\ input \o e = input
<1>1. <<>> \in Seq(Bytes) OBVIOUS
<1>2. input \o <<>> = input BY Numeric, ConcatEmptySeq
<1> QED BY <1>1, <1>2

LEMMA LostCut == ASSUME PInv, CutInv, Lost PROVE CutInv'
<1>1. ASSUME stage = "proc" PROVE EndsAt(unit, input, Position)
  <2>0. More /\ ~Aligned(curr) /\ Resyncs = {} BY DEF Lost
  <2>1. PICK e \in Seq(Bytes) : e = <<>> /\ input \o e = input BY NothingMore
  <2>2. LostAt(unit, input \o e, Position) BY <1>1, <2>0, SameBytes
  <2>3. ASSUME NEW y \in Marked(unit, input, Position) PROVE FALSE
    <3>1. PICK k \in Nat : y = Place(k) + 1 /\ curr <= k BY <1>1, MarkedPlace
    <3>2. k \notin Resyncs BY <2>0
    <3>3. ~(Place(k) + ResyncUnits * unit <= Len(input))
      BY <1>1, <2>1, <3>1, <3>2, SameMarks
    <3>4. y <= Len(input) - ResyncUnits * unit + 1 /\ ResyncUnits * unit \in Nat
          /\ Place(k) \in Int /\ Len(input) \in Nat
      <4>1. unit \in Nat /\ ResyncUnits \in Nat /\ Len(input) \in Nat /\ Place(k) \in Int
        BY <1>1, Numeric, PacketizerAssumption DEF Place
      <4>2. y \in Position..(Len(input) - ResyncUnits * unit + 1) BY DEF Marked
      <4>3. ResyncUnits * unit \in Nat BY <4>1
      <4> QED BY <4>1, <4>2, <4>3, <3>1
    <3> QED BY <3>1, <3>3, <3>4
  <2> QED BY <2>1, <2>2, <2>3 DEF EndsAt
<1> QED BY <1>1, LeaveCut DEF Lost

LEMMA ResyncCut == ASSUME PInv, CutInv, Resync PROVE CutInv'
<1> SUFFICES ASSUME unit # 0, cut # "flush"
             PROVE  Follows(unit, input, out', Position') /\ stage' # "none"
  BY DEF CutInv, Resync, history
<1>1. PICK p \in Resyncs :
        /\ \A q \in Resyncs : p <= q
        /\ curr' = p
        /\ out' = out \o (IF p - curr >= unit - Packet
                           THEN Part(mem, p - (unit - Packet), unit - Packet) ELSE <<>>)
  BY DEF Resync
<1>2. /\ stage = "proc" /\ unit \in Units /\ curr <= Len(mem) /\ Position = Place(curr) + 1
      /\ Position \in Nat /\ More /\ ~Aligned(curr)
  BY Proc DEF Resync
<1>3. p \in Nat /\ curr <= p /\ p < Len(mem) /\ curr \in Nat /\ Len(mem) \in Nat
  BY Numeric DEF Resyncs
<1>4. stage' = stage /\ mem' = mem /\ input' = input BY DEF Resync, buffer, history
<1>5. PICK q \in Nat : q = Place(p) + 1
  <2>1. Place(p) + 1 \in Nat BY <1>3, Numeric DEF Place
  <2> QED BY <2>1
<1>6. Position' = q BY <1>1, <1>2, <1>4, <1>5 DEF Position, Place, At
<1>7. PICK g \in Nat : g = unit - Packet /\ g < unit
  BY <1>2, Numeric, PacketizerAssumption
<1>8. q - Position = p - curr BY <1>2, <1>3, <1>5, Numeric DEF Place
<1>9. PICK d \in Seq(Nat) : /\ d = IF p - curr >= g THEN Part(mem, p - g, g) ELSE <<>>
                           /\ d = IF q - Position >= g THEN Run(q - g, g) ELSE <<>>
  <2>1. CASE p - curr >= g
    <3>1. PICK a \in Nat : a = p - g BY <1>3, <1>7, <2>1
    <3>0. Len(mem) \in Nat /\ Len(input) \in Nat /\ p < Len(mem) BY <1>3, Numeric
    <3>2. a + g <= Len(mem) /\ Place(a) + 1 = q - g
      <4>1. a + g = p BY <1>3, <3>1
      <4>2. Place(a) + g = Place(p) /\ Place(a) \in Int BY <1>3, <3>0, <4>1 DEF Place
      <4> QED BY <1>5, <3>0, <4>1, <4>2
    <3>3. PICK x \in Seq(Nat) : x = Part(mem, a, g) /\ x = Run(q - g, g)
      BY <1>7, <3>2, PartRun
    <3>4. q - Position >= g BY <1>8, <2>1
    <3>5. x = Part(mem, p - g, g) BY <3>1, <3>3
    <3> QED BY <2>1, <3>3, <3>4, <3>5
  <2>2. CASE ~(p - curr >= g)
    <3>1. <<>> \in Seq(Nat) OBVIOUS
    <3> QED BY <1>8, <2>2, <3>1
  <2> QED BY <2>1, <2>2
<1>10. out' = out \o d BY <1>1, <1>7, <1>9
<1>11. ASSUME NEW e \in Seq(Bytes)
       PROVE  /\ ~EndsAt(unit, input \o e, Position)
              /\ Emitted(unit, input \o e, Position) = d
              /\ Onward(unit, input \o e, Position) = q
  <2>1. /\ LostAt(unit, input \o e, Position)
        /\ Position + unit <= Len(input) /\ Len(input) <= Len(input \o e)
    BY <1>2, SameBytes
  <2>2. PICK M : M = Marked(unit, input \o e, Position) OBVIOUS
  <2>3. q \in M /\ Place(p) + ResyncUnits * unit <= Len(input)
    BY <1>2, <1>3, <1>5, <2>2, SameMarks
  <2>4. ASSUME NEW y \in M PROVE q <= y
    <3>1. PICK k \in Nat : y = Place(k) + 1 /\ curr <= k BY <1>2, <2>2, MarkedPlace
    <3>2. CASE k \in Resyncs
      <4>1. p <= k BY <1>1, <3>2
      <4> QED BY <1>3, <1>5, <3>1, <4>1, Numeric DEF Place
    <3>3. CASE k \notin Resyncs
      <4>1. ~(Place(k) + ResyncUnits * unit <= Len(input))
        BY <1>2, <2>2, <3>1, <3>3, SameMarks
      <4>2. ResyncUnits * unit \in Nat /\ Place(k) \in Int /\ Place(p) \in Int
            /\ Len(input) \in Nat
        <5>1. unit \in Nat /\ ResyncUnits \in Nat BY <1>2, Numeric, PacketizerAssumption
        <5>2. ResyncUnits * unit \in Nat BY <5>1
        <5> QED BY <1>3, <5>2, Numeric DEF Place
      <4>3. Place(p) < Place(k) BY <2>3, <4>1, <4>2
      <4> QED BY <1>5, <3>1, <4>2, <4>3
    <3> QED BY <3>2, <3>3
  <2>5. M \subseteq Nat
    <3>1. \A y \in M : \E k \in Nat : y = Place(k) + 1 BY <1>2, <2>2, MarkedPlace
    <3>2. \A k \in Nat : Place(k) + 1 \in Nat BY Numeric DEF Place
    <3> QED BY <3>1, <3>2
  <2>6. First(M) = q
    <3>1. PICK x : x = First(M) OBVIOUS
    <3>2. x \in M /\ \A y \in M : x <= y BY <2>3, <2>5, <3>1, FirstIs
    <3>3. x <= q /\ q <= x /\ x \in Nat BY <2>3, <2>4, <2>5, <3>2
    <3> QED BY <3>1, <3>3
  <2>7. ~EndsAt(unit, input \o e, Position)
    <3>1. ~(Position + unit > Len(input \o e))
      <4>1. Position + unit \in Nat /\ Len(input) \in Nat /\ Len(input \o e) \in Nat
        BY <1>2, Numeric, Joined
      <4> QED BY <2>1, <4>1
    <3> QED BY <2>2, <2>3, <3>1 DEF EndsAt
  <2>8. Onward(unit, input \o e, Position) = q BY <2>1, <2>2, <2>6 DEF Onward
  <2>9. Emitted(unit, input \o e, Position) = d
    BY <1>7, <1>9, <2>1, <2>2, <2>6 DEF Emitted
  <2> QED BY <2>7, <2>8, <2>9
<1>12. Follows(unit, input, out, Position) BY DEF CutInv
<1>13. Follows(unit, input, out \o d, q) BY <1>2, <1>11, <1>12, Numeric, FollowsOn
<1> QED BY <1>2, <1>4, <1>6, <1>10, <1>13

LEMMA BrokenCut == ASSUME PInv, CutInv, BrokenPacket PROVE CutInv'
<1> SUFFICES ASSUME unit # 0, cut # "flush"
             PROVE  Follows(unit, input, out, Position') /\ stage' # "none"
  BY DEF CutInv, BrokenPacket, history
<1>2. /\ stage = "proc" /\ unit \in Units /\ Position = Place(curr) + 1
      /\ Position \in Nat /\ More /\ Aligned(curr) /\ Byte(curr + 1) = Broken
  BY Proc DEF BrokenPacket
<1>3. /\ stage' = stage /\ mem' = mem /\ input' = input /\ curr' = curr + 1
  BY DEF BrokenPacket, buffer, history
<1>4. Position' = Position + 1
  BY <1>2, <1>3, Numeric DEF Position, Place, At
<1>5. ASSUME NEW e \in Seq(Bytes)
      PROVE  /\ ~EndsAt(unit, input \o e, Position)
             /\ Emitted(unit, input \o e, Position) = <<>>
             /\ Onward(unit, input \o e, Position) = Position + 1
  <2>1. /\ ~LostAt(unit, input \o e, Position)
        /\ Position + unit <= Len(input) /\ Len(input) <= Len(input \o e)
        /\ (input \o e)[Position + 1] = Broken
    BY <1>2, SameBytes
  <2>2. ~(Position + unit > Len(input \o e))
    <3>1. Position + unit \in Nat /\ Len(input) \in Nat /\ Len(input \o e) \in Nat
      BY <1>2, Numeric, Joined
    <3> QED BY <2>1, <3>1
  <2> QED BY <2>1, <2>2 DEF EndsAt, Emitted, Onward
<1>6. Follows(unit, input, out, Position) BY DEF CutInv
<1>7. <<>> \in Seq(Nat) /\ Position + 1 \in Nat BY <1>2
<1>8. Follows(unit, input, out \o <<>>, Position + 1)
  BY <1>2, <1>5, <1>6, <1>7, Numeric, FollowsOn
<1>9. out \o <<>> = out BY Numeric
<1> QED BY <1>2, <1>3, <1>4, <1>8, <1>9

LEMMA WholeCut == ASSUME PInv, CutInv, WholePacket PROVE CutInv'
<1> SUFFICES ASSUME unit # 0, cut # "flush"
             PROVE  /\ Follows(unit, input, out', Position')
                    /\ stage' = "none" => cut' # "no"
  <2>1. unit' = unit /\ input' = input /\ (cut' # "flush" => cut # "flush")
    BY DEF WholePacket
  <2> QED BY <2>1 DEF CutInv
<1>2. /\ stage = "proc" /\ unit \in Units /\ curr <= Len(mem) /\ Position = Place(curr) + 1
      /\ Position \in Nat /\ More /\ Aligned(curr) /\ Byte(curr + 1) # Broken
  BY Proc DEF WholePacket
<1>3. unit \in Nat /\ curr \in Nat /\ Len(mem) \in Nat /\ curr + unit < Len(mem)
  BY <1>2, Numeric DEF More
<1>4. PICK d \in Seq(Nat) : d = Part(mem, curr, unit) /\ d = Run(Position, unit)
  BY <1>2, <1>3, PartRun
<1>5. out' = out \o d
  <2>1. curr + unit <= Len(mem) BY <1>3
  <2> QED BY <1>4, <2>1 DEF WholePacket
<1>6. ASSUME NEW e \in Seq(Bytes)
      PROVE  /\ ~EndsAt(unit, input \o e, Position)
             /\ Emitted(unit, input \o e, Position) = d
             /\ Onward(unit, input \o e, Position) = Position + unit
  <2>1. /\ ~LostAt(unit, input \o e, Position)
        /\ Position + unit <= Len(input) /\ Len(input) <= Len(input \o e)
        /\ (input \o e)[Position + 1] # Broken
    BY <1>2, SameBytes
  <2>2. ~(Position + unit > Len(input \o e))
    <3>1. Position + unit \in Nat /\ Len(input) \in Nat /\ Len(input \o e) \in Nat
      BY <1>2, Numeric, Joined
    <3> QED BY <2>1, <3>1
  <2> QED BY <1>4, <2>1, <2>2 DEF EndsAt, Emitted, Onward
<1>7. Follows(unit, input, out, Position) BY DEF CutInv
<1>8. Position + unit \in Nat BY <1>2, <1>3
<1>9. Follows(unit, input, out \o d, Position + unit)
  BY <1>2, <1>6, <1>7, <1>8, Numeric, FollowsOn
<1>10. Position' = Place(curr + unit) + 1 /\ (stage' = "none" => cut' # "no")
  <2>1. CASE Byte(curr + 1) = Pat
    <3>1. Leave(curr + unit) /\ cut' = "pat" /\ input' = input /\ peak' = peak
      BY <1>2, <2>1 DEF WholePacket
    <3> QED BY <1>2, <1>3, <3>1, LeavePlace
  <2>2. CASE Byte(curr + 1) # Pat
    <3>1. curr' = curr + unit /\ stage' = stage /\ mem' = mem /\ input' = input
      BY <2>2 DEF WholePacket, buffer
    <3> QED BY <1>2, <3>1 DEF Position, Place, At
  <2> QED BY <2>1, <2>2
<1>11. Position' = Position + unit BY <1>2, <1>3, <1>10, Numeric DEF Place
<1> QED BY <1>5, <1>9, <1>10, <1>11

LEMMA NextCut == ASSUME PInv, CutInv, [Next]_vars PROVE CutInv'
<1>1. ASSUME Put PROVE CutInv' BY <1>1, PutCut, PutPInv
<1>2. ASSUME Flush PROVE CutInv' BY <1>2 DEF Flush, CutInv
<1>3. ASSUME Reset PROVE CutInv' BY <1>3 DEF Reset, CutInv
<1>4. CASE Next
  BY <1>1, <1>2, <1>3, <1>4, EndCut, LostCut, ResyncCut, BrokenCut, WholeCut DEF Next
<1>5. CASE UNCHANGED vars
  <2>1. Position' = Position BY <1>5 DEF vars, buffer, history, Position, Place, At
  <2> QED BY <1>5, <2>1 DEF vars, buffer, history, CutInv
<1> QED BY <1>4, <1>5

LEMMA BeginningIs ==
  ASSUME NEW o \in Seq(Nat), NEW x \in Seq(Int)
  PROVE  SubSeq(o \o x, 1, Len(o)) = o
<1>1. o \in Seq(Int) /\ Len(o) \in Nat /\ Len(x) \in Nat OBVIOUS
<1>2. PICK t : t = o \o x OBVIOUS
<1>3. /\ t \in Seq(Int) /\ Len(t) = Len(o) + Len(x)
      /\ \A i \in 1..(Len(o) + Len(x)) : t[i] = IF i <= Len(o) THEN o[i] ELSE x[i - Len(o)]
  BY <1>1, <1>2, ConcatProperties
<1>4. Part(t, 0, Len(o)) \in Seq(Int) /\ Len(Part(t, 0, Len(o))) = Len(o)
      /\ \A i \in 1..Len(o) : Part(t, 0, Len(o))[i] = t[0 + i]
  <2>1. PICK z, n \in Nat : z = 0 /\ n = Len(o) BY <1>1
  <2>2. z + n <= Len(t) BY <1>1, <1>3, <2>1
  <2>3. Part(t, z, n) \in Seq(Int) /\ Len(Part(t, z, n)) = n
        /\ \A i \in 1..n : Part(t, z, n)[i] = t[z + i]
    <3>1. t \in Seq(Int) BY <1>3
    <3> QED BY <2>2, <3>1, PartIs
  <2> QED BY <2>1, <2>3
<1>5. PICK w : w = Part(t, 0, Len(o)) OBVIOUS
<1>6. \A i \in 1..Len(o) : w[i] = o[i]
  <2> SUFFICES ASSUME NEW i \in 1..Len(o) PROVE w[i] = o[i] OBVIOUS
  <2>1. w[i] = t[i] BY <1>1, <1>4, <1>5
  <2>2. t[i] = o[i] BY <1>1, <1>3
  <2> QED BY <2>1, <2>2
<1>7. w = o BY <1>1, <1>4, <1>5, <1>6, SeqEqual
<1> QED BY <1>1, <1>2, <1>5, <1>7 DEF Part

\* What comes out of proc_arib_std_b25 does not depend on how the input was cut
\* into puts: lost and regained boundaries, broken packets and PATs included, it
\* is what one put of everything gives, or its beginning while a PAT has ended
\* the loop.
THEOREM CutsAreEqual == Spec => []CutsDoNotMatter
<1>1. Init => PInv /\ CutInv
  <2>1. Init => CutInv BY DEF Init, CutInv
  <2> QED BY <2>1, InitPInv
<1>2. PInv /\ CutInv /\ [Next]_vars => PInv' /\ CutInv' BY NextPInv, NextCut
<1>3. PInv /\ CutInv => CutsDoNotMatter
  <2> SUFFICES ASSUME PInv, CutInv, stage = "none", unit # 0, cut # "flush"
               PROVE  IF cut = "no" THEN out = AtOnce(unit, input, 1)
                      ELSE out = SubSeq(AtOnce(unit, input, 1), 1, Len(out))
    BY DEF CutsDoNotMatter
  <2>1. unit \in Units /\ out \in Seq(Nat) /\ input \in Seq(Bytes)
    BY Numeric DEF PInv, LoopInv
  <2>2. PICK e \in Seq(Bytes) : e = <<>> /\ input \o e = input BY NothingMore
  <2>3. PICK x \in Seq(Int) : x = AtOnce(unit, input, Position)
    <3>1. Position \in Nat BY Numeric DEF Position, Place, At
    <3> QED BY <2>1, <3>1, AtOnceIs
  <2>4. AtOnce(unit, input, 1) = out \o x BY <2>2, <2>3 DEF CutInv, Follows
  <2>5. CASE cut = "no"
    <3>1. x = <<>> BY <2>3, <2>5 DEF CutInv
    <3> QED BY <2>1, <2>4, <2>5, <3>1
  <2>6. CASE cut # "no"
    <3>1. SubSeq(out \o x, 1, Len(out)) = out BY <2>1, BeginningIs
    <3> QED BY <2>4, <2>6, <3>1
  <2> QED BY <2>5, <2>6
<1> QED BY <1>1, <1>2, <1>3, PTL DEF Spec
=============================================================================
