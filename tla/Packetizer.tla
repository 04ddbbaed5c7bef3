----------------------------- MODULE Packetizer -----------------------------
(***************************************************************************)
(* From bytes to packets: the input buffer (TS_WORK_BUFFER) of             *)
(* src/aribb25/arib_std_b25.c, select_unit_size, and how the loops of      *)
(* proc_arib_std_b25 and flush find packets in it, and lose and regain the *)
(* packet boundary.  What becomes of a packet is in Decoder.               *)
(*                                                                         *)
(* The program is known, memory is there, and no call fails but for the    *)
(* unit size.  One turn of a loop is a step.  A byte is Sync (0x47) or,    *)
(* when it is the second one, says what its packet is: Pat completes a     *)
(* PAT, Broken has an adaptation field longer than the packet.             *)
(***************************************************************************)
EXTENDS Integers, Sequences, FiniteSets

CONSTANTS
  Sync, Other, Pat, Broken,  \* bytes
  Packet,       \* 188
  UnitEnd,      \* 320: units are smaller
  HeadPackets,  \* 16: select_unit_size wants as many packets, and looks at twice as many
  MinCount,     \* 8: the intervals it must find
  ResyncUnits,  \* 8: the packets resync must see
  Small,        \* 1024: a rest that is smaller is moved
  FirstSize,    \* 512: the first size of a pool
  Chunk,        \* what may be put at once
  Admits(_, _)  \* bound: and what of it after what was received

ASSUME PacketizerAssumption ==
  /\ Packet \in Nat \ {0, 1} /\ UnitEnd > Packet
  /\ HeadPackets \in Nat \ {0} /\ FirstSize \in Nat \ {0}
  /\ HeadPackets * Packet >= (MinCount + 1) * (UnitEnd - 1) /\ UnitEnd <= 2 * Packet
  /\ ResyncUnits \in Nat \ {0, 1} /\ MinCount \in Nat /\ Small \in Nat
  /\ UnitEnd \in Nat /\ Chunk \subseteq Seq({Sync, Other, Pat, Broken})

VARIABLES
  input,  \* history: all bytes received
  mem,    \* pool up to tail, as positions of input
  head,   \* head - pool
  max,    \* bytes of pool
  over,   \* pool - tail, when a flush has left tail in front of its pool
  unit,   \* unit_size; 0: not known
  stage,  \* "none", "proc" (proc_arib_std_b25) or "rest" (the loop of flush)
  flush,  \* the call is flush
  curr,   \* curr - pool
  out,    \* history: all that was put out, as positions of input
  peak,   \* history: the most that were in the buffer, with those of a put
  cut     \* history: "pat" when the last call left its loop behind a PAT, "flush" after a flush

buffer == <<mem, head, max, over>>
history == <<input, peak, cut>>
vars == <<buffer, unit, stage, flush, curr, out, history>>

Init ==
  /\ input = <<>> /\ mem = <<>> /\ head = 0 /\ max = 0 /\ over = 0
  /\ unit = 0 /\ stage = "none" /\ flush = FALSE /\ curr = 0
  /\ out = <<>> /\ peak = 0 /\ cut = "no"

\* n elements of s from offset p on, and all of them
Part(s, p, n) == SubSeq(s, p + 1, p + n)

From(s, p) == SubSeq(s, p + 1, Len(s))

Live == Len(mem) - head

\* The byte at offset p of the pool
Byte(p) == input[mem[p + 1]]

----------------------------------------------------------------------------
(* The buffer                                                              *)

Doubled(n, size) ==
  LET D[m \in Nat] == IF m < size THEN D[2 * m] ELSE m IN D[n]

\* reserve_work_buffer
Reserved(size) == Doubled(IF max < FirstSize THEN FirstSize ELSE 2 * max, size)

\* Mutant of Append: what was in front of head is copied instead.
AppendFromPool(data) ==
  LET size == Len(mem) + Len(data)
  IN  IF size > max
        THEN max' = Reserved(size) /\ mem' = Part(mem, 0, Live) \o data /\ head' = 0
        ELSE mem' = mem \o data /\ UNCHANGED <<head, max>>

\* append_work_buffer: a larger pool has only what is live.
AppendData(data) ==
  LET size == Len(mem) + Len(data)
  IN  IF size > max
        THEN max' = Reserved(size) /\ mem' = From(mem, head) \o data /\ head' = 0
        ELSE mem' = mem \o data /\ UNCHANGED <<head, max>>

\* Mutant of Compact: the rest is moved only when it is small.
CompactSmall(p) ==
  LET n == Len(mem) - p
  IN  /\ IF n < Small THEN mem' = From(mem, p) /\ head' = 0
                      ELSE head' = p /\ UNCHANGED mem
      /\ over' = IF n < 0 THEN -n ELSE 0
      /\ UNCHANGED max

\* Mutant of Compact: head stays when the rest is not moved.
CompactKeepsHead(p) ==
  LET n == Len(mem) - p
  IN  /\ IF n < Small \/ p > max \div 2 THEN mem' = From(mem, p) /\ head' = 0
                                        ELSE UNCHANGED <<mem, head>>
      /\ over' = IF n < 0 THEN -n ELSE 0
      /\ UNCHANGED max

\* LAST: the rest from offset p on is moved to the start of the pool, or head
\* moves to it.  memcpy copies from the lower address to the higher one where
\* the two places overlap.
Compact(p) ==
  LET n == Len(mem) - p
  IN  /\ IF n < Small \/ p > max \div 2 THEN mem' = From(mem, p) /\ head' = 0
                                        ELSE head' = p /\ UNCHANGED mem
      /\ over' = IF n < 0 THEN -n ELSE 0
      /\ UNCHANGED max

----------------------------------------------------------------------------
(* select_unit_size                                                        *)

Inspected(s) == Part(s, 0, IF Len(s) > 2 * HeadPackets * Packet THEN 2 * HeadPackets * Packet ELSE Len(s))

\* How often Sync is followed by Sync after i bytes
Count(s, i) == Cardinality({p \in 1..(Len(s) - i) : s[p] = Sync /\ s[p + i] = Sync})

\* Mutant of Selected: no allowance for what is in front of the first packet.
SelectedStrict(s) ==
  LET t == Inspected(s)
      best == CHOOSE i \in Packet..(UnitEnd - 1) :
                \A j \in Packet..(UnitEnd - 1) :
                  Count(t, j) < Count(t, i) \/ (Count(t, j) = Count(t, i) /\ i <= j)
  IN  IF Len(s) < HeadPackets * Packet THEN 0
      ELSE IF Count(t, best) < MinCount \/ (Count(t, best) + 1) * best < Len(t) THEN 0
      ELSE best

\* The interval counted most often, the smallest of them.  0: more data are
\* needed, or NON_TS_INPUT_STREAM.
Selected(s) ==
  LET t == Inspected(s)
      best == CHOOSE i \in Packet..(UnitEnd - 1) :
                \A j \in Packet..(UnitEnd - 1) :
                  Count(t, j) < Count(t, i) \/ (Count(t, j) = Count(t, i) /\ i <= j)
  IN  IF Len(s) < HeadPackets * Packet THEN 0
      ELSE IF Count(t, best) < MinCount \/ (Count(t, best) + 3) * best < Len(t) THEN 0
      ELSE best

LiveBytes(m, h, s) == [i \in 1..(Len(m) - h) |-> s[m[h + i]]]

----------------------------------------------------------------------------
(* The calls                                                               *)

\* put; when the unit size cannot be told the bytes stay all the same.
Put ==
  /\ stage = "none" /\ over = 0
  /\ \E c \in Chunk :
       /\ Admits(input, c)
       /\ input' = input \o c
       /\ AppendData([i \in 1..Len(c) |-> Len(input) + i])
       /\ peak' = IF peak < Live + Len(c) THEN Live + Len(c) ELSE peak
  /\ unit' = IF unit = 0 THEN Selected(LiveBytes(mem', head', input')) ELSE unit
  /\ IF unit' = 0 THEN UNCHANGED <<stage, curr, cut>>
                  ELSE /\ stage' = "proc" /\ curr' = head'
                       /\ cut' = IF cut = "flush" THEN cut ELSE "no"
  /\ UNCHANGED <<over, flush, out>>

Flush ==
  /\ stage = "none" /\ over = 0
  /\ unit' = IF unit = 0 THEN Selected(LiveBytes(mem, head, input)) ELSE unit
  /\ unit' # 0
  /\ stage' = "proc" /\ flush' = TRUE /\ curr' = head /\ cut' = "flush"
  /\ UNCHANGED <<buffer, out, input, peak>>

\* reset
Reset ==
  /\ stage = "none"
  /\ input' = <<>> /\ mem' = <<>> /\ head' = 0 /\ max' = 0 /\ over' = 0
  /\ unit' = 0 /\ out' = <<>> /\ peak' = 0 /\ cut' = "no"
  /\ UNCHANGED <<stage, flush, curr>>

----------------------------------------------------------------------------
(* The loops                                                               *)

\* Mutant of Aligned: the packet behind is not looked at.
AlignedAlone(p) == Byte(p) = Sync

\* The loop of proc takes a packet only when another one seems to follow.
Aligned(p) == Byte(p) = Sync /\ (stage = "proc" => Byte(p + unit) = Sync)

More == curr + (IF stage = "proc" THEN unit + 1 ELSE Packet) <= Len(mem)

\* The places where resync and resync_force would go on
Resyncs ==
  {p \in curr..(Len(mem) - 1) :
     IF stage = "proc"
       THEN /\ p + ResyncUnits * unit <= Len(mem)
            /\ \A i \in 0..(ResyncUnits - 1) : Byte(p + i * unit) = Sync
       ELSE /\ p + Packet <= Len(mem) /\ Byte(p) = Sync
            /\ \A i \in 1..((Len(mem) - p) \div unit - 1) : Byte(p + i * unit) = Sync}

\* The call returns, or flush goes on with its own loop.
Leave(p) ==
  /\ Compact(p)
  /\ IF flush /\ stage = "proc"
       THEN stage' = "rest" /\ curr' = head' /\ UNCHANGED flush
       ELSE stage' = "none" /\ curr' = 0 /\ flush' = FALSE

End ==
  /\ stage # "none" /\ ~More
  /\ Leave(curr)
  /\ UNCHANGED <<unit, out, history>>

Lost ==
  /\ stage # "none" /\ More /\ ~Aligned(curr) /\ Resyncs = {}
  /\ Leave(curr)
  /\ UNCHANGED <<unit, out, history>>

\* The bytes between two packets that are in front of the one found come out.
Resync ==
  /\ stage # "none" /\ More /\ ~Aligned(curr)
  /\ \E p \in Resyncs :
       /\ \A q \in Resyncs : p <= q
       /\ curr' = p
       /\ out' = out \o (IF p - curr >= unit - Packet
                           THEN Part(mem, p - (unit - Packet), unit - Packet) ELSE <<>>)
  /\ UNCHANGED <<buffer, unit, stage, flush, history>>

\* The loop goes on with the next byte.
BrokenPacket ==
  /\ stage # "none" /\ More /\ Aligned(curr) /\ Byte(curr + 1) = Broken
  /\ curr' = curr + 1
  /\ UNCHANGED <<buffer, unit, stage, flush, out, history>>

\* A packet comes out; at the end of a flush without the bytes behind it, if
\* they are not there.
WholePacket ==
  /\ stage # "none" /\ More /\ Aligned(curr) /\ Byte(curr + 1) # Broken
  /\ out' = out \o Part(mem, curr, IF curr + unit <= Len(mem) THEN unit ELSE Packet)
  /\ IF stage = "proc" /\ Byte(curr + 1) = Pat
       THEN /\ Leave(curr + unit)
            /\ cut' = IF cut = "flush" THEN cut ELSE "pat"
       ELSE /\ curr' = curr + unit
            /\ UNCHANGED <<buffer, stage, flush, cut>>
  /\ UNCHANGED <<unit, input, peak>>

Next ==
  \/ Put \/ Flush \/ Reset
  \/ End \/ Lost \/ Resync \/ BrokenPacket \/ WholePacket

Spec == Init /\ [][Next]_vars

----------------------------------------------------------------------------
(* Properties. *)

\* What is in the buffer is the end of what was received, whatever growing and
\* moving there was, and head, tail and max keep their order. Not so after a
\* flush that ends in part of a unit: it leaves tail in front of pool, below head
\* (over > 0), and nothing is said of the buffer until a reset.
BufferIsTail ==
  over = 0 =>
    /\ head \in 0..Len(mem) /\ Len(mem) <= max
    /\ \A i \in (head + 1)..Len(mem) : mem[i] = Len(input) - Len(mem) + i

\* No byte comes out twice and none overtakes another, over lost and regained
\* packet boundaries, broken packets, PATs and flushes.
InOrder == \A i \in 1..(Len(out) - 1) : out[i] < out[i + 1]

\* With units of size u, the boundaries in s that are found again from position p
\* on
Marked(u, s, p) ==
  {q \in p..(Len(s) - ResyncUnits * u + 1) : \A i \in 0..(ResyncUnits - 1) : s[q + i * u] = Sync}

First(S) == CHOOSE x \in S : \A y \in S : x <= y

LostAt(u, s, p) == s[p] # Sync \/ s[p + u] # Sync

EndsAt(u, s, p) == p + u > Len(s) \/ (LostAt(u, s, p) /\ Marked(u, s, p) = {})

\* n positions from p on
Run(p, n) == [i \in 1..n |-> p + i - 1]

\* What comes out at p, and where the loop goes on
Emitted(u, s, p) ==
  IF LostAt(u, s, p)
    THEN LET q == First(Marked(u, s, p))
         IN  IF q - p >= u - Packet THEN Run(q - (u - Packet), u - Packet) ELSE <<>>
  ELSE IF s[p + 1] = Broken THEN <<>> ELSE Run(p, u)

Onward(u, s, p) ==
  IF LostAt(u, s, p) THEN First(Marked(u, s, p))
  ELSE IF s[p + 1] = Broken THEN p + 1 ELSE p + u

\* What a decoder puts out that is given all of s at once, from position p on
\* (the reference).
AtOnce(u, s, p) ==
  LET A[q \in Nat] ==
        IF EndsAt(u, s, q) THEN <<>> ELSE Emitted(u, s, q) \o A[Onward(u, s, q)]
  IN  A[p]

\* The output does not depend on how the input is cut into puts: it is that of
\* one put of everything, or, as long as a PAT has ended the loop, its
\* beginning.
CutsDoNotMatter ==
  stage = "none" /\ unit # 0 /\ cut # "flush" =>
    LET all == AtOnce(unit, input, 1)
    IN  IF cut = "no" THEN out = all ELSE out = SubSeq(all, 1, Len(out))

\* select_unit_size: the unit size is found at the first try, wherever the first
\* packet starts, as long as less than half as many bytes elsewhere look like
\* Sync as there are units.
Regular(s, u) ==
  \E o \in 0..(u - 1) :
    LET starts == {p \in 1..Len(s) : p % u = o}
        marked == {p \in 1..Len(s) : s[p] = Sync}
    IN  starts \subseteq marked /\ 2 * Cardinality(marked \ starts) < Cardinality(starts) - 1

UnitRight ==
  [][ unit = 0 /\ input' # <<>> /\ Len(input') >= HeadPackets * Packet =>
        \A u \in Packet..(UnitEnd - 1) : Regular(Inspected(input'), u) => unit' = u ]_<<input, unit>>

\* Moving the rest keeps the pool within four times of what it ever held,
\* however long the stream is.
PoolBounded == max <= FirstSize \/ max < 4 * peak
=============================================================================
