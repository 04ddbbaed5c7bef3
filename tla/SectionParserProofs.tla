------------------------ MODULE SectionParserProofs ------------------------
(***************************************************************************)
(* Proofs about SectionParser, for every heap, byte alphabet and sequence  *)
(* of payloads: the state is well typed, the reference counts are exact,   *)
(* no element in use is ever recycled, and what the client reads is intact *)
(* and stays as it is.                                                     *)
(***************************************************************************)
EXTENDS SectionParser, SequenceTheorems, TLAPS

Sect == [raw : Seq(Byte), data : BOOLEAN, ref : Nat]

(* A section whose header is known has the bytes SectionSize reads. *)
WellFormed(sect) ==
  sect \in Sect /\ (sect.data => Len(sect.raw) >= ShortHeader)

HeadersThere == \A e \in Elem : elem[e].data => Len(elem[e].raw) >= ShortHeader

----------------------------------------------------------------------------
(* Operators. *)

LEMMA ConstantsOK ==
  /\ None \notin Elem
  /\ Byte \subseteq Nat
  /\ ShortHeader \in Nat /\ ShortHeader > 1 /\ ShortHeader >= 1
  /\ LongHeader \in Nat /\ LongHeader >= ShortHeader
  /\ MaxRaw \in Nat
BY ParserAssumption

(* The length a section states is at least that of its header. *)
LEMMA SizeOK ==
  ASSUME NEW raw \in Seq(Byte), Len(raw) >= ShortHeader
  PROVE  SectionSize(raw) \in Nat /\ SectionSize(raw) >= ShortHeader
<1>1. raw[ShortHeader] \in Byte
  BY ConstantsOK
<1>2. raw[ShortHeader] \in Nat
  BY <1>1, ConstantsOK
<1> QED
  BY <1>2, ConstantsOK DEF SectionSize

(* append_section_data keeps a section well formed; when it has completed  *)
(* it, the section has the length it states.                               *)
LEMMA ExtendOK ==
  ASSUME NEW sect, WellFormed(sect), NEW more \in Seq(Byte)
  PROVE  /\ WellFormed(Extend(sect, more)) /\ Extend(sect, more).ref = sect.ref
         /\ LET made == Extend(sect, more)
            IN  Complete(made) => Len(made.raw) = SectionSize(made.raw)
<1> DEFINE room  == MaxRaw - Len(sect.raw)
           n     == IF Len(more) < room THEN Len(more) ELSE room
           raw   == sect.raw \o SubSeq(more, 1, n)
           known == sect.data \/ HeaderKnown(raw)
           size  == SectionSize(raw)
<1>1. sect \in Sect /\ sect.raw \in Seq(Byte) /\ Len(sect.raw) \in Nat
      /\ sect.data \in BOOLEAN /\ sect.ref \in Nat
      /\ (sect.data => Len(sect.raw) >= ShortHeader)
  BY DEF WellFormed, Sect
<1>2. n \in Int /\ n <= Len(more)
  BY <1>1, ConstantsOK
<1>3. SubSeq(more, 1, n) \in Seq(Byte)
  BY <1>2, SubSeqProperties
<1>4. raw \in Seq(Byte) /\ Len(raw) >= Len(sect.raw)
  BY <1>1, <1>3, ConcatProperties
<1> HIDE DEF raw, n, room
<1>5. known \in BOOLEAN
  BY <1>1 DEF HeaderKnown
<1>6. known => Len(raw) >= ShortHeader
  <2>1. CASE sect.data
    BY <1>1, <1>4, <2>1, ConstantsOK
  <2>2. CASE HeaderKnown(raw)
    BY <2>2 DEF HeaderKnown
  <2> QED
    BY <2>1, <2>2
<1> HIDE DEF known
<1> DEFINE cut == IF known /\ Len(raw) > size THEN SubSeq(raw, 1, size) ELSE raw
<1>7. /\ cut \in Seq(Byte) /\ (known => Len(cut) >= ShortHeader)
      /\ known /\ Len(cut) >= SectionSize(cut) => Len(cut) = SectionSize(cut)
  <2>1. CASE known /\ Len(raw) > size
    <3>1. size \in Nat /\ size >= ShortHeader
      BY <1>4, <1>6, <2>1, SizeOK
    <3>2. \A i \in 1..size : raw[i] \in Byte
      BY <1>4, <2>1, <3>1
    <3>3. /\ SubSeq(raw, 1, size) \in Seq(Byte)
          /\ Len(SubSeq(raw, 1, size)) = size
          /\ SubSeq(raw, 1, size)[ShortHeader] = raw[ShortHeader]
      BY <3>1, <3>2, SubSeqProperties, ConstantsOK
    <3> QED
      BY <2>1, <3>1, <3>3 DEF SectionSize
  <2>2. CASE ~(known /\ Len(raw) > size)
    <3>1. cut = raw
      BY <2>2
    <3>2. known => size \in Nat /\ Len(raw) \in Nat
      BY <1>4, <1>6, SizeOK
    <3> QED
      BY <1>4, <1>6, <2>2, <3>1, <3>2
  <2> QED
    BY <2>1, <2>2
<1>8. Extend(sect, more) = [sect EXCEPT !.raw = cut, !.data = known]
  BY DEF Extend, raw, n, room, known
<1> HIDE DEF cut
<1> QED
  BY <1>1, <1>5, <1>7, <1>8 DEF WellFormed, Sect, Complete

LEMMA CountedOK ==
  ASSUME NEW fields, stat \in [total : Nat, unique : Nat, error : Nat]
  PROVE  Counted(fields) \in [total : Nat, unique : Nat, error : Nat]
BY DEF Counted

LEMMA EmptySectionOK == WellFormed(EmptySection)
BY ConstantsOK DEF WellFormed, EmptySection, Sect

----------------------------------------------------------------------------
(* The inductive invariant: what a step may assume of the memory, and of   *)
(* the control state of put().                                             *)

MemoryTypes ==
  /\ work \in Elem \cup {None}
  /\ last \in Elem \cup {None}
  /\ held \in Elem \cup {None}
  /\ pool \subseteq Elem
  /\ buff \in Seq(Elem)
  /\ elem \in [Elem -> Sect]
  /\ stat \in [total : Nat, unique : Nat, error : Nat]

ControlTypes ==
  /\ pid \in Pids \cup {None}
  /\ pc \in {"idle", "exclude", "leftover", "loop"}
  /\ bytes \in Seq(Byte) /\ rest \in Seq(Byte)
  /\ rc \in {"OK", "CRC_MISSMATCH", "LENGTH_MISSMATCH", "INVALID_PARAM",
             "INVALID_TS_PID", "NO_SECTION_DATA", "NO_ENOUGH_MEMORY"}

MemoryInv == MemoryTypes /\ HeadersThere /\ Ownership

IInv == MemoryInv /\ ControlTypes

(* An element nobody refers to. *)
Free(w) == w \in Elem /\ w \notin Queued /\ w # last /\ w # held

----------------------------------------------------------------------------
(* The queue as a set. *)

LEMMA QueuedAppend ==
  ASSUME NEW w \in Elem, buff \in Seq(Elem), buff' = Append(buff, w)
  PROVE  /\ buff' \in Seq(Elem)
         /\ Len(buff') = Len(buff) + 1
         /\ Queued' = Queued \cup {w}
<1>1. /\ Len(buff) \in Nat
      /\ buff' \in Seq(Elem)
      /\ Len(buff') = Len(buff) + 1
      /\ \A i \in 1..Len(buff) : buff'[i] = buff[i]
      /\ buff'[Len(buff) + 1] = w
  BY AppendProperties, LenProperties
<1>2. 1..Len(buff') = 1..Len(buff) \cup {Len(buff) + 1}
  BY <1>1
<1>3. Queued' = {buff'[i] : i \in 1..Len(buff')}
  BY DEF Queued
<1> QED
  BY <1>1, <1>2, <1>3 DEF Queued

LEMMA QueuedTail ==
  ASSUME buff \in Seq(Elem), buff # <<>>, buff' = Tail(buff),
         \A i, j \in 1..Len(buff) : i # j => buff[i] # buff[j]
  PROVE  /\ buff' \in Seq(Elem)
         /\ Head(buff) \in Elem /\ Head(buff) \in Queued
         /\ Queued' = Queued \ {Head(buff)}
         /\ \A i, j \in 1..Len(buff') : i # j => buff'[i] # buff'[j]
<1>1. /\ Len(buff) \in Nat /\ Len(buff) >= 1
      /\ buff' \in Seq(Elem)
      /\ Head(buff) = buff[1] /\ Head(buff) \in Elem
      /\ Len(buff') = Len(buff) - 1
      /\ \A i \in 1..Len(buff') : buff'[i] = buff[i + 1]
  BY HeadTailProperties, EmptySeq, LenProperties
<1>2. Queued' = {buff[i + 1] : i \in 1..(Len(buff) - 1)}
  BY <1>1 DEF Queued
<1>3. Queued' \subseteq Queued /\ Head(buff) \notin Queued'
  BY <1>1, <1>2 DEF Queued
<1>4. ASSUME NEW e \in Queued, e # Head(buff)
      PROVE  e \in Queued'
  <2>1. PICK i \in 1..Len(buff) : e = buff[i]
    BY DEF Queued
  <2>2. i - 1 \in 1..(Len(buff) - 1) /\ e = buff[(i - 1) + 1]
    BY <1>1, <1>4, <2>1
  <2> QED
    BY <1>2, <2>2
<1>5. \A i, j \in 1..Len(buff') : i # j => buff'[i] # buff'[j]
  BY <1>1
<1> QED
  BY <1>1, <1>3, <1>4, <1>5 DEF Queued

----------------------------------------------------------------------------
(* What put() works on is free. *)

LEMMA WorkFree ==
  ASSUME MemoryInv, work # None
  PROVE  Free(work) /\ work \notin pool
<1>1. work \in Elem /\ work \notin pool /\ work \notin Queued
  BY DEF MemoryInv, MemoryTypes, Ownership, OneOwner
<1>2. work # last /\ work # held
  BY <1>1, ConstantsOK DEF MemoryInv, Ownership, LastInPlace, HeldInPlace
<1> QED
  BY <1>1, <1>2 DEF Free

LEMMA RecycledFree ==
  ASSUME MemoryInv, NEW w \in WorkElems
  PROVE  Free(w) /\ w # work
<1>1. CASE w \in Unreferenced
  <2>1. w \in pool /\ w \in Elem /\ elem[w].ref < 1
    BY <1>1 DEF Unreferenced, MemoryInv, MemoryTypes
  <2>2. w # work /\ w \notin Queued
    BY <2>1 DEF MemoryInv, Ownership, OneOwner
  <2>3. elem[w].ref = (IF w = last THEN 1 ELSE 0)
                      + (IF w \in Queued \/ w = held THEN 1 ELSE 0)
    BY <2>1 DEF MemoryInv, Ownership, RefExact, Ref
  <2>4. w # last /\ w # held
    BY <2>1, <2>3
  <2> QED
    BY <2>1, <2>2, <2>4 DEF Free
<1>2. CASE w \notin Unreferenced
  <2>1. w \in Elem /\ w \notin pool /\ w \notin Queued /\ w # work
    BY <1>2, ConstantsOK DEF WorkElems, Allocated
  <2>2. w # last /\ w # held
    BY <2>1, ConstantsOK DEF MemoryInv, Ownership, LastInPlace, HeldInPlace
  <2> QED
    BY <2>1, <2>2 DEF Free
<1> QED
  BY <1>1, <1>2

----------------------------------------------------------------------------
(* The three ways put() disposes of an element keep the memory in order.   *)

LEMMA CancelKeeps ==
  ASSUME MemoryInv, NEW w, Free(w), NEW fields, Cancel(w, fields),
         held' = held, work' = None \/ (work' = work /\ work # w)
  PROVE  MemoryInv'
<1>1. /\ elem' = [elem EXCEPT ![w] = EmptySection]
      /\ pool' = pool \cup {w}
      /\ last' = last /\ buff' = buff /\ Queued' = Queued
  BY DEF Cancel, Queued
<1>2. elem \in [Elem -> Sect] /\ w \in Elem
  BY DEF MemoryInv, MemoryTypes, Free
<1>3. MemoryTypes'
  <2>1. EmptySection \in Sect
    BY EmptySectionOK DEF WellFormed
  <2>2. stat' \in [total : Nat, unique : Nat, error : Nat]
    BY CountedOK DEF Cancel, MemoryInv, MemoryTypes
  <2> QED
    BY <1>1, <1>2, <2>1, <2>2 DEF MemoryInv, MemoryTypes
<1>4. HeadersThere'
  BY <1>1, <1>2 DEF MemoryInv, HeadersThere, EmptySection
<1>5. OneOwner'
  <2>1. /\ work \notin pool \cup Queued /\ pool \cap Queued = {}
        /\ \A i, j \in 1..Len(buff) : i # j => buff[i] # buff[j]
        /\ w \notin Queued /\ None \notin Elem /\ pool \subseteq Elem /\ None \notin Queued
    BY ConstantsOK DEF MemoryInv, MemoryTypes, Ownership, OneOwner, Free, Queued
  <2>2. work' \notin pool' \cup Queued' /\ pool' \cap Queued' = {}
    BY <1>1, <1>2, <2>1
  <2>3. \A i, j \in 1..Len(buff') : i # j => buff'[i] # buff'[j]
    BY <1>1, <2>1
  <2> QED
    BY <2>2, <2>3 DEF OneOwner
<1>6. LastInPlace' /\ HeldInPlace'
  BY <1>1 DEF MemoryInv, Ownership, LastInPlace, HeldInPlace
<1>7. RefExact'
  BY <1>1, <1>2 DEF MemoryInv, Ownership, RefExact, Ref, Free, EmptySection
<1> QED
  BY <1>3, <1>4, <1>5, <1>6, <1>7 DEF MemoryInv, Ownership

LEMMA CommitKeeps ==
  ASSUME MemoryInv, NEW w, Free(w), NEW sect, WellFormed(sect), Commit(w, sect),
         held' = held, work' = None \/ (work' = work /\ work # w)
  PROVE  MemoryInv'
<1>1. /\ elem' = [e \in Elem |->
                    IF e = w THEN [sect EXCEPT !.ref = 2]
                    ELSE IF e = last /\ elem[e].ref > 0
                    THEN [elem[e] EXCEPT !.ref = @ - 1]
                    ELSE elem[e]]
      /\ last' = w
      /\ buff' = Append(buff, w)
      /\ pool' = pool \ {w}
  BY DEF Commit
<1>2. elem \in [Elem -> Sect] /\ w \in Elem /\ buff \in Seq(Elem)
  BY DEF MemoryInv, MemoryTypes, Free
<1>3. buff' \in Seq(Elem) /\ Len(buff') = Len(buff) + 1 /\ Queued' = Queued \cup {w}
  BY <1>1, <1>2, QueuedAppend
<1>4. ASSUME NEW e \in Elem
      PROVE  /\ elem'[e] \in Sect
             /\ elem'[e].data => Len(elem'[e].raw) >= ShortHeader
             /\ elem'[e].ref = IF e = w THEN 2
                               ELSE IF e = last /\ elem[e].ref > 0
                               THEN elem[e].ref - 1 ELSE elem[e].ref
  <2>1. elem[e] \in Sect /\ (elem[e].data => Len(elem[e].raw) >= ShortHeader)
    BY <1>2 DEF MemoryInv, HeadersThere
  <2>2. sect \in Sect /\ (sect.data => Len(sect.raw) >= ShortHeader)
    BY DEF WellFormed
  <2>3. CASE e = w
    BY <1>1, <2>2, <2>3 DEF Sect
  <2>4. CASE e # w /\ e = last /\ elem[e].ref > 0
    BY <1>1, <2>1, <2>4 DEF Sect
  <2>5. CASE e # w /\ ~(e = last /\ elem[e].ref > 0)
    BY <1>1, <2>1, <2>5
  <2> QED
    BY <2>3, <2>4, <2>5
<1>5. MemoryTypes'
  <2>1. stat' \in [total : Nat, unique : Nat, error : Nat]
    BY CountedOK DEF Commit, MemoryInv, MemoryTypes
  <2>2. elem' \in [Elem -> Sect]
    <3>1. elem' = [e \in Elem |-> elem'[e]]
      BY ONLY <1>1
    <3>2. \A e \in Elem : elem'[e] \in Sect
      BY <1>4
    <3> QED
      BY ONLY <3>1, <3>2
  <2> QED
    BY <1>1, <1>2, <1>3, <2>1, <2>2 DEF MemoryInv, MemoryTypes
<1>6. HeadersThere'
  BY <1>4 DEF HeadersThere
<1>7. OneOwner'
  <2>1. /\ work \notin pool \cup Queued /\ pool \cap Queued = {}
        /\ \A i, j \in 1..Len(buff) : i # j => buff[i] # buff[j]
        /\ w \notin Queued
    BY DEF MemoryInv, Ownership, OneOwner, Free
  <2>2. work' \notin pool' \cup Queued' /\ pool' \cap Queued' = {}
    BY <1>1, <1>2, <1>3, <2>1, ConstantsOK DEF MemoryInv, MemoryTypes, Queued
  <2>3. ASSUME NEW i \in 1..Len(buff'), NEW j \in 1..Len(buff'), i # j
        PROVE  buff'[i] # buff'[j]
    <3>1. /\ Len(buff) \in Nat
          /\ \A k \in 1..Len(buff) : buff'[k] = buff[k] /\ buff'[k] # w
          /\ buff'[Len(buff) + 1] = w
      BY <1>1, <1>2, <2>1, AppendProperties, LenProperties DEF Queued
    <3> QED
      BY <1>3, <2>1, <2>3, <3>1
  <2> QED
    BY <2>2, <2>3 DEF OneOwner
<1>8. LastInPlace' /\ HeldInPlace'
  BY <1>1, <1>3 DEF MemoryInv, Ownership, LastInPlace, HeldInPlace, Free
<1>9. RefExact'
  <2>1. ASSUME NEW e \in Elem
        PROVE  elem'[e].ref = (IF e = w THEN 1 ELSE 0)
                              + (IF e \in Queued \cup {w} \/ e = held THEN 1 ELSE 0)
    <3>1. elem[e].ref = (IF e = last THEN 1 ELSE 0)
                        + (IF e \in Queued \/ e = held THEN 1 ELSE 0)
      BY DEF MemoryInv, Ownership, RefExact, Ref
    <3> QED
      BY <1>4, <3>1 DEF Free
  <2> QED
    BY <1>1, <1>3, <2>1 DEF RefExact, Ref
<1> QED
  BY <1>5, <1>6, <1>7, <1>8, <1>9 DEF MemoryInv, Ownership

LEMMA SettleKeeps ==
  ASSUME MemoryInv, NEW w, Free(w), NEW sect, WellFormed(sect), Settle(w, sect),
         held' = held, work' = None \/ (work' = work /\ work # w)
  PROVE  MemoryInv'
<1>1. (\E fields : Cancel(w, fields)) \/ Commit(w, sect)
  BY DEF Settle, CancelError, CancelSame
<1> QED
  BY <1>1, CancelKeeps, CommitKeeps

LEMMA DropWorkKeeps ==
  ASSUME MemoryInv, NEW r, DropWork(r), held' = held
  PROVE  MemoryInv' /\ rc' \in {r, "LENGTH_MISSMATCH"}
<1>1. work' = None /\ rc' \in {r, "LENGTH_MISSMATCH"}
  BY DEF DropWork
<1>2. CASE work = None
  <2>1. UNCHANGED <<work, last, pool, buff, elem, stat, held>>
    BY <1>1, <1>2 DEF DropWork
  <2> QED
    BY <1>1, <2>1 DEF MemoryInv, MemoryTypes, HeadersThere, Ownership, OneOwner,
                      LastInPlace, HeldInPlace, RefExact, Ref, Queued
<1>3. CASE work # None
  <2>1. \E fields : Cancel(work, fields)
    BY <1>3 DEF DropWork, CancelError, CancelEmpty
  <2> QED
    BY <1>1, <1>3, <2>1, WorkFree, CancelKeeps
<1> QED
  BY <1>1, <1>2, <1>3

----------------------------------------------------------------------------
(* The invariant holds at the start and every action keeps it.             *)

LEMMA InitOK == Init => IInv
<1> SUFFICES ASSUME Init PROVE IInv
  OBVIOUS
<1>1. Queued = {}
  BY DEF Init, Queued
<1>2. MemoryTypes /\ HeadersThere /\ RefExact
  BY <1>1, EmptySectionOK, ConstantsOK
  DEF Init, MemoryTypes, HeadersThere, RefExact, Ref, WellFormed, EmptySection, Sect
<1>3. OneOwner /\ LastInPlace /\ HeldInPlace
  BY <1>1 DEF Init, OneOwner, LastInPlace, HeldInPlace
<1>4. ControlTypes
  BY DEF Init, ControlTypes
<1> QED
  BY <1>2, <1>3, <1>4 DEF IInv, MemoryInv, Ownership

LEMMA MemoryUnchanged ==
  ASSUME MemoryInv, UNCHANGED <<work, last, pool, buff, elem, stat, held>>
  PROVE  MemoryInv'
BY DEF MemoryInv, MemoryTypes, HeadersThere, Ownership, OneOwner,
       LastInPlace, HeldInPlace, RefExact, Ref, Queued

(* put() splits a payload into two byte strings. *)
LEMMA PayloadOK ==
  ASSUME NEW payload \in Payloads, payload # <<>>
  PROVE  /\ payload \in Seq(Byte)
         /\ payload[1] \in Nat
         /\ SubSeq(payload, 2, payload[1] + 1) \in Seq(Byte)
                \/ payload[1] + 1 >= Len(payload)
         /\ SubSeq(payload, payload[1] + 2, Len(payload)) \in Seq(Byte)
<1>1. payload \in Seq(Byte) /\ Len(payload) \in Nat /\ Len(payload) >= 1
  <2>1. payload \in Seq(Byte)
    BY ParserAssumption
  <2>2. Len(payload) \in Nat \ {0}
    BY <2>1, EmptySeq
  <2> QED
    BY <2>1, <2>2
<1>2. \A i \in 1..Len(payload) : payload[i] \in Byte
  BY <1>1
<1>3. payload[1] \in Nat
  <2>1. 1 \in 1..Len(payload)
    BY <1>1
  <2>2. payload[1] \in Byte
    BY <1>2, <2>1
  <2> QED
    BY <2>2, ConstantsOK
<1>4. SubSeq(payload, payload[1] + 2, Len(payload)) \in Seq(Byte)
  <2>1. \A i \in (payload[1] + 2)..Len(payload) : payload[i] \in Byte
    BY <1>1, <1>2, <1>3
  <2> QED
    BY <1>1, <1>3, <2>1, SubSeqProperties
<1>5. ASSUME payload[1] + 1 < Len(payload)
      PROVE  SubSeq(payload, 2, payload[1] + 1) \in Seq(Byte)
  <2>1. \A i \in 2..(payload[1] + 1) : payload[i] \in Byte
    BY <1>1, <1>2, <1>3, <1>5
  <2> QED
    BY <1>3, <2>1, SubSeqProperties
<1> QED
  BY <1>1, <1>3, <1>4, <1>5

LEMMA PutOK ==
  ASSUME IInv, NEW p \in Pids, NEW payload \in Payloads,
         PutRefused(p, payload) \/ PutContinuation(p, payload)
           \/ PutStart(p, payload) \/ PutBroken(p, payload)
  PROVE  IInv'
<1>1. CASE PutRefused(p, payload)
  <2>1. MemoryInv'
    BY <1>1, MemoryUnchanged DEF PutRefused, IInv
  <2>2. ControlTypes'
    BY <1>1 DEF PutRefused, IInv, ControlTypes
  <2> QED
    BY <2>1, <2>2 DEF IInv
<1>2. CASE PutContinuation(p, payload)
  <2>1. MemoryInv'
    BY <1>2, MemoryUnchanged DEF PutContinuation, IInv
  <2>2. ControlTypes'
    BY <1>2, PayloadOK DEF PutContinuation, Accepts, IInv, ControlTypes
  <2> QED
    BY <2>1, <2>2 DEF IInv
<1>3. CASE PutStart(p, payload)
  <2>1. MemoryInv'
    BY <1>3, MemoryUnchanged DEF PutStart, IInv
  <2>2. bytes' \in Seq(Byte) /\ rest' \in Seq(Byte)
    <3>1. payload # <<>> /\ payload[1] + 1 < Len(payload)
          /\ bytes' = SubSeq(payload, 2, payload[1] + 1)
          /\ rest' = SubSeq(payload, payload[1] + 2, Len(payload))
      BY <1>3 DEF PutStart, Accepts
    <3>2. Len(payload) \in Nat /\ payload[1] \in Nat
      BY <3>1, PayloadOK, LenProperties
    <3>3. ~(payload[1] + 1 >= Len(payload))
      BY <3>1, <3>2
    <3> QED
      BY <3>1, <3>3, PayloadOK
  <2>3. pid' \in Pids \cup {None} /\ pc' \in {"exclude", "leftover"} /\ rc' = "OK"
    BY <1>3 DEF PutStart
  <2> QED
    BY <2>1, <2>2, <2>3 DEF IInv, ControlTypes
<1>4. CASE PutBroken(p, payload)
  <2>1. DropWork("OK") /\ held' = held /\ pid' = p /\ UNCHANGED <<pc, bytes, rest>>
    BY <1>4 DEF PutBroken
  <2>2. MemoryInv' /\ rc' \in {"OK", "LENGTH_MISSMATCH"}
    BY <2>1, DropWorkKeeps DEF IInv
  <2> QED
    BY <2>1, <2>2 DEF IInv, ControlTypes
<1> QED
  BY <1>1, <1>2, <1>3, <1>4

LEMMA ExcludeOK ==
  ASSUME IInv, Exclude
  PROVE  IInv'
<1>1. /\ pid' = pid /\ held' = held /\ rest' = rest /\ bytes' = <<>>
      /\ pc' \in {"idle", "leftover"}
      /\ rc' \in {rc, "CRC_MISSMATCH"}
  BY DEF Exclude
<1>2. ControlTypes'
  BY <1>1 DEF IInv, ControlTypes
<1> DEFINE sect == Extend(elem[work], bytes)
<1>3. CASE work = None \/ elem[work].raw = <<>>
  BY <1>2, <1>3, MemoryUnchanged DEF Exclude, IInv
<1>4. CASE work # None /\ elem[work].raw # <<>>
  <2>1. work \in Elem /\ Free(work) /\ work \notin pool
    BY <1>4, WorkFree DEF IInv, Free
  <2>2. WellFormed(sect) /\ sect.ref = elem[work].ref
    <3>1. WellFormed(elem[work])
      BY <2>1 DEF IInv, MemoryInv, MemoryTypes, HeadersThere, WellFormed
    <3> QED
      BY <3>1, ExtendOK DEF IInv, ControlTypes
  <2> HIDE DEF sect
  <2>3. CASE ~Complete(sect)
    <3>1. elem' = [elem EXCEPT ![work] = sect] /\ UNCHANGED <<work, last, pool, buff, stat>>
      BY <1>4, <2>3 DEF Exclude, sect
    <3>2. MemoryTypes' /\ HeadersThere'
      BY <1>1, <2>1, <2>2, <3>1
      DEF IInv, MemoryInv, MemoryTypes, HeadersThere, WellFormed
    <3>3. OneOwner' /\ LastInPlace' /\ HeldInPlace'
      BY <1>1, <3>1
      DEF IInv, MemoryInv, Ownership, OneOwner, LastInPlace, HeldInPlace, Queued
    <3>4. RefExact'
      BY <1>1, <2>1, <2>2, <3>1
      DEF IInv, MemoryInv, MemoryTypes, Ownership, RefExact, Ref, Queued
    <3> QED
      BY <1>2, <3>2, <3>3, <3>4 DEF IInv, MemoryInv, Ownership
  <2>4. CASE Complete(sect)
    <3>1. work' = None /\ Settle(work, sect)
      BY <1>4, <2>4 DEF Exclude, sect
    <3> QED
      BY <1>1, <1>2, <2>1, <2>2, <3>1, SettleKeeps DEF IInv
  <2> QED
    BY <2>3, <2>4
<1> QED
  BY <1>3, <1>4

LEMMA DropLeftoverOK ==
  ASSUME IInv, DropLeftover
  PROVE  IInv'
<1>1. DropWork(rc) /\ pc' = "loop" /\ UNCHANGED <<pid, held, bytes, rest>>
  BY DEF DropLeftover
<1>2. MemoryInv' /\ rc' \in {rc, "LENGTH_MISSMATCH"}
  BY <1>1, DropWorkKeeps DEF IInv
<1> QED
  BY <1>1, <1>2 DEF IInv, ControlTypes

LEMMA LoopIncompleteOK ==
  ASSUME IInv, LoopIncomplete
  PROVE  IInv'
<1> DEFINE sect == Extend(EmptySection, rest)
<1>1. PICK w \in WorkElems :
        /\ work' = w
        /\ elem' = [elem EXCEPT ![w] = sect]
        /\ pool' = pool \ {w}
  BY DEF LoopIncomplete
<1>2. /\ pc' = "idle" /\ rest' = <<>> /\ rc' = "OK"
      /\ UNCHANGED <<pid, last, buff, stat, held, bytes>>
      /\ Queued' = Queued
  BY DEF LoopIncomplete, Queued
<1>3. Free(w) /\ w # work /\ w \in Elem
  BY RecycledFree DEF IInv, Free
<1>4. WellFormed(sect) /\ sect.ref = 0
  BY EmptySectionOK, ExtendOK DEF IInv, ControlTypes, EmptySection
<1> HIDE DEF sect
<1>5. MemoryTypes' /\ HeadersThere'
  BY <1>1, <1>2, <1>3, <1>4
  DEF IInv, MemoryInv, MemoryTypes, HeadersThere, WellFormed
<1>6. OneOwner'
  <2>1. work' \notin pool' \cup Queued'
    BY <1>1, <1>2, <1>3 DEF Free
  <2>2. pool' \cap Queued' = {}
        /\ \A i, j \in 1..Len(buff') : i # j => buff'[i] # buff'[j]
    BY <1>1, <1>2 DEF IInv, MemoryInv, Ownership, OneOwner
  <2> QED
    BY <2>1, <2>2 DEF OneOwner
<1>7. LastInPlace' /\ HeldInPlace'
  BY <1>1, <1>2, <1>3
  DEF IInv, MemoryInv, Ownership, LastInPlace, HeldInPlace, Free
<1>8. RefExact'
  BY <1>1, <1>2, <1>3, <1>4
  DEF IInv, MemoryInv, MemoryTypes, Ownership, RefExact, Ref, Free
<1>9. ControlTypes'
  BY <1>2, EmptySeq DEF IInv, ControlTypes
<1> QED
  BY <1>5, <1>6, <1>7, <1>8, <1>9 DEF IInv, MemoryInv, Ownership

LEMMA LoopCompleteOK ==
  ASSUME IInv, LoopComplete
  PROVE  IInv'
<1> DEFINE sect == Extend(EmptySection, rest)
           next == SubSeq(rest, Len(sect.raw) + 1, Len(rest))
<1>1. PICK w \in WorkElems : Settle(w, sect)
  BY DEF LoopComplete
<1>2. /\ UNCHANGED <<pid, work, held, bytes>>
      /\ rc' \in {rc, "CRC_MISSMATCH"}
      /\ rest' \in {next, <<>>}
      /\ pc' \in {"loop", "idle"}
  BY DEF LoopComplete
<1>3. WellFormed(sect)
  BY EmptySectionOK, ExtendOK DEF IInv, ControlTypes
<1>4. Free(w) /\ w # work
  BY RecycledFree DEF IInv
<1>5. rest' \in Seq(Byte)
  <2>1. rest \in Seq(Byte) /\ Len(rest) \in Nat /\ Len(sect.raw) \in Nat
    BY <1>3 DEF WellFormed, Sect, IInv, ControlTypes
  <2>2. \A i \in (Len(sect.raw) + 1)..Len(rest) : rest[i] \in Byte
    BY <2>1
  <2>3. next \in Seq(Byte)
    BY <2>1, <2>2, SubSeqProperties
  <2> HIDE DEF next
  <2> QED
    BY <1>2, <2>3, EmptySeq
<1> HIDE DEF sect, next
<1>6. MemoryInv'
  <2>1. work' = None \/ (work' = work /\ work # w)
    BY <1>2, <1>4
  <2> QED
    BY <1>1, <1>2, <1>3, <1>4, <2>1, SettleKeeps DEF IInv
<1>7. ControlTypes'
  BY <1>2, <1>5 DEF IInv, ControlTypes
<1> QED
  BY <1>6, <1>7 DEF IInv

LEMMA GetOK ==
  ASSUME IInv, Get
  PROVE  IInv'
<1>1. ControlTypes'
  BY DEF Get, IInv, ControlTypes
<1>2. CASE buff = <<>>
  BY <1>1, <1>2, MemoryUnchanged DEF Get, IInv
<1>3. CASE buff # <<>>
  <2>1. /\ held = None
        /\ held' = Head(buff) /\ buff' = Tail(buff) /\ pool' = pool \cup {Head(buff)}
        /\ UNCHANGED <<work, last, elem, stat>>
    BY <1>3 DEF Get
  <2>2. /\ buff' \in Seq(Elem)
        /\ Head(buff) \in Elem /\ Head(buff) \in Queued
        /\ Queued' = Queued \ {Head(buff)}
        /\ \A i, j \in 1..Len(buff') : i # j => buff'[i] # buff'[j]
    BY <1>3, <2>1, QueuedTail DEF IInv, MemoryInv, MemoryTypes, Ownership, OneOwner
  <2>3. MemoryTypes' /\ HeadersThere'
    BY <2>1, <2>2 DEF IInv, MemoryInv, MemoryTypes, HeadersThere
  <2>4. OneOwner'
    BY <2>1, <2>2 DEF IInv, MemoryInv, Ownership, OneOwner
  <2>5. LastInPlace' /\ HeldInPlace'
    BY <2>1, <2>2 DEF IInv, MemoryInv, Ownership, LastInPlace, HeldInPlace
  <2>6. RefExact'
    BY <2>1, <2>2, ConstantsOK DEF IInv, MemoryInv, Ownership, RefExact, Ref
  <2> QED
    BY <1>1, <2>3, <2>4, <2>5, <2>6 DEF IInv, MemoryInv, Ownership
<1> QED
  BY <1>2, <1>3

LEMMA RetOK ==
  ASSUME IInv, Ret
  PROVE  IInv'
<1>1. ControlTypes'
  BY DEF Ret, IInv, ControlTypes
<1>2. held # None /\ held \in pool /\ held \in Elem /\ held \notin Queued
  BY DEF Ret, IInv, MemoryInv, MemoryTypes, Ownership, HeldInPlace, OneOwner
<1>3. elem[held].ref \in Nat /\ elem[held].ref > 0 /\ elem[held] \in Sect
  BY <1>2 DEF IInv, MemoryInv, MemoryTypes, Ownership, RefExact, Ref, Sect
<1>4. /\ held' = None
      /\ elem' = [elem EXCEPT ![held].ref = @ - 1]
      /\ UNCHANGED <<work, last, pool, buff, stat>> /\ Queued' = Queued
  BY <1>2, <1>3 DEF Ret, Queued
<1>5. elem \in [Elem -> Sect]
  BY DEF IInv, MemoryInv, MemoryTypes
<1>6. ASSUME NEW e \in Elem
      PROVE  /\ elem'[e] \in Sect
             /\ elem'[e].raw = elem[e].raw /\ elem'[e].data = elem[e].data
             /\ elem'[e].ref = IF e = held THEN elem[e].ref - 1 ELSE elem[e].ref
  BY <1>2, <1>3, <1>4, <1>5 DEF Sect
<1>7. MemoryTypes'
  <2>1. elem' = [e \in Elem |-> elem'[e]]
    BY <1>2, <1>4, <1>5
  <2>2. elem' \in [Elem -> Sect]
    BY <1>6, <2>1
  <2> QED
    BY <1>4, <2>2 DEF IInv, MemoryInv, MemoryTypes
<1>8. HeadersThere'
  BY <1>6 DEF IInv, MemoryInv, HeadersThere
<1>9. OneOwner' /\ LastInPlace' /\ HeldInPlace'
  BY <1>4 DEF IInv, MemoryInv, Ownership, OneOwner, LastInPlace, HeldInPlace
<1>10. RefExact'
  BY <1>2, <1>4, <1>6, ConstantsOK DEF IInv, MemoryInv, Ownership, RefExact, Ref
<1> QED
  BY <1>1, <1>7, <1>8, <1>9, <1>10 DEF IInv, MemoryInv, Ownership

LEMMA ResetOK ==
  ASSUME IInv, Reset
  PROVE  IInv'
<1>1. Queued' = {} /\ held' = None
  BY DEF Reset, Queued
<1>2. MemoryTypes' /\ HeadersThere' /\ RefExact'
  BY <1>1, EmptySectionOK, ConstantsOK
  DEF Reset, MemoryTypes, HeadersThere, RefExact, Ref, WellFormed, EmptySection, Sect
<1>3. OneOwner' /\ LastInPlace' /\ HeldInPlace'
  BY <1>1 DEF Reset, OneOwner, LastInPlace, HeldInPlace
<1>4. ControlTypes'
  BY DEF Reset, IInv, ControlTypes
<1> QED
  BY <1>2, <1>3, <1>4 DEF IInv, MemoryInv, Ownership

LEMMA NextOK == IInv /\ [Next]_vars => IInv'
<1> SUFFICES ASSUME IInv, [Next]_vars PROVE IInv'
  OBVIOUS
<1>1. CASE \E p \in Pids, payload \in Payloads :
             \/ PutRefused(p, payload)
             \/ PutContinuation(p, payload)
             \/ PutStart(p, payload)
             \/ PutBroken(p, payload)
  BY <1>1, PutOK
<1>2. CASE Exclude
  BY <1>2, ExcludeOK
<1>3. CASE DropLeftover
  BY <1>3, DropLeftoverOK
<1>4. CASE LoopIncomplete
  BY <1>4, LoopIncompleteOK
<1>5. CASE LoopComplete
  BY <1>5, LoopCompleteOK
<1>6. CASE LoopNoMemory
  <2>1. MemoryInv'
    BY <1>6, MemoryUnchanged DEF LoopNoMemory, IInv
  <2>2. ControlTypes'
    BY <1>6, EmptySeq DEF LoopNoMemory, IInv, ControlTypes
  <2> QED
    BY <2>1, <2>2 DEF IInv
<1>7. CASE Get
  BY <1>7, GetOK
<1>8. CASE Ret
  BY <1>8, RetOK
<1>9. CASE Reset
  BY <1>9, ResetOK
<1>10. CASE UNCHANGED vars
  <2>1. MemoryInv'
    BY <1>10, MemoryUnchanged DEF vars, IInv
  <2>2. ControlTypes'
    BY <1>10 DEF vars, IInv, ControlTypes
  <2> QED
    BY <2>1, <2>2 DEF IInv
<1> QED
  BY <1>1, <1>2, <1>3, <1>4, <1>5, <1>6, <1>7, <1>8, <1>9, <1>10 DEF Next, PutStep

LEMMA Inductive == Spec => []IInv
BY InitOK, NextOK, PTL DEF Spec

----------------------------------------------------------------------------
(* Theorems. *)

(* The parser keeps its state within its types, whatever payloads arrive.  *)
THEOREM TypeCorrect == Spec => []TypeOK
<1>1. IInv => TypeOK
  BY DEF IInv, MemoryInv, MemoryTypes, ControlTypes, TypeOK, Sect
<1> QED
  BY <1>1, Inductive, PTL

(* Every element has one owner, and ref counts its users exactly: work,    *)
(* pool and buff never share an element (the list functions), and ref is   *)
(* what commit_elem_updated and ret() mean it to be.                       *)
THEOREM ExactOwnership == Spec => []Ownership
<1>1. IInv => Ownership
  BY DEF IInv, MemoryInv
<1> QED
  BY <1>1, Inductive, PTL

(* query_work_elem never offers the element that is the last section or    *)
(* the one in the client's hands.                                          *)
THEOREM InUseNeverRecycled == Spec => []NeverRecycled
<1>1. IInv => NeverRecycled
  BY RecycledFree DEF IInv, NeverRecycled, Free
<1> QED
  BY <1>1, Inductive, PTL

----------------------------------------------------------------------------
(* What the client reads.                                                  *)

\* Every element queued or handed out is untouched, but for its count.
LEMMA SettleSpares ==
  ASSUME MemoryInv, NEW w, Free(w), NEW sect, Settle(w, sect), NEW e \in Elem, e # w
  PROVE  elem'[e].raw = elem[e].raw
<1>1. elem[e] \in Sect
  BY DEF MemoryInv, MemoryTypes
<1>2. CASE \E fields : Cancel(w, fields)
  BY <1>2 DEF Cancel, MemoryInv, MemoryTypes
<1>3. CASE Commit(w, sect)
  <2>1. elem'[e] = IF e = last /\ elem[e].ref > 0
                     THEN [elem[e] EXCEPT !.ref = @ - 1] ELSE elem[e]
    BY <1>3 DEF Commit
  <2> QED
    BY <1>1, <2>1 DEF Sect
<1> QED
  BY <1>2, <1>3 DEF Settle, CancelError, CancelSame

\* The sections that wait for the client or are his.  A step leaves all their
\* bytes as they are, and those of the last section.
Shown == Queued \cup ({held} \ {None})

LEMMA ShownOK == MemoryInv => Shown \subseteq Elem
BY DEF MemoryInv, MemoryTypes, Shown, Queued

LEMMA ShownSpared ==
  ASSUME IInv, Next, ~Reset, NEW e \in Shown \cup ({last} \ {None})
  PROVE  elem'[e].raw = elem[e].raw
<1>1. e \in Elem /\ MemoryInv /\ elem \in [Elem -> Sect]
  BY ShownOK DEF IInv, MemoryInv, MemoryTypes
<1>2. \A w : Free(w) => w # e
  BY DEF Free, Shown
<1>3. ASSUME NEW r, DropWork(r)
      PROVE  elem'[e].raw = elem[e].raw
  <2>1. CASE work = None
    BY <1>3, <2>1 DEF DropWork
  <2>2. CASE work # None
    <3>1. \E fields : Cancel(work, fields)
      BY <1>3, <2>2 DEF DropWork, CancelError, CancelEmpty
    <3> QED
      BY <1>1, <1>2, <2>2, <3>1, WorkFree DEF Cancel
  <2> QED
    BY <2>1, <2>2
<1>4. CASE Exclude
  <2>1. CASE work = None \/ elem[work].raw = <<>>
    BY <1>4, <2>1 DEF Exclude
  <2>2. CASE work # None /\ elem[work].raw # <<>>
    <3>1. Free(work) /\ work # e
      BY <1>1, <1>2, <2>2, WorkFree
    <3>2. \/ elem' = [elem EXCEPT ![work] = Extend(elem[work], bytes)]
          \/ Settle(work, Extend(elem[work], bytes))
      BY <1>4, <2>2 DEF Exclude
    <3> QED
      BY <1>1, <3>1, <3>2, SettleSpares
  <2> QED
    BY <2>1, <2>2
<1>5. CASE LoopIncomplete
  <2>1. PICK w \in WorkElems : elem' = [elem EXCEPT ![w] = Extend(EmptySection, rest)]
    BY <1>5 DEF LoopIncomplete
  <2> QED
    BY <1>1, <1>2, <2>1, RecycledFree
<1>6. CASE LoopComplete
  <2>1. PICK w \in WorkElems : Settle(w, Extend(EmptySection, rest))
    BY <1>6 DEF LoopComplete
  <2> QED
    BY <1>1, <1>2, <2>1, RecycledFree, SettleSpares
<1>7. CASE Ret
  <2>1. elem' \in {elem, [elem EXCEPT ![held].ref = @ - 1]}
    BY <1>7 DEF Ret
  <2>2. ASSUME elem' = [elem EXCEPT ![held].ref = @ - 1]
        PROVE  elem'[e].raw = elem[e].raw
    BY <1>1, <2>2 DEF Sect
  <2> QED
    BY <2>1, <2>2
<1>8. CASE DropLeftover \/ \E p \in Pids, payload \in Payloads : PutBroken(p, payload)
  BY <1>3, <1>8 DEF DropLeftover, PutBroken
<1>9. CASE UNCHANGED elem
  BY <1>9
<1> QED
  BY <1>4, <1>5, <1>6, <1>7, <1>8, <1>9
  DEF Next, PutStep, PutRefused, PutContinuation, PutStart, LoopNoMemory, Get

(* The bytes the client reads do not change until ret(): query_work_elem   *)
(* and the list functions never take the element from under him.           *)
THEOREM ReadingStable == Spec => HeldStable
<1>1. ASSUME IInv, [Next]_vars
      PROVE  held # None /\ held' = held => elem'[held].raw = elem[held].raw
  <2>1. CASE Next /\ ~Reset
    BY <1>1, <2>1, ShownSpared DEF Shown
  <2>2. CASE Reset
    BY <2>2 DEF Reset
  <2>3. CASE UNCHANGED vars
    BY <2>3 DEF vars
  <2> QED
    BY <1>1, <2>1, <2>2, <2>3
<1> QED
  BY <1>1, Inductive, PTL DEF Spec, HeldStable

(* A section that is new to the client is complete and intact.             *)
Intact(raw) ==
  /\ Len(raw) >= ShortHeader /\ Len(raw) = SectionSize(raw)
  /\ LongSyntax(raw) => raw \in Genuine

LEMMA SettleShows ==
  ASSUME MemoryInv, NEW w, Free(w), NEW sect, WellFormed(sect), Settle(w, sect),
         Complete(sect), Len(sect.raw) = SectionSize(sect.raw), held' = held,
         NEW e \in Shown', e \notin Shown
  PROVE  Intact(elem'[e].raw)
<1>1. CASE \E fields : Cancel(w, fields)
  BY <1>1 DEF Cancel, Shown, Queued
<1>2. CASE Commit(w, sect) /\ ~CrcWrong(sect)
  <2>1. w \in Elem /\ Queued' = Queued \cup {w}
    BY <1>2, QueuedAppend DEF Commit, MemoryInv, MemoryTypes, Free
  <2>2. e = w
    BY <2>1 DEF Shown
  <2>3. elem'[w].raw = sect.raw
    BY <1>2, <2>1 DEF Commit, WellFormed, Sect
  <2> QED
    BY <1>2, <2>2, <2>3 DEF CrcWrong, Intact, Complete, WellFormed
<1> QED
  BY <1>1, <1>2 DEF Settle, CancelError, CancelSame

LEMMA ShownIntact ==
  ASSUME IInv, Next, NEW e \in Shown', e \notin Shown
  PROVE  Intact(elem'[e].raw)
<1>1. MemoryInv
  BY DEF IInv
<1>2. CASE Exclude
  <2>1. CASE UNCHANGED buff
    BY <1>2, <2>1 DEF Exclude, Shown, Queued
  <2>2. CASE buff' # buff
    <3>1. /\ work # None /\ Complete(Extend(elem[work], bytes))
          /\ Settle(work, Extend(elem[work], bytes)) /\ held' = held
      BY <1>2, <2>2 DEF Exclude
    <3>2. Free(work) /\ WellFormed(elem[work])
      BY <1>1, <3>1, WorkFree DEF Free, MemoryInv, MemoryTypes, HeadersThere, WellFormed
    <3>3. /\ WellFormed(Extend(elem[work], bytes))
          /\ Len(Extend(elem[work], bytes).raw) = SectionSize(Extend(elem[work], bytes).raw)
      BY <3>1, <3>2, ExtendOK DEF IInv, ControlTypes
    <3> QED
      BY <1>1, <3>1, <3>2, <3>3, SettleShows
  <2> QED
    BY <2>1, <2>2
<1>3. CASE LoopComplete
  <2>1. PICK w \in WorkElems : /\ Complete(Extend(EmptySection, rest))
                               /\ Settle(w, Extend(EmptySection, rest)) /\ held' = held
    BY <1>3 DEF LoopComplete
  <2>2. /\ WellFormed(Extend(EmptySection, rest))
        /\ Len(Extend(EmptySection, rest).raw) = SectionSize(Extend(EmptySection, rest).raw)
    BY <2>1, EmptySectionOK, ExtendOK DEF IInv, ControlTypes
  <2> QED
    BY <1>1, <2>1, <2>2, RecycledFree, SettleShows
<1>4. CASE Get
  <2>1. CASE buff = <<>>
    BY <1>4, <2>1 DEF Get, Shown, Queued
  <2>2. CASE buff # <<>>
    BY <1>1, <1>4, <2>2, QueuedTail
    DEF Get, Shown, MemoryInv, MemoryTypes, Ownership, OneOwner
  <2> QED
    BY <2>1, <2>2
<1>5. CASE Reset
  BY <1>5 DEF Reset, Shown, Queued
<1>6. CASE Ret
  BY <1>6 DEF Ret, Shown, Queued
<1>7. CASE UNCHANGED <<buff, held>>
  BY <1>7 DEF Shown, Queued
<1> QED
  BY <1>2, <1>3, <1>4, <1>5, <1>6, <1>7
  DEF Next, PutStep, PutRefused, PutContinuation, PutStart, PutBroken, DropLeftover,
      DropWork, CancelError, CancelEmpty, Cancel, LoopIncomplete, LoopNoMemory

ClientInv == IInv /\ \A e \in Shown : Intact(elem[e].raw)

LEMMA ClientInductive == Spec => []ClientInv
<1>1. Init => \A e \in Shown : Intact(elem[e].raw)
  <2>1. Init => Shown = {}
    BY DEF Init, Queued, Shown
  <2> QED
    BY <2>1
<1>2. ASSUME ClientInv, [Next]_vars, NEW e \in Shown'
      PROVE  Intact(elem'[e].raw)
  <2>1. CASE Next /\ ~Reset
    BY <1>2, <2>1, ShownSpared, ShownIntact DEF ClientInv
  <2>2. CASE Reset
    BY <2>2 DEF Reset, Shown, Queued
  <2>3. CASE UNCHANGED vars
    BY <1>2, <2>3 DEF vars, Shown, Queued, ClientInv
  <2> QED
    BY <1>2, <2>1, <2>2, <2>3
<1>3. ClientInv /\ [Next]_vars => ClientInv'
  BY <1>2, NextOK DEF ClientInv
<1> QED
  BY <1>1, <1>3, InitOK, PTL DEF Spec, ClientInv

(* What waits for the client, and what he reads, is complete, at the length*)
(* it states, and intact if it has a CRC.                                  *)
THEOREM ClientSeesIntact == Spec => []QueuedIntact
<1>1. ClientInv => QueuedIntact
  BY DEF ClientInv, QueuedIntact, Shown, Intact
<1> QED
  BY <1>1, ClientInductive, PTL

----------------------------------------------------------------------------
(* SectionParser implements SectionFeed.                                   *)

Raw(e) == IF e = None THEN <<>> ELSE elem[e].raw
Bytes(b, el) == [i \in 1..Len(b) |-> el[b[i]].raw]
Waiting == Bytes(buff, elem)

LEMMA BytesOK ==
  ASSUME NEW b \in Seq(Elem), NEW el \in [Elem -> Sect]
  PROVE  /\ Bytes(b, el) \in Seq(Seq(Byte)) /\ Len(Bytes(b, el)) = Len(b) /\ Len(b) \in Nat
         /\ \A i \in 1..Len(b) : b[i] \in Elem /\ Bytes(b, el)[i] = el[b[i]].raw
<1>1. Len(b) \in Nat /\ \A i \in 1..Len(b) : b[i] \in Elem /\ el[b[i]].raw \in Seq(Byte)
  BY DEF Sect
<1>2. Bytes(b, el) \in [1..Len(b) -> Seq(Byte)]
  BY <1>1 DEF Bytes
<1> QED
  BY <1>1, <1>2 DEF Bytes

LEMMA WaitingOK ==
  ASSUME MemoryInv
  PROVE  /\ Waiting \in Seq(Seq(Byte)) /\ Len(Waiting) = Len(buff) /\ Len(buff) \in Nat
         /\ \A i \in 1..Len(buff) : /\ buff[i] \in Queued /\ buff[i] \in Elem
                                    /\ Waiting[i] = elem[buff[i]].raw
BY BytesOK DEF MemoryInv, MemoryTypes, Waiting, Queued

\* commit_elem_updated delivers.
LEMMA CommitDelivers ==
  ASSUME MemoryInv, MemoryInv', NEW w, Free(w), NEW sect, WellFormed(sect), Complete(sect),
         Commit(w, sect), ~SameAsLast(sect), held' = held
  PROVE  Feed!Deliver
<1>1. /\ w \in Elem /\ elem'[w].raw = sect.raw
      /\ \A e \in Elem : e # w => elem'[e].raw = elem[e].raw
      /\ last' = w /\ buff' = Append(buff, w) /\ w \notin Queued /\ w # held /\ w # None
  <2>1. w \in Elem /\ elem \in [Elem -> Sect] /\ w # None /\ w \notin Queued /\ w # held
    BY ConstantsOK DEF Free, MemoryInv, MemoryTypes
  <2>2. ASSUME NEW e \in Elem, e # w
        PROVE  elem'[e].raw = elem[e].raw
    <3>1. elem'[e] = IF e = last /\ elem[e].ref > 0
                       THEN [elem[e] EXCEPT !.ref = @ - 1] ELSE elem[e]
      BY <2>2 DEF Commit
    <3> QED
      BY <2>1, <3>1 DEF Sect
  <2> QED
    BY <2>1, <2>2 DEF Commit, WellFormed, Sect
<1>2. sect.raw # <<>> /\ sect.raw # Raw(last) /\ sect.raw \in Seq(Byte)
  BY ConstantsOK DEF WellFormed, Complete, Sect, SameAsLast, Raw
<1>3. Waiting' = Append(Waiting, sect.raw)
  <2>0. /\ Waiting' \in Seq(Seq(Byte)) /\ Len(Waiting') = Len(buff')
       /\ \A i \in 1..Len(buff') : Waiting'[i] = elem'[buff'[i]].raw
    BY BytesOK DEF MemoryInv, MemoryTypes, Waiting
  <2>1. /\ Append(Waiting, sect.raw) \in Seq(Seq(Byte))
        /\ Len(Append(Waiting, sect.raw)) = Len(buff) + 1
        /\ \A i \in 1..Len(buff) : Append(Waiting, sect.raw)[i] = elem[buff[i]].raw
        /\ Append(Waiting, sect.raw)[Len(buff) + 1] = sect.raw
    BY <1>2, WaitingOK, AppendProperties
  <2>2. /\ Len(buff') = Len(buff) + 1 /\ buff'[Len(buff) + 1] = w
        /\ \A i \in 1..Len(buff) : buff'[i] = buff[i] /\ buff[i] \in Elem /\ buff[i] # w
    BY <1>1, WaitingOK, AppendProperties DEF MemoryInv, MemoryTypes
  <2>3. \A i \in 1..(Len(buff) + 1) : Waiting'[i] = Append(Waiting, sect.raw)[i]
    <3>1. ASSUME NEW i \in 1..Len(buff)
          PROVE  Waiting'[i] = Append(Waiting, sect.raw)[i]
      <4>1. i \in 1..Len(buff') /\ Waiting'[i] = elem'[buff'[i]].raw
        BY <2>0, <2>2, WaitingOK
      <4>2. elem'[buff[i]].raw = elem[buff[i]].raw
        BY <1>1, <2>2
      <4> QED
        BY <2>1, <2>2, <4>1, <4>2
    <3>2. Waiting'[Len(buff) + 1] = sect.raw
      <4>1. Len(buff) + 1 \in 1..Len(buff')
        BY <2>2, WaitingOK
      <4>2. Waiting'[Len(buff) + 1] = elem'[w].raw
        BY <2>0, <2>2, <4>1
      <4> QED
        BY <1>1, <4>2
    <3> QED
      BY <2>1, <3>1, <3>2, WaitingOK
  <2> QED
    BY <2>0, <2>1, <2>2, <2>3, SeqEqual
<1>4. Raw(last)' = sect.raw /\ Raw(held)' = Raw(held)
  BY <1>1 DEF Raw, MemoryInv, MemoryTypes
<1> QED
  BY <1>2, <1>3, <1>4 DEF Feed!Deliver, Waiting, Bytes, Raw

LEMMA GetTakes ==
  ASSUME MemoryInv, MemoryInv', Get, buff # <<>>
  PROVE  Feed!Take
<1>1. /\ held = None /\ held' = Head(buff) /\ buff' = Tail(buff) /\ elem' = elem /\ last' = last
      /\ buff \in Seq(Elem) /\ elem \in [Elem -> Sect] /\ buff' \in Seq(Elem)
  BY DEF Get, MemoryInv, MemoryTypes
<1>1a. /\ Len(buff) \in Nat /\ Len(buff) >= 1 /\ Head(buff) = buff[1]
      /\ Len(buff') = Len(buff) - 1 /\ \A i \in 1..Len(buff') : buff'[i] = buff[i + 1]
  BY <1>1, HeadTailProperties, EmptySeq, LenProperties
<1>2. Waiting # <<>> /\ Head(Waiting) = elem[Head(buff)].raw
  BY <1>1a, <1>1, WaitingOK
<1>3. Waiting' = Tail(Waiting)
  <2>1. /\ Tail(Waiting) \in Seq(Seq(Byte)) /\ Len(Tail(Waiting)) = Len(buff) - 1
        /\ \A i \in 1..(Len(buff) - 1) : Tail(Waiting)[i] = elem[buff[i + 1]].raw
    <3>1. \A i \in 1..(Len(buff) - 1) : i + 1 \in 1..Len(buff)
      BY <1>1a
    <3> QED
      BY <1>1a, <1>2, <3>1, WaitingOK, HeadTailProperties
  <2>2. /\ Waiting' \in Seq(Seq(Byte)) /\ Len(Waiting') = Len(buff) - 1
        /\ \A i \in 1..(Len(buff) - 1) : Waiting'[i] = elem[buff[i + 1]].raw
    <3>1. Waiting' = Bytes(buff', elem)
      BY <1>1 DEF Waiting
    <3>2. /\ Bytes(buff', elem) \in Seq(Seq(Byte)) /\ Len(Bytes(buff', elem)) = Len(buff')
          /\ \A i \in 1..Len(buff') : Bytes(buff', elem)[i] = elem[buff'[i]].raw
      BY <1>1, BytesOK
    <3> QED
      BY <1>1a, <3>1, <3>2
  <2> QED
    BY <2>1, <2>2, SeqEqual
<1>4. Head(buff) # None
  BY <1>1a, <1>1, WaitingOK, ConstantsOK
<1> QED
  BY <1>1, <1>2, <1>3, <1>4 DEF Feed!Take, Waiting, Bytes

LEMMA StepFeeds ==
  ASSUME ClientInv, IInv', Next
  PROVE  Feed!Next \/ UNCHANGED Feed!vars
<1>1. MemoryInv /\ MemoryInv'
  BY DEF ClientInv, IInv
<1>2. CASE Reset
  BY <1>2 DEF Reset, Feed!Reset, Feed!Next
<1>3. ASSUME ~Reset, last' = last, buff' = buff
      PROVE  Waiting' = Waiting /\ Raw(last)' = Raw(last) /\ Raw(held) = (IF held = None THEN <<>> ELSE elem'[held].raw)
  <2>1. \A e \in Shown \cup ({last} \ {None}) : elem'[e].raw = elem[e].raw
    BY <1>3, ShownSpared DEF ClientInv
  <2>2. \A i \in 1..Len(buff) : elem'[buff[i]].raw = elem[buff[i]].raw
    BY <1>1, <2>1, WaitingOK DEF Shown
  <2> QED
    BY <1>3, <2>1, <2>2 DEF Waiting, Bytes, Raw, Shown
<1>4. CASE ~Reset /\ UNCHANGED <<last, buff, held>>
  <2>1. UNCHANGED <<Waiting, Raw(last), Raw(held)>>
    BY <1>3, <1>4 DEF Raw
  <2> QED
    BY <2>1 DEF Feed!vars, Waiting, Bytes, Raw
<1>5. CASE Get /\ buff # <<>>
  BY <1>1, <1>5, GetTakes DEF Feed!Next
<1>6. CASE Ret
  <2>1. UNCHANGED <<last, buff>> /\ held # None /\ held' = None
    BY <1>6 DEF Ret
  <2>2. elem[held].raw # <<>>
    BY <2>1, ConstantsOK DEF ClientInv, Shown, Intact
  <2>3. UNCHANGED <<Waiting, Raw(last)>>
    BY <1>3, <1>6, <2>1 DEF Ret, Reset
  <2> QED
    BY <2>1, <2>2, <2>3 DEF Feed!GiveBack, Feed!Next, Waiting, Bytes, Raw
<1>7. ASSUME NEW w, Free(w), NEW sect, WellFormed(sect), Complete(sect), Settle(w, sect),
             held' = held, UNCHANGED <<last, buff>> => FALSE
      PROVE  Feed!Deliver
  <2>1. Commit(w, sect) /\ ~SameAsLast(sect)
    BY <1>7 DEF Settle, CancelError, CancelSame, Cancel
  <2> QED
    BY <1>1, <1>7, <2>1, CommitDelivers
<1>8. CASE Exclude /\ ~UNCHANGED <<last, buff>>
  <2>1. /\ work # None /\ Complete(Extend(elem[work], bytes))
        /\ Settle(work, Extend(elem[work], bytes)) /\ held' = held
    BY <1>8 DEF Exclude
  <2>2. Free(work) /\ WellFormed(elem[work])
    BY <1>1, <2>1, WorkFree DEF Free, MemoryInv, MemoryTypes, HeadersThere, WellFormed
  <2>3. WellFormed(Extend(elem[work], bytes))
    BY <2>2, ExtendOK DEF ClientInv, IInv, ControlTypes
  <2> QED
    BY <1>7, <1>8, <2>1, <2>2, <2>3 DEF Feed!Next
<1>9. CASE LoopComplete /\ ~UNCHANGED <<last, buff>>
  <2>1. PICK w \in WorkElems : /\ Complete(Extend(EmptySection, rest))
                               /\ Settle(w, Extend(EmptySection, rest)) /\ held' = held
    BY <1>9 DEF LoopComplete
  <2>2. WellFormed(Extend(EmptySection, rest))
    BY EmptySectionOK, ExtendOK DEF ClientInv, IInv, ControlTypes
  <2> QED
    BY <1>1, <1>7, <1>9, <2>1, <2>2, RecycledFree DEF Feed!Next
<1>10. CASE (Exclude \/ LoopComplete) /\ UNCHANGED <<last, buff>>
  BY <1>2, <1>4, <1>10 DEF Exclude, LoopComplete
<1>11. \/ Reset \/ Ret \/ Exclude \/ LoopComplete
       \/ Get /\ buff # <<>>
       \/ UNCHANGED <<last, buff, held>>
  BY DEF Next, PutStep, PutRefused, PutContinuation, PutStart, PutBroken, DropLeftover,
         DropWork, CancelError, CancelEmpty, Cancel, LoopIncomplete, LoopNoMemory, Get
<1> QED
  BY <1>2, <1>4, <1>5, <1>6, <1>8, <1>9, <1>10, <1>11

(* To its client the parser is SectionFeed: a first-in first-out queue of  *)
(* sections without repeats, whatever the heap, the packets and the memory *)
(* put() works in.                                                         *)
THEOREM FeedsClient == Spec => FeedSpec
<1>1. Init => Feed!Init
  BY DEF Init, Feed!Init
<1>2. ClientInv /\ ClientInv' /\ [Next]_vars => [Feed!Next]_Feed!vars
  <2>1. UNCHANGED vars => UNCHANGED Feed!vars
    BY DEF vars, Feed!vars
  <2> QED
    BY <2>1, StepFeeds DEF ClientInv
<1> QED
  BY <1>1, <1>2, ClientInductive, PTL DEF Spec, FeedSpec, Feed!Spec

=============================================================================
