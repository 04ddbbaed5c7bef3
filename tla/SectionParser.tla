--------------------------- MODULE SectionParser ---------------------------
(***************************************************************************)
(* The PSI section parser of src/aribb25/ts_section_parser.c: one parser   *)
(* collects the payloads of one PID, reassembles the sections in them,     *)
(* drops a section that repeats the last one it committed and queues the   *)
(* others for its client.                                                  *)
(*                                                                         *)
(* The parser owns its memory: section elements move between the section   *)
(* being reassembled (work), the queue of finished sections (buff) and the *)
(* pool, from which an element nobody refers to is recycled.  A client     *)
(* looks straight into the element it got until it returns it, and "last"  *)
(* (the section repeats are compared with) is a bare pointer to wherever   *)
(* that element is; only the reference count keeps both from being         *)
(* overwritten.                                                            *)
(*                                                                         *)
(* put() is a loop over the sections of one payload.  Each turn is a step  *)
(* of its own here, ordered by pc; nothing else runs until put() returns.  *)
(***************************************************************************)
EXTENDS Integers, Sequences

CONSTANTS
  Elem,         \* the section elements the heap has room for
  None,         \* the null pointer
  Pids,         \* the PIDs of the packets handed to put()
  Byte,         \* the byte values
  Stuffing,     \* 0xff, the byte that fills a payload after its last section
  ShortHeader,  \* bytes of a short section header (3)
  LongHeader,   \* bytes of a long section header (8)
  MaxRaw,       \* MAX_RAW_SECTION_SIZE
  Genuine,      \* the byte strings whose CRC is right
  Payloads,     \* the payloads handed to put()
  MaxTotal      \* bound: sections counted before the model stops putting

ASSUME ParserAssumption ==
  /\ None \notin Elem
  /\ Byte \subseteq Nat
  /\ Stuffing \in Byte
  /\ ShortHeader \in Nat /\ ShortHeader > 1
  /\ LongHeader \in Nat /\ LongHeader >= ShortHeader
  /\ MaxRaw \in Nat
  /\ \A b \in Byte : b + ShortHeader <= MaxRaw
  /\ LongHeader <= MaxRaw
  /\ Payloads \subseteq Seq(Byte)
  /\ MaxTotal \in Nat

VARIABLES
  pid,    \* the PID of the first payload, None before it
  work,   \* the element being filled, or None
  last,   \* the element committed last, or None
  pool,   \* the elements not in use or handed to the client
  buff,   \* the queue of committed elements
  elem,   \* each element: its bytes, whether its header is known, its count
  stat,   \* the statistics
  held,   \* the element the client got and has not returned, or None
  pc,     \* where put() is: "idle", "exclude", "leftover" or "loop"
  bytes,  \* put(): bytes that continue the section in work
  rest,   \* put(): bytes from the next section start on
  rc      \* the code the last put() or get() returned

vars == <<pid, work, last, pool, buff, elem, stat, held, pc, bytes, rest, rc>>

----------------------------------------------------------------------------
(* A section, byte by byte. *)

LongSyntax(raw) == raw[1] # 0

SectionSize(raw) == raw[ShortHeader] + ShortHeader

HeaderKnown(raw) ==
  /\ Len(raw) >= ShortHeader
  /\ LongSyntax(raw) => Len(raw) >= LongHeader

\* append_section_data: copy what fits, look for the header unless it is
\* known, cut off what lies beyond the section's own length.
Extend(sect, more) ==
  LET room  == MaxRaw - Len(sect.raw)
      n     == IF Len(more) < room THEN Len(more) ELSE room
      raw   == sect.raw \o SubSeq(more, 1, n)
      known == sect.data \/ HeaderKnown(raw)
      size  == SectionSize(raw)
  IN  [sect EXCEPT !.raw  = IF known /\ Len(raw) > size
                              THEN SubSeq(raw, 1, size) ELSE raw,
                   !.data = known]

Complete(sect) == sect.data /\ Len(sect.raw) >= SectionSize(sect.raw)

CrcWrong(sect) == LongSyntax(sect.raw) /\ sect.raw \notin Genuine

EmptySection == [raw |-> <<>>, data |-> FALSE, ref |-> 0]

----------------------------------------------------------------------------
(* The element lists. *)

Queued == {buff[i] : i \in 1..Len(buff)}

Allocated == pool \cup Queued \cup ({work} \ {None})

\* Mutant of Unreferenced: a count of one is taken for none.
UnreferencedOffByOne == {e \in pool : elem[e].ref < 2}

\* query_work_elem: an unreferenced element of the pool; a new one when the
\* pool has none; nothing when the heap has none either.
Unreferenced == {e \in pool : elem[e].ref < 1}

WorkElems == IF Unreferenced # {} THEN Unreferenced ELSE Elem \ Allocated

SameAsLast(sect) == last # None /\ sect.raw = elem[last].raw

\* The statistics after the counters in fields have grown by one.
Counted(fields) ==
  [f \in {"total", "unique", "error"} |->
     IF f \in fields THEN stat[f] + 1 ELSE stat[f]]

\* cancel_elem_error, cancel_elem_same and cancel_elem_empty: element w goes
\* (back) to the pool, emptied, and the counters in fields grow.
Cancel(w, fields) ==
  /\ elem' = [elem EXCEPT ![w] = EmptySection]
  /\ pool' = pool \cup {w}
  /\ stat' = Counted(fields)
  /\ UNCHANGED <<last, buff>>

CancelError(w) == Cancel(w, {"total", "error"})

CancelSame(w) == Cancel(w, {"total"})

CancelEmpty(w) == Cancel(w, {})

\* Mutant of Commit: one reference for both uses, taken back unasked.
CommitOneRefUnchecked(w, sect) ==
  /\ elem' = [e \in Elem |->
                IF e = w THEN [sect EXCEPT !.ref = 1]
                ELSE IF e = last THEN [elem[e] EXCEPT !.ref = @ - 1]
                ELSE elem[e]]
  /\ last' = w /\ buff' = Append(buff, w) /\ pool' = pool \ {w}
  /\ stat' = Counted({"total", "unique"})

\* commit_elem_updated: w is queued and becomes the last one, referenced as
\* such and for the client; the previous last loses its reference.
Commit(w, sect) ==
  /\ elem' = [e \in Elem |->
                IF e = w THEN [sect EXCEPT !.ref = 2]
                ELSE IF e = last /\ elem[e].ref > 0
                THEN [elem[e] EXCEPT !.ref = @ - 1]
                ELSE elem[e]]
  /\ last' = w
  /\ buff' = Append(buff, w)
  /\ pool' = pool \ {w}
  /\ stat' = Counted({"total", "unique"})

\* Mutants of Settle: no CRC is checked; no repeat is recognised.
SettleUnchecked(w, sect) == IF SameAsLast(sect) THEN CancelSame(w) ELSE Commit(w, sect)

SettleRepeats(w, sect) == IF CrcWrong(sect) THEN CancelError(w) ELSE Commit(w, sect)

\* What put() does with element w once it holds the complete section sect.
Settle(w, sect) ==
  IF CrcWrong(sect) THEN CancelError(w)
  ELSE IF SameAsLast(sect) THEN CancelSame(w)
  ELSE Commit(w, sect)

\* What put() does with a section in work that cannot be completed; r is the
\* code to return when there is none.
DropWork(r) ==
  /\ work' = None
  /\ IF work = None
       THEN rc' = r /\ UNCHANGED <<last, pool, buff, elem, stat>>
       ELSE IF elem[work].raw = <<>>
       THEN rc' = r /\ CancelEmpty(work)
       ELSE rc' = "LENGTH_MISSMATCH" /\ CancelError(work)

----------------------------------------------------------------------------
Init ==
  /\ pid = None /\ work = None /\ last = None /\ held = None
  /\ pool = {} /\ buff = <<>>
  /\ elem = [e \in Elem |-> EmptySection]
  /\ stat = [total |-> 0, unique |-> 0, error |-> 0]
  /\ pc = "idle" /\ bytes = <<>> /\ rest = <<>> /\ rc = "OK"

\* put() refuses an empty payload and a packet of another PID.
PutRefused(p, payload) ==
  /\ pc = "idle"
  /\ \/ payload = <<>> /\ rc' = "INVALID_PARAM"
     \/ payload # <<>> /\ pid \notin {None, p} /\ rc' = "INVALID_TS_PID"
  /\ UNCHANGED <<pid, work, last, pool, buff, elem, stat, held, pc, bytes, rest>>

Accepts(p, payload) ==
  /\ pc = "idle" /\ payload # <<>> /\ pid \in {None, p}
  /\ stat.total < MaxTotal

\* put() of a packet in which no section starts.
PutContinuation(p, payload) ==
  /\ Accepts(p, payload)
  /\ pid' = p /\ rc' = "OK"
  /\ pc' = "exclude" /\ bytes' = payload /\ rest' = <<>>
  /\ UNCHANGED <<work, last, pool, buff, elem, stat, held>>

\* put() of a packet in which a section starts, after pointer_field bytes of
\* the previous one.
PutStart(p, payload) ==
  /\ Accepts(p, payload)
  /\ payload[1] + 1 < Len(payload)
  /\ pid' = p /\ rc' = "OK"
  /\ pc' = IF payload[1] > 0 THEN "exclude" ELSE "leftover"
  /\ bytes' = SubSeq(payload, 2, payload[1] + 1)
  /\ rest' = SubSeq(payload, payload[1] + 2, Len(payload))
  /\ UNCHANGED <<work, last, pool, buff, elem, stat, held>>

\* put() of a packet whose pointer_field points past its end.
PutBroken(p, payload) ==
  /\ Accepts(p, payload)
  /\ payload[1] + 1 >= Len(payload)
  /\ pid' = p
  /\ DropWork("OK")
  /\ UNCHANGED <<held, pc, bytes, rest>>

\* put_exclude_section_start: bytes belong to the section in work.
Exclude ==
  /\ pc = "exclude"
  /\ pc' = IF rest = <<>> THEN "idle" ELSE "leftover"
  /\ bytes' = <<>>
  /\ IF work = None \/ elem[work].raw = <<>>
       THEN UNCHANGED <<work, last, pool, buff, elem, stat, rc>>
       ELSE LET sect == Extend(elem[work], bytes)
            IN  IF ~Complete(sect)
                  THEN /\ elem' = [elem EXCEPT ![work] = sect]
                       /\ UNCHANGED <<work, last, pool, buff, stat, rc>>
                  ELSE /\ work' = None
                       /\ Settle(work, sect)
                       /\ rc' = IF CrcWrong(sect) THEN "CRC_MISSMATCH" ELSE rc
  /\ UNCHANGED <<pid, held, rest>>

\* put_include_section_start: what pointer_field did not complete is lost.
DropLeftover ==
  /\ pc = "leftover" /\ pc' = "loop"
  /\ DropWork(rc)
  /\ UNCHANGED <<pid, held, bytes, rest>>

\* Mutant of LoopIncomplete: the loop goes on.
LoopIncompleteEndless ==
  /\ pc = "loop"
  /\ \E w \in WorkElems :
       LET sect == Extend(EmptySection, rest)
       IN  /\ ~Complete(sect)
           /\ work' = w /\ elem' = [elem EXCEPT ![w] = sect] /\ pool' = pool \ {w}
  /\ pc' = "loop" /\ rest' = <<>> /\ rc' = "OK"
  /\ UNCHANGED <<pid, last, buff, stat, held, bytes>>

\* One turn of the loop: the section at rest is not complete in this packet.
LoopIncomplete ==
  /\ pc = "loop"
  /\ \E w \in WorkElems :
       LET sect == Extend(EmptySection, rest)
       IN  /\ ~Complete(sect)
           /\ work' = w
           /\ elem' = [elem EXCEPT ![w] = sect]
           /\ pool' = pool \ {w}
  /\ pc' = "idle" /\ rest' = <<>> /\ rc' = "OK"
  /\ UNCHANGED <<pid, last, buff, stat, held, bytes>>

\* One turn of the loop: the section at rest is complete; the next one, if
\* any, starts right behind it.
LoopComplete ==
  /\ pc = "loop"
  /\ \E w \in WorkElems :
       LET sect == Extend(EmptySection, rest)
           next == SubSeq(rest, Len(sect.raw) + 1, Len(rest))
           more == next # <<>> /\ next[1] # Stuffing
       IN  /\ Complete(sect)
           /\ Settle(w, sect)
           /\ rc' = IF CrcWrong(sect) THEN "CRC_MISSMATCH" ELSE rc
           /\ rest' = IF more THEN next ELSE <<>>
           /\ pc' = IF more THEN "loop" ELSE "idle"
  /\ UNCHANGED <<pid, work, held, bytes>>

\* One turn of the loop: no element is to be had.
LoopNoMemory ==
  /\ pc = "loop" /\ WorkElems = {}
  /\ pc' = "idle" /\ rest' = <<>> /\ rc' = "NO_ENOUGH_MEMORY"
  /\ UNCHANGED <<pid, work, last, pool, buff, elem, stat, held, bytes>>

\* Mutant of Get: the element is not linked into the pool.
GetUnlinked ==
  /\ pc = "idle" /\ held = None
  /\ IF buff = <<>>
       THEN rc' = "NO_SECTION_DATA" /\ UNCHANGED <<held, buff>>
       ELSE rc' = "OK" /\ held' = Head(buff) /\ buff' = Tail(buff)
  /\ UNCHANGED <<pid, work, last, pool, elem, stat, pc, bytes, rest>>

\* get(): the oldest queued section, handed out of the pool.
Get ==
  /\ pc = "idle" /\ held = None
  /\ IF buff = <<>>
       THEN rc' = "NO_SECTION_DATA" /\ UNCHANGED <<held, buff, pool>>
       ELSE /\ rc' = "OK"
            /\ held' = Head(buff)
            /\ buff' = Tail(buff)
            /\ pool' = pool \cup {Head(buff)}
  /\ UNCHANGED <<pid, work, last, elem, stat, pc, bytes, rest>>

\* ret(): the element with the client's data pointer, if it is in the pool.
Ret ==
  /\ pc = "idle" /\ held # None
  /\ held' = None
  /\ elem' = IF held \in pool /\ elem[held].ref > 0
               THEN [elem EXCEPT ![held].ref = @ - 1] ELSE elem
  /\ UNCHANGED <<pid, work, last, pool, buff, stat, pc, bytes, rest, rc>>

\* reset(), which teardown() does the work of: every element is freed.
Reset ==
  /\ pc = "idle" /\ held = None
  /\ pid' = None /\ work' = None /\ last' = None
  /\ pool' = {} /\ buff' = <<>>
  /\ elem' = [e \in Elem |-> EmptySection]
  /\ stat' = [total |-> 0, unique |-> 0, error |-> 0]
  /\ UNCHANGED <<held, pc, bytes, rest, rc>>

PutStep == Exclude \/ DropLeftover \/ LoopIncomplete \/ LoopComplete \/ LoopNoMemory

Next ==
  \/ \E p \in Pids, payload \in Payloads :
       \/ PutRefused(p, payload)
       \/ PutContinuation(p, payload)
       \/ PutStart(p, payload)
       \/ PutBroken(p, payload)
  \/ PutStep
  \/ Get
  \/ Ret
  \/ Reset

Spec == Init /\ [][Next]_vars

\* put() runs to its end once called; nobody has to call it.
FairSpec == Spec /\ WF_vars(PutStep)

----------------------------------------------------------------------------
(* Properties. *)

Ref(e) == elem[e].ref

\* The state has the types its declarations give it.
TypeOK ==
  /\ pid \in Pids \cup {None}
  /\ work \in Elem \cup {None}
  /\ last \in Elem \cup {None}
  /\ held \in Elem \cup {None}
  /\ pool \subseteq Elem
  /\ buff \in Seq(Elem)
  /\ elem \in [Elem -> [raw : Seq(Byte), data : BOOLEAN, ref : Nat]]
  /\ stat \in [total : Nat, unique : Nat, error : Nat]
  /\ pc \in {"idle", "exclude", "leftover", "loop"}
  /\ bytes \in Seq(Byte) /\ rest \in Seq(Byte)
  /\ rc \in {"OK", "CRC_MISSMATCH", "LENGTH_MISSMATCH", "INVALID_PARAM",
             "INVALID_TS_PID", "NO_SECTION_DATA", "NO_ENOUGH_MEMORY"}

\* No element is in two places: put_ts_section_list_tail relinks an element
\* without asking where it was, so a second owner would splice the lists.
OneOwner ==
  /\ work \notin pool \cup Queued
  /\ pool \cap Queued = {}
  /\ \A i, j \in 1..Len(buff) : i # j => buff[i] # buff[j]

\* The last section and the one in the client's hands are finished elements
\* the parser still owns.
LastInPlace == last # None => last \in pool \cup Queued
HeldInPlace == held # None => held \in pool

\* commit_elem_updated and ret() keep every count exact: one for being the
\* last section, one for the client who has it or has yet to get it.
RefExact ==
  \A e \in Elem :
    Ref(e) = (IF e = last THEN 1 ELSE 0)
             + (IF e \in Queued \/ e = held THEN 1 ELSE 0)

\* Every element has one place and an exact count, through all calls, damaged
\* payloads and want of memory.
Ownership == OneOwner /\ LastInPlace /\ HeldInPlace /\ RefExact

\* Hence query_work_elem never recycles the section repeats are compared
\* with, nor the one the client reads.
NeverRecycled == {last, held} \cap WorkElems = {}

\* What waits for the client is complete, at its own length and, if it has a
\* CRC, intact.
QueuedIntact ==
  \A e \in Queued \cup ({held} \ {None}) :
    LET raw == elem[e].raw
    IN  Len(raw) = SectionSize(raw) /\ (LongSyntax(raw) => raw \in Genuine)

\* The bytes the client reads do not change until it returns them.
HeldStable ==
  [][held # None /\ held' = held => elem'[held].raw = elem[held].raw]_vars

\* However little of a payload a section takes, put() comes to its end.
PutReturns == (pc # "idle") ~> (pc = "idle")

\* To its client the parser is a queue of sections without repeats.
Feed == INSTANCE SectionFeed WITH
          queue  <- [i \in 1..Len(buff) |-> elem[buff[i]].raw],
          latest <- IF last = None THEN <<>> ELSE elem[last].raw,
          out    <- IF held = None THEN <<>> ELSE elem[held].raw

FeedSpec == Feed!Spec
=============================================================================
