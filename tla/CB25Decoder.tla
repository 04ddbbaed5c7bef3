---------------------------- MODULE CB25Decoder ----------------------------
(***************************************************************************)
(* CB25Decoder of src/aribb25/libaribb25.cpp: it makes a card and a        *)
(* decoder, passes the client's packets through the decoder, gives the     *)
(* decoder up on some errors and makes another one later.                  *)
(*                                                                         *)
(* The decoder is reduced to what PacketService says of it.  Packets are   *)
(* numbered in the order of Decode; numbers of one call follow each other. *)
(* The client passes *ppDstBuf as a null pointer, and does not use what    *)
(* was handed out before, when it calls the object again.                  *)
(***************************************************************************)
EXTENDS Integers, Sequences, FiniteSets

CONSTANTS
  Card,      \* the card objects that memory has room for
  Nulls,     \* the packets that set_strip(1) takes out
  Interval,  \* RETRY_INTERVAL, in ticks
  None,
  MaxPut,    \* bound: packets of one call
  Total      \* bound: packets that reach a decoder

ASSUME WrapperAssumption ==
  /\ None \notin Card /\ Interval \in Nat /\ Total \in Nat /\ Nulls \subseteq 1..Total

VARIABLES
  bcas,     \* _bcas
  b25,      \* _b25: NoDecoder or [card, in, done], its card and its two buffers
  data,     \* _data: None or the packets in it
  since,    \* ticks since _errtime, up to Interval + 1
  dst,      \* handed out last: [at |-> where the packets are, pk |-> which]
  live,     \* card objects that are not released
  next,     \* the number of the next packet
  processed, settled, waited, lacked, stamped, tries, torn  \* history, see below

\* processed: the packets that came from get; settled: those handed out, dropped
\* by the decoder, or gone with its buffers.
\* waited, lacked: ticks since this object last failed to open a card it had made
\* or gave one up, and since it last failed to make one; stamped: _errtime has been
\* assigned; tries: the attempts of Decode to open a card, modulo 2.
\* torn: a flush has failed, and its packets are in both buffers.
objects == <<bcas, b25, live>>
history == <<processed, settled>>
clocks == <<since, waited, lacked, stamped>>
vars == <<objects, data, dst, next, history, clocks, tries, torn>>

Packets(s) == {s[i] : i \in 1..Len(s)}

From(s, j) == SubSeq(s, j, Len(s))

\* _b25 is a null pointer.
NoDecoder == [card |-> None, in |-> <<>>, done |-> <<>>]

Buffered(d) == Packets(d.in) \cup Packets(d.done)

Nothing == [at |-> "none", pk |-> <<>>]

\* The constructor does not assign _errtime: it may be long past or far ahead.
AnyTime == {-1, Interval + 1}

Init ==
  /\ bcas = None /\ b25 = NoDecoder /\ data = None /\ live = {}
  /\ since \in AnyTime
  /\ dst = Nothing /\ next = 1
  /\ processed = {} /\ settled = {}
  /\ waited = Interval + 1 /\ lacked = Interval + 1 /\ stamped = FALSE /\ tries = 0
  /\ torn = FALSE

----------------------------------------------------------------------------
(* What put, flush and get do to the buffers in and done (PacketService).  *)

\* Those that are not stripped
Kept(s) ==
  LET K[n \in 0..Len(s)] ==
        IF n = 0 THEN <<>>
        ELSE IF s[n] \in Nulls THEN K[n - 1] ELSE Append(K[n - 1], s[n])
  IN  K[Len(s)]

\* d when the first k packets of s have been processed
Processed(d, s, k) == [d EXCEPT !.in = From(s, k + 1), !.done = @ \o Kept(SubSeq(s, 1, k))]

\* What is left when a search has dropped the packets in front of a new PAT
Left(all) == {From(all, j) : j \in 1..Len(all)}

\* put ends well.  The last packet stays in the buffer.
Puts(d, new) ==
  UNION {{Processed(d, s, k) : k \in 0..(Len(s) - 1)} : s \in Left(d.in \o new)}

\* put fails: in a search, or at a packet, and is then taken back to the length
\* it found, over what is no packet (0) when a search has dropped more than was
\* added.
PutFails(d, new) ==
  LET Cut(s) == [i \in 1..Len(d.in) |-> IF i <= Len(s) THEN s[i] ELSE 0]
  IN  UNION {{[d EXCEPT !.in = s], [d EXCEPT !.in = Cut(s)]} : s \in Left(d.in \o new)}

Flushes(d) == {Processed(d, d.in, k) : k \in 0..Len(d.in)}

\* Mutant of Got: the output buffer is not reset.
GotKeeps(d) == d

\* get
Got(d) == [d EXCEPT !.done = <<>>]

----------------------------------------------------------------------------
(* Initialize                                                              *)

\* A new decoder with its card
Registered(c) == [card |-> c, in |-> <<>>, done |-> <<>>]

\* create_b_cas_card fails, and Initialize returns before it sets _errtime.  Decode
\* compares the BOOL it returns with < 0, and does not set it either.
NoCardObject == lacked' = 0 /\ UNCHANGED <<objects, since, waited, stamped>>

\* Mutant of CardFails: the card is not released.
CardFailsLeaks(c) ==
  /\ live' = live \cup {c}
  /\ since' = 0 /\ waited' = 0 /\ stamped' = TRUE
  /\ UNCHANGED <<bcas, b25, lacked>>

\* Mutant of CardFails: _errtime is not set.
CardFailsUnstamped(c) == waited' = 0 /\ UNCHANGED <<objects, since, lacked, stamped>>

\* init or set_b_cas_card fails, or there is no memory for the decoder.
CardFails(c) ==
  /\ since' = 0 /\ waited' = 0 /\ stamped' = TRUE
  /\ UNCHANGED <<objects, lacked>>

Fails == NoCardObject \/ \E c \in Card \ live : CardFails(c)

Opens ==
  \E c \in Card \ live :
    /\ live' = live \cup {c} /\ bcas' = c /\ b25' = Registered(c)
    /\ UNCHANGED clocks

\* reset empties the decoder and its buffers.
Reset ==
  /\ b25 # NoDecoder
  /\ b25' = [b25 EXCEPT !.in = <<>>, !.done = <<>>]
  /\ settled' = settled \cup Buffered(b25)
  /\ dst' = Nothing /\ torn' = FALSE
  /\ UNCHANGED <<bcas, live, data, next, processed, clocks, tries>>

\* With a decoder, Initialize is Reset.
Initialize ==
  \/ Reset
  \/ /\ b25 = NoDecoder /\ (Fails \/ Opens)
     /\ dst' = Nothing
     /\ UNCHANGED <<data, next, history, tries, torn>>

----------------------------------------------------------------------------
(* Decode                                                                  *)

\* Mutant of Due: the arguments of difftime are swapped.
DueSwapped == -since > Interval

\* difftime(now, _errtime) > RETRY_INTERVAL
Due == since > Interval

\* There is no decoder and none is made: the input is handed back.  Such
\* packets are not numbered.
DecodeWithout ==
  /\ b25 = NoDecoder
  /\ IF Due THEN Fails /\ tries' = 1 - tries ELSE UNCHANGED <<objects, clocks, tries>>
  /\ dst' = [at |-> "src", pk |-> <<>>]
  /\ UNCHANGED <<data, next, history, torn>>

\* The packets new of this call: what is handed out, and where it is.
Hand(w, new) ==
  /\ dst' = w
  /\ next' = next + Len(new)
  /\ data' = IF w.at = "data" THEN w.pk ELSE None

Src(new) == [at |-> "src", pk |-> new]

\* The decoder goes on as e, with card c.
GoOn(c, e) == bcas' = c /\ b25' = e /\ live' = live \cup {c}

\* Decoder and card are released.
GiveUp(c) == bcas' = None /\ b25' = NoDecoder /\ live' = live \ {c}

\* What the decoder has dropped
Dropped(d, new, e) == (Buffered(d) \cup Packets(new)) \ Buffered(e)

\* put into decoder d succeeds, with a warning or without: get.
DecodeGets(c, d, new) ==
  \E e \in Puts(d, new) :
    /\ GoOn(c, Got(e))
    /\ Hand([at |-> "dbuf", pk |-> e.done], new)
    /\ processed' = processed \cup Packets(e.done)
    /\ settled' = settled \cup Packets(e.done) \cup Dropped(d, new, e)
    /\ UNCHANGED <<clocks, torn>>

\* WARN_PAT_NOT_COMPLETE: put has buffered the input, and it is handed back.
DecodeNoPat(c, d, new) ==
  /\ GoOn(c, [d EXCEPT !.in = @ \o new])
  /\ Hand(Src(new), new)
  /\ settled' = settled \cup Packets(new)
  /\ UNCHANGED <<processed, clocks, torn>>

\* NO_PAT, NO_PMT and NO_ECM_IN_HEAD, NON_TS_INPUT_STREAM, want of memory
DecodeHeadError(c, d, new) ==
  /\ GiveUp(c)
  /\ Hand(Src(new), new)
  /\ settled' = settled \cup Packets(new) \cup Buffered(d)
  /\ since' = 0 /\ waited' = 0 /\ stamped' = TRUE /\ torn' = FALSE
  /\ UNCHANGED <<processed, lacked>>

\* Mutant of Withdrawn: the decoder's buffer is handed out itself.
WithdrawnInPlace(e, new) == [at |-> "sbuf", pk |-> e.in \o new]

\* Mutant of Withdrawn: only the input is handed back.
WithdrawnNot(e, new) == Src(new)

\* withdraw: what the decoder had buffered, copied, and the input behind it
Withdrawn(e, new) ==
  IF e.in = <<>> THEN Src(new) ELSE [at |-> "data", pk |-> e.in \o new]

\* The other errors.  malloc may fail; ECM_PROC_FAILURE gives the decoder up.
DecodeError(c, d, new) ==
  \E e \in PutFails(d, new), malloc, ecmFailure \in BOOLEAN :
    /\ Hand(IF malloc THEN Withdrawn(e, new) ELSE Src(new), new)
    /\ IF ecmFailure THEN GiveUp(c) ELSE GoOn(c, [e EXCEPT !.in = <<>>])
    /\ settled' = settled \cup Packets(dst'.pk) \cup Dropped(d, new, e)
                          \cup (IF malloc THEN {} ELSE Packets(e.in))
                          \cup (IF ecmFailure THEN Packets(e.done) ELSE {})
    /\ torn' = (torn /\ ~ecmFailure)
    /\ since' = 0 /\ waited' = (IF ecmFailure THEN 0 ELSE waited) /\ stamped' = TRUE
    /\ UNCHANGED <<processed, lacked>>

\* Decode puts into the decoder there is or, when that is due, into a new one.
Decode ==
  /\ \E n \in 1..MaxPut, c \in Card :
       LET new == [i \in 1..n |-> next + i - 1]
           d == IF b25 = NoDecoder THEN Registered(c) ELSE b25
       IN  /\ next + n - 1 <= Total
           /\ IF b25 = NoDecoder THEN Due /\ c \notin live ELSE c = bcas
           /\ \/ DecodeGets(c, d, new) \/ DecodeNoPat(c, d, new)
              \/ DecodeHeadError(c, d, new) \/ DecodeError(c, d, new)
  /\ tries' = IF b25 = NoDecoder THEN 1 - tries ELSE tries

----------------------------------------------------------------------------
\* Flush hands nothing out; what flush has processed waits for the next get.
\* When its first loop fails, the packets processed are still in the buffer.
\* Bound: there is no second Flush after one that failed.
Flush ==
  /\ b25 # NoDecoder /\ ~torn
  /\ \E e \in Flushes(b25) :
       \/ /\ b25' = e
          /\ settled' = settled \cup Dropped(b25, <<>>, e)
          /\ UNCHANGED torn
       \/ /\ b25' = [b25 EXCEPT !.done = e.done]
          /\ torn' = TRUE
          /\ UNCHANGED settled
  /\ dst' = Nothing
  /\ UNCHANGED <<bcas, live, data, next, processed, clocks, tries>>

\* All of a new object but _data
Renewed ==
  /\ bcas' = None /\ b25' = NoDecoder /\ live' = live \ {bcas}
  /\ since' \in AnyTime /\ waited' = Interval + 1 /\ lacked' = Interval + 1
  /\ stamped' = FALSE /\ torn' = FALSE
  /\ dst' = Nothing /\ next' = 1 /\ processed' = {} /\ settled' = {}
  /\ UNCHANGED tries

\* Mutant of Release: the constructor does not clear _data either.
ReleaseKeepsData == Renewed /\ UNCHANGED data

\* Release deletes the object.  The client makes another.
Release == Renewed /\ data' = None

Later(t) == IF t \in 0..Interval THEN t + 1 ELSE t

\* Time passes.
Tick ==
  /\ {since, waited, lacked} \cap (0..Interval) # {}
  /\ since' = Later(since) /\ waited' = Later(waited) /\ lacked' = Later(lacked)
  /\ UNCHANGED <<objects, data, dst, next, history, stamped, tries, torn>>

Next ==
  \/ Initialize \/ Reset \/ DecodeWithout \/ Decode
  \/ Flush \/ Release \/ Tick

Spec == Init /\ [][Next]_vars

\* Time passes, and the client calls Decode again and again; a card object can
\* be made then.
DecodeTries == DecodeWithout /\ tries' # tries /\ waited' = 0

FairSpec == Spec /\ WF_vars(Tick) /\ WF_vars(DecodeTries)

----------------------------------------------------------------------------
(* Properties. *)

\* The packets the client has given to this object, and what is none
Given == 0..(next - 1)

\* The state has the types its declarations give it.  What a decoder holds was
\* given by the client; so was what is handed out or kept in _data, but for what is
\* no packet (PutFails).
TypeOK ==
  /\ bcas \in Card \cup {None} /\ live \subseteq Card
  /\ b25.card \in Card \cup {None} /\ Buffered(b25) \subseteq Given \ {0}
  /\ data # None => Packets(data) \subseteq Given
  /\ since \in -1..(Interval + 1)
  /\ waited \in 0..(Interval + 1) /\ lacked \in 0..(Interval + 1)
  /\ dst.at \in {"none", "src", "dbuf", "data"} /\ Packets(dst.pk) \subseteq Given
  /\ next \in 1..(Total + 1) /\ stamped \in BOOLEAN /\ tries \in 0..1 /\ torn \in BOOLEAN

\* A decoder has the card it was made with, and there is no card object but
\* that: none outlives its decoder, over failed and repeated initialisations.
CardWithDecoder ==
  /\ bcas = b25.card
  /\ live = {bcas} \ {None}

\* What is handed out is in memory that is there until the next call, also
\* when the decoder it came from has been given up.
HandedValid ==
  CASE dst.at \in {"dbuf", "sbuf"} -> b25 # NoDecoder
    [] dst.at = "data" -> data = dst.pk
    [] OTHER -> TRUE

\* A packet that came out processed never comes out again, processed or not,
\* over failed puts, withdrawals and flushes; but for a flush that has failed.
ProcessedOnce == [][next' # next /\ ~torn => Packets(dst'.pk) \cap processed = {}]_vars

\* A packet that Decode took and the decoder did not drop is handed out or
\* still in the decoder, except where a decoder is given up at the head of the
\* stream, reset or released, and where there is no memory for a copy.
NothingWithheld == 1..(next - 1) \subseteq settled \cup Buffered(b25)

\* Decode tries a card, with success or not, only when RETRY_INTERVAL has passed
\* since one was not opened, by Decode or by Initialize, and since one was given up.
\* A card object that could not be made does not count here.
RetrySpaced == [][tries' # tries => waited > Interval]_vars

\* libaribb25.h:14 "10sec interval" and libaribb25.cpp:126 "if (Initialize() < 0)
\* _errtime = now": Decode waits for the interval after every failed attempt, also
\* after one that could not make a card object.
EveryFailureDelays == [][tries' # tries => waited > Interval /\ lacked > Interval]_vars

\* Once _errtime has been assigned Decode does not stay without a decoder for good:
\* it tries a card, again and again until one opens.
Recovers == b25 = NoDecoder /\ stamped ~> b25 # NoDecoder \/ waited = 0 \/ ~stamped
=============================================================================
