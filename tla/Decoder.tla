------------------------------ MODULE Decoder ------------------------------
(***************************************************************************)
(* The packet pipeline of src/aribb25/arib_std_b25.c: put, flush, get,     *)
(* withdraw and reset, the searches find_pat, find_pmt and find_ecm, the   *)
(* packet loop of proc_arib_std_b25 (and the one after it in flush), and   *)
(* proc_ecm and proc_emm.  The handlers of PAT, PMT and CAT are those of   *)
(* ProgramMap: their steps run inside a call, between two packets.         *)
(*                                                                         *)
(* A call is at a stage: the three searches, then "proc", and in flush     *)
(* "rest" after it.  Within a stage, step is "check" (is this search still *)
(* needed?), "loop" (at is the packet at hand), "after" (proc_pmt has been *)
(* called by find_pmt) or "last" (the loop has been left).                 *)
(*                                                                         *)
(* The loops want a packet to be followed by another byte, so the last     *)
(* packet stays in sbuf until the next put or until flush.                 *)
(*                                                                         *)
(* A packet holds one whole section, a part of one or media, or nothing;   *)
(* the section parser of its PID is represented by the last section it     *)
(* delivered.  The card is external: it grants an ECM, refuses it, or      *)
(* fails.  A key is named by the ECM section that carried it.              *)
(***************************************************************************)
EXTENDS ProgramMap

CONSTANTS
  Ecms,        \* ECM sections
  Emms, Own,   \* EMM sections; those for this card
  Cleared,     \* a MULTI2 instance without a scramble key
  NullPid,     \* PID 0x1fff
  Packets,     \* the different packets of the stream: name |-> [pid, kind, val]
  Streams,     \* the streams: each says which of them may come first, second, ...
  Strip, EmmOn,            \* set_strip, set_emm_proc
  UnitPackets,             \* select_unit_size wants 16 * 188 bytes
  PatLimit, TableLimit,    \* 16 MB, 32 MB
  MayFlush, MayWithdraw, CardMayFail,
  MaxPut                   \* bound: packets of one put

ASSUME DecoderAssumption ==
  /\ {None, Cleared, Unseen, Foreign} \cap Ecms = {} /\ None # Cleared
  /\ Own \subseteq Emms
  /\ NullPid \notin Pid
  /\ \A n \in DOMAIN Packets :
     LET k == Packets[n] IN
       /\ k.pid \in Pid \cup {NullPid}
       /\ k.kind \in {"section", "part", "empty", "scrambled", "damaged"}
       /\ k.kind = "section" =>
            /\ k.pid = PatPid => k.val \in Pats \cup {Foreign}
            /\ k.pid = CatPid => k.val \in Cats \cup {Foreign}
            /\ k.pid \in PmtPids => k.val \in Pmts \cup {Foreign}
            /\ k.pid \in EcmPids => k.val \in Ecms \cup {Foreign}
            /\ k.pid \in EmmPids => k.val \in Emms \cup {Foreign}
  /\ Streams \subseteq Seq(SUBSET DOMAIN Packets)

VARIABLES
  sbuf,       \* packets received, [id, pk, by]: Packets[pk], opened by the key by
  off,        \* sbuf_offset, in packets
  unit,       \* unit_size is known
  dbuf,       \* packets to be put out
  phase,      \* program[].phase
  keys,       \* decryptor |-> [m2, locked, phase, last]
  emm,        \* the EMM parser: [pid, last]
  call,       \* "none", "put" or "flush"
  stage, step, at, slen, dlen,
  res,        \* how the last call ended; a warning of proc_ecm is "ok"
  stream,     \* the stream that is received
  next, base, out, settled    \* history, see below

\* Packets are numbered in the order of put.  next is the next number, base
\* what the client knew before the call that runs (next and the packets of both
\* buffers), out the last one given out, settled those that have left the
\* decoder: given out, stripped, withdrawn, refused by a failed put, or dropped
\* by a search that met a new PAT.
sent == <<stream, next>>
history == <<sent, base, out, settled>>
buffers == <<sbuf, off, unit, dbuf>>
served == <<phase, keys, emm>>
place == <<call, stage, step, at, slen, dlen>>
dvars == <<vars, buffers, served, place, res, history>>

Fresh == [m2 |-> None, locked |-> FALSE, phase |-> 0, last |-> Unseen]
NoEmm == [pid |-> None, last |-> Unseen]

Entry(p) == IF p \in Pid THEN map[p] ELSE Unmapped

Pk(x) == Packets[x.pk]

\* Mutant of From: the packet at n goes too.
FromNext(buf, n) == SubSeq(buf, n + 1, Len(buf))

\* head moved to packet n
From(buf, n) == SubSeq(buf, n, Len(buf))

Numbers(buf) == [i \in 1..Len(buf) |-> buf[i].id]

Ids(buf) == {buf[i].id : i \in 1..Len(buf)}

\* No call runs.
NoBase == [next |-> 0, in |-> <<>>, done |-> <<>>]

Base == [next |-> next, in |-> Numbers(sbuf), done |-> Numbers(dbuf)]

----------------------------------------------------------------------------
DecoderInit ==
  /\ Init
  /\ sbuf = <<>> /\ off = 0 /\ unit = FALSE /\ dbuf = <<>>
  /\ phase = <<>> /\ keys = [d \in Dec |-> Fresh] /\ emm = NoEmm
  /\ call = "none" /\ stage = "pat" /\ step = "check" /\ at = 0
  /\ slen = 0 /\ dlen = 0 /\ res = "ok"
  /\ stream \in Streams
  /\ next = 1 /\ base = NoBase /\ out = 0 /\ settled = {}

\* Between calls; the tables are at rest.  "torn" is left only by reset():
\* td.c gives up after a flush that failed, see Fail.
Idle == call = "none" /\ res # "torn"

\* A handler of ProgramMap has returned.
Here(st) == call # "none" /\ pc = "idle" /\ step = st

\* The call returns.
Return(r) ==
  /\ call' = "none" /\ stage' = "pat" /\ step' = "check" /\ at' = 0
  /\ slen' = 0 /\ dlen' = 0 /\ base' = NoBase /\ res' = r

\* The decryptors made in this step are fresh, those freed are forgotten.
KeysFollow ==
  keys' = [d \in Dec |-> IF d \in live /\ d \in live' THEN keys[d] ELSE Fresh]

\* put_arib_std_b25 up to the first search
Put ==
  /\ Idle
  /\ \E n \in 1..MaxPut :
       /\ next + n - 1 <= Len(stream)
       /\ \E in \in [1..n -> DOMAIN Packets] :
            /\ \A i \in 1..n : in[i] \in stream[next + i - 1]
            /\ sbuf' = sbuf \o [i \in 1..n |->
                                  [id |-> next + i - 1, pk |-> in[i], by |-> None]]
       /\ next' = next + n
  /\ unit' = (unit \/ Len(sbuf') >= UnitPackets)
  /\ IF unit'
       THEN /\ call' = "put" /\ slen' = Len(sbuf) /\ dlen' = Len(dbuf)
            /\ base' = Base
            /\ UNCHANGED <<stage, step, at, res>>
       ELSE /\ res' = "ok"
            /\ UNCHANGED <<place, base>>
  /\ UNCHANGED <<vars, off, dbuf, served, stream, out, settled>>

\* flush_arib_std_b25 up to proc_arib_std_b25
Flush ==
  /\ Idle /\ MayFlush
  /\ unit' = (unit \/ Len(sbuf) >= UnitPackets)
  /\ IF unit'
       THEN /\ call' = "flush" /\ stage' = "proc" /\ step' = "loop" /\ at' = 1
            /\ base' = Base
            /\ UNCHANGED <<slen, dlen, res>>
       ELSE res' = "error" /\ UNCHANGED <<place, base>>
  /\ UNCHANGED <<vars, sbuf, off, dbuf, served, sent, out, settled>>

\* get_arib_std_b25
Get ==
  /\ Idle /\ dbuf # <<>>
  /\ dbuf' = <<>>
  /\ out' = dbuf[Len(dbuf)].id
  /\ settled' = settled \cup Ids(dbuf)
  /\ UNCHANGED <<vars, sbuf, off, unit, served, place, res, sent, base>>

\* withdraw_arib_std_b25; sbuf_offset stays.
Withdraw ==
  /\ Idle /\ MayWithdraw /\ sbuf # <<>>
  /\ sbuf' = <<>>
  /\ settled' = settled \cup Ids(sbuf)
  /\ UNCHANGED <<vars, off, unit, dbuf, served, place, res, sent, base, out>>

\* reset_arib_std_b25
ResetDecoder ==
  /\ call = "none"
  /\ Reset
  /\ sbuf' = <<>> /\ off' = 0 /\ unit' = FALSE /\ dbuf' = <<>>
  /\ phase' = <<>> /\ keys' = [d \in Dec |-> Fresh] /\ emm' = NoEmm
  /\ settled' = settled \cup Ids(sbuf) \cup Ids(dbuf)
  /\ res' = "ok"
  /\ UNCHANGED <<place, sent, base, out>>

----------------------------------------------------------------------------
(* The gates between the stages of put.                                    *)

\* check_pmt_complete and check_ecm_complete
AllServed(phases) == 2 \in phases \/ 0 \notin phases

PmtComplete(ph) == AllServed({ph[i] : i \in 1..Len(ph)})

EcmComplete(k) == AllServed({k[d].phase : d \in live})

Complete ==
  CASE stage = "pat" -> program # <<>>
    [] stage = "pmt" -> PmtComplete(phase)
    [] stage = "ecm" -> EcmComplete(keys)

Limit == IF stage = "pat" THEN PatLimit ELSE TableLimit

Proceed ==
  /\ stage' = CASE stage = "pat" -> "pmt" [] stage = "pmt" -> "ecm" [] stage = "ecm" -> "proc"
  /\ step' = IF stage = "ecm" THEN "loop" ELSE "check"
  /\ at' = IF stage = "ecm" THEN 1 ELSE 0
  /\ UNCHANGED <<call, slen, dlen, res, base>>

\* The search has been done before, or it begins.
Check ==
  /\ Here("check")
  /\ \/ Complete /\ Proceed
     \/ /\ ~Complete
        /\ step' = "loop" /\ at' = off + 1
        /\ UNCHANGED <<call, stage, slen, dlen, res, base>>
  /\ UNCHANGED <<vars, buffers, served, sent, out, settled>>

\* The search has ended.
Searched ==
  /\ Here("last") /\ stage \in {"pat", "pmt", "ecm"}
  /\ \/ Complete /\ off' = 0 /\ Proceed
     \/ ~Complete /\ Return(IF off < Limit THEN "warn" ELSE "error") /\ UNCHANGED off
  /\ UNCHANGED <<vars, sbuf, unit, dbuf, served, sent, out, settled>>

----------------------------------------------------------------------------
(* proc_ecm and proc_emm.                                                  *)

New(k, last) == k.kind = "section" /\ k.val # last

\* Mutant of EcmAnswers: the key stays when the card fails.
EcmAnswersKeep(d, n) ==
  LET k == [keys[d] EXCEPT !.last = n]
  IN  IF n = Foreign THEN {[k |-> k, r |-> "broken"]}
      ELSE IF k.locked THEN {[k |-> k, r |-> "unpurchased"]}
      ELSE {[k |-> [k EXCEPT !.m2 = n], r |-> "ok"],
            [k |-> [k EXCEPT !.m2 = None, !.locked = TRUE], r |-> "unpurchased"],
            [k |-> k, r |-> "error"]}

\* proc_ecm: what an ECM section n makes of decryptor d, and how it returns.
EcmAnswers(d, n) ==
  LET k == [keys[d] EXCEPT !.last = n]
  IN  IF n = Foreign THEN {[k |-> k, r |-> "broken"]}
      ELSE IF k.locked THEN {[k |-> k, r |-> "unpurchased"]}
      ELSE {[k |-> [k EXCEPT !.m2 = n], r |-> "ok"],
            [k |-> [k EXCEPT !.m2 = None, !.locked = TRUE], r |-> "unpurchased"]}
           \cup (IF CardMayFail
                   THEN {[k |-> [k EXCEPT !.m2 = IF @ = None THEN None ELSE Cleared],
                          r |-> "error"]}
                   ELSE {})

\* unlock_all_decryptor
Unlocked == [d \in Dec |-> [keys[d] EXCEPT !.locked = FALSE]]

----------------------------------------------------------------------------
(* find_pat, find_pmt, find_ecm                                            *)

Searching == Here("loop") /\ stage \in {"pat", "pmt", "ecm"}

ProgramOf(p) == CHOOSE i \in 1..Len(program) : program[i].pid = p

\* What a search does not pass over: a new PAT section; for find_pmt a packet
\* of a PMT PID and for find_ecm one of an ECM PID that completes a new
\* section, or any packet when one has been served already.
Wanted(k) ==
  \/ k.pid = PatPid /\ New(k, pat)
  \/ /\ stage = "pmt" /\ Entry(k.pid).type = "PMT"
     /\ LET i == ProgramOf(k.pid) IN phase[i] # 0 \/ New(k, program[i].pmt)
  \/ /\ stage = "ecm" /\ Entry(k.pid).type = "ECM"
     /\ LET d == Entry(k.pid).target IN keys[d].phase # 0 \/ New(k, keys[d].last)

\* The loop is left behind the packet at hand.
Leave == off' = at /\ step' = "last" /\ at' = 0

\* Mutant of SearchEnd: the last packet, not yet looked at, is passed too.
SearchEndPast ==
  /\ Searching /\ at >= Len(sbuf)
  /\ off' = at /\ step' = "last" /\ at' = 0
  /\ UNCHANGED <<vars, sbuf, unit, dbuf, served, call, stage, slen, dlen, res, history>>

SearchEnd ==
  /\ Searching /\ at >= Len(sbuf)
  /\ off' = at - 1 /\ step' = "last" /\ at' = 0
  /\ UNCHANGED <<vars, sbuf, unit, dbuf, served, call, stage, slen, dlen, res, history>>

SearchSkip ==
  /\ Searching /\ at < Len(sbuf) /\ ~Wanted(Pk(sbuf[at]))
  /\ at' = at + 1
  /\ UNCHANGED <<vars, buffers, served, call, stage, step, slen, dlen, res, history>>

\* A new PAT.  find_pmt and find_ecm drop what is before it.
SearchPat ==
  /\ Searching /\ at < Len(sbuf)
  /\ LET k == Pk(sbuf[at])
     IN  /\ k.pid = PatPid /\ New(k, pat)
         /\ IF k.val = Foreign THEN PatForeign ELSE PatBegin(k.val)
  /\ IF stage = "pat"
       THEN off' = at /\ UNCHANGED <<sbuf, settled>>
       ELSE /\ off' = 1
            /\ sbuf' = From(sbuf, at)
            /\ settled' = settled \cup Ids(SubSeq(sbuf, 1, at - 1))
  /\ step' = "last" /\ at' = 0
  /\ UNCHANGED <<unit, dbuf, served, call, stage, slen, dlen, res, sent, base, out>>

SearchPmt ==
  /\ Searching /\ stage = "pmt" /\ at < Len(sbuf)
  /\ LET k == Pk(sbuf[at])
         i == ProgramOf(k.pid)
     IN  /\ Entry(k.pid).type = "PMT"
         /\ \/ /\ phase[i] # 0
               /\ phase' = [phase EXCEPT ![i] = 2]
               /\ Leave
               /\ UNCHANGED <<vars, keys>>
            \/ /\ phase[i] = 0 /\ New(k, program[i].pmt) /\ k.val = Foreign
               /\ PmtForeign(i)
               /\ at' = at + 1
               /\ UNCHANGED <<off, step, phase, keys>>
            \/ /\ phase[i] = 0 /\ New(k, program[i].pmt) /\ k.val # Foreign
               /\ PmtBegin(i, k.val)
               /\ KeysFollow
               /\ step' = "after"
               /\ UNCHANGED <<off, at, phase>>
  /\ UNCHANGED <<sbuf, unit, dbuf, emm, call, stage, slen, dlen, res, history>>

\* find_pmt, when proc_pmt has returned
SearchedPmt ==
  /\ Here("after") /\ stage = "pmt"
  /\ phase' = [phase EXCEPT ![ProgramOf(Pk(sbuf[at]).pid)] = 1]
  /\ IF PmtComplete(phase')
       THEN Leave
       ELSE step' = "loop" /\ at' = at + 1 /\ UNCHANGED off
  /\ UNCHANGED <<vars, sbuf, unit, dbuf, keys, emm, call, stage, slen, dlen, res, history>>

SearchEcm ==
  /\ Searching /\ stage = "ecm" /\ at < Len(sbuf)
  /\ LET k == Pk(sbuf[at])
         d == Entry(k.pid).target
     IN  /\ Entry(k.pid).type = "ECM"
         /\ \/ /\ keys[d].phase # 0
               /\ keys' = [keys EXCEPT ![d].phase = 2]
               /\ Leave
               /\ UNCHANGED <<call, stage, slen, dlen, res, base>>
            \/ /\ keys[d].phase = 0 /\ New(k, keys[d].last)
               /\ \E a \in EcmAnswers(d, k.val) :
                    \/ /\ a.r = "error"
                       /\ keys' = [keys EXCEPT ![d] = a.k]
                       /\ off' = at /\ Return("error")
                    \/ /\ a.r = "broken"
                       /\ keys' = [keys EXCEPT ![d] = a.k]
                       /\ at' = at + 1
                       /\ UNCHANGED <<off, call, stage, step, slen, dlen, res, base>>
                    \/ /\ a.r \in {"ok", "unpurchased"}
                       /\ keys' = [keys EXCEPT ![d] = [a.k EXCEPT !.phase = 1]]
                       /\ IF EcmComplete(keys')
                            THEN Leave
                            ELSE at' = at + 1 /\ UNCHANGED <<off, step>>
                       /\ UNCHANGED <<call, stage, slen, dlen, res, base>>
  /\ UNCHANGED <<vars, sbuf, unit, dbuf, phase, emm, sent, out, settled>>

----------------------------------------------------------------------------
(* proc_arib_std_b25, and the loop that flush adds for the packets it      *)
(* leaves over.                                                            *)

Working == Here("loop") /\ stage \in {"proc", "rest"}

More == IF stage = "proc" THEN at < Len(sbuf) ELSE at <= Len(sbuf)

\* Which parser a packet of PID p goes to
Parser(p) ==
  LET t == Entry(p).type
  IN  IF t \in {"ECM", "PMT"} THEN t
      ELSE IF t = "EMM" THEN (IF EmmOn THEN "EMM" ELSE "none")
      ELSE IF p = CatPid THEN "CAT" ELSE IF p = PatPid THEN "PAT" ELSE "none"

LastSection(p) ==
  CASE Parser(p) = "ECM" -> keys[Entry(p).target].last
    [] Parser(p) = "PMT" -> program[ProgramOf(p)].pmt
    [] Parser(p) = "EMM" -> emm.last
    [] Parser(p) = "CAT" -> cat
    [] Parser(p) = "PAT" -> pat

\* The decryptor of a scrambled packet: its stream's, or, for a PID no PMT
\* lists, the only one there is.
DecryptorOf(p) ==
  IF Entry(p).type = "OTHER" THEN Entry(p).target
  ELSE IF Entry(p).type = "UNKNOWN" /\ Cardinality(live) = 1
         THEN CHOOSE d \in live : TRUE
  ELSE None

KeyFor(x) ==
  LET d == DecryptorOf(Pk(x).pid)
  IN  IF Pk(x).kind = "scrambled" /\ x.by = None /\ d # None
        THEN keys[d].m2 ELSE None

\* The packet at hand, descrambled in place if there is a key for it
Opened ==
  LET x == sbuf[at]
  IN  IF Pk(x).kind = "scrambled" /\ KeyFor(x) # None
        THEN [x EXCEPT !.by = KeyFor(x)] ELSE x

\* A packet that is stripped, and those of them that the loop has passed
Null(x) == Pk(x).kind # "damaged" /\ Pk(x).pid = NullPid /\ Strip

Stripped == {sbuf[i].id : i \in {j \in 1..(at - 1) : Null(sbuf[j])}}

\* The packet at hand is put out, and stays descrambled in sbuf too.
Deliver ==
  /\ dbuf' = Append(dbuf, Opened)
  /\ sbuf' = [sbuf EXCEPT ![at] = Opened]

\* Mutant of Fail: put takes back sbuf only.
FailKeepsOutput(S, D, r) ==
  /\ sbuf' = SubSeq(S, 1, IF slen < Len(S) THEN slen ELSE Len(S))
  /\ dbuf' = D
  /\ settled' = settled \cup (Ids(S) \ Ids(sbuf'))
  /\ Return(r)

\* What is left of sbuf and dbuf when a packet fails, with the packets held in
\* S and D then.  put takes both tails back, to the lengths it found; the
\* first loop of flush returns as it is; the second one goes past the packet.
\* "torn": put may find that a search has dropped more than was added since,
\* and then takes the tail beyond its packets; after a failed first loop the
\* packets put out are still in sbuf.
Fail(S, D, r) ==
  \/ /\ call = "put"
     /\ sbuf' = SubSeq(S, 1, IF slen < Len(S) THEN slen ELSE Len(S))
     /\ dbuf' = SubSeq(D, 1, dlen)
     /\ settled' = settled \cup (Ids(S) \ Ids(sbuf'))
     /\ Return(IF slen > Len(S) THEN "torn" ELSE r)
  \/ /\ call = "flush" /\ stage = "proc"
     /\ sbuf' = S /\ dbuf' = D
     /\ Return("torn")
     /\ UNCHANGED settled
  \/ /\ call = "flush" /\ stage = "rest"
     /\ sbuf' = From(S, at + 1) /\ dbuf' = D
     /\ settled' = settled \cup ({S[at].id} \ Ids(D)) \cup Stripped
     /\ Return(r)

FailDelivered(r) == Fail([sbuf EXCEPT ![at] = Opened], Append(dbuf, Opened), r)

\* transport_error_indicator: put out as it is
ProcDamaged ==
  /\ Working /\ More /\ Pk(sbuf[at]).kind = "damaged"
  /\ dbuf' = Append(dbuf, sbuf[at])
  /\ at' = at + 1
  /\ UNCHANGED <<vars, sbuf, off, unit, served, call, stage, step, slen, dlen, res, history>>

\* Mutant of ProcStrip: the loop goes on without going to the next packet.
ProcStripStays ==
  /\ Working /\ More /\ Null(sbuf[at])
  /\ UNCHANGED dvars

ProcStrip ==
  /\ Working /\ More /\ Null(sbuf[at])
  /\ at' = at + 1
  /\ UNCHANGED <<vars, buffers, served, call, stage, step, slen, dlen, res, history>>

\* The packets that are neither.
Plain(x) == Pk(x).kind # "damaged" /\ ~Null(x)

\* DECRYPT_FAILURE
ProcNoKey ==
  /\ Working /\ More /\ Plain(sbuf[at]) /\ KeyFor(sbuf[at]) = Cleared
  /\ Fail(sbuf, dbuf, "no key")
  /\ UNCHANGED <<vars, off, unit, served, sent, out>>

Openable(x) == Plain(x) /\ KeyFor(x) # Cleared

\* A parser takes neither an empty payload nor, once it has seen a packet,
\* another PID (which only the EMM parser meets).
Refused(k) ==
  /\ Parser(k.pid) # "none"
  /\ \/ k.kind = "empty"
     \/ Parser(k.pid) = "EMM" /\ emm.pid \notin {None, k.pid}

ProcRefused ==
  /\ Working /\ More /\ Openable(sbuf[at]) /\ Refused(Pk(sbuf[at]))
  /\ FailDelivered("error")
  /\ UNCHANGED <<vars, off, unit, served, sent, out>>

Parsed(k) == Parser(k.pid) # "none" /\ ~Refused(k) /\ New(k, LastSection(k.pid))

\* No section comes of the packet.
ProcOther ==
  /\ Working /\ More /\ Openable(sbuf[at])
  /\ LET k == Pk(sbuf[at])
     IN  /\ ~Refused(k) /\ ~Parsed(k)
         /\ emm' = IF Parser(k.pid) = "EMM" THEN [emm EXCEPT !.pid = k.pid] ELSE emm
  /\ Deliver
  /\ at' = at + 1
  /\ UNCHANGED <<vars, off, unit, phase, keys, call, stage, step, slen, dlen, res, history>>

\* The packet at hand completes a section of parser role.
Section(role) ==
  /\ Working /\ More /\ Openable(sbuf[at])
  /\ Parser(Pk(sbuf[at]).pid) = role /\ Parsed(Pk(sbuf[at]))

ProcEcm ==
  /\ Section("ECM")
  /\ LET k == Pk(sbuf[at])
         d == Entry(k.pid).target
     IN  \E a \in EcmAnswers(d, k.val) :
           /\ keys' = [keys EXCEPT ![d] = a.k]
           /\ IF a.r = "error"
                THEN FailDelivered("error")
                ELSE /\ Deliver
                     /\ at' = at + 1
                     /\ UNCHANGED <<call, stage, step, slen, dlen, res, base, settled>>
  /\ UNCHANGED <<vars, off, unit, phase, emm, sent, out>>

ProcEmm ==
  /\ Section("EMM")
  /\ LET k == Pk(sbuf[at])
     IN  /\ emm' = [pid |-> k.pid, last |-> k.val]
         /\ \/ /\ keys' = IF k.val \in Own THEN Unlocked ELSE keys
               /\ Deliver
               /\ at' = at + 1
               /\ UNCHANGED <<call, stage, step, slen, dlen, res, base, settled>>
            \/ /\ k.val \in Own /\ CardMayFail
               /\ FailDelivered("error")
               /\ UNCHANGED keys
  /\ UNCHANGED <<vars, off, unit, phase, sent, out>>

ProcCat ==
  /\ Section("CAT")
  /\ LET c == Pk(sbuf[at]).val IN IF c = Foreign THEN CatForeign ELSE Cat(c)
  /\ KeysFollow
  /\ Deliver
  /\ at' = at + 1
  /\ UNCHANGED <<off, unit, phase, emm, call, stage, step, slen, dlen, res, history>>

ProcPmt ==
  /\ Section("PMT")
  /\ LET k == Pk(sbuf[at])
         i == ProgramOf(k.pid)
     IN  IF k.val = Foreign THEN PmtForeign(i) ELSE PmtBegin(i, k.val)
  /\ KeysFollow
  /\ Deliver
  /\ step' = "after"
  /\ UNCHANGED <<off, unit, phase, emm, call, stage, at, slen, dlen, res, history>>

ProcedPmt ==
  /\ Here("after") /\ stage \in {"proc", "rest"}
  /\ step' = "loop" /\ at' = at + 1
  /\ UNCHANGED <<vars, buffers, served, call, stage, slen, dlen, res, history>>

\* proc_arib_std_b25 ends behind a new PAT; flush goes on.
ProcPat ==
  /\ Section("PAT")
  /\ LET p == Pk(sbuf[at]).val IN IF p = Foreign THEN PatForeign ELSE PatBegin(p)
  /\ Deliver
  /\ at' = at + 1
  /\ step' = IF stage = "proc" THEN "last" ELSE "loop"
  /\ UNCHANGED <<off, unit, served, call, stage, slen, dlen, res, history>>

\* The end of the loops: the packets done leave sbuf.
ProcEnd ==
  /\ \/ Working /\ ~More
     \/ Here("last") /\ stage = "proc"
  /\ sbuf' = From(sbuf, at)
  /\ settled' = settled \cup Stripped
  /\ IF call = "flush" /\ stage = "proc"
       THEN /\ stage' = "rest" /\ step' = "loop" /\ at' = 1
            /\ UNCHANGED <<call, slen, dlen, res, base>>
       ELSE Return("ok")
  /\ UNCHANGED <<vars, off, unit, dbuf, served, sent, out>>

----------------------------------------------------------------------------
(* The steps of a PAT or PMT handler inside the call.                      *)

\* Mutant of Handler: the phases of the old programs stay.
HandlerKeepsPhase ==
  /\ \/ PatRelease \/ PatForget \/ DropStream \/ PatEnd
     \/ PmtLists \/ PmtStream \/ PmtBind
     \/ pc = "drop" /\ PmtEnd
  /\ KeysFollow
  /\ UNCHANGED <<phase, buffers, emm, place, res, history>>

Handler ==
  /\ \/ PatRelease \/ PatForget \/ DropStream \/ PatEnd
     \/ PmtLists \/ PmtStream \/ PmtBind
     \/ pc = "drop" /\ PmtEnd
  /\ KeysFollow
  /\ phase' = IF pc = "pat" /\ pc' = "idle" THEN [i \in 1..Len(program') |-> 0] ELSE phase
  /\ UNCHANGED <<buffers, emm, place, res, history>>

\* proc_pmt returns NO_ENOUGH_MEMORY.
HandlerFails ==
  /\ pc = "end" /\ PmtEnd
  /\ KeysFollow
  /\ IF stage = "pmt"
       THEN off' = at /\ Return("error") /\ UNCHANGED <<sbuf, dbuf, settled>>
       ELSE Fail(sbuf, dbuf, "error") /\ UNCHANGED off
  /\ UNCHANGED <<unit, phase, emm, sent, out>>

DecoderNext ==
  \/ Put \/ Flush \/ Get \/ Withdraw \/ ResetDecoder
  \/ Check \/ Searched
  \/ SearchEnd \/ SearchSkip \/ SearchPat \/ SearchPmt \/ SearchedPmt \/ SearchEcm
  \/ ProcDamaged \/ ProcStrip \/ ProcNoKey \/ ProcRefused \/ ProcOther
  \/ ProcEcm \/ ProcEmm \/ ProcCat \/ ProcPmt \/ ProcedPmt \/ ProcPat \/ ProcEnd
  \/ Handler \/ HandlerFails

DecoderSpec == DecoderInit /\ [][DecoderNext]_dvars

\* A called function runs on.
Inside == DecoderNext /\ call # "none"

FairDecoderSpec == DecoderSpec /\ WF_dvars(Inside)

----------------------------------------------------------------------------
(* Properties. *)

\* The state has the types its declarations give it.
DecoderTypeOK ==
  /\ \A buf \in {sbuf, dbuf} : \A i \in 1..Len(buf) :
       buf[i].id \in 1..Len(stream) /\ buf[i].pk \in DOMAIN Packets /\ buf[i].by \in Ecms \cup {None}
  /\ off \in Nat /\ unit \in BOOLEAN
  /\ pc # "pat" => phase \in [1..Len(program) -> 0..2]
  /\ keys \in [Dec -> [m2 : Ecms \cup {None, Cleared}, locked : BOOLEAN, phase : 0..2,
                       last : Ecms \cup {Unseen, Foreign}]]
  /\ emm.pid \in EmmPids \cup {None} /\ emm.last \in Emms \cup {Unseen, Foreign}
  /\ call \in {"none", "put", "flush"}
  /\ stage \in {"pat", "pmt", "ecm", "proc", "rest"}
  /\ step \in {"check", "loop", "after", "last"}
  /\ res \in {"ok", "warn", "error", "no key", "torn"}

Between == call = "none" /\ res # "torn"

\* Packets come out in the order they were put in, and none comes twice,
\* whatever searches, PAT updates and failed calls there were: what a failed
\* put processed before its error does not stay in dbuf.
PutOutOnce ==
  Between =>
    LET s == dbuf \o sbuf
    IN  /\ \A i \in 1..Len(s) : s[i].id > out
        /\ \A i, j \in 1..Len(s) : i < j => s[i].id < s[j].id

\* A packet is in one of the buffers until it leaves the decoder for a reason:
\* given out, stripped, withdrawn, refused with its put, or dropped by a search
\* that met a new PAT behind it.
NothingLost ==
  Between =>
    /\ 1..(next - 1) = settled \cup Ids(dbuf) \cup Ids(sbuf)
    /\ settled \cap (Ids(dbuf) \cup Ids(sbuf)) = {}

\* Every packet is accounted for, and comes out at most once.
Accounted == PutOutOnce /\ NothingLost

\* A decryptor never goes on with the key of an older ECM: what an ECM that is
\* refused, or on which the card fails, leaves is no key, in find_ecm as in
\* proc_arib_std_b25, over PMT changes, EMMs and failed calls.
KeysCurrent ==
  \A d \in live :
    /\ keys[d].m2 \in Ecms => keys[d].last \in {keys[d].m2, Foreign}
    /\ keys[d].locked => keys[d].m2 = None

\* For its client the decoder is the queue of PacketService: a call adds, moves
\* and drops packets in no other way, however it ends.
Service ==
  INSTANCE PacketService WITH
    in   <- IF call = "none" THEN Numbers(sbuf) ELSE base.in,
    done <- IF call = "none" THEN Numbers(dbuf) ELSE base.done,
    next <- IF call = "put" THEN base.next ELSE next,
    torn <- res = "torn"

ServiceSpec == Service!Spec

\* Every call comes to its end.
CallReturns == call # "none" ~> call = "none"

\* A section that the search under way waits for, and its parser has not
\* delivered last
Awaited(k) ==
  IF program = <<>> THEN k.pid = PatPid /\ New(k, pat)
  ELSE IF ~PmtComplete(phase)
    THEN \E i \in 1..Len(program) :
           phase[i] = 0 /\ k.pid = program[i].pid /\ New(k, program[i].pmt)
  ELSE /\ ~EcmComplete(keys) /\ Entry(k.pid).type = "ECM"
       /\ LET d == Entry(k.pid).target IN keys[d].phase = 0 /\ New(k, keys[d].last)

\* Of the first n packets no later one has a section of packet i's PID.
LatestOf(i, n) ==
  \A j \in (i + 1)..n : Pk(sbuf[j]).pid = Pk(sbuf[i]).pid => Pk(sbuf[j]).kind # "section"

\* The parsers have what the first n packets hold.
Covered(n) ==
  n <= Len(sbuf) /\ \A i \in 1..n : LatestOf(i, n) => ~Awaited(Pk(sbuf[i]))

\* A search never goes past a section it waits for: sbuf_offset has before it
\* what the parsers have seen and nothing else (README.md:343, 346 and 349: the
\* input is kept until the PAT, the PMTs and the ECMs are found).
SearchCovers == Between => Covered(off)

\* README.md:356-357: when a CAT is found its EMM PID is made ready, and an EMM
\* that arrives on it is processed.  So the PID the latest CAT names stays
\* mapped as EMM.
EmmPidMapped == Between /\ cat \in EmmPids => map[cat].type = "EMM"
=============================================================================
