# Verification of libaribb25

TLA+ models of the ARIB STD-B25 / STD-B1 descrambler in `src/aribb25`, the TLC
runs that check them and the theorems TLAPS proves about them. `PROJECT.json`
lists the components, the runs, the source lines behind every definition, the
hazards and the mutants (for each checked property a plausible bug that breaks
it, defined next to the operator it replaces). All names below are those of the
source.

## 1. Inventory

A broadcast transport stream is a sequence of 188-byte packets, each with a PID.
The decoder buffers what its client puts, learns from the PAT, the PMTs and the
ECMs which packets are scrambled with which key, asks the smart card for the
keys, and hands out the same packets descrambled.

```
 td.c / libaribb25.cpp                      (client)
        | put / get / flush / withdraw
 arib_std_b25.c   sbuf -> [find_pat -> find_pmt -> find_ecm ->] proc_arib_std_b25 -> dbuf
        |  one parser per PID of interest        |  one decryptor per ECM PID
 ts_section_parser.c                       multi2.c / multi2.cc
        |  sections                              ^  keys
 proc_pat proc_pmt proc_cat proc_ecm proc_emm ---+--- b_cas_card.c --- PC/SC, card
```

Everything runs in the client's thread; there are no locks, no callbacks and no
timers (the mutex of `libaribb25.cpp` guards `Release` and `Initialize` only).
Difficult are the order of the input (any packet may be lost, repeated or
damaged, any table may change at any time), the reference counts of structures
that several tables share, the errors half way through a handler, and calls that
come after an error.

| Component | State | Operations | What makes it correct |
|---|---|---|---|
| Section parser, `ts_section_parser.c` | `pid`, `work`, `last`, lists `pool` and `buff`, `ref` of every element, `stat` | `put` (two paths, a loop), `get`, `ret`, `reset` | a section in use is never recycled; only intact sections are queued; the client sees a queue without repeats; `put` ends |
| Programs, PID map, decryptors, `arib_std_b25.c` | `map[0x2000]`, `program[]` with `streams` and `old_strm`, list `decrypt` | `proc_pat`, `proc_pmt`, `proc_cat`, `reset` | exact counts; no freed decryptor reachable, none leaked; each stream bound as its PMT declares |
| Decoder pipeline, `arib_std_b25.c` | `sbuf`, `dbuf`, `sbuf_offset`, `unit_size`, `phase` of programs and decryptors, `locked`, `m2` | `put`, `get`, `flush`, `withdraw`, `reset`, `proc_ecm`, `proc_emm` | packets come out once, in order, at most descrambled; start-up ends or fails; a failed `put` leaves a usable decoder |
| Work buffers, `arib_std_b25.c` | `pool`, `head`, `tail`, `max` | `reserve`, `append`, `reset`, compaction | a byte queue that stays bounded |
| Framing, `arib_std_b25.c` | `unit_size` | `select_unit_size`, `resync`, `resync_force` | the right unit size; the same packets however the input is cut |
| Card session, `b_cas_card.c` | `mng`, `card`, `acas`, buffers, `stat`, `id`, `pwc` | `init`, `get_init_status`, `get_id`, `get_pwr_on_ctrl`, `proc_ecm`, `proc_emm` | bounded retries; commands of the mode the card was opened in; returned tables stay valid |
| MULTI2, `multi2.c`, `multi2.cc` | system key, initial CBC, round, scramble keys, work keys, reference count | setters, `clear_scramble_key`, `encrypt`, `decrypt` | the work keys belong to the keys set last; `decrypt` undoes `encrypt` |
| `CB25Decoder`, `libaribb25.cpp` | the decoder, the card, a mutex, the data handed out last, the time of the last error | `Initialize`, `Decode`, `Flush`, `Reset`, `Release` | no processed packet handed out twice, none withheld; the card is tried again, but not at once |
| Command line tool, `td.c` | file position | `test_arib_std_b25` | every put is followed by a get |

How they interact. The decoder calls `put` of the parser of a packet's PID; when
`get_count` says a section is there it runs the handler of that PID, which calls
`get`, works, and calls `ret`: one section per packet. The handlers of PAT and
PMT create and release parsers and decryptors. `proc_ecm` gives the ECM to the
card and the key to the decryptor's MULTI2; `proc_emm` gives an EMM to the card
and unlocks all decryptors. Because a parser drops a section that equals the
last one it queued, whatever a handler forgets stays forgotten until the
broadcaster changes the table.

The hazards are in `PROJECT.json`, each at its line, with the properties that
cover it or the reason why none does yet.

## 2. Plan

Most important first; a module marked * exists.

| Module | Models | Composes | Properties and theorems |
|---|---|---|---|
| SectionFeed * | what a parser promises | - | abstract specification |
| SectionParser * | `ts_section_parser.c` | SectionFeed (refinement) | ownership, integrity, termination |
| SectionParserProofs * | - | SectionParser | types, ownership, no recycling, intact sections, stable reading, refinement of SectionFeed |
| ProgramMap * | `proc_pat`, `proc_pmt`, `proc_cat` | the promise of SectionFeed, per parser | counts, no dangling decryptor, binding |
| ProgramMapProofs * | - | ProgramMap | all of its properties, for every set of tables: types, counts, nothing dangles, nothing is leaked, binding |
| PacketService * | what a decoder promises | - | abstract specification: a queue of packets |
| Decoder * | `put`, `find_*`, `proc_arib_std_b25`, `proc_ecm`, `proc_emm`, `flush`, `get`, `withdraw`, `reset` | ProgramMap (extended: its handlers run inside the calls), the promise of SectionFeed per parser, PacketService (refinement) | order and loss of packets, start-up, rollback, lock and unlock, EMM PID |
| DecoderProofs * | - | Decoder, ProgramMapProofs | the calls run the handlers of ProgramMap and nothing else; types, counts, keys, order and loss of packets, what the searches pass, refinement of PacketService |
| Packetizer * | `TS_WORK_BUFFER`, `select_unit_size`, `resync`, `resync_force`, the packet loops by byte | - | unit size, order, independence of the cuts, bounded pool |
| PacketizerProofs * | - | Packetizer | all of its properties, for every stream and every way to cut it |
| CardSession * | what a card session promises | - | abstract specification |
| BCasCard * | `b_cas_card.c` | external PC/SC; CardSession (refinement) | handles, keys, order of the search, answers, termination |
| BCasCardProofs * | - | BCasCard | types, handles, keys, order of the search, refinement of CardSession |
| Multi2 * | key state of `multi2.c` and `multi2.cc` | the calls of `proc_ecm` and `decrypt` | both implementations use the keys set last |
| Multi2Proofs * | - | Multi2 | types, tables allocated, both implementations use the keys set last |
| CipherModes * | CBC and OFB in place, the kernels' block counts | Multi2Round (in the run) | modes, round trip, nothing written behind the payload |
| CipherModesProofs * | - | CipherModes, Multi2Round | all properties of CipherModes, for every cipher; MULTI2 is such a cipher, in both implementations |
| Multi2Round * | round function and key schedule on words of W bits | - | `decrypt` undoes `encrypt`, both implementations are the same function (CipherModesProofs) |
| CB25Decoder * | `libaribb25.cpp` | what PacketService says of the decoder | no processed packet twice, none withheld, retries |
| CB25DecoderProofs * | - | CB25Decoder | types, card objects, pointers handed out, none withheld, none processed twice, retries |
| SectionStream | a table carousel over a lossy link | SectionParser | after the last loss the table on air is delivered |

Left of the plan: SectionStream.

The modules meant for proofs use recursive functions only, take their parameters
as CONSTANTS with named assumptions and have one action per operation or loop
turn, so that an inductive step is one case of Next.

## 3. The models

### SectionParser

One parser. `elem` is the memory of the section elements, `work` and `last` the
two bare pointers, `pool` and `buff` the two lists; `held` is the element whose
bytes the client reads between `get` and `ret` (a client holds one section at a
time: every handler of `arib_std_b25.c` pairs the calls). A section is a sequence
of small bytes with a header of the code's shape: a syntax indicator, a length,
and a long or short header. CRC-32 is the set `Genuine` of byte strings whose CRC
is right. The heap is the set `Elem`, so `query_work_elem` can fail.

`put` is split at its loop: PutContinuation and PutStart enter it, Exclude is
`put_exclude_section_start`, DropLeftover the abandoned section, and each turn of
the `do` loop is LoopIncomplete, LoopComplete or LoopNoMemory. `pc` orders them
and nothing else is enabled meanwhile, as in the code.

SectionFeed is the client's view: a queue in which no section follows its own
repeat, and at most one section in the client's hands. `Feed` in SectionParser is
the refinement mapping.

### ProgramMap

The handlers of PAT, PMT and CAT on abstract tables: a PAT is the list of its PMT
PIDs, a PMT its CA PID and the list of its streams with theirs, a CAT the EMM
PID. Every section differs from the one its parser delivered before, which is
what SectionFeed guarantees; the fields `pat`, `cat` and `pmt` remember it.
`map`, `live` and `dec` are the PID map, the list `decrypt` and its elements. The
helpers (`remove_decryptor`, `unref_stream`, `set_decryptor`,
`bind_stream_decryptor`, ...) are operators from tables to tables, the loops of
`proc_pmt` and `proc_pat` are steps. `mine` is a history variable: the entries of a
program's PMT that are the last ones read of their streams.

Assumed (RolesAssumption, TablesAssumption): a PID keeps its role, and no two
programs of a PAT share a PMT PID. The code does not check either; what it does
with tables that break them is listed as a hazard and not modelled.

Sections of other tables and broken ones are `Foreign`. ProgramMap by itself
lets the handlers follow each other in any order; Decoder says when they run.

### Decoder

Decoder EXTENDS ProgramMap and adds what is around the handlers: the buffers,
the calls of the client, the stages of `put`, the phases, the keys, the EMM
parser and the card.

The stream is one of the constant Streams (for each place the packets that may be
there); `Put` takes one to MaxPut of the next ones,
in the middle of any state between two calls. A packet is a PID and what it
holds: one whole section, a part of a section or of media, nothing, scrambled
media, or it is marked damaged. The parser of a PID is represented by the last
section it delivered: SectionParser and its refinement of SectionFeed justify
that a packet gives a section only when that section is new.

| Code | Model |
|---|---|
| `sbuf`, `dbuf`, `sbuf_offset` | `sbuf`, `dbuf`, `off`, counted in packets |
| `unit_size` | `unit`: known or not; `UnitPackets` packets are enough to tell |
| `program[].phase`, `dec->phase`, `dec->locked`, `dec->m2` | `phase`, `keys`; a key is named by its ECM, `Cleared` is an instance whose scramble key was cleared |
| `prv->emm` | `emm`: the PID it is bound to and the last section |
| program counter of a call | `call`, `stage`, `step`, `at`, and `pc` of ProgramMap while a handler runs |
| saved lengths `slen`, `dlen` | the same |
| return value | `res` |

One turn of a packet loop is one step, unless a PAT or PMT handler runs in it:
then its steps come in between (`Handler`, `HandlerFails`), and the turn ends
with SearchedPmt or ProcedPmt. `next`, `base`, `out` and `settled` are history
variables that number the packets and remember which have left. They also give
the refinement of PacketService: a call takes many steps in Decoder and one in
PacketService, so `Service` shows, while a call runs, the buffers as they were
when it began. PacketService lets what is processed come out in its order, some of
it stripped (`Comes`).

SearchCovers reads `sbuf_offset` from the parsers: what is in front of it is what
they have seen, so that for every PID the latest section there is none that the
search still waits for (Awaited, LatestOf, Covered).

The card is external. It grants an ECM, refuses it or fails (if CardMayFail), and
takes an EMM or fails.

`res = "torn"` ends what the model says of a decoder: after a rollback that puts
`tail` behind the data, and after a `flush` whose first loop failed, the code
goes on with bytes that are no packets, or with packets put out twice. Only
`reset` is modelled from there.

### Packetizer

The same two loops once more, down to bytes and without what a packet does: the
pool with `head` and `tail`, growing in `append_work_buffer`, `select_unit_size`,
the test for a boundary, `resync` and `resync_force`, and the compaction behind
LAST. `mem` holds positions of `input`, so that a byte copied to the wrong place
shows. A byte is Sync or not; the second byte of a packet may say that it is a
PAT, which ends the loop of `proc_arib_std_b25`, or that its adaptation field is
too long, after which the loop goes on one byte further. Sizes are constants in
the proportions of the code (`Small` is larger than a unit, `UnitEnd` at most two
packets). Any chunk may be put at any time; Admits is the bound of the run, of what
comes and in which order, and the theorems hold for each. AtOnce is the reference:
what comes out when all the input is put at once.

### BCasCard and CardSession

`b_cas_card.c` with PC/SC and the cards around it. `slot` and `conn` are the
readers and the handles: a handle remembers the card and the mode it was opened
in, and dies when the card is pulled. init is Start, then SkipReader, Connect,
SettingsSent and ReadersDone, which is its loop over readers and modes; a command
is Call, then Retry, IdSent or PageSent. Outcomes is what SCardTransmit may do:
fail and leave the receive buffer as it was, or bring a short, a refused or a full
answer of the card behind the handle to the command in the send buffer. `b1`
tells which of the two libraries it is (ENABLE_ARIB_STD_B1).

CardSession is the client's view: a session with one card in one mode, and
commands that fail or return what that card replied to the command called. It
records that command in `asked` from Call to Reply; in BCasCard it is the one in
the send buffer. The receive buffer keeps the last answer, so an implementation
that believed a failed call would return the answer to an earlier command.

`pool = "stray"` is the state after change_id_max or change_pwc_max: the tables
are laid out in the block that is then given back. Nothing is said after it.

### Multi2

The keys of both implementations, driven by the calls `proc_ecm` and `decrypt`
make. A work key is named by the system key and the half of the scramble key it
was made from. multi2.c makes work keys, and the tables of its kernels, when a
scramble key is set; multi2.cc when it needs them, and keeps those whose half has
not changed. `want` remembers what each instance was given. `instruction` is the
global instruction type; an instance keeps the kernel it was made with while its
tables are laid out for the type in use when a key is set.

### CipherModes and Multi2Round

CipherModes encrypts a payload in place, block by block, and decrypts it again in
groups of any of the Widths. `beyond` is the block behind the payload, which the
SSE2 and SSSE3 kernels save, decrypt with the others and put back. The block
cipher, XOR and the values are constants with assumptions. Multi2Round is the
block cipher on words of W bits, with the rotations and the schedule of the
source, both in the form of multi2.c (the names that begin with Core, as in the
code) and in that of multi2_cipher.h. The two differ in their third pi function
alone, where multi2_block.h saves a rotation. XOR and OR of words are constants,
so that the module can be proved about; the run takes the bitwise ones, encrypts
with the form of multi2_cipher.h and decrypts with that of multi2.c.

### CB25Decoder

The object of `libaribb25.cpp` on top of a decoder of which only PacketService is
known: put takes packets and then processes some, or fails and is taken back. Each
branch of Decode is a disjunct: DecodeGets, DecodeNoPat, DecodeHeadError,
DecodeError, and DecodeWithout while there is no decoder. `dst` is where the
packets handed out are (the client's input, the decoder's buffer, a copy) and
which they are; `since` is the clock's ticks since `_errtime`, bounded one past
RETRY_INTERVAL. `settled` and `processed` are history variables, and so are
`waited` (ticks since a card was last not opened, or given up), `lacked` (ticks
since a card object was last not to be had) and `tries`, which changes with each
attempt of Decode.

## 4. Runs

| Run | Instance | Shows |
|---|---|---|
| section_parser | 3 elements, 2 PIDs, 9 payloads, 4 sections; fairness | TypeOK, Ownership, QueuedIntact, HeldStable, PutReturns, and the refinement of SectionFeed (FeedSpec) |
| program_map | 3 decryptors, 2 programs, 2 ECM PIDs, 2 streams, 4 PMTs (one lists a stream twice), 2 PATs, 1 EMM PID | TypeOK, RefsExact, NoDangling, NoIdleDecryptor, DeclaredBinding |
| decoder | 1 decryptor; three streams: start-up (4 packets, any of 6 kinds each), ECMs, EMMs and scrambled packets, a second ECM PID without memory for it | Accounted (no packet is lost, repeated or reordered), KeysCurrent, RefsExact of ProgramMap when `set_decryptor` fails before or inside the stream loop, and the refinement of PacketService (ServiceSpec) |
| decoder_tables | 2 decryptors; 7 packets of 2 programs, 2 ECM PIDs, EMM, CAT, foreign sections; fairness | DecoderTypeOK, SearchCovers, CallReturns |
| emm_after_pat | one given stream, cut into puts in every way | violation (EmmPidMapped), see findings |
| packetizer | packets of 2 bytes in units of 2 and 3; four starts of a stream, then any of 4 chunks up to 20 bytes, or PATs up to 36 bytes | BufferIsTail, InOrder, CutsDoNotMatter, PoolBounded, UnitRight |
| bcas_card | 2 readers, a B-CAS and an ACAS card, 2 handles, tables of 2 entries, 2 cards pulled or inserted, both builds; fairness | HandlesExact, KeysOfCard, FirstThatAnswers, CommandsReturn, and the refinement of CardSession (SessionSpec) |
| card_mode | the same, by a client that never calls `set_acas_mode` | violation (ModeMatches), see findings |
| multi2_keys | 2 decryptors, processors with SSE2 and AVX2, kernels on and off, 2 halves of keys, 3 and 4 rounds | LazyKeysRight, EagerKeysRight |
| cipher_modes | words of 3 bits, 2 keys, 4 values of a block, 3 blocks and a rest or none, 4 rounds, widths 1 to 3 | IsCbcOfb, RoundTrip, NeighbourKept |
| cb25_decoder | 5 packets, up to 2 a call, one of them stripped, 1 card object, interval of 1 tick; fairness | TypeOK, CardWithDecoder, HandedValid, NothingWithheld, ProcessedOnce, RetrySpaced, Recovers |
| retry_at_once | the same, by a client that leaves Initialize to Decode | violation (EveryFailureDelays), see findings |

What some of them do not say. FirstThatAnswers is about the reader a search ends
with, and about a search that ends without a card: then every reader has failed in
every mode it may try; init may also fail before it searches. BufferIsTail holds
until a flush leaves `tail` in front of `pool` (`over`, section 6). RetrySpaced
speaks of every attempt of Decode, with success or not, and measures from a card
that was not opened or was given up; an attempt that could not make a card object
does not delay the next, which is the run retry_at_once. Recovers promises that a
card is tried again and again, not that one opens. NothingWithheld counts as
settled what the decoder or the wrapper throws away with a buffer: it shows that
nothing stays behind elsewhere, in the copy above all. SearchCovers excludes
withdraw and flush, ProcessedOnce a flush that failed, EagerKeysRight a change of
the instruction type or of the rounds; ServiceSpec has the torn outcome.

Why the bounds suffice. In SectionParser an element is referenced by at most two
of `work`, `last`, `held` and `buff`. With three elements `work`, `last` and `held`
can all be different, the queue can hold three, and with the fourth section the heap
runs out in the middle of a payload; larger heaps are left to the theorems, which
hold for each. MaxTotal bounds the sections counted between two
resets; the parser has no other memory of the past. The payloads put each
boundary (inside a header, behind it, at the end, stuffing, a wrong pointer) once
and the model puts them in every order, which covers loss, repetition and
reordering. No symmetry is used, since PutReturns is a liveness property.

In ProgramMap two programs are what sharing needs and two generations of streams
plus the new list are visible in three PMT changes; the instance is not bounded
in the number of changes. Three decryptors suffice for two ECM PIDs and one
decryptor whose ECM PID is no longer named, so program_map never runs out of
them; the run decoder does.

In Decoder a put holds up to two packets, so that a handler and what follows it
may be in the same put or in two, and the last packet of each put stays behind
for the next. The limits of 16 MB and 32 MB are 3 and 4 packets: the streams are
longer, so that both are reached. Two units tell the unit size; the first put
may hold fewer. The first stream of the run decoder has
every kind of packet in every place; the others begin with the tables and are
free after them. withdraw and flush are off in decoder_tables: both
shift the packets but not `sbuf_offset`, so SearchCovers fails with either
(section 6).

In Packetizer a stream starts in the middle of a packet or at one, with one stray
byte in front or none; what follows may cut a packet, miss bytes, add bytes, or
show a boundary one byte further on. Three units are enough for `resync` to
believe in a boundary, and 20 bytes leave room to lose it, to regain it and to
lose it again. The stream of PATs is there for PoolBounded: only a PAT leaves a
rest of more than a unit, and it takes a dozen puts until a pool that is never
compacted outgrows its bound.

In BCasCard two readers have each card in front of the other, and one event is
enough to pull a card inside any command and a second one to put it, or the other
one, into a reader again. Each card has more entries than there is room for in one
of its two tables.

In Multi2 the decryptors only share the settings and the instruction type, and two
halves tell a key kept from a key renewed; system keys never change under an
instance. In CipherModes three blocks take every width first,
in the middle and last; 4 rounds are the default of the code, and three bits are
the least for which the rotations differ.

In CB25Decoder five packets fill and empty the decoder more than once and Release
starts anew; one tick is an interval with a time before and after it.

Fairness. FairSpec of SectionParser and FairDecoderSpec assume weak fairness of
the steps inside a call, since a called function runs on; so does FairSpec of
BCasCard. Nothing is assumed of the client, of the stream or of the card. FairSpec
of CB25Decoder assumes that time passes and, for Recovers, that the client calls
Decode again and again and that the card object can then be made; it does not
assume that a card opens. The violations are of safety properties.

CHECK_DEADLOCK is on but for cipher_modes, whose computation comes to an end: a
parser, a decoder, a card or the library between two calls can always be called.

## 5. Proofs

All theorems hold for every value of the constants that the named assumptions
allow; the runs check the same properties on one instance each. Every module
follows one scheme: an inductive invariant, one lemma per action that keeps it,
and a theorem per property that follows from it.

SectionParserProofs (ParserAssumption: bytes are numbers, the header lengths are
ordered, a section of the largest length fits into MAX_RAW_SECTION_SIZE) proves
TypeCorrect, ExactOwnership (`Spec => []Ownership`), InUseNeverRecycled,
ReadingStable, ClientSeesIntact, and FeedsClient, the refinement of SectionFeed.
IInv is MemoryInv with the types of the control variables. MemoryInv couples the
four places an element can be in with its count, and states that `work` has none.
The counts alone are not inductive: that Commit may set the count to two needs
that the element came out of `query_work_elem`, hence is neither `last`, nor
queued, nor held; that in turn is exactness (count zero) together with `last` and
`held` being in place. Settle, Cancel and Commit are used by three actions, so
their effect on MemoryInv is a lemma each. ClientInv adds what is known of the
bytes of the elements that are in use.

ProgramMapProofs (RolesAssumption, TablesAssumption; the elementary streams are
finitely many, since a count is proved equal to a cardinality) proves
TypeCorrect, CountsExact (`Spec => []RefsExact`), NothingDangles, NoneIdle and
BoundAsDeclared,
for any number of programs, streams per PMT and decryptors. IInv is Control, Fit,
Busy and MapRefExact. Fit says that every entry of the map leads to a decryptor on
the list and that each decryptor's count is its bound streams plus the reference
`proc_pmt` holds; it is stated for a table, not for the state, and with one
entry q excepted, because between ReleaseDecryptor and the write that follows the
entry at hand is stale and its decryptor may be gone. SetAsideFits, ReleaseFits
and ReplaceFits are those three moments, and `unref_stream` and
`bind_stream_decryptor` are put together from them. Busy (a decryptor without a
reference is the one `set_decryptor` just made for the stream at hand) is what
makes NoneIdle inductive. The number of entries is the cardinality of a set of
positions, so the lemmas about lists (OccurrencesConcat, ListedChange,
ListedTail) count by bijections and need no induction.

BoundAsDeclared (`Spec => []DeclaredBinding`) rests on IInv and a second invariant,
Bindings. It says of every state but those of `proc_pat` what DeclaredBinding
says between sections, and that the program's list still names both the stream and
its ECM PID (Right). That is why the list matters for decryption: an entry of the
map that a list names is in use, so `unref_stream` of the previous PMT's streams
does not clear it (NamedMapped), and a decryptor that a stream is bound to is not
freed, so neither is its ECM PID's entry (RightKept). While `proc_pmt` runs, dec[0]
and dec[1] must be the decryptors of the PIDs the PMT names (ProgramEcm,
StreamEcm). UnrefLeads, ReleaseLeads, BindLeads and AddLeads say for each helper
which entries still lead where they did. An ECM PID's entry may well be lost
while a decryptor still lists that PID: the stream of another program keeps it
alive (the hazard at bind_stream_decryptor); the invariant therefore speaks of the
entries read last only.

BCasCardProofs proves TypeCorrect, HandlesKept, KeysRight, FirstTaken and
ServesSession, the refinement of CardSession. IInv is TypeOK, HandleInv, StatInv,
CommandInv and TriedInv: a handle that is open is the session's or the one init
is trying; the status is the one of the card behind that handle; the answer in
the buffer is this command's once the command says so; and the readers that were
passed over did not answer. SearchFails adds that a search comes to its end
without a card only when every named reader was tried in every mode init may try,
which is the other half of FirstTaken. For ServesSession, AskedOK says that the
command `asked` stands for is one of the session's commands; while it runs the send
buffer does not change, so that an answer to it can only be an answer to the
command called.

Multi2Proofs (Multi2Assumption) proves TypeCorrect, SimdHasTables, LazyRight and
EagerRight. The invariants Lazy and Eager say of one instance which keys its work
keys were made from; Settings, Maps and Instances are the types and the global
settings they rest on.

CipherModesProofs (BlockAssumption, XorAssumption, CipherAssumption: XOR and the
block cipher undo themselves) proves TypeCorrect, CbcOfb, RoundTripHolds and
NeighbourSafe for every block cipher, number of blocks and set of widths, with the
invariants Encrypting, Decrypting, RestBehind and NeighbourInv. That MULTI2 is
such a cipher is proved beside it, from BitsAssumption alone (XOR of two words is
a word, as is OR, and XOR undoes itself), for words of any number of bits, any
number of rounds and any keys. DecryptUndoesEncrypt goes by the pi functions, each of
which undoes itself, and then by the turns of the loop. SameCipher says that
schedule, encrypt and decrypt of multi2.c and of multi2_cipher.h are the same
functions. It rests on SameRotation: rotating by one and subtracting the word is
adding its top bit to it, modulo the size of a word.

DecoderProofs (DecoderAssumption on top of those of ProgramMap: what the sections
of a table's PID can be) proves RunsHandlers (`DecoderSpec => Spec`), and from it
CallsCount (`DecoderSpec => []RefsExact`) with nothing but CountsExact of
ProgramMapProofs: a step of a call is a step of ProgramMap or leaves its variables
alone. That needs the invariant DInv. A packet of a PID of type PMT makes
`proc_pmt` run for the program of that PID, so there has to be one (RolesMapped); the
lemmas whose names end in KeepsRoles say that no helper of the tables makes an
entry a PMT's, so only `proc_pat` has to be looked at. BuffersFit gives the packet at
hand, KeysFit the types of the keys and, with Current, KeysKept (`DecoderSpec =>
[]KeysCurrent`).

It also proves PacketsAccounted (`DecoderSpec => []Accounted`). Accounted
is about the time between calls; inside a call a packet is in both buffers once
the loop has put it out. QueueInv therefore says three things. Line: of the
packets the loop has passed, those in `dbuf` are exactly those that are not
stripped, and all the others come after `dbuf`. Account: the numbers handed to
put are those in the buffers and those settled, never both. Undo, in put only:
what is behind the length `dbuf` had at the start is still in `sbuf`, so that
taking both buffers back to their lengths loses nothing. LinePutOut, TakenBack,
LineRest and LineMore are the four ways the buffers change (a packet put out, the
rollback, the compaction, new packets); they are about two sequences and know
nothing of the tables. CallPlace says where in a call a handler can fail.
DecoderTyped (`DecoderSpec => []DecoderTypeOK`) needs TypesInv beside these: the
packets at hand are the stream's, and lengths saved lie within the buffers.

ServesQueue is the refinement of PacketService (`DecoderSpec => ServiceSpec`). A
call is many steps of Decoder and one of the queue, taken when it returns; every
other step leaves the four variables of the queue as the client knew them when the
call began. ServeInv therefore relates the running call to that moment: what a
search has left of the packets (LeftOf), what the loop has drained of them, and
that what came out in the meantime is a part of it in order (Drained, KeptDone).
At a return this is what Works, Refuses or Flush of PacketService ask for. Which
step may return, and with what, comes from CallPlace and QueueInv.

SearchesCover (`DecoderSpec => []SearchCovers`) has two hypotheses, ~MayFlush and
~MayWithdraw: both calls shift packets and leave `sbuf_offset`, and TLC finds
SearchCovers violated with either (section 6). CoverInv is the invariant. Between
the turns of a search it says of the packets passed what SearchCovers says between
calls (Covers); within a turn, of all but the one at hand (AtCheck). Two steps are
not local. When a parser takes a section (CoversTaken) the sections of all other
PIDs must stay as awaited as they were, and earlier ones of the same PID are
covered by being no longer the latest. When a new PAT replaces the programs
(CutCovers) everything may be awaited again, and the code is right because it cuts
the buffer at that PAT and starts the next search there.

PacketizerProofs (PacketizerAssumption: the proportions of the code's sizes)
proves BufferHoldsTail, BytesInOrder, PoolStaysSmall, UnitFound and CutsAreEqual,
for every stream of bytes and every way to put it (BufferHoldsTail as long as `over`
is 0). PInv is BufferInv (the pool
holds the end of the input), LoopInv, OutInv (all that came out is in front of the
byte at hand) and SizeInv (at most half of the pool is in front of `head`, which is
why its size stays within four times of what it held). The doubling of
`reserve_work_buffer` is shown to end. For UnitFound two bounds meet: at the right
distance every unit but the last is counted (StartsCounted), at another one of two
bytes counted is no start of a packet, so that each of those is counted at most
twice (OthersCounted). Here UnitEnd <= 2 * Packet is needed, since twice the unit
would be as good. CutsAreEqual compares with AtOnce of the same input, but what is
decided at a byte can depend on bytes that come later. CutInv is therefore about
every continuation e of the input: AtOnce of both together is what has come out,
followed by AtOnce from the place of the byte at hand. A loop of put decides only
what no continuation changes; that it stops where one could is the reason why it
wants a byte more than a unit.

AtOnce, the doubling, Kept of CB25Decoder and the powers and turns of Multi2Round
are recursive functions. Their equations are proved, by induction in the form the prover takes: a set of numbers
that is not empty has a least element (LeastNat, from WFMin and the order of finite
sets); Downward, Upward and Recursion are its consequences.

CB25DecoderProofs (WrapperAssumption) proves TypeCorrect, CardOwned, HandedStays,
RetriesSpaced, HandedOnce and NoneWithheld. ObjectsInv ties the card to the decoder that holds it; ClockInv,
that `_errtime` was set no earlier than a card was last not opened or given up, makes
RetriesSpaced inductive, since other errors set `_errtime` too. TypeCorrect bounds
the packets in every place by those the client has given so far (Given), not by
Total. For the packets the invariant is
QueueInv (the numbers in both buffers rise and the input's come after the
output's), OnceInv (what has been handed out processed is in neither buffer, unless
the buffers are torn) and NothingWithheld itself; the three are proved together,
since Decode passes its input on unprocessed exactly when the decoder has thrown
away the buffer that input is in.

The type invariants of BCasCard, Multi2 and CipherModes and TablesAllocated of
Multi2 are proved and are not in a run of their own.

Only model-checked are PutReturns, CallReturns, CommandsReturn and Recovers, since
liveness and ENABLED are beyond the prover, and the three violations of section 6.

## 6. Findings

Each of the first three is a run that TLC finds violated. Lines of README.md are
those of the repository.

* emm_after_pat. `proc_pat` clears the whole PID map and enters PID 0 and the PMT
  PIDs. The entry that makes packets of the EMM PID reach `proc_emm` was made by
  `proc_cat`; the CAT on air is still the same, the CAT parser drops it as a
  repeat, and EMMs are passed over until the CAT changes. README.md:356-357
  promise EMM processing once a CAT was seen, README.md:363 says of a PAT update
  only that the program array is discarded.
* card_mode. Without `-a` init tries B-CAS mode and then ACAS mode
  (README.md:69), but leaves `prv->acas` at -1 (b_cas_card.c:349). The commands
  ask for `prv->acas > 0`, so that a card opened in ACAS mode gets the commands of
  B-CAS mode. In the run the client never calls `set_acas_mode`: the trace is one
  init, which finds a card in ACAS mode by itself, and one command.
* retry_at_once. Decode is to wait for RETRY_INTERVAL between two attempts
  (libaribb25.h:14). When `create_b_cas_card` fails, Initialize returns before it
  sets `_errtime` (libaribb25.cpp:81-83), and the `if (Initialize() < 0)
  _errtime = now;` of Decode (line 126) never holds, since Initialize returns a BOOL:
  Decode tries again at every call. Other failures do delay (RetrySpaced).

What else the code does that a reader may not expect. The models do the same; no
run is spent on it.

* The EMM parser keeps the PID of its first packet. After the CAT has named
  another EMM PID every EMM packet makes `put` fail (arib_std_b25.c:2365).
* A PAT update met by `find_ecm` frees all decryptors; `check_ecm_complete` of
  none is true, so `put` goes on to the packet loop. A PMT processed there is not
  counted, and its repeats are dropped: the next puts wait for a PMT that never
  comes (arib_std_b25.c:1061; README.md:346 and 363).
* A PMT update and the ECM of its new decryptor in one put: the key is there, but
  `phase` stays 0 and the next put waits for another ECM (arib_std_b25.c:2331;
  README.md:349 and 362).
* The rollback of `put` uses a length taken before `find_pmt` or `find_ecm` moved
  `head` (arib_std_b25.c:1075). PacketService says what stays: as many packets as
  there were before the put, or a torn buffer.
* After a card failure `m2` stays without a scramble key; `decrypt` fails and with
  it `put` (arib_std_b25.c:2092), where README.md:427 says such streams pass
  through.
* `withdraw` leaves `sbuf_offset` (arib_std_b25.c:1171); the next search begins
  that far into the new data and misses a PAT.
* The compaction copies with `memcpy` between places that overlap when a PAT leaves
  a long rest (arib_std_b25.c:2438). Packetizer models a copy from lower to higher
  addresses, which is right; the C standard promises nothing.
* A flush that ends with an incomplete unit leaves `tail` in front of the pool
  (arib_std_b25.c:968, `over` in Packetizer), below `head`; only reset is modelled
  from there, and BufferIsTail says nothing of that state.
* The SIMD kernels have four rounds whatever was asked for (multi2_simd.c:59;
  README.md:321 names an option), and when the instruction type is changed while an
  instance is in use its tables get the layout of the new one (multi2.c:318).
  EagerKeysRight excludes both.
* The constructor of CB25Decoder does not set `_errtime` (libaribb25.cpp:125):
  Decode may try a card at once or wait for a long time. A decoder made by a retry
  has lost the client's settings; on an error at the head of the stream what was
  buffered is lost; Flush hands nothing out.

## 7. Not modelled

In the decoder: a packet that completes two sections, a decoder without a card,
want of memory for buffers, parsers, streams and MULTI2 instances, PIDs that
change their role, the packet counters and `get_program_info`; packet boundaries
are lost and found in Packetizer only, where no packet fails. In the card session:
the fields of the answers, `extract_mjd` (calendar arithmetic of the power-on
control dates), the reader name file of the Windows build, and what follows once
the tables were moved. In MULTI2: the values of the cipher on words of 32 bits (the known-answer test has
them; the theorems hold for any width), the vector instructions. In the library: setters,
statistics, DLL entry points and the mutex. Left out altogether: `td.c` (its loop
treats the results of `put` as Decode does; the rest is options, files and
display), `B25Decoder.cpp` (no build target compiles it), the Windows-only code,
build files and packaging.
