---------------------------- MODULE CipherModes ----------------------------
(***************************************************************************)
(* How MULTI2 encrypts and decrypts the payload of a packet, in place: CBC *)
(* over the whole blocks, OFB over what is left (multi2.c, multi2.cc with  *)
(* multi2_cipher.h, the kernels of multi2_simd.c).  The block cipher is a  *)
(* constant.  Builds differ in how many blocks they decrypt at once, and   *)
(* the SSE2 kernels decrypt one block past the end of a full payload.      *)
(***************************************************************************)
EXTENDS Integers

CONSTANTS
  Block, Part,  \* values of a block and of what is left over
  Plain,        \* values of the blocks that are encrypted
  Key, Iv,
  Enc, Dec,     \* the block cipher under each key
  Xor(_, _), PartXor(_, _),
  N,            \* whole blocks in the payload
  Widths,       \* numbers of blocks a build decrypts at once
  Zero, None

ASSUME BlockAssumption ==
  /\ Plain \subseteq Block /\ Iv \in Block /\ Zero \in Block
  /\ None \notin Block /\ None \notin Part
  /\ N \in Nat /\ Widths \subseteq Nat \ {0}

ASSUME XorAssumption ==
  /\ \A a, b \in Block : Xor(a, b) \in Block /\ Xor(Xor(a, b), b) = a
  /\ \A p \in Part, b \in Block : PartXor(p, b) \in Part /\ PartXor(PartXor(p, b), b) = p

ASSUME CipherAssumption ==
  /\ Enc \in [Key -> [Block -> Block]] /\ Dec \in [Key -> [Block -> Block]]
  /\ \A k \in Key, b \in Block : Dec[k][Enc[k][b]] = b

VARIABLES
  key, plain, rest,  \* the work key; the payload as it was
  buf, part,         \* its blocks and what is left over, or None
  cbc, i,            \* the chaining block; blocks done
  pc,
  beyond, saved,     \* the block behind the payload; its backup
  neighbour          \* history: what the block behind the payload was

vars == <<key, plain, rest, buf, part, cbc, i, pc, beyond, saved, neighbour>>
payload == <<key, plain, rest, neighbour>>

Init ==
  /\ key \in Key /\ plain \in [1..N -> Plain] /\ rest \in Part \cup {None}
  /\ buf = plain /\ part = rest
  /\ cbc = Iv /\ i = 0 /\ pc = "encrypt"
  /\ neighbour \in Plain /\ beyond = neighbour /\ saved = None

\* Mutant of EncryptBlock: the chaining block is the plaintext.
EncryptBlockUnchained ==
  /\ pc = "encrypt" /\ i < N
  /\ buf' = [buf EXCEPT ![i + 1] = Enc[key][Xor(buf[i + 1], cbc)]]
  /\ cbc' = buf[i + 1] /\ i' = i + 1
  /\ UNCHANGED <<payload, part, pc, beyond, saved>>

EncryptBlock ==
  /\ pc = "encrypt" /\ i < N
  /\ buf' = [buf EXCEPT ![i + 1] = Enc[key][Xor(buf[i + 1], cbc)]]
  /\ cbc' = buf'[i + 1] /\ i' = i + 1
  /\ UNCHANGED <<payload, part, pc, beyond, saved>>

EncryptRest ==
  /\ pc = "encrypt" /\ i = N
  /\ part' = IF part = None THEN None ELSE PartXor(part, Enc[key][cbc])
  /\ pc' = "encrypted"
  /\ UNCHANGED <<payload, buf, cbc, i, beyond, saved>>

\* decrypt is called.
Start ==
  /\ pc = "encrypted"
  /\ cbc' = Iv /\ i' = 0 /\ pc' = "decrypt"
  /\ UNCHANGED <<payload, buf, part, beyond, saved>>

\* What decrypting the blocks up to the last one j gives: each is combined
\* with the one before it as it was loaded.
Decrypted(j) ==
  [m \in 1..N |->
     IF m \in (i + 1)..j THEN Xor(Dec[key][buf[m]], IF m = i + 1 THEN cbc ELSE buf[m - 1])
                         ELSE buf[m]]

\* Mutant of DecryptBlocks: the chaining block is the one stored.
DecryptBlocksStored(w) ==
  /\ pc = "decrypt" /\ i + w <= N
  /\ buf' = Decrypted(i + w) /\ cbc' = buf'[i + w] /\ i' = i + w
  /\ UNCHANGED <<payload, part, pc, beyond, saved>>

DecryptBlocks(w) ==
  /\ pc = "decrypt" /\ i + w <= N
  /\ buf' = Decrypted(i + w) /\ cbc' = buf[i + w] /\ i' = i + w
  /\ UNCHANGED <<payload, part, pc, beyond, saved>>

DecryptRest ==
  /\ pc = "decrypt" /\ i = N /\ saved = None
  /\ part' = IF part = None THEN None ELSE PartXor(part, Enc[key][cbc])
  /\ pc' = "decrypted"
  /\ UNCHANGED <<payload, buf, cbc, i, beyond, saved>>

\* decrypt_multi2_with_sse2 and _ssse3, a payload of 184 bytes: the block
\* behind it is put aside, decrypted with the others and put back.
Backup ==
  /\ pc = "decrypt" /\ i = 0 /\ part = None /\ saved = None
  /\ saved' = beyond /\ beyond' = Zero
  /\ UNCHANGED <<payload, buf, part, cbc, i, pc>>

DecryptPast(w) ==
  /\ pc = "decrypt" /\ saved # None /\ i + w = N + 1
  /\ buf' = Decrypted(N)
  /\ beyond' = Xor(Dec[key][beyond], IF w = 1 THEN cbc ELSE buf[N])
  /\ i' = N /\ pc' = "restore"
  /\ UNCHANGED <<payload, part, cbc, saved>>

\* Mutant of Restore: there is no backup to be put back.
RestoreForgotten ==
  /\ pc = "restore"
  /\ saved' = None /\ pc' = "decrypted"
  /\ UNCHANGED <<payload, buf, part, cbc, i, beyond>>

Restore ==
  /\ pc = "restore"
  /\ beyond' = saved /\ saved' = None /\ pc' = "decrypted"
  /\ UNCHANGED <<payload, buf, part, cbc, i>>

Next ==
  \/ EncryptBlock \/ EncryptRest \/ Start
  \/ \E w \in Widths : DecryptBlocks(w) \/ DecryptPast(w)
  \/ DecryptRest \/ Backup \/ Restore

Spec == Init /\ [][Next]_vars

----------------------------------------------------------------------------
(* Properties. *)

\* The state has the types its declarations give it.
TypeOK ==
  /\ key \in Key /\ plain \in [1..N -> Block] /\ rest \in Part \cup {None}
  /\ buf \in [1..N -> Block] /\ part \in Part \cup {None}
  /\ cbc \in Block /\ i \in 0..N
  /\ pc \in {"encrypt", "encrypted", "decrypt", "restore", "decrypted"}
  /\ beyond \in Block /\ saved \in Block \cup {None} /\ neighbour \in Block

\* What encrypt leaves is CBC over the blocks and OFB over the rest, as
\* ISO/IEC 10116 defines them.
IsCbcOfb ==
  pc = "encrypted" =>
    /\ \A j \in 1..N : buf[j] = Enc[key][Xor(plain[j], IF j = 1 THEN Iv ELSE buf[j - 1])]
    /\ rest # None => part = PartXor(rest, Enc[key][IF N = 0 THEN Iv ELSE buf[N]])

\* decrypt undoes encrypt, however many blocks it takes at once.
RoundTrip == pc = "decrypted" => buf = plain /\ part = rest

\* The bytes behind the payload are as they were, also after a kernel that
\* works past its end.
NeighbourKept == pc = "decrypted" => beyond = neighbour
=============================================================================
