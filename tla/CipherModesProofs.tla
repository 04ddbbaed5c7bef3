------------------------- MODULE CipherModesProofs -------------------------
(***************************************************************************)
(* encrypt is CBC and OFB, decrypt undoes it, and the bytes behind the     *)
(* payload are kept: for every block cipher, payload and width.  And       *)
(* MULTI2 is such a block cipher, for every word size, number of rounds    *)
(* and key.                                                                *)
(***************************************************************************)
EXTENDS CipherModes, Multi2Round, FiniteSetTheorems, WellFoundedInduction, TLAPS

\* The block combined with block j: the one before it, as it was loaded.
Prev(j) == IF j = i + 1 THEN cbc ELSE buf[j - 1]

\* The ciphertext of the last block
Last == IF i = N THEN cbc ELSE buf[N]

\* The rest of the payload has been encrypted behind block b.
RestBehind(b) == part = IF rest = None THEN None ELSE PartXor(rest, Enc[key][b])

\* Blocks up to i are encrypted, the others are not.
Encrypting ==
  /\ \A j \in 1..i : buf[j] = Enc[key][Xor(plain[j], IF j = 1 THEN Iv ELSE buf[j - 1])]
  /\ \A j \in (i + 1)..N : buf[j] = plain[j]
  /\ cbc = IF i = 0 THEN Iv ELSE buf[i]

\* Blocks up to i are decrypted, the others are encrypted.
Decrypting ==
  /\ \A j \in 1..i : buf[j] = plain[j]
  /\ \A j \in (i + 1)..N : buf[j] = Enc[key][Xor(plain[j], Prev(j))]
  /\ RestBehind(Last)

BufferInv ==
  /\ pc = "encrypt" => Encrypting /\ part = rest
  /\ pc = "encrypted" => i = N /\ Encrypting /\ RestBehind(cbc)
  /\ pc = "decrypt" => Decrypting
  /\ pc \in {"restore", "decrypted"} => buf = plain /\ part = rest

NeighbourInv ==
  /\ saved = None => beyond = neighbour
  /\ saved # None => saved = neighbour /\ part = None /\ pc \in {"decrypt", "restore"}
  /\ pc = "restore" => saved # None

IInv == TypeOK /\ BufferInv /\ NeighbourInv

----------------------------------------------------------------------------
LEMMA InitInv == Init => IInv
<1> USE BlockAssumption
<1> SUFFICES ASSUME Init PROVE IInv
  OBVIOUS
<1>1. TypeOK
  BY DEF Init, TypeOK
<1>2. BufferInv
  BY DEF Init, BufferInv, Encrypting
<1>3. NeighbourInv
  BY DEF Init, NeighbourInv
<1> QED BY <1>1, <1>2, <1>3 DEF IInv

\* A block that was encrypted behind b is decrypted behind b.
LEMMA BlockUndone ==
  ASSUME NEW k \in Key, NEW p \in Block, NEW b \in Block
  PROVE  /\ Enc[k][Xor(p, b)] \in Block
         /\ Dec[k][Enc[k][Xor(p, b)]] \in Block
         /\ Xor(Dec[k][Enc[k][Xor(p, b)]], b) = p
BY XorAssumption, CipherAssumption

LEMMA EncryptBlockInv == IInv /\ EncryptBlock => IInv'
<1> USE BlockAssumption DEF IInv
<1> SUFFICES ASSUME IInv, EncryptBlock PROVE IInv'
  OBVIOUS
<1>1. /\ key \in Key /\ i \in 0..N /\ i + 1 \in 1..N /\ buf[i + 1] \in Block /\ cbc \in Block
      /\ buf \in [1..N -> Block] /\ plain \in [1..N -> Block] /\ N \in Nat
  BY DEF EncryptBlock, TypeOK
<1>2. DEFINE e == Enc[key][Xor(buf[i + 1], cbc)]
<1>3. e \in Block
  BY <1>1, BlockUndone
<1>4. /\ buf' = [buf EXCEPT ![i + 1] = e] /\ cbc' = buf'[i + 1] /\ i' = i + 1
      /\ key' = key /\ plain' = plain /\ rest' = rest /\ neighbour' = neighbour
      /\ UNCHANGED <<part, pc, beyond, saved>> /\ pc = "encrypt"
  BY DEF EncryptBlock, payload
<1> HIDE DEF e
<1>5. /\ buf' \in [1..N -> Block] /\ buf'[i + 1] = e /\ cbc' = e
      /\ \A j \in 1..N : j # i + 1 => buf'[j] = buf[j]
  BY <1>1, <1>3, <1>4
<1>6. TypeOK'
  BY <1>1, <1>3, <1>4, <1>5 DEF TypeOK
<1>7. Encrypting /\ part = rest
  BY <1>4 DEF BufferInv
<1>8. Encrypting'
  <2>1. ASSUME NEW j \in 1..(i + 1)
        PROVE  buf'[j] = Enc[key][Xor(plain[j], IF j = 1 THEN Iv ELSE buf'[j - 1])]
    <3>1. CASE j = i + 1
      <4>1. buf[j] = plain[j]
        BY <1>1, <1>7, <3>1 DEF Encrypting
      <4>2. cbc = IF j = 1 THEN Iv ELSE buf'[j - 1]
        BY <1>1, <1>5, <1>7, <3>1 DEF Encrypting
      <4> QED BY <1>5, <3>1, <4>1, <4>2 DEF e
    <3>2. CASE j \in 1..i
      <4>1. buf'[j] = buf[j] /\ (j # 1 => buf'[j - 1] = buf[j - 1])
        BY <1>1, <1>5, <3>2
      <4> QED BY <1>1, <1>7, <3>2, <4>1 DEF Encrypting
    <3> QED BY <1>1, <3>1, <3>2
  <2>2. \A j \in (i + 2)..N : buf'[j] = plain[j]
    BY <1>1, <1>5, <1>7 DEF Encrypting
  <2> QED BY <1>1, <1>4, <1>5, <2>1, <2>2 DEF Encrypting
<1>9. BufferInv'
  BY <1>4, <1>7, <1>8 DEF BufferInv
<1>10. NeighbourInv'
  BY <1>4 DEF NeighbourInv
<1> QED BY <1>6, <1>9, <1>10

LEMMA EncryptRestInv == IInv /\ EncryptRest => IInv'
<1> USE BlockAssumption DEF IInv
<1> SUFFICES ASSUME IInv, EncryptRest PROVE IInv'
  OBVIOUS
<1>1. /\ UNCHANGED <<key, plain, rest, neighbour, buf, cbc, i, beyond, saved>>
      /\ pc = "encrypt" /\ pc' = "encrypted" /\ i = N
      /\ part' = IF part = None THEN None ELSE PartXor(part, Enc[key][cbc])
  BY DEF EncryptRest, payload
<1>2. /\ Encrypting /\ part = rest
  BY <1>1 DEF BufferInv
<1>3. Enc[key][cbc] \in Block
  BY CipherAssumption DEF TypeOK
<1>4. TypeOK'
  BY <1>1, <1>3, XorAssumption DEF TypeOK
<1>5. BufferInv'
  <2>1. Encrypting'
    BY <1>1, <1>2 DEF Encrypting
  <2>2. RestBehind(cbc)'
    BY <1>1, <1>2 DEF RestBehind
  <2> QED BY <1>1, <2>1, <2>2 DEF BufferInv
<1>6. NeighbourInv'
  BY <1>1 DEF NeighbourInv
<1> QED BY <1>4, <1>5, <1>6

LEMMA StartInv == IInv /\ Start => IInv'
<1> USE BlockAssumption DEF IInv
<1> SUFFICES ASSUME IInv, Start PROVE IInv'
  OBVIOUS
<1>1. /\ UNCHANGED <<key, plain, rest, neighbour, buf, part, beyond, saved>>
      /\ pc = "encrypted" /\ pc' = "decrypt" /\ i' = 0 /\ cbc' = Iv
  BY DEF Start, payload
<1>2. i = N /\ Encrypting /\ RestBehind(cbc)
  BY <1>1 DEF BufferInv
<1>3. TypeOK'
  BY <1>1 DEF TypeOK
<1>4. Decrypting'
  <2>1. \A j \in 1..N : buf'[j] = Enc[key][Xor(plain[j], Prev(j)')]
    BY <1>1, <1>2 DEF Encrypting, Prev
  <2>2. cbc = Last'
    BY <1>1, <1>2 DEF Encrypting, Last
  <2>3. RestBehind(Last)'
    BY <1>1, <1>2, <2>2 DEF RestBehind
  <2> QED BY <1>1, <2>1, <2>3 DEF Decrypting
<1>5. BufferInv'
  BY <1>1, <1>4 DEF BufferInv
<1>6. NeighbourInv'
  BY <1>1 DEF NeighbourInv
<1> QED BY <1>3, <1>5, <1>6

\* Decrypted gives the plaintext of the blocks it takes, and of no other.
LEMMA DecryptedPlain ==
  ASSUME IInv, pc = "decrypt", NEW j \in i..N
  PROVE  /\ Decrypted(j) \in [1..N -> Block]
         /\ \A m \in 1..j : Decrypted(j)[m] = plain[m]
         /\ \A m \in (j + 1)..N : Decrypted(j)[m] = buf[m]
<1> USE BlockAssumption
<1>1. /\ key \in Key /\ i \in 0..N /\ cbc \in Block /\ N \in Nat
      /\ buf \in [1..N -> Block] /\ plain \in [1..N -> Block]
  BY DEF IInv, TypeOK
<1>2. Decrypting
  BY DEF IInv, BufferInv
<1>3. ASSUME NEW m \in (i + 1)..j
      PROVE  Xor(Dec[key][buf[m]], IF m = i + 1 THEN cbc ELSE buf[m - 1]) = plain[m]
  <2>1. m \in 1..N /\ plain[m] \in Block
    BY <1>1
  <2>2. Prev(m) \in Block
    BY <1>1 DEF Prev
  <2>3. buf[m] = Enc[key][Xor(plain[m], Prev(m))]
    BY <1>1, <1>2 DEF Decrypting
  <2>4. Xor(Dec[key][buf[m]], Prev(m)) = plain[m]
    BY <1>1, <2>1, <2>2, <2>3, BlockUndone
  <2> QED BY <2>4 DEF Prev
<1>4. \A m \in 1..N : Decrypted(j)[m] = IF m \in (i + 1)..j THEN plain[m] ELSE buf[m]
  BY <1>3 DEF Decrypted
<1>5. DOMAIN Decrypted(j) = 1..N
  BY DEF Decrypted
<1>6. \A m \in 1..N : Decrypted(j)[m] \in Block
  BY <1>1, <1>4
<1>7. Decrypted(j) \in [1..N -> Block]
  BY <1>5, <1>6 DEF Decrypted
<1>8. \A m \in 1..j : Decrypted(j)[m] = plain[m]
  BY <1>1, <1>2, <1>4 DEF Decrypting
<1>9. \A m \in (j + 1)..N : Decrypted(j)[m] = buf[m]
  BY <1>1, <1>4
<1> QED BY <1>7, <1>8, <1>9

LEMMA DecryptBlocksInv == \A w \in Widths : IInv /\ DecryptBlocks(w) => IInv'
<1> USE BlockAssumption
<1> SUFFICES ASSUME NEW w \in Widths, IInv, DecryptBlocks(w) PROVE IInv'
  OBVIOUS
<1>1. /\ UNCHANGED <<key, plain, rest, neighbour, part, pc, beyond, saved>>
      /\ pc = "decrypt" /\ i + w <= N /\ i' = i + w /\ cbc' = buf[i + w]
      /\ buf' = Decrypted(i + w)
  BY DEF DecryptBlocks, payload
<1>2. /\ i \in 0..N /\ w \in Nat \ {0} /\ N \in Nat /\ i + w \in i..N /\ i + w \in 1..N
      /\ buf \in [1..N -> Block] /\ buf[i + w] \in Block
  BY <1>1 DEF IInv, TypeOK
<1>3. /\ buf' \in [1..N -> Block]
      /\ \A m \in 1..(i + w) : buf'[m] = plain[m]
      /\ \A m \in (i + w + 1)..N : buf'[m] = buf[m]
  BY <1>1, <1>2, DecryptedPlain
<1>4. TypeOK'
  BY <1>1, <1>2, <1>3 DEF IInv, TypeOK
<1>5. Decrypting
  BY <1>1 DEF IInv, BufferInv
<1>6. \A m \in (i + w + 1)..N : buf'[m] = Enc[key][Xor(plain[m], Prev(m)')]
  <2> SUFFICES ASSUME NEW m \in (i + w + 1)..N
               PROVE  buf'[m] = Enc[key][Xor(plain[m], Prev(m)')]
    OBVIOUS
  <2>1. Prev(m)' = Prev(m)
    BY <1>1, <1>2, <1>3 DEF Prev
  <2> QED BY <1>2, <1>3, <1>5, <2>1 DEF Decrypting
<1>7. Last' = Last
  BY <1>1, <1>2, <1>3 DEF Last
<1>8. RestBehind(Last)'
  BY <1>1, <1>5, <1>7 DEF Decrypting, RestBehind
<1>9. BufferInv'
  BY <1>1, <1>3, <1>6, <1>8 DEF BufferInv, Decrypting
<1>10. NeighbourInv'
  BY <1>1 DEF IInv, NeighbourInv
<1> QED BY <1>4, <1>9, <1>10 DEF IInv

\* When all blocks are decrypted the buffer is the plaintext.
LEMMA AllDecrypted ==
  ASSUME NEW f \in [1..N -> Block], NEW g \in [1..N -> Block],
         \A m \in 1..N : f[m] = g[m]
  PROVE  f = g
<1>1. f = [m \in 1..N |-> f[m]] /\ g = [m \in 1..N |-> g[m]]
  OBVIOUS
<1>2. [m \in 1..N |-> f[m]] = [m \in 1..N |-> g[m]]
  OBVIOUS
<1> QED BY <1>1, <1>2, Zenon

LEMMA DecryptRestInv == IInv /\ DecryptRest => IInv'
<1> USE BlockAssumption
<1> SUFFICES ASSUME IInv, DecryptRest PROVE IInv'
  OBVIOUS
<1>1. /\ UNCHANGED <<key, plain, rest, neighbour, buf, cbc, i, beyond, saved>>
      /\ pc = "decrypt" /\ pc' = "decrypted" /\ i = N /\ saved = None
      /\ part' = IF part = None THEN None ELSE PartXor(part, Enc[key][cbc])
  BY DEF DecryptRest, payload
<1>2. /\ Decrypting /\ key \in Key /\ cbc \in Block /\ rest \in Part \cup {None}
      /\ buf \in [1..N -> Block] /\ plain \in [1..N -> Block]
  BY <1>1 DEF IInv, TypeOK, BufferInv
<1>3. Enc[key][cbc] \in Block
  BY <1>2, CipherAssumption
<1>4. buf = plain
  BY <1>1, <1>2, AllDecrypted DEF Decrypting
<1>5. part = IF rest = None THEN None ELSE PartXor(rest, Enc[key][cbc])
  BY <1>1, <1>2 DEF Decrypting, RestBehind, Last
<1>6. part' = rest
  <2>1. CASE rest = None
    BY <1>1, <1>5, <2>1
  <2>2. CASE rest # None
    <3>1. rest \in Part /\ part = PartXor(rest, Enc[key][cbc])
      BY <1>2, <1>5, <2>2
    <3>2. part \in Part /\ PartXor(part, Enc[key][cbc]) = rest
      BY <1>3, <3>1, XorAssumption
    <3> QED BY <1>1, <3>2
  <2> QED BY <2>1, <2>2
<1>7. TypeOK'
  BY <1>1, <1>2, <1>6 DEF IInv, TypeOK
<1>8. BufferInv'
  BY <1>1, <1>4, <1>6 DEF BufferInv
<1>9. NeighbourInv'
  BY <1>1 DEF IInv, NeighbourInv
<1> QED BY <1>7, <1>8, <1>9 DEF IInv

LEMMA BackupInv == IInv /\ Backup => IInv'
<1> USE BlockAssumption
<1> SUFFICES ASSUME IInv, Backup PROVE IInv'
  OBVIOUS
<1>1. /\ UNCHANGED <<key, plain, rest, neighbour, buf, part, cbc, i, pc>>
      /\ pc = "decrypt" /\ part = None /\ saved = None
      /\ saved' = beyond /\ beyond' = Zero
  BY DEF Backup, payload
<1>2. TypeOK'
  BY <1>1 DEF IInv, TypeOK
<1>3. Decrypting'
  BY <1>1 DEF IInv, BufferInv, Decrypting, Prev, RestBehind, Last
<1>4. BufferInv'
  BY <1>1, <1>3 DEF BufferInv
<1>5. NeighbourInv'
  BY <1>1 DEF IInv, TypeOK, NeighbourInv
<1> QED BY <1>2, <1>4, <1>5 DEF IInv

LEMMA DecryptPastInv == \A w \in Widths : IInv /\ DecryptPast(w) => IInv'
<1> USE BlockAssumption
<1> SUFFICES ASSUME NEW w \in Widths, IInv, DecryptPast(w) PROVE IInv'
  OBVIOUS
<1>1. /\ UNCHANGED <<key, plain, rest, neighbour, part, cbc, saved>>
      /\ pc = "decrypt" /\ saved # None /\ i + w = N + 1 /\ i' = N /\ pc' = "restore"
      /\ buf' = Decrypted(N)
      /\ beyond' = Xor(Dec[key][beyond], IF w = 1 THEN cbc ELSE buf[N])
  BY DEF DecryptPast, payload
<1>2. /\ i \in 0..N /\ w \in Nat \ {0} /\ N \in Nat /\ N \in i..N
      /\ key \in Key /\ beyond \in Block /\ cbc \in Block
      /\ buf \in [1..N -> Block] /\ plain \in [1..N -> Block]
  BY DEF IInv, TypeOK
<1>3. buf' \in [1..N -> Block] /\ \A m \in 1..N : buf'[m] = plain[m]
  BY <1>1, <1>2, DecryptedPlain
<1>4. buf' = plain
  BY <1>2, <1>3, AllDecrypted
<1>5. beyond' \in Block
  <2>1. (IF w = 1 THEN cbc ELSE buf[N]) \in Block
    BY <1>1, <1>2
  <2>2. Dec[key][beyond] \in Block
    BY <1>2, CipherAssumption
  <2> QED BY <1>1, <2>1, <2>2, XorAssumption
<1>6. TypeOK'
  BY <1>1, <1>2, <1>3, <1>5 DEF IInv, TypeOK
<1>7. part = None /\ saved = neighbour /\ part = rest
  <2>1. part = None /\ saved = neighbour
    BY <1>1 DEF IInv, NeighbourInv
  <2>2. RestBehind(Last) /\ rest \in Part \cup {None}
    BY <1>1 DEF IInv, TypeOK, BufferInv, Decrypting
  <2>3. Last \in Block
    BY <1>1, <1>2 DEF Last
  <2>4. rest = None
    <3> SUFFICES ASSUME rest # None PROVE FALSE
      OBVIOUS
    <3>1. rest \in Part /\ part = PartXor(rest, Enc[key][Last])
      BY <2>2 DEF RestBehind
    <3>2. Enc[key][Last] \in Block
      BY <1>2, <2>3, CipherAssumption
    <3>3. part \in Part
      BY <3>1, <3>2, XorAssumption
    <3> QED BY <2>1, <3>3
  <2> QED BY <2>1, <2>4
<1>8. BufferInv'
  BY <1>1, <1>4, <1>7 DEF BufferInv
<1>9. NeighbourInv'
  BY <1>1, <1>7 DEF NeighbourInv
<1> QED BY <1>6, <1>8, <1>9 DEF IInv

LEMMA RestoreInv == IInv /\ Restore => IInv'
<1> USE BlockAssumption
<1> SUFFICES ASSUME IInv, Restore PROVE IInv'
  OBVIOUS
<1>1. /\ UNCHANGED <<key, plain, rest, neighbour, buf, part, cbc, i>>
      /\ pc = "restore" /\ pc' = "decrypted" /\ beyond' = saved /\ saved' = None
  BY DEF Restore, payload
<1>2. saved = neighbour /\ buf = plain /\ part = rest
  BY <1>1 DEF IInv, BufferInv, NeighbourInv
<1>3. TypeOK'
  BY <1>1, <1>2 DEF IInv, TypeOK
<1>4. BufferInv'
  BY <1>1, <1>2 DEF BufferInv
<1>5. NeighbourInv'
  BY <1>1, <1>2 DEF NeighbourInv
<1> QED BY <1>3, <1>4, <1>5 DEF IInv

LEMMA StepInv == IInv /\ [Next]_vars => IInv'
<1>1. IInv /\ UNCHANGED vars => IInv'
  BY DEF vars, IInv, TypeOK, BufferInv, NeighbourInv, Encrypting, Decrypting,
         RestBehind, Last, Prev
<1> QED
  BY <1>1, EncryptBlockInv, EncryptRestInv, StartInv, DecryptBlocksInv, DecryptRestInv,
     BackupInv, DecryptPastInv, RestoreInv
  DEF Next

LEMMA Inductive == Spec => []IInv
BY InitInv, StepInv, PTL DEF Spec

----------------------------------------------------------------------------
\* Blocks stay blocks, whatever is decrypted at once or past the end.
THEOREM TypeCorrect == Spec => []TypeOK
<1>1. IInv => TypeOK
  BY DEF IInv
<1> QED BY <1>1, Inductive, PTL

\* What multi2.cc's encrypt leaves is CBC over the whole blocks and OFB over
\* the rest, for every block cipher and length.
THEOREM CbcOfb == Spec => []IsCbcOfb
<1>1. IInv => IsCbcOfb
  <2> SUFFICES ASSUME IInv, pc = "encrypted"
               PROVE  /\ \A j \in 1..N : buf[j] = Enc[key][Xor(plain[j], IF j = 1 THEN Iv ELSE buf[j - 1])]
                      /\ rest # None => part = PartXor(rest, Enc[key][IF N = 0 THEN Iv ELSE buf[N]])
    BY DEF IsCbcOfb
  <2>1. i = N /\ Encrypting /\ RestBehind(cbc)
    BY DEF IInv, BufferInv
  <2>2. \A j \in 1..N : buf[j] = Enc[key][Xor(plain[j], IF j = 1 THEN Iv ELSE buf[j - 1])]
    BY <2>1 DEF Encrypting
  <2>3. rest # None => part = PartXor(rest, Enc[key][IF N = 0 THEN Iv ELSE buf[N]])
    BY <2>1 DEF Encrypting, RestBehind
  <2> QED BY <2>2, <2>3
<1> QED BY <1>1, Inductive, PTL

\* Every build's decrypt undoes encrypt: the widths in which the kernels take
\* the blocks do not matter, in place as they work.
THEOREM RoundTripHolds == Spec => []RoundTrip
<1>1. IInv => RoundTrip
  BY DEF IInv, BufferInv, RoundTrip
<1> QED BY <1>1, Inductive, PTL

\* The kernels that decrypt one block past a full payload give that block
\* back as it was.
THEOREM NeighbourSafe == Spec => []NeighbourKept
<1>1. IInv => NeighbourKept
  BY DEF IInv, NeighbourInv, NeighbourKept
<1> QED BY <1>1, Inductive, PTL

----------------------------------------------------------------------------
(* MULTI2 itself.  First an induction: what is true of 0, and of n + 1     *)
(* when it is of n, is true of all numbers.                                *)

Below(n) == 0..(n - 1)

LEMMA Upward ==
  ASSUME NEW T, 0 \in T, \A n \in Nat : n \in T => n + 1 \in T
  PROVE  Nat \subseteq T
<1> SUFFICES ASSUME Nat \ T # {} PROVE FALSE OBVIOUS
<1> DEFINE B == {Below(n) : n \in Nat \ T}
<1>1. B \subseteq FiniteSubsetsOf(Nat)
  <2>1. SUFFICES ASSUME NEW n \in Nat PROVE Below(n) \in FiniteSubsetsOf(Nat)
    OBVIOUS
  <2>2. IsFiniteSet(Below(n)) BY FS_Interval DEF Below
  <2>3. Below(n) \subseteq Nat BY DEF Below
  <2> QED BY <2>2, <2>3 DEF FiniteSubsetsOf
<1>2. B # {} OBVIOUS
<1>3. PICK b \in B : \A y \in B : ~(<<y, b>> \in StrictSubsetOrdering(Nat))
  <2> HIDE DEF B
  <2>1. IsWellFoundedOn(StrictSubsetOrdering(Nat), FiniteSubsetsOf(Nat))
    BY FS_StrictSubsetOrderingWellFounded
  <2> QED BY <1>1, <1>2, <2>1, WFMin
<1>4. PICK x \in Nat \ T : b = Below(x) OBVIOUS
<1>5. x - 1 \in Nat
  <2>1. x # 0 OBVIOUS
  <2> QED BY <2>1
<1>6. x - 1 \notin T
  <2>1. (x - 1) + 1 = x BY <1>5
  <2> QED BY <1>5, <2>1
<1>7. <<Below(x - 1), b>> \in StrictSubsetOrdering(Nat)
  <2>1. Below(x - 1) \subseteq Below(x) /\ Below(x) \subseteq Nat BY <1>5 DEF Below
  <2>2. x - 1 \in Below(x) /\ x - 1 \notin Below(x - 1) BY <1>5 DEF Below
  <2> QED BY <1>4, <2>1, <2>2 DEF StrictSubsetOrdering
<1> QED BY <1>3, <1>5, <1>6, <1>7

\* f is v, G of v, G of that, up to the n-th.
Repeats(f, v, G, n) == f[0] = v /\ \A k \in 1..n : f[k] = G[f[k - 1]]

LEMMA RepeatsExist ==
  ASSUME NEW V, NEW v \in V, NEW G \in [V -> V], NEW n \in Nat
  PROVE  \E f \in [0..n -> V] : Repeats(f, v, G, n)
<1> DEFINE T == {m \in Nat : \E f \in [0..m -> V] : Repeats(f, v, G, m)}
<1>1. 0 \in T
  <2>1. PICK f : f = [k \in 0..0 |-> v] OBVIOUS
  <2>2. f \in [0..0 -> V] /\ f[0] = v BY <2>1
  <2> QED BY <2>2 DEF Repeats
<1>2. ASSUME NEW m \in Nat, m \in T PROVE m + 1 \in T
  <2>1. PICK f \in [0..m -> V] : Repeats(f, v, G, m) BY <1>2
  <2>2. PICK g : g = [k \in 0..(m + 1) |-> IF k = m + 1 THEN G[f[m]] ELSE f[k]] OBVIOUS
  <2>3. g \in [0..(m + 1) -> V] BY <2>1, <2>2
  <2>4. g[0] = v BY <2>1, <2>2 DEF Repeats
  <2>5. ASSUME NEW k \in 1..(m + 1) PROVE g[k] = G[g[k - 1]]
    <3>1. k - 1 \in 0..m /\ g[k - 1] = f[k - 1] BY <2>2
    <3>2. CASE k = m + 1 BY <2>2, <3>1, <3>2
    <3>3. CASE k # m + 1
      <4>1. k \in 1..m /\ g[k] = f[k] BY <2>2, <3>3
      <4> QED BY <2>1, <3>1, <4>1 DEF Repeats
    <3> QED BY <3>2, <3>3
  <2> QED BY <2>3, <2>4, <2>5 DEF Repeats
<1>3. n \in T
  <2>1. \A m \in Nat : m \in T => m + 1 \in T BY <1>2
  <2> HIDE DEF T
  <2> QED BY <1>1, <2>1, Upward
<1> QED BY <1>3

\* The powers of two are numbers, and Power[n + 1] is twice Power[n].
LEMMA Powers ==
  /\ Power \in [0..W -> Nat \ {0}]
  /\ Power[0] = 1 /\ \A n \in 1..W : Power[n] = 2 * Power[n - 1]
<1> DEFINE V == Nat \ {0}
           G == [m \in V |-> 2 * m]
           Body(f) == [n \in 0..W |-> IF n = 0 THEN 1 ELSE 2 * f[n - 1]]
<1>1. W \in Nat BY WordAssumption
<1>2. PICK f \in [0..W -> V] : Repeats(f, 1, G, W)
  <2>1. 1 \in V /\ G \in [V -> V] OBVIOUS
  <2> HIDE DEF V, G
  <2> QED BY <1>1, <2>1, RepeatsExist
<1>3. f[0] = 1 /\ \A n \in 1..W : f[n] = 2 * f[n - 1]
  <2>1. f[0] = 1 BY <1>2 DEF Repeats
  <2>2. ASSUME NEW n \in 1..W PROVE f[n] = 2 * f[n - 1]
    <3>1. n - 1 \in 0..W BY <1>1
    <3>2. f[n - 1] \in V BY <1>2, <3>1
    <3>3. f[n] = G[f[n - 1]] BY <1>2 DEF Repeats
    <3> QED BY <3>2, <3>3
  <2> QED BY <2>1, <2>2
<1>4. f = Body(f)
  <2>1. \A n \in 0..W : f[n] = IF n = 0 THEN 1 ELSE 2 * f[n - 1] BY <1>1, <1>3
  <2> QED BY <1>2, <2>1
<1>5. Power = CHOOSE g : g = Body(g) BY DEF Power
<1>6. Power = Body(Power) BY <1>4, <1>5
<1>7. Power[0] = 1 /\ \A n \in 1..W : Power[n] = 2 * Power[n - 1]
  <2>1. PICK p : p = Power OBVIOUS
  <2>2. p = [n \in 0..W |-> IF n = 0 THEN 1 ELSE 2 * p[n - 1]] BY <1>6, <2>1
  <2>3. \A n \in 0..W : p[n] = IF n = 0 THEN 1 ELSE 2 * p[n - 1] BY <2>2
  <2> QED BY <1>1, <2>1, <2>3
<1>8. Power \in [0..W -> V]
  <2>1. Power = [n \in 0..W |-> Power[n]] BY <1>6
  <2> DEFINE T == {n \in Nat : n <= W => Power[n] \in V}
  <2>2. 0 \in T BY <1>7
  <2>3. ASSUME NEW n \in Nat, n \in T PROVE n + 1 \in T
    <3>1. SUFFICES ASSUME n + 1 <= W PROVE Power[n + 1] \in V OBVIOUS
    <3>2. Power[n] \in V /\ n + 1 \in 1..W BY <1>1, <2>3, <3>1
    <3>3. Power[n + 1] = 2 * Power[n] BY <1>7, <3>2
    <3> QED BY <3>2, <3>3
  <2>4. Nat \subseteq T
    <3>1. \A n \in Nat : n \in T => n + 1 \in T BY <2>3
    <3> HIDE DEF T
    <3> QED BY <2>2, <3>1, Upward
  <2>5. \A n \in 0..W : Power[n] \in V BY <1>1, <2>4
  <2> QED BY <2>1, <2>5
<1> QED BY <1>7, <1>8

LEMMA AddIs == ASSUME NEW x \in Int, NEW y \in Int PROVE Add(x, y) \in Word
<1>1. PICK s \in Nat \ {0} : s = Power[W] BY Powers, WordAssumption
<1>2. PICK z \in Int : z = x + y OBVIOUS
<1>3. z % s \in 0..(s - 1) OBVIOUS
<1> QED BY <1>1, <1>2, <1>3 DEF Add, Word

LEMMA RotateIs == ASSUME NEW x \in Int, NEW n \in Nat PROVE Rotate(x, n) \in Word
<1>1. n % W \in 0..W /\ W - (n % W) \in 0..W BY WordAssumption
<1>2. PICK p \in Nat \ {0}, q \in Nat \ {0} : p = Power[n % W] /\ q = Power[W - (n % W)]
  BY <1>1, Powers
<1>3. x * p \in Int /\ x \div q \in Int OBVIOUS
<1> QED BY <1>2, <1>3, AddIs DEF Rotate

\* The rotation by one bit less the word is the word plus its first bit: both
\* programs compute the same.
LEMMA SameRotation == ASSUME NEW x \in Word PROVE RotateLess(x) = Rot1Sub(x)
<1>1. PICK h \in Nat \ {0} : h = Power[W - 1] /\ Power[W] = 2 * h
  <2>1. W - 1 \in 0..W /\ W \in 1..W BY WordAssumption
  <2> QED BY <2>1, Powers
<1>2. x \in 0..(2 * h - 1) BY <1>1 DEF Word
<1>3. PICK t \in 0..1 : t = x \div h
  <2>1. x \div h \in Nat /\ x % h \in 0..(h - 1) /\ x = h * (x \div h) + (x % h) BY <1>2
  <2>2. PICK t \in Nat : t = x \div h BY <2>1
  <2>3. h * t < 2 * h BY <1>2, <2>1, <2>2
  <2>4. t <= 1
    <3>1. SUFFICES ASSUME t >= 2 PROVE FALSE BY <2>2
    <3>2. PICK e \in Nat : t = 2 + e BY <3>1
    <3>3. h * t = 2 * h + h * e /\ h * e \in Nat BY <3>2
    <3> QED BY <2>3, <3>3
  <2> QED BY <2>2, <2>4
<1>4. CASE W = 1
  <2>1. h = 1 /\ 1 % W = 0 BY <1>1, <1>4, Powers
  <2>2. x \in 0..1 /\ t = x BY <1>2, <1>3, <2>1
  <2>3. Rotate(x, 1) = Add(x * 1, x \div 2)
    <3>1. Power[0] = 1 /\ Power[W] = 2 /\ W - 0 = W BY <1>1, <1>4, <2>1, Powers
    <3> QED BY <1>4, <2>1, <3>1 DEF Rotate
  <2>4. Rotate(x, 1) = x BY <1>1, <2>1, <2>2, <2>3 DEF Add
  <2>5. RotateLess(x) = 0 BY <1>1, <2>1, <2>2, <2>4 DEF RotateLess, Add
  <2>6. Rot1Sub(x) = 0 BY <1>1, <1>3, <2>1, <2>2 DEF Rot1Sub, Add
  <2> QED BY <2>5, <2>6
<1>5. CASE W # 1
  <2>1. 1 % W = 1 BY <1>5, WordAssumption
  <2>2. Power[1] = 2
    <3>1. 1 \in 1..W BY WordAssumption
    <3> QED BY <3>1, Powers
  <2>3. Rotate(x, 1) = Add(x * 2, t) BY <1>1, <1>3, <2>1, <2>2 DEF Rotate
  <2>4. PICK m \in Nat : m = 2 * h BY <1>1
  <2>5. Rotate(x, 1) = (2 * x + t) % m BY <1>1, <2>3, <2>4, <1>2 DEF Add
  <2>6. RotateLess(x) = (((2 * x + t) % m) + (m - x)) % m BY <1>1, <2>4, <2>5 DEF RotateLess, Add
  <2>7. Rot1Sub(x) = (x + t) % m BY <1>1, <1>3, <2>4 DEF Rot1Sub, Add
  <2>8. x \in 0..(m - 1) /\ m >= 2 BY <1>2, <2>4
  <2>9. (((2 * x + t) % m) + (m - x)) % m = (x + t) % m
    <3>1. CASE 2 * x + t < m
      <4>1. (2 * x + t) % m = 2 * x + t BY <2>8, <3>1
      <4>2. 2 * x + t + (m - x) = m + (x + t) BY <2>8
      <4> QED BY <2>8, <4>1, <4>2
    <3>2. CASE 2 * x + t >= m
      <4>1. (2 * x + t) % m = 2 * x + t - m BY <2>8, <3>2
      <4> QED BY <2>8, <4>1
    <3> QED BY <2>8, <3>1, <3>2
  <2> QED BY <2>6, <2>7, <2>9
<1> QED BY <1>4, <1>5

----------------------------------------------------------------------------
(* The pi functions take blocks to blocks, and each undoes itself.         *)

LEMMA WordsAre ==
  ASSUME NEW b \in Blk
  PROVE  b[1] \in Word /\ b[2] \in Word /\ b = <<b[1], b[2]>>
BY DEF Blk

\* Words are closed under what the pi functions do with them.
LEMMA WordOps ==
  /\ \A x, y \in Word : Add(x, y) \in Word /\ XorW(x, y) \in Word /\ OrW(x, y) \in Word
  /\ \A x \in Word, n \in Nat : Rotate(x, n) \in Word
  /\ 1 \in Word /\ Power[W] - 1 \in Word
<1>1. PICK h \in Nat \ {0} : Power[W] = 2 * h
  <2>1. W - 1 \in 0..W /\ W \in 1..W BY WordAssumption
  <2> QED BY <2>1, Powers
<1>2. Word \subseteq Int /\ 1 \in Word /\ Power[W] - 1 \in Word BY <1>1 DEF Word
<1>3. ASSUME NEW x \in Word, NEW y \in Word PROVE Add(x, y) \in Word BY <1>2, AddIs
<1>4. ASSUME NEW x \in Word, NEW n \in Nat PROVE Rotate(x, n) \in Word BY <1>2, RotateIs
<1> QED BY <1>2, <1>3, <1>4, BitsAssumption

LEMMA Pi3SumIs ==
  ASSUME NEW x \in Word, NEW k \in Word, NEW l \in Word
  PROVE  Pi3Sum(x, k, l) \in Word
<1>1. PICK y \in Word : y = Add(x, k) BY WordOps
<1>2. PICK q \in Word : q = Rotate(y, 2) BY WordOps
<1>3. PICK z \in Word : z = Add(Add(q, y), 1) BY WordOps
<1>4. PICK p \in Word : p = Rotate(z, 8) BY WordOps
<1>5. Add(XorW(p, z), l) \in Word BY WordOps
<1> QED BY <1>1, <1>2, <1>3, <1>4, <1>5 DEF Pi3Sum

LEMMA MixUndone ==
  ASSUME NEW b \in Blk, NEW x \in Word
  PROVE  /\ <<XorW(b[1], x), b[2]>> \in Blk /\ <<b[1], XorW(b[2], x)>> \in Blk
         /\ <<XorW(XorW(b[1], x), x), b[2]>> = b
         /\ <<b[1], XorW(XorW(b[2], x), x)>> = b
BY WordsAre, BitsAssumption DEF Blk

LEMMA Pi1Undone == ASSUME NEW b \in Blk PROVE Pi1(b) \in Blk /\ Pi1(Pi1(b)) = b
<1>1. b[1] \in Word BY WordsAre
<1> QED BY <1>1, MixUndone DEF Pi1

LEMMA Pi2Undone ==
  ASSUME NEW b \in Blk, NEW k \in Word PROVE Pi2(b, k) \in Blk /\ Pi2(Pi2(b, k), k) = b
<1>1. PICK y \in Word : y = Add(b[2], k) BY WordsAre, WordOps
<1>2. PICK z \in Word : z = Add(Add(Rotate(y, 1), y), Power[W] - 1)
  <2>1. PICK q \in Word : q = Rotate(y, 1) BY WordOps
  <2>2. Add(Add(q, y), Power[W] - 1) \in Word BY WordOps
  <2> QED BY <2>1, <2>2
<1>3. PICK x \in Word : x = XorW(Rotate(z, 4), z)
  <2>1. Rotate(z, 4) \in Word BY WordOps
  <2> QED BY <2>1, WordOps
<1>4. Pi2(b, k) = <<XorW(b[1], x), b[2]>> BY <1>1, <1>2, <1>3 DEF Pi2
<1>5. PICK c : c = Pi2(b, k) OBVIOUS
<1>6. c[1] = XorW(b[1], x) /\ c[2] = b[2] BY <1>4, <1>5
<1>7. Pi2(c, k) = <<XorW(c[1], x), c[2]>> BY <1>1, <1>2, <1>3, <1>6 DEF Pi2
<1> QED BY <1>4, <1>5, <1>6, <1>7, MixUndone

LEMMA Pi4Undone ==
  ASSUME NEW b \in Blk, NEW k \in Word PROVE Pi4(b, k) \in Blk /\ Pi4(Pi4(b, k), k) = b
<1>1. PICK y \in Word : y = Add(b[2], k) BY WordsAre, WordOps
<1>2. PICK x \in Word : x = Add(Add(Rotate(y, 2), y), 1)
  <2>1. PICK q \in Word : q = Rotate(y, 2) BY WordOps
  <2>2. Add(Add(q, y), 1) \in Word BY WordOps
  <2> QED BY <2>1, <2>2
<1>3. Pi4(b, k) = <<XorW(b[1], x), b[2]>> BY <1>1, <1>2 DEF Pi4
<1>4. PICK c : c = Pi4(b, k) OBVIOUS
<1>5. c[1] = XorW(b[1], x) /\ c[2] = b[2] BY <1>3, <1>4
<1>6. Pi4(c, k) = <<XorW(c[1], x), c[2]>> BY <1>1, <1>2, <1>5 DEF Pi4
<1> QED BY <1>3, <1>4, <1>5, <1>6, MixUndone

LEMMA Pi3Undone ==
  ASSUME NEW b \in Blk, NEW k \in Word, NEW l \in Word
  PROVE  Pi3(b, k, l) \in Blk /\ Pi3(Pi3(b, k, l), k, l) = b
<1>1. PICK s \in Word : s = Pi3Sum(b[1], k, l) BY WordsAre, Pi3SumIs
<1>2. PICK r \in Word : r = Rot1Sub(s)
  <2>1. s \div Power[W - 1] \in Int
    <3>1. W - 1 \in 0..W BY WordAssumption
    <3>2. PICK h \in Nat \ {0} : h = Power[W - 1] BY <3>1, Powers
    <3> QED BY <3>2 DEF Word
  <2>2. s \in Int BY DEF Word
  <2> QED BY <2>1, <2>2, AddIs DEF Rot1Sub
<1>3. PICK x \in Word : x = XorW(Rotate(r, 16), OrW(r, b[1]))
  <2>1. Rotate(r, 16) \in Word BY WordOps
  <2>2. OrW(r, b[1]) \in Word BY WordsAre, WordOps
  <2> QED BY <2>1, <2>2, WordOps
<1>4. Pi3(b, k, l) = <<b[1], XorW(b[2], x)>> BY <1>1, <1>2, <1>3 DEF Pi3, Pi3Mix
<1>5. PICK c : c = Pi3(b, k, l) OBVIOUS
<1>6. c[1] = b[1] /\ c[2] = XorW(b[2], x) BY <1>4, <1>5
<1>7. Pi3(c, k, l) = <<c[1], XorW(c[2], x)>> BY <1>1, <1>2, <1>3, <1>6 DEF Pi3, Pi3Mix
<1>8. c \in Blk /\ <<c[1], XorW(c[2], x)>> = b
  <2>1. c = <<b[1], XorW(b[2], x)>> BY <1>4, <1>5
  <2>2. <<b[1], XorW(b[2], x)>> \in Blk /\ <<b[1], XorW(XorW(b[2], x), x)>> = b BY MixUndone
  <2> QED BY <1>6, <2>1, <2>2
<1> QED BY <1>5, <1>7, <1>8

\* Both pi3 give the same block.
LEMMA CorePi3Is ==
  ASSUME NEW b \in Blk, NEW k \in Word, NEW l \in Word PROVE CorePi3(b, k, l) = Pi3(b, k, l)
<1>1. Pi3Sum(b[1], k, l) \in Word BY WordsAre, Pi3SumIs
<1> QED BY <1>1, SameRotation DEF CorePi3, Pi3

LEMMA EightWords ==
  ASSUME NEW w \in [1..8 -> Word]
  PROVE  /\ w[1] \in Word /\ w[2] \in Word /\ w[3] \in Word /\ w[4] \in Word
         /\ w[5] \in Word /\ w[6] \in Word /\ w[7] \in Word /\ w[8] \in Word
OBVIOUS

\* One turn of decrypt undoes one of encrypt.
LEMMA TurnUndone ==
  ASSUME NEW b \in Blk, NEW w \in [1..8 -> Word]
  PROVE  /\ EncryptTurn(Pi3, b, w) \in Blk
         /\ DecryptTurn(Pi3, EncryptTurn(Pi3, b, w), w) = b
<1>1. PICK c1 \in Blk : c1 = Pi1(b) /\ Pi1(c1) = b BY Pi1Undone
<1>2. PICK c2 \in Blk : c2 = Pi2(c1, w[1]) /\ Pi2(c2, w[1]) = c1 BY EightWords, Pi2Undone
<1>3. PICK c3 \in Blk : c3 = Pi3(c2, w[2], w[3]) /\ Pi3(c3, w[2], w[3]) = c2
  BY EightWords, Pi3Undone
<1>4. PICK c4 \in Blk : c4 = Pi4(c3, w[4]) /\ Pi4(c4, w[4]) = c3 BY EightWords, Pi4Undone
<1>5. PICK c5 \in Blk : c5 = Pi1(c4) /\ Pi1(c5) = c4 BY Pi1Undone
<1>6. PICK c6 \in Blk : c6 = Pi2(c5, w[5]) /\ Pi2(c6, w[5]) = c5 BY EightWords, Pi2Undone
<1>7. PICK c7 \in Blk : c7 = Pi3(c6, w[6], w[7]) /\ Pi3(c7, w[6], w[7]) = c6
  BY EightWords, Pi3Undone
<1>8. PICK c8 \in Blk : c8 = Pi4(c7, w[8]) /\ Pi4(c8, w[8]) = c7 BY EightWords, Pi4Undone
<1>9. EncryptTurn(Pi3, b, w) = c8
  BY <1>1, <1>2, <1>3, <1>4, <1>5, <1>6, <1>7, <1>8 DEF EncryptTurn
<1>10. DecryptTurn(Pi3, c8, w) = b
  BY <1>1, <1>2, <1>3, <1>4, <1>5, <1>6, <1>7, <1>8 DEF DecryptTurn
<1> QED BY <1>9, <1>10

\* The turns of both implementations are the same.
LEMMA SameTurns ==
  ASSUME NEW b \in Blk, NEW w \in [1..8 -> Word]
  PROVE  /\ EncryptTurn(CorePi3, b, w) = EncryptTurn(Pi3, b, w)
         /\ DecryptTurn(CorePi3, b, w) = DecryptTurn(Pi3, b, w)
         /\ DecryptTurn(Pi3, b, w) \in Blk
<1>1. ASSUME NEW c \in Blk, NEW k \in Word, NEW l \in Word
      PROVE  CorePi3(c, k, l) = Pi3(c, k, l) /\ Pi3(c, k, l) \in Blk
  BY CorePi3Is, Pi3Undone
<1>2. PICK c1 \in Blk : c1 = Pi2(Pi1(b), w[1]) BY EightWords, Pi1Undone, Pi2Undone
<1>3. PICK c2 \in Blk : c2 = CorePi3(c1, w[2], w[3]) /\ c2 = Pi3(c1, w[2], w[3])
  BY <1>1, EightWords
<1>4. PICK c3 \in Blk : c3 = Pi2(Pi1(Pi4(c2, w[4])), w[5])
  <2>1. PICK q \in Blk : q = Pi1(Pi4(c2, w[4])) BY EightWords, Pi1Undone, Pi4Undone
  <2> QED BY <2>1, EightWords, Pi2Undone
<1>5. CorePi3(c3, w[6], w[7]) = Pi3(c3, w[6], w[7]) BY <1>1, EightWords
<1>6. EncryptTurn(CorePi3, b, w) = EncryptTurn(Pi3, b, w)
  BY <1>2, <1>3, <1>4, <1>5 DEF EncryptTurn
<1>7. PICK d1 \in Blk : d1 = Pi4(b, w[8]) BY EightWords, Pi4Undone
<1>8. PICK d2 \in Blk : d2 = CorePi3(d1, w[6], w[7]) /\ d2 = Pi3(d1, w[6], w[7])
  BY <1>1, EightWords
<1>9. PICK d3 \in Blk : d3 = Pi4(Pi1(Pi2(d2, w[5])), w[4])
  <2>1. PICK q \in Blk : q = Pi1(Pi2(d2, w[5])) BY EightWords, Pi1Undone, Pi2Undone
  <2> QED BY <2>1, EightWords, Pi4Undone
<1>10. PICK d4 \in Blk : d4 = CorePi3(d3, w[2], w[3]) /\ d4 = Pi3(d3, w[2], w[3])
  BY <1>1, EightWords
<1>11. DecryptTurn(CorePi3, b, w) = DecryptTurn(Pi3, b, w)
  BY <1>7, <1>8, <1>9, <1>10 DEF DecryptTurn
<1>12. Pi1(Pi2(d4, w[1])) \in Blk
  <2>1. PICK q \in Blk : q = Pi2(d4, w[1]) BY EightWords, Pi2Undone
  <2> QED BY <2>1, Pi1Undone
<1>13. DecryptTurn(Pi3, b, w) \in Blk BY <1>7, <1>8, <1>9, <1>10, <1>12 DEF DecryptTurn
<1> QED BY <1>6, <1>11, <1>13

----------------------------------------------------------------------------
(* The loops.                                                              *)

LEMMA TurnsAre ==
  ASSUME NEW V, NEW b \in V, NEW G \in [V -> V]
  PROVE  \E f \in [0..Round -> V] : Repeats(f, b, G, Round) /\ Turns(G, b) = f[Round]
<1>1. Round \in Nat BY WordAssumption
<1>2. PICK f \in [0..Round -> V] : Repeats(f, b, G, Round) BY <1>1, RepeatsExist
<1> DEFINE Body(h) == [n \in 0..Round |-> IF n = 0 THEN b ELSE G[h[n - 1]]]
           K == CHOOSE h : h = Body(h)
<1>3. f = Body(f)
  <2>1. \A n \in 0..Round : f[n] = IF n = 0 THEN b ELSE G[f[n - 1]]
    BY <1>1, <1>2 DEF Repeats
  <2> QED BY <1>2, <2>1
<1>4. K = Body(K) BY <1>3
<1>5. PICK k : k = K OBVIOUS
<1>6. \A n \in 0..Round : k[n] = IF n = 0 THEN b ELSE G[k[n - 1]]
  <2> HIDE DEF K
  <2>1. k = [n \in 0..Round |-> IF n = 0 THEN b ELSE G[k[n - 1]]] BY <1>4, <1>5
  <2> QED BY <2>1
<1> DEFINE T == {n \in Nat : n <= Round => k[n] = f[n]}
<1>7. 0 \in T
  <2>1. k[0] = b /\ f[0] = b BY <1>1, <1>2, <1>6 DEF Repeats
  <2> QED BY <2>1
<1>8. ASSUME NEW n \in Nat, n \in T PROVE n + 1 \in T
  <2>1. SUFFICES ASSUME n + 1 <= Round PROVE k[n + 1] = f[n + 1] OBVIOUS
  <2>2. k[n] = f[n] /\ n + 1 \in 1..Round /\ (n + 1) - 1 = n BY <1>1, <1>8, <2>1
  <2>3. k[n + 1] = G[k[n]] BY <1>6, <2>2
  <2>4. f[n + 1] = G[f[n]] BY <1>2, <2>2 DEF Repeats
  <2> QED BY <2>2, <2>3, <2>4
<1>9. k[Round] = f[Round]
  <2>1. \A n \in Nat : n \in T => n + 1 \in T BY <1>8
  <2>2. Nat \subseteq T
    <3> HIDE DEF T
    <3> QED BY <1>7, <2>1, Upward
  <2> QED BY <1>1, <2>2
<1>10. Turns(G, b) = K[Round] BY DEF Turns
<1> QED BY <1>2, <1>5, <1>9, <1>10

\* The key schedule makes eight words, the same in both implementations.
LEMMA ScheduleIs ==
  ASSUME NEW dk \in Blk, NEW sk \in [1..8 -> Word]
  PROVE  /\ Schedule(dk, sk) \in [1..8 -> Word]
         /\ CoreSchedule(dk, sk) = Schedule(dk, sk)
<1>1. PICK a1 \in Blk : a1 = Pi2(Pi1(dk), sk[1]) BY EightWords, Pi1Undone, Pi2Undone
<1>2. PICK a2 \in Blk : a2 = Pi3(a1, sk[2], sk[3]) /\ a2 = CorePi3(a1, sk[2], sk[3])
  BY EightWords, Pi3Undone, CorePi3Is
<1>3. PICK a3 \in Blk : a3 = Pi4(a2, sk[4]) BY EightWords, Pi4Undone
<1>4. PICK a4 \in Blk : a4 = Pi1(a3) BY Pi1Undone
<1>5. PICK a5 \in Blk : a5 = Pi2(a4, sk[5]) BY EightWords, Pi2Undone
<1>6. PICK a6 \in Blk : a6 = Pi3(a5, sk[6], sk[7]) /\ a6 = CorePi3(a5, sk[6], sk[7])
  BY EightWords, Pi3Undone, CorePi3Is
<1>7. PICK a7 \in Blk : a7 = Pi4(a6, sk[8]) BY EightWords, Pi4Undone
<1>8. PICK a8 \in Blk : a8 = Pi1(a7) BY Pi1Undone
<1>9. PICK t : t = <<a1[1], a2[2], a3[1], a4[2], a5[1], a6[2], a7[1], a8[2]>> OBVIOUS
<1>10. Schedule(dk, sk) = t
  BY <1>1, <1>2, <1>3, <1>4, <1>5, <1>6, <1>7, <1>8, <1>9 DEF Schedule, ScheduleWith
<1>11. CoreSchedule(dk, sk) = t
  BY <1>1, <1>2, <1>3, <1>4, <1>5, <1>6, <1>7, <1>8, <1>9 DEF CoreSchedule, ScheduleWith
<1>12. /\ a1[1] \in Word /\ a2[2] \in Word /\ a3[1] \in Word /\ a4[2] \in Word
       /\ a5[1] \in Word /\ a6[2] \in Word /\ a7[1] \in Word /\ a8[2] \in Word
  BY WordsAre
<1>13. t \in [1..8 -> Word] BY <1>9, <1>12
<1> QED BY <1>10, <1>11, <1>13

\* multi2.c and multi2.cc, which are written differently, are the same cipher: they
\* make the same work keys, encrypt and decrypt alike, for any number of rounds
\* and bits (core_schedule, core_encrypt, core_decrypt; schedule, encrypt, decrypt
\* of multi2_cipher.h).
THEOREM SameCipher ==
  /\ \A dk \in Blk, sk \in [1..8 -> Word] : CoreSchedule(dk, sk) = Schedule(dk, sk)
  /\ \A w \in [1..8 -> Word] : CoreEncrypt(w) = Encrypt(w) /\ CoreDecrypt(w) = Decrypt(w)
<1>1. ASSUME NEW w \in [1..8 -> Word]
      PROVE  CoreEncrypt(w) = Encrypt(w) /\ CoreDecrypt(w) = Decrypt(w)
  <2>1. [c \in Blk |-> EncryptTurn(CorePi3, c, w)] = [c \in Blk |-> EncryptTurn(Pi3, c, w)]
    BY SameTurns
  <2>2. [c \in Blk |-> DecryptTurn(CorePi3, c, w)] = [c \in Blk |-> DecryptTurn(Pi3, c, w)]
    BY SameTurns
  <2> QED BY <2>1, <2>2 DEF CoreEncrypt, Encrypt, CoreDecrypt, Decrypt
<1> QED BY <1>1, ScheduleIs

\* decrypt undoes encrypt, under any eight work keys and for any number of rounds
\* and bits: MULTI2 is what CipherModes assumes of its block cipher
\* (CipherAssumption).
THEOREM DecryptUndoesEncrypt ==
  ASSUME NEW w \in [1..8 -> Word]
  PROVE  /\ Encrypt(w) \in [Blk -> Blk] /\ Decrypt(w) \in [Blk -> Blk]
         /\ \A b \in Blk : Decrypt(w)[Encrypt(w)[b]] = b
<1>0. Round \in Nat BY WordAssumption
<1>1. PICK E : E = [c \in Blk |-> EncryptTurn(Pi3, c, w)] OBVIOUS
<1>2. PICK D : D = [c \in Blk |-> DecryptTurn(Pi3, c, w)] OBVIOUS
<1>3. E \in [Blk -> Blk] /\ D \in [Blk -> Blk] /\ \A c \in Blk : D[E[c]] = c
  BY <1>1, <1>2, TurnUndone, SameTurns
<1>4. Encrypt(w) = [b \in Blk |-> Turns(E, b)] BY <1>1 DEF Encrypt
<1>5. Decrypt(w) = [b \in Blk |-> Turns(D, b)] BY <1>2 DEF Decrypt
<1>6. \A b \in Blk : Turns(E, b) \in Blk /\ Turns(D, b) \in Blk
  <2>1. ASSUME NEW b \in Blk, NEW G \in [Blk -> Blk] PROVE Turns(G, b) \in Blk
    <3>1. PICK f \in [0..Round -> Blk] : Turns(G, b) = f[Round] BY TurnsAre
    <3> QED BY <1>0, <3>1
  <2> QED BY <1>3, <2>1
<1>7. ASSUME NEW b \in Blk PROVE Turns(D, Turns(E, b)) = b
  <2>1. PICK f \in [0..Round -> Blk] : Repeats(f, b, E, Round) /\ Turns(E, b) = f[Round]
    BY <1>3, TurnsAre
  <2>2. f[Round] \in Blk BY <1>0, <2>1
  <2>3. PICK g \in [0..Round -> Blk] :
          Repeats(g, f[Round], D, Round) /\ Turns(D, f[Round]) = g[Round]
    BY <1>3, <2>2, TurnsAre
  <2> DEFINE T == {n \in Nat : n <= Round => g[n] = f[Round - n]}
  <2>4. 0 \in T
    <3>1. g[0] = f[Round] /\ Round - 0 = Round BY <1>0, <2>3 DEF Repeats
    <3> QED BY <3>1
  <2>5. ASSUME NEW n \in Nat, n \in T PROVE n + 1 \in T
    <3>1. SUFFICES ASSUME n + 1 <= Round PROVE g[n + 1] = f[Round - (n + 1)] OBVIOUS
    <3>2. PICK m \in Nat : m = Round - (n + 1) /\ m + 1 = Round - n /\ m + 1 \in 1..Round
      BY <1>0, <3>1
    <3>3. g[n] = f[m + 1] BY <1>0, <2>5, <3>1, <3>2
    <3>4. n + 1 \in 1..Round /\ (n + 1) - 1 = n BY <1>0, <3>1
    <3>5. g[n + 1] = D[g[n]] BY <2>3, <3>4 DEF Repeats
    <3>6. f[m + 1] = E[f[m]]
      <4>1. (m + 1) - 1 = m OBVIOUS
      <4> QED BY <2>1, <3>2, <4>1 DEF Repeats
    <3>7. f[m] \in Blk
      <4>1. m \in 0..Round BY <1>0, <3>2
      <4> QED BY <2>1, <4>1
    <3> QED BY <1>3, <3>2, <3>3, <3>5, <3>6, <3>7
  <2>6. g[Round] = f[0]
    <3>1. \A n \in Nat : n \in T => n + 1 \in T BY <2>5
    <3>2. Nat \subseteq T
      <4> HIDE DEF T
      <4> QED BY <2>4, <3>1, Upward
    <3>3. Round - Round = 0 BY <1>0
    <3>4. g[Round] = f[Round - Round] BY <1>0, <3>2
    <3> QED BY <3>3, <3>4
  <2> QED BY <2>1, <2>3, <2>6 DEF Repeats
<1> QED BY <1>4, <1>5, <1>6, <1>7
=============================================================================
