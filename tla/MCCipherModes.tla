--------------------------- MODULE MCCipherModes ---------------------------
(***************************************************************************)
(* CipherModes with MULTI2 on words of three bits: encrypted as multi2.cc  *)
(* does, decrypted as multi2.c does.                                       *)
(***************************************************************************)
EXTENDS CipherModes, Multi2Round, FiniteSets
Bits == INSTANCE Bitwise

MCXorW(x, y) == Bits!^^(x, y)
MCOrW(x, y) == Bits!|(x, y)

MCSystemKey == <<1, 6, 3, 0, 7, 2, 5, 4>>
MCKey == {<<0, 5>>, <<6, 1>>}
MCPlain == {<<0, 0>>, <<7, 7>>, <<1, 4>>, <<5, 2>>}
MCIv == <<3, 6>>
MCZero == <<0, 0>>
MCXorTable == [x \in Word |-> [y \in Word |-> XorW(x, y)]]
MCXor(a, b) == <<MCXorTable[a[1]][b[1]], MCXorTable[a[2]][b[2]]>>
MCPartXor(p, b) == MCXorTable[p][b[1]]
MCEnc == [k \in MCKey |-> Encrypt(Schedule(k, MCSystemKey))]
MCDec == [k \in MCKey |-> CoreDecrypt(CoreSchedule(k, MCSystemKey))]
MCWidths == {1, 2, 3}
=============================================================================
