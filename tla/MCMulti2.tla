------------------------------ MODULE MCMulti2 ------------------------------
(* Multi2 with two decryptors and two halves of keys. *)
EXTENDS Multi2, TLC

CONSTANTS d1, d2, s1, k1, k2

MCDecryptor == {d1, d2}
MCStatus == {s1}
MCDataKey == {k1, k2}
MCSupports == {1, 3}
MCModes == {0, 3}
MCRounds == {3, 4}
MCSymmetry == Permutations(MCDecryptor) \cup Permutations(MCDataKey)
=============================================================================
