---------------------------- MODULE Multi2Round ----------------------------
(***************************************************************************)
(* The block cipher MULTI2 with words of W bits: the pi functions and the  *)
(* key schedule, as multi2.c and as multi2_cipher.h write them.  Rotations *)
(* are by the source's numbers, modulo W.                                  *)
(***************************************************************************)
EXTENDS Integers

CONSTANTS
  W, Round,
  XorW(_, _), OrW(_, _)  \* ^ and | of words

\* 2 ^ n, with its recursion in view
Power[n \in 0..W] == IF n = 0 THEN 1 ELSE 2 * Power[n - 1]

Word == 0..(Power[W] - 1)
Blk == Word \X Word

ASSUME WordAssumption == W \in Nat \ {0} /\ Round \in Nat

ASSUME BitsAssumption ==
  \A x, y \in Word : XorW(x, y) \in Word /\ OrW(x, y) \in Word /\ XorW(XorW(x, y), y) = x

Add(x, y) == (x + y) % Power[W]

\* left_rotate_uint32, rot
Rotate(x, n) == Add(x * Power[n % W], x \div Power[W - (n % W)])

\* rot1_sub of multi2_block.h, which saves a rotation
Rot1Sub(x) == Add(x, x \div Power[W - 1])

\* and what multi2.c computes instead
RotateLess(x) == Add(Rotate(x, 1), Power[W] - x)

Pi1(b) == <<b[1], XorW(b[2], b[1])>>

Pi2(b, k) ==
  LET y == Add(b[2], k)
      z == Add(Add(Rotate(y, 1), y), Power[W] - 1)
  IN  <<XorW(b[1], XorW(Rotate(z, 4), z)), b[2]>>

Pi3Sum(x, k, l) ==
  LET y == Add(x, k)
      z == Add(Add(Rotate(y, 2), y), 1)
  IN  Add(XorW(Rotate(z, 8), z), l)

Pi3Mix(b, c) == <<b[1], XorW(b[2], XorW(Rotate(c, 16), OrW(c, b[1])))>>

Pi3(b, k, l) == Pi3Mix(b, Rot1Sub(Pi3Sum(b[1], k, l)))
CorePi3(b, k, l) == Pi3Mix(b, RotateLess(Pi3Sum(b[1], k, l)))

Pi4(b, k) ==
  LET y == Add(b[2], k)
  IN  <<XorW(b[1], Add(Add(Rotate(y, 2), y), 1)), b[2]>>

\* The two implementations differ in their pi3, P3, alone.
ScheduleWith(P3(_, _, _), dk, sk) ==
  LET a1 == Pi2(Pi1(dk), sk[1])
      a2 == P3(a1, sk[2], sk[3])
      a3 == Pi4(a2, sk[4])
      a4 == Pi1(a3)
      a5 == Pi2(a4, sk[5])
      a6 == P3(a5, sk[6], sk[7])
      a7 == Pi4(a6, sk[8])
  IN  <<a1[1], a2[2], a3[1], a4[2], a5[1], a6[2], a7[1], Pi1(a7)[2]>>

Schedule(dk, sk) == ScheduleWith(Pi3, dk, sk)
CoreSchedule(dk, sk) == ScheduleWith(CorePi3, dk, sk)

EncryptTurn(P3(_, _, _), b, w) ==
  Pi4(P3(Pi2(Pi1(Pi4(P3(Pi2(Pi1(b), w[1]), w[2], w[3]), w[4])), w[5]), w[6], w[7]), w[8])

DecryptTurn(P3(_, _, _), b, w) ==
  Pi1(Pi2(P3(Pi4(Pi1(Pi2(P3(Pi4(b, w[8]), w[6], w[7]), w[5])), w[4]), w[2], w[3]), w[1]))

\* All turns of a loop over block b
Turns(Turn, b) ==
  LET f[n \in 0..Round] == IF n = 0 THEN b ELSE Turn[f[n - 1]] IN f[Round]

\* cipher::encrypt and core_encrypt, cipher::decrypt and core_decrypt
Encrypt(w) == [b \in Blk |-> Turns([c \in Blk |-> EncryptTurn(Pi3, c, w)], b)]
CoreEncrypt(w) == [b \in Blk |-> Turns([c \in Blk |-> EncryptTurn(CorePi3, c, w)], b)]

Decrypt(w) == [b \in Blk |-> Turns([c \in Blk |-> DecryptTurn(Pi3, c, w)], b)]
CoreDecrypt(w) == [b \in Blk |-> Turns([c \in Blk |-> DecryptTurn(CorePi3, c, w)], b)]
=============================================================================
