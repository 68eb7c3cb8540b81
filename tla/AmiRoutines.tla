----------------------------- MODULE AmiRoutines -----------------------------
(***************************************************************************)
(* The straight-line routines of benchmarks/ami-suite.  Where the C program *)
(* branched on a secret, the assembly computes both outcomes and keeps one  *)
(* by masks ("Molnar's method" in the files).  Words are signed, of W bits; *)
(* a mask is all ones or all zeros, here a Boolean.                         *)
(***************************************************************************)
EXTENDS Integers, Sequences, FiniteSets

CONSTANT
  W  (* width of a word: 32, less in a model; half of it stands for 16      *)

ASSUME WidthAssumption == W \in Nat /\ W % 2 = 0 /\ W >= 8

power2[n \in 0 .. W] == IF n = 0 THEN 1 ELSE 2 * power2[n - 1]

SignBit == power2[W - 1]

Word == -SignBit .. SignBit - 1

Signed(x) == ((x + SignBit) % power2[W]) - SignBit

Unsigned(x) == x % power2[W]

Lower == power2[W \div 2]

(* (x & mask) | (y & ~mask)                                                  *)
Masked(mask, x, y) == IF mask THEN x ELSE y

-----------------------------------------------------------------------------
diamond(a, b) ==
  LET above == Masked(b < a, 7, 0)
      a6 == Masked(a < b, 3, above)
  IN  IF b = 10 THEN Signed(4 * a6) ELSE a6

fork(a, b) == Masked(a < b, Signed(a + 2), 3)

triangle(a, b) == Masked(a < b, 7, 3)

(* v after three calls of foo, which keeps it under the mask set before.     *)
ifthenloop(a, b) ==
  LET v[n \in 0 .. 3] == IF n = 0 THEN 0 ELSE Masked(b < a, v[n - 1], v[n - 1] + 1)
  IN  v[3]

(* Not linear: the branch on a is still there.                               *)
call(a, b) == IF a = 2 THEN b ELSE 0

(* Cases 1 to 15, each tested against the argument; the last is there twice. *)
switch_case(a) ==
  LET label(n) == IF n = 16 THEN 15 ELSE n
      a0[n \in 0 .. 16] == IF n = 0 THEN a ELSE Masked(a = label(n), label(n), a0[n - 1])
  IN  a0[16]

UnlockComparesLast(password, data) ==
  LET a1[n \in 0 .. Len(password)] ==
        IF n = 0 THEN 0 ELSE Masked(password[n] # data[n], 64, 0)
  IN  IF a1[Len(password)] = 0 THEN 0 ELSE 5

(* Every byte is compared, and the bit of a1 stays once it is set.           *)
BSL430_unlock_BSL(password, data) ==
  LET a1[n \in 0 .. Len(password)] ==
        IF n = 0 THEN 0 ELSE Masked(password[n] # data[n], 64, a1[n - 1])
  IN  IF a1[Len(password)] = 0 THEN 0 ELSE 5

(* t3 is whatever the caller left in the register.                           *)
lookup_val(id, t3) ==
  LET small == id < 10
      a0 == Masked(~ small, 7, id)
  IN  Masked(small, Signed(2 * t3 + 2), a0)

(* ids and qty have one length. The masks are set before the call and kept   *)
(* in s5 and s6; the share looked up is always 42.                           *)
share_value(ids, qty, t3) ==
  LET s3[n \in 0 .. Len(ids)] ==
        IF n = 0 THEN 0
        ELSE Masked(ids[n] # 42, s3[n - 1],
                    Signed(Signed(qty[n] * lookup_val(42, t3)) + s3[n - 1]))
  IN  s3[Len(ids)]

-----------------------------------------------------------------------------
(* The third case without the borrow.                                        *)
MulmodForgetsBorrow(a, b) ==
  LET a0 == a % Lower
      a1 == b % Lower
      afterA == Masked(a0 = 0, Lower - 1 - a1 + 2, a0)
      afterB == Masked(a1 = 0, Lower - 1 - afterA + 2, afterA)
      product == Unsigned(a1 * afterB)
  IN  Masked(a0 # 0 /\ a1 # 0, (product % Lower) - (product \div Lower), afterB) % Lower

(* Multiplication modulo Lower + 1, in which 0 stands for Lower. The second  *)
(* case reads what the first has made of a0; the third is masked by both.    *)
mulmod16(a, b) ==
  LET a0 == a % Lower
      a1 == b % Lower
      aZero == a0 = 0
      bZero == a1 = 0
      afterA == Masked(aZero, Lower - 1 - a1 + 2, a0)
      afterB == Masked(bZero, Lower - 1 - afterA + 2, afterA)
      product == Unsigned(a1 * afterB)
      low == product % Lower
      high == product \div Lower
      both == ~ aZero /\ ~ bZero
  IN  Masked(both, low - high + (IF low < high THEN 1 ELSE 0), afterB) % Lower

(* x % 7 of C, by multiplication with a magic number.                        *)
Rem7(x) == IF x >= 0 THEN x % 7 ELSE -((-x) % 7)

(* One of the W passes. k & 0x80000001 is 1 for odd k that are not negative. *)
ModexpPass(s) ==
  LET taken == s.k >= 0 /\ s.k % 2 = 1
      t3 == Signed(s.product * s.y)
      square == Signed(s.y * s.y)
  IN  [product |-> Masked(~ taken, s.product, Rem7(t3)),
       y |-> Unsigned(square) % 7,
       k |-> s.k \div 2]

modexp2(y, k) ==
  LET s[n \in 0 .. W] ==
        IF n = 0 THEN [product |-> 1, y |-> y, k |-> k] ELSE ModexpPass(s[n - 1])
  IN  Rem7(s[W].product)
=============================================================================
