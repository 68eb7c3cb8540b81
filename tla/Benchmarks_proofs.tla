--------------------------- MODULE Benchmarks_proofs ---------------------------
(***************************************************************************)
(* Proofs about the benchmark programs.  AmiSuite, for any width of words,  *)
(* arguments, passwords, portfolios and graphs: the masked routines compute *)
(* what the branches would; a union-find forest stands behind kruskal.      *)
(* EvalPy, for any modes, configurations and size of the pipes: what the    *)
(* script has read of a simulation and what is still in the pipe are        *)
(* together what the simulation has printed.                                *)
(***************************************************************************)
EXTENDS EvalPy, AmiSuite, SequenceTheorems, FiniteSetTheorems, FunctionTheorems,
        Induction, TLAPS

-----------------------------------------------------------------------------
(* Words: the powers of two below them, and arithmetic that wraps.           *)
LEMMA Powers ==
  /\ power2 \in [0 .. W -> Nat \ {0}]
  /\ power2[0] = 1
  /\ \A n \in 1 .. W : power2[n] = 2 * power2[n - 1]
<1> DEFINE Loop(f) == f = [n \in 0 .. W |-> IF n = 0 THEN 1 ELSE 2 * f[n - 1]]
<1> W \in Nat
  BY WidthAssumption
<1>1. power2 = CHOOSE f : Loop(f)
  BY Zenon DEF power2
<1>2. PICK V : V = Nat \ {0}
  OBVIOUS
<1>3. PICK step : step = [n \in 1 .. W |-> [x \in V |-> 2 * x]]
  OBVIOUS
<1>4. PICK f : Iterates(f, W, V, 1, step)
  <2>1. 1 \in V /\ step \in [1 .. W -> [V -> V]]
    BY <1>2, <1>3
  <2> QED
    BY <2>1, Recursion, Zenon
<1>5. f \in [0 .. W -> V] /\ f[0] = 1 /\ \A n \in 1 .. W : f[n] = step[n][f[n - 1]]
  BY <1>4 DEF Iterates
<1>6. Loop(f)
  <2>1. ASSUME NEW n \in 0 .. W, n # 0 PROVE f[n] = 2 * f[n - 1]
    <3>1. n \in 1 .. W /\ n - 1 \in 0 .. W
      BY <2>1
    <3> QED
      BY <1>3, <1>5, <3>1
  <2> QED
    BY <1>5, <2>1
<1>7. Loop(power2)
  BY <1>1, <1>6, Zenon
<1>8. power2[0] = 1 /\ \A n \in 1 .. W : power2[n] = 2 * power2[n - 1]
  BY <1>7
<1>9. PICK T : T = {n \in 0 .. W : power2[n] \in Nat \ {0}}
  OBVIOUS
<1> HIDE DEF Loop
<1>10. 0 \in T
  BY <1>8, <1>9
<1>11. ASSUME NEW n \in 0 .. W - 1, n \in T PROVE n + 1 \in T
  <2>1. n + 1 \in 1 .. W /\ n + 1 \in 0 .. W /\ (n + 1) - 1 = n
    OBVIOUS
  <2>2. power2[n + 1] = 2 * power2[n]
    BY <1>8, <2>1
  <2> QED
    BY <1>9, <1>11, <2>1, <2>2
<1>12. \A n \in 0 .. W : power2[n] \in Nat \ {0}
  BY <1>9, <1>10, <1>11, RangeInduction
<1>13. DOMAIN power2 = 0 .. W /\ power2 = [n \in DOMAIN power2 |-> power2[n]]
  BY <1>7 DEF Loop
<1> QED
  BY <1>8, <1>12, <1>13

LEMMA PowersGrow ==
  ASSUME NEW m \in 0 .. W, NEW n \in m .. W
  PROVE  power2[m] <= power2[n]
<1> W \in Nat
  BY WidthAssumption
<1>1. PICK T : T = {k \in m .. W : power2[m] <= power2[k]}
  OBVIOUS
<1>2. power2[m] \in Nat
  BY Powers
<1>3. m \in T
  BY <1>1, <1>2
<1>4. ASSUME NEW k \in m .. W - 1, k \in T PROVE k + 1 \in T
  <2>1. k + 1 \in 1 .. W /\ k + 1 \in m .. W /\ (k + 1) - 1 = k /\ k \in 0 .. W
    OBVIOUS
  <2>2. power2[k + 1] = 2 * power2[k] /\ power2[k] \in Nat
    BY <2>1, Powers
  <2> QED
    BY <1>1, <1>2, <1>4, <2>1, <2>2
<1>5. \A k \in m .. W : k \in T
  BY <1>3, <1>4, RangeInduction
<1> QED
  BY <1>1, <1>5

LEMMA FirstPowers == power2[4] = 16 /\ power2[7] = 128
<1>1. ASSUME NEW n \in 1 .. 7 PROVE power2[n] = 2 * power2[n - 1]
  <2>1. n \in 1 .. W
    BY WidthAssumption
  <2> QED
    BY <2>1, Powers
<1>2. power2[0] = 1
  BY Powers
<1>3. power2[1] = 2 /\ power2[2] = 4 /\ power2[3] = 8 /\ power2[4] = 16
  BY <1>1, <1>2
<1>4. power2[5] = 32 /\ power2[6] = 64 /\ power2[7] = 128
  BY <1>1, <1>3
<1> QED
  BY <1>3, <1>4

LEMMA Words ==
  /\ SignBit \in Nat /\ SignBit >= 128 /\ power2[W] = 2 * SignBit
  /\ Lower \in Nat /\ Lower >= 16 /\ Lower * Lower = power2[W]
<1> PICK H \in Nat : W = 2 * H /\ W \div 2 = H /\ H >= 4
  BY WidthAssumption
<1>1. W - 1 \in 7 .. W /\ H \in 4 .. W /\ W \in 1 .. W /\ 7 \in 0 .. W /\ 4 \in 0 .. W
      /\ H \in 0 .. W
  OBVIOUS
<1>2. SignBit \in Nat /\ SignBit >= 128 /\ power2[W] = 2 * SignBit
  <2>1. power2[W - 1] \in Nat /\ power2[W] = 2 * power2[W - 1]
    BY <1>1, Powers
  <2>2. power2[7] <= power2[W - 1]
    BY <1>1, PowersGrow
  <2> QED
    BY <2>1, <2>2, FirstPowers DEF SignBit
<1>3. Lower \in Nat /\ Lower >= 16
  <2>1. power2[H] \in Nat
    BY <1>1, Powers
  <2>2. power2[4] <= power2[H]
    BY <1>1, PowersGrow
  <2> QED
    BY <2>1, <2>2, FirstPowers DEF Lower
<1>4. PICK T : T = {n \in 0 .. H : power2[2 * n] = power2[n] * power2[n]}
  OBVIOUS
<1>5. 0 \in T
  BY <1>4, Powers
<1>6. ASSUME NEW n \in 0 .. H - 1, n \in T PROVE n + 1 \in T
  <2>1. /\ n + 1 \in 1 .. W /\ (n + 1) - 1 = n /\ n \in 0 .. W /\ n + 1 \in 0 .. H
        /\ 2 * n + 1 \in 1 .. W /\ 2 * n + 2 \in 1 .. W
        /\ (2 * n + 1) - 1 = 2 * n /\ (2 * n + 2) - 1 = 2 * n + 1
        /\ 2 * (n + 1) = 2 * n + 2 /\ 2 * n \in 0 .. W
    OBVIOUS
  <2>2. power2[n + 1] = 2 * power2[n]
    BY <2>1, Powers
  <2>3. power2[2 * n + 1] = 2 * power2[2 * n] /\ power2[2 * n + 2] = 2 * power2[2 * n + 1]
    <3>1. \A k \in 1 .. W : power2[k] = 2 * power2[k - 1]
      BY Powers
    <3> QED
      BY <2>1, <3>1
  <2>4. power2[2 * n] = power2[n] * power2[n]
    BY <1>4, <1>6
  <2>5. PICK p \in Nat, q \in Nat : p = power2[n] /\ q = power2[2 * n] /\ q = p * p
    BY <2>1, <2>4, Powers
  <2>6. 2 * (2 * q) = (2 * p) * (2 * p)
    BY <2>5
  <2> QED
    BY <1>4, <2>1, <2>2, <2>3, <2>5, <2>6
<1>7. \A n \in 0 .. H : n \in T
  BY <1>5, <1>6, RangeInduction
<1>8. power2[W] = power2[H] * power2[H]
  BY <1>4, <1>7
<1> QED
  BY <1>2, <1>3, <1>8 DEF Lower

LEMMA ModSum ==
  ASSUME NEW p \in Nat, p > 0, NEW x \in Int, NEW y \in Int
  PROVE  ((x % p) + y) % p = (x + y) % p
<1>1. PICK q \in Int, r \in 0 .. p - 1 : x = p * q + r /\ x % p = r
  OBVIOUS
<1>2. PICK k \in Int, s \in 0 .. p - 1 : r + y = p * k + s /\ (r + y) % p = s
  OBVIOUS
<1>3. x + y = p * (q + k) + s
  BY <1>1, <1>2
<1>4. (x + y) % p = s
  <2>1. PICK j \in Int : j = q + k
    OBVIOUS
  <2>2. (p * j + s) % p = s
    OBVIOUS
  <2> QED
    BY <1>3, <2>1, <2>2
<1> QED
  BY <1>1, <1>2, <1>4

LEMMA SignedOfWord ==
  ASSUME NEW x \in Word
  PROVE  Signed(x) = x
<1>1. x \in Int /\ -SignBit <= x /\ x < SignBit
  BY Words DEF Word
<1>2. (x + SignBit) % power2[W] = x + SignBit
  BY <1>1, Words
<1> QED
  BY <1>1, <1>2, Words DEF Signed

LEMMA SignedOfSum ==
  ASSUME NEW x \in Int, NEW y \in Int
  PROVE  /\ Signed(Signed(x) + y) = Signed(x + y)
         /\ Signed(x) \in Int
<1> PICK p \in Nat, h \in Nat : p = power2[W] /\ h = SignBit /\ p > 0
  BY Words
<1>1. Signed(x) = ((x + h) % p) - h /\ (x + h) % p \in Int
  BY DEF Signed
<1>2. Signed(x) + y + h = ((x + h) % p) + y
  BY <1>1
<1>3. (((x + h) % p) + y) % p = ((x + h) + y) % p
  <2>1. PICK u \in Int : u = x + h
    OBVIOUS
  <2> QED
    BY <2>1, ModSum
<1>4. (x + h) + y = x + y + h
  OBVIOUS
<1> QED
  BY <1>1, <1>2, <1>3, <1>4 DEF Signed

-----------------------------------------------------------------------------
(* The routines' loops.                                                      *)
LEMMA Ifthenloop ==
  ASSUME NEW a \in Word, NEW b \in Word
  PROVE  ifthenloop(a, b) = IF b < a THEN 0 ELSE 3
<1> DEFINE Loop(v) ==
      v = [n \in 0 .. 3 |-> IF n = 0 THEN 0 ELSE Masked(b < a, v[n - 1], v[n - 1] + 1)]
<1>1. ifthenloop(a, b) = (CHOOSE v : Loop(v))[3]
  BY Zenon DEF ifthenloop
<1>2. PICK f : f = [n \in 0 .. 3 |-> IF b < a THEN 0 ELSE n]
  OBVIOUS
<1>3. Loop(f)
  BY <1>2 DEF Masked
<1>4. PICK v : v = CHOOSE g : Loop(g)
  OBVIOUS
<1>5. Loop(v)
  BY <1>3, <1>4, Zenon
<1>6. v[0] = 0 /\ \A n \in 1 .. 3 : v[n] = Masked(b < a, v[n - 1], v[n - 1] + 1)
  BY <1>5
<1> HIDE DEF Loop
<1>7. CASE b < a
  <2>1. v[1] = 0 /\ v[2] = 0 /\ v[3] = 0
    BY <1>6, <1>7 DEF Masked
  <2> QED
    BY <1>1, <1>4, <1>7, <2>1
<1>8. CASE ~ (b < a)
  <2>1. v[1] = 1 /\ v[2] = 2 /\ v[3] = 3
    BY <1>6, <1>8 DEF Masked
  <2> QED
    BY <1>1, <1>4, <1>8, <2>1
<1> QED
  BY <1>7, <1>8

LEMMA SwitchCase ==
  ASSUME NEW a
  PROVE  switch_case(a) = a
<1> DEFINE label(n) == IF n = 16 THEN 15 ELSE n
           Loop(a0) == a0 = [n \in 0 .. 16 |->
                               IF n = 0 THEN a ELSE Masked(a = label(n), label(n), a0[n - 1])]
<1>1. switch_case(a) = (CHOOSE a0 : Loop(a0))[16]
  BY Zenon DEF switch_case
<1>2. PICK f : f = [n \in 0 .. 16 |-> a]
  OBVIOUS
<1>3. Loop(f)
  BY <1>2 DEF Masked
<1>4. PICK a0 : a0 = CHOOSE g : Loop(g)
  OBVIOUS
<1>5. Loop(a0)
  BY <1>3, <1>4, Zenon
<1>6. a0[0] = a /\ \A n \in 1 .. 16 : a0[n] = Masked(a = label(n), label(n), a0[n - 1])
  BY <1>5
<1> HIDE DEF Loop
<1>7. \A n \in 0 .. 16 : a0[n] = f[n]
  <2>1. a0[0] = f[0]
    BY <1>2, <1>6
  <2>2. ASSUME NEW n \in 1 .. 16, a0[n - 1] = f[n - 1] PROVE a0[n] = f[n]
    <3>1. a0[n - 1] = a /\ f[n] = a
      BY <1>2, <2>2
    <3> QED
      BY <1>6, <3>1 DEF Masked
  <2>3. Alike(a0, f, 16)
    BY <2>1, <2>2 DEF Alike
  <2> QED
    BY <2>3, SameSteps
<1> QED
  BY <1>1, <1>2, <1>4, <1>7

LEMMA Unlock ==
  ASSUME NEW password \in Seq(Word), NEW data \in Seq(Word), Len(password) = Len(data)
  PROVE  BSL430_unlock_BSL(password, data) = 0 <=> password = data
<1> DEFINE Loop(a1) == a1 = [n \in 0 .. Len(password) |->
                               IF n = 0 THEN 0
                               ELSE Masked(password[n] # data[n], 64, a1[n - 1])]
           Same(n) == \A j \in 1 .. n : password[j] = data[j]
<1>1. BSL430_unlock_BSL(password, data) =
        IF (CHOOSE a1 : Loop(a1))[Len(password)] = 0 THEN 0 ELSE 5
  BY Zenon DEF BSL430_unlock_BSL
<1> PICK last \in Nat : last = Len(password)
  OBVIOUS
<1>2. PICK f : f = [n \in 0 .. last |-> IF Same(n) THEN 0 ELSE 64]
  OBVIOUS
<1>3. ASSUME NEW n \in 1 .. last
      PROVE  f[n] = Masked(password[n] # data[n], 64, f[n - 1])
  <2>1. n - 1 \in 0 .. last /\ n \in 0 .. last
    OBVIOUS
  <2>2. Same(n) <=> Same(n - 1) /\ password[n] = data[n]
    OBVIOUS
  <2>3. f[n] = (IF Same(n) THEN 0 ELSE 64) /\ f[n - 1] = (IF Same(n - 1) THEN 0 ELSE 64)
    BY <1>2, <2>1
  <2> HIDE DEF Same
  <2> QED
    BY <2>2, <2>3 DEF Masked
<1>4. f[0] = 0
  BY <1>2
<1>5. Loop(f)
  <2>1. ASSUME NEW n \in 0 .. last
        PROVE  f[n] = IF n = 0 THEN 0 ELSE Masked(password[n] # data[n], 64, f[n - 1])
    <3>1. CASE n = 0
      BY <1>4, <3>1
    <3>2. CASE n # 0
      BY <1>3, <3>2
    <3> QED
      BY <3>1, <3>2
  <2> HIDE DEF Same
  <2>2. f = [n \in 0 .. last |-> f[n]]
    BY <1>2
  <2> QED
    BY <2>1, <2>2
<1>6. PICK a1 : a1 = CHOOSE g : Loop(g)
  OBVIOUS
<1>7. Loop(a1)
  BY <1>5, <1>6, Zenon
<1>8. /\ a1[0] = 0
      /\ \A n \in 1 .. last : a1[n] = Masked(password[n] # data[n], 64, a1[n - 1])
  BY <1>7
<1> HIDE DEF Loop, Same
<1>9. \A n \in 0 .. last : a1[n] = f[n]
  <2>1. a1[0] = f[0]
    BY <1>4, <1>8
  <2>2. ASSUME NEW n \in 1 .. last, a1[n - 1] = f[n - 1] PROVE a1[n] = f[n]
    BY <1>3, <1>8, <2>2
  <2>3. Alike(a1, f, last)
    BY <2>1, <2>2 DEF Alike
  <2> QED
    BY <2>3, SameSteps
<1>10. a1[last] = 0 <=> Same(last)
  BY <1>2, <1>9
<1>11. Same(last) <=> password = data
  BY DEF Same
<1> QED
  BY <1>1, <1>6, <1>10, <1>11

LEMMA SignedOfSums ==
  ASSUME NEW x \in Int, NEW y \in Int
  PROVE  Signed(Signed(x) + Signed(y)) = Signed(x + y)
<1>1. Signed(Signed(x) + Signed(y)) = Signed(x + Signed(y))
  BY SignedOfSum
<1>2. x + Signed(y) = Signed(y) + x /\ y + x = x + y
  BY SignedOfSum
<1>3. Signed(Signed(y) + x) = Signed(y + x)
  BY SignedOfSum
<1> QED
  BY <1>1, <1>2, <1>3

(* The sums of a portfolio, its loop in the property.                        *)
Sums(special, ids, qty) ==
  special = [n \in 0 .. Len(ids) |->
               IF n = 0 THEN 0 ELSE special[n - 1] + (IF ids[n] = 42 THEN qty[n] ELSE 0)]

LEMMA WordsOf ==
  ASSUME NEW qty \in Seq(Word)
  PROVE  \A n \in 1 .. Len(qty) : qty[n] \in Int
<1> SUFFICES ASSUME NEW n \in 1 .. Len(qty) PROVE qty[n] \in Int
  OBVIOUS
<1>1. qty[n] \in Word
  OBVIOUS
<1> QED
  BY <1>1, Words DEF Word

LEMMA SumsExist ==
  ASSUME NEW ids \in Seq(Word), NEW qty \in Seq(Word), Len(ids) = Len(qty)
  PROVE  \E special : Sums(special, ids, qty) /\ special \in [0 .. Len(ids) -> Int]
<1> PICK last \in Nat : last = Len(ids) /\ last = Len(qty)
  OBVIOUS
<1>1. \A n \in 1 .. last : qty[n] \in Int
  BY WordsOf
<1>2. PICK more : more = [n \in 1 .. last |-> IF ids[n] = 42 THEN qty[n] ELSE 0]
  OBVIOUS
<1>3. ASSUME NEW n \in 1 .. last PROVE more[n] \in Int
  <2>1. qty[n] \in Int
    BY <1>1
  <2> QED
    BY <1>2, <2>1
<1>4. PICK step : step = [n \in 1 .. last |-> [x \in Int |-> x + more[n]]]
  OBVIOUS
<1>5. step \in [1 .. last -> [Int -> Int]]
  BY <1>3, <1>4
<1>6. PICK special : Iterates(special, last, Int, 0, step)
  <2>1. 0 \in Int
    OBVIOUS
  <2> QED
    BY <1>5, <2>1, Recursion, Zenon
<1>7. /\ special \in [0 .. last -> Int] /\ special[0] = 0
      /\ \A n \in 1 .. last : special[n] = step[n][special[n - 1]]
  BY <1>6 DEF Iterates
<1>8. ASSUME NEW n \in 1 .. last PROVE special[n] = special[n - 1] + more[n]
  <2>1. n - 1 \in 0 .. last
    OBVIOUS
  <2>2. special[n - 1] \in Int
    BY <1>7, <2>1
  <2> QED
    BY <1>4, <1>7, <2>2
<1>9. special = [n \in 0 .. last |->
                   IF n = 0 THEN 0 ELSE special[n - 1] + (IF ids[n] = 42 THEN qty[n] ELSE 0)]
  <2>1. ASSUME NEW n \in 0 .. last
        PROVE  special[n] = IF n = 0 THEN 0
                            ELSE special[n - 1] + (IF ids[n] = 42 THEN qty[n] ELSE 0)
    <3>1. CASE n = 0
      BY <1>7, <3>1
    <3>2. CASE n # 0
      <4>1. n \in 1 .. last
        BY <3>2
      <4> QED
        BY <1>2, <1>8, <3>2, <4>1
    <3> QED
      BY <3>1, <3>2
  <2> QED
    BY <1>7, <2>1
<1> QED
  BY <1>7, <1>9 DEF Sums

LEMMA ShareValue ==
  ASSUME NEW ids \in Seq(Word), NEW qty \in Seq(Word), Len(ids) = Len(qty), NEW t3,
         NEW special, Sums(special, ids, qty)
  PROVE  share_value(ids, qty, t3) = Signed(7 * special[Len(ids)])
<1> DEFINE Loop(s3) == s3 = [n \in 0 .. Len(ids) |->
                               IF n = 0 THEN 0
                               ELSE Masked(ids[n] # 42, s3[n - 1],
                                           Signed(Signed(qty[n] * lookup_val(42, t3))
                                                    + s3[n - 1]))]
<1>1. share_value(ids, qty, t3) = (CHOOSE s3 : Loop(s3))[Len(ids)]
  BY Zenon DEF share_value
<1> PICK last \in Nat : last = Len(ids) /\ last = Len(qty)
  OBVIOUS
<1>2. \A n \in 1 .. last : qty[n] \in Int
  BY WordsOf
<1>3. /\ special[0] = 0
      /\ \A n \in 1 .. last :
           special[n] = special[n - 1] + (IF ids[n] = 42 THEN qty[n] ELSE 0)
  BY DEF Sums
<1>4. PICK T : T = {n \in 0 .. last : special[n] \in Int}
  OBVIOUS
<1>5. ASSUME NEW n \in 0 .. last - 1, n \in T PROVE n + 1 \in T
  <2>1. n + 1 \in 1 .. last /\ n + 1 \in 0 .. last /\ (n + 1) - 1 = n
    OBVIOUS
  <2>2. PICK x : x = IF ids[n + 1] = 42 THEN qty[n + 1] ELSE 0
    OBVIOUS
  <2>3. x \in Int
    <3>1. qty[n + 1] \in Int
      BY <1>2, <2>1
    <3> QED
      BY <2>2, <3>1
  <2>4. special[n + 1] = special[n] + x
    BY <1>3, <2>1, <2>2
  <2>5. special[n] \in Int
    BY <1>4, <1>5
  <2> QED
    BY <1>4, <2>1, <2>3, <2>4, <2>5
<1>6. \A n \in 0 .. last : special[n] \in Int
  <2>1. 0 \in T
    BY <1>3, <1>4
  <2>2. \A n \in 0 .. last : n \in T
    BY <1>5, <2>1, RangeInduction
  <2> QED
    BY <1>4, <2>2
<1>7. PICK f : f = [n \in 0 .. last |-> Signed(7 * special[n])]
  OBVIOUS
<1>8. f[0] = 0
  <2>1. 0 \in Word
    BY Words DEF Word
  <2> QED
    BY <1>3, <1>7, <2>1, SignedOfWord
<1>9. lookup_val(42, t3) = 7
  BY DEF lookup_val, Masked
<1>10. ASSUME NEW n \in 1 .. last
       PROVE  f[n] = Masked(ids[n] # 42, f[n - 1], Signed(Signed(qty[n] * 7) + f[n - 1]))
  <2>1. n - 1 \in 0 .. last /\ n \in 0 .. last
    OBVIOUS
  <2>2. PICK s \in Int, q \in Int : s = special[n - 1] /\ q = qty[n]
    BY <1>2, <1>6, <2>1
  <2>3. f[n - 1] = Signed(7 * s) /\ f[n] = Signed(7 * special[n])
    BY <1>7, <2>1, <2>2
  <2>4. CASE ids[n] = 42
    <3>1. special[n] = s + q
      BY <1>3, <2>2, <2>4
    <3>2. PICK x \in Int, y \in Int : x = q * 7 /\ y = 7 * s /\ x + y = 7 * (s + q)
      OBVIOUS
    <3>3. Signed(Signed(x) + Signed(y)) = Signed(x + y)
      BY SignedOfSums
    <3> QED
      BY <2>2, <2>3, <2>4, <3>1, <3>2, <3>3 DEF Masked
  <2>5. CASE ids[n] # 42
    <3>1. special[n] = s
      BY <1>3, <2>2, <2>5
    <3> QED
      BY <2>3, <2>5, <3>1 DEF Masked
  <2> QED
    BY <2>4, <2>5
<1>11. Loop(f)
  <2>1. ASSUME NEW n \in 0 .. last
        PROVE  f[n] = IF n = 0 THEN 0
                      ELSE Masked(ids[n] # 42, f[n - 1],
                                  Signed(Signed(qty[n] * lookup_val(42, t3)) + f[n - 1]))
    <3>1. CASE n = 0
      BY <1>8, <3>1
    <3>2. CASE n # 0
      <4>1. n \in 1 .. last
        BY <3>2
      <4> QED
        BY <1>9, <1>10, <3>2, <4>1
    <3> QED
      BY <3>1, <3>2
  <2>2. f = [n \in 0 .. last |-> f[n]]
    BY <1>7
  <2> QED
    BY <2>1, <2>2
<1>12. PICK s3 : s3 = CHOOSE g : Loop(g)
  OBVIOUS
<1>13. Loop(s3)
  BY <1>11, <1>12, Zenon
<1>14. /\ s3[0] = 0
       /\ \A n \in 1 .. last :
            s3[n] = Masked(ids[n] # 42, s3[n - 1], Signed(Signed(qty[n] * 7) + s3[n - 1]))
  BY <1>9, <1>13
<1> HIDE DEF Loop
<1>15. \A n \in 0 .. last : s3[n] = f[n]
  <2>1. ASSUME NEW n \in 1 .. last, s3[n - 1] = f[n - 1] PROVE s3[n] = f[n]
    BY <1>10, <1>14, <2>1
  <2>2. Alike(s3, f, last)
    BY <1>8, <1>14, <2>1 DEF Alike
  <2> QED
    BY <2>2, SameSteps
<1> QED
  BY <1>1, <1>7, <1>12, <1>15

(* The state of a routine's call: one call that has returned.                *)
LEMMA Shares ==
  ASSUME NEW p, p.ids \in Seq(Word), p.qty \in Seq(Word), Len(p.ids) = Len(p.qty), NEW t3
  PROVE  share_value(p.ids, p.qty, t3) = Signed(7 * SpecialShares(p))
<1>1. PICK special : special = CHOOSE sums : Sums(sums, p.ids, p.qty)
  OBVIOUS
<1>2. Sums(special, p.ids, p.qty)
  <2>1. \E sums : Sums(sums, p.ids, p.qty)
    BY SumsExist
  <2> QED
    BY <1>1, <2>1, Zenon
<1>3. share_value(p.ids, p.qty, t3) = Signed(7 * special[Len(p.ids)])
  BY <1>2, ShareValue
<1>4. SpecialShares(p) = special[Len(p.ids)]
  BY <1>1, Zenon DEF SpecialShares, Sums
<1> QED
  BY <1>3, <1>4

-----------------------------------------------------------------------------
(* Modulo 2^16 + 1.                                                          *)
LEMMA Quotient ==
  ASSUME NEW p \in Nat, p > 0, NEW q \in Int, NEW r \in 0 .. p - 1
  PROVE  (p * q + r) % p = r /\ (p * q + r) \div p = q
OBVIOUS

(* A product of two words that are not zero, from its two halves.            *)
Folded(x, p) == ((x % p) - (x \div p) + (IF x % p < x \div p THEN 1 ELSE 0)) % p

LEMMA HalvesOfProduct ==
  ASSUME NEW p \in Nat, p >= 16, NEW a \in 1 .. p - 1, NEW b \in 1 .. p - 1
  PROVE  /\ a * b \in 0 .. p * p - 1
         /\ Folded(a * b, p) = ((a * b) % (p + 1)) % p
<1> PICK x \in Nat : x = a * b
  OBVIOUS
<1>1. x <= (p - 1) * (p - 1)
  <2>1. a * b <= a * (p - 1)
    OBVIOUS
  <2>2. a * (p - 1) <= (p - 1) * (p - 1)
    OBVIOUS
  <2>3. a * (p - 1) \in Int /\ (p - 1) * (p - 1) \in Int
    OBVIOUS
  <2> QED
    BY <2>1, <2>2, <2>3
<1>2. x < p * p
  <2>1. (p - 1) * (p - 1) = p * p - 2 * p + 1
    OBVIOUS
  <2>2. p * p \in Int
    OBVIOUS
  <2> QED
    BY <1>1, <2>1, <2>2
<1>3. PICK h \in Int, l \in 0 .. p - 1 : x = p * h + l /\ x % p = l /\ x \div p = h
  OBVIOUS
<1>4. 0 <= h /\ h < p
  <2>1. h >= 0
    <3> SUFFICES ASSUME h <= -1 PROVE FALSE
      OBVIOUS
    <3>1. p * h <= p * (0 - 1)
      OBVIOUS
    <3> QED
      BY <1>3, <3>1
  <2>2. h < p
    <3> SUFFICES ASSUME h >= p PROVE FALSE
      OBVIOUS
    <3>1. p * h >= p * p
      OBVIOUS
    <3> QED
      BY <1>2, <1>3, <3>1
  <2> QED
    BY <2>1, <2>2
<1>5. Folded(x, p) = (l - h + (IF l < h THEN 1 ELSE 0)) % p
  BY <1>3 DEF Folded
<1>6. CASE h <= l
  <2>1. x = (p + 1) * h + (l - h) /\ l - h \in 0 .. (p + 1) - 1
    BY <1>3, <1>4, <1>6
  <2>2. x % (p + 1) = l - h
    <3>1. PICK m \in Nat, r \in Int :
            m = p + 1 /\ m > 0 /\ r = l - h /\ r \in 0 .. m - 1
      BY <2>1
    <3>2. (m * h + r) % m = r
      BY <3>1, Quotient
    <3> QED
      BY <2>1, <3>1, <3>2
  <2> QED
    BY <1>2, <1>5, <1>6, <2>2
<1>7. CASE l < h
  <2>1. x = (p + 1) * (h - 1) + (l - h + p + 1) /\ l - h + p + 1 \in 0 .. (p + 1) - 1
    BY <1>3, <1>4, <1>7
  <2>2. x % (p + 1) = l - h + p + 1
    <3>1. PICK m \in Nat, r \in Int, k \in Int :
            m = p + 1 /\ m > 0 /\ r = l - h + p + 1 /\ r \in 0 .. m - 1 /\ k = h - 1
      BY <2>1
    <3>2. (m * k + r) % m = r
      BY <3>1, Quotient
    <3> QED
      BY <2>1, <3>1, <3>2
  <2>3. (l - h + 1) % p = (l - h + p + 1) % p
    <3>1. PICK y \in Int : y = l - h + 1
      OBVIOUS
    <3>2. y % p = (p + y) % p
      <4>1. p % p = 0 /\ p \in Int
        <5>1. 1 \in Int /\ 0 \in 0 .. p - 1 /\ p * 1 + 0 = p
          OBVIOUS
        <5>2. (p * 1 + 0) % p = 0
          BY <5>1, Quotient
        <5> QED
          BY <5>1, <5>2
      <4>2. ((p % p) + y) % p = (p + y) % p
        <5>1. p > 0 /\ p \in Int
          OBVIOUS
        <5> QED
          BY <5>1, ModSum
      <4> QED
        BY <4>1, <4>2
    <3> QED
      BY <3>1, <3>2
  <2> QED
    BY <1>2, <1>5, <1>7, <2>2, <2>3
<1> QED
  BY <1>4, <1>6, <1>7

(* The product of 2^16, written as 0, and a word that is not zero.           *)
LEMMA ProductOfZero ==
  ASSUME NEW p \in Nat, p >= 16, NEW b \in 1 .. p - 1
  PROVE  (p * b) % (p + 1) = p + 1 - b /\ (b * p) % (p + 1) = p + 1 - b
<1>1. PICK m \in Nat, r \in Int, k \in Int :
        m = p + 1 /\ m > 0 /\ r = p + 1 - b /\ r \in 0 .. m - 1 /\ k = b - 1
  OBVIOUS
<1>2. (m * k + r) % m = r
  BY <1>1, Quotient
<1>3. m * k + r = p * b /\ p * b = b * p
  BY <1>1
<1> QED
  BY <1>1, <1>2, <1>3

LEMMA Mulmod ==
  ASSUME NEW a \in Int, NEW b \in Int
  PROVE  mulmod16(a, b) = ModularProduct(a, b)
<1> PICK p \in Nat : p = Lower /\ p >= 16 /\ p * p = power2[W]
  BY Words
<1> PICK a0 \in 0 .. p - 1, a1 \in 0 .. p - 1 : a0 = a % p /\ a1 = b % p
  OBVIOUS
<1> DEFINE afterA == Masked(a0 = 0, p - 1 - a1 + 2, a0)
           afterB == Masked(a1 = 0, p - 1 - afterA + 2, afterA)
           product == (a1 * afterB) % (p * p)
           low == product % p
           high == product \div p
<1>1. mulmod16(a, b) =
        Masked(~ (a0 = 0) /\ ~ (a1 = 0), low - high + (IF low < high THEN 1 ELSE 0), afterB) % p
  BY DEF mulmod16, Unsigned
<1> HIDE DEF afterA, afterB, product, low, high
<1>2. CASE a0 = 0 /\ a1 = 0
  <2>1. afterB = 0
    BY <1>2 DEF Masked, afterA, afterB
  <2>2. mulmod16(a, b) = 0
    BY <1>1, <1>2, <2>1 DEF Masked
  <2> QED
    BY <1>2, <2>2 DEF ModularProduct
<1>3. CASE a0 = 0 /\ a1 # 0
  <2>1. afterB = p + 1 - a1
    BY <1>3 DEF Masked, afterA, afterB
  <2>2. mulmod16(a, b) = (p + 1 - a1) % p
    BY <1>1, <1>3, <2>1 DEF Masked
  <2>3. (p * a1) % (p + 1) = p + 1 - a1
    <3>1. a1 \in 1 .. p - 1
      BY <1>3
    <3> QED
      BY <3>1, ProductOfZero
  <2> QED
    BY <1>3, <2>2, <2>3 DEF ModularProduct
<1>4. CASE a0 # 0 /\ a1 = 0
  <2>1. afterB = p + 1 - a0
    BY <1>4 DEF Masked, afterA, afterB
  <2>2. mulmod16(a, b) = (p + 1 - a0) % p
    BY <1>1, <1>4, <2>1 DEF Masked
  <2>3. (a0 * p) % (p + 1) = p + 1 - a0
    <3>1. a0 \in 1 .. p - 1
      BY <1>4
    <3> QED
      BY <3>1, ProductOfZero
  <2> QED
    BY <1>4, <2>2, <2>3 DEF ModularProduct
<1>5. CASE a0 # 0 /\ a1 # 0
  <2>1. afterB = a0
    BY <1>5 DEF Masked, afterA, afterB
  <2>2. a0 \in 1 .. p - 1 /\ a1 \in 1 .. p - 1
    BY <1>5
  <2>3. PICK x \in Int : x = a0 * a1
    OBVIOUS
  <2>4. x \in 0 .. p * p - 1
    BY <2>2, <2>3, HalvesOfProduct
  <2>5. product = x
    <3>1. a1 * a0 = x /\ x % (p * p) = x
      BY <2>3, <2>4
    <3> QED
      BY <2>1, <3>1 DEF product
  <2>6. mulmod16(a, b) = Folded(x, p)
    BY <1>1, <1>5, <2>5 DEF Masked, low, high, Folded
  <2>7. Folded(x, p) = (x % (p + 1)) % p
    BY <2>2, <2>3, HalvesOfProduct
  <2> QED
    BY <1>5, <2>3, <2>6, <2>7 DEF ModularProduct
<1> QED
  BY <1>2, <1>3, <1>4, <1>5

-----------------------------------------------------------------------------
(* Powers modulo 7.                                                          *)
LEMMA ModProduct ==
  ASSUME NEW x \in Int, NEW y \in Int
  PROVE  ((x % 7) * y) % 7 = (x * y) % 7 /\ (y * (x % 7)) % 7 = (x * y) % 7
<1>1. PICK q \in Int, r \in 0 .. 6 : x = 7 * q + r /\ x % 7 = r
  OBVIOUS
<1>2. PICK m \in Int, u \in Int : m = r * y /\ u = q * y
  OBVIOUS
<1>3. x * y = 7 * u + m
  BY <1>1, <1>2
<1>4. (7 * u + m) % 7 = m % 7
  OBVIOUS
<1>5. y * r = m
  BY <1>2
<1> QED
  BY <1>1, <1>2, <1>3, <1>4, <1>5

(* power is the loop of the property, up to last.                            *)
Powers7(power, y, last) ==
  power = [n \in 0 .. last |-> IF n = 0 THEN 1 ELSE (power[n - 1] * y) % 7]

LEMMA Powers7Are ==
  ASSUME NEW y \in Int, NEW last \in Nat, NEW power, Powers7(power, y, last)
  PROVE  /\ power[0] = 1
         /\ \A n \in 1 .. last : power[n] = (power[n - 1] * y) % 7
         /\ \A n \in 0 .. last : power[n] \in 0 .. 6
<1>1. power[0] = 1 /\ \A n \in 1 .. last : power[n] = (power[n - 1] * y) % 7
  BY DEF Powers7
<1>2. PICK T : T = {n \in 0 .. last : power[n] \in 0 .. 6}
  OBVIOUS
<1>3. 0 \in T
  BY <1>1, <1>2
<1>4. ASSUME NEW n \in 0 .. last - 1, n \in T PROVE n + 1 \in T
  <2>1. n + 1 \in 1 .. last /\ n + 1 \in 0 .. last /\ (n + 1) - 1 = n
    OBVIOUS
  <2>2. PICK x \in 0 .. 6 : x = power[n]
    BY <1>2, <1>4
  <2>3. power[n + 1] = (x * y) % 7
    BY <1>1, <2>1, <2>2
  <2>4. (x * y) % 7 \in 0 .. 6
    <3>1. PICK z \in Int : z = x * y
      OBVIOUS
    <3> QED
      BY <3>1
  <2> QED
    BY <1>2, <2>1, <2>3, <2>4
<1>5. \A n \in 0 .. last : n \in T
  BY <1>3, <1>4, RangeInduction
<1> QED
  BY <1>1, <1>2, <1>5

LEMMA Powers7Exist ==
  ASSUME NEW y \in Int, NEW last \in Nat
  PROVE  \E power : Powers7(power, y, last)
<1>1. PICK step : step = [n \in 1 .. last |-> [x \in 0 .. 6 |-> (x * y) % 7]]
  OBVIOUS
<1>2. step \in [1 .. last -> [0 .. 6 -> 0 .. 6]]
  <2>1. ASSUME NEW x \in 0 .. 6 PROVE (x * y) % 7 \in 0 .. 6
    <3>1. PICK z \in Int : z = x * y
      OBVIOUS
    <3> QED
      BY <3>1
  <2> QED
    BY <1>1, <2>1
<1>3. PICK power : Iterates(power, last, 0 .. 6, 1, step)
  <2>1. 1 \in 0 .. 6
    OBVIOUS
  <2> QED
    BY <1>2, <2>1, Recursion, Zenon
<1>4. /\ power \in [0 .. last -> 0 .. 6] /\ power[0] = 1
      /\ \A n \in 1 .. last : power[n] = step[n][power[n - 1]]
  BY <1>3 DEF Iterates
<1>5. ASSUME NEW n \in 0 .. last
      PROVE  power[n] = IF n = 0 THEN 1 ELSE (power[n - 1] * y) % 7
  <2>1. CASE n = 0
    BY <1>4, <2>1
  <2>2. CASE n # 0
    <3>1. n \in 1 .. last /\ n - 1 \in 0 .. last
      BY <2>2
    <3>2. power[n - 1] \in 0 .. 6
      BY <1>4, <3>1
    <3> QED
      BY <1>1, <1>4, <2>2, <3>1, <3>2
  <2> QED
    BY <2>1, <2>2
<1> QED
  BY <1>4, <1>5 DEF Powers7

LEMMA SumOfExponents ==
  ASSUME NEW y \in Int, NEW last \in Nat, NEW power, Powers7(power, y, last),
         NEW a \in 0 .. last, NEW b \in 0 .. last - a
  PROVE  power[a + b] = (power[a] * power[b]) % 7
<1>1. /\ power[0] = 1
      /\ \A n \in 1 .. last : power[n] = (power[n - 1] * y) % 7
      /\ \A n \in 0 .. last : power[n] \in 0 .. 6
  BY Powers7Are
<1>2. PICK T : T = {n \in 0 .. last - a : power[a + n] = (power[a] * power[n]) % 7}
  OBVIOUS
<1>3. PICK p \in 0 .. 6 : p = power[a]
  BY <1>1
<1>4. 0 \in T
  <2>1. a + 0 = a /\ 0 \in 0 .. last - a /\ (p * 1) % 7 = p
    OBVIOUS
  <2> QED
    BY <1>1, <1>2, <1>3, <2>1
<1>5. ASSUME NEW n \in 0 .. (last - a) - 1, n \in T PROVE n + 1 \in T
  <2>1. /\ n + 1 \in 1 .. last /\ (n + 1) - 1 = n /\ n + 1 \in 0 .. last - a
        /\ a + (n + 1) \in 1 .. last /\ (a + (n + 1)) - 1 = a + n
        /\ n \in 0 .. last
    OBVIOUS
  <2>2. PICK q \in 0 .. 6 : q = power[n]
    BY <1>1, <2>1
  <2>3. power[n + 1] = (q * y) % 7
    BY <1>1, <2>1, <2>2
  <2>4. power[a + (n + 1)] = (((p * q) % 7) * y) % 7
    <3>1. power[a + n] = (p * q) % 7
      BY <1>2, <1>3, <1>5, <2>2
    <3>2. power[a + (n + 1)] = (power[a + n] * y) % 7
      BY <1>1, <2>1
    <3> QED
      BY <3>1, <3>2
  <2>5. PICK u \in Int, z \in Int : u = p * q /\ z = q * y
    OBVIOUS
  <2>6. ((u % 7) * y) % 7 = (u * y) % 7 /\ (p * (z % 7)) % 7 = (z * p) % 7
    BY ModProduct
  <2>7. u * y = z * p
    BY <2>5
  <2> QED
    BY <1>2, <1>3, <2>1, <2>3, <2>4, <2>5, <2>6, <2>7
<1>6. \A n \in 0 .. last - a : n \in T
  <2>1. last - a \in Nat
    OBVIOUS
  <2> QED
    BY <1>4, <1>5, <2>1, RangeInduction
<1> QED
  BY <1>2, <1>6

(* The passes of modexp2: s is its loop.                                     *)
PassesOf(s, y, k) ==
  s = [n \in 0 .. W |-> IF n = 0 THEN [product |-> 1, y |-> y, k |-> k]
                        ELSE ModexpPass(s[n - 1])]

LEMMA Rem7Is ==
  /\ \A x \in Int : Rem7(x) \in Int
  /\ \A x \in Nat : Rem7(x) = x % 7
BY DEF Rem7

LEMMA PassesExist ==
  ASSUME NEW y \in Int, NEW k \in Int
  PROVE  \E s : PassesOf(s, y, k)
<1> W \in Nat
  BY WidthAssumption
<1>1. PICK V : V = [product : Int, y : Int, k : Int]
  OBVIOUS
<1>2. ASSUME NEW x \in V PROVE ModexpPass(x) \in V
  <2>1. x.product \in Int /\ x.y \in Int /\ x.k \in Int
    BY <1>1
  <2>2. PICK u \in Int, v \in Int : u = x.product * x.y /\ v = x.y * x.y
    BY <2>1
  <2>3. Signed(u) \in Int /\ Signed(v) \in Int
    BY SignedOfSum
  <2>4. Rem7(Signed(u)) \in Int
    BY <2>3, Rem7Is
  <2>5. Unsigned(Signed(v)) % 7 \in Int
    <3>1. Unsigned(Signed(v)) \in Int
      BY <2>3, Words DEF Unsigned
    <3> QED
      BY <3>1
  <2>6. x.k \div 2 \in Int
    BY <2>1
  <2> QED
    BY <1>1, <2>1, <2>2, <2>4, <2>5, <2>6 DEF ModexpPass, Masked
<1>3. PICK first : first = [product |-> 1, y |-> y, k |-> k]
  OBVIOUS
<1>4. first \in V
  BY <1>1, <1>3
<1>5. PICK step : step = [n \in 1 .. W |-> [x \in V |-> ModexpPass(x)]]
  OBVIOUS
<1>6. step \in [1 .. W -> [V -> V]]
  BY <1>2, <1>5
<1>7. PICK s : Iterates(s, W, V, first, step)
  BY <1>4, <1>6, Recursion, Zenon
<1>8. /\ s \in [0 .. W -> V] /\ s[0] = first
      /\ \A n \in 1 .. W : s[n] = step[n][s[n - 1]]
  BY <1>7 DEF Iterates
<1>9. ASSUME NEW n \in 0 .. W
      PROVE  s[n] = IF n = 0 THEN first ELSE ModexpPass(s[n - 1])
  <2>1. CASE n = 0
    BY <1>8, <2>1
  <2>2. CASE n # 0
    <3>1. n \in 1 .. W /\ n - 1 \in 0 .. W
      BY <2>2
    <3>2. s[n - 1] \in V
      BY <1>8, <3>1
    <3> QED
      BY <1>5, <1>8, <2>2, <3>1, <3>2
  <2> QED
    BY <2>1, <2>2
<1>10. s = [n \in 0 .. W |-> IF n = 0 THEN first ELSE ModexpPass(s[n - 1])]
  BY <1>8, <1>9
<1> QED
  BY <1>3, <1>10 DEF PassesOf

LEMMA SmallProducts ==
  ASSUME NEW p \in 0 .. 6, NEW y \in 0 .. Lower - 1
  PROVE  /\ Signed(p * y) = p * y /\ p * y \in Nat
         /\ Unsigned(Signed(y * y)) = y * y /\ y * y \in Nat
<1> PICK h \in Nat : h = Lower /\ h >= 16 /\ h * h = power2[W] /\ h * h = 2 * SignBit
  BY Words
<1>1. p * y \in Nat /\ p * y < SignBit
  <2>1. p * y <= 6 * y
    OBVIOUS
  <2>2. 16 * h <= h * h
    OBVIOUS
  <2>3. p * y \in Nat
    OBVIOUS
  <2> QED
    BY <2>1, <2>2, <2>3, Words
<1>2. Signed(p * y) = p * y
  <2>1. p * y \in Word
    BY <1>1, Words DEF Word
  <2> QED
    BY <2>1, SignedOfWord
<1>3. PICK x \in Nat : x = y * y
  OBVIOUS
<1>4. x < power2[W]
  <2>1. y * y <= (h - 1) * y
    OBVIOUS
  <2>2. (h - 1) * y <= (h - 1) * (h - 1)
    OBVIOUS
  <2>3. (h - 1) * (h - 1) = h * h - 2 * h + 1
    OBVIOUS
  <2>4. (h - 1) * y \in Int /\ h * h \in Int
    OBVIOUS
  <2> QED
    BY <1>3, <2>1, <2>2, <2>3, <2>4
<1>5. Unsigned(Signed(x)) = x
  <2>1. PICK m \in Nat, s \in Nat, z \in Int, u \in Int :
          m = power2[W] /\ s = SignBit /\ z = x + s /\ u = 0 - s /\ m > 0
    BY Words
  <2>2. ((z % m) + u) % m = (z + u) % m
    BY <2>1, ModSum
  <2>3. (z % m) + u = Signed(x) /\ z + u = x
    BY <2>1 DEF Signed
  <2>4. x % m = x
    BY <1>4, <2>1
  <2> QED
    BY <2>1, <2>2, <2>3, <2>4 DEF Unsigned
<1> QED
  BY <1>1, <1>2, <1>3, <1>5

(* After n passes: t is what the first n bits of k make.                     *)
BitsDone(st, n, k, power) ==
  /\ st.product \in 0 .. 6 /\ st.y \in 0 .. Lower - 1 /\ st.k \in Nat
  /\ st.y % 7 = power[power2[n]]
  /\ \E t \in Nat : t + power2[n] * st.k = k /\ st.product = power[t]

LEMMA OnePass ==
  ASSUME NEW y \in 0 .. Lower - 1, NEW k \in 0 .. power2[W], NEW power,
         Powers7(power, y, power2[W]),
         NEW n \in 0 .. W - 1, NEW st, BitsDone(st, n, k, power)
  PROVE  BitsDone(ModexpPass(st), n + 1, k, power)
<1> PICK m \in Nat : m = power2[W]
  BY Words
<1>1. y \in Int /\ Lower \in Nat /\ Lower >= 16
  BY Words
<1>2. PICK w \in Nat : w = power2[n] /\ power2[n + 1] = 2 * w /\ w >= 1 /\ 2 * w <= m
  <2>1. n \in 0 .. W /\ n + 1 \in 1 .. W /\ n + 1 \in 0 .. W /\ (n + 1) - 1 = n /\ W \in n + 1 .. W
    BY WidthAssumption
  <2>2. power2[n] \in Nat \ {0} /\ power2[n + 1] = 2 * power2[n]
    BY <2>1, Powers
  <2>3. power2[n + 1] <= power2[W]
    BY <2>1, PowersGrow
  <2> QED
    BY <2>2, <2>3
<1>3. PICK p \in 0 .. 6, z \in 0 .. Lower - 1, j \in Nat, t \in Nat :
        /\ p = st.product /\ z = st.y /\ j = st.k
        /\ z % 7 = power[w] /\ t + w * j = k /\ p = power[t]
  <2>1. PICK t \in Nat : t + power2[n] * st.k = k /\ st.product = power[t]
    BY DEF BitsDone
  <2>2. /\ st.product \in 0 .. 6 /\ st.y \in 0 .. Lower - 1 /\ st.k \in Nat
        /\ st.y % 7 = power[w]
    BY <1>2 DEF BitsDone
  <2> QED
    BY <1>2, <2>1, <2>2
<1>4. /\ Signed(p * z) = p * z /\ p * z \in Nat
      /\ Unsigned(Signed(z * z)) = z * z /\ z * z \in Nat
  BY SmallProducts
<1>5. PICK next : next = ModexpPass(st)
  OBVIOUS
<1>6. /\ next.k = j \div 2
      /\ next.y = (z * z) % 7
      /\ j % 2 = 1 => next.product = (p * z) % 7
      /\ j % 2 # 1 => next.product = p
  <2>1. next = [product |-> Masked(~ (j >= 0 /\ j % 2 = 1), p, Rem7(Signed(p * z))),
                y |-> Unsigned(Signed(z * z)) % 7,
                k |-> j \div 2]
    BY <1>3, <1>5, Zenon DEF ModexpPass
  <2>2. PICK x \in Nat : x = p * z /\ Signed(p * z) = x
    BY <1>4
  <2>3. Rem7(x) = x % 7
    BY Rem7Is
  <2>4. next.product = Masked(~ (j >= 0 /\ j % 2 = 1), p, x % 7)
    BY <2>1, <2>2, <2>3
  <2>5. next.k = j \div 2 /\ next.y = (z * z) % 7
    BY <1>4, <2>1
  <2> QED
    BY <2>2, <2>4, <2>5 DEF Masked
<1>7. next.y \in 0 .. 6 /\ next.y = power[2 * w]
  <2>1. (z * z) % 7 = ((z % 7) * (z % 7)) % 7
    <3>1. PICK r \in Int : r = z % 7
      OBVIOUS
    <3>2. (r * z) % 7 = (z * z) % 7 /\ (r * r) % 7 = (z * r) % 7
      BY <3>1, ModProduct
    <3>3. z * r = r * z
      OBVIOUS
    <3> QED
      BY <3>1, <3>2, <3>3
  <2>2. w \in 0 .. m /\ w \in 0 .. m - w /\ w + w = 2 * w
    BY <1>2
  <2>3. power[w + w] = (power[w] * power[w]) % 7
    BY <1>1, <2>2, SumOfExponents
  <2>4. PICK x \in Nat : x = z * z
    BY <1>4
  <2>5. x % 7 \in 0 .. 6
    OBVIOUS
  <2> QED
    BY <1>3, <1>6, <2>1, <2>2, <2>3, <2>4, <2>5
<1>8. next.y % 7 = power[power2[n + 1]] /\ next.y \in 0 .. Lower - 1
  BY <1>1, <1>2, <1>7
<1>9. CASE j % 2 = 1
  <2>1. PICK i0 \in Nat : j = 2 * i0 + 1 /\ j \div 2 = i0
    BY <1>9
  <2>2. t + w + (2 * w) * i0 = k
    <3>1. w * j = w + (2 * w) * i0
      BY <2>1
    <3> QED
      BY <1>3, <3>1
  <2>3. t \in 0 .. m /\ w \in 0 .. m - t
    <3>1. (2 * w) * i0 \in Nat
      OBVIOUS
    <3>2. k <= m /\ k \in Nat
      OBVIOUS
    <3> QED
      BY <2>2, <3>1, <3>2
  <2>4. power[t + w] = (power[t] * power[w]) % 7
    BY <1>1, <2>3, SumOfExponents
  <2>5. (p * z) % 7 = (p * (z % 7)) % 7
    <3>1. (p * (z % 7)) % 7 = (z * p) % 7 /\ z * p = p * z
      BY ModProduct
    <3> QED
      BY <3>1
  <2>6. next.product = power[t + w]
    BY <1>3, <1>6, <1>9, <2>4, <2>5
  <2>7. next.product \in 0 .. 6
    <3>1. PICK x \in Nat : x = p * z
      BY <1>4
    <3>2. x % 7 \in 0 .. 6
      OBVIOUS
    <3> QED
      BY <1>6, <1>9, <3>1, <3>2
  <2>8. next.k \in Nat /\ (t + w) + power2[n + 1] * next.k = k /\ t + w \in Nat
    BY <1>2, <1>6, <2>1, <2>2
  <2> QED
    BY <1>5, <1>8, <2>6, <2>7, <2>8 DEF BitsDone
<1>10. CASE j % 2 # 1
  <2>1. PICK i0 \in Nat : j = 2 * i0 /\ j \div 2 = i0
    BY <1>10
  <2>2. w * j = (2 * w) * i0
    BY <2>1
  <2>3. next.k \in Nat /\ t + power2[n + 1] * next.k = k
    BY <1>2, <1>3, <1>6, <2>1, <2>2
  <2>4. next.product = power[t] /\ next.product \in 0 .. 6
    BY <1>3, <1>6, <1>10
  <2> QED
    BY <1>5, <1>8, <2>3, <2>4 DEF BitsDone
<1> QED
  BY <1>9, <1>10

LEMMA Modexp ==
  ASSUME NEW y \in 0 .. Lower - 1, NEW k \in Word
  PROVE  modexp2(y, k) = ModularPower(y, k)
<1> W \in Nat
  BY WidthAssumption
<1>1. PICK s : s = CHOOSE passes : PassesOf(passes, y, k)
  OBVIOUS
<1>2. y \in Int /\ k \in Int /\ power2[W] \in Nat /\ k < power2[W]
  BY Words DEF Word
<1>3. PassesOf(s, y, k)
  <2>1. \E passes : PassesOf(passes, y, k)
    BY <1>2, PassesExist
  <2> QED
    BY <1>1, <2>1, Zenon
<1>4. modexp2(y, k) = Rem7(s[W].product)
  BY <1>1, Zenon DEF modexp2, PassesOf
<1>5. /\ s[0] = [product |-> 1, y |-> y, k |-> k]
      /\ \A n \in 1 .. W : s[n] = ModexpPass(s[n - 1])
  BY <1>3 DEF PassesOf
<1>6. CASE k < 0
  <2>1. PICK T : T = {n \in 0 .. W : /\ s[n].product = 1 /\ s[n].k \in Int /\ s[n].k < 0}
    OBVIOUS
  <2>2. 0 \in T
    BY <1>2, <1>5, <1>6, <2>1
  <2>3. ASSUME NEW n \in 0 .. W - 1, n \in T PROVE n + 1 \in T
    <3>1. n + 1 \in 1 .. W /\ n + 1 \in 0 .. W /\ (n + 1) - 1 = n
      OBVIOUS
    <3>2. PICK st : st = s[n] /\ s[n + 1] = ModexpPass(st)
      BY <1>5, <3>1
    <3>3. st.product = 1 /\ st.k \in Int /\ st.k < 0
      BY <2>1, <2>3, <3>2
    <3>4. st.k \div 2 \in Int /\ st.k \div 2 < 0
      BY <3>3
    <3>5. ModexpPass(st).product = 1 /\ ModexpPass(st).k = st.k \div 2
      BY <3>3 DEF ModexpPass, Masked
    <3> QED
      BY <2>1, <3>1, <3>2, <3>4, <3>5
  <2>4. \A n \in 0 .. W : n \in T
    BY <2>2, <2>3, RangeInduction
  <2>5. s[W].product = 1
    BY <2>1, <2>4
  <2>6. modexp2(y, k) = 1
    BY <1>4, <2>5, Rem7Is
  <2> QED
    BY <1>6, <2>6 DEF ModularPower
<1>7. CASE k >= 0
  <2>1. PICK power : Powers7(power, y, power2[W])
    BY <1>2, Powers7Exist
  <2>2. /\ power[0] = 1
        /\ \A n \in 1 .. power2[W] : power[n] = (power[n - 1] * y) % 7
        /\ \A n \in 0 .. power2[W] : power[n] \in 0 .. 6
    BY <1>2, <2>1, Powers7Are
  <2>3. k \in 0 .. power2[W] /\ k \in Nat
    BY <1>2, <1>7
  <2>4. PICK T : T = {n \in 0 .. W : BitsDone(s[n], n, k, power)}
    OBVIOUS
  <2>5. 0 \in T
    <3>1. PICK st : st = s[0] /\ st.product = 1 /\ st.y = y /\ st.k = k
      BY <1>5
    <3>2. power2[0] = 1 /\ 1 \in 1 .. power2[W]
      BY <1>2, Powers, Words
    <3>3. power[1] = y % 7
      <4>1. power[1] = (power[0] * y) % 7
        BY <2>2, <3>2
      <4> QED
        BY <1>2, <2>2, <4>1
    <3>4. 0 + power2[0] * st.k = k /\ st.product = power[0]
      BY <2>2, <2>3, <3>1, <3>2
    <3>5. BitsDone(st, 0, k, power)
      BY <2>3, <3>1, <3>2, <3>3, <3>4 DEF BitsDone
    <3> QED
      BY <2>4, <3>1, <3>5
  <2>6. ASSUME NEW n \in 0 .. W - 1, n \in T PROVE n + 1 \in T
    <3>1. n + 1 \in 1 .. W /\ n + 1 \in 0 .. W /\ (n + 1) - 1 = n
      OBVIOUS
    <3>2. PICK st : st = s[n] /\ s[n + 1] = ModexpPass(st)
      BY <1>5, <3>1
    <3>3. BitsDone(st, n, k, power)
      BY <2>4, <2>6, <3>2
    <3>4. BitsDone(ModexpPass(st), n + 1, k, power)
      BY <2>1, <2>3, <3>3, OnePass
    <3> QED
      BY <2>4, <3>1, <3>2, <3>4
  <2>7. \A n \in 0 .. W : n \in T
    BY <2>5, <2>6, RangeInduction
  <2>8. PICK st : st = s[W] /\ BitsDone(st, W, k, power)
    BY <2>4, <2>7
  <2>9. st.product = power[k] /\ st.product \in 0 .. 6
    <3>1. PICK t \in Nat : t + power2[W] * st.k = k /\ st.product = power[t]
      BY <2>8 DEF BitsDone
    <3>2. PICK m \in Nat, j \in Nat : m = power2[W] /\ j = st.k
      BY <1>2, <2>8 DEF BitsDone
    <3>3. j = 0
      <4> SUFFICES ASSUME j >= 1 PROVE FALSE
        OBVIOUS
      <4>1. m * j >= m
        OBVIOUS
      <4>2. m * j \in Nat
        OBVIOUS
      <4> QED
        BY <1>2, <3>1, <3>2, <4>1, <4>2
    <3>4. t = k
      BY <3>1, <3>2, <3>3
    <3> QED
      BY <2>8, <3>1, <3>4 DEF BitsDone
  <2>10. modexp2(y, k) = power[k]
    <3>1. PICK x \in 0 .. 6 : x = st.product
      BY <2>9
    <3>2. Rem7(x) = x % 7 /\ x % 7 = x
      BY Rem7Is
    <3> QED
      BY <1>4, <2>8, <2>9, <3>1, <3>2
  <2>11. PICK P : P = CHOOSE f : Powers7(f, y, k)
    OBVIOUS
  <2>12. Powers7(P, y, k)
    <3>1. \E f : Powers7(f, y, k)
      BY <1>2, <2>3, Powers7Exist
    <3> QED
      BY <2>11, <3>1, Zenon
  <2>13. P[k] = power[k]
    <3>1. P[0] = 1 /\ \A n \in 1 .. k : P[n] = (P[n - 1] * y) % 7
      BY <1>2, <2>3, <2>12, Powers7Are
    <3>2. ASSUME NEW n \in 1 .. k, P[n - 1] = power[n - 1] PROVE P[n] = power[n]
      <4>1. n \in 1 .. power2[W]
        BY <2>3, <1>2
      <4> QED
        BY <2>2, <3>1, <3>2, <4>1
    <3>3. Alike(P, power, k)
      BY <2>2, <3>1, <3>2 DEF Alike
    <3> QED
      BY <2>3, <3>3, SameSteps
  <2>14. modexp2(y, k) = P[k]
    BY <2>10, <2>13
  <2>15. ~ (k < 0)
    BY <1>2, <1>7
  <2> QED
    BY <2>11, <2>14, <2>15, Zenon DEF Powers7, ModularPower
<1> QED
  BY <1>2, <1>6, <1>7

-----------------------------------------------------------------------------
(* The 16 passes of a poll: the one function that goes pass by pass.         *)
Key == 0 .. NB_KEYS - 1

LEMMA Passes ==
  ASSUME NEW bytes, NEW f,
         f = [n \in 0 .. NB_KEYS |-> IF n = 0 THEN bytes ELSE Scan(f[n - 1], n - 1)]
  PROVE  Scanned(bytes) = f[NB_KEYS]
<1> DEFINE Loop(pass) ==
      pass = [n \in 0 .. NB_KEYS |-> IF n = 0 THEN bytes ELSE Scan(pass[n - 1], n - 1)]
<1>1. Scanned(bytes) = (CHOOSE pass : Loop(pass))[NB_KEYS]
  BY Zenon DEF Scanned
<1>2. PICK g : g = CHOOSE pass : Loop(pass)
  OBVIOUS
<1>3. Loop(f)
  OBVIOUS
<1>4. Loop(g)
  BY <1>2, <1>3, Zenon
<1>5. NB_KEYS \in Nat
  BY DEF NB_KEYS
<1>6. g[0] = f[0] /\ \A n \in 1 .. NB_KEYS : /\ g[n] = Scan(g[n - 1], n - 1)
                                             /\ f[n] = Scan(f[n - 1], n - 1)
  BY <1>3, <1>4, <1>5
<1> HIDE DEF Loop
<1>7. PICK T : T = {n \in 0 .. NB_KEYS : g[n] = f[n]}
  OBVIOUS
<1>8. 0 \in T
  BY <1>5, <1>6, <1>7
<1>9. ASSUME NEW n \in 0 .. NB_KEYS - 1, n \in T PROVE n + 1 \in T
  <2>1. n + 1 \in 1 .. NB_KEYS /\ n + 1 \in 0 .. NB_KEYS /\ (n + 1) - 1 = n
    BY <1>5
  <2>2. g[n] = f[n]
    BY <1>7, <1>9
  <2>3. g[n + 1] = Scan(g[n], n) /\ f[n + 1] = Scan(f[n], n)
    BY <1>6, <2>1
  <2>4. g[n + 1] = f[n + 1]
    BY <2>2, <2>3
  <2> QED
    BY <1>7, <2>1, <2>4
<1>10. NB_KEYS \in T
  <2>1. \A n \in 0 .. NB_KEYS : n \in T
    BY <1>5, <1>8, <1>9, RangeInduction
  <2> QED
    BY <1>5, <2>1
<1> QED
  BY <1>1, <1>2, <1>7, <1>10

(* A key that goes down while there is room.                                 *)
Pressed(bytes, k) ==
  [bytes EXCEPT ![pin_idx] = bytes[pin_idx] + 1, ![pin + bytes[pin_idx]] = keymap[k + 1]]

LEMMA ScanOf ==
  ASSUME NEW bytes \in [pin .. pin_idx -> Int], bytes[pin_idx] \in 0 .. PIN_LEN, NEW k \in Key
  PROVE  /\ Ignored(k, bytes[pin_idx]) => Scan(bytes, k) = bytes
         /\ ~ Ignored(k, bytes[pin_idx]) => Scan(bytes, k) = Pressed(bytes, k)
<1>1. pin = 0 /\ pin_idx = 4 /\ PIN_LEN = 4
  BY DEF pin, pin_idx, PIN_LEN
<1>2. CASE Ignored(k, bytes[pin_idx])
  BY <1>1, <1>2 DEF Scan, Masked
<1>3. CASE ~ Ignored(k, bytes[pin_idx])
  BY <1>1, <1>3 DEF Scan, Masked, Pressed
<1> QED
  BY <1>2, <1>3

LEMMA NothingPressed ==
  ASSUME NEW bytes \in [pin .. pin_idx -> Int], bytes[pin_idx] \in 0 .. PIN_LEN,
         \A k \in Key : Ignored(k, bytes[pin_idx])
  PROVE  Scanned(bytes) = bytes
<1>1. PICK f : f = [n \in 0 .. NB_KEYS |-> bytes]
  OBVIOUS
<1>2. ASSUME NEW n \in 0 .. NB_KEYS, n # 0 PROVE Scan(f[n - 1], n - 1) = bytes
  <2>1. n - 1 \in Key /\ n - 1 \in 0 .. NB_KEYS
    BY <1>2 DEF Key, NB_KEYS
  <2> QED
    BY <1>1, <2>1, ScanOf
<1>3. f = [n \in 0 .. NB_KEYS |-> IF n = 0 THEN bytes ELSE Scan(f[n - 1], n - 1)]
  BY <1>1, <1>2
<1>4. Scanned(bytes) = f[NB_KEYS]
  BY <1>3, Passes
<1> QED
  BY <1>1, <1>4 DEF NB_KEYS

LEMMA OnePressed ==
  ASSUME NEW bytes \in [pin .. pin_idx -> Int], bytes[pin_idx] \in 0 .. PIN_LEN - 1,
         NEW j \in Key, Down \ key_state = {j}
  PROVE  Scanned(bytes) = Pressed(bytes, j)
<1>1. PICK f : f = [n \in 0 .. NB_KEYS |-> IF n <= j THEN bytes ELSE Pressed(bytes, j)]
  OBVIOUS
<1>2. pin = 0 /\ pin_idx = 4 /\ PIN_LEN = 4 /\ NB_KEYS = 16
  BY DEF pin, pin_idx, PIN_LEN, NB_KEYS
<1>3. /\ Pressed(bytes, j) \in [pin .. pin_idx -> Int]
      /\ Pressed(bytes, j)[pin_idx] \in 0 .. PIN_LEN
  <2>1. keymap[j + 1] \in Int
    BY <1>2 DEF Key, keymap
  <2> QED
    BY <1>2, <2>1 DEF Pressed
<1>4. \A k \in Key \ {j} : \A idx : Ignored(k, idx)
  BY DEF Ignored
<1>5. ~ Ignored(j, bytes[pin_idx])
  BY <1>2 DEF Ignored
<1>6. ASSUME NEW n \in 0 .. NB_KEYS, n # 0 PROVE Scan(f[n - 1], n - 1) = f[n]
  <2>1. n - 1 \in Key /\ n - 1 \in 0 .. NB_KEYS
    BY <1>2, <1>6 DEF Key
  <2>2. CASE n - 1 < j
    <3>1. f[n - 1] = bytes /\ f[n] = bytes /\ n - 1 \in Key \ {j}
      BY <1>1, <2>1, <2>2 DEF Key
    <3> QED
      BY <1>2, <1>4, <2>1, <3>1, ScanOf
  <2>3. CASE n - 1 = j
    <3>1. f[n - 1] = bytes /\ f[n] = Pressed(bytes, j)
      BY <1>1, <2>1, <2>3 DEF Key
    <3> QED
      BY <1>2, <1>5, <2>3, <3>1, ScanOf
  <2>4. CASE n - 1 > j
    <3>1. f[n - 1] = Pressed(bytes, j) /\ f[n] = Pressed(bytes, j) /\ n - 1 \in Key \ {j}
      BY <1>1, <2>1, <2>4 DEF Key
    <3> QED
      BY <1>3, <1>4, <2>1, <3>1, ScanOf
  <2> QED
    BY <2>1, <2>2, <2>3, <2>4 DEF Key
<1>7. f = [n \in 0 .. NB_KEYS |-> IF n = 0 THEN bytes ELSE Scan(f[n - 1], n - 1)]
  <2>1. f[0] = bytes
    BY <1>1, <1>2 DEF Key
  <2> QED
    BY <1>1, <1>6, <2>1
<1>8. Scanned(bytes) = f[NB_KEYS]
  BY <1>7, Passes
<1> QED
  BY <1>1, <1>2, <1>8 DEF Key

-----------------------------------------------------------------------------
(* What pin holds, without the subsequence of PinIsFirstPresses.             *)
Entered(keys) == IF Len(keys) < PIN_LEN THEN Len(keys) ELSE PIN_LEN

Holds(bytes, keys) ==
  /\ bytes[pin_idx] = Entered(keys)
  /\ \A n \in 1 .. Entered(keys) : bytes[pin + n - 1] = keymap[keys[n] + 1]

KeypadInv ==
  /\ presses \in Seq(Key)
  /\ sbss \in [pin .. pin_idx -> Int]
  /\ Holds(sbss, presses)
  /\ count # 0 => left = PIN_LEN - Entered(presses)

LEMMA KeypadInvImplies == KeypadInv => PinIsFirstPresses
<1> SUFFICES ASSUME KeypadInv PROVE PinIsFirstPresses
  OBVIOUS
<1>1. PICK last : last = Entered(presses)
  OBVIOUS
<1>2. last \in Nat /\ last <= Len(presses) /\ Len(presses) \in Nat
  BY <1>1 DEF KeypadInv, Entered, PIN_LEN
<1>3. PICK entered : entered = SubSeq(presses, 1, last)
  OBVIOUS
<1>4. /\ entered \in Seq(Key) /\ Len(entered) = last
      /\ \A n \in 1 .. last : entered[n] = presses[n]
  <2>1. \A n \in 1 .. last : presses[n] \in Key
    BY <1>2 DEF KeypadInv
  <2> QED
    BY <1>2, <1>3, <2>1, SubSeqProperties
<1>5. /\ sbss[pin_idx] = Len(entered)
      /\ \A n \in DOMAIN entered : sbss[pin + n - 1] = keymap[entered[n] + 1]
      /\ count # 0 => left = PIN_LEN - Len(entered)
  BY <1>1, <1>4 DEF KeypadInv, Holds
<1>6. entered = SubSeq(presses, 1, IF Len(presses) < PIN_LEN THEN Len(presses) ELSE PIN_LEN)
  BY <1>1, <1>3 DEF Entered
<1> QED
  BY <1>5, <1>6, Zenon DEF PinIsFirstPresses

(* No poll of the table has two keys down.                                   *)
LEMMA OneDown == Down = {} \/ \E j \in Key : Down = {j}
<1>1. ASSUME NEW n \in 1 .. 10
      PROVE  CSWTCH[n] = {} \/ \E j \in 0 .. 4 : CSWTCH[n] = {j}
  BY DEF CSWTCH
<1>2. Len(CSWTCH) = 10
  BY DEF CSWTCH
<1>3. 0 .. 4 \subseteq Key
  BY DEF Key, NB_KEYS
<1> QED
  BY <1>1, <1>2, <1>3 DEF Down

LEMMA SeqOfFew ==
  /\ SetToSeq({}) = <<>>
  /\ \A k : SetToSeq({k}) = <<k>>
<1>1. SetToSeq({}) = <<>>
  <2>1. Cardinality({}) = 0
    BY FS_EmptySet
  <2>2. <<>> \in [1 .. 0 -> {}] /\ IsInjective(<<>>)
    BY DEF IsInjective
  <2>3. SetToSeq({}) \in [1 .. 0 -> {}]
    BY <2>1, <2>2, Zenon DEF SetToSeq
  <2> QED
    BY <2>3
<1>2. ASSUME NEW k PROVE SetToSeq({k}) = <<k>>
  <2>1. Cardinality({k}) = 1
    BY FS_Singleton
  <2>2. <<k>> \in [1 .. 1 -> {k}] /\ IsInjective(<<k>>)
    BY DEF IsInjective
  <2>3. SetToSeq({k}) \in [1 .. 1 -> {k}]
    BY <2>1, <2>2, Zenon DEF SetToSeq
  <2> QED
    BY <2>3
<1> QED
  BY <1>1, <1>2

LEMMA InitKeypadInv == KeypadZero => KeypadInv
BY DEF KeypadZero, KeypadInv, Holds, Entered, PIN_LEN, pin, pin_idx

LEMMA SameKeypadInv == KeypadInv /\ UNCHANGED keypadVars => KeypadInv'
BY DEF KeypadInv, keypadVars, Holds, Entered

LEMMA ClearedKeypadInv == KeypadInv /\ keypad_init => KeypadInv'
<1> SUFFICES ASSUME KeypadInv, keypad_init PROVE KeypadInv'
  OBVIOUS
<1>1. pin = 0 /\ pin_idx = 4 /\ PIN_LEN = 4
  BY DEF pin, pin_idx, PIN_LEN
<1>2. /\ presses' = <<>> /\ count' = 0
      /\ sbss' \in [pin .. pin_idx -> Int] /\ sbss'[pin_idx] = 0
  BY <1>1 DEF KeypadInv, keypad_init
<1>3. Entered(<<>>) = 0
  BY <1>1 DEF Entered
<1>4. Holds(sbss', <<>>)
  BY <1>2, <1>3 DEF Holds
<1> QED
  BY <1>2, <1>4 DEF KeypadInv

LEMMA PollKeypadInv == KeypadInv /\ keypad_poll => KeypadInv'
<1> SUFFICES ASSUME KeypadInv, keypad_poll PROVE KeypadInv'
  OBVIOUS
<1>1. pin = 0 /\ pin_idx = 4 /\ PIN_LEN = 4
  BY DEF pin, pin_idx, PIN_LEN
<1>2. PICK last : last = Entered(presses)
  OBVIOUS
<1>3. /\ Len(presses) \in Nat /\ presses \in Seq(Key) /\ sbss \in [pin .. pin_idx -> Int]
      /\ sbss[pin_idx] = last /\ last \in 0 .. PIN_LEN
      /\ Len(presses) < 4 => last = Len(presses)
      /\ ~ (Len(presses) < 4) => last = 4
  <2>1. /\ presses \in Seq(Key) /\ sbss \in [pin .. pin_idx -> Int]
        /\ sbss[pin_idx] = last
    BY <1>2 DEF KeypadInv, Holds
  <2>2. Len(presses) \in Nat
    BY <2>1
  <2>3. /\ Len(presses) < 4 => last = Len(presses)
        /\ ~ (Len(presses) < 4) => last = 4
    BY <1>1, <1>2 DEF Entered
  <2>4. last \in 0 .. PIN_LEN
    BY <1>1, <2>2, <2>3
  <2> QED
    BY <2>1, <2>2, <2>3, <2>4
<1>4. /\ sbss' = Scanned(sbss) /\ left' = PIN_LEN - sbss'[pin_idx]
      /\ presses' = presses \o SetToSeq(Down \ key_state)
  BY DEF keypad_poll
<1>5. CASE Down \ key_state = {}
  <2>1. presses' = presses
    BY <1>3, <1>4, <1>5, SeqOfFew, ConcatEmptySeq
  <2>2. sbss' = sbss
    <3>1. \A k \in Key : Ignored(k, sbss[pin_idx])
      BY <1>5 DEF Ignored
    <3> QED
      BY <1>3, <1>4, <3>1, NothingPressed
  <2> QED
    BY <1>2, <1>3, <1>4, <2>1, <2>2 DEF KeypadInv
<1>6. ASSUME NEW j \in Key, Down \ key_state = {j} PROVE KeypadInv'
  <2>1. presses' = presses \o <<j>>
    BY <1>4, <1>6, SeqOfFew
  <2>2. /\ presses' \in Seq(Key) /\ Len(presses') = Len(presses) + 1
        /\ \A n \in 1 .. Len(presses) : presses'[n] = presses[n]
        /\ presses'[Len(presses) + 1] = j
    <3>1. presses' = Append(presses, j)
      BY <1>3, <1>6, <2>1, AppendIsConcat
    <3> QED
      BY <1>3, <1>6, <3>1, AppendProperties
  <2>3. CASE last = PIN_LEN
    <3>1. sbss' = sbss
      <4>1. \A k \in Key : Ignored(k, sbss[pin_idx])
        <5>1. 3 < sbss[pin_idx]
          BY <1>1, <1>3, <2>3
        <5> QED
          BY <5>1 DEF Ignored
      <4> QED
        BY <1>3, <1>4, <4>1, NothingPressed
    <3>2. Entered(presses') = 4
      BY <1>1, <1>3, <2>2, <2>3 DEF Entered
    <3>3. Holds(sbss', presses')
      <4>1. \A n \in 1 .. 4 : sbss[pin + n - 1] = keymap[presses[n] + 1]
        BY <1>1, <1>2, <2>3 DEF KeypadInv, Holds
      <4>2. ASSUME NEW n \in 1 .. 4 PROVE presses'[n] = presses[n]
        <5>1. n \in 1 .. Len(presses)
          <6>1. last \in Int /\ last >= 4
            BY <1>1, <1>3, <2>3
          <6> QED
            BY <1>3, <6>1
        <5> QED
          BY <2>2, <5>1
      <4> QED
        BY <1>1, <1>3, <2>3, <3>1, <3>2, <4>1, <4>2 DEF Holds
    <3> QED
      BY <1>3, <1>4, <2>2, <3>1, <3>3 DEF KeypadInv, Holds
  <2>4. CASE last # PIN_LEN
    <3>1. last = Len(presses) /\ last \in 0 .. PIN_LEN - 1 /\ pin + last # pin_idx
      BY <1>1, <1>3, <2>4
    <3>2. sbss' = Pressed(sbss, j)
      BY <1>3, <1>4, <1>6, <3>1, OnePressed
    <3>3. keymap[j + 1] \in Int
      BY DEF keymap, Key, NB_KEYS
    <3>4. /\ sbss' \in [pin .. pin_idx -> Int] /\ sbss'[pin_idx] = last + 1
          /\ sbss'[pin + last] = keymap[j + 1]
          /\ \A n \in 1 .. last : sbss'[pin + n - 1] = sbss[pin + n - 1]
      <4>1. /\ pin + last = last /\ last \in Int /\ sbss \in [0 .. 4 -> Int]
            /\ last \in 0 .. 3 /\ last # 4
        BY <1>1, <1>3, <3>1
      <4>2. sbss' = [sbss EXCEPT ![4] = last + 1, ![last] = keymap[j + 1]]
        BY <1>1, <1>3, <3>2, <4>1 DEF Pressed
      <4>3. PICK digit \in Int : digit = keymap[j + 1]
        BY <3>3
      <4>4. /\ sbss' \in [0 .. 4 -> Int] /\ sbss'[4] = last + 1 /\ sbss'[last] = digit
            /\ \A b \in 0 .. last - 1 : sbss'[b] = sbss[b]
        BY <4>1, <4>2, <4>3
      <4>5. ASSUME NEW n \in 1 .. last PROVE sbss'[pin + n - 1] = sbss[pin + n - 1]
        <5>1. pin + n - 1 = n - 1 /\ n - 1 \in 0 .. last - 1
          BY <1>1, <4>1
        <5> QED
          BY <4>4, <5>1
      <4> QED
        BY <1>1, <4>1, <4>3, <4>4, <4>5
    <3>5. Entered(presses') = last + 1
      BY <1>1, <1>3, <2>2, <3>1 DEF Entered
    <3>6. Holds(sbss', presses')
      <4>1. \A n \in 1 .. last : sbss[pin + n - 1] = keymap[presses[n] + 1]
        BY <1>2 DEF KeypadInv, Holds
      <4>2. ASSUME NEW n \in 1 .. last + 1 PROVE sbss'[pin + n - 1] = keymap[presses'[n] + 1]
        <5>1. CASE n = last + 1
          BY <1>1, <2>2, <3>1, <3>4, <5>1, SMTT(20)
        <5>2. CASE n # last + 1
          <6>1. n \in 1 .. last
            BY <3>1, <5>2
          <6> QED
            BY <2>2, <3>1, <3>4, <4>1, <6>1
        <5> QED
          BY <5>1, <5>2
      <4> QED
        BY <3>4, <3>5, <4>2 DEF Holds
    <3> QED
      BY <1>4, <2>2, <3>4, <3>6 DEF KeypadInv, Holds
  <2> QED
    BY <2>3, <2>4
<1> QED
  BY <1>5, <1>6, OneDown

-----------------------------------------------------------------------------
(* Connectedness is an equivalence, and what an edge adds to it.             *)
Closed(S, E) == \A e \in E : e[1] \in S <=> e[2] \in S

LEMMA ConnectedSame ==
  ASSUME NEW E, NEW u \in Vertex
  PROVE  Connected(E, u, u)
BY DEF Connected

LEMMA ConnectedBack ==
  ASSUME NEW E \in SUBSET (Vertex \X Vertex), NEW u \in Vertex, NEW v \in Vertex,
         Connected(E, u, v)
  PROVE  Connected(E, v, u)
<1> SUFFICES ASSUME NEW S \in SUBSET Vertex, v \in S, Closed(S, E), u \notin S PROVE FALSE
  BY DEF Connected, Closed
<1>1. Vertex \ S \in SUBSET Vertex /\ u \in Vertex \ S
  OBVIOUS
<1>2. Closed(Vertex \ S, E)
  BY DEF Closed
<1> QED
  BY <1>1, <1>2 DEF Connected, Closed

LEMMA ConnectedOn ==
  ASSUME NEW E, NEW u \in Vertex, NEW v \in Vertex, NEW w \in Vertex,
         Connected(E, u, v), Connected(E, v, w)
  PROVE  Connected(E, u, w)
BY DEF Connected

LEMMA ConnectedByEdge ==
  ASSUME NEW E, NEW edge \in E
  PROVE  Connected(E, edge[1], edge[2])
BY DEF Connected

LEMMA ConnectedMore ==
  ASSUME NEW E \in SUBSET (Vertex \X Vertex), NEW edge \in Vertex \X Vertex,
         NEW u \in Vertex, NEW v \in Vertex
  PROVE  Connected(E \cup {edge}, u, v) <=>
           \/ Connected(E, u, v)
           \/ Connected(E, u, edge[1]) /\ Connected(E, edge[2], v)
           \/ Connected(E, u, edge[2]) /\ Connected(E, edge[1], v)
<1> DEFINE Reached(w) == \/ Connected(E, u, w)
                         \/ Connected(E, u, edge[1]) /\ Connected(E, edge[2], w)
                         \/ Connected(E, u, edge[2]) /\ Connected(E, edge[1], w)
<1>1. edge[1] \in Vertex /\ edge[2] \in Vertex
  OBVIOUS
<1>2. ASSUME Reached(v) PROVE Connected(E \cup {edge}, u, v)
  <2> SUFFICES ASSUME NEW S \in SUBSET Vertex, u \in S, Closed(S, E \cup {edge})
               PROVE  v \in S
    BY DEF Connected, Closed
  <2>1. Closed(S, E) /\ (edge[1] \in S <=> edge[2] \in S)
    BY DEF Closed
  <2> QED
    BY <1>2, <2>1 DEF Connected, Closed
<1>3. ASSUME Connected(E \cup {edge}, u, v) PROVE Reached(v)
  <2> DEFINE S == {w \in Vertex : Reached(w)}
  <2>1. S \in SUBSET Vertex /\ u \in S
    BY ConnectedSame
  <2>2. ASSUME NEW x \in Vertex, NEW y \in Vertex,
               Connected(E, x, y), Reached(x)
        PROVE  Reached(y)
    BY <1>1, <2>2, ConnectedOn
  <2>3. ASSUME NEW e \in E PROVE e[1] \in S <=> e[2] \in S
    <3>1. e[1] \in Vertex /\ e[2] \in Vertex /\ Connected(E, e[1], e[2])
      BY ConnectedByEdge
    <3>2. Connected(E, e[2], e[1])
      BY <3>1, ConnectedBack
    <3> QED
      BY <2>2, <3>1, <3>2
  <2>4. edge[1] \in S <=> edge[2] \in S
    BY <1>1, ConnectedSame
  <2>5. Closed(S, E \cup {edge})
    BY <2>3, <2>4 DEF Closed
  <2>6. v \in S
    <3> HIDE DEF S
    <3> QED
      BY <1>3, <2>1, <2>5 DEF Connected, Closed
  <2> QED
    BY <2>6
<1> QED
  BY <1>2, <1>3

-----------------------------------------------------------------------------
(* p is a forest over D: rep gives the root of each element's tree, and depth     *)
(* goes down with each step towards it.                                      *)
Element == 0 .. len - 1

Forest(D, p, rep, depth) ==
  \A v \in D :
    /\ p[v] \in D /\ rep[v] \in D
    /\ rep[p[v]] = rep[v] /\ p[rep[v]] = rep[v]
    /\ p[v] = v => rep[v] = v /\ depth[v] = 0
    /\ p[v] # v => depth[p[v]] < depth[v]

LEMMA WalkToRoot ==
  ASSUME len \in Nat, NEW rep, NEW depth \in [Element -> Nat],
         Forest(Element, par, rep, depth), NEW v \in Element, depth[v] < len
  PROVE  Root(v) = rep[v] /\ WalkEnds(v)
<1> DEFINE Loop(walk) ==
      walk = [step \in 0 .. len |-> IF step = 0 THEN v ELSE par[walk[step - 1]]]
<1>1. Root(v) = (CHOOSE walk : Loop(walk))[len]
  BY Zenon DEF Root
<1>2. PICK f \in [0 .. len -> Element] : f[0] = v /\ \A n \in 1 .. len : f[n] = par[f[n - 1]]
  <2>1. PICK up : up = [u \in Element |-> par[u]]
    OBVIOUS
  <2>2. up \in [Element -> Element]
    BY <2>1 DEF Forest
  <2>3. PICK every : every = [n \in 1 .. len |-> up]
    OBVIOUS
  <2>4. every \in [1 .. len -> [Element -> Element]]
    BY <2>2, <2>3
  <2>5. PICK f \in [0 .. len -> Element] :
          f[0] = v /\ \A n \in 1 .. len : f[n] = every[n][f[n - 1]]
    <3>1. \E f : Iterates(f, len, Element, v, every)
      BY <2>4, Recursion
    <3> QED
      BY <3>1 DEF Iterates
  <2>6. ASSUME NEW n \in 1 .. len PROVE f[n] = par[f[n - 1]]
    <3>1. f[n - 1] \in Element
      OBVIOUS
    <3> QED
      BY <2>1, <2>3, <2>5, <3>1
  <2> QED
    BY <2>5, <2>6
<1>3. Loop(f)
  BY <1>2
<1>4. PICK walk : walk = CHOOSE g : Loop(g)
  OBVIOUS
<1>5. Loop(walk)
  BY <1>3, <1>4, Zenon
<1>6. walk[0] = v /\ \A n \in 1 .. len : walk[n] = par[walk[n - 1]]
  BY <1>5
<1> HIDE DEF Loop
<1> DEFINE Near(u, n) == /\ u \in Element /\ rep[u] = rep[v]
                         /\ par[u] = u \/ depth[u] + n <= depth[v]
<1>7. PICK T : T = {n \in 0 .. len : Near(walk[n], n)}
  OBVIOUS
<1>8. 0 \in T
  <2>1. 0 \in 0 .. len /\ depth[v] + 0 <= depth[v]
    OBVIOUS
  <2> QED
    BY <1>6, <1>7, <2>1
<1>9. ASSUME NEW n \in 0 .. len - 1, n \in T PROVE n + 1 \in T
  <2>1. n + 1 \in 1 .. len /\ n + 1 \in 0 .. len /\ (n + 1) - 1 = n
    OBVIOUS
  <2>2. PICK u : u = walk[n] /\ Near(u, n)
    BY <1>7, <1>9
  <2>3. walk[n + 1] = par[u]
    BY <1>6, <2>1, <2>2
  <2>4. Near(par[u], n + 1)
    <3>1. CASE par[u] = u
      BY <2>2, <3>1
    <3>2. CASE par[u] # u
      <4>1. /\ par[u] \in Element /\ rep[par[u]] = rep[v]
            /\ depth[par[u]] < depth[u] /\ depth[u] + n <= depth[v]
        BY <2>2, <3>2 DEF Forest
      <4>2. depth[par[u]] \in Nat /\ depth[u] \in Nat /\ depth[v] \in Nat
        BY <2>2, <4>1
      <4>3. depth[par[u]] + (n + 1) <= depth[v]
        BY <4>1, <4>2
      <4> QED
        BY <4>1, <4>3
    <3> QED
      BY <3>1, <3>2
  <2> QED
    BY <1>7, <2>1, <2>3, <2>4
<1>10. \A n \in 0 .. len : n \in T
  BY <1>8, <1>9, RangeInduction
<1>11. PICK u : u = walk[len] /\ Near(u, len)
  BY <1>7, <1>10
<1>12. par[u] = u
  <2>1. depth[u] \in Nat /\ depth[v] \in Nat
    BY <1>11
  <2> QED
    BY <1>11, <2>1
<1>13. u = rep[v]
  BY <1>11, <1>12 DEF Forest
<1> QED
  BY <1>1, <1>4, <1>11, <1>12, <1>13 DEF WalkEnds

-----------------------------------------------------------------------------
(* Of a graph g with its first m edges seen: rep names the components, n of  *)
(* the edges are in the forest.                                              *)
Seen(g, m) == {g[j] : j \in 1 .. m}

Roots(rep) == {rep[v] : v \in Vertex}

Trees(g, m, rep, n) ==
  /\ \A v \in Vertex : rep[v] \in Vertex
  /\ \A u, v \in Vertex : rep[u] = rep[v] <=> Connected(Seen(g, m), u, v)
  /\ n = Cardinality(Vertex) - Cardinality(Roots(rep))

(* The edges that join two components, and what names them.                  *)
Accepted(g, m) == {k \in 1 .. m : ~ Connected(Seen(g, k - 1), g[k][1], g[k][2])}

Named(g, k, names) ==
  /\ names[2 * k - 1] # names[2 * k]
  /\ Connected(Seen(g, k - 1), names[2 * k - 1], g[k][1])
  /\ Connected(Seen(g, k - 1), names[2 * k], g[k][2])

Joined(g, m, n, names) ==
  n = Cardinality(Accepted(g, m)) /\ \A k \in Accepted(g, m) : Named(g, k, names)

InLoop(m) ==
  /\ i = 2 * m + 1
  /\ taken \in 0 .. m
  /\ par \in [Element -> Element]
  /\ \E rep \in [Element -> Element], depth \in [Element -> 0 .. m] :
       Forest(Element, par, rep, depth) /\ Trees(edges, m, rep, taken)
  /\ Joined(edges, m, taken, mst)

KruskalInv ==
  /\ edges \in EdgeLists
  /\ len = 2 * Len(edges) + 1
  /\ mst \in [Element -> Int]
  /\ (i = 0 /\ taken = 0 /\ result = NoResult) \/ \E m \in 0 .. Len(edges) : InLoop(m)
  /\ result # NoResult => result = taken /\ mst[0] = taken

LEMMA Graph ==
  ASSUME edges \in EdgeLists, len = 2 * Len(edges) + 1
  PROVE  /\ Len(edges) \in Nat /\ len \in Nat
         /\ edges \in Seq(Vertex \X Vertex)
         /\ \A k \in 1 .. Len(edges) : /\ edges[k] \in Vertex \X Vertex
                                       /\ edges[k][1] \in Vertex /\ edges[k][2] \in Vertex
         /\ Vertex \subseteq Element /\ IsFiniteSet(Vertex)
         /\ Cardinality(Vertex) \in Nat
<1>1. edges \in Seq(Vertex \X Vertex) /\ Vertex \subseteq Nat
  BY KruskalAssumption
<1>2. Len(edges) \in Nat
  BY <1>1
<1>3. \A v \in Vertex : v \in Nat /\ v <= 2 * Len(edges)
  BY KruskalAssumption
<1>4. IsFiniteSet(Vertex)
  <2>1. PICK n \in Nat : n = 2 * Len(edges)
    BY <1>2
  <2> QED
    BY <1>1, <1>3, <2>1, FS_BoundedSetOfNaturals
<1>5. Cardinality(Vertex) \in Nat
  BY <1>4, FS_CardinalityType
<1>6. \A k \in 1 .. Len(edges) : edges[k] \in Vertex \X Vertex
  BY <1>1
<1>7. Vertex \subseteq Element
  BY <1>2, <1>3 DEF Element
<1> QED
  BY <1>1, <1>2, <1>4, <1>5, <1>6, <1>7

LEMMA SeenMore ==
  ASSUME edges \in EdgeLists, len = 2 * Len(edges) + 1, NEW m \in 0 .. Len(edges)
  PROVE  /\ Seen(edges, m) \in SUBSET (Vertex \X Vertex)
         /\ m < Len(edges) => Seen(edges, m + 1) = Seen(edges, m) \cup {edges[m + 1]}
         /\ m = 0 => Seen(edges, m) = {}
<1>1. Len(edges) \in Nat
  BY Graph
<1>2. \A j \in 1 .. m : j \in 1 .. Len(edges)
  BY <1>1
<1>3. Seen(edges, m) \in SUBSET (Vertex \X Vertex)
  BY <1>2, Graph DEF Seen
<1>4. 1 .. m + 1 = (1 .. m) \cup {m + 1}
  BY <1>1
<1> QED
  BY <1>1, <1>3, <1>4 DEF Seen

LEMMA RootsFinite ==
  ASSUME IsFiniteSet(Vertex), NEW rep
  PROVE  IsFiniteSet(Roots(rep))
<1>1. PICK f : f = [v \in Vertex |-> rep[v]]
  OBVIOUS
<1>2. f \in Surjection(Vertex, Roots(rep))
  BY <1>1 DEF Surjection, Roots
<1> QED
  BY <1>2, FS_Surjection

(* Joining two trees takes one root away.                                    *)
LEMMA RootsJoined ==
  ASSUME IsFiniteSet(Vertex), NEW rep, NEW more, NEW x \in Vertex, NEW y \in Vertex,
         rep[x] # rep[y],
         \A v \in Vertex : more[v] = IF rep[v] = rep[x] THEN rep[y] ELSE rep[v]
  PROVE  Cardinality(Roots(more)) = Cardinality(Roots(rep)) - 1
<1>1. Roots(more) = Roots(rep) \ {rep[x]}
  BY DEF Roots
<1>2. rep[x] \in Roots(rep)
  BY DEF Roots
<1>3. IsFiniteSet(Roots(rep))
  BY RootsFinite
<1> QED
  BY <1>1, <1>2, <1>3, FS_RemoveElement

(* Hanging the root a under the root b.                                      *)
Hung(p, a, b) == [p EXCEPT ![a] = b]

Renamed(D, rep, a, b) == [v \in D |-> IF rep[v] = a THEN b ELSE rep[v]]

Deepened(D, rep, depth, a) ==
  [v \in D |-> IF rep[v] = a THEN depth[v] + 1 ELSE depth[v]]

LEMMA ForestJoined ==
  ASSUME NEW D, NEW p \in [D -> D], NEW rep \in [D -> D], NEW depth \in [D -> Nat],
         Forest(D, p, rep, depth), NEW a \in D, NEW b \in D, p[a] = a, p[b] = b, a # b
  PROVE  Forest(D, Hung(p, a, b), Renamed(D, rep, a, b), Deepened(D, rep, depth, a))
<1>1. PICK joined, more, deeper :
        /\ joined = Hung(p, a, b) /\ joined = [p EXCEPT ![a] = b]
        /\ more = Renamed(D, rep, a, b)
        /\ more = [v \in D |-> IF rep[v] = a THEN b ELSE rep[v]]
        /\ deeper = Deepened(D, rep, depth, a)
        /\ deeper = [v \in D |-> IF rep[v] = a THEN depth[v] + 1 ELSE depth[v]]
  BY DEF Hung, Renamed, Deepened
<1>2. rep[a] = a /\ rep[b] = b /\ depth[a] = 0 /\ depth[b] = 0
  BY DEF Forest
<1>3. ASSUME NEW v \in D
      PROVE  /\ joined[v] \in D /\ more[v] \in D
             /\ more[joined[v]] = more[v] /\ joined[more[v]] = more[v]
             /\ joined[v] = v => more[v] = v /\ deeper[v] = 0
             /\ joined[v] # v => deeper[joined[v]] < deeper[v]
  <2>1. /\ p[v] \in D /\ rep[v] \in D /\ rep[p[v]] = rep[v] /\ p[rep[v]] = rep[v]
        /\ p[v] = v => rep[v] = v /\ depth[v] = 0
        /\ p[v] # v => depth[p[v]] < depth[v]
        /\ depth[v] \in Nat /\ depth[p[v]] \in Nat
    BY DEF Forest
  <2>2. CASE v = a
    <3>1. joined[v] = b /\ more[v] = b /\ more[b] = b /\ joined[b] = b
      BY <1>1, <1>2, <2>2
    <3>2. deeper[v] = 1 /\ deeper[b] = 0
      BY <1>1, <1>2, <2>2
    <3> QED
      BY <2>2, <3>1, <3>2
  <2>3. CASE v # a
    <3>1. joined[v] = p[v] /\ more[p[v]] = more[v] /\ more[v] \in D
      BY <1>1, <2>1, <2>3
    <3>2. joined[more[v]] = more[v]
      BY <1>1, <2>1
    <3>3. p[v] = v => more[v] = v /\ deeper[v] = 0
      BY <1>1, <2>1, <2>3
    <3>4. p[v] # v => deeper[p[v]] < deeper[v]
      <4>1. CASE rep[v] = a
        BY <1>1, <2>1, <4>1
      <4>2. CASE rep[v] # a
        BY <1>1, <2>1, <4>2
      <4> QED
        BY <4>1, <4>2
    <3> QED
      BY <2>1, <3>1, <3>2, <3>3, <3>4
  <2> QED
    BY <2>2, <2>3
<1>4. Forest(D, joined, more, deeper)
  BY <1>3 DEF Forest
<1> QED
  BY <1>1, <1>4

(* An edge between two trees joins the components they stand for.            *)
Merged(rep, more, edge) ==
  \A v \in Vertex : more[v] = IF rep[v] = rep[edge[1]] THEN rep[edge[2]] ELSE rep[v]

LEMMA TreesJoined ==
  ASSUME edges \in EdgeLists, len = 2 * Len(edges) + 1, NEW m \in 0 .. Len(edges) - 1,
         NEW rep, NEW n \in Int, Trees(edges, m, rep, n),
         rep[edges[m + 1][1]] # rep[edges[m + 1][2]],
         NEW more, Merged(rep, more, edges[m + 1])
  PROVE  Trees(edges, m + 1, more, n + 1)
<1> PICK x, y : x = edges[m + 1][1] /\ y = edges[m + 1][2]
  OBVIOUS
<1>7. /\ rep[x] # rep[y]
      /\ \A v \in Vertex : more[v] = IF rep[v] = rep[x] THEN rep[y] ELSE rep[v]
  BY DEF Merged
<1>1. /\ m + 1 \in 1 .. Len(edges) /\ x \in Vertex /\ y \in Vertex
      /\ edges[m + 1] \in Vertex \X Vertex /\ IsFiniteSet(Vertex)
      /\ Cardinality(Vertex) \in Nat
  <2>1. Len(edges) \in Nat
    BY Graph
  <2>2. m + 1 \in 1 .. Len(edges)
    BY <2>1
  <2> QED
    BY <2>2, Graph
<1>2. /\ Seen(edges, m + 1) = Seen(edges, m) \cup {edges[m + 1]}
      /\ Seen(edges, m) \in SUBSET (Vertex \X Vertex)
  <2>1. Len(edges) \in Nat /\ m \in 0 .. Len(edges) /\ m < Len(edges)
    BY Graph
  <2> QED
    BY <2>1, SeenMore
<1>3. \A u, v \in Vertex : rep[u] = rep[v] <=> Connected(Seen(edges, m), u, v)
  BY DEF Trees
<1>4. \A v \in Vertex : more[v] \in Vertex
  BY <1>1, <1>7 DEF Trees
<1>5. ASSUME NEW u \in Vertex, NEW v \in Vertex
      PROVE  more[u] = more[v] <=> Connected(Seen(edges, m + 1), u, v)
  <2>1. Connected(Seen(edges, m + 1), u, v) <=>
           \/ rep[u] = rep[v]
           \/ rep[u] = rep[x] /\ rep[y] = rep[v]
           \/ rep[u] = rep[y] /\ rep[x] = rep[v]
    BY <1>1, <1>2, <1>3, ConnectedMore
  <2> QED
    BY <1>7, <2>1
<1>6. n + 1 = Cardinality(Vertex) - Cardinality(Roots(more))
  <2>1. Cardinality(Roots(more)) = Cardinality(Roots(rep)) - 1
    BY <1>1, <1>7, RootsJoined
  <2>2. IsFiniteSet(Roots(rep)) /\ Cardinality(Roots(rep)) \in Nat
    BY <1>1, RootsFinite, FS_CardinalityType
  <2>3. n = Cardinality(Vertex) - Cardinality(Roots(rep))
    BY DEF Trees
  <2> QED
    BY <1>1, <2>1, <2>2, <2>3
<1> QED
  BY <1>4, <1>5, <1>6 DEF Trees

(* An edge within a tree changes nothing.                                    *)
LEMMA TreesKept ==
  ASSUME edges \in EdgeLists, len = 2 * Len(edges) + 1, NEW m \in 0 .. Len(edges) - 1,
         NEW rep, NEW n, Trees(edges, m, rep, n),
         rep[edges[m + 1][1]] = rep[edges[m + 1][2]]
  PROVE  Trees(edges, m + 1, rep, n)
<1>1. PICK x, y : x = edges[m + 1][1] /\ y = edges[m + 1][2]
  OBVIOUS
<1>2. x \in Vertex /\ y \in Vertex /\ edges[m + 1] \in Vertex \X Vertex
  <2>1. Len(edges) \in Nat
    BY Graph
  <2>2. m + 1 \in 1 .. Len(edges)
    BY <2>1
  <2> QED
    BY <1>1, <2>2, Graph
<1>3. /\ Seen(edges, m + 1) = Seen(edges, m) \cup {edges[m + 1]}
      /\ Seen(edges, m) \in SUBSET (Vertex \X Vertex)
  <2>1. Len(edges) \in Nat /\ m \in 0 .. Len(edges) /\ m < Len(edges)
    BY Graph
  <2> QED
    BY <2>1, SeenMore
<1>4. \A u, v \in Vertex : rep[u] = rep[v] <=> Connected(Seen(edges, m), u, v)
  BY DEF Trees
<1>5. ASSUME NEW u \in Vertex, NEW v \in Vertex
      PROVE  rep[u] = rep[v] <=> Connected(Seen(edges, m + 1), u, v)
  <2>1. Connected(Seen(edges, m + 1), u, v) <=>
           \/ rep[u] = rep[v]
           \/ rep[u] = rep[x] /\ rep[y] = rep[v]
           \/ rep[u] = rep[y] /\ rep[x] = rep[v]
    BY <1>1, <1>2, <1>3, <1>4, ConnectedMore
  <2> QED
    BY <1>1, <2>1
<1> QED
  BY <1>5 DEF Trees

LEMMA AcceptedMore ==
  ASSUME NEW g, NEW m \in Nat
  PROVE  /\ IsFiniteSet(Accepted(g, m)) /\ Cardinality(Accepted(g, m)) \in Nat
         /\ Connected(Seen(g, m), g[m + 1][1], g[m + 1][2]) =>
              Accepted(g, m + 1) = Accepted(g, m)
         /\ ~ Connected(Seen(g, m), g[m + 1][1], g[m + 1][2]) =>
              /\ Accepted(g, m + 1) = Accepted(g, m) \cup {m + 1}
              /\ Cardinality(Accepted(g, m + 1)) = Cardinality(Accepted(g, m)) + 1
<1>1. IsFiniteSet(1 .. m) /\ Accepted(g, m) \subseteq 1 .. m
  BY FS_Interval DEF Accepted
<1>2. IsFiniteSet(Accepted(g, m)) /\ Cardinality(Accepted(g, m)) \in Nat
  BY <1>1, FS_Subset, FS_CardinalityType
<1>3. 1 .. m + 1 = (1 .. m) \cup {m + 1} /\ (m + 1) - 1 = m
  OBVIOUS
<1>4. m + 1 \notin Accepted(g, m)
  BY <1>1
<1>5. Connected(Seen(g, m), g[m + 1][1], g[m + 1][2]) =>
        Accepted(g, m + 1) = Accepted(g, m)
  BY <1>3 DEF Accepted
<1>6. ~ Connected(Seen(g, m), g[m + 1][1], g[m + 1][2]) =>
        Accepted(g, m + 1) = Accepted(g, m) \cup {m + 1}
  BY <1>3 DEF Accepted
<1>7. Cardinality(Accepted(g, m) \cup {m + 1}) = Cardinality(Accepted(g, m)) + 1
  BY <1>2, <1>4, FS_AddElement
<1> QED
  BY <1>2, <1>5, <1>6, <1>7

LEMMA InitKruskalInv == KruskalInit => KruskalInv
<1> SUFFICES ASSUME KruskalInit PROVE KruskalInv
  OBVIOUS
<1>1. Len(edges) \in Nat
  BY Graph DEF KruskalInit
<1>2. mst \in [Element -> Int]
  BY DEF KruskalInit, Element
<1> QED
  BY <1>1, <1>2 DEF KruskalInit, KruskalInv

LEMMA ClearKruskalInv == KruskalInv /\ ClearArrays => KruskalInv'
<1> SUFFICES ASSUME KruskalInv, ClearArrays PROVE KruskalInv'
  OBVIOUS
<1>1. /\ edges' = edges /\ len' = len /\ taken' = taken /\ result' = result /\ i' = 1
      /\ Element' = Element
      /\ mst' = [k \in Element |-> -1] /\ par' = [v \in Element |-> v]
  BY DEF ClearArrays, Element
<1>2. edges \in EdgeLists /\ len = 2 * Len(edges) + 1 /\ result = NoResult
  BY DEF KruskalInv, ClearArrays
<1>3. /\ Len(edges) \in Nat /\ len \in Nat /\ Vertex \subseteq Element
      /\ IsFiniteSet(Vertex) /\ Cardinality(Vertex) \in Nat
  BY <1>2, Graph
<1>4. taken = 0
  <2>1. ASSUME NEW m \in 0 .. Len(edges), InLoop(m) PROVE FALSE
    BY <1>3, <2>1 DEF InLoop, ClearArrays
  <2> QED
    BY <2>1 DEF KruskalInv
<1>5. mst' \in [Element -> Int] /\ par' \in [Element -> Element]
  BY <1>1
<1>6. PICK none : none = [v \in Element |-> 0]
  OBVIOUS
<1>7. par' \in [Element -> Element] /\ none \in [Element -> 0 .. 0]
  BY <1>1, <1>6
<1>8. Forest(Element, par', par', none)
  BY <1>1, <1>6, <1>7 DEF Forest
<1>9. Trees(edges, 0, par', 0)
  <2>1. \A v \in Vertex : par'[v] = v
    BY <1>1, <1>3
  <2>2. Seen(edges, 0) = {}
    BY <1>2, <1>3, SeenMore
  <2>3. ASSUME NEW u \in Vertex, NEW v \in Vertex PROVE u = v <=> Connected({}, u, v)
    <3>1. ASSUME Connected({}, u, v) PROVE u = v
      <4>1. {u} \in SUBSET Vertex
        OBVIOUS
      <4> QED
        BY <3>1, <4>1 DEF Connected
    <3> QED
      BY <3>1, ConnectedSame
  <2>4. Roots(par') = Vertex
    BY <2>1 DEF Roots
  <2> QED
    <3>1. \A u, v \in Vertex : par'[u] = par'[v] <=> Connected(Seen(edges, 0), u, v)
      BY <2>1, <2>2, <2>3
    <3>2. \A v \in Vertex : par'[v] \in Vertex
      BY <2>1
    <3>3. 0 = Cardinality(Vertex) - Cardinality(Roots(par'))
      BY <1>3, <2>4
    <3> QED
      BY <3>1, <3>2, <3>3 DEF Trees
<1>10. Joined(edges, 0, 0, mst')
  <2>1. Accepted(edges, 0) = {}
    BY DEF Accepted
  <2> QED
    BY <2>1, FS_EmptySet DEF Joined
<1>11. InLoop(0)'
  <2>1. i' = 2 * 0 + 1 /\ taken' \in 0 .. 0
    BY <1>1, <1>4
  <2> QED
    BY <1>1, <1>4, <1>7, <1>8, <1>9, <1>10, <2>1 DEF InLoop
<1>12. 0 \in 0 .. Len(edges)
  BY <1>3
<1> QED
  BY <1>1, <1>2, <1>5, <1>11, <1>12 DEF KruskalInv

LEMMA ReturnKruskalInv == KruskalInv /\ Return => KruskalInv'
<1> SUFFICES ASSUME KruskalInv, Return PROVE KruskalInv'
  OBVIOUS
<1>1. /\ edges' = edges /\ len' = len /\ taken' = taken /\ i' = i /\ par' = par
      /\ Element' = Element
      /\ mst' = [mst EXCEPT ![0] = taken] /\ result' = taken
  BY DEF Return, Element
<1>2. edges \in EdgeLists /\ len = 2 * Len(edges) + 1
  BY DEF KruskalInv
<1>3. Len(edges) \in Nat /\ len \in Nat /\ 0 \in Element
  BY <1>2, Graph DEF Element
<1>4. PICK m \in 0 .. Len(edges) : InLoop(m)
  BY <1>2, <1>3 DEF KruskalInv, Return
<1>5. taken \in Int
  BY <1>4 DEF InLoop
<1>6. mst' \in [Element -> Int] /\ mst'[0] = taken
  BY <1>1, <1>3, <1>5 DEF KruskalInv
<1>7. Joined(edges, m, taken, mst')
  <2>1. ASSUME NEW k \in Accepted(edges, m) PROVE Named(edges, k, mst')
    <3>1. k \in 1 .. Len(edges)
      BY <1>3 DEF Accepted
    <3>2. 2 * k - 1 \in Element /\ 2 * k \in Element /\ 2 * k - 1 # 0 /\ 2 * k # 0
      BY <1>2, <1>3, <3>1 DEF Element
    <3>3. mst'[2 * k - 1] = mst[2 * k - 1] /\ mst'[2 * k] = mst[2 * k]
      BY <1>1, <3>2 DEF KruskalInv
    <3>4. Named(edges, k, mst)
      BY <1>4 DEF InLoop, Joined
    <3> QED
      BY <3>3, <3>4 DEF Named
  <2> QED
    BY <1>4, <2>1 DEF InLoop, Joined
<1>8. InLoop(m)'
  BY <1>1, <1>4, <1>7 DEF InLoop
<1> QED
  BY <1>1, <1>2, <1>4, <1>6, <1>8 DEF KruskalInv

(* What TakeEdge does, said of trees instead of walks.                       *)
LEMMA TakeEdgeAsTrees ==
  ASSUME KruskalInv, TakeEdge, NEW m \in 0 .. Len(edges), InLoop(m),
         NEW rep \in [Element -> Element], NEW depth \in [Element -> 0 .. m],
         Forest(Element, par, rep, depth), Trees(edges, m, rep, taken),
         NEW a, NEW b, a = rep[edges[m + 1][1]], b = rep[edges[m + 1][2]]
  PROVE  /\ m + 1 \in 0 .. Len(edges)
         /\ edges[m + 1][1] \in Vertex /\ edges[m + 1][2] \in Vertex
         /\ a \in Vertex /\ b \in Vertex /\ par[a] = a /\ par[b] = b
         /\ par' = [par EXCEPT ![a] = IF a # b THEN b ELSE a]
         /\ taken' = IF a # b THEN taken + 1 ELSE taken
         /\ mst' = [mst EXCEPT ![2 * m + 1] = IF a # b THEN a ELSE a - 1,
                               ![2 * m + 2] = IF a # b THEN b ELSE a - 1]
         /\ i' = 2 * (m + 1) + 1
         /\ edges' = edges /\ len' = len /\ result' = result /\ Element' = Element
<1>1. edges \in EdgeLists /\ len = 2 * Len(edges) + 1 /\ i = 2 * m + 1
  BY DEF KruskalInv, InLoop
<1>2. Len(edges) \in Nat /\ len \in Nat /\ Vertex \subseteq Element
  BY <1>1, Graph
<1>3. m + 1 \in 1 .. Len(edges) /\ (i + 1) \div 2 = m + 1 /\ i' = 2 * (m + 1) + 1
  BY <1>1, <1>2 DEF TakeEdge
<1>4. edges[m + 1][1] \in Vertex /\ edges[m + 1][2] \in Vertex
  BY <1>1, <1>3, Graph
<1>5. \A v \in Element : Root(v) = rep[v] /\ WalkEnds(v)
  <2>1. depth \in [Element -> Nat] /\ \A v \in Element : depth[v] < len
    BY <1>1, <1>2
  <2> QED
    BY <1>2, <2>1, WalkToRoot
<1>6. Root(edges[m + 1][1]) = a /\ Root(edges[m + 1][2]) = b
  BY <1>2, <1>4, <1>5
<1>7. a \in Vertex /\ b \in Vertex /\ par[a] = a /\ par[b] = b
  BY <1>2, <1>4 DEF Trees, Forest
<1>8. Differ(edges[m + 1]) <=> a # b
  BY <1>6 DEF Differ
<1>9. /\ par' = [par EXCEPT ![a] = IF a # b THEN b ELSE a]
      /\ taken' = IF a # b THEN taken + 1 ELSE taken
      /\ mst' = [mst EXCEPT ![i]     = IF a # b THEN a ELSE a - 1,
                            ![i + 1] = IF a # b THEN b ELSE a - 1]
  BY <1>3, <1>6, <1>7, <1>8 DEF TakeEdge, Masked
<1>10. i + 1 = 2 * m + 2 /\ i = 2 * m + 1
  BY <1>1, <1>2
<1>11. edges' = edges /\ len' = len /\ result' = result /\ Element' = Element
  BY DEF TakeEdge, Element
<1>12. mst' = [mst EXCEPT ![2 * m + 1] = IF a # b THEN a ELSE a - 1,
                          ![2 * m + 2] = IF a # b THEN b ELSE a - 1]
  BY <1>9, <1>10
<1>13. m + 1 \in 0 .. Len(edges)
  BY <1>2, <1>3
<1> QED
  BY <1>3, <1>4, <1>7, <1>9, <1>11, <1>12, <1>13

LEMMA TakeKruskalInv == KruskalInv /\ TakeEdge => KruskalInv'
<1> SUFFICES ASSUME KruskalInv, TakeEdge PROVE KruskalInv'
  OBVIOUS
<1>1. edges \in EdgeLists /\ len = 2 * Len(edges) + 1 /\ mst \in [Element -> Int]
  BY DEF KruskalInv
<1>2. /\ Len(edges) \in Nat /\ len \in Nat /\ Vertex \subseteq Element
      /\ Element = 0 .. 2 * Len(edges)
  BY <1>1, Graph DEF Element
<1>3. PICK m \in 0 .. Len(edges) : InLoop(m)
  BY DEF KruskalInv, TakeEdge
<1>4. PICK rep \in [Element -> Element], depth \in [Element -> 0 .. m] :
        Forest(Element, par, rep, depth) /\ Trees(edges, m, rep, taken)
  BY <1>3 DEF InLoop
<1>5. /\ taken \in 0 .. m /\ par \in [Element -> Element]
      /\ Joined(edges, m, taken, mst)
  BY <1>3 DEF InLoop
<1>6. PICK x, y, a, b : /\ x = edges[m + 1][1] /\ y = edges[m + 1][2]
                        /\ a = rep[x] /\ b = rep[y]
  OBVIOUS
<1>7. /\ m + 1 \in 0 .. Len(edges) /\ x \in Vertex /\ y \in Vertex
      /\ a \in Vertex /\ b \in Vertex /\ par[a] = a /\ par[b] = b
      /\ par' = [par EXCEPT ![a] = IF a # b THEN b ELSE a]
      /\ taken' = IF a # b THEN taken + 1 ELSE taken
      /\ mst' = [mst EXCEPT ![2 * m + 1] = IF a # b THEN a ELSE a - 1,
                            ![2 * m + 2] = IF a # b THEN b ELSE a - 1]
      /\ i' = 2 * (m + 1) + 1
      /\ edges' = edges /\ len' = len /\ result' = result /\ Element' = Element
  BY <1>3, <1>4, <1>6, TakeEdgeAsTrees, SMTT(20)
<1>8. m \in 0 .. Len(edges) - 1 /\ m + 1 \in 1 .. Len(edges) /\ m \in Nat
  BY <1>2, <1>7
<1>9. a \in Nat /\ b \in Nat /\ a \in Element /\ b \in Element
  BY <1>2, <1>7
<1>10. mst' \in [Element -> Int]
  <2>1. PICK first, second :
          /\ first = IF a # b THEN a ELSE a - 1
          /\ second = IF a # b THEN b ELSE a - 1
    OBVIOUS
  <2>2. first \in Int /\ second \in Int
    BY <1>9, <2>1
  <2>3. mst' = [mst EXCEPT ![2 * m + 1] = first, ![2 * m + 2] = second]
    BY <1>7, <2>1
  <2> QED
    BY <1>1, <2>2, <2>3
<1>11. taken' \in 0 .. m + 1 /\ par' \in [Element -> Element]
  BY <1>5, <1>7, <1>9
<1>12. ASSUME NEW k \in Accepted(edges, m) PROVE Named(edges, k, mst')
  <2>1. k \in 1 .. m
    BY DEF Accepted
  <2>2. /\ 2 * k - 1 # 2 * m + 1 /\ 2 * k - 1 # 2 * m + 2
        /\ 2 * k # 2 * m + 1 /\ 2 * k # 2 * m + 2
        /\ 2 * k - 1 \in Element /\ 2 * k \in Element
    BY <1>2, <1>8, <2>1
  <2>3. mst'[2 * k - 1] = mst[2 * k - 1] /\ mst'[2 * k] = mst[2 * k]
    BY <1>1, <1>7, <2>2
  <2>4. Named(edges, k, mst)
    BY <1>5 DEF Joined
  <2> QED
    BY <2>3, <2>4 DEF Named
<1>13. a = b <=> Connected(Seen(edges, m), x, y)
  BY <1>4, <1>6, <1>7 DEF Trees
<1>14. InLoop(m + 1)'
  <2>1. CASE a # b
    <3>1. PICK more, deeper :
            /\ more = Renamed(Element, rep, a, b)
            /\ more = [v \in Element |-> IF rep[v] = a THEN b ELSE rep[v]]
            /\ deeper = Deepened(Element, rep, depth, a)
            /\ deeper = [v \in Element |-> IF rep[v] = a THEN depth[v] + 1 ELSE depth[v]]
      BY DEF Renamed, Deepened
    <3>2. more \in [Element -> Element] /\ deeper \in [Element -> 0 .. m + 1]
      BY <1>8, <1>9, <3>1
    <3>3. Forest(Element, par', more, deeper)
      <4>1. depth \in [Element -> Nat]
        BY <1>8
      <4> QED
        <5>1. par' = Hung(par, a, b)
          BY <1>7, <2>1 DEF Hung
        <5>2. par \in [Element -> Element] /\ par[a] = a /\ par[b] = b
          BY <1>5, <1>7
        <5>3. Forest(Element, Hung(par, a, b), Renamed(Element, rep, a, b),
                     Deepened(Element, rep, depth, a))
          BY <1>4, <1>9, <2>1, <4>1, <5>2, ForestJoined, Zenon
        <5> QED
          BY <3>1, <5>1, <5>3, Zenon
    <3>4. Trees(edges, m + 1, more, taken')
      <4>1. Merged(rep, more, edges[m + 1])
        BY <1>2, <1>6, <3>1 DEF Merged
      <4>2. taken \in Int /\ taken' = taken + 1
        BY <1>5, <1>7, <2>1
      <4> QED
        <5>1. rep[edges[m + 1][1]] # rep[edges[m + 1][2]]
          BY <1>6, <2>1
        <5>2. Trees(edges, m + 1, more, taken + 1)
          BY <1>1, <1>4, <1>8, <4>1, <4>2, <5>1, TreesJoined, Zenon
        <5> QED
          BY <4>2, <5>2
    <3>5. Joined(edges, m + 1, taken', mst')
      <4>1. /\ Accepted(edges, m + 1) = Accepted(edges, m) \cup {m + 1}
            /\ Cardinality(Accepted(edges, m + 1)) = Cardinality(Accepted(edges, m)) + 1
        BY <1>6, <1>8, <1>13, <2>1, AcceptedMore
      <4>2. Named(edges, m + 1, mst')
        <5>1. /\ 2 * (m + 1) - 1 = 2 * m + 1 /\ 2 * (m + 1) = 2 * m + 2 /\ (m + 1) - 1 = m
              /\ 2 * m + 1 \in Element /\ 2 * m + 2 \in Element
          BY <1>2, <1>8
        <5>2. mst'[2 * m + 1] = a /\ mst'[2 * m + 2] = b
          BY <1>1, <1>7, <1>8, <2>1, <5>1
        <5>3. rep[a] = a /\ rep[b] = b
          BY <1>7, <1>9, <1>4 DEF Forest
        <5>4. Connected(Seen(edges, m), a, x) /\ Connected(Seen(edges, m), b, y)
          BY <1>4, <1>6, <1>7, <5>3 DEF Trees
        <5> QED
          BY <1>6, <2>1, <5>1, <5>2, <5>4 DEF Named
      <4> QED
        BY <1>5, <1>7, <1>12, <2>1, <4>1, <4>2 DEF Joined
    <3> QED
      BY <1>7, <1>11, <3>2, <3>3, <3>4, <3>5 DEF InLoop
  <2>2. CASE a = b
    <3>1. par' = par /\ taken' = taken
      BY <1>5, <1>7, <2>2
    <3>2. depth \in [Element -> 0 .. m + 1]
      BY <1>8
    <3>3. Trees(edges, m + 1, rep, taken')
      BY <1>1, <1>4, <1>6, <1>8, <2>2, <3>1, TreesKept
    <3>4. Joined(edges, m + 1, taken', mst')
      <4>1. Accepted(edges, m + 1) = Accepted(edges, m)
        BY <1>6, <1>8, <1>13, <2>2, AcceptedMore
      <4> QED
        BY <1>5, <1>12, <3>1, <4>1 DEF Joined
    <3> QED
      <4>1. \E r \in [Element -> Element], d \in [Element -> 0 .. m + 1] :
              Forest(Element, par', r, d) /\ Trees(edges, m + 1, r, taken')
        BY <1>4, <3>1, <3>2, <3>3, Zenon
      <4> QED
        BY <1>7, <1>11, <3>4, <4>1 DEF InLoop
  <2> QED
    BY <2>1, <2>2
<1>15. result' = NoResult
  BY <1>7 DEF TakeEdge
<1> QED
  BY <1>1, <1>7, <1>10, <1>14, <1>15 DEF KruskalInv

-----------------------------------------------------------------------------
(* The roots stand for the components.                                       *)
LEMMA ComponentsAreRoots ==
  ASSUME NEW E, NEW rep, IsFiniteSet(Vertex),
         \A u, v \in Vertex : rep[u] = rep[v] <=> Connected(E, u, v)
  PROVE  Cardinality(Components(E)) = Cardinality(Roots(rep))
<1> DEFINE Tree(r) == {v \in Vertex : rep[v] = r}
<1>1. PICK f : f = [r \in Roots(rep) |-> Tree(r)]
  OBVIOUS
<1>2. ASSUME NEW u \in Vertex PROVE {v \in Vertex : Connected(E, u, v)} = Tree(rep[u])
  OBVIOUS
<1>3. Components(E) = {Tree(rep[u]) : u \in Vertex}
  BY <1>2 DEF Components
<1>4. ASSUME NEW r \in Roots(rep), NEW s \in Roots(rep), f[r] = f[s] PROVE r = s
  <2>1. PICK u \in Vertex : r = rep[u]
    BY DEF Roots
  <2>2. u \in Tree(s)
    BY <1>1, <1>4, <2>1
  <2> QED
    BY <2>1, <2>2
<1>5. \A r \in Roots(rep) : f[r] \in Components(E)
  BY <1>1, <1>3 DEF Roots
<1>6. ASSUME NEW C \in Components(E) PROVE \E r \in Roots(rep) : f[r] = C
  <2>1. PICK u \in Vertex : C = Tree(rep[u])
    BY <1>3
  <2>2. rep[u] \in Roots(rep)
    BY DEF Roots
  <2>3. f[rep[u]] = Tree(rep[u])
    BY <1>1, <2>2
  <2> QED
    BY <2>1, <2>2, <2>3
<1>7. f \in Bijection(Roots(rep), Components(E))
  <2>1. f \in [Roots(rep) -> Components(E)]
    BY <1>1, <1>5
  <2>2. \A r, s \in Roots(rep) : f[r] = f[s] => r = s
    BY <1>4
  <2> HIDE DEF Tree
  <2> QED
    BY <1>6, <2>1, <2>2 DEF Bijection, Injection, Surjection, IsInjective
<1>8. ExistsBijection(Roots(rep), Components(E))
  BY <1>7 DEF ExistsBijection
<1>9. IsFiniteSet(Roots(rep))
  BY RootsFinite
<1> QED
  BY <1>8, <1>9, FS_Bijection

LEMMA KruskalInvImplies == KruskalInv => SpanningForest
<1> SUFFICES ASSUME KruskalInv, i # 0 PROVE SpanningForest
  BY DEF SpanningForest
<1>1. edges \in EdgeLists /\ len = 2 * Len(edges) + 1
  BY DEF KruskalInv
<1>2. Len(edges) \in Nat /\ len \in Nat /\ Vertex \subseteq Element /\ IsFiniteSet(Vertex)
  BY <1>1, Graph
<1>3. PICK m \in 0 .. Len(edges) : InLoop(m)
  BY DEF KruskalInv
<1>4. PICK rep \in [Element -> Element], depth \in [Element -> 0 .. m] :
        Forest(Element, par, rep, depth) /\ Trees(edges, m, rep, taken)
  BY <1>3 DEF InLoop
<1>5. Joined(edges, m, taken, mst) /\ i = 2 * m + 1
  BY <1>3 DEF InLoop
<1>6. (i - 1) \div 2 = m
  BY <1>2, <1>5
<1>7. Done = Seen(edges, m)
  BY <1>6 DEF Done, Seen
<1>8. \A v \in Vertex : Root(v) = rep[v] /\ WalkEnds(v)
  <2>1. depth \in [Element -> Nat] /\ \A v \in Element : depth[v] < len
    BY <1>1, <1>2
  <2> QED
    BY <1>2, <1>4, <2>1, WalkToRoot
<1>9. \A u, v \in Vertex : rep[u] = rep[v] <=> Connected(Done, u, v)
  BY <1>4, <1>7 DEF Trees
<1>10. taken = Cardinality(Vertex) - Cardinality(Components(Done))
  <2>1. Cardinality(Components(Done)) = Cardinality(Roots(rep))
    BY <1>2, <1>9, ComponentsAreRoots
  <2> QED
    BY <1>4, <2>1 DEF Trees
<1> DEFINE accepted == {k \in 1 .. (i - 1) \div 2 :
                          ~ Connected({edges[j] : j \in 1 .. k - 1},
                                      edges[k][1], edges[k][2])}
<1>11. accepted = Accepted(edges, m)
  BY <1>6 DEF Accepted, Seen
<1>12. taken = Cardinality(accepted)
  BY <1>5, <1>11 DEF Joined
<1>13. ASSUME NEW k \in accepted
       PROVE  /\ mst[2 * k - 1] # mst[2 * k]
              /\ Connected({edges[j] : j \in 1 .. k - 1}, mst[2 * k - 1], edges[k][1])
              /\ Connected({edges[j] : j \in 1 .. k - 1}, mst[2 * k], edges[k][2])
  <2>1. Named(edges, k, mst)
    BY <1>5, <1>11 DEF Joined
  <2> QED
    BY <2>1 DEF Named, Seen
<1>14. result # NoResult => result = taken /\ mst[0] = taken
  BY DEF KruskalInv
<1>15. \A u, v \in Vertex :
         WalkEnds(u) /\ (Root(u) = Root(v) <=> Connected(Done, u, v))
  BY <1>8, <1>9
<1> HIDE DEF accepted
<1>16. /\ \A u, v \in Vertex :
            WalkEnds(u) /\ (Root(u) = Root(v) <=> Connected(Done, u, v))
       /\ taken = Cardinality(Vertex) - Cardinality(Components(Done))
       /\ taken = Cardinality(accepted)
       /\ \A k \in accepted :
            LET root == mst[2 * k - 1]
            IN  /\ root # mst[2 * k]
                /\ Connected({edges[j] : j \in 1 .. k - 1}, root, edges[k][1])
                /\ Connected({edges[j] : j \in 1 .. k - 1}, mst[2 * k], edges[k][2])
       /\ result # NoResult => result = taken /\ mst[0] = taken
  BY <1>10, <1>12, <1>13, <1>14, <1>15, Zenon
<1> QED
  BY <1>16, Zenon DEF SpanningForest, accepted

LEMMA SameKruskalInv == KruskalInv /\ UNCHANGED kruskalVars => KruskalInv'
<1> SUFFICES ASSUME KruskalInv, UNCHANGED kruskalVars PROVE KruskalInv'
  OBVIOUS
<1>1. /\ edges' = edges /\ len' = len /\ par' = par /\ mst' = mst /\ taken' = taken
      /\ i' = i /\ result' = result /\ Element' = Element
  BY DEF kruskalVars, Element
<1>2. ASSUME NEW m \in 0 .. Len(edges), InLoop(m) PROVE InLoop(m)'
  BY <1>1, <1>2 DEF InLoop
<1> QED
  BY <1>1, <1>2 DEF KruskalInv

-----------------------------------------------------------------------------
(* AmiSuite: one routine's call has returned, or one program goes on.        *)
Called(name, args, value) ==
  returned' = [routine |-> name, args |-> args, result |-> value]

LEMMA NoCallYet == SuiteInit => BranchesAgree /\ ArithmeticIsModular
<1> SUFFICES ASSUME SuiteInit PROVE BranchesAgree /\ ArithmeticIsModular
  OBVIOUS
<1>1. returned.routine = "none"
  BY DEF SuiteInit, NotCalled
<1> QED
  BY <1>1 DEF BranchesAgree, ArithmeticIsModular, Is

LEMMA OtherRoutine ==
  ASSUME NEW name, NEW args, NEW value, Called(name, args, value)
  PROVE  /\ name \notin {"diamond", "fork", "triangle", "ifthenloop", "switch_case",
                         "BSL430_unlock_BSL", "share_value"} => BranchesAgree'
         /\ name \notin {"mulmod16", "modexp2"} => ArithmeticIsModular'
<1>1. returned'.routine = name
  BY DEF Called
<1> QED
  BY <1>1 DEF BranchesAgree, ArithmeticIsModular, Is

LEMMA Arguments ==
  /\ Argument \subseteq Int /\ Factor \subseteq Int /\ Word \subseteq Int
  /\ Argument \subseteq Word /\ Exponent \subseteq Word
BY SuiteAssumption, Words DEF Word

LEMMA ComparingAgrees == CallComparing => BranchesAgree'
<1> SUFFICES ASSUME NEW a \in Argument, NEW b \in Argument,
                    \/ Called("diamond", <<a, b>>, diamond(a, b))
                    \/ Called("fork", <<a, b>>, fork(a, b))
                    \/ Called("triangle", <<a, b>>, triangle(a, b))
                    \/ Called("ifthenloop", <<a, b>>, ifthenloop(a, b))
                    \/ Called("call", <<a, b>>, call(a, b))
             PROVE  BranchesAgree'
  BY DEF CallComparing, Returns, Called
<1>1. a \in Int /\ b \in Int /\ a \in Word /\ b \in Word
  BY Arguments
<1>2. CASE Called("diamond", <<a, b>>, diamond(a, b))
  <2>1. /\ returned'.routine = "diamond" /\ returned'.args[1] = a /\ returned'.args[2] = b
        /\ returned'.result = diamond(a, b)
    BY <1>2 DEF Called
  <2>2. PICK x : x = CASE a > b -> 7 [] a < b -> 3 [] OTHER -> 0
    OBVIOUS
  <2>3. x \in {0, 3, 7} /\ Masked(a < b, 3, Masked(b < a, 7, 0)) = x
    BY <1>1, <2>2 DEF Masked
  <2>4. Signed(4 * x) = 4 * x
    <3>1. 4 * x \in Word
      BY <2>3, Words DEF Word
    <3> QED
      BY <3>1, SignedOfWord
  <2>5. diamond(a, b) = IF b = 10 THEN 4 * x ELSE x
    BY <2>3, <2>4 DEF diamond
  <2> QED
    BY <2>1, <2>2, <2>5 DEF BranchesAgree, Is, arg
<1>3. CASE Called("fork", <<a, b>>, fork(a, b))
  <2>1. /\ returned'.routine = "fork" /\ returned'.args[1] = a /\ returned'.args[2] = b
        /\ returned'.result = IF a < b THEN Signed(a + 2) ELSE 3
    BY <1>3 DEF Called, fork, Masked
  <2> QED
    BY <2>1 DEF BranchesAgree, Is, arg
<1>4. CASE Called("triangle", <<a, b>>, triangle(a, b))
  <2>1. /\ returned'.routine = "triangle" /\ returned'.args[1] = a /\ returned'.args[2] = b
        /\ returned'.result = IF a < b THEN 7 ELSE 3
    BY <1>4 DEF Called, triangle, Masked
  <2> QED
    BY <2>1 DEF BranchesAgree, Is, arg
<1>5. CASE Called("ifthenloop", <<a, b>>, ifthenloop(a, b))
  <2>1. /\ returned'.routine = "ifthenloop" /\ returned'.args[1] = a /\ returned'.args[2] = b
        /\ returned'.result = IF b < a THEN 0 ELSE 3
    BY <1>1, <1>5, Ifthenloop DEF Called
  <2> QED
    BY <2>1 DEF BranchesAgree, Is, arg
<1>6. CASE Called("call", <<a, b>>, call(a, b))
  BY <1>6, OtherRoutine
<1> QED
  BY <1>2, <1>3, <1>4, <1>5, <1>6

LEMMA SwitchAgrees == CallSwitch => BranchesAgree'
<1> SUFFICES ASSUME NEW a \in Word, Called("switch_case", <<a>>, switch_case(a))
             PROVE  BranchesAgree'
  BY DEF CallSwitch, Returns, Called
<1>1. /\ returned'.routine = "switch_case" /\ returned'.args[1] = a
      /\ returned'.result = a
  BY SwitchCase DEF Called
<1> QED
  BY <1>1 DEF BranchesAgree, Is, arg

LEMMA UnlockAgrees == CallUnlock => BranchesAgree'
<1> SUFFICES ASSUME NEW password \in Password, NEW data \in Password,
                    Called("BSL430_unlock_BSL", <<password, data>>,
                           BSL430_unlock_BSL(password, data))
             PROVE  BranchesAgree'
  BY DEF CallUnlock, Returns, Called
<1>1. BSL430_unlock_BSL(password, data) = 0 <=> password = data
  BY SuiteAssumption, Unlock
<1>2. /\ returned'.routine = "BSL430_unlock_BSL"
      /\ returned'.args[1] = password /\ returned'.args[2] = data
      /\ returned'.result = BSL430_unlock_BSL(password, data)
  BY DEF Called
<1> QED
  BY <1>1, <1>2 DEF BranchesAgree, Is, arg

LEMMA SharesAgree == CallShares => BranchesAgree'
<1> SUFFICES ASSUME NEW p \in Portfolio, NEW t3 \in Register,
                    Called("share_value", <<p>>, share_value(p.ids, p.qty, t3))
             PROVE  BranchesAgree'
  BY DEF CallShares, Returns, Called
<1>1. p.ids \in Seq(Word) /\ p.qty \in Seq(Word) /\ Len(p.ids) = Len(p.qty)
  BY SuiteAssumption
<1>2. PICK value : value = share_value(p.ids, p.qty, t3)
  OBVIOUS
<1>3. value = Signed(7 * SpecialShares(p))
  BY <1>1, <1>2, Shares
<1>4. /\ returned'.routine = "share_value" /\ returned'.args[1] = p
      /\ returned'.result = value
  BY <1>2 DEF Called
<1>5. /\ ~ Is("diamond")' /\ ~ Is("fork")' /\ ~ Is("triangle")' /\ ~ Is("ifthenloop")'
      /\ ~ Is("switch_case")' /\ ~ Is("BSL430_unlock_BSL")' /\ arg'[1] = p
  BY <1>4 DEF Is, arg
<1> QED
  BY <1>3, <1>4, <1>5 DEF BranchesAgree

LEMMA MulmodIsModular == CallMulmod => ArithmeticIsModular'
<1> SUFFICES ASSUME NEW a \in Factor, NEW b \in Factor,
                    Called("mulmod16", <<a, b>>, mulmod16(a, b))
             PROVE  ArithmeticIsModular'
  BY DEF CallMulmod, Returns, Called
<1>1. a \in Int /\ b \in Int
  BY Arguments
<1>2. /\ returned'.routine = "mulmod16" /\ returned'.args[1] = a /\ returned'.args[2] = b
      /\ returned'.result = mulmod16(a, b)
  BY DEF Called
<1>3. ~ Is("modexp2")' /\ arg'[1] = a /\ arg'[2] = b
  BY <1>2 DEF Is, arg
<1> QED
  BY <1>1, <1>2, <1>3, Mulmod DEF ArithmeticIsModular

LEMMA ModexpIsModular == CallModexp => ArithmeticIsModular'
<1> SUFFICES ASSUME NEW y \in 0 .. Lower - 1, NEW k \in Exponent,
                    Called("modexp2", <<y, k>>, modexp2(y, k))
             PROVE  ArithmeticIsModular'
  BY DEF CallModexp, Returns, Called
<1>1. k \in Word
  BY Arguments
<1>2. /\ returned'.routine = "modexp2" /\ returned'.args[1] = y /\ returned'.args[2] = k
      /\ returned'.result = modexp2(y, k)
  BY DEF Called
<1>3. ~ Is("mulmod16")' /\ arg'[1] = y /\ arg'[2] = k
  BY <1>2 DEF Is, arg
<1> QED
  BY <1>1, <1>2, <1>3, Modexp DEF ArithmeticIsModular

SuiteInv == BranchesAgree /\ ArithmeticIsModular /\ KeypadInv /\ KruskalInv

LEMMA InitSuiteInv == SuiteInit => SuiteInv
BY NoCallYet, InitKeypadInv, InitKruskalInv DEF SuiteInit, SuiteInv

LEMMA NothingReturned == UNCHANGED returned =>
  (BranchesAgree => BranchesAgree') /\ (ArithmeticIsModular => ArithmeticIsModular')
BY DEF BranchesAgree, ArithmeticIsModular, Is, arg

LEMMA StepSuiteInv == SuiteInv /\ [SuiteNext]_suiteVars => SuiteInv'
<1> SUFFICES ASSUME SuiteInv, [SuiteNext]_suiteVars PROVE SuiteInv'
  OBVIOUS
<1>1. ASSUME NEW name, NEW args, NEW value, Returns(name, args, value)
      PROVE  /\ KeypadInv' /\ KruskalInv'
             /\ name \in {"mulmod16", "modexp2"} => BranchesAgree'
             /\ name \notin {"mulmod16", "modexp2"} => ArithmeticIsModular'
  <2>1. Called(name, args, value) /\ UNCHANGED keypadVars /\ UNCHANGED kruskalVars
    BY <1>1 DEF Returns, Called
  <2> QED
    BY <2>1, SameKeypadInv, SameKruskalInv, OtherRoutine DEF SuiteInv
<1>2. CASE CallComparing
  <2>1. KeypadInv' /\ KruskalInv' /\ ArithmeticIsModular'
    BY <1>1, <1>2 DEF CallComparing
  <2> QED
    BY <1>2, <2>1, ComparingAgrees DEF SuiteInv
<1>3. CASE CallSwitch
  <2>1. KeypadInv' /\ KruskalInv' /\ ArithmeticIsModular'
    BY <1>1, <1>3 DEF CallSwitch
  <2> QED
    BY <1>3, <2>1, SwitchAgrees DEF SuiteInv
<1>4. CASE CallUnlock
  <2>1. KeypadInv' /\ KruskalInv' /\ ArithmeticIsModular'
    BY <1>1, <1>4 DEF CallUnlock
  <2> QED
    BY <1>4, <2>1, UnlockAgrees DEF SuiteInv
<1>5. CASE CallShares
  <2>1. KeypadInv' /\ KruskalInv' /\ ArithmeticIsModular'
    BY <1>1, <1>5 DEF CallShares
  <2> QED
    BY <1>5, <2>1, SharesAgree DEF SuiteInv
<1>6. CASE CallMulmod
  <2>1. KeypadInv' /\ KruskalInv' /\ BranchesAgree'
    BY <1>1, <1>6 DEF CallMulmod
  <2> QED
    BY <1>6, <2>1, MulmodIsModular DEF SuiteInv
<1>7. CASE CallModexp
  <2>1. KeypadInv' /\ KruskalInv' /\ BranchesAgree'
    BY <1>1, <1>7 DEF CallModexp
  <2> QED
    BY <1>7, <2>1, ModexpIsModular DEF SuiteInv
<1>8. CASE RunKeypad
  <2>1. KeypadInv'
    BY <1>8, ClearedKeypadInv, PollKeypadInv DEF RunKeypad, KeypadNext, SuiteInv
  <2>2. UNCHANGED returned /\ UNCHANGED kruskalVars
    BY <1>8 DEF RunKeypad
  <2> QED
    BY <2>1, <2>2, NothingReturned, SameKruskalInv DEF SuiteInv
<1>9. CASE RunKruskal
  <2>1. KruskalInv'
    BY <1>9, ClearKruskalInv, TakeKruskalInv, ReturnKruskalInv
    DEF RunKruskal, KruskalNext, SuiteInv
  <2>2. UNCHANGED returned /\ UNCHANGED keypadVars
    BY <1>9 DEF RunKruskal
  <2> QED
    BY <2>1, <2>2, NothingReturned, SameKeypadInv DEF SuiteInv
<1>10. CASE UNCHANGED suiteVars
  <2>1. UNCHANGED returned /\ UNCHANGED keypadVars /\ UNCHANGED kruskalVars
    BY <1>10 DEF suiteVars
  <2> QED
    BY <2>1, NothingReturned, SameKeypadInv, SameKruskalInv DEF SuiteInv
<1> QED
  BY <1>2, <1>3, <1>4, <1>5, <1>6, <1>7, <1>8, <1>9, <1>10 DEF SuiteNext

LEMMA AlwaysSuiteInv == SuiteSpec => []SuiteInv
BY InitSuiteInv, StepSuiteInv, PTL DEF SuiteSpec

(* Each masked routine returns, for all arguments and whatever is in the     *)
(* registers, what the branches of its C program would have returned.        *)
THEOREM MasksAgree == SuiteSpec => []BranchesAgree
<1>1. SuiteInv => BranchesAgree
  BY DEF SuiteInv
<1> QED
  BY AlwaysSuiteInv, <1>1, PTL

(* mulmod16 multiplies modulo 2^16 + 1 and modexp2 raises to a power modulo  *)
(* 7, in words of any even width.                                            *)
THEOREM ArithmeticCorrect == SuiteSpec => []ArithmeticIsModular
<1>1. SuiteInv => ArithmeticIsModular
  BY DEF SuiteInv
<1> QED
  BY AlwaysSuiteInv, <1>1, PTL

(* pin has the first keys pressed, however often keypad_init and keypad_poll *)
(* are called, and in whatever order.                                        *)
THEOREM PinCorrect == SuiteSpec => []PinIsFirstPresses
<1>1. SuiteInv => PinIsFirstPresses
  BY KeypadInvImplies DEF SuiteInv
<1> QED
  BY AlwaysSuiteInv, <1>1, PTL

(* The forest that kruskal returns spans any graph: its trees are the        *)
(* components, of as many edges as that takes, each edge named by roots.     *)
THEOREM ForestSpans == SuiteSpec => []SpanningForest
<1>1. SuiteInv => SpanningForest
  BY KruskalInvImplies DEF SuiteInv
<1> QED
  BY AlwaysSuiteInv, <1>1, PTL

-----------------------------------------------------------------------------
(* EvalPy.                                                                   *)
Line == {<<>>} \cup Mode \X Config \X {"old", "new", "none"}

TypeOK ==
  /\ phase \in {"create", "start", "drain", "print", "done", "error"}
  /\ current \in Proc
  /\ bin \in [Proc -> {"old", "new", "none"}]
  /\ running \subseteq Proc
  /\ todo \in [Proc -> Seq(Line)]
  /\ pipe \in [Proc -> Seq(Line)]
  /\ results \in [Mode -> [Config -> Line]]
  /\ printed \in [Proc -> Line]

(* The last total of the lines is total; it is before if they have none.     *)
IsLatest(total, before, lines) ==
  \/ /\ total = before
     /\ \A k \in 1 .. Len(lines) : lines[k] = <<>>
  \/ /\ total # <<>>
     /\ \E k \in 1 .. Len(lines) :
          /\ lines[k] = total
          /\ \A j \in k + 1 .. Len(lines) : lines[j] = <<>>

Drained(p) == phase \in {"print", "done", "error"} \/ (phase = "drain" /\ p < current)

(* A pipe holds what its reader, once there, makes of the table what the     *)
(* simulation has printed.                                                   *)
PipesAreOwn ==
  \A p \in Proc : IsLatest(printed[p], results[mode(p)][config(p)], pipe[p])

ReadToTheEnd == \A p \in Proc : Drained(p) => p \notin running /\ pipe[p] = <<>>

BaselineFails == \E p \in 1 .. Len(CONFIGS) : printed[p] = <<>>

Verdict ==
  /\ phase = "done" => ~BaselineFails
  /\ phase = "error" => BaselineFails

IInv ==
  /\ TypeOK
  /\ PipesAreOwn
  /\ ReadToTheEnd
  /\ Verdict

-----------------------------------------------------------------------------
(* The grid of processes.                                                    *)
LEMMA Lengths ==
  /\ Len(MODES) \in Nat \ {0} /\ Len(CONFIGS) \in Nat \ {0}
  /\ Count \in Nat /\ Len(CONFIGS) <= Count
  /\ DOMAIN MODES = 1 .. Len(MODES) /\ DOMAIN CONFIGS = 1 .. Len(CONFIGS)
<1>1. /\ Len(MODES) \in Nat \ {0} /\ Len(CONFIGS) \in Nat \ {0}
      /\ DOMAIN MODES = 1 .. Len(MODES) /\ DOMAIN CONFIGS = 1 .. Len(CONFIGS)
  BY EvalAssumption
<1>2. ASSUME NEW m \in Nat \ {0}, NEW c \in Nat \ {0} PROVE m * c \in Nat /\ c <= m * c
  OBVIOUS
<1> QED
  BY <1>1, <1>2 DEF Count

LEMMA ProcType == \A p \in Proc : p \in Nat /\ 1 <= p /\ p <= Count
BY Lengths DEF Proc

LEMMA Division ==
  ASSUME NEW n \in Nat, NEW c \in Nat \ {0}, NEW m \in Nat, n < m * c
  PROVE  /\ n \div c \in 0 .. m - 1
         /\ n % c \in 0 .. c - 1
         /\ n = c * (n \div c) + (n % c)
<1>1. PICK q \in Nat, r \in 0 .. c - 1 : n = c * q + r /\ n \div c = q /\ n % c = r
  OBVIOUS
<1>2. q < m
  <2> SUFFICES ASSUME q >= m PROVE FALSE
    BY <1>1
  <2>1. c * q >= c * m
    OBVIOUS
  <2>2. c * m = m * c
    OBVIOUS
  <2> QED
    BY <1>1, <2>1, <2>2
<1> QED
  BY <1>1, <1>2

Row(p) == (p - 1) \div Len(CONFIGS)

Column(p) == (p - 1) % Len(CONFIGS)

LEMMA Grid ==
  ASSUME NEW p \in Proc
  PROVE  /\ Row(p) \in 0 .. Len(MODES) - 1 /\ Column(p) \in 0 .. Len(CONFIGS) - 1
         /\ p - 1 = Len(CONFIGS) * Row(p) + Column(p)
         /\ mode(p) = MODES[Row(p) + 1] /\ config(p) = CONFIGS[Column(p) + 1]
         /\ mode(p) \in Mode /\ config(p) \in Config
<1>1. p - 1 \in Nat /\ p - 1 < Len(MODES) * Len(CONFIGS)
  BY Lengths DEF Proc, Count
<1>2. /\ Row(p) \in 0 .. Len(MODES) - 1 /\ Column(p) \in 0 .. Len(CONFIGS) - 1
      /\ p - 1 = Len(CONFIGS) * Row(p) + Column(p)
  BY <1>1, Lengths, Division DEF Row, Column
<1>3. mode(p) = MODES[Row(p) + 1] /\ config(p) = CONFIGS[Column(p) + 1]
  BY DEF mode, config, Row, Column
<1>4. Row(p) + 1 \in DOMAIN MODES /\ Column(p) + 1 \in DOMAIN CONFIGS
  BY <1>2, Lengths
<1>5. mode(p) \in Mode /\ config(p) \in Config
  BY <1>3, <1>4, Zenon DEF Mode, Config, Range
<1> QED
  BY <1>2, <1>3, <1>5

(* No two processes have the same place in the table.                        *)
LEMMA OnePlaceEach ==
  ASSUME NEW p \in Proc, NEW q \in Proc, mode(p) = mode(q), config(p) = config(q)
  PROVE  p = q
<1>1. Row(p) = Row(q) /\ Column(p) = Column(q)
  <2>1. /\ Row(p) \in Nat /\ Row(q) \in Nat /\ Column(p) \in Nat /\ Column(q) \in Nat
        /\ Row(p) + 1 \in DOMAIN MODES /\ Row(q) + 1 \in DOMAIN MODES
        /\ Column(p) + 1 \in DOMAIN CONFIGS /\ Column(q) + 1 \in DOMAIN CONFIGS
    <3>1. /\ Row(p) \in 0 .. Len(MODES) - 1 /\ Row(q) \in 0 .. Len(MODES) - 1
          /\ Column(p) \in 0 .. Len(CONFIGS) - 1 /\ Column(q) \in 0 .. Len(CONFIGS) - 1
      BY Grid
    <3> QED
      BY <3>1, Lengths, SMTT(20)
  <2>2. Row(p) + 1 = Row(q) + 1
    BY <2>1, Grid, EvalAssumption DEF IsInjective
  <2>3. Column(p) + 1 = Column(q) + 1
    BY <2>1, Grid, EvalAssumption DEF IsInjective
  <2> QED
    BY <2>1, <2>2, <2>3
<1>2. p - 1 = q - 1
  <2>1. p - 1 = Len(CONFIGS) * Row(p) + Column(p)
    BY Grid
  <2>2. q - 1 = Len(CONFIGS) * Row(q) + Column(q)
    BY Grid
  <2> QED
    BY <1>1, <2>1, <2>2, Zenon
<1> QED
  BY <1>2 DEF Proc

(* The first processes are those of the baseline.                            *)
LEMMA BaselineRow ==
  ASSUME NEW p \in 1 .. Len(CONFIGS)
  PROVE  p \in Proc /\ mode(p) = MODES[1] /\ config(p) = CONFIGS[p]
<1>1. (p - 1) \div Len(CONFIGS) = 0 /\ (p - 1) % Len(CONFIGS) = p - 1
  BY Lengths
<1> QED
  BY <1>1, Lengths DEF mode, config, Proc

-----------------------------------------------------------------------------
(* Lines added at the end of a pipe and taken from its front.                *)
LEMMA LatestOfNone ==
  ASSUME NEW total, NEW before, IsLatest(total, before, <<>>)
  PROVE  total = before
BY DEF IsLatest

LEMMA LatestAppend ==
  ASSUME NEW total \in Line, NEW before \in Line, NEW lines \in Seq(Line), NEW line \in Line,
         IsLatest(total, before, lines)
  PROVE  IsLatest(IF line = <<>> THEN total ELSE line, before, Append(lines, line))
<1>1. /\ Append(lines, line) \in Seq(Line)
      /\ Len(Append(lines, line)) = Len(lines) + 1
      /\ \A k \in 1 .. Len(lines) : Append(lines, line)[k] = lines[k]
      /\ Append(lines, line)[Len(lines) + 1] = line
      /\ Len(lines) \in Nat
  BY AppendProperties, LenProperties
<1>2. PICK more : more = Append(lines, line)
  OBVIOUS
<1>3. CASE line # <<>>
  BY <1>1, <1>2, <1>3 DEF IsLatest
<1>4. CASE line = <<>> /\ total = before /\ \A k \in 1 .. Len(lines) : lines[k] = <<>>
  <2>1. \A k \in 1 .. Len(more) : more[k] = <<>>
    BY <1>1, <1>2, <1>4
  <2> QED
    BY <1>2, <1>4, <2>1 DEF IsLatest
<1>5. CASE line = <<>> /\ total # <<>> /\
           \E k \in 1 .. Len(lines) :
             lines[k] = total /\ \A j \in k + 1 .. Len(lines) : lines[j] = <<>>
  <2>1. PICK k \in 1 .. Len(lines) :
          lines[k] = total /\ \A j \in k + 1 .. Len(lines) : lines[j] = <<>>
    BY <1>5
  <2>2. k \in 1 .. Len(more) /\ more[k] = total /\ \A j \in k + 1 .. Len(more) : more[j] = <<>>
    BY <1>1, <1>2, <1>5, <2>1
  <2> QED
    BY <1>2, <1>5, <2>2 DEF IsLatest
<1> QED
  BY <1>3, <1>4, <1>5 DEF IsLatest

LEMMA LatestTail ==
  ASSUME NEW total \in Line, NEW before \in Line, NEW lines \in Seq(Line), lines # <<>>,
         IsLatest(total, before, lines)
  PROVE  IsLatest(total, IF Head(lines) = <<>> THEN before ELSE Head(lines), Tail(lines))
<1>1. /\ Tail(lines) \in Seq(Line)
      /\ Len(Tail(lines)) = Len(lines) - 1
      /\ \A k \in 1 .. Len(Tail(lines)) : Tail(lines)[k] = lines[k + 1]
      /\ Head(lines) = lines[1]
      /\ Len(lines) \in Nat \ {0}
  BY HeadTailProperties, EmptySeq
<1>2. PICK rest : rest = Tail(lines)
  OBVIOUS
<1>3. CASE total = before /\ \A k \in 1 .. Len(lines) : lines[k] = <<>>
  <2>1. Head(lines) = <<>> /\ \A k \in 1 .. Len(rest) : rest[k] = <<>>
    BY <1>1, <1>2, <1>3
  <2> QED
    BY <1>2, <1>3, <2>1 DEF IsLatest
<1>4. ASSUME total # <<>>,
             NEW k \in 1 .. Len(lines),
             lines[k] = total, \A j \in k + 1 .. Len(lines) : lines[j] = <<>>
      PROVE  IsLatest(total, IF Head(lines) = <<>> THEN before ELSE Head(lines), rest)
  <2>1. CASE k = 1
    <3>1. Head(lines) = total /\ \A j \in 1 .. Len(rest) : rest[j] = <<>>
      BY <1>1, <1>2, <1>4, <2>1
    <3> QED
      BY <1>4, <3>1 DEF IsLatest
  <2>2. CASE k # 1
    <3>1. /\ k - 1 \in 1 .. Len(rest)
          /\ rest[k - 1] = total
          /\ \A j \in (k - 1) + 1 .. Len(rest) : rest[j] = <<>>
      BY <1>1, <1>2, <1>4, <2>2
    <3> QED
      BY <1>4, <3>1 DEF IsLatest
  <2> QED
    BY <2>1, <2>2
<1> QED
  BY <1>2, <1>3, <1>4 DEF IsLatest

-----------------------------------------------------------------------------
LEMMA InitIInv == Init => IInv
<1> SUFFICES ASSUME Init PROVE IInv
  OBVIOUS
<1> USE DEF Init
<1>1. TypeOK
  <2>1. 1 \in Proc
    BY Lengths DEF Proc
  <2>2. results \in [Mode -> [Config -> Line]]
    BY DEF Line
  <2>3. <<>> \in Seq(Line) /\ <<>> \in Line
    BY DEF Line
  <2>4. bin \in [Proc -> {"old", "new", "none"}]
    OBVIOUS
  <2> QED
    BY <2>1, <2>2, <2>3, <2>4 DEF TypeOK
<1>2. PipesAreOwn
  BY Grid DEF PipesAreOwn, IsLatest
<1>3. ReadToTheEnd /\ Verdict
  BY DEF ReadToTheEnd, Verdict, Drained
<1> QED
  BY <1>1, <1>2, <1>3 DEF IInv

(* The script's next process, or its next phase.                             *)
LEMMA NextProcType ==
  ASSUME current \in Proc, NEW following, NextProc(following)
  PROVE  /\ current' \in Proc
         /\ current = Count => phase' = following /\ current' = 1
         /\ current # Count => phase' = phase /\ current' = current + 1
<1>1. 1 \in Proc
  BY Lengths DEF Proc
<1>2. current # Count => current + 1 \in Proc
  BY Lengths DEF Proc
<1> QED
  BY <1>1, <1>2 DEF NextProc

LEMMA CreateStep ==
  ASSUME IInv, create_simulation
  PROVE  IInv'
<1> USE DEF IInv, TypeOK
<1>1. current' \in Proc /\ phase' \in {"create", "start"}
  BY NextProcType DEF create_simulation
<1>2. bin' \in [Proc -> {"old", "new", "none"}]
  BY DEF create_simulation
<1>3. UNCHANGED <<running, todo, pipe, results, printed>>
  BY DEF create_simulation
<1>4. ReadToTheEnd' /\ Verdict' /\ PipesAreOwn'
  BY <1>1, <1>3 DEF ReadToTheEnd, Drained, Verdict, PipesAreOwn
<1> QED
  BY <1>1, <1>2, <1>3, <1>4

LEMMA RunStep ==
  ASSUME IInv, run_simulation
  PROVE  IInv'
<1> USE DEF IInv, TypeOK
<1>1. current' \in Proc /\ (phase' = "start" \/ (phase' = "drain" /\ current' = 1))
  BY NextProcType DEF run_simulation
<1>2. Output(current) \in Seq(Line)
  <2>1. <<>> \in Line /\ <<mode(current), config(current), bin[current]>> \in Line
    BY Grid DEF Line
  <2>2. PICK total : total = <<mode(current), config(current), bin[current]>>
    OBVIOUS
  <2>3. <<>> \in Seq(Line) /\ <<<<>>, total, <<>>>> \in Seq(Line)
    BY <2>1, <2>2
  <2> QED
    BY <2>2, <2>3, Zenon DEF Output
<1>3. running' \subseteq Proc /\ todo' \in [Proc -> Seq(Line)]
  BY <1>2 DEF run_simulation
<1>4. UNCHANGED <<bin, pipe, results, printed>>
  BY DEF run_simulation
<1>5. ReadToTheEnd' /\ Verdict' /\ PipesAreOwn'
  BY <1>1, <1>4, ProcType DEF ReadToTheEnd, Drained, Verdict, PipesAreOwn
<1> QED
  BY <1>1, <1>3, <1>4, <1>5

LEMMA ReadStep ==
  ASSUME IInv, readline
  PROVE  IInv'
<1> USE DEF IInv, TypeOK
<1>1. PICK lines, line : lines = pipe[current] /\ line = Head(lines)
  OBVIOUS
<1>2. /\ phase = "drain" /\ current \in Proc
      /\ lines \in Seq(Line) /\ lines # <<>>
      /\ pipe' = [pipe EXCEPT ![current] = Tail(lines)]
      /\ results' = IF line = <<>> THEN results
                    ELSE [results EXCEPT ![mode(current)][config(current)] = line]
      /\ UNCHANGED <<phase, current, bin, running, todo, printed>>
  BY <1>1 DEF readline, LineToRead
<1>3. line \in Line /\ Tail(lines) \in Seq(Line)
  BY <1>1, <1>2, HeadTailProperties
<1>4. pipe' \in [Proc -> Seq(Line)] /\ results' \in [Mode -> [Config -> Line]]
  BY <1>2, <1>3, Grid
<1>5. ASSUME NEW p \in Proc
      PROVE  IsLatest(printed'[p], results'[mode(p)][config(p)], pipe'[p])
  <2>1. CASE p = current
    <3>1. results'[mode(p)][config(p)] =
            IF line = <<>> THEN results[mode(p)][config(p)] ELSE line
      BY <1>2, <2>1, Grid
    <3>2. IsLatest(printed[p], results[mode(p)][config(p)], lines)
      BY <1>1, <2>1 DEF PipesAreOwn
    <3>3. results[mode(p)][config(p)] \in Line
      BY Grid
    <3>4. IsLatest(printed[p], IF line = <<>> THEN results[mode(p)][config(p)] ELSE line, Tail(lines))
      BY <1>1, <1>2, <3>2, <3>3, LatestTail
    <3> QED
      BY <1>2, <2>1, <3>1, <3>4
  <2>2. CASE p # current
    <3>1. mode(p) # mode(current) \/ config(p) # config(current)
      BY <2>2, OnePlaceEach
    <3>2. results'[mode(p)][config(p)] = results[mode(p)][config(p)]
      BY <1>2, <3>1, Grid
    <3> QED
      BY <1>2, <2>2, <3>2 DEF PipesAreOwn
  <2> QED
    BY <2>1, <2>2
<1>6. ReadToTheEnd' /\ Verdict'
  <2>1. ASSUME NEW p \in Proc, Drained(p)' PROVE p \notin running' /\ pipe'[p] = <<>>
    <3>1. Drained(p) /\ p # current
      BY <1>2, <2>1, ProcType DEF Drained
    <3> QED
      BY <1>2, <3>1 DEF ReadToTheEnd
  <2> QED
    BY <1>2, <2>1 DEF ReadToTheEnd, Verdict
<1> QED
  BY <1>2, <1>4, <1>5, <1>6 DEF PipesAreOwn

LEMMA StopStep ==
  ASSUME IInv, StopReading
  PROVE  IInv'
<1> USE DEF IInv, TypeOK
<1>1. /\ phase = "drain" /\ current \notin running /\ pipe[current] = <<>>
      /\ UNCHANGED <<bin, running, todo, pipe, results, printed>>
  BY DEF StopReading, EndOfFile
<1>2. /\ current' \in Proc
      /\ current = Count => phase' = "print"
      /\ current # Count => phase' = "drain" /\ current' = current + 1
  BY NextProcType DEF StopReading
<1>3. ASSUME NEW p \in Proc, Drained(p)' PROVE p \notin running' /\ pipe'[p] = <<>>
  <2>1. p = current \/ Drained(p)
    BY <1>1, <1>2, <1>3, ProcType, SMTT(20) DEF Drained
  <2> QED
    BY <1>1, <2>1 DEF ReadToTheEnd
<1>4. ReadToTheEnd' /\ Verdict' /\ PipesAreOwn'
  BY <1>1, <1>2, <1>3 DEF ReadToTheEnd, Verdict, PipesAreOwn
<1> QED
  BY <1>1, <1>2, <1>4

(* A drained simulation has its total in the table.                          *)
LEMMA DrainedIsShown ==
  ASSUME IInv, NEW p \in Proc, Drained(p)
  PROVE  results[mode(p)][config(p)] = printed[p]
<1>1. IsLatest(printed[p], results[mode(p)][config(p)], <<>>)
  BY DEF IInv, PipesAreOwn, ReadToTheEnd
<1> QED
  BY <1>1, LatestOfNone

LEMMA PrintStep ==
  ASSUME IInv, PrintTable
  PROVE  IInv'
<1>1. /\ phase = "print" /\ phase' \in {"done", "error"}
      /\ phase' = "error" <=> \E m \in Mode, c \in Config : ZeroDivision(m, c)
      /\ UNCHANGED <<current, bin, running, todo, pipe, results, printed>>
  BY DEF PrintTable
<1>2. (\E m \in Mode, c \in Config : ZeroDivision(m, c)) <=> BaselineFails
  <2>1. \A p \in 1 .. Len(CONFIGS) : IsZero(MODES[1], CONFIGS[p]) <=> printed[p] = <<>>
    <3> SUFFICES ASSUME NEW p \in 1 .. Len(CONFIGS)
                 PROVE  IsZero(MODES[1], CONFIGS[p]) <=> printed[p] = <<>>
      OBVIOUS
    <3>1. p \in Proc /\ Drained(p) /\ mode(p) = MODES[1] /\ config(p) = CONFIGS[p]
      BY <1>1, BaselineRow DEF Drained
    <3> QED
      BY <3>1, DrainedIsShown DEF IsZero
  <2>2. Config = {CONFIGS[p] : p \in 1 .. Len(CONFIGS)} /\ Mode # {}
    BY Lengths, EvalAssumption DEF Config, Mode, Range
  <2>3. (\E m \in Mode, c \in Config : ZeroDivision(m, c))
           <=> \E c \in Config : IsZero(MODES[1], c)
    BY <2>2, Zenon DEF ZeroDivision
  <2> QED
    BY <2>1, <2>2, <2>3 DEF BaselineFails
<1>3. ReadToTheEnd' /\ PipesAreOwn'
  BY <1>1 DEF IInv, ReadToTheEnd, PipesAreOwn, Drained
<1>4. Verdict'
  BY <1>1, <1>2 DEF Verdict, BaselineFails
<1> QED
  BY <1>1, <1>3, <1>4 DEF IInv, TypeOK

LEMMA PrintLineStep ==
  ASSUME IInv, NEW p \in Proc, PrintLine(p)
  PROVE  IInv'
<1> USE DEF IInv, TypeOK
<1>1. PICK line : line = Head(todo[p])
  OBVIOUS
<1>2. /\ p \in running /\ todo[p] \in Seq(Line) /\ todo[p] # <<>>
      /\ pipe' = [pipe EXCEPT ![p] = Append(pipe[p], line)]
      /\ todo' = [todo EXCEPT ![p] = Tail(todo[p])]
      /\ printed' = IF line = <<>> THEN printed ELSE [printed EXCEPT ![p] = line]
      /\ UNCHANGED <<phase, current, bin, running, results>>
  BY <1>1 DEF PrintLine
<1>3. line \in Line /\ Tail(todo[p]) \in Seq(Line) /\ Append(pipe[p], line) \in Seq(Line)
  BY <1>1, <1>2, HeadTailProperties, AppendProperties
<1>4. TypeOK'
  BY <1>2, <1>3
<1>5. PipesAreOwn'
  <2> SUFFICES ASSUME NEW q \in Proc
               PROVE  IsLatest(printed'[q], results'[mode(q)][config(q)], pipe'[q])
    BY DEF PipesAreOwn
  <2>1. CASE q = p
    <3>1. IsLatest(IF line = <<>> THEN printed[p] ELSE line,
                   results[mode(p)][config(p)], Append(pipe[p], line))
      BY <1>3, Grid, LatestAppend DEF PipesAreOwn
    <3> QED
      BY <1>2, <2>1, <3>1
  <2>2. CASE q # p
    BY <1>2, <2>2 DEF PipesAreOwn
  <2> QED
    BY <2>1, <2>2
<1>6. ~Drained(p)
  BY <1>2 DEF ReadToTheEnd
<1>7. ReadToTheEnd'
  BY <1>2, <1>6 DEF ReadToTheEnd, Drained
<1>8. Verdict'
  BY <1>2, <1>6 DEF Verdict, Drained
<1> QED
  BY <1>4, <1>5, <1>7, <1>8

LEMMA EndBreakStep ==
  ASSUME IInv, NEW p \in Proc, End(p) \/ Break(p)
  PROVE  IInv'
<1>1. /\ running' \subseteq running
      /\ UNCHANGED <<phase, current, bin, pipe, results, printed>>
  BY DEF End, Break
<1>2. todo' \in [Proc -> Seq(Line)]
  <2>1. todo \in [Proc -> Seq(Line)] /\ <<>> \in Seq(Line)
    BY EmptySeq DEF IInv, TypeOK
  <2>2. todo' = todo \/ todo' = [todo EXCEPT ![p] = <<>>]
    BY DEF End, Break
  <2> QED
    BY <2>1, <2>2
<1>3. TypeOK'
  BY <1>1, <1>2 DEF IInv, TypeOK
<1>4. PipesAreOwn' /\ ReadToTheEnd' /\ Verdict'
  BY <1>1 DEF IInv, PipesAreOwn, ReadToTheEnd, Drained, Verdict, BaselineFails
<1> QED
  BY <1>3, <1>4 DEF IInv

LEMMA StepIInv == IInv /\ [Next]_vars => IInv'
<1>1. ASSUME IInv, UNCHANGED vars PROVE IInv'
  BY <1>1 DEF vars, IInv, TypeOK, PipesAreOwn, ReadToTheEnd, Drained, Verdict, BaselineFails
<1>2. ASSUME IInv, Script PROVE IInv'
  BY <1>2, CreateStep, RunStep, ReadStep, StopStep, PrintStep DEF Script
<1> QED
  BY <1>1, <1>2, PrintLineStep, EndBreakStep DEF Next

LEMMA AlwaysIInv == Spec => []IInv
BY InitIInv, StepIInv, PTL DEF Spec

-----------------------------------------------------------------------------
(* Behind the loop each entry of the table is the last total its own         *)
(* simulation has printed, whatever the pipes hold and in whatever order the *)
(* simulations print, end and break.                                         *)
THEOREM TableIsOwn == Spec => []ResultsAreOwn
<1>1. IInv => ResultsAreOwn
  BY DrainedIsShown DEF ResultsAreOwn, Ended, Drained
<1> QED
  BY AlwaysIInv, <1>1, PTL

(* The script fails exactly when a run of the baseline has printed no total. *)
THEOREM BaselineDecides == Spec => []OnlyBaselineFailuresShow
<1>1. IInv => OnlyBaselineFailuresShow
  BY DEF IInv, Verdict, BaselineFails, OnlyBaselineFailuresShow, Ended
<1> QED
  BY AlwaysIInv, <1>1, PTL
=============================================================================
