------------------------------ MODULE FluxProofs ------------------------------
(***************************************************************************)
(* Proofs about FluxWire and FluxStream.  A number is the number of its    *)
(* digits, whatever the base and however many bits a word has; from there, *)
(* every item the encoders take comes back from the decoders; and from     *)
(* there, a stream of them works: any sequence of them, delivered in any   *)
(* pieces, with calls that overflow and are taken back at the writer and   *)
(* calls that are cut short and retried at the reader.                     *)
(***************************************************************************)
EXTENDS FluxStream, Induction, SequenceTheorems

-----------------------------------------------------------------------------
(***************************************************************************)
(* Arithmetic the provers need help with.                                  *)
(***************************************************************************)

\* Division with remainder.
LEMMA DivMod ==
    ASSUME NEW v \in Int, NEW b \in Nat, b > 0
    PROVE  v \div b \in Int /\ v % b \in 0 .. b - 1 /\ v = b * (v \div b) + (v % b)
OBVIOUS

\* A product with a factor taken in.
LEMMA Regroup ==
    ASSUME NEW b \in Int, NEW x \in Int, NEW p \in Int, NEW y \in Int
    PROVE  b * p \in Int /\ p * y \in Int /\ b * (x - p * y) = b * x - (b * p) * y
<1>1. p * y \in Int /\ b * p \in Int /\ b * x \in Int
  OBVIOUS
<1>2. b * (p * y) = (b * p) * y
  OBVIOUS
<1>3. ASSUME NEW z \in Int PROVE b * (x - z) = b * x - b * z
  OBVIOUS
<1>4. QED
  BY <1>1, <1>2, <1>3

\* Factors at least as large make a product at least as large.
LEMMA ProductGrows ==
    ASSUME NEW x \in Nat, NEW y \in Nat, NEW u \in Nat, NEW w \in Nat, x <= u, y <= w
    PROVE  x * y <= u * w
<1>1. x * y <= x * w
  OBVIOUS
<1>2. x * w <= u * w
  OBVIOUS
<1>3. x * y \in Int /\ x * w \in Int /\ u * w \in Int
  OBVIOUS
<1>4. QED
  BY <1>1, <1>2, <1>3

\* The quotient of a smaller number is no larger.
LEMMA DivGrows ==
    ASSUME NEW b \in Nat, b > 0, NEW x \in Nat, NEW y \in Nat, x <= y
    PROVE  x \div b \in Nat /\ y \div b \in Nat /\ x \div b <= y \div b
<1> DEFINE p == x \div b
           q == y \div b
<1>1. /\ p \in Int /\ x % b \in 0 .. b - 1 /\ x = b * p + (x % b)
      /\ q \in Int /\ y % b \in 0 .. b - 1 /\ y = b * q + (y % b)
  BY DivMod
<1> HIDE DEF p, q
<1>2. b * p \in Int /\ b * q \in Int
  BY <1>1
<1>3. ASSUME NEW z \in Int, b * z > -b
      PROVE  z >= 0
  <2> SUFFICES ASSUME z <= -1
               PROVE  FALSE
    OBVIOUS
  <2>1. -z \in Nat /\ 1 <= -z /\ b * (-z) = -(b * z) /\ b * 1 = b /\ b * z \in Int
    OBVIOUS
  <2>2. b * 1 <= b * (-z)
    BY <2>1, ProductGrows
  <2>3. QED
    BY <1>3, <2>1, <2>2
<1>4. p >= 0 /\ q >= 0
  BY <1>1, <1>2, <1>3
<1>5. b * (q - p) = b * q - b * p /\ q - p \in Int
  BY <1>1
<1>6. q - p >= 0
  BY <1>1, <1>2, <1>3, <1>5
<1>7. QED
  BY <1>1, <1>4, <1>6 DEF p, q

\* A multiple of p that is smaller than p is none or less.
LEMMA SmallMultiple ==
    ASSUME NEW p \in Nat, NEW y \in Int, p * y < p
    PROVE  y <= 0
<1> SUFFICES ASSUME y >= 1
             PROVE  FALSE
  OBVIOUS
<1>1. p * 1 <= p * y
  BY ProductGrows
<1>2. QED
  BY <1>1

-----------------------------------------------------------------------------
(***************************************************************************)
(* The recursive functions the digits are made of.                         *)
(***************************************************************************)

\* Powers.
LEMMA PowIs ==
    ASSUME NEW b \in Nat
    PROVE  Pow(b, 0) = 1 /\ \A n \in Nat : Pow(b, n) \in Nat /\ Pow(b, n + 1) = b * Pow(b, n)
<1> DEFINE D(p) == p = [i \in Nat |-> IF i = 0 THEN 1 ELSE b * p[i - 1]]
           p0 == CHOOSE p : D(p)
           h == [i \in Nat |-> [x \in Nat |-> b * x]]
<1>1. h \in [Nat -> [Nat -> Nat]]
  OBVIOUS
<1>2. \E f : D(f)
  <2> HIDE DEF h, p0
  <2>0. PICK f : Goes(f, Nat, 1, h)
    BY <1>1, Recursion
  <2>1. f \in [Nat -> Nat] /\ f[0] = 1 /\ \A n \in Nat : f[n + 1] = h[n][f[n]]
    BY <2>0 DEF Goes
  <2>2. ASSUME NEW i \in Nat, i # 0 PROVE f[i] = b * f[i - 1]
    <3>1. i - 1 \in Nat /\ (i - 1) + 1 = i
      BY <2>2
    <3>2. f[i] = h[i - 1][f[i - 1]] /\ f[i - 1] \in Nat
      BY <2>1, <3>1
    <3>3. QED
      BY <3>1, <3>2 DEF h
  <2>3. D(f)
    BY <2>1, <2>2
  <2>4. QED
    BY <2>3
<1>3. D(p0)
  BY <1>2
<1>4. \A n : Pow(b, n) = p0[n]
  BY DEF Pow
<1> HIDE DEF p0
<1>5. p0[0] = 1 /\ \A n \in Nat : p0[n + 1] = b * p0[n]
  <2>1. \A i \in Nat : p0[i] = IF i = 0 THEN 1 ELSE b * p0[i - 1]
    BY <1>3, Zenon
  <2>2. QED
    BY <2>1
<1> DEFINE K == {n \in Nat : p0[n] \in Nat}
<1>6. 0 \in K /\ \A n \in Nat : n \in K => n + 1 \in K
  BY <1>5
<1> HIDE DEF K
<1>7. \A n \in Nat : n \in K
  BY <1>6, AllNumbers
<1>8. QED
  BY <1>4, <1>5, <1>7 DEF K

\* What is left of a number.
LEMMA LeftIs ==
    ASSUME NEW v \in Int, NEW b \in Nat, b > 0
    PROVE  /\ Left(v, b, 0) = v
           /\ \A n \in Nat : Left(v, b, n) \in Int /\ Left(v, b, n + 1) = Left(v, b, n) \div b
<1> DEFINE D(p) == p = [i \in Nat |-> IF i = 0 THEN v ELSE p[i - 1] \div b]
           p0 == CHOOSE p : D(p)
           h == [i \in Nat |-> [x \in Int |-> x \div b]]
<1>1. h \in [Nat -> [Int -> Int]]
  BY DivMod
<1>2. \E f : D(f)
  <2> HIDE DEF h, p0
  <2>0. PICK f : Goes(f, Int, v, h)
    BY <1>1, Recursion
  <2>1. f \in [Nat -> Int] /\ f[0] = v /\ \A n \in Nat : f[n + 1] = h[n][f[n]]
    BY <2>0 DEF Goes
  <2>2. ASSUME NEW i \in Nat, i # 0 PROVE f[i] = f[i - 1] \div b
    <3>1. i - 1 \in Nat /\ (i - 1) + 1 = i
      BY <2>2
    <3>2. f[i] = h[i - 1][f[i - 1]] /\ f[i - 1] \in Int
      BY <2>1, <3>1
    <3>3. QED
      BY <3>1, <3>2 DEF h
  <2>3. D(f)
    BY <2>1, <2>2
  <2>4. QED
    BY <2>3
<1>3. D(p0)
  BY <1>2
<1>4. \A n : Left(v, b, n) = p0[n]
  BY DEF Left
<1> HIDE DEF p0
<1>5. p0[0] = v /\ \A n \in Nat : p0[n + 1] = p0[n] \div b
  <2>1. \A i \in Nat : p0[i] = IF i = 0 THEN v ELSE p0[i - 1] \div b
    BY <1>3, Zenon
  <2>2. QED
    BY <2>1
<1> DEFINE K == {n \in Nat : p0[n] \in Int}
<1>6. 0 \in K /\ \A n \in Nat : n \in K => n + 1 \in K
  BY <1>5, DivMod
<1> HIDE DEF K
<1>7. \A n \in Nat : n \in K
  BY <1>6, AllNumbers
<1>8. QED
  BY <1>4, <1>5, <1>7 DEF K

\* A number is put together from its highest digit down.
LEMMA FromDigitsIs ==
    ASSUME NEW b \in Nat, NEW s \in Seq(Nat)
    PROVE  \E f \in [0 .. Len(s) -> Nat] :
              /\ FromDigits(s, b) = f[Len(s)] /\ f[0] = 0
              /\ \A i \in 0 .. Len(s) - 1 : f[i + 1] = s[Len(s) - i] + b * f[i]
<1> DEFINE L == Len(s)
           D(p) == p = [i \in 0 .. L |-> IF i = 0 THEN 0 ELSE s[L + 1 - i] + b * p[i - 1]]
           p0 == CHOOSE p : D(p)
           h == [i \in Nat |-> [x \in Nat |-> IF i < L THEN s[L - i] + b * x ELSE 0]]
<1>0. L \in Nat /\ \A i \in 1 .. L : s[i] \in Nat
  BY LenProperties, ElementOfSeq
<1>1. h \in [Nat -> [Nat -> Nat]]
  <2>1. ASSUME NEW i \in Nat, NEW x \in Nat, i < L PROVE s[L - i] + b * x \in Nat
    <3>1. L - i \in 1 .. L /\ b * x \in Nat
      BY <1>0, <2>1
    <3>2. s[L - i] \in Nat
      BY <1>0, <3>1
    <3>3. QED
      BY <3>1, <3>2
  <2> HIDE DEF L
  <2>2. QED
    BY <2>1
<1> HIDE DEF L
<1>2. \E f : D(f)
  <2> HIDE DEF h, p0
  <2>0. PICK f : Goes(f, Nat, 0, h)
    BY <1>1, Recursion
  <2>1. f \in [Nat -> Nat] /\ f[0] = 0 /\ \A n \in Nat : f[n + 1] = h[n][f[n]]
    BY <2>0 DEF Goes
  <2> DEFINE g == [i \in 0 .. L |-> f[i]]
  <2>2. ASSUME NEW i \in 0 .. L, i # 0 PROVE g[i] = s[L + 1 - i] + b * g[i - 1]
    <3>1. i - 1 \in Nat /\ (i - 1) + 1 = i /\ i - 1 < L /\ i - 1 \in 0 .. L /\ L - (i - 1) = L + 1 - i
      BY <1>0, <2>2
    <3>2. f[i] = h[i - 1][f[i - 1]] /\ f[i - 1] \in Nat
      BY <2>1, <3>1
    <3>3. f[i] = s[L - (i - 1)] + b * f[i - 1]
      BY <3>1, <3>2 DEF h
    <3>4. QED
      BY <3>1, <3>3
  <2>3. g[0] = 0
    BY <1>0, <2>1
  <2>4. D(g)
    BY <2>2, <2>3
  <2>5. QED
    BY <2>4
<1>3. D(p0)
  BY <1>2
<1>4. FromDigits(s, b) = p0[L]
  BY DEF FromDigits, L
<1> HIDE DEF p0, h
<1>5. p0[0] = 0 /\ \A i \in 0 .. L - 1 : p0[i + 1] = s[L - i] + b * p0[i]
  <2>1. \A i \in 0 .. L : p0[i] = IF i = 0 THEN 0 ELSE s[L + 1 - i] + b * p0[i - 1]
    BY <1>3, Zenon
  <2>2. \A i \in 0 .. L - 1 : i + 1 \in 0 .. L /\ L + 1 - (i + 1) = L - i /\ i + 1 # 0 /\ (i + 1) - 1 = i
    BY <1>0
  <2>3. 0 \in 0 .. L
    BY <1>0
  <2>4. QED
    BY <2>1, <2>2, <2>3
<1> DEFINE K == {n \in Nat : n <= L => p0[n] \in Nat}
<1>6. 0 \in K
  BY <1>5
<1>7. ASSUME NEW n \in Nat, n \in K PROVE n + 1 \in K
  <2> SUFFICES ASSUME n + 1 <= L
               PROVE  p0[n + 1] \in Nat
    OBVIOUS
  <2>1. n \in 0 .. L - 1 /\ L - n \in 1 .. L /\ p0[n] \in Nat
    BY <1>0, <1>7
  <2>2. s[L - n] \in Nat /\ b * p0[n] \in Nat
    BY <1>0, <2>1
  <2>3. QED
    BY <1>5, <2>1, <2>2
<1> HIDE DEF K
<1>8. \A n \in Nat : n \in K
  BY <1>6, <1>7, AllNumbers
<1>9. \A n \in 0 .. L : p0[n] \in Nat
  BY <1>0, <1>8 DEF K
<1>10. p0 \in [0 .. L -> Nat]
  <2>1. p0 = [i \in 0 .. L |-> p0[i]]
    BY <1>3
  <2>2. QED
    BY <1>9, <2>1
<1>11. QED
  BY <1>4, <1>5, <1>10 DEF L

-----------------------------------------------------------------------------
(***************************************************************************)
(* A number is the number of its digits.                                   *)
(***************************************************************************)

\* What is left of a natural number is one, and less is left of a smaller one.
LEMMA LeftShrinks ==
    ASSUME NEW b \in Nat, b > 0, NEW u \in Nat, NEW v \in Nat, u <= v, NEW n \in Nat
    PROVE  Left(u, b, n) \in Nat /\ Left(v, b, n) \in Nat /\ Left(u, b, n) <= Left(v, b, n)
<1> DEFINE K == {k \in Nat : /\ Left(u, b, k) \in Nat /\ Left(v, b, k) \in Nat
                             /\ Left(u, b, k) <= Left(v, b, k)}
<1>1. 0 \in K
  <2>1. u \in Int /\ v \in Int
    OBVIOUS
  <2>2. Left(u, b, 0) = u /\ Left(v, b, 0) = v
    BY <2>1, LeftIs
  <2>3. QED
    BY <2>2
<1>3. ASSUME NEW k \in Nat, k \in K PROVE k + 1 \in K
  <2>1. Left(u, b, k + 1) = Left(u, b, k) \div b /\ Left(v, b, k + 1) = Left(v, b, k) \div b
    BY LeftIs
  <2>2. QED
    BY <1>3, <2>1, DivGrows
<1> HIDE DEF K
<1>4. n \in K
  BY <1>1, <1>3, AllNumbers
<1>5. QED
  BY <1>4 DEF K

\* When nothing is left, nothing will be.
LEMMA NothingLeft ==
    ASSUME NEW b \in Nat, b > 0, NEW v \in Nat, NEW m \in Nat, NEW n \in Nat, m <= n,
           Left(v, b, m) = 0
    PROVE  Left(v, b, n) = 0
<1> DEFINE K == {k \in Nat : Left(v, b, m + k) = 0}
<1>1. 0 \in K
  OBVIOUS
<1>2. 0 \div b = 0
  OBVIOUS
<1>3. ASSUME NEW k \in Nat, k \in K PROVE k + 1 \in K
  <2>1. m + k \in Nat /\ (m + k) + 1 = m + (k + 1)
    OBVIOUS
  <2>2. Left(v, b, (m + k) + 1) = Left(v, b, m + k) \div b
    BY <2>1, LeftIs
  <2>3. QED
    BY <1>2, <1>3, <2>1, <2>2
<1> HIDE DEF K
<1>4. n - m \in K
  BY <1>1, <1>3, AllNumbers
<1>5. QED
  BY <1>4 DEF K

\* Digits are digits.
LEMMA DigitsType ==
    ASSUME NEW v \in Int, NEW b \in Nat, b > 0, NEW m \in Nat
    PROVE  /\ Digits(v, b, m) \in Seq(Nat) /\ Len(Digits(v, b, m)) = m
           /\ \A i \in 1 .. m : /\ Digits(v, b, m)[i] = Left(v, b, i - 1) % b
                                /\ Digits(v, b, m)[i] \in 0 .. b - 1
<1>1. ASSUME NEW i \in 1 .. m PROVE Left(v, b, i - 1) % b \in 0 .. b - 1
  <2>1. i - 1 \in Nat
    OBVIOUS
  <2>2. QED
    BY <2>1, LeftIs, DivMod
<1>2. Digits(v, b, m) = [i \in 1 .. m |-> Left(v, b, i - 1) % b]
  BY DEF Digits
<1>3. \A i \in 1 .. m : Left(v, b, i - 1) % b \in Nat
  BY <1>1
<1>4. Digits(v, b, m) \in Seq(Nat) /\ Len(Digits(v, b, m)) = m
  BY <1>2, <1>3
<1>5. QED
  BY <1>1, <1>2, <1>4

\* The number of m digits is what has been taken off: below b^m, and apart from what
\* is left by so many times b^m.
LEMMA DigitsNumber ==
    ASSUME NEW v \in Int, NEW b \in Nat, b > 0, NEW m \in Nat
    PROVE  /\ FromDigits(Digits(v, b, m), b) \in 0 .. Pow(b, m) - 1
           /\ FromDigits(Digits(v, b, m), b) = v - Pow(b, m) * Left(v, b, m)
<1> DEFINE s == Digits(v, b, m)
           L(k) == Left(v, b, k)
<1>1. s \in Seq(Nat) /\ Len(s) = m /\ \A i \in 1 .. m : s[i] = L(i - 1) % b /\ s[i] \in 0 .. b - 1
  BY DigitsType
<1>2. L(0) = v /\ \A k \in Nat : L(k) \in Int /\ L(k + 1) = L(k) \div b
  BY LeftIs
<1>3. Pow(b, 0) = 1 /\ \A n \in Nat : Pow(b, n) \in Nat /\ Pow(b, n + 1) = b * Pow(b, n)
  BY PowIs
<1> HIDE DEF s, L
<1>4. PICK f \in [0 .. m -> Nat] :
         /\ FromDigits(s, b) = f[m] /\ f[0] = 0
         /\ \A i \in 0 .. m - 1 : f[i + 1] = s[m - i] + b * f[i]
  BY <1>1, FromDigitsIs
<1> DEFINE K == {i \in Nat : i <= m => /\ f[i] \in 0 .. Pow(b, i) - 1
                                       /\ f[i] = L(m - i) - Pow(b, i) * L(m)}
<1>5. 0 \in K
  <2>1. L(m) \in Int /\ m - 0 = m
    BY <1>2
  <2>2. 1 * L(m) = L(m)
    BY <2>1
  <2>3. f[0] \in 0 .. Pow(b, 0) - 1
    BY <1>3, <1>4
  <2>4. f[0] = L(m - 0) - Pow(b, 0) * L(m)
    BY <1>3, <1>4, <2>1, <2>2
  <2>5. QED
    BY <2>3, <2>4
<1>6. ASSUME NEW i \in Nat, i \in K PROVE i + 1 \in K
  <2> SUFFICES ASSUME i + 1 <= m
               PROVE  /\ f[i + 1] \in 0 .. Pow(b, i + 1) - 1
                      /\ f[i + 1] = L(m - (i + 1)) - Pow(b, i + 1) * L(m)
    OBVIOUS
  <2> DEFINE j == m - (i + 1)
             P == Pow(b, i)
  <2>1. /\ i \in 0 .. m - 1 /\ m - i \in 1 .. m /\ (m - i) - 1 = j /\ j \in Nat
        /\ j + 1 = m - i /\ m - i \in Nat
    BY <1>6
  <2>2. f[i] \in 0 .. P - 1 /\ f[i] = L(m - i) - P * L(m) /\ P \in Nat
    BY <1>3, <1>6, <2>1
  <2>3. f[i + 1] = s[m - i] + b * f[i]
    BY <1>4, <2>1
  <2>4. s[m - i] = L(j) % b /\ s[m - i] \in 0 .. b - 1
    BY <1>1, <2>1
  <2>5. /\ L(m - i) = L(j) \div b /\ L(j) \in Int /\ L(m) \in Int /\ L(m - i) \in Int
    BY <1>2, <2>1
  <2>6. L(j) = b * L(m - i) + (L(j) % b)
    BY <2>5, DivMod
  <2>7. Pow(b, i + 1) = b * P
    BY <1>3
  <2> HIDE DEF j, P, K
  <2>8. f[i + 1] = L(j) - Pow(b, i + 1) * L(m)
    <3>1. b * (L(m - i) - P * L(m)) = b * L(m - i) - (b * P) * L(m) /\ b * P \in Int
      <4>1. b \in Int /\ L(m - i) \in Int /\ P \in Int /\ L(m) \in Int
        BY <2>2, <2>5
      <4>2. QED
        BY <4>1, Regroup
    <3>2. b * L(m - i) \in Int /\ (b * P) * L(m) \in Int /\ L(j) % b \in Int
      BY <2>4, <2>5, <3>1
    <3>3. f[i + 1] = (L(j) % b) + (b * L(m - i) - (b * P) * L(m))
      BY <2>2, <2>3, <2>4, <3>1
    <3>4. QED
      BY <2>5, <2>6, <2>7, <3>2, <3>3
  <2>9. f[i + 1] \in 0 .. Pow(b, i + 1) - 1
    <3>1. f[i] \in Nat /\ f[i] + 1 <= P /\ f[i] + 1 \in Nat
      BY <2>2
    <3>2. b * (f[i] + 1) <= b * P
      BY <2>2, <3>1, ProductGrows
    <3>3. b * (f[i] + 1) = b * f[i] + b /\ b * f[i] \in Nat /\ b * P \in Nat
      <4>1. ASSUME NEW z \in Nat PROVE b * (z + 1) = b * z + b /\ b * z \in Nat
        OBVIOUS
      <4>2. QED
        BY <2>2, <3>1, <4>1
    <3>4. s[m - i] \in Nat /\ s[m - i] < b
      BY <2>4
    <3>5. f[i + 1] \in Nat /\ f[i + 1] < Pow(b, i + 1) /\ Pow(b, i + 1) \in Nat
      <4>1. ASSUME NEW d \in Nat, NEW z \in Nat, NEW w \in Nat, d < b, z + b <= w
            PROVE  d + z \in Nat /\ d + z < w
        BY <4>1
      <4> DEFINE d == s[m - i]
                 z == b * f[i]
                 w == b * P
      <4>2. d \in Nat /\ d < b /\ z \in Nat /\ w \in Nat /\ z + b <= w
        BY <3>2, <3>3, <3>4
      <4>3. f[i + 1] = d + z /\ Pow(b, i + 1) = w
        BY <2>3, <2>7
      <4> HIDE DEF d, z, w
      <4>4. QED
        BY <4>1, <4>2, <4>3
    <3>6. QED
      BY <3>5
  <2>10. QED
    BY <2>8, <2>9 DEF j
<1> HIDE DEF K
<1>7. m \in K
  BY <1>5, <1>6, AllNumbers
<1>8. f[m] \in 0 .. Pow(b, m) - 1 /\ f[m] = L(0) - Pow(b, m) * L(m)
  BY <1>7 DEF K
<1>9. QED
  BY <1>2, <1>4, <1>8 DEF s, L

\* So a number that m digits can hold is the number of its m digits, and a negative
\* one differs from it by b^m.
LEMMA DigitsOfRange ==
    ASSUME NEW v \in Int, NEW b \in Nat, b > 0, NEW m \in Nat
    PROVE  /\ v \in 0 .. Pow(b, m) - 1 =>
                FromDigits(Digits(v, b, m), b) = v /\ Left(v, b, m) = 0
           /\ v \in -Pow(b, m) .. -1 => FromDigits(Digits(v, b, m), b) = v + Pow(b, m)
<1> DEFINE P == Pow(b, m)
           y == Left(v, b, m)
           H == FromDigits(Digits(v, b, m), b)
<1>1. P \in Nat /\ y \in Int
  BY PowIs, LeftIs
<1>2. H \in 0 .. P - 1 /\ H = v - P * y
  BY DigitsNumber
<1> HIDE DEF P, y, H
<1>3. P * y \in Int /\ -y \in Int /\ P * (-y) = -(P * y) /\ P > 0 /\ H \in Int
  BY <1>1, <1>2
<1>4. CASE v \in 0 .. P - 1
  <2>1. P * y < P /\ P * (-y) < P
    BY <1>1, <1>2, <1>3, <1>4
  <2>2. y <= 0 /\ -y <= 0
    BY <1>1, <1>3, <2>1, SmallMultiple
  <2>3. y = 0
    BY <1>1, <2>2
  <2>4. P * 0 = 0
    BY <1>1
  <2>5. QED
    BY <1>1, <1>2, <1>4, <2>3, <2>4 DEF P, y, H
<1>5. CASE v \in -P .. -1
  <2>1. P * y < 0 /\ P * (-y) < P + P
    BY <1>1, <1>2, <1>3, <1>5
  <2>2. y < 0
    <3> SUFFICES ASSUME y >= 0
                 PROVE  FALSE
      BY <1>1
    <3>1. P * 0 <= P * y /\ P * 0 = 0
      BY <1>1, ProductGrows
    <3>2. QED
      BY <1>3, <2>1, <3>1
  <2>3. P * (-y - 1) = P * (-y) - P /\ -y - 1 \in Int
    BY <1>1
  <2>4. P * (-y - 1) < P
    BY <1>1, <1>3, <2>1, <2>3
  <2>5. -y - 1 <= 0
    BY <1>1, <2>3, <2>4, SmallMultiple
  <2>6. y = -1
    BY <1>1, <2>2, <2>5
  <2>7. P * (-1) = -P
    BY <1>1
  <2>8. v \notin 0 .. P - 1
    BY <1>5
  <2>9. QED
    BY <1>1, <1>2, <1>5, <2>6, <2>7, <2>8 DEF P, H
<1>6. QED
  BY <1>4, <1>5 DEF P, y, H

-----------------------------------------------------------------------------
(***************************************************************************)
(* Varints.                                                                *)
(***************************************************************************)

\* The bases, the word and what so many bytes can hold.
LEMMA Sizes ==
    /\ B \in Nat /\ B > 0 /\ G \in Nat /\ G >= 2 /\ B = 2 * G /\ W \in Nat /\ W > G
    /\ \A size \in {1, 2, 4, 8} : Span[size] = Pow(B, size) /\ Span[size] \in Nat
    /\ W <= Span[8]
<1>1. B \in Nat /\ B > 3 /\ B % 2 = 0 /\ W \in Nat /\ W > G /\ W <= Span[8]
  BY BaseAssumption, WordAssumption
<1>2. G \in Nat /\ G >= 2 /\ B = 2 * G
  BY <1>1 DEF G
<1>3. ASSUME NEW size \in {1, 2, 4, 8} PROVE Span[size] = Pow(B, size) /\ Span[size] \in Nat
  <2>1. Pow(B, size) \in Nat
    BY <1>1, PowIs
  <2>2. QED
    BY <2>1 DEF Span
<1>4. QED
  BY <1>1, <1>2, <1>3

\* Two groups hold at least what a byte holds.
LEMMA GroupsAndBytes ==
    ASSUME NEW n \in Nat
    PROVE  Pow(B, n) <= Pow(G, 2 * n)
<1> DEFINE K == {i \in Nat : Pow(B, i) <= Pow(G, 2 * i)}
<1>1. /\ Pow(B, 0) = 1 /\ \A i \in Nat : Pow(B, i) \in Nat /\ Pow(B, i + 1) = B * Pow(B, i)
      /\ Pow(G, 0) = 1 /\ \A i \in Nat : Pow(G, i) \in Nat /\ Pow(G, i + 1) = G * Pow(G, i)
  BY Sizes, PowIs
<1>2. 0 \in K
  <2>1. 2 * 0 = 0
    OBVIOUS
  <2>2. QED
    BY <1>1, <2>1
<1>3. ASSUME NEW i \in Nat, i \in K PROVE i + 1 \in K
  <2> DEFINE x == Pow(B, i)
             y == Pow(G, 2 * i)
  <2>1. x \in Nat /\ y \in Nat /\ x <= y
    BY <1>1, <1>3
  <2>2. 2 * (i + 1) = (2 * i + 1) + 1 /\ 2 * i \in Nat /\ 2 * i + 1 \in Nat
    OBVIOUS
  <2>3. Pow(G, 2 * (i + 1)) = G * (G * y) /\ Pow(B, i + 1) = B * x
    BY <1>1, <2>2
  <2> HIDE DEF x, y, K
  <2>4. B <= G * G /\ G * G \in Nat
    <3>1. 2 * G <= G * G
      BY Sizes, ProductGrows
    <3>2. QED
      BY Sizes, <3>1
  <2>5. B * x <= (G * G) * y
    BY Sizes, <2>1, <2>4, ProductGrows
  <2>6. (G * G) * y = G * (G * y)
    BY Sizes, <2>1
  <2>7. QED
    BY <2>3, <2>5, <2>6 DEF K
<1> HIDE DEF K
<1>4. n \in K
  BY <1>2, <1>3, AllNumbers
<1>5. QED
  BY <1>4 DEF K

\* Sixteen groups are enough, so there is a first one after which nothing is left.
LEMMA VarintSizeIs ==
    ASSUME NEW n \in 0 .. W - 1
    PROVE  /\ VarintSize(n) \in 1 .. 16 /\ Left(n, G, VarintSize(n)) = 0
           /\ VarintSize(n) = 1 \/ Left(n, G, VarintSize(n) - 1) # 0
<1> DEFINE K == {k \in 1 .. 16 : Left(n, G, k) = 0}
<1>1. 16 \in K
  <2>1. /\ n \in Int /\ n < Span[8] /\ Span[8] = Pow(B, 8) /\ n >= 0 /\ Pow(B, 8) \in Nat
        /\ G \in Nat /\ G > 0
    BY Sizes
  <2>2. Pow(B, 8) <= Pow(G, 16) /\ Pow(G, 16) \in Nat
    <3>1. 2 * 8 = 16
      OBVIOUS
    <3>2. QED
      BY <2>1, <3>1, GroupsAndBytes, PowIs
  <2>3. n \in 0 .. Pow(G, 16) - 1
    BY <2>1, <2>2
  <2>4. Left(n, G, 16) = 0
    BY <2>1, <2>3, DigitsOfRange
  <2>5. QED
    BY <2>4
<1>2. K \in SUBSET (1 .. 16) /\ K # {}
  BY <1>1
<1>3. Min(K) \in K /\ \A y \in K : Min(K) <= y
  <2> HIDE DEF K
  <2>1. QED
    BY <1>2, MinIsThere
<1>4. PICK m \in 1 .. 16 : Left(n, G, m) = 0 /\ \A y \in K : m <= y
  BY <1>3
<1>5. m = 1 \/ Left(n, G, m - 1) # 0
  <2> SUFFICES ASSUME m # 1, Left(n, G, m - 1) = 0
               PROVE  FALSE
    OBVIOUS
  <2>1. m - 1 \in 1 .. 16 /\ ~(m <= m - 1)
    OBVIOUS
  <2>2. QED
    BY <1>4, <2>1
<1>6. QED
  BY <1>4, <1>5 DEF VarintSize

\* The reader gives up after at least one group and not before the last of any number.
LEMMA SizeFits ==
    /\ MaxGroups \in 1 .. 16
    /\ \A n \in 0 .. W - 1 : VarintSize(n) \in 1 .. MaxGroups
<1>1. W - 1 \in 0 .. W - 1
  BY Sizes
<1>2. MaxGroups \in 1 .. 16 /\ Left(W - 1, G, MaxGroups) = 0
  BY <1>1, VarintSizeIs DEF MaxGroups
<1>3. ASSUME NEW n \in 0 .. W - 1, VarintSize(n) > MaxGroups PROVE FALSE
  <2> DEFINE k == VarintSize(n)
  <2>1. k \in 1 .. 16 /\ (k = 1 \/ Left(n, G, k - 1) # 0)
    BY VarintSizeIs
  <2> HIDE DEF k
  <2>2. k - 1 \in Nat /\ MaxGroups <= k - 1 /\ k # 1 /\ MaxGroups \in Nat
    BY <1>2, <1>3, <2>1 DEF k
  <2>3. W - 1 \in Nat /\ n \in Nat /\ n <= W - 1 /\ G \in Nat /\ G > 0
    BY Sizes
  <2>4. Left(W - 1, G, k - 1) = 0
    BY <1>2, <2>2, <2>3, NothingLeft
  <2>5. Left(n, G, k - 1) \in Nat /\ Left(n, G, k - 1) <= Left(W - 1, G, k - 1)
    BY <2>2, <2>3, LeftShrinks
  <2>6. QED
    BY <2>1, <2>2, <2>4, <2>5
<1>4. ASSUME NEW n \in 0 .. W - 1 PROVE VarintSize(n) \in 1 .. MaxGroups
  <2>1. VarintSize(n) \in 1 .. 16
    BY VarintSizeIs
  <2>2. QED
    BY <1>2, <1>3, <2>1
<1>5. QED
  BY <1>2, <1>4

\* The bytes of a varint: the digits, all but the last one marked.
LEMMA VarintIs ==
    ASSUME NEW n \in 0 .. W - 1
    PROVE  /\ Varint(n) \in Seq(Nat) /\ Len(Varint(n)) = VarintSize(n)
           /\ \A i \in 1 .. VarintSize(n) :
                 /\ Varint(n)[i] < G <=> i = VarintSize(n)
                 /\ Varint(n)[i] % G = Digits(n, G, VarintSize(n))[i]
<1> DEFINE k == VarintSize(n)
           d == Digits(n, G, k)
<1>1. k \in Nat /\ G \in Nat /\ G > 0 /\ n \in Int
  BY VarintSizeIs, Sizes
<1>2. \A i \in 1 .. k : d[i] \in 0 .. G - 1
  <2> HIDE DEF k
  <2>1. QED
    BY <1>1, DigitsType
<1>3. Varint(n) = [i \in 1 .. k |-> (IF i < k THEN G ELSE 0) + d[i]]
  BY DEF Varint
<1> HIDE DEF k, d
<1>4. ASSUME NEW x \in 0 .. G - 1 PROVE (G + x) % G = x /\ (0 + x) % G = x
  BY <1>1
<1>5. ASSUME NEW i \in 1 .. k
      PROVE  Varint(n)[i] \in Nat /\ (Varint(n)[i] < G <=> i = k) /\ Varint(n)[i] % G = d[i]
  <2>1. d[i] \in 0 .. G - 1
    BY <1>2
  <2>2. CASE i < k
    <3>1. Varint(n)[i] = G + d[i]
      BY <1>3, <2>2
    <3>2. QED
      BY <1>1, <1>4, <2>1, <2>2, <3>1
  <2>3. CASE ~(i < k)
    <3>1. Varint(n)[i] = 0 + d[i] /\ i = k
      BY <1>1, <1>3, <2>3
    <3>2. QED
      BY <1>1, <1>4, <2>1, <3>1
  <2>4. QED
    BY <2>2, <2>3
<1>6. Varint(n) \in Seq(Nat) /\ Len(Varint(n)) = k
  <2>1. Varint(n) = [i \in 1 .. k |-> Varint(n)[i]]
    BY <1>3
  <2>2. [i \in 1 .. k |-> Varint(n)[i]] \in Seq(Nat) /\ Len([i \in 1 .. k |-> Varint(n)[i]]) = k
    BY <1>1, <1>5
  <2>3. QED
    BY <2>1, <2>2
<1>7. QED
  BY <1>5, <1>6 DEF k, d

\* What has been written after a byte is read there, whatever follows.
THEOREM VarintRoundTrip ==
    ASSUME NEW n \in 0 .. W - 1, NEW tag \in Nat, NEW rest \in Seq(Nat)
    PROVE  ReadVarint((<<tag>> \o Varint(n)) \o rest, 1) =
             [st |-> OK, pos |-> 1 + Len(Varint(n)), n |-> n]
<1> DEFINE k == VarintSize(n)
           d == Digits(n, G, k)
           s == (<<tag>> \o Varint(n)) \o rest
           groups == {j \in 1 .. MaxGroups : 1 + j <= Len(s)}
           closing == {j \in groups : s[1 + j] < G}
<1>1. /\ k \in 1 .. MaxGroups /\ MaxGroups \in Nat /\ G \in Nat /\ G > 0 /\ n \in Nat /\ n < W
      /\ W \in Nat /\ k \in Nat /\ Left(n, G, k) = 0
  BY SizeFits, VarintSizeIs, Sizes
<1>2. /\ Varint(n) \in Seq(Nat) /\ Len(Varint(n)) = k
      /\ \A i \in 1 .. k : (Varint(n)[i] < G <=> i = k) /\ Varint(n)[i] % G = d[i]
  BY VarintIs
<1>3. FromDigits(d, G) = n
  <2>1. Pow(G, k) * 0 = 0 /\ n \in Int
    <3>1. Pow(G, k) \in Nat
      BY <1>1, PowIs
    <3>2. QED
      BY <1>1, <3>1
  <2>2. FromDigits(Digits(n, G, k), G) = n - Pow(G, k) * Left(n, G, k)
    <3> HIDE DEF k
    <3>1. QED
      BY <1>1, <2>1, DigitsNumber
  <2>3. QED
    BY <1>1, <2>1, <2>2
<1>4. d = [i \in 1 .. k |-> d[i]]
  BY DEF Digits
<1> HIDE DEF k, d
<1>5. /\ Len(s) \in Nat /\ 1 + k <= Len(s)
      /\ \A i \in 1 .. k : s[1 + i] = Varint(n)[i]
  <2> DEFINE h == <<tag>> \o Varint(n)
  <2>1. <<tag>> \in Seq(Nat) /\ Len(<<tag>>) = 1
    OBVIOUS
  <2>2. /\ h \in Seq(Nat) /\ Len(h) = 1 + k
        /\ \A i \in 1 .. 1 + k : h[i] = IF i <= 1 THEN <<tag>>[i] ELSE Varint(n)[i - 1]
    BY <1>2, <2>1, ConcatProperties
  <2> HIDE DEF h
  <2>3. /\ Len(h \o rest) = Len(h) + Len(rest) /\ Len(rest) \in Nat
        /\ \A i \in 1 .. Len(h) + Len(rest) : (h \o rest)[i] = IF i <= Len(h) THEN h[i] ELSE rest[i - Len(h)]
    BY <2>2, ConcatProperties, LenProperties
  <2>4. ASSUME NEW i \in 1 .. k PROVE (h \o rest)[1 + i] = Varint(n)[i]
    <3>1. 1 + i \in 1 .. 1 + k /\ ~(1 + i <= 1) /\ (1 + i) - 1 = i /\ 1 + i \in 1 .. Len(h) + Len(rest)
      BY <1>1, <2>2, <2>3
    <3>2. QED
      BY <2>2, <2>3, <3>1
  <2>5. QED
    BY <1>1, <2>2, <2>3, <2>4 DEF h
<1>6. ReadVarint(s, 1) =
        CASE closing # {} ->
               [st |-> OK, pos |-> 1 + Min(closing),
                n |-> FromDigits([i \in 1 .. Min(closing) |-> s[1 + i] % G], G) % W]
          [] closing = {} /\ groups = 1 .. MaxGroups ->
               [st |-> OVERFLOW, pos |-> 1 + MaxGroups, n |-> 0]
          [] OTHER ->
               [st |-> TRUNCATED, pos |-> Len(s), n |-> 0]
  BY DEF ReadVarint
<1> HIDE DEF s
<1>7. k \in closing /\ \A y \in closing : k <= y
  <2>1. k \in closing
    <3>1. k \in 1 .. k
      BY <1>1
    <3>2. QED
      BY <1>1, <1>2, <1>5, <3>1
  <2>2. ASSUME NEW y \in closing, y < k PROVE FALSE
    <3>1. y \in 1 .. k /\ y # k /\ s[1 + y] < G
      BY <1>1, <2>2
    <3>2. QED
      BY <1>2, <1>5, <3>1
  <2>3. \A y \in closing : y \in Int
    BY <1>1
  <2>4. QED
    BY <1>1, <2>1, <2>2, <2>3
<1>8. Min(closing) = k
  <2>1. \A y \in closing : y \in Int
    BY <1>1
  <2> HIDE DEF closing
  <2>2. \A z \in closing : (\A y \in closing : z <= y) => z = k
    BY <1>1, <1>7, <2>1
  <2>3. QED
    BY <1>7, <2>2 DEF Min
<1>9. [i \in 1 .. k |-> s[1 + i] % G] = d
  <2>1. \A i \in 1 .. k : s[1 + i] % G = d[i]
    BY <1>2, <1>5
  <2>2. [i \in 1 .. k |-> s[1 + i] % G] = [i \in 1 .. k |-> d[i]]
    BY <2>1
  <2>3. QED
    BY <1>4, <2>2
<1>10. n % W = n
  BY <1>1
<1>11. ReadVarint(s, 1) =
         [st |-> OK, pos |-> 1 + Min(closing),
          n |-> FromDigits([i \in 1 .. Min(closing) |-> s[1 + i] % G], G) % W]
  <2>1. closing # {}
    BY <1>7
  <2> HIDE DEF closing
  <2>2. QED
    BY <1>6, <2>1
<1>12. QED
  <2> HIDE DEF closing
  <2>1. QED
    BY <1>2, <1>3, <1>8, <1>9, <1>10, <1>11 DEF s

-----------------------------------------------------------------------------
(***************************************************************************)
(* Numbers of fixed width.                                                 *)
(***************************************************************************)

\* The tag of an integer tells its width and whether it has a sign.
LEMMA IntTagIs ==
    ASSUME NEW size \in {1, 2, 4, 8}, NEW signed \in BOOLEAN
    PROVE  /\ IntTag(signed, size) \in IntTags /\ IntTag(signed, size) \in Nat
           /\ IntSize(IntTag(signed, size)) = size
           /\ IsSigned(IntTag(signed, size)) <=> signed
<1> DEFINE P(e) == e \in 0 .. 3 /\ 2^e = size
           e0 == CHOOSE e \in 0 .. 3 : 2^e = size
<1>1. 2^0 = 1 /\ 2^1 = 2 /\ 2^2 = 4 /\ 2^3 = 8
  OBVIOUS
<1>2. \E e \in 0 .. 3 : 2^e = size
  <2>1. 0 \in 0 .. 3 /\ 1 \in 0 .. 3 /\ 2 \in 0 .. 3 /\ 3 \in 0 .. 3
    OBVIOUS
  <2>2. QED
    BY <1>1, <2>1, Zenon
<1>3. e0 \in 0 .. 3 /\ 2^e0 = size
  BY <1>2, Zenon
<1>4. IntTag(signed, size) = (IF signed THEN 3 ELSE 7) + e0
  BY DEF IntTag
<1> HIDE DEF e0
<1>5. e0 = 0 \/ e0 = 1 \/ e0 = 2 \/ e0 = 3
  BY <1>3
<1>6. /\ IntTag(signed, size) \in 3 .. 10
      /\ (IntTag(signed, size) - 3) % 4 = e0
      /\ IntTag(signed, size) \in 3 .. 6 <=> signed
  <2>1. CASE signed
    <3>1. IntTag(signed, size) = 3 + e0
      BY <1>4, <2>1
    <3>2. (3 + e0) - 3 = e0 /\ e0 % 4 = e0 /\ 3 + e0 \in 3 .. 6 /\ 3 + e0 \in 3 .. 10
      BY <1>5
    <3>3. QED
      BY <2>1, <3>1, <3>2
  <2>2. CASE ~signed
    <3>1. IntTag(signed, size) = 7 + e0
      BY <1>4, <2>2
    <3>2. /\ (7 + e0) - 3 = 4 + e0 /\ (4 + e0) % 4 = e0
          /\ 7 + e0 \notin 3 .. 6 /\ 7 + e0 \in 3 .. 10
      BY <1>5
    <3>3. QED
      BY <2>2, <3>1, <3>2
  <2>3. QED
    BY <2>1, <2>2
<1>7. IntSize(IntTag(signed, size)) = size
  BY <1>3, <1>6 DEF IntSize
<1>8. QED
  BY <1>6, <1>7 DEF IntTags, IsSigned

\* What follows the first part of a sequence.
LEMMA SecondPart ==
    ASSUME NEW s \in Seq(Nat), NEW t \in Seq(Nat)
    PROVE  /\ s \o t \in Seq(Nat) /\ Len(s \o t) = Len(s) + Len(t)
           /\ SubSeq(s \o t, Len(s) + 1, Len(s) + Len(t)) = t
<1> DEFINE u == s \o t
           r == SubSeq(u, Len(s) + 1, Len(s) + Len(t))
<1>1. /\ u \in Seq(Nat) /\ Len(u) = Len(s) + Len(t) /\ Len(s) \in Nat /\ Len(t) \in Nat
      /\ \A i \in 1 .. Len(s) + Len(t) : u[i] = IF i <= Len(s) THEN s[i] ELSE t[i - Len(s)]
  BY ConcatProperties, LenProperties
<1> HIDE DEF u
<1> DEFINE a == Len(s) + 1
           z == Len(s) + Len(t)
<1>2. a \in Int /\ z \in Int /\ \A i \in a .. z : u[i] \in Nat
  <2>1. \A i \in a .. z : i \in 1 .. Len(u)
    BY <1>1
  <2>2. QED
    BY <1>1, <2>1, ElementOfSeq
<1>3. /\ r \in Seq(Nat) /\ Len(r) = IF a <= z THEN z - a + 1 ELSE 0
      /\ \A i \in 1 .. z - a + 1 : r[i] = u[a + i - 1]
  BY <1>2, SubSeqProperties
<1> HIDE DEF r
<1>4. Len(r) = Len(t) /\ z - a + 1 = Len(t)
  BY <1>1, <1>3
<1>5. ASSUME NEW i \in 1 .. Len(r) PROVE r[i] = t[i]
  <2>1. /\ a + i - 1 \in 1 .. Len(s) + Len(t) /\ ~(a + i - 1 <= Len(s))
        /\ (a + i - 1) - Len(s) = i
    BY <1>1, <1>4
  <2>2. QED
    BY <1>1, <1>3, <1>4, <2>1
<1>6. r = t
  BY <1>3, <1>4, <1>5, SeqEqual
<1>7. QED
  BY <1>1, <1>6 DEF u, r

\* A tag and the digits after it.
LEMMA TagAndDigits ==
    ASSUME NEW tag \in Nat, NEW v \in Int, NEW m \in Nat
    PROVE  /\ <<tag>> \o Digits(v, B, m) \in Seq(Nat)
           /\ Len(<<tag>> \o Digits(v, B, m)) = 1 + m
           /\ (<<tag>> \o Digits(v, B, m))[1] = tag
           /\ SubSeq(<<tag>> \o Digits(v, B, m), 1 + 1, 1 + m) = Digits(v, B, m)
<1> DEFINE d == Digits(v, B, m)
           h == <<tag>>
<1>1. d \in Seq(Nat) /\ Len(d) = m
  BY Sizes, DigitsType
<1>2. h \in Seq(Nat) /\ Len(h) = 1 /\ h[1] = tag
  OBVIOUS
<1> HIDE DEF d, h
<1>3. /\ h \o d \in Seq(Nat) /\ Len(h \o d) = 1 + m
      /\ SubSeq(h \o d, 1 + 1, 1 + m) = d
  BY <1>1, <1>2, SecondPart
<1>4. (h \o d)[1] = h[1]
  <2>1. \A i \in 1 .. Len(h) + Len(d) : (h \o d)[i] = IF i <= Len(h) THEN h[i] ELSE d[i - Len(h)]
    BY <1>1, <1>2, ConcatProperties
  <2>2. 1 \in 1 .. Len(h) + Len(d) /\ 1 <= Len(h)
    BY <1>1, <1>2
  <2>3. QED
    BY <2>1, <2>2
<1>5. QED
  BY <1>2, <1>3, <1>4 DEF d, h

\* An integer of any width is read as what was written, its sign included.
THEOREM IntRoundTrip ==
    ASSUME NEW size \in {1, 2, 4, 8}, NEW signed \in BOOLEAN,
           NEW v \in IF signed THEN Signed(size) ELSE Unsigned(size)
    PROVE  LET tag == IntTag(signed, size)
               bytes == IntBytes(tag, v)
           IN  /\ bytes \in Seq(Nat) /\ Len(bytes) = 1 + size /\ bytes[1] = tag
               /\ DecodeInt(tag, bytes, 1) = Decoded(1 + size, Int64(v))
<1> DEFINE tag == IntTag(signed, size)
           bytes == IntBytes(tag, v)
           P == Span[size]
           u == FromDigits(SubSeq(bytes, 1 + 1, 1 + size), B)
<1>1. tag \in Nat /\ IntSize(tag) = size /\ (IsSigned(tag) <=> signed)
  BY IntTagIs
<1>2. P \in Nat /\ P = Pow(B, size) /\ B \in Nat /\ B > 0 /\ size \in Nat
  BY Sizes
<1>3. v \in Int /\ (signed => v \in -(P \div 2) .. P \div 2 - 1) /\ (~signed => v \in 0 .. P - 1)
  <2>1. CASE signed
    BY <1>2, <2>1 DEF Signed
  <2>2. CASE ~signed
    BY <1>2, <2>2 DEF Unsigned
  <2>3. QED
    BY <2>1, <2>2
<1> HIDE DEF tag, P
<1>4. /\ bytes \in Seq(Nat) /\ Len(bytes) = 1 + size /\ bytes[1] = tag
      /\ u = FromDigits(Digits(v, B, size), B)
  <2>1. bytes = <<tag>> \o Digits(v, B, size)
    BY <1>1 DEF IntBytes
  <2> DEFINE d == Digits(v, B, size)
             w == <<tag>> \o d
  <2>2. w \in Seq(Nat) /\ Len(w) = 1 + size /\ w[1] = tag /\ SubSeq(w, 1 + 1, 1 + size) = d
    BY <1>1, <1>2, <1>3, TagAndDigits
  <2>3. bytes = w
    BY <2>1
  <2> HIDE DEF bytes, w, d
  <2>4. bytes \in Seq(Nat) /\ Len(bytes) = 1 + size /\ bytes[1] = tag
    BY <2>2, <2>3
  <2>5. u = FromDigits(d, B)
    BY <2>2, <2>3
  <2>6. QED
    BY <2>4, <2>5 DEF d
<1> HIDE DEF u, bytes
<1>5. /\ v \in 0 .. P - 1 => u = v
      /\ v \in -P .. -1 => u = v + P
  BY <1>2, <1>3, <1>4, DigitsOfRange
<1>6. v = IF IsSigned(tag) /\ u >= P \div 2 THEN u - P ELSE u
  <2>1. CASE v >= 0
    <3>1. v \in 0 .. P - 1 /\ (signed => ~(v >= P \div 2))
      BY <1>2, <1>3, <2>1
    <3>2. QED
      BY <1>1, <1>5, <3>1
  <2>2. CASE v < 0
    <3>1. signed /\ v \in -P .. -1 /\ v + P >= P \div 2 /\ (v + P) - P = v
      BY <1>2, <1>3, <2>2
    <3>2. QED
      BY <1>1, <1>5, <3>1
  <2>3. QED
    BY <1>3, <2>1, <2>2
<1>7. DecodeInt(tag, bytes, 1) =
        IF 1 + size > Len(bytes) THEN Failed(TRUNCATED, 1)
        ELSE Decoded(1 + size, Int64(IF IsSigned(tag) /\ u >= P \div 2 THEN u - P ELSE u))
  BY <1>1 DEF DecodeInt, u, P
<1>8. ~(1 + size > Len(bytes))
  BY <1>2, <1>4
<1>9. DecodeInt(tag, bytes, 1) = Decoded(1 + size, Int64(v))
  BY <1>6, <1>7, <1>8
<1>10. QED
  BY <1>4, <1>9 DEF tag, bytes

\* Either encoder takes a width that holds the number, and a sign for negative ones.
LEMMA IntTagFits ==
    ASSUME NEW v \in Signed(8)
    PROVE  /\ \E size \in {1, 2, 4, 8}, signed \in BOOLEAN :
                 /\ CIntTag(v) = IntTag(signed, size)
                 /\ v \in IF signed THEN Signed(size) ELSE Unsigned(size)
           /\ \E size \in {1, 2, 4, 8}, signed \in BOOLEAN :
                 /\ VexIntTag(v) = IntTag(signed, size)
                 /\ v \in IF signed THEN Signed(size) ELSE Unsigned(size)
<1>1. \A n \in {1, 2, 4, 8} : Span[n] \in Nat
  BY Sizes
<1>2. v \in Int /\ v <= Span[8] \div 2 - 1 /\ v >= -(Span[8] \div 2)
  BY <1>1 DEF Signed
<1>3. ASSUME NEW n \in {1, 2, 4, 8}
      PROVE  /\ v >= 0 /\ v <= Span[n] - 1 => v \in Unsigned(n)
             /\ v >= 0 /\ v <= Span[n] \div 2 - 1 => v \in Unsigned(n)
             /\ v < 0 /\ v >= -(Span[n] \div 2) => v \in Signed(n)
  BY <1>1, <1>2 DEF Signed, Unsigned
<1>4. ASSUME NEW K \in SUBSET {1, 2, 4}, K # {} PROVE Min(K) \in K
  <2>1. K \in SUBSET (1 .. 4)
    OBVIOUS
  <2>2. QED
    BY <1>4, <2>1, MinIsThere
<1>5. ASSUME NEW size \in {1, 2, 4, 8}, NEW signed \in BOOLEAN,
             signed => v \in Signed(size), ~signed => v \in Unsigned(size)
      PROVE  v \in IF signed THEN Signed(size) ELSE Unsigned(size)
  BY <1>5
<1>6. \E size \in {1, 2, 4, 8}, signed \in BOOLEAN :
        /\ CIntTag(v) = IntTag(signed, size)
        /\ v \in IF signed THEN Signed(size) ELSE Unsigned(size)
  <2> DEFINE fits == {n \in {1, 2, 4} : IF v >= 0 THEN v <= Span[n] - 1 ELSE v >= -(Span[n] \div 2)}
  <2>1. CIntTag(v) = IF fits = {} THEN IntTag(TRUE, 8) ELSE IntTag(v < 0, Min(fits))
    BY DEF CIntTag
  <2>2. CASE fits = {}
    <3>1. CIntTag(v) = IntTag(TRUE, 8) /\ v \in Signed(8)
      BY <2>1, <2>2
    <3>2. QED
      BY <3>1
  <2>3. CASE fits # {}
    <3>1. fits \in SUBSET {1, 2, 4}
      OBVIOUS
    <3>2. Min(fits) \in fits
      <4> HIDE DEF fits
      <4>1. QED
        BY <1>4, <2>3, <3>1
    <3>3. PICK n \in fits : n = Min(fits)
      BY <3>2
    <3>4. /\ n \in {1, 2, 4, 8} /\ CIntTag(v) = IntTag(v < 0, n)
          /\ IF v >= 0 THEN v <= Span[n] - 1 ELSE v >= -(Span[n] \div 2)
      BY <2>1, <2>3, <3>3
    <3>5. (v < 0 => v \in Signed(n)) /\ (~(v < 0) => v \in Unsigned(n)) /\ (v < 0) \in BOOLEAN
      BY <1>2, <1>3, <3>4
    <3>6. v \in IF v < 0 THEN Signed(n) ELSE Unsigned(n)
      BY <3>5
    <3>7. QED
      BY <3>4, <3>5, <3>6
  <2>4. QED
    BY <2>2, <2>3
<1>7. \E size \in {1, 2, 4, 8}, signed \in BOOLEAN :
        /\ VexIntTag(v) = IntTag(signed, size)
        /\ v \in IF signed THEN Signed(size) ELSE Unsigned(size)
  <2> DEFINE most(n) == IF n = 4 THEN Span[4] \div 2 - 1 ELSE Span[n] - 1
             fits == {n \in {1, 2, 4} : IF v >= 0 THEN v <= most(n) ELSE v >= -(Span[n] \div 2)}
  <2>1. VexIntTag(v) = IF fits = {} THEN IntTag(v < 0, 8) ELSE IntTag(v < 0, Min(fits))
    BY DEF VexIntTag
  <2>2. CASE fits = {}
    <3>1. VexIntTag(v) = IntTag(v < 0, 8) /\ (v < 0) \in BOOLEAN /\ 8 \in {1, 2, 4, 8}
      BY <2>1, <2>2
    <3>2. (v < 0 => v \in Signed(8)) /\ (~(v < 0) => v \in Unsigned(8))
      BY <1>2, <1>3
    <3>3. v \in IF v < 0 THEN Signed(8) ELSE Unsigned(8)
      BY <3>2
    <3>4. QED
      BY <3>1, <3>3
  <2>3. CASE fits # {}
    <3>1. fits \in SUBSET {1, 2, 4}
      OBVIOUS
    <3>2. Min(fits) \in fits
      <4> HIDE DEF fits
      <4>1. QED
        BY <1>4, <2>3, <3>1
    <3>3. PICK n \in fits : n = Min(fits)
      BY <3>2
    <3>4. /\ n \in {1, 2, 4, 8} /\ VexIntTag(v) = IntTag(v < 0, n)
          /\ IF v >= 0 THEN v <= Span[n] - 1 \/ v <= Span[n] \div 2 - 1
                       ELSE v >= -(Span[n] \div 2)
      BY <2>1, <2>3, <3>3
    <3>5. (v < 0 => v \in Signed(n)) /\ (~(v < 0) => v \in Unsigned(n)) /\ (v < 0) \in BOOLEAN
      BY <1>2, <1>3, <3>4
    <3>6. v \in IF v < 0 THEN Signed(n) ELSE Unsigned(n)
      BY <3>5
    <3>7. QED
      BY <3>4, <3>5, <3>6
  <2>4. QED
    BY <2>2, <2>3
<1>8. QED
  BY <1>6, <1>7

\* A double likewise, whether it is written as four bytes or as eight.
LEMMA DoubleRoundTrip ==
    ASSUME NEW tag \in {F32, F64}, NEW v \in Unsigned(IF tag = F32 THEN 4 ELSE 8)
    PROVE  LET size == IF tag = F32 THEN 4 ELSE 8
               bytes == <<tag>> \o Digits(v, B, size)
           IN  /\ bytes \in Seq(Nat) /\ Len(bytes) = 1 + size /\ bytes[1] = tag
               /\ DecodeDouble(tag, bytes, 1) = Decoded(1 + size, Double(v))
<1> DEFINE size == IF tag = F32 THEN 4 ELSE 8
           bytes == <<tag>> \o Digits(v, B, size)
<1>1. tag \in Nat /\ size \in {1, 2, 4, 8} /\ size \in Nat
  BY DEF F32, F64
<1>2. v \in 0 .. Span[size] - 1 /\ v \in Int
  <2>1. Span[size] \in Nat
    BY <1>1, Sizes
  <2>2. v \in 0 .. Span[size] - 1
    BY DEF Unsigned
  <2>3. QED
    BY <2>1, <2>2
<1> HIDE DEF size
<1>3. /\ bytes \in Seq(Nat) /\ Len(bytes) = 1 + size /\ bytes[1] = tag
      /\ SubSeq(bytes, 1 + 1, 1 + size) = Digits(v, B, size)
  BY <1>1, <1>2, TagAndDigits
<1> HIDE DEF bytes
<1>4. FromDigits(Digits(v, B, size), B) = v
  BY <1>1, <1>2, Sizes, DigitsOfRange
<1>5. DecodeDouble(tag, bytes, 1) =
        IF 1 + size > Len(bytes) THEN Failed(TRUNCATED, 1)
        ELSE Decoded(1 + size, Double(FromDigits(SubSeq(bytes, 1 + 1, 1 + size), B)))
  BY DEF DecodeDouble, size
<1>6. DecodeDouble(tag, bytes, 1) = Decoded(1 + size, Double(v))
  <2>1. ~(1 + size > Len(bytes))
    BY <1>1, <1>3
  <2>2. FromDigits(SubSeq(bytes, 1 + 1, 1 + size), B) = v
    BY <1>3, <1>4
  <2>3. QED
    BY <1>5, <2>1, <2>2
<1>7. QED
  BY <1>3, <1>6 DEF size, bytes

-----------------------------------------------------------------------------
(***************************************************************************)
(* The law of the codec, for one item.                                     *)
(***************************************************************************)
\* What a decoder does with the first tag.
LEMMA DecodeFirst ==
    ASSUME NEW l, NEW s \in Seq(Nat), Len(s) >= 1
    PROVE  /\ s[1] = NULL => Decode(l, s, 0) = Decoded(1, Null)
           /\ s[1] = FALSE_TAG => Decode(l, s, 0) = Decoded(1, Bool(FALSE))
           /\ s[1] = TRUE_TAG => Decode(l, s, 0) = Decoded(1, Bool(TRUE))
           /\ s[1] \in IntTags => Decode(l, s, 0) = DecodeInt(s[1], s, 1)
           /\ s[1] \in {F32, F64} => Decode(l, s, 0) = DecodeDouble(s[1], s, 1)
           /\ s[1] = BYTES => Decode(l, s, 0) = DecodeBlob("bytes", s, 1)
           /\ s[1] = STR => Decode(l, s, 0) = DecodeBlob("str", s, 1)
           /\ s[1] = LIST => Decode(l, s, 0) = DecodeCount("list", s, 1)
           /\ s[1] = MAP => Decode(l, s, 0) = DecodeCount("map", s, 1)
           /\ s[1] = SCHEMA /\ l = "Vex" => Decode(l, s, 0) = DecodeCount("schema", s, 1)
<1> DEFINE tag == s[1]
<1>1. Decode(l, s, 0) =
          CASE tag = NULL                 -> Decoded(1, Null)
            [] tag \in {FALSE_TAG, TRUE_TAG} -> Decoded(1, Bool(tag = TRUE_TAG))
            [] tag \in IntTags            -> DecodeInt(tag, s, 1)
            [] tag \in {F32, F64}         -> DecodeDouble(tag, s, 1)
            [] tag = BYTES                -> DecodeBlob("bytes", s, 1)
            [] tag = STR                  -> DecodeBlob("str", s, 1)
            [] tag = LIST                 -> DecodeCount("list", s, 1)
            [] tag = MAP                  -> DecodeCount("map", s, 1)
            [] tag = SCHEMA /\ l = "Vex"  -> DecodeCount("schema", s, 1)
            [] OTHER                      -> Failed(BADTAG, 1)
  <2>1. ~(0 >= Len(s)) /\ 0 + 1 = 1
    BY LenProperties
  <2>2. QED
    BY <2>1 DEF Decode
<1> HIDE DEF tag
<1>2. tag = NULL => Decode(l, s, 0) = Decoded(1, Null)
  BY <1>1 DEF IntTags, NULL, FALSE_TAG, TRUE_TAG, F32, F64, BYTES, STR, LIST, MAP, SCHEMA
<1>3. tag \in {FALSE_TAG, TRUE_TAG} => Decode(l, s, 0) = Decoded(1, Bool(tag = TRUE_TAG))
  <2>1. tag \in {FALSE_TAG, TRUE_TAG} => tag # NULL
    BY DEF NULL, FALSE_TAG, TRUE_TAG
  <2>2. tag \in {FALSE_TAG, TRUE_TAG} =>
          /\ tag \notin IntTags /\ tag \notin {F32, F64} /\ tag # BYTES /\ tag # STR
          /\ tag # LIST /\ tag # MAP /\ tag # SCHEMA
    BY DEF IntTags, FALSE_TAG, TRUE_TAG, F32, F64, BYTES, STR, LIST, MAP, SCHEMA
  <2>3. QED
    BY <1>1, <2>1, <2>2, SMTT(30)
<1>4. tag \in IntTags => Decode(l, s, 0) = DecodeInt(tag, s, 1)
  <2>1. tag \in IntTags =>
          /\ tag # NULL /\ tag \notin {FALSE_TAG, TRUE_TAG} /\ tag \notin {F32, F64}
          /\ tag # BYTES /\ tag # STR /\ tag # LIST /\ tag # MAP /\ tag # SCHEMA
    BY DEF IntTags, NULL, FALSE_TAG, TRUE_TAG, F32, F64, BYTES, STR, LIST, MAP, SCHEMA
  <2>2. QED
    BY <1>1, <2>1, SMTT(30)
<1>5. tag \in {F32, F64} => Decode(l, s, 0) = DecodeDouble(tag, s, 1)
  BY <1>1 DEF IntTags, NULL, FALSE_TAG, TRUE_TAG, F32, F64, BYTES, STR, LIST, MAP, SCHEMA
<1>6. tag = BYTES => Decode(l, s, 0) = DecodeBlob("bytes", s, 1)
  BY <1>1 DEF IntTags, NULL, FALSE_TAG, TRUE_TAG, F32, F64, BYTES, STR, LIST, MAP, SCHEMA
<1>7. tag = STR => Decode(l, s, 0) = DecodeBlob("str", s, 1)
  BY <1>1 DEF IntTags, NULL, FALSE_TAG, TRUE_TAG, F32, F64, BYTES, STR, LIST, MAP, SCHEMA
<1>8. tag = LIST => Decode(l, s, 0) = DecodeCount("list", s, 1)
  BY <1>1 DEF IntTags, NULL, FALSE_TAG, TRUE_TAG, F32, F64, BYTES, STR, LIST, MAP, SCHEMA
<1>9. tag = MAP => Decode(l, s, 0) = DecodeCount("map", s, 1)
  BY <1>1 DEF IntTags, NULL, FALSE_TAG, TRUE_TAG, F32, F64, BYTES, STR, LIST, MAP, SCHEMA
<1>10. tag = SCHEMA /\ l = "Vex" => Decode(l, s, 0) = DecodeCount("schema", s, 1)
  BY <1>1 DEF IntTags, NULL, FALSE_TAG, TRUE_TAG, F32, F64, BYTES, STR, LIST, MAP, SCHEMA
<1>11. tag = FALSE_TAG => Decode(l, s, 0) = Decoded(1, Bool(FALSE))
  <2>1. tag = FALSE_TAG => (tag = TRUE_TAG) = FALSE
    BY DEF FALSE_TAG, TRUE_TAG
  <2>2. QED
    BY <1>3, <2>1
<1>12. tag = TRUE_TAG => Decode(l, s, 0) = Decoded(1, Bool(TRUE))
  <2>1. tag = TRUE_TAG => (tag = TRUE_TAG) = TRUE
    OBVIOUS
  <2>2. QED
    BY <1>3, <2>1
<1>13. QED
  BY <1>2, <1>4, <1>5, <1>6, <1>7, <1>8, <1>9, <1>10, <1>11, <1>12 DEF tag

\* Items of one byte.
LEMMA TagsComeBack ==
    ASSUME NEW w, NEW r, NEW x, x = Null \/ \E b \in BOOLEAN : x = Bool(b)
    PROVE  ComesBack(w, r, x)
<1> DEFINE tag == IF x = Null THEN NULL ELSE IF x = Bool(TRUE) THEN TRUE_TAG ELSE FALSE_TAG
<1>1. /\ Header(x) = <<tag>> /\ Payload(w, x) = << >> /\ PayloadRoom(x) = 0
      /\ x.t \notin {"bytes", "str"}
  BY DEF Header, Payload, PayloadRoom, Null, Bool
<1>2. tag \in Nat /\ Header(x) \in Seq(Nat) /\ Payload(w, x) \in Seq(Nat) /\ Len(Payload(w, x)) = 0
  BY <1>1 DEF NULL, TRUE_TAG, FALSE_TAG
<1>3. Header(x) \o Payload(w, x) = <<tag>>
  BY <1>1, <1>2, ConcatEmptySeq
<1> DEFINE s == <<tag>>
<1>4. s \in Seq(Nat) /\ Len(s) >= 1 /\ Len(s) = 1 /\ s[1] = tag
  <2>1. ASSUME NEW k \in Nat PROVE <<k>> \in Seq(Nat) /\ Len(<<k>>) = 1 /\ <<k>>[1] = k
    OBVIOUS
  <2>2. tag \in Nat
    BY <1>2
  <2> HIDE DEF tag
  <2>3. QED
    BY <2>1, <2>2
<1> HIDE DEF s
<1>5. Decode(r, s, 0) = Decoded(1, x)
  <2>1. CASE x = Null
    <3>1. s[1] = NULL
      BY <1>4, <2>1
    <3> HIDE DEF tag
    <3>2. QED
      BY <1>4, <2>1, <3>1, DecodeFirst
  <2>2. CASE x = Bool(TRUE)
    <3>1. s[1] = TRUE_TAG
      BY <1>4, <2>2 DEF Null, Bool
    <3> HIDE DEF tag
    <3>2. QED
      BY <1>4, <2>2, <3>1, DecodeFirst
  <2>3. CASE x = Bool(FALSE)
    <3>1. s[1] = FALSE_TAG
      BY <1>4, <2>3 DEF Null, Bool
    <3> HIDE DEF tag
    <3>2. QED
      BY <1>4, <2>3, <3>1, DecodeFirst
  <2>4. QED
    BY <2>1, <2>2, <2>3
<1> HIDE DEF tag
<1>6. QED
  BY <1>1, <1>2, <1>3, <1>4, <1>5 DEF ComesBack, s

\* Items that are written after one test of the room: what is in the payload is all.
LEMMA NumbersComeBack ==
    ASSUME NEW w, NEW r, NEW x, x.t \in {"int", "double"},
           Payload(w, x) \in Seq(Nat), Len(Payload(w, x)) <= 9,
           Decode(r, Payload(w, x), 0) = Decoded(Len(Payload(w, x)), x)
    PROVE  ComesBack(w, r, x)
<1>1. Header(x) = << >> /\ PayloadRoom(x) = 9 /\ x.t \notin {"bytes", "str"}
  BY DEF Header, PayloadRoom
<1>2. << >> \o Payload(w, x) = Payload(w, x) /\ << >> \in Seq(Nat)
  BY ConcatEmptySeq
<1>3. QED
  BY <1>1, <1>2 DEF ComesBack

\* Integers.
LEMMA IntsComeBack ==
    ASSUME NEW w, NEW r, NEW v \in Signed(8)
    PROVE  ComesBack(w, r, Int64(v))
<1> DEFINE x == Int64(v)
           tag == IF w = "C" THEN CIntTag(v) ELSE VexIntTag(v)
<1>1. x.t = "int" /\ Payload(w, x) = IntBytes(tag, v)
  BY DEF Payload, Int64
<1>2. PICK size \in {1, 2, 4, 8}, signed \in BOOLEAN :
        tag = IntTag(signed, size) /\ v \in IF signed THEN Signed(size) ELSE Unsigned(size)
  BY IntTagFits
<1> HIDE DEF x, tag
<1>3. /\ IntBytes(tag, v) \in Seq(Nat) /\ Len(IntBytes(tag, v)) = 1 + size
      /\ IntBytes(tag, v)[1] = tag
      /\ DecodeInt(tag, IntBytes(tag, v), 1) = Decoded(1 + size, Int64(v))
  BY <1>2, IntRoundTrip
<1>4. tag \in IntTags
  BY <1>2, IntTagIs
<1>5. Decode(r, IntBytes(tag, v), 0) = Decoded(1 + size, x)
  <2> DEFINE s == IntBytes(tag, v)
  <2>1. /\ s \in Seq(Nat) /\ Len(s) >= 1 /\ s[1] \in IntTags
        /\ DecodeInt(s[1], s, 1) = Decoded(1 + size, Int64(v))
    BY <1>3, <1>4
  <2> HIDE DEF s
  <2>2. Decode(r, s, 0) = DecodeInt(s[1], s, 1)
    BY <2>1, DecodeFirst
  <2>3. QED
    BY <2>1, <2>2 DEF s, x
<1>6. ComesBack(w, r, x)
  <2>1. /\ Payload(w, x) \in Seq(Nat) /\ Len(Payload(w, x)) <= 9
        /\ Decode(r, Payload(w, x), 0) = Decoded(Len(Payload(w, x)), x)
        /\ x.t \in {"int", "double"}
    BY <1>1, <1>3, <1>5
  <2>2. QED
    BY <2>1, NumbersComeBack
<1>7. QED
  BY <1>6 DEF x

\* Doubles.
LEMMA DoublesComeBack ==
    ASSUME NEW w, NEW r, NEW v \in Unsigned(8)
    PROVE  ComesBack(w, r, Double(v))
<1> DEFINE x == Double(v)
           tag == IF w = "C" /\ v < Span[4] THEN F32 ELSE F64
           size == IF tag = F32 THEN 4 ELSE 8
           bytes == <<tag>> \o Digits(v, B, size)
<1>1. x.t = "double" /\ Payload(w, x) = bytes /\ size \in {1, 2, 4, 8} /\ tag \in {F32, F64}
  BY DEF Payload, Double, F32, F64
<1>2. v \in Unsigned(size)
  BY Sizes DEF Unsigned, F32, F64
<1> HIDE DEF x, tag
<1>3. /\ bytes \in Seq(Nat) /\ Len(bytes) = 1 + size /\ bytes[1] = tag
      /\ DecodeDouble(tag, bytes, 1) = Decoded(1 + size, Double(v))
  BY <1>1, <1>2, DoubleRoundTrip
<1> HIDE DEF bytes, size
<1>4. Decode(r, bytes, 0) = Decoded(1 + size, x)
  <2>1. Len(bytes) >= 1 /\ bytes[1] \in {F32, F64}
    BY <1>1, <1>3
  <2>2. Decode(r, bytes, 0) = DecodeDouble(bytes[1], bytes, 1)
    BY <1>3, <2>1, DecodeFirst
  <2>3. QED
    BY <1>3, <2>2 DEF x
<1>5. ComesBack(w, r, x)
  <2>1. /\ Payload(w, x) \in Seq(Nat) /\ Len(Payload(w, x)) <= 9
        /\ Decode(r, Payload(w, x), 0) = Decoded(Len(Payload(w, x)), x)
        /\ x.t \in {"int", "double"}
    BY <1>1, <1>3, <1>4
  <2>2. QED
    BY <1>1, <2>1, NumbersComeBack
<1>6. QED
  BY <1>5 DEF x

\* The tags of items that begin with a number.
LEMMA HeaderTags ==
    ASSUME NEW t \in {"bytes", "str", "list", "map", "schema"}
    PROVE  HeaderTag(t) \in Nat
BY DEF HeaderTag, BYTES, STR, LIST, MAP, SCHEMA

\* The header of such an item, and its number as the decoder reads it.
LEMMA HeaderRead ==
    ASSUME NEW tag \in Nat, NEW n \in 0 .. W - 1, NEW rest \in Seq(Nat)
    PROVE  LET head == <<tag>> \o Varint(n)
           IN  /\ head \in Seq(Nat) /\ Len(head) \in Nat /\ Len(head) >= 1
               /\ head \o rest \in Seq(Nat) /\ Len(head \o rest) = Len(head) + Len(rest)
               /\ (head \o rest)[1] = tag
               /\ SubSeq(head \o rest, Len(head) + 1, Len(head) + Len(rest)) = rest
               /\ ReadVarint(head \o rest, 1) = [st |-> OK, pos |-> Len(head), n |-> n]
<1> DEFINE h == <<tag>>
           d == Varint(n)
           head == h \o d
<1>1. h \in Seq(Nat) /\ Len(h) = 1 /\ h[1] = tag
  OBVIOUS
<1>2. d \in Seq(Nat) /\ Len(d) \in Nat
  BY VarintIs, LenProperties
<1> HIDE DEF h, d
<1>3. head \in Seq(Nat) /\ Len(head) = 1 + Len(d) /\ head[1] = tag
  <2>1. /\ head \in Seq(Nat) /\ Len(head) = Len(h) + Len(d)
        /\ \A i \in 1 .. Len(h) + Len(d) : head[i] = IF i <= Len(h) THEN h[i] ELSE d[i - Len(h)]
    BY <1>1, <1>2, ConcatProperties
  <2>2. 1 \in 1 .. Len(h) + Len(d) /\ 1 <= Len(h)
    BY <1>1, <1>2
  <2>3. head[1] = h[1]
    BY <2>1, <2>2
  <2>4. QED
    BY <1>1, <2>1, <2>3
<1>4. ReadVarint(head \o rest, 1) = [st |-> OK, pos |-> 1 + Len(d), n |-> n]
  BY VarintRoundTrip DEF h, d
<1> HIDE DEF head
<1>5. /\ head \o rest \in Seq(Nat) /\ Len(head \o rest) = Len(head) + Len(rest)
      /\ SubSeq(head \o rest, Len(head) + 1, Len(head) + Len(rest)) = rest
  BY <1>3, SecondPart
<1>6. (head \o rest)[1] = tag
  <2>1. \A i \in 1 .. Len(head) + Len(rest) :
          (head \o rest)[i] = IF i <= Len(head) THEN head[i] ELSE rest[i - Len(head)]
    BY <1>3, ConcatProperties
  <2>2. 1 \in 1 .. Len(head) + Len(rest) /\ 1 <= Len(head)
    BY <1>2, <1>3, LenProperties
  <2>3. QED
    BY <1>3, <2>1, <2>2
<1>7. Len(head) \in Nat /\ Len(head) >= 1
  BY <1>2, <1>3
<1>8. QED
  BY <1>3, <1>4, <1>5, <1>6, <1>7 DEF head, h, d

\* Headers of lists, maps and schemas; the last only for a Vex decoder.
LEMMA CountsComeBack ==
    ASSUME NEW w, NEW r, NEW t \in {"list", "map", "schema"}, NEW n \in 0 .. W - 1,
           t = "schema" => r = "Vex"
    PROVE  ComesBack(w, r, Count(t, n))
<1> DEFINE x == Count(t, n)
           tag == HeaderTag(t)
           head == <<tag>> \o Varint(n)
<1>1. /\ x.t = t /\ Header(x) = head /\ Payload(w, x) = << >> /\ PayloadRoom(x) = 0
      /\ x.t \notin {"bytes", "str"}
  BY DEF Header, Payload, PayloadRoom, Count
<1>2. tag \in Nat /\ << >> \in Seq(Nat) /\ Len(<< >>) = 0
  BY HeaderTags
<1>3. /\ head \in Seq(Nat) /\ Len(head) \in Nat /\ Len(head) >= 1
      /\ (head \o << >>)[1] = tag
      /\ ReadVarint(head \o << >>, 1) = [st |-> OK, pos |-> Len(head), n |-> n]
  <2> HIDE DEF tag
  <2>1. QED
    BY <1>2, HeaderRead
<1> HIDE DEF x, head
<1>4. head \o << >> = head
  BY <1>3, ConcatEmptySeq
<1>5. head[1] = tag /\ ReadVarint(head, 1) = [st |-> OK, pos |-> Len(head), n |-> n]
  BY <1>3, <1>4
<1>6. DecodeCount(t, head, 1) = Decoded(Len(head), x)
  BY <1>5 DEF DecodeCount, x
<1>7. Decode(r, head, 0) = DecodeCount(t, head, 1)
  BY <1>3, <1>5, DecodeFirst DEF HeaderTag
<1>8. QED
  BY <1>1, <1>2, <1>3, <1>4, <1>6, <1>7 DEF ComesBack, x

\* Bytes and strings: the end of the bytes is computed in a word.
LEMMA BlobsComeBack ==
    ASSUME NEW w, NEW r, NEW t \in {"bytes", "str"}, NEW s \in Seq(Nat), Len(s) < W,
           Len(<<HeaderTag(t)>> \o Varint(Len(s))) + Len(s) < W
    PROVE  ComesBack(w, r, Blob(t, s))
<1> DEFINE x == Blob(t, s)
           tag == HeaderTag(t)
           n == Len(s)
           head == <<tag>> \o Varint(n)
           bytes == head \o s
<1>1. /\ x.t = t /\ x.s = s /\ Header(x) = head /\ Payload(w, x) = s /\ PayloadRoom(x) = n
  BY DEF Header, Payload, PayloadRoom, Blob
<1>2. tag \in Nat /\ n \in Nat /\ n \in 0 .. W - 1 /\ W \in Nat
  BY HeaderTags, LenProperties, Sizes
<1>3. /\ head \in Seq(Nat) /\ Len(head) \in Nat /\ Len(head) >= 1
      /\ bytes \in Seq(Nat) /\ Len(bytes) = Len(head) + n /\ bytes[1] = tag
      /\ SubSeq(bytes, Len(head) + 1, Len(head) + n) = s
      /\ ReadVarint(bytes, 1) = [st |-> OK, pos |-> Len(head), n |-> n]
  <2>1. s \in Seq(Nat)
    OBVIOUS
  <2> HIDE DEF tag
  <2>2. QED
    BY <1>2, HeaderRead
<1>4. (Len(head) + n) % W = Len(head) + n
  <2>1. Len(head) + n \in Nat /\ Len(head) + n < W
    BY <1>2, <1>3
  <2> HIDE DEF head, n
  <2>2. QED
    BY <1>2, <2>1
<1> HIDE DEF x, bytes, head, n
<1>5. DecodeBlob(t, bytes, 1) = Decoded(Len(bytes), x)
  <2> DEFINE v == ReadVarint(bytes, 1)
             end == (v.pos + v.n) % W
  <2>1. v.st = OK /\ v.pos = Len(head) /\ end = Len(bytes)
    BY <1>3, <1>4
  <2>2. DecodeBlob(t, bytes, 1) =
          CASE v.st # OK                      -> Failed(v.st, v.pos)
            [] v.st = OK /\ end > Len(bytes) -> Failed(TRUNCATED, v.pos)
            [] OTHER -> Decoded(end, Blob(t, SubSeq(bytes, v.pos + 1, end)))
    BY DEF DecodeBlob
  <2> HIDE DEF v
  <2>3. ~(end > Len(bytes))
    BY <1>2, <1>3, <2>1
  <2>4. DecodeBlob(t, bytes, 1) = Decoded(Len(bytes), Blob(t, SubSeq(bytes, Len(head) + 1, Len(bytes))))
    BY <2>1, <2>2, <2>3
  <2>5. QED
    BY <1>3, <2>4 DEF x
<1>6. Decode(r, bytes, 0) = DecodeBlob(t, bytes, 1)
  <2>1. Len(bytes) >= 1
    BY <1>2, <1>3
  <2>2. QED
    BY <1>3, <2>1, DecodeFirst DEF HeaderTag
<1>7. QED
  BY <1>1, <1>2, <1>3, <1>5, <1>6 DEF ComesBack, x, bytes, n

-----------------------------------------------------------------------------
\* Any item the encoders take, from either implementation to either that can read
\* it, comes back as it was, whatever its number, its length and its bytes, and
\* however wide bytes and words are.
LEMMA ItemsComeBack ==
    ASSUME NEW e \in Ends, NEW x \in Items, EncodableAt(e, x)
    PROVE  ComesBack(e.writer, e.reader, x)
<1>1. x \in ApiItems /\ Len(Header(x)) + PayloadRoom(x) < W
  BY ItemAssumption
<1>2. ASSUME x = Null \/ x \in [t : {"bool"}, b : BOOLEAN]
      PROVE  x = Null \/ \E b \in BOOLEAN : x = Bool(b)
  BY <1>2 DEF Bool
<1>3. CASE x = Null \/ x \in [t : {"bool"}, b : BOOLEAN]
  BY <1>2, <1>3, TagsComeBack
<1>4. CASE x \in [t : {"int"}, v : Signed(8)]
  <2>1. PICK v \in Signed(8) : x = Int64(v)
    BY <1>4 DEF Int64
  <2>2. QED
    BY <2>1, IntsComeBack
<1>5. CASE x \in [t : {"double"}, v : Unsigned(8)]
  <2>1. PICK v \in Unsigned(8) : x = Double(v)
    BY <1>5 DEF Double
  <2>2. QED
    BY <2>1, DoublesComeBack
<1>6. CASE x \in {y \in [t : {"bytes", "str"}, s : Seq(0 .. B - 1)] : Len(y.s) < W}
  <2>1. PICK t \in {"bytes", "str"}, s \in Seq(0 .. B - 1) : x = Blob(t, s) /\ Len(s) < W
    BY <1>6 DEF Blob
  <2>2. s \in Seq(Nat)
    <3>1. Len(s) \in Nat /\ \A i \in 1 .. Len(s) : s[i] \in 0 .. B - 1
      BY LenProperties, ElementOfSeq
    <3>2. \A i \in 1 .. Len(s) : s[i] \in Nat
      BY <3>1, Sizes
    <3>3. s = [i \in 1 .. Len(s) |-> s[i]]
      BY LenProperties
    <3>4. [i \in 1 .. Len(s) |-> s[i]] \in Seq(Nat)
      BY <3>1, <3>2
    <3>5. QED
      BY <3>3, <3>4
  <2>3. Header(x) = <<HeaderTag(t)>> \o Varint(Len(s)) /\ PayloadRoom(x) = Len(s)
    BY <2>1 DEF Header, PayloadRoom, Blob
  <2>4. QED
    BY <1>1, <2>1, <2>2, <2>3, BlobsComeBack
<1>7. CASE x \in [t : {"list", "map", "schema"}, n : 0 .. W - 1]
  <2>1. PICK t \in {"list", "map", "schema"}, n \in 0 .. W - 1 : x = Count(t, n)
    BY <1>7 DEF Count
  <2>2. t = "schema" => e.reader = "Vex"
    BY <2>1, EndsAssumption DEF EncodableAt, Count
  <2>3. QED
    BY <2>1, <2>2, CountsComeBack
<1>8. QED
  BY <1>1, <1>3, <1>4, <1>5, <1>6, <1>7 DEF ApiItems

-----------------------------------------------------------------------------
(***************************************************************************)
(* The decoder is local: what it makes of an item does not depend on where *)
(* the item's bytes are or on what follows them.                           *)
(***************************************************************************)

\* s reads as b does from position p on, as far as it goes; and b ends at a
\* position that a word can hold.
AgreesAt(s, p, b) ==
    /\ s \in Seq(Nat) /\ b \in Seq(Nat) /\ p \in Nat
    /\ p + Len(b) < W
    /\ \A j \in 1 .. Len(b) : p + j <= Len(s) => s[p + j] = b[j]

\* The bytes b have all arrived.
Whole(s, p, b) == p + Len(b) <= Len(s)

\* The groups from position p on that end a varint.
EndsOf(s, p) == {k \in 1 .. MaxGroups : p + k <= Len(s) /\ s[p + k] < G}

\* A varint has a bounded number of groups.
LEMMA GroupsType == MaxGroups \in Nat /\ W \in Nat /\ G \in Nat
BY SizeFits, Sizes

\* What a varint is when it has been read.
LEMMA VarintRead ==
    ASSUME NEW b \in Seq(Nat), NEW q \in Nat, NEW c, NEW n,
           ReadVarint(b, q) = [st |-> OK, pos |-> c, n |-> n]
    PROVE  /\ EndsOf(b, q) # {}
           /\ c = q + Min(EndsOf(b, q))
           /\ n = FromDigits([i \in 1 .. Min(EndsOf(b, q)) |-> b[q + i] % G], G) % W
<1> DEFINE groups == {k \in 1 .. MaxGroups : q + k <= Len(b)}
<1>1. EndsOf(b, q) = {k \in groups : b[q + k] < G}
  BY DEF EndsOf
<1>2. EndsOf(b, q) # {}
  BY <1>1 DEF ReadVarint, OK, OVERFLOW, TRUNCATED
<1>3. QED
  BY <1>1, <1>2 DEF ReadVarint

\* Reading at q in b leaves the cursor at c with the number n: so does reading s
\* there, or it reports a cut when the varint has not arrived.
VarintAt(s, p, q, c, n) ==
    ReadVarint(s, p + q) = IF p + c <= Len(s) THEN [st |-> OK, pos |-> p + c, n |-> n]
                                              ELSE [st |-> TRUNCATED, pos |-> Len(s), n |-> 0]

\* A varint is read the same wherever it is.
LEMMA VarintLocal ==
    ASSUME NEW s, NEW p, NEW b, AgreesAt(s, p, b), NEW q \in Nat, NEW c, NEW n,
           ReadVarint(b, q) = [st |-> OK, pos |-> c, n |-> n]
    PROVE  c \in q + 1 .. Len(b) /\ VarintAt(s, p, q, c, n)
<1> DEFINE k0 == Min(EndsOf(b, q))
<1>0. /\ s \in Seq(Nat) /\ b \in Seq(Nat) /\ p \in Nat /\ Len(s) \in Nat /\ Len(b) \in Nat
      /\ \A j \in 1 .. Len(b) : p + j <= Len(s) => s[p + j] = b[j]
  BY LenProperties DEF AgreesAt
<1>1. /\ EndsOf(b, q) # {} /\ c = q + k0
      /\ n = FromDigits([i \in 1 .. k0 |-> b[q + i] % G], G) % W
  BY <1>0, VarintRead
<1>2. k0 \in EndsOf(b, q) /\ \A y \in EndsOf(b, q) : k0 <= y
  <2>1. EndsOf(b, q) \in SUBSET (1 .. MaxGroups)
    BY DEF EndsOf
  <2>2. QED
    BY <1>1, <2>1, MinIsThere, GroupsType
<1>3. k0 \in Nat /\ k0 \in 1 .. MaxGroups /\ q + k0 <= Len(b) /\ b[q + k0] < G
  BY <1>2, GroupsType DEF EndsOf
<1> HIDE DEF k0
<1>4. \A y \in EndsOf(s, p + q) : k0 <= y
  <2> SUFFICES ASSUME NEW y \in EndsOf(s, p + q), y < k0
               PROVE  FALSE
    BY <1>3, GroupsType DEF EndsOf
  <2>1. y \in 1 .. MaxGroups /\ y \in Nat /\ p + q + y <= Len(s) /\ s[p + q + y] < G
    BY GroupsType DEF EndsOf
  <2>2. q + y \in 1 .. Len(b) /\ p + (q + y) = p + q + y
    BY <1>0, <1>3, <2>1
  <2>3. b[q + y] < G
    BY <1>0, <2>1, <2>2
  <2>4. y \in EndsOf(b, q)
    BY <1>0, <2>1, <2>2, <2>3 DEF EndsOf
  <2>5. QED
    BY <1>2, <1>3, <2>1, <2>4
<1> DEFINE groups == {k \in 1 .. MaxGroups : p + q + k <= Len(s)}
<1>5. EndsOf(s, p + q) = {k \in groups : s[p + q + k] < G}
  BY DEF EndsOf
<1>6. CASE p + c <= Len(s)
  <2>1. q + k0 \in 1 .. Len(b) /\ p + (q + k0) = p + q + k0 /\ p + q + k0 <= Len(s)
    BY <1>0, <1>1, <1>3, <1>6
  <2>2. s[p + q + k0] < G
    BY <1>0, <1>3, <2>1
  <2>3. k0 \in EndsOf(s, p + q)
    BY <1>3, <2>1, <2>2 DEF EndsOf
  <2>4. Min(EndsOf(s, p + q)) = k0
    <3>1. \A y \in EndsOf(s, p + q) : y \in Int
      BY GroupsType DEF EndsOf
    <3>2. \A z \in EndsOf(s, p + q) : (\A y \in EndsOf(s, p + q) : z <= y) => z = k0
      BY <2>3, <1>4, <1>3, <3>1
    <3>3. QED
      BY <2>3, <1>4, <3>2 DEF Min
  <2>5. [i \in 1 .. k0 |-> s[p + q + i] % G] = [i \in 1 .. k0 |-> b[q + i] % G]
    <3>1. ASSUME NEW i \in 1 .. k0 PROVE s[p + q + i] = b[q + i]
      <4>1. q + i \in 1 .. Len(b) /\ p + (q + i) = p + q + i /\ p + q + i <= Len(s)
        BY <1>0, <1>3, <2>1
      <4>2. QED
        BY <4>1, <1>0
    <3>2. QED
      BY <3>1
  <2>6. ReadVarint(s, p + q) =
          [st |-> OK, pos |-> p + q + k0,
           n |-> FromDigits([i \in 1 .. k0 |-> s[p + q + i] % G], G) % W]
    BY <1>5, <2>3, <2>4 DEF ReadVarint
  <2>7. p + q + k0 = p + c
    BY <1>0, <1>1, <1>3
  <2>8. FromDigits([i \in 1 .. k0 |-> s[p + q + i] % G], G) % W = n
    BY <1>1, <2>5
  <2>9. ReadVarint(s, p + q) = [st |-> OK, pos |-> p + c, n |-> n]
    BY <2>6, <2>7, <2>8
  <2>10. QED
    BY <1>0, <1>1, <1>3, <1>6, <2>9 DEF VarintAt
<1>7. CASE ~(p + c <= Len(s))
  <2>1. \A k \in groups : k < k0
    BY <1>0, <1>1, <1>3, <1>7, GroupsType
  <2>2. EndsOf(s, p + q) = {}
    <3>1. \A k \in EndsOf(s, p + q) : k \in groups
      BY <1>5
    <3>2. \A k \in EndsOf(s, p + q) : k \in Int
      BY GroupsType DEF EndsOf
    <3>3. QED
      BY <1>3, <1>4, <2>1, <3>1, <3>2
  <2>3. groups # 1 .. MaxGroups
    BY <1>3, <2>1
  <2>4. ReadVarint(s, p + q) = [st |-> TRUNCATED, pos |-> Len(s), n |-> 0]
    BY <1>5, <2>2, <2>3 DEF ReadVarint
  <2>5. QED
    BY <1>7, <2>4, <1>1, <1>0, <1>3 DEF VarintAt
<1>8. QED
  BY <1>0, <1>1, <1>3, <1>6, <1>7

\* So is a piece of the bytes.
PieceAt(s, p, b, c, d) == SubSeq(s, p + c + 1, p + d) = SubSeq(b, c + 1, d)

\* A piece of the bytes that have arrived is that of the item's own bytes.
LEMMA PieceLocal ==
    ASSUME NEW s, NEW p, NEW b, AgreesAt(s, p, b),
           NEW c \in Nat, NEW d \in Nat, d <= Len(b), p + d <= Len(s)
    PROVE  PieceAt(s, p, b, c, d)
<1>0. /\ s \in Seq(Nat) /\ b \in Seq(Nat) /\ p \in Nat /\ Len(s) \in Nat /\ Len(b) \in Nat
      /\ \A j \in 1 .. Len(b) : p + j <= Len(s) => s[p + j] = b[j]
  BY LenProperties DEF AgreesAt
<1> DEFINE u == SubSeq(s, p + c + 1, p + d)
           v == SubSeq(b, c + 1, d)
<1>1. /\ \A i \in p + c + 1 .. p + d : s[i] \in Nat
      /\ \A i \in c + 1 .. d : b[i] \in Nat
  <2>1. \A i \in p + c + 1 .. p + d : i \in 1 .. Len(s)
    BY <1>0
  <2>2. \A i \in c + 1 .. d : i \in 1 .. Len(b)
    BY <1>0
  <2>3. QED
    BY <1>0, <2>1, <2>2, ElementOfSeq
<1>2. /\ u \in Seq(Nat)
      /\ Len(u) = IF p + c + 1 <= p + d THEN (p + d) - (p + c + 1) + 1 ELSE 0
      /\ \A i \in 1 .. (p + d) - (p + c + 1) + 1 : u[i] = s[(p + c + 1) + i - 1]
  <2>1. p + c + 1 \in Int /\ p + d \in Int
    BY <1>0
  <2>2. QED
    BY <2>1, <1>1, SubSeqProperties
<1>3. /\ v \in Seq(Nat)
      /\ Len(v) = IF c + 1 <= d THEN d - (c + 1) + 1 ELSE 0
      /\ \A i \in 1 .. d - (c + 1) + 1 : v[i] = b[(c + 1) + i - 1]
  <2>1. c + 1 \in Int /\ d \in Int
    OBVIOUS
  <2>2. QED
    BY <2>1, <1>1, SubSeqProperties
<1> HIDE DEF u, v
<1>4. Len(u) = Len(v)
  BY <1>0, <1>2, <1>3
<1>5. ASSUME NEW i \in 1 .. Len(u) PROVE u[i] = v[i]
  <2>1. /\ c < d /\ i \in Nat /\ i \in 1 .. d - c
        /\ i \in 1 .. (p + d) - (p + c + 1) + 1 /\ i \in 1 .. d - (c + 1) + 1
        /\ (p + c + 1) + i - 1 = p + (c + i) /\ (c + 1) + i - 1 = c + i
        /\ c + i \in 1 .. Len(b) /\ p + (c + i) <= Len(s)
    BY <1>0, <1>2
  <2>2. u[i] = s[p + (c + i)] /\ v[i] = b[c + i]
    BY <1>2, <1>3, <2>1
  <2>3. QED
    BY <1>0, <2>1, <2>2
<1>6. u = v
  BY <1>2, <1>3, <1>4, <1>5, SeqEqual
<1>7. QED
  BY <1>6 DEF u, v, PieceAt

\* What a decoder that makes x of the bytes b makes of s: the same when all the
\* bytes are there, and otherwise TRUNCATED with the cursor inside s.
SameAt(r, s, p, b, x) ==
    IF Whole(s, p, b) THEN r = Decoded(p + Len(b), x)
                      ELSE r.st = TRUNCATED /\ r.pos \in p .. Len(s)

\* The width of an integer.
LEMMA IntSizes == ASSUME NEW tag \in IntTags PROVE IntSize(tag) \in Nat
<1> DEFINE e == (tag - 3) % 4
<1>1. e \in 0 .. 3
  BY DEF IntTags
<1> HIDE DEF e
<1>2. e = 0 \/ e = 1 \/ e = 2 \/ e = 3
  BY <1>1
<1>3. 2^0 = 1 /\ 2^1 = 2 /\ 2^2 = 4 /\ 2^3 = 8
  OBVIOUS
<1>4. 2^e \in {1, 2, 4, 8}
  BY <1>2, <1>3, Zenon
<1>5. QED
  BY <1>4 DEF IntSize, e

\* Integers, after their tag.
LEMMA IntLocal ==
    ASSUME NEW s, NEW p, NEW b, AgreesAt(s, p, b), p < Len(s), NEW x,
           NEW tag \in IntTags, DecodeInt(tag, b, 1) = Decoded(Len(b), x)
    PROVE  SameAt(DecodeInt(tag, s, p + 1), s, p, b, x)
<1> DEFINE size == IntSize(tag)
           Value(u) == Int64(IF IsSigned(tag) /\ u >= Span[size] \div 2 THEN u - Span[size] ELSE u)
<1>0. p \in Nat /\ Len(s) \in Nat /\ Len(b) \in Nat /\ size \in Nat
  BY LenProperties, IntSizes DEF AgreesAt
<1> HIDE DEF size
<1>1. /\ 1 + size = Len(b)
      /\ x = Value(FromDigits(SubSeq(b, 1 + 1, 1 + size), B))
  BY <1>0 DEF DecodeInt, Decoded, Failed, OK, TRUNCATED, size
<1>2. CASE p + Len(b) <= Len(s)
  <2>1. SubSeq(s, p + 1 + 1, p + (1 + size)) = SubSeq(b, 1 + 1, 1 + size)
    <3>1. 1 \in Nat /\ 1 + size \in Nat /\ 1 + size <= Len(b) /\ p + (1 + size) <= Len(s)
      BY <1>0, <1>1, <1>2
    <3>2. PICK c \in Nat, d \in Nat : c = 1 /\ d = 1 + size
      BY <3>1
    <3>3. d <= Len(b) /\ p + d <= Len(s)
      BY <3>1, <3>2
    <3>4. PieceAt(s, p, b, c, d)
      BY <3>3, PieceLocal
    <3>5. QED
      BY <3>2, <3>4 DEF PieceAt
  <2>2. p + (1 + size) = p + 1 + size /\ ~(p + 1 + size > Len(s)) /\ p + 1 + size = p + Len(b)
    BY <1>0, <1>1, <1>2
  <2>3. DecodeInt(tag, s, p + 1) =
          Decoded(p + 1 + size, Value(FromDigits(SubSeq(s, p + 1 + 1, p + 1 + size), B)))
    BY <2>2 DEF DecodeInt, size
  <2>4. QED
    BY <1>1, <1>2, <2>1, <2>2, <2>3 DEF SameAt, Whole
<1>3. CASE ~(p + Len(b) <= Len(s))
  <2>1. p + 1 + size > Len(s) /\ p + 1 \in p .. Len(s)
    BY <1>0, <1>1, <1>3
  <2>2. DecodeInt(tag, s, p + 1) = Failed(TRUNCATED, p + 1)
    BY <2>1 DEF DecodeInt, size
  <2>3. QED
    BY <1>3, <2>1, <2>2 DEF SameAt, Whole, Failed
<1>4. QED
  BY <1>2, <1>3

\* Doubles, after their tag.
LEMMA DoubleLocal ==
    ASSUME NEW s, NEW p, NEW b, AgreesAt(s, p, b), p < Len(s), NEW x,
           NEW tag, DecodeDouble(tag, b, 1) = Decoded(Len(b), x)
    PROVE  SameAt(DecodeDouble(tag, s, p + 1), s, p, b, x)
<1> DEFINE size == IF tag = F32 THEN 4 ELSE 8
<1>0. p \in Nat /\ Len(s) \in Nat /\ Len(b) \in Nat /\ size \in Nat
  BY LenProperties DEF AgreesAt
<1> HIDE DEF size
<1>1. /\ 1 + size = Len(b)
      /\ x = Double(FromDigits(SubSeq(b, 1 + 1, 1 + size), B))
  <2>1. DecodeDouble(tag, b, 1) =
          IF 1 + size > Len(b) THEN Failed(TRUNCATED, 1)
          ELSE Decoded(1 + size, Double(FromDigits(SubSeq(b, 1 + 1, 1 + size), B)))
    BY DEF DecodeDouble, size
  <2>2. QED
    BY <1>0, <2>1 DEF Decoded, Failed, OK, TRUNCATED
<1>2. CASE p + Len(b) <= Len(s)
  <2>1. SubSeq(s, p + 1 + 1, p + (1 + size)) = SubSeq(b, 1 + 1, 1 + size)
    <3>1. 1 \in Nat /\ 1 + size \in Nat /\ 1 + size <= Len(b) /\ p + (1 + size) <= Len(s)
      BY <1>0, <1>1, <1>2
    <3>2. PICK c \in Nat, d \in Nat : c = 1 /\ d = 1 + size
      BY <3>1
    <3>3. d <= Len(b) /\ p + d <= Len(s)
      BY <3>1, <3>2
    <3>4. PieceAt(s, p, b, c, d)
      BY <3>3, PieceLocal
    <3>5. QED
      BY <3>2, <3>4 DEF PieceAt
  <2>2. p + (1 + size) = p + 1 + size /\ ~(p + 1 + size > Len(s)) /\ p + 1 + size = p + Len(b)
    BY <1>0, <1>1, <1>2
  <2>3. DecodeDouble(tag, s, p + 1) =
          Decoded(p + 1 + size, Double(FromDigits(SubSeq(s, p + 1 + 1, p + 1 + size), B)))
    BY <2>2 DEF DecodeDouble, size
  <2>4. QED
    BY <1>1, <1>2, <2>1, <2>2, <2>3 DEF SameAt, Whole
<1>3. CASE ~(p + Len(b) <= Len(s))
  <2>1. p + 1 + size > Len(s) /\ p + 1 \in p .. Len(s)
    BY <1>0, <1>1, <1>3
  <2>2. DecodeDouble(tag, s, p + 1) = Failed(TRUNCATED, p + 1)
    BY <2>1 DEF DecodeDouble, size
  <2>3. QED
    BY <1>3, <2>1, <2>2 DEF SameAt, Whole, Failed
<1>4. QED
  BY <1>2, <1>3

\* What reading a varint returns is a record of three fields.
LEMMA VarintRecord ==
    ASSUME NEW s, NEW p
    PROVE  ReadVarint(s, p) = [st |-> ReadVarint(s, p).st, pos |-> ReadVarint(s, p).pos,
                               n |-> ReadVarint(s, p).n]
<1> DEFINE groups == {k \in 1 .. MaxGroups : p + k <= Len(s)}
           e == {k \in groups : s[p + k] < G}
<1>1. CASE e # {}
  BY <1>1 DEF ReadVarint
<1>2. CASE e = {} /\ groups = 1 .. MaxGroups
  BY <1>2 DEF ReadVarint
<1>3. CASE e = {} /\ groups # 1 .. MaxGroups
  BY <1>3 DEF ReadVarint
<1>4. QED
  BY <1>1, <1>2, <1>3

\* A number below the modulus is its own remainder.
LEMMA SmallRemainder ==
    ASSUME NEW x \in Nat, NEW w \in Nat, x < w
    PROVE  x % w = x
OBVIOUS

\* Counts, after their tag.
LEMMA CountLocal ==
    ASSUME NEW s, NEW p, NEW b, AgreesAt(s, p, b), p < Len(s), NEW x,
           NEW t, DecodeCount(t, b, 1) = Decoded(Len(b), x)
    PROVE  SameAt(DecodeCount(t, s, p + 1), s, p, b, x)
<1>0. p \in Nat /\ Len(s) \in Nat /\ Len(b) \in Nat /\ 1 \in Nat
  BY LenProperties DEF AgreesAt
<1> DEFINE c == ReadVarint(b, 1).pos
           n == ReadVarint(b, 1).n
           r == ReadVarint(s, p + 1)
<1>1. ReadVarint(b, 1).st = OK /\ c = Len(b) /\ x = Count(t, n)
  BY DEF DecodeCount, Decoded, Failed
<1>2. ReadVarint(b, 1) = [st |-> OK, pos |-> c, n |-> n]
  <2>1. ReadVarint(b, 1) = [st |-> ReadVarint(b, 1).st, pos |-> ReadVarint(b, 1).pos,
                            n |-> ReadVarint(b, 1).n]
    BY VarintRecord
  <2>2. QED
    BY <1>1, <2>1
<1> HIDE DEF c, n
<1>3. VarintAt(s, p, 1, c, n)
  BY <1>0, <1>2, VarintLocal
<1>4. r = IF p + c <= Len(s) THEN [st |-> OK, pos |-> p + c, n |-> n]
                             ELSE [st |-> TRUNCATED, pos |-> Len(s), n |-> 0]
  BY <1>3 DEF VarintAt
<1>5. DecodeCount(t, s, p + 1) = IF r.st # OK THEN Failed(r.st, r.pos)
                                              ELSE Decoded(r.pos, Count(t, r.n))
  BY DEF DecodeCount
<1> HIDE DEF r
<1>6. CASE p + Len(b) <= Len(s)
  BY <1>1, <1>4, <1>5, <1>6 DEF SameAt, Whole
<1>7. CASE ~(p + Len(b) <= Len(s))
  BY <1>0, <1>1, <1>4, <1>5, <1>7 DEF SameAt, Whole, Failed, OK, TRUNCATED
<1>8. QED
  BY <1>6, <1>7

\* Strings, after their tag, when the number before them is their length.
LEMMA BlobLocal ==
    ASSUME NEW s, NEW p, NEW b, AgreesAt(s, p, b), p < Len(s), NEW x,
           NEW t, DecodeBlob(t, b, 1) = Decoded(Len(b), x),
           NEW c, NEW n \in Nat, c + n = Len(b),
           ReadVarint(b, 1) = [st |-> OK, pos |-> c, n |-> n]
    PROVE  SameAt(DecodeBlob(t, s, p + 1), s, p, b, x)
<1>0. /\ p \in Nat /\ Len(s) \in Nat /\ Len(b) \in Nat /\ 1 \in Nat /\ W \in Nat
      /\ p + Len(b) < W
  BY LenProperties, WordAssumption DEF AgreesAt
<1>1. c \in 1 + 1 .. Len(b) /\ VarintAt(s, p, 1, c, n)
  BY <1>0, VarintLocal
<1>2. c \in Nat /\ (c + n) % W = Len(b) /\ (p + c + n) % W = p + Len(b)
  <2>1. p + c + n = p + Len(b) /\ p + Len(b) \in Nat /\ Len(b) < W
    BY <1>0, <1>1
  <2>2. Len(b) % W = Len(b)
    BY <1>0, <2>1, SmallRemainder
  <2>3. (p + Len(b)) % W = p + Len(b)
    BY <1>0, <2>1, SmallRemainder
  <2>4. c \in Nat
    BY <1>1, <1>0
  <2>5. QED
    BY <2>1, <2>2, <2>3, <2>4
<1>3. x = Blob(t, SubSeq(b, c + 1, Len(b)))
  <2> DEFINE rb == ReadVarint(b, 1)
             endb == (rb.pos + rb.n) % W
  <2>1. DecodeBlob(t, b, 1) =
          CASE rb.st # OK                   -> Failed(rb.st, rb.pos)
            [] rb.st = OK /\ endb > Len(b) -> Failed(TRUNCATED, rb.pos)
            [] OTHER -> Decoded(endb, Blob(t, SubSeq(b, rb.pos + 1, endb)))
    BY DEF DecodeBlob
  <2>2. rb.st = OK /\ rb.pos = c /\ rb.n = n
    OBVIOUS
  <2> HIDE DEF rb
  <2>3. endb = Len(b) /\ ~(endb > Len(b))
    BY <1>0, <1>2, <2>2
  <2>4. DecodeBlob(t, b, 1) = Decoded(Len(b), Blob(t, SubSeq(b, c + 1, Len(b))))
    BY <2>1, <2>2, <2>3
  <2>5. QED
    BY <2>4 DEF Decoded
<1> DEFINE r == ReadVarint(s, p + 1)
<1>4. r = IF p + c <= Len(s) THEN [st |-> OK, pos |-> p + c, n |-> n]
                             ELSE [st |-> TRUNCATED, pos |-> Len(s), n |-> 0]
  BY <1>1 DEF VarintAt
<1> DEFINE end == (r.pos + r.n) % W
<1>5. DecodeBlob(t, s, p + 1) =
        CASE r.st # OK                  -> Failed(r.st, r.pos)
          [] r.st = OK /\ end > Len(s) -> Failed(TRUNCATED, r.pos)
          [] OTHER -> Decoded(end, Blob(t, SubSeq(s, r.pos + 1, end)))
  BY DEF DecodeBlob
<1> HIDE DEF r
<1>6. CASE p + Len(b) <= Len(s)
  <2>0. p + c <= Len(s)
    BY <1>0, <1>1, <1>6
  <2>1. r.st = OK /\ r.pos = p + c /\ end = p + Len(b)
    BY <1>2, <1>4, <2>0
  <2>2. DecodeBlob(t, s, p + 1) =
          Decoded(p + Len(b), Blob(t, SubSeq(s, p + c + 1, p + Len(b))))
    BY <1>0, <1>5, <1>6, <2>1
  <2>3. PieceAt(s, p, b, c, Len(b))
    BY <1>0, <1>2, <1>6, PieceLocal
  <2>4. QED
    BY <1>3, <1>6, <2>2, <2>3 DEF SameAt, Whole, PieceAt
<1>7. CASE ~(p + Len(b) <= Len(s)) /\ p + c <= Len(s)
  <2>1. r.st = OK /\ r.pos = p + c /\ end = p + Len(b)
    BY <1>0, <1>1, <1>2, <1>4, <1>7
  <2>2. DecodeBlob(t, s, p + 1) = Failed(TRUNCATED, p + c)
    BY <1>0, <1>5, <1>7, <2>1
  <2>3. QED
    <3>1. /\ DecodeBlob(t, s, p + 1).st = TRUNCATED
          /\ DecodeBlob(t, s, p + 1).pos = p + c
      BY <2>2 DEF Failed
    <3>2. p + c \in p .. Len(s)
      BY <1>0, <1>2, <1>7
    <3>3. QED
      BY <1>7, <3>1, <3>2 DEF SameAt, Whole
<1>8. CASE ~(p + Len(b) <= Len(s)) /\ ~(p + c <= Len(s))
  <2>1. r.st = TRUNCATED /\ r.pos = Len(s)
    BY <1>4, <1>8
  <2>2. DecodeBlob(t, s, p + 1) = Failed(TRUNCATED, Len(s))
    BY <1>5, <2>1 DEF OK, TRUNCATED
  <2>3. QED
    BY <1>0, <1>8, <2>2 DEF SameAt, Whole, Failed
<1>9. QED
  BY <1>6, <1>7, <1>8

\* The number before the bytes of a string is their length.
LengthBefore(b, x) ==
    x.t \in {"bytes", "str"} =>
        \E c, n \in Nat : c + n = Len(b) /\ ReadVarint(b, 1) = [st |-> OK, pos |-> c, n |-> n]

\* A call of a decoder, at an item's first byte.
LEMMA DecodeLocal ==
    ASSUME NEW l, NEW s, NEW p, NEW b, AgreesAt(s, p, b), p <= Len(s), NEW x,
           Decode(l, b, 0) = Decoded(Len(b), x), LengthBefore(b, x)
    PROVE  SameAt(Decode(l, s, p), s, p, b, x)
<1>0. /\ p \in Nat /\ Len(s) \in Nat /\ Len(b) \in Nat
      /\ \A j \in 1 .. Len(b) : p + j <= Len(s) => s[p + j] = b[j]
  BY LenProperties DEF AgreesAt
<1>1. Len(b) >= 1
  <2>1. ASSUME 0 >= Len(b) PROVE Decode(l, b, 0) = Failed(TRUNCATED, 0)
    BY <2>1 DEF Decode
  <2>2. QED
    BY <1>0, <2>1 DEF Decoded, Failed, OK, TRUNCATED
<1>2. CASE p >= Len(s)
  <2>1. Decode(l, s, p) = Failed(TRUNCATED, p)
    BY <1>2 DEF Decode
  <2>2. QED
    BY <1>0, <1>1, <1>2, <2>1 DEF SameAt, Whole, Failed
<1>3. CASE ~(p >= Len(s))
  <2> DEFINE tag == b[1]
  <2>0. p < Len(s) /\ s[p + 1] = tag
    BY <1>0, <1>1, <1>3
  <2> DEFINE At(u, q) ==
          CASE tag = NULL                 -> Decoded(q, Null)
            [] tag \in {FALSE_TAG, TRUE_TAG} -> Decoded(q, Bool(tag = TRUE_TAG))
            [] tag \in IntTags            -> DecodeInt(tag, u, q)
            [] tag \in {F32, F64}         -> DecodeDouble(tag, u, q)
            [] tag = BYTES                -> DecodeBlob("bytes", u, q)
            [] tag = STR                  -> DecodeBlob("str", u, q)
            [] tag = LIST                 -> DecodeCount("list", u, q)
            [] tag = MAP                  -> DecodeCount("map", u, q)
            [] tag = SCHEMA /\ l = "Vex"  -> DecodeCount("schema", u, q)
            [] OTHER                      -> Failed(BADTAG, q)
  <2>1. Decode(l, b, 0) = At(b, 1)
    <3>1. ~(0 >= Len(b)) /\ 0 + 1 = 1
      BY <1>0, <1>1
    <3>2. QED
      BY <3>1 DEF Decode
  <2>2. Decode(l, s, p) = At(s, p + 1)
    BY <1>3, <2>0 DEF Decode
  <2> HIDE DEF tag
  <2>3. CASE tag = NULL \/ tag \in {FALSE_TAG, TRUE_TAG}
    <3> DEFINE y == IF tag = NULL THEN Null ELSE Bool(tag = TRUE_TAG)
    <3>a. At(b, 1) = Decoded(1, y) /\ At(s, p + 1) = Decoded(p + 1, y)
      <4>1. CASE tag = NULL
        BY <4>1 DEF IntTags, NULL, FALSE_TAG, TRUE_TAG, F32, F64, BYTES, STR, LIST, MAP, SCHEMA
      <4>2. CASE tag \in {FALSE_TAG, TRUE_TAG}
        <5>1. tag # NULL
          BY <4>2 DEF NULL, FALSE_TAG, TRUE_TAG
        <5>2. /\ At(b, 1) = Decoded(1, Bool(tag = TRUE_TAG))
              /\ At(s, p + 1) = Decoded(p + 1, Bool(tag = TRUE_TAG))
          <6>1. ~(tag \in IntTags) /\ ~(tag \in {F32, F64}) /\ tag # BYTES /\ tag # STR
                /\ tag # LIST /\ tag # MAP /\ tag # SCHEMA
            BY <4>2 DEF IntTags, NULL, FALSE_TAG, TRUE_TAG, F32, F64, BYTES, STR, LIST, MAP, SCHEMA
          <6>2. QED
            BY <4>2, <5>1, <6>1, SMTT(30)
        <5>3. QED
          BY <5>1, <5>2
      <4>3. QED
        BY <2>3, <4>1, <4>2
    <3> HIDE DEF y, At
    <3>b. Len(b) = 1 /\ x = y
      BY <2>1, <3>a DEF Decoded
    <3>1. Len(b) = 1 /\ At(s, p + 1) = Decoded(p + 1, x)
      BY <3>a, <3>b
    <3>2. p + Len(b) <= Len(s) /\ p + Len(b) = p + 1
      BY <1>0, <2>0, <3>1
    <3>3. QED
      BY <2>2, <3>1, <3>2 DEF SameAt, Whole
  <2>4. CASE tag \in IntTags
    <3>1. tag # NULL /\ tag \notin {FALSE_TAG, TRUE_TAG}
      BY <2>4 DEF IntTags, NULL, FALSE_TAG, TRUE_TAG
    <3>2. DecodeInt(tag, b, 1) = Decoded(Len(b), x) /\ Decode(l, s, p) = DecodeInt(tag, s, p + 1)
      BY <2>1, <2>2, <2>4, <3>1 DEF IntTags, NULL, FALSE_TAG, TRUE_TAG, F32, F64, BYTES, STR, LIST, MAP, SCHEMA
    <3>3. QED
      BY <2>0, <2>4, <3>2, IntLocal
  <2> DEFINE Small == tag = NULL \/ tag \in {FALSE_TAG, TRUE_TAG} \/ tag \in IntTags
  <2>5. CASE tag \in {F32, F64}
    <3>1. ~Small
      BY <2>5 DEF IntTags, NULL, FALSE_TAG, TRUE_TAG, F32, F64
    <3>2. /\ DecodeDouble(tag, b, 1) = Decoded(Len(b), x)
          /\ Decode(l, s, p) = DecodeDouble(tag, s, p + 1)
      BY <2>1, <2>2, <2>5, <3>1 DEF IntTags, NULL, FALSE_TAG, TRUE_TAG, F32, F64, BYTES, STR, LIST, MAP, SCHEMA
    <3>3. QED
      BY <2>0, <3>2, DoubleLocal
  <2>6. ASSUME tag = BYTES \/ tag = STR PROVE SameAt(Decode(l, s, p), s, p, b, x)
    <3>1. PICK t : t = IF tag = BYTES THEN "bytes" ELSE "str"
      OBVIOUS
    <3>2. ~Small /\ tag \notin {F32, F64} /\ BYTES # STR
      BY <2>6 DEF IntTags, NULL, FALSE_TAG, TRUE_TAG, F32, F64, BYTES, STR
    <3>3. /\ DecodeBlob(t, b, 1) = Decoded(Len(b), x)
          /\ Decode(l, s, p) = DecodeBlob(t, s, p + 1)
      BY <2>1, <2>2, <2>6, <3>1, <3>2 DEF IntTags, NULL, FALSE_TAG, TRUE_TAG, F32, F64, BYTES, STR, LIST, MAP, SCHEMA
    <3>4. x.t = t
      BY <3>3 DEF DecodeBlob, Decoded, Failed, Blob, OK, TRUNCATED
    <3>5. PICK c \in Nat, n \in Nat : c + n = Len(b) /\ ReadVarint(b, 1) = [st |-> OK, pos |-> c, n |-> n]
      BY <3>1, <3>4 DEF LengthBefore
    <3>6. QED
      BY <2>0, <3>3, <3>5, BlobLocal
  <2>7. ASSUME tag = LIST \/ tag = MAP \/ (tag = SCHEMA /\ l = "Vex")
        PROVE SameAt(Decode(l, s, p), s, p, b, x)
    <3>1. PICK t : t = IF tag = LIST THEN "list" ELSE IF tag = MAP THEN "map" ELSE "schema"
      OBVIOUS
    <3>2. /\ ~Small /\ tag \notin {F32, F64} /\ tag \notin {BYTES, STR}
          /\ LIST # MAP /\ LIST # SCHEMA /\ MAP # SCHEMA
      BY <2>7 DEF IntTags, NULL, FALSE_TAG, TRUE_TAG, F32, F64, BYTES, STR, LIST, MAP, SCHEMA
    <3>3. /\ DecodeCount(t, b, 1) = Decoded(Len(b), x)
          /\ Decode(l, s, p) = DecodeCount(t, s, p + 1)
      BY <2>1, <2>2, <2>7, <3>1, <3>2
    <3>4. QED
      BY <2>0, <3>3, CountLocal
  <2>8. CASE /\ ~Small /\ tag \notin {F32, F64} /\ ~(tag = BYTES \/ tag = STR)
             /\ ~(tag = LIST \/ tag = MAP \/ (tag = SCHEMA /\ l = "Vex"))
    <3>1. At(b, 1) = Failed(BADTAG, 1)
      BY <2>8
    <3>2. QED
      BY <2>1, <3>1 DEF Failed, Decoded, OK, BADTAG
  <2>9. QED
    BY <2>3, <2>4, <2>5, <2>6, <2>7, <2>8
<1>4. QED
  BY <1>2, <1>3

-----------------------------------------------------------------------------
(***************************************************************************)
(* The inductive invariant: there are offsets that cut the bytes of the    *)
(* finished calls into the items that were sent, and the reader stands at  *)
(* one of them whenever it is not in the middle of a retry.                *)
(***************************************************************************)
BytesOf(x) == Header(x) \o Payload(ends.writer, x)

\* The bytes of finished calls.
Finished == IF wst = OK THEN Len(buf) ELSE mark

SentType == [item : Items, size : Nat]

StreamTypes ==
    /\ ends \in Ends
    /\ buf \in Seq(Nat) /\ Len(buf) <= Cap
    /\ mark \in 0 .. Len(buf)
    /\ wst \in {OK, OVERFLOW}
    /\ sent \in Seq(SentType)
    /\ seen \in 0 .. Finished
    /\ rpos \in 0 .. seen /\ rmark \in 0 .. rpos
    /\ rst \in {OK, TRUNCATED}
    /\ got \in Seq(Items)

\* The i-th item's bytes are those from off[i - 1] to off[i].
ItemAt(off, i) ==
    /\ Encodable(sent[i].item)
    /\ sent[i].size = Len(BytesOf(sent[i].item))
    /\ off[i] = off[i - 1] + sent[i].size
    /\ \A j \in 1 .. sent[i].size : buf[off[i - 1] + j] = BytesOf(sent[i].item)[j]

Placed(off) ==
    /\ off \in [0 .. Len(sent) -> Nat]
    /\ off[0] = 0 /\ off[Len(sent)] = Finished
    /\ \A i \in 0 .. Len(sent) : off[i] <= Finished
    /\ \A i \in 1 .. Len(sent) : ItemAt(off, i)

Received(off) ==
    /\ Len(got) <= Len(sent)
    /\ \A i \in 1 .. Len(got) : got[i] = sent[i].item
    /\ rst = OK => rpos = off[Len(got)]
    /\ rst = TRUNCATED => rmark = off[Len(got)]

StreamInv == StreamTypes /\ \E off : Placed(off) /\ Received(off)

\* What the law of the codec says of one item.
LEMMA ItemLaw ==
    ASSUME NEW e \in Ends, NEW x \in Items, EncodableAt(e, x),
           NEW b, b = Header(x) \o Payload(e.writer, x)
    PROVE  /\ Header(x) \in Seq(Nat) /\ Payload(e.writer, x) \in Seq(Nat) /\ b \in Seq(Nat)
           /\ Len(b) = Len(Header(x)) + Len(Payload(e.writer, x))
           /\ Len(b) <= Len(Header(x)) + PayloadRoom(x) /\ PayloadRoom(x) \in Nat
           /\ Decode(e.reader, b, 0) = Decoded(Len(b), x)
           /\ LengthBefore(b, x)
<1> DEFINE h == Header(x)
           y == Payload(e.writer, x)
<1>1. /\ h \in Seq(Nat) /\ y \in Seq(Nat)
      /\ Len(y) <= PayloadRoom(x) /\ PayloadRoom(x) \in Nat
      /\ Decode(e.reader, b, 0) = Decoded(Len(b), x)
      /\ x.t \in {"bytes", "str"} =>
            ReadVarint(b, 1) = [st |-> OK, pos |-> Len(h), n |-> Len(x.s)]
  BY ItemsComeBack DEF ComesBack
<1>2. x.t \in {"bytes", "str"} => y = x.s
  <2>1. ASSUME x.t \in {"bytes", "str"} PROVE x.t # "int" /\ x.t # "double"
    BY <2>1
  <2>2. QED
    BY <2>1 DEF Payload
<1> HIDE DEF h, y
<1>3. /\ b \in Seq(Nat) /\ Len(b) = Len(h) + Len(y)
      /\ Len(h) \in Nat /\ Len(y) \in Nat
  <2>1. b = h \o y
    BY DEF h, y
  <2>2. QED
    BY <1>1, <2>1, ConcatProperties, LenProperties
<1>4. LengthBefore(b, x)
  BY <1>1, <1>2, <1>3 DEF LengthBefore
<1>5. QED
  BY <1>1, <1>3, <1>4 DEF h, y

\* What an encoder call with `room' bytes left does.
LEMMA EncodedIs ==
    ASSUME NEW e \in Ends, NEW x \in Items, EncodableAt(e, x),
           NEW room \in Nat, NEW r, r = Encoded(e.writer, x, room)
    PROVE  /\ r.st \in {OK, OVERFLOW} /\ r.bytes \in Seq(Nat) /\ Len(r.bytes) <= room
           /\ r.st = OK => r.bytes = Header(x) \o Payload(e.writer, x)
<1> DEFINE h == Header(x)
           b == Header(x) \o Payload(e.writer, x)
<1>1. /\ h \in Seq(Nat) /\ b \in Seq(Nat) /\ Len(h) \in Nat /\ Len(b) \in Nat
      /\ Len(b) <= Len(h) + PayloadRoom(x) /\ PayloadRoom(x) \in Nat
  BY ItemLaw, LenProperties
<1>2. r = IF Len(h) + PayloadRoom(x) <= room
          THEN [st |-> OK, bytes |-> b]
          ELSE [st |-> OVERFLOW, bytes |-> SubSeq(h, 1, Min({room, Len(h)}))]
  BY DEF Encoded
<1> HIDE DEF h, b
<1>3. CASE Len(h) + PayloadRoom(x) <= room
  BY <1>1, <1>2, <1>3 DEF b
<1>4. CASE ~(Len(h) + PayloadRoom(x) <= room)
  <2>1. PICK m : m = Min({room, Len(h)})
    OBVIOUS
  <2>2. m \in 0 .. Len(h) /\ m <= room
    <3>1. CASE room <= Len(h)
      <4>1. \A z \in {room, Len(h)} : (\A w \in {room, Len(h)} : z <= w) => z = room
        BY <1>1, <3>1
      <4>2. m = room
        BY <1>1, <2>1, <3>1, <4>1 DEF Min
      <4>3. QED
        BY <1>1, <3>1, <4>2
    <3>2. CASE Len(h) <= room
      <4>1. \A z \in {room, Len(h)} : (\A w \in {room, Len(h)} : z <= w) => z = Len(h)
        BY <1>1, <3>2
      <4>2. m = Len(h)
        BY <1>1, <2>1, <3>2, <4>1 DEF Min
      <4>3. QED
        BY <1>1, <3>2, <4>2
    <3>3. QED
      BY <1>1, <3>1, <3>2
  <2>3. \A i \in 1 .. m : h[i] \in Nat
    BY <1>1, <2>2, ElementOfSeq
  <2>4. /\ SubSeq(h, 1, m) \in Seq(Nat)
        /\ Len(SubSeq(h, 1, m)) = IF 1 <= m THEN m - 1 + 1 ELSE 0
    BY <2>2, <2>3, SubSeqProperties
  <2>5. r = [st |-> OVERFLOW, bytes |-> SubSeq(h, 1, m)]
    BY <1>2, <1>4, <2>1
  <2>6. QED
    BY <1>1, <2>2, <2>4, <2>5 DEF OK, OVERFLOW
<1>5. QED
  BY <1>3, <1>4

\* The empty stream.
LEMMA StreamInit == Init => StreamInv
<1> SUFFICES ASSUME Init
             PROVE  StreamInv
  OBVIOUS
<1>1. Len(buf) = 0 /\ Len(sent) = 0 /\ Len(got) = 0
  BY EmptySeq DEF Init
<1>2. StreamTypes
  BY <1>1, CapAssumption, EmptySeq DEF Init, StreamTypes, Finished
<1>3. PICK off : off = [i \in 0 .. 0 |-> 0]
  OBVIOUS
<1>4. Placed(off)
  BY <1>1, <1>3 DEF Placed, Finished, Init
<1>5. Received(off)
  BY <1>1, <1>3 DEF Received, Init
<1>6. QED
  BY <1>2, <1>4, <1>5 DEF StreamInv

\* Items stay where they are when the bytes of finished calls do.
LEMMA ItemsKept ==
    ASSUME StreamTypes, NEW off, Placed(off), NEW g, ends' = ends,
           NEW i \in 1 .. Len(sent), sent'[i] = sent[i], g[i] = off[i], g[i - 1] = off[i - 1],
           \A k \in 1 .. Finished : buf'[k] = buf[k]
    PROVE  ItemAt(g, i)'
<1>1. /\ ItemAt(off, i) /\ off[i - 1] \in Nat /\ off[i] <= Finished /\ Finished \in Nat
      /\ sent[i].size \in Nat
  <2>1. i - 1 \in 0 .. Len(sent) /\ i \in 0 .. Len(sent)
    BY LenProperties DEF StreamTypes
  <2>2. Finished \in Nat
    BY LenProperties DEF StreamTypes, Finished
  <2>3. sent[i] \in SentType
    BY ElementOfSeq DEF StreamTypes
  <2>4. QED
    BY <2>1, <2>2, <2>3 DEF Placed, SentType
<1>2. \A j \in 1 .. sent[i].size : off[i - 1] + j \in 1 .. Finished
  BY <1>1 DEF ItemAt
<1>3. /\ Encodable(sent[i].item)' /\ BytesOf(sent[i].item)' = BytesOf(sent[i].item)
  BY <1>1 DEF ItemAt, Encodable, EncodableAt, BytesOf
<1>4. QED
  BY <1>1, <1>2, <1>3 DEF ItemAt

\* What a call of an encoder does to the bytes, and that they still fit.
LEMMA EncodeBytes ==
    ASSUME StreamTypes, NEW x \in Items, Encode(x),
           NEW r, r = Encoded(ends.writer, x, Cap - Len(buf))
    PROVE  /\ r.st \in {OK, OVERFLOW} /\ r.bytes \in Seq(Nat)
           /\ r.st = OK => r.bytes = BytesOf(x)
           /\ buf' \in Seq(Nat) /\ Len(buf') = Len(buf) + Len(r.bytes) /\ Len(buf') <= Cap
           /\ \A k \in 1 .. Len(buf) : buf'[k] = buf[k]
           /\ \A j \in 1 .. Len(r.bytes) : buf'[Len(buf) + j] = r.bytes[j]
<1>0. /\ ends \in Ends /\ EncodableAt(ends, x) /\ buf \in Seq(Nat)
      /\ Len(buf) \in Nat /\ Cap \in Nat /\ Len(buf) <= Cap
      /\ buf' = buf \o r.bytes
  BY CapAssumption, LenProperties DEF StreamTypes, Encode, Encodable
<1>1. Cap - Len(buf) \in Nat
  BY <1>0
<1>2. /\ r.st \in {OK, OVERFLOW} /\ r.bytes \in Seq(Nat) /\ Len(r.bytes) <= Cap - Len(buf)
      /\ r.st = OK => r.bytes = Header(x) \o Payload(ends.writer, x)
  BY <1>0, <1>1, EncodedIs
<1>3. PICK y : y = r.bytes
  OBVIOUS
<1>4. /\ y \in Seq(Nat) /\ Len(y) \in Nat /\ buf' = buf \o y
  BY <1>0, <1>2, <1>3, LenProperties
<1>5. /\ buf' \in Seq(Nat) /\ Len(buf') = Len(buf) + Len(y)
      /\ \A i \in 1 .. Len(buf) + Len(y) :
            buf'[i] = IF i <= Len(buf) THEN buf[i] ELSE y[i - Len(buf)]
  <2>1. /\ buf \o y \in Seq(Nat) /\ Len(buf \o y) = Len(buf) + Len(y)
        /\ \A i \in 1 .. Len(buf) + Len(y) :
              (buf \o y)[i] = IF i <= Len(buf) THEN buf[i] ELSE y[i - Len(buf)]
    BY <1>0, <1>4, ConcatProperties
  <2>2. PICK z : z = buf \o y
    OBVIOUS
  <2>3. /\ z \in Seq(Nat) /\ Len(z) = Len(buf) + Len(y)
        /\ \A i \in 1 .. Len(buf) + Len(y) :
              z[i] = IF i <= Len(buf) THEN buf[i] ELSE y[i - Len(buf)]
    BY <2>1, <2>2
  <2>4. buf' = z
    BY <1>4, <2>2
  <2>5. QED
    BY <2>3, <2>4
<1>6. \A k \in 1 .. Len(buf) : buf'[k] = buf[k]
  BY <1>0, <1>4, <1>5
<1>7. \A j \in 1 .. Len(y) : buf'[Len(buf) + j] = y[j]
  <2>1. \A j \in 1 .. Len(y) : /\ Len(buf) + j \in 1 .. Len(buf) + Len(y)
                                /\ ~(Len(buf) + j <= Len(buf)) /\ (Len(buf) + j) - Len(buf) = j
    BY <1>0, <1>4
  <2>2. QED
    BY <1>5, <2>1
<1>8. QED
  BY <1>0, <1>2, <1>3, <1>4, <1>5, <1>6, <1>7 DEF BytesOf

\* A call of an encoder.
LEMMA EncodeStep ==
    ASSUME StreamInv, NEW x \in Items, Encode(x)
    PROVE  StreamInv'
<1>0. StreamTypes
  BY DEF StreamInv
<1>1. PICK off : Placed(off) /\ Received(off)
  BY DEF StreamInv
<1>2. PICK r : r = Encoded(ends.writer, x, Cap - Len(buf))
  OBVIOUS
<1>3. /\ r.st \in {OK, OVERFLOW} /\ r.bytes \in Seq(Nat)
      /\ r.st = OK => r.bytes = BytesOf(x)
      /\ buf' \in Seq(Nat) /\ Len(buf') = Len(buf) + Len(r.bytes) /\ Len(buf') <= Cap
      /\ \A k \in 1 .. Len(buf) : buf'[k] = buf[k]
      /\ \A j \in 1 .. Len(r.bytes) : buf'[Len(buf) + j] = r.bytes[j]
  BY <1>0, <1>2, EncodeBytes
<1>4. /\ wst = OK /\ Encodable(x) /\ mark' = Len(buf) /\ wst' = r.st
      /\ sent' = IF r.st = OK THEN Append(sent, [item |-> x, size |-> Len(r.bytes)]) ELSE sent
      /\ ends' = ends /\ seen' = seen
      /\ rpos' = rpos /\ rmark' = rmark /\ rst' = rst /\ got' = got
  BY <1>2 DEF Encode, rvars
<1>5. /\ Finished = Len(buf) /\ Len(buf) \in Nat /\ Len(buf') \in Nat /\ Len(r.bytes) \in Nat
      /\ Len(sent) \in Nat /\ Len(got) \in Nat
  BY <1>0, <1>3, <1>4, LenProperties DEF Finished, StreamTypes
<1>6. Finished' = IF r.st = OK THEN Len(buf') ELSE Len(buf)
  BY <1>4 DEF Finished
<1>7. \A k \in 1 .. Finished : buf'[k] = buf[k]
  BY <1>3, <1>5
<1>8. CASE r.st = OK
  <2>1. PICK y : y = [item |-> x, size |-> Len(r.bytes)]
    OBVIOUS
  <2>2. y \in SentType /\ sent \in Seq(SentType)
    BY <1>0, <1>5, <2>1 DEF SentType, StreamTypes
  <2>3. /\ sent' \in Seq(SentType) /\ Len(sent') = Len(sent) + 1
        /\ \A i \in 1 .. Len(sent) : sent'[i] = sent[i]
        /\ sent'[Len(sent) + 1] = y
    BY <1>4, <1>8, <2>1, <2>2, AppendProperties
  <2>4. PICK g : g = [i \in 0 .. Len(sent) + 1 |-> IF i <= Len(sent) THEN off[i] ELSE Len(buf')]
    OBVIOUS
  <2>5. /\ g \in [0 .. Len(sent) + 1 -> Nat] /\ g[Len(sent) + 1] = Len(buf')
        /\ \A i \in 0 .. Len(sent) : g[i] = off[i] /\ off[i] \in Nat /\ off[i] <= Finished
    <3>1. \A i \in 0 .. Len(sent) : off[i] \in Nat /\ off[i] <= Finished
      BY <1>1 DEF Placed
    <3>2. \A i \in 0 .. Len(sent) : i \in 0 .. Len(sent) + 1 /\ i <= Len(sent)
      BY <1>5
    <3>3. \A i \in 0 .. Len(sent) : g[i] = off[i]
      BY <2>4, <3>2
    <3>4. Len(sent) + 1 \in 0 .. Len(sent) + 1 /\ ~(Len(sent) + 1 <= Len(sent))
      BY <1>5
    <3>5. g[Len(sent) + 1] = Len(buf')
      BY <2>4, <3>4
    <3>6. g \in [0 .. Len(sent) + 1 -> Nat]
      BY <1>5, <2>4, <3>1
    <3>7. QED
      BY <3>1, <3>3, <3>5, <3>6
  <2>6. StreamTypes'
    BY <1>0, <1>3, <1>4, <1>5, <1>6, <1>8, <2>3 DEF StreamTypes
  <2>7. ASSUME NEW i \in 1 .. Len(sent) PROVE ItemAt(g, i)'
    <3>1. i \in 0 .. Len(sent) /\ i - 1 \in 0 .. Len(sent)
      BY <1>5
    <3>2. sent'[i] = sent[i] /\ g[i] = off[i] /\ g[i - 1] = off[i - 1]
      BY <2>3, <2>5, <3>1
    <3>3. QED
      BY <1>0, <1>1, <1>4, <1>7, <3>2, ItemsKept
  <2>k. PICK k : k = Len(sent) + 1
    OBVIOUS
  <2>8. ItemAt(g, k)'
    <3>2. k - 1 = Len(sent) /\ g[k] = Len(buf') /\ g[k - 1] = Len(buf)
      <4>1. Len(sent) \in 0 .. Len(sent) /\ off[Len(sent)] = Len(buf)
        BY <1>1, <1>5 DEF Placed
      <4>2. QED
        BY <1>5, <2>5, <2>k, <4>1
    <3>3. /\ sent'[k] = y /\ y.item = x /\ y.size = Len(r.bytes)
          /\ BytesOf(x)' = r.bytes /\ Encodable(x)'
      BY <1>3, <1>4, <1>8, <2>1, <2>3, <2>k DEF BytesOf, Encodable, EncodableAt
    <3>4. g[k] = g[k - 1] + Len(r.bytes)
      BY <1>3, <3>2
    <3>5. \A j \in 1 .. Len(r.bytes) : buf'[g[k - 1] + j] = r.bytes[j]
      BY <1>3, <3>2
    <3>6. /\ Encodable(sent[k].item)' /\ BytesOf(sent[k].item)' = r.bytes
          /\ sent'[k].size = Len(r.bytes)
      BY <3>3 DEF BytesOf, Encodable, EncodableAt
    <3>7. QED
      BY <3>4, <3>5, <3>6 DEF ItemAt
  <2>9. Placed(g)'
    <3>1. ASSUME NEW i \in 0 .. Len(sent) + 1 PROVE g[i] <= Len(buf')
      <4>1. i \in 0 .. Len(sent) \/ i = Len(sent) + 1
        BY <1>5
      <4>2. CASE i \in 0 .. Len(sent)
        <5>1. g[i] \in Nat /\ g[i] <= Len(buf)
          BY <1>5, <2>5, <4>2
        <5>2. Len(buf) <= Len(buf')
          BY <1>3, <1>5
        <5>3. QED
          BY <1>5, <5>1, <5>2
      <4>3. CASE i = Len(sent) + 1
        BY <1>5, <2>5, <4>3
      <4>4. QED
        BY <4>1, <4>2, <4>3
    <3>2. ASSUME NEW i \in 1 .. Len(sent) + 1 PROVE ItemAt(g, i)'
      <4>1. i \in 1 .. Len(sent) \/ i = k
        BY <1>5, <2>k
      <4>2. CASE i = k
        <5>1. ItemAt(g, k)'
          BY <2>8
        <5>2. QED
          BY <4>2, <5>1
      <4>3. QED
        BY <2>7, <4>1, <4>2
    <3>3. g[0] = 0
      BY <1>1, <1>5, <2>5 DEF Placed
    <3>4. QED
      BY <1>6, <1>8, <2>3, <2>5, <3>1, <3>2, <3>3 DEF Placed
  <2>10. Received(g)'
    <3>1. \A i \in 1 .. Len(got) : i \in 1 .. Len(sent)
      BY <1>1, <1>5 DEF Received
    <3>2. g[Len(got)] = off[Len(got)]
      BY <1>1, <1>5, <2>5 DEF Received
    <3>3. QED
      BY <1>1, <1>4, <1>5, <2>3, <3>1, <3>2 DEF Received
  <2>11. QED
    BY <2>6, <2>9, <2>10 DEF StreamInv
<1>9. CASE r.st # OK
  <2>1. wst' = OVERFLOW /\ sent' = sent /\ Finished' = Finished
    BY <1>3, <1>4, <1>5, <1>6, <1>9
  <2>2. StreamTypes'
    BY <1>0, <1>3, <1>4, <1>5, <2>1 DEF StreamTypes
  <2>3. ASSUME NEW i \in 1 .. Len(sent) PROVE ItemAt(off, i)'
    BY <1>0, <1>1, <1>4, <1>7, <2>1, ItemsKept
  <2>4. Placed(off)'
    BY <1>1, <2>1, <2>3 DEF Placed
  <2>5. Received(off)'
    BY <1>1, <1>4, <2>1 DEF Received
  <2>6. QED
    BY <2>2, <2>4, <2>5 DEF StreamInv
<1>10. QED
  BY <1>8, <1>9

\* A step that changes neither the bytes of finished calls nor the items.
LEMMA QuietStep ==
    ASSUME StreamInv, StreamTypes', ends' = ends, sent' = sent, Finished' = Finished,
           \A k \in 1 .. Finished : buf'[k] = buf[k],
           \A off : Received(off) => Received(off)'
    PROVE  StreamInv'
<1>0. StreamTypes
  BY DEF StreamInv
<1>1. PICK off : Placed(off) /\ Received(off)
  BY DEF StreamInv
<1>2. ASSUME NEW i \in 1 .. Len(sent) PROVE ItemAt(off, i)'
  BY <1>0, <1>1, ItemsKept
<1>3. Placed(off)'
  BY <1>1, <1>2 DEF Placed
<1>4. QED
  BY <1>1, <1>3 DEF StreamInv

\* The writer takes back what a failed call has written.
LEMMA RewindStep == ASSUME StreamInv, Rewind PROVE StreamInv'
<1>0. StreamTypes
  BY DEF StreamInv
<1>1. /\ wst # OK /\ wst' = OK /\ buf' = SubSeq(buf, 1, mark) /\ mark' = mark
      /\ ends' = ends /\ sent' = sent /\ seen' = seen
      /\ rpos' = rpos /\ rmark' = rmark /\ rst' = rst /\ got' = got
  BY DEF Rewind, rvars
<1>2. /\ buf \in Seq(Nat) /\ Len(buf) \in Nat /\ mark \in 0 .. Len(buf) /\ mark \in Int
      /\ Cap \in Nat /\ Len(buf) <= Cap
  BY <1>0, LenProperties, CapAssumption DEF StreamTypes
<1>3. \A i \in 1 .. mark : buf[i] \in Nat
  BY <1>2, ElementOfSeq
<1>4. /\ SubSeq(buf, 1, mark) \in Seq(Nat)
      /\ Len(SubSeq(buf, 1, mark)) = IF 1 <= mark THEN mark - 1 + 1 ELSE 0
      /\ \A i \in 1 .. mark - 1 + 1 : SubSeq(buf, 1, mark)[i] = buf[1 + i - 1]
  BY <1>2, <1>3, SubSeqProperties
<1>5. /\ buf' \in Seq(Nat) /\ Len(buf') = mark
      /\ \A i \in 1 .. mark : buf'[i] = buf[i]
  <2>1. \A i \in 1 .. mark : i \in 1 .. mark - 1 + 1 /\ 1 + i - 1 = i
    BY <1>2
  <2>2. QED
    BY <1>1, <1>2, <1>4, <2>1
<1>6. Finished = mark /\ Finished' = mark
  BY <1>1, <1>5 DEF Finished
<1>7. StreamTypes'
  BY <1>0, <1>1, <1>2, <1>5, <1>6 DEF StreamTypes
<1>8. \A off : Received(off) => Received(off)'
  BY <1>1 DEF Received
<1>9. QED
  BY <1>1, <1>5, <1>6, <1>7, <1>8, QuietStep

\* Bytes of finished calls arrive.
LEMMA DeliverStep == ASSUME StreamInv, Deliver PROVE StreamInv'
<1>0. StreamTypes
  BY DEF StreamInv
<1>1. /\ buf' = buf /\ wst' = wst /\ mark' = mark /\ ends' = ends /\ sent' = sent
      /\ seen' \in seen + 1 .. Finished
      /\ rpos' = rpos /\ rmark' = rmark /\ rst' = rst /\ got' = got
  BY DEF Deliver, wvars, rvars, Finished
<1>2. Finished' = Finished /\ Finished \in Nat
  BY <1>0, <1>1, LenProperties DEF Finished, StreamTypes
<1>3. StreamTypes'
  BY <1>0, <1>1, <1>2 DEF StreamTypes
<1>4. \A off : Received(off) => Received(off)'
  BY <1>1 DEF Received
<1>5. QED
  BY <1>1, <1>2, <1>3, <1>4, QuietStep

\* The reader goes back to where the cut call began.
LEMMA RetryStep == ASSUME StreamInv, Retry PROVE StreamInv'
<1>0. StreamTypes
  BY DEF StreamInv
<1>1. /\ buf' = buf /\ wst' = wst /\ mark' = mark /\ ends' = ends /\ sent' = sent /\ seen' = seen
      /\ rst = TRUNCATED /\ rst' = OK /\ rpos' = rmark /\ rmark' = rmark /\ got' = got
  BY DEF Retry, wvars
<1>2. Finished' = Finished
  BY <1>1 DEF Finished
<1>3. StreamTypes'
  BY <1>0, <1>1, <1>2 DEF StreamTypes
<1>4. \A off : Received(off) => Received(off)'
  BY <1>1 DEF Received, OK, TRUNCATED
<1>5. QED
  BY <1>1, <1>2, <1>3, <1>4, QuietStep

\* Where a decoder call begins, and what it makes of the next item.
NextItemRead ==
    LET r == Decode(ends.reader, SubSeq(buf, 1, seen), rpos)
        n == Len(got) + 1
    IN  IF n <= Len(sent) /\ rpos + sent[n].size <= seen
        THEN r = Decoded(rpos + sent[n].size, sent[n].item)
        ELSE r.st = TRUNCATED /\ r.pos \in rpos .. seen

\* A call finds the next item when all its bytes have arrived, and reports
\* TRUNCATED when they have not.
LEMMA ReadsNext ==
    ASSUME StreamInv, rst = OK
    PROVE  NextItemRead
<1>0. StreamTypes
  BY DEF StreamInv
<1>1. PICK off : Placed(off) /\ Received(off)
  BY DEF StreamInv
<1> DEFINE s == SubSeq(buf, 1, seen)
           n == Len(got) + 1
<1>2. /\ buf \in Seq(Nat) /\ Len(buf) \in Nat /\ Finished \in 0 .. Len(buf)
      /\ seen \in 0 .. Finished /\ seen \in Int /\ rpos \in 0 .. seen
      /\ Len(got) \in Nat /\ Len(sent) \in Nat /\ ends \in Ends
  BY <1>0, LenProperties DEF StreamTypes, Finished
<1>3. /\ s \in Seq(Nat) /\ Len(s) = seen /\ \A i \in 1 .. seen : s[i] = buf[i]
  <2>1. \A i \in 1 .. seen : buf[i] \in Nat
    BY <1>2, ElementOfSeq
  <2>2. /\ s \in Seq(Nat) /\ Len(s) = IF 1 <= seen THEN seen - 1 + 1 ELSE 0
        /\ \A i \in 1 .. seen - 1 + 1 : s[i] = buf[1 + i - 1]
    BY <1>2, <2>1, SubSeqProperties
  <2>3. \A i \in 1 .. seen : i \in 1 .. seen - 1 + 1 /\ 1 + i - 1 = i
    BY <1>2
  <2>4. QED
    BY <1>2, <2>2, <2>3
<1> HIDE DEF s
<1>4. rpos = off[Len(got)] /\ Len(got) <= Len(sent)
  BY <1>1 DEF Received
<1>5. CASE n <= Len(sent)
  <2>1. n \in 1 .. Len(sent) /\ n - 1 = Len(got) /\ n \in 0 .. Len(sent)
    BY <1>2, <1>5
  <2> HIDE DEF n
  <2>2. PICK x : x = sent[n].item
    OBVIOUS
  <2>3. PICK b : b = BytesOf(x)
    OBVIOUS
  <2>4. sent[n] \in SentType /\ x \in Items
    <3>1. sent[n] \in SentType
      BY <1>0, <2>1, ElementOfSeq DEF StreamTypes
    <3>2. QED
      BY <2>2, <3>1 DEF SentType
  <2>5. ItemAt(off, n) /\ off[n] <= Finished /\ off[n] \in Nat
    BY <1>1, <2>1 DEF Placed
  <2>6. /\ EncodableAt(ends, x) /\ sent[n].size = Len(b) /\ off[n] = rpos + Len(b)
        /\ \A j \in 1 .. Len(b) : buf[rpos + j] = b[j]
    BY <1>4, <2>1, <2>2, <2>3, <2>5 DEF ItemAt, Encodable
  <2>7. /\ b \in Seq(Nat) /\ Decode(ends.reader, b, 0) = Decoded(Len(b), x)
        /\ LengthBefore(b, x)
    BY <1>2, <2>3, <2>4, <2>6, ItemLaw DEF BytesOf
  <2>8. AgreesAt(s, rpos, b)
    <3>1. rpos \in Nat /\ Len(b) \in Nat
      BY <1>2, <2>7, LenProperties
    <3>2. rpos + Len(b) < W
      <4>1. rpos + Len(b) <= Len(buf) /\ Len(buf) <= Cap
        BY <1>0, <1>2, <2>5, <2>6, <3>1 DEF StreamTypes
      <4>2. QED
        BY <1>2, <3>1, <4>1, CapAssumption, WordAssumption
    <3>3. ASSUME NEW j \in 1 .. Len(b), rpos + j <= Len(s) PROVE s[rpos + j] = b[j]
      <4>1. j \in Nat /\ j >= 1
        BY <3>1
      <4>2. seen \in Nat /\ Len(s) = seen
        BY <1>2, <1>3
      <4>3. rpos + j \in 1 .. seen
        BY <3>1, <3>3, <4>1, <4>2
      <4>4. s[rpos + j] = buf[rpos + j]
        BY <1>3, <4>3
      <4>5. QED
        BY <2>6, <4>4
    <3>4. QED
      BY <1>3, <2>7, <3>1, <3>2, <3>3 DEF AgreesAt
  <2>9. SameAt(Decode(ends.reader, s, rpos), s, rpos, b, x)
    <3>1. rpos <= Len(s)
      BY <1>2, <1>3
    <3>2. QED
      BY <2>7, <2>8, <3>1, DecodeLocal
  <2>10. IF rpos + sent[n].size <= seen
         THEN Decode(ends.reader, s, rpos) = Decoded(rpos + sent[n].size, sent[n].item)
         ELSE /\ Decode(ends.reader, s, rpos).st = TRUNCATED
              /\ Decode(ends.reader, s, rpos).pos \in rpos .. seen
    BY <1>3, <2>2, <2>6, <2>9 DEF SameAt, Whole
  <2>11. QED
    BY <1>5, <2>10 DEF NextItemRead, s, n
<1>6. CASE ~(n <= Len(sent))
  <2>1. Len(got) = Len(sent)
    BY <1>2, <1>4, <1>6
  <2>2. rpos = Finished
    BY <1>1, <1>4, <2>1 DEF Placed
  <2>3. rpos >= Len(s) /\ rpos \in rpos .. seen
    BY <1>2, <1>3, <2>2
  <2>4. Decode(ends.reader, s, rpos) = Failed(TRUNCATED, rpos)
    BY <2>3 DEF Decode
  <2>5. /\ Decode(ends.reader, s, rpos).st = TRUNCATED
        /\ Decode(ends.reader, s, rpos).pos \in rpos .. seen
    BY <2>3, <2>4 DEF Failed
  <2>6. QED
    BY <1>6, <2>5 DEF NextItemRead, s
<1>7. QED
  BY <1>5, <1>6

\* A call of a decoder.
LEMMA DecodeStep ==
    ASSUME StreamInv, DecodeCall
    PROVE  StreamInv'
<1>0. StreamTypes
  BY DEF StreamInv
<1>1. PICK r : r = Decode(ends.reader, SubSeq(buf, 1, seen), rpos)
  OBVIOUS
<1>2. /\ rst = OK /\ rpos' = r.pos /\ rmark' = rpos /\ rst' = r.st
      /\ got' = IF r.st = OK THEN Append(got, r.item) ELSE got
      /\ ends' = ends /\ buf' = buf /\ mark' = mark /\ wst' = wst /\ sent' = sent /\ seen' = seen
  BY <1>1 DEF DecodeCall, wvars
<1>3. /\ seen \in Nat /\ rpos \in 0 .. seen /\ Len(got) \in Nat /\ Len(sent) \in Nat
      /\ Finished' = Finished
  BY <1>0, <1>2, LenProperties DEF StreamTypes, Finished
<1> DEFINE n == Len(got) + 1
           there == n <= Len(sent) /\ rpos + sent[n].size <= seen
<1>4. IF there THEN r = Decoded(rpos + sent[n].size, sent[n].item)
               ELSE r.st = TRUNCATED /\ r.pos \in rpos .. seen
  <2>1. NextItemRead
    BY <1>2, ReadsNext
  <2>2. QED
    BY <1>1, <2>1 DEF NextItemRead
<1>5. CASE there
  <2>1. n \in 1 .. Len(sent) /\ n - 1 = Len(got) /\ n \in 0 .. Len(sent) /\ rpos + sent[n].size <= seen
    BY <1>3, <1>5
  <2>2. r.st = OK /\ r.pos = rpos + sent[n].size /\ r.item = sent[n].item
    BY <1>4, <1>5 DEF Decoded
  <2>3. sent[n] \in SentType
    BY <1>0, <2>1, ElementOfSeq DEF StreamTypes
  <2>4. sent[n].item \in Items /\ rpos + sent[n].size \in rpos .. seen
    BY <1>3, <2>1, <2>3 DEF SentType
  <2>5. PICK x : x = sent[n].item
    OBVIOUS
  <2>6. /\ got' = Append(got, x) /\ x \in Items /\ got \in Seq(Items)
    BY <1>0, <1>2, <2>2, <2>4, <2>5 DEF StreamTypes
  <2>7. /\ got' \in Seq(Items) /\ Len(got') = Len(got) + 1
        /\ \A i \in 1 .. Len(got) : got'[i] = got[i]
        /\ got'[Len(got) + 1] = x
    BY <2>6, AppendProperties
  <2>8. StreamTypes'
    BY <1>0, <1>2, <1>3, <2>2, <2>4, <2>7 DEF StreamTypes
  <2>9. PICK off : Placed(off) /\ Received(off)
    BY DEF StreamInv
  <2>10. Placed(off)'
    BY <1>2, <1>3, <2>9 DEF Placed, ItemAt, Encodable, EncodableAt, BytesOf
  <2>11. Received(off)'
    <3>1. off[n] = rpos + sent[n].size
      BY <1>2, <2>1, <2>9 DEF Placed, Received, ItemAt
    <3>2. rpos' = off[Len(got')] /\ Len(got') <= Len(sent') /\ rst' = OK
      BY <1>2, <1>3, <2>1, <2>2, <2>7, <3>1
    <3>3. ASSUME NEW i \in 1 .. Len(got') PROVE got'[i] = sent'[i].item
      <4>1. i \in 1 .. Len(got) \/ i = n
        BY <1>3, <2>7
      <4>2. CASE i \in 1 .. Len(got)
        BY <1>2, <2>7, <2>9, <4>2 DEF Received
      <4>3. CASE i = n
        BY <1>2, <2>5, <2>7, <4>3
      <4>4. QED
        BY <4>1, <4>2, <4>3
    <3>4. QED
      BY <3>2, <3>3 DEF Received, OK, TRUNCATED
  <2>12. QED
    BY <2>8, <2>10, <2>11 DEF StreamInv
<1>6. CASE ~there
  <2>1. r.st = TRUNCATED /\ r.pos \in rpos .. seen
    BY <1>4, <1>6
  <2>2. rst' = TRUNCATED /\ rpos' \in rpos .. seen /\ got' = got
    BY <1>2, <2>1 DEF OK, TRUNCATED
  <2>3. StreamTypes'
    BY <1>0, <1>2, <1>3, <2>2 DEF StreamTypes
  <2>4. \A off : Received(off) => Received(off)'
    BY <1>2, <2>2 DEF Received, OK, TRUNCATED
  <2>5. QED
    BY <1>2, <1>3, <2>3, <2>4, QuietStep
<1>7. QED
  BY <1>5, <1>6

\* Every step keeps the invariant.
LEMMA StreamNext ==
    ASSUME StreamInv, [Next]_vars
    PROVE  StreamInv'
<1>1. ASSUME NEW x \in Items, Encode(x) PROVE StreamInv'
  BY <1>1, EncodeStep
<1>2. CASE Rewind
  BY <1>2, RewindStep
<1>3. CASE Deliver
  BY <1>3, DeliverStep
<1>4. CASE DecodeCall
  BY <1>4, DecodeStep
<1>5. CASE Retry
  BY <1>5, RetryStep
<1>6. CASE UNCHANGED vars
  <2>1. /\ ends' = ends /\ buf' = buf /\ mark' = mark /\ wst' = wst /\ sent' = sent /\ seen' = seen
        /\ rpos' = rpos /\ rmark' = rmark /\ rst' = rst /\ got' = got
    BY <1>6 DEF vars, wvars, rvars
  <2>2. Finished' = Finished
    BY <2>1 DEF Finished
  <2>3. StreamTypes'
    BY <2>1, <2>2 DEF StreamInv, StreamTypes
  <2>4. \A off : Received(off) => Received(off)'
    BY <2>1 DEF Received
  <2>5. QED
    BY <2>1, <2>2, <2>3, <2>4, QuietStep
<1>7. QED
  BY <1>1, <1>2, <1>3, <1>4, <1>5, <1>6 DEF Next

\* The invariant holds in every state.
LEMMA StreamAlways == Spec => []StreamInv
<1>1. Init => StreamInv
  BY StreamInit
<1>2. StreamInv /\ [Next]_vars => StreamInv'
  BY StreamNext
<1>3. QED
  BY <1>1, <1>2, PTL DEF Spec

-----------------------------------------------------------------------------
\* The cursors of both ends stay inside the buffer and inside what has arrived.
THEOREM StreamTypeCorrect == Spec => []TypeOK
<1>1. StreamInv => TypeOK
  <2> SUFFICES ASSUME StreamInv
               PROVE  TypeOK
    OBVIOUS
  <2>1. StreamTypes /\ Len(buf) \in Nat
    BY LenProperties DEF StreamInv, StreamTypes
  <2>2. Finished \in 0 .. Len(buf)
    BY <2>1 DEF StreamTypes, Finished
  <2>3. QED
    BY <2>1, <2>2 DEF StreamTypes, TypeOK
<1>2. QED
  BY <1>1, StreamAlways, PTL

\* The ends are among those whose items come back.
THEOREM CodecLawCorrect == Spec => []CodecLaw
<1>1. StreamInv => CodecLaw
  BY ItemsComeBack DEF StreamInv, StreamTypes, CodecLaw, Encodable
<1>2. QED
  BY <1>1, StreamAlways, PTL

\* A prefix, element by element.
LEMMA PrefixIs ==
    ASSUME NEW S, NEW s \in Seq(S), NEW t \in Seq(S),
           Len(s) <= Len(t), \A i \in 1 .. Len(s) : s[i] = t[i]
    PROVE  IsPrefix(s, t)
<1>1. Len(s) \in Nat /\ Len(t) \in Nat
  BY LenProperties
<1>2. \A i \in 1 .. Len(s) : t[i] \in S
  BY <1>1, ElementOfSeq
<1> DEFINE u == SubSeq(t, 1, Len(s))
<1>3. /\ u \in Seq(S) /\ Len(u) = IF 1 <= Len(s) THEN Len(s) - 1 + 1 ELSE 0
      /\ \A i \in 1 .. Len(s) - 1 + 1 : u[i] = t[1 + i - 1]
  BY <1>1, <1>2, SubSeqProperties
<1> HIDE DEF u
<1>4. Len(u) = Len(s) /\ \A i \in 1 .. Len(s) : u[i] = s[i]
  <2>1. \A i \in 1 .. Len(s) : i \in 1 .. Len(s) - 1 + 1 /\ 1 + i - 1 = i
    BY <1>1
  <2>2. QED
    BY <1>1, <1>3, <2>1
<1>5. s = u
  BY <1>3, <1>4, SeqEqual
<1>6. SubSeq(s, 1, Len(s)) = s
  BY SubSeqFull
<1>7. QED
  BY <1>5, <1>6 DEF IsPrefix, u

\* Whatever the pieces and the failed calls, the reader gets the items that were
\* sent, in their order.
THEOREM GotIsSentCorrect == Spec => []GotIsSent
<1>1. StreamInv => GotIsSent
  <2> SUFFICES ASSUME StreamInv
               PROVE  GotIsSent
    OBVIOUS
  <2>1. StreamTypes /\ \E off : Received(off)
    BY DEF StreamInv
  <2>2. PICK t : t = [i \in DOMAIN sent |-> sent[i].item]
    OBVIOUS
  <2>3. sent \in Seq(SentType) /\ Len(sent) \in Nat /\ DOMAIN sent = 1 .. Len(sent)
    BY <2>1, LenProperties DEF StreamTypes
  <2>4. t = [i \in 1 .. Len(sent) |-> sent[i].item]
    BY <2>2, <2>3
  <2>5. \A i \in 1 .. Len(sent) : sent[i].item \in Items
    <3>1. \A i \in 1 .. Len(sent) : sent[i] \in SentType
      BY <2>3, ElementOfSeq
    <3>2. QED
      BY <3>1 DEF SentType
  <2>6. t \in Seq(Items) /\ Len(t) = Len(sent)
    BY <2>3, <2>4, <2>5
  <2>7. Len(got) <= Len(sent) /\ \A i \in 1 .. Len(got) : got[i] = sent[i].item
    BY <2>1 DEF Received
  <2>8. got \in Seq(Items) /\ Len(got) \in Nat
    BY <2>1, LenProperties DEF StreamTypes
  <2>9. Len(got) <= Len(t) /\ \A i \in 1 .. Len(got) : got[i] = t[i]
    BY <2>3, <2>4, <2>6, <2>7, <2>8
  <2>10. IsPrefix(got, t)
    BY <2>6, <2>8, <2>9, PrefixIs
  <2>11. QED
    BY <2>2, <2>10 DEF GotIsSent, SentItems
<1>2. QED
  BY <1>1, StreamAlways, PTL

\* A call of the decoder fails only with TRUNCATED, and only while the bytes of the
\* next item have not all arrived: it never looks past the item it is at.
THEOREM FailsOnlyWhenShortCorrect == Spec => FailsOnlyWhenShort
<1> DEFINE A == (rst' # OK /\ DecodeCall) =>
                   /\ rst' = TRUNCATED
                   /\ \/ Len(got) = Len(sent)
                      \/ rpos + sent[Len(got) + 1].size > seen
<1>1. ASSUME StreamInv PROVE A
  <2> SUFFICES ASSUME DecodeCall, rst' # OK
               PROVE  /\ rst' = TRUNCATED
                      /\ \/ Len(got) = Len(sent)
                         \/ rpos + sent[Len(got) + 1].size > seen
    OBVIOUS
  <2>0. StreamTypes /\ \E off : Received(off)
    BY <1>1 DEF StreamInv
  <2>1. PICK n : n = Len(got) + 1
    OBVIOUS
  <2>2. NextItemRead /\ rst' = Decode(ends.reader, SubSeq(buf, 1, seen), rpos).st
    BY <1>1, ReadsNext DEF DecodeCall
  <2>3. ASSUME n <= Len(sent), rpos + sent[n].size <= seen PROVE FALSE
    <3>1. Decode(ends.reader, SubSeq(buf, 1, seen), rpos) = Decoded(rpos + sent[n].size, sent[n].item)
      BY <2>1, <2>2, <2>3 DEF NextItemRead
    <3>2. QED
      BY <2>2, <3>1 DEF Decoded
  <2>4. rst' = TRUNCATED
    BY <2>1, <2>2, <2>3 DEF NextItemRead
  <2>5. ASSUME Len(got) # Len(sent) PROVE rpos + sent[n].size > seen
    <3>1. n \in 1 .. Len(sent) /\ Len(sent) \in Nat
      <4>1. Len(got) <= Len(sent) /\ Len(got) \in Nat /\ Len(sent) \in Nat
        BY <2>0, LenProperties DEF Received, StreamTypes
      <4>2. QED
        BY <2>1, <2>5, <4>1
    <3>2. sent[n] \in SentType
      BY <2>0, <3>1, ElementOfSeq DEF StreamTypes
    <3>3. rpos \in Nat /\ seen \in Nat /\ sent[n].size \in Nat
      BY <2>0, <3>2, LenProperties DEF StreamTypes, SentType, Finished
    <3>4. n <= Len(sent)
      BY <3>1
    <3>5. QED
      BY <2>3, <3>3, <3>4
  <2>6. QED
    BY <2>1, <2>4, <2>5
<1>2. StreamInv /\ [Next]_vars => [A]_vars
  BY <1>1
<1>3. [][A]_vars <=> FailsOnlyWhenShort
  BY DEF FailsOnlyWhenShort
<1>4. QED
  <2>1. Spec => [][Next]_vars
    BY PTL DEF Spec
  <2>2. QED
    BY <1>2, <1>3, <2>1, StreamAlways, PTL
=============================================================================
