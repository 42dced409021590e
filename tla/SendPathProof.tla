--------------------------- MODULE SendPathProof ---------------------------
(***************************************************************************)
(* Proofs about SendPath, for a ring of any length, any lags, any number   *)
(* of packets and however the clock runs; and about Huffman, for a packet  *)
(* of any length and contents: what is compressed is read back.            *)
(***************************************************************************)
EXTENDS SendPath, FiniteSetTheorems, SequenceTheorems, WellFoundedInduction, TLAPS

-----------------------------------------------------------------------------
(* Induction and recursion over the natural numbers. *)

\* Less than on the natural numbers, as the well-foundedness theorems want it.
LEMMA NatWellFounded == IsWellFoundedOn({p \in Nat \X Nat : p[1] < p[2]}, Nat)
  BY NatLessThanWellFounded, Zenon DEF OpToRel

\* A set of natural numbers that is not empty has a least element.
LEMMA Least ==
  ASSUME NEW S \in SUBSET Nat, S # {}
  PROVE  \E m \in S : \A n \in S : m <= n
  <1>1. PICK m \in S : \A n \in S : <<n, m>> \notin {p \in Nat \X Nat : p[1] < p[2]}
    BY NatWellFounded, WFMin, Zenon
  <1>2. ASSUME NEW n \in S
        PROVE  m <= n
    <2>1. <<n, m>> \notin {p \in Nat \X Nat : p[1] < p[2]}
      BY <1>1
    <2> QED
      BY <2>1, SMT
  <1> QED
    BY <1>2

\* Induction, with a set in the place of a predicate.
LEMMA Induction ==
  ASSUME NEW S, 0 \in S, \A n \in Nat : n \in S => n + 1 \in S
  PROVE  \A n \in Nat : n \in S
  <1> DEFINE Left == {n \in Nat : n \notin S}
  <1>1. SUFFICES ASSUME Left # {}
                 PROVE  FALSE
    OBVIOUS
  <1>2. PICK m \in Left : \A n \in Left : m <= n
    <2> HIDE DEF Left
    <2>1. Left \in SUBSET Nat
      BY DEF Left
    <2> QED
      BY <1>1, <2>1, Least
  <1>3. m \in Nat /\ m # 0
    OBVIOUS
  <1>4. m - 1 \in Nat /\ m - 1 \notin Left
    BY <1>2, <1>3
  <1>5. m \in S
    BY <1>3, <1>4
  <1> QED
    BY <1>5

\* A recursion with a first value and a step in D defines a function.
\* There is a function with this first value and these steps.
Recursive(D, first, Step) ==
  \E f \in [Nat -> D] :
    f[0] = first /\ \A n \in Nat : f[n + 1] = Step[<<n + 1, f[n]>>]

LEMMA Recursion ==
  ASSUME NEW D, NEW first \in D, NEW Step \in [Nat \X D -> D]
  PROVE  Recursive(D, first, Step)
  <1> DEFINE Upto(n, g) == /\ g \in [0 .. n -> D] /\ g[0] = first
                           /\ \A k \in 0 .. n - 1 : g[k + 1] = Step[<<k + 1, g[k]>>]
  <1>1. ASSUME NEW n \in Nat
        PROVE  \E g : Upto(n, g)
    <2> DEFINE S == {k \in Nat : \E g : Upto(k, g)}
    <2>1. 0 \in S
      <3> Upto(0, [k \in 0 .. 0 |-> first])
        OBVIOUS
      <3> QED
        OBVIOUS
    <2>2. ASSUME NEW k \in Nat, k \in S
          PROVE  k + 1 \in S
      <3>1. PICK g : Upto(k, g)
        BY <2>2
      <3> DEFINE h == [j \in 0 .. k + 1 |->
                         IF j = k + 1 THEN Step[<<k + 1, g[k]>>] ELSE g[j]]
      <3>2. Step[<<k + 1, g[k]>>] \in D
        BY <3>1
      <3>3. h \in [0 .. k + 1 -> D] /\ h[0] = first
        BY <3>1, <3>2
      <3>4. ASSUME NEW j \in 0 .. k
            PROVE  h[j + 1] = Step[<<j + 1, h[j]>>]
        <4>1. CASE j = k
          <5>1. h[k + 1] = Step[<<k + 1, g[k]>>] /\ h[k] = g[k]
            OBVIOUS
          <5> HIDE DEF h
          <5> QED
            BY <4>1, <5>1
        <4>2. CASE j \in 0 .. k - 1
          <5>1. h[j + 1] = g[j + 1] /\ h[j] = g[j]
            BY <4>2
          <5>2. g[j + 1] = Step[<<j + 1, g[j]>>]
            BY <4>2, <3>1
          <5> QED
            BY <5>1, <5>2
        <4> QED
          BY <4>1, <4>2
      <3> HIDE DEF h
      <3>5. Upto(k + 1, h)
        BY <3>3, <3>4
      <3> QED
        BY <3>5
    <2> HIDE DEF S
    <2>3. n \in S
      BY <2>1, <2>2, Induction
    <2> QED
      BY <2>3 DEF S
  <1>2. ASSUME NEW n \in Nat, NEW m \in Nat, NEW g, NEW h, Upto(n, g), Upto(m, h), n <= m
        PROVE  g[n] = h[n]
    <2> DEFINE S == {k \in Nat : k <= n => g[k] = h[k]}
    <2>1. 0 \in S
      BY <1>2
    <2>2. ASSUME NEW k \in Nat, k \in S
          PROVE  k + 1 \in S
      <3>1. SUFFICES ASSUME k + 1 <= n
                     PROVE  g[k + 1] = h[k + 1]
        OBVIOUS
      <3>2. /\ g[k + 1] = Step[<<k + 1, g[k]>>]
            /\ h[k + 1] = Step[<<k + 1, h[k]>>]
        BY <1>2, <3>1
      <3>3. g[k] = h[k]
        BY <2>2, <3>1
      <3> QED
        BY <3>2, <3>3
    <2> HIDE DEF S
    <2>3. n \in S
      BY <2>1, <2>2, Induction
    <2> QED
      BY <2>3 DEF S
  <1> DEFINE G(n) == CHOOSE g : Upto(n, g)
             f == [n \in Nat |-> G(n)[n]]
  <1>3. \A n \in Nat : Upto(n, G(n))
    BY <1>1
  <1> HIDE DEF G
  <1>4. f \in [Nat -> D] /\ f[0] = first
    BY <1>3
  <1>5. ASSUME NEW n \in Nat
        PROVE  f[n + 1] = Step[<<n + 1, f[n]>>]
    <2>1. G(n + 1)[n + 1] = Step[<<n + 1, G(n + 1)[n]>>]
      BY <1>3
    <2>2. G(n)[n] = G(n + 1)[n]
      <3>1. Upto(n, G(n)) /\ Upto(n + 1, G(n + 1)) /\ n + 1 \in Nat /\ n <= n + 1
        BY <1>3
      <3> HIDE DEF Upto
      <3> QED
        BY <1>2, <3>1
    <2> QED
      BY <2>1, <2>2
  <1> HIDE DEF f
  <1> QED
    BY <1>4, <1>5 DEF Recursive

-----------------------------------------------------------------------------
(* Numbers and their bits. *)

\* Division with remainder.
LEMMA Divide ==
  ASSUME NEW n \in Nat, NEW p \in Nat \ {0}
  PROVE  n \div p \in Nat /\ n % p \in 0 .. p - 1 /\ n = p * (n \div p) + (n % p)
  BY SMT

\* There is one quotient and one remainder.
LEMMA DivideUnique ==
  ASSUME NEW n \in Nat, NEW p \in Nat \ {0}, NEW k \in Nat, NEW s \in 0 .. p - 1,
         n = p * k + s
  PROVE  n \div p = k /\ n % p = s
  <1> DEFINE q == n \div p
             t == n % p
  <1>1. q \in Nat /\ t \in 0 .. p - 1 /\ n = p * q + t
    BY SMT
  <1>2. p * (q - k) = s - t
    <2> HIDE DEF q, t
    <2> QED
      BY <1>1, SMT
  <1>3. q - k < 1 /\ q - k > -1
    <2> HIDE DEF q, t
    <2>1. ASSUME q - k >= 1 PROVE FALSE
      <3>1. p * (q - k) >= p
        BY <1>1, <2>1, SMT
      <3> QED
        BY <1>1, <1>2, <3>1, SMT
    <2>2. ASSUME q - k <= -1 PROVE FALSE
      <3>1. p * (q - k) <= -p
        BY <1>1, <2>2, SMT
      <3> QED
        BY <1>1, <1>2, <3>1, SMT
    <2> QED
      BY <1>1, <2>1, <2>2, SMT
  <1>4. q = k
    <2> HIDE DEF q, t
    <2> QED
      BY <1>1, <1>3, SMT
  <1>5. t = s
    <2> HIDE DEF q, t
    <2> QED
      BY <1>1, <1>2, <1>4, SMT
  <1> QED
    BY <1>4, <1>5

\* Two divisions are one.
LEMMA DivideTwice ==
  ASSUME NEW n \in Nat, NEW p \in Nat \ {0}, NEW q \in Nat \ {0}
  PROVE  (n \div p) \div q = n \div (p * q)
  <1> DEFINE m == n \div p
             k == m \div q
             s == p * (m % q) + (n % p)
  <1>1. m \in Nat /\ n = p * m + (n % p) /\ n % p \in 0 .. p - 1
    BY SMT
  <1>2. k \in Nat /\ m = q * k + (m % q) /\ m % q \in 0 .. q - 1
    <2> HIDE DEF m
    <2> QED
      BY <1>1, SMT
  <1>3. n = (p * q) * k + s
    <2>0. SUFFICES ASSUME NEW mm \in Nat, NEW kk \in Nat, NEW a \in Nat, NEW b \in Nat,
                          mm = q * kk + a, n = p * mm + b
                   PROVE n = (p * q) * kk + (p * a + b)
      <3> HIDE DEF m, k
      <3> QED
        BY <1>1, <1>2, SMT
    <2> QED
      BY <2>0, SMT
  <1>4. s \in 0 .. p * q - 1
    <2>0. SUFFICES ASSUME NEW a \in 0 .. q - 1, NEW b \in 0 .. p - 1
                   PROVE p * a + b \in 0 .. p * q - 1
      <3> HIDE DEF m, k
      <3> QED
        BY <1>1, <1>2, SMT
    <2>1. p * a <= p * (q - 1) /\ p * a >= 0
      BY <2>0, SMT
    <2>2. p * (q - 1) = p * q - p
      BY <2>0, SMT
    <2> QED
      BY <2>0, <2>1, <2>2, SMT
  <1>5. p * q \in Nat \ {0}
    BY SMT
  <1> HIDE DEF m, k, s
  <1>6. n \div (p * q) = k
    BY <1>2, <1>3, <1>4, <1>5, DivideUnique
  <1> QED
    BY <1>6 DEF k, m

\* The powers of 2 that are used, one after the other.
LEMMA PowerNext ==
  ASSUME NEW i \in 0 .. 23
  PROVE  2 ^ i \in Nat \ {0} /\ 2 ^ (i + 1) = 2 * 2 ^ i /\ 2 ^ (i + 1) \in Nat \ {0}
  <1>0. CASE i = 0
    BY <1>0
  <1>1. CASE i = 1
    BY <1>1
  <1>2. CASE i = 2
    BY <1>2
  <1>3. CASE i = 3
    BY <1>3
  <1>4. CASE i = 4
    BY <1>4
  <1>5. CASE i = 5
    BY <1>5
  <1>6. CASE i = 6
    BY <1>6
  <1>7. CASE i = 7
    BY <1>7
  <1>8. CASE i = 8
    BY <1>8
  <1>9. CASE i = 9
    BY <1>9
  <1>10. CASE i = 10
    BY <1>10
  <1>11. CASE i = 11
    BY <1>11
  <1>12. CASE i = 12
    BY <1>12
  <1>13. CASE i = 13
    BY <1>13
  <1>14. CASE i = 14
    BY <1>14
  <1>15. CASE i = 15
    BY <1>15
  <1>16. CASE i = 16
    BY <1>16
  <1>17. CASE i = 17
    BY <1>17
  <1>18. CASE i = 18
    BY <1>18
  <1>19. CASE i = 19
    BY <1>19
  <1>20. CASE i = 20
    BY <1>20
  <1>21. CASE i = 21
    BY <1>21
  <1>22. CASE i = 22
    BY <1>22
  <1>23. CASE i = 23
    BY <1>23
  <1>24. i \in {0, 1, 2, 3, 4, 5, 6, 7, 8, 9, 10, 11, 12, 13, 14, 15, 16, 17, 18, 19, 20,
                21, 22, 23}
    OBVIOUS
  <1> QED
    BY <1>0, <1>1, <1>2, <1>3, <1>4, <1>5, <1>6, <1>7, <1>8, <1>9, <1>10, <1>11, <1>12,
       <1>13, <1>14, <1>15, <1>16, <1>17, <1>18, <1>19, <1>20, <1>21, <1>22, <1>23, <1>24

\* They are positive.
LEMMA PowerType ==
  ASSUME NEW e \in 0 .. 24
  PROVE  2 ^ e \in Nat \ {0}
  <1>1. CASE e \in 0 .. 23
    BY <1>1, PowerNext
  <1>2. CASE e = 24
    <2>1. 2 ^ 24 \in Nat \ {0}
      OBVIOUS
    <2> QED
      BY <1>2, <2>1
  <1> QED
    BY <1>1, <1>2

\* Their exponents are added.
LEMMA PowerSum ==
  ASSUME NEW i \in 0 .. 24, NEW j \in 0 .. 24, i + j <= 24
  PROVE  2 ^ i \in Nat \ {0} /\ 2 ^ j \in Nat \ {0} /\ 2 ^ (i + j) = 2 ^ i * 2 ^ j
  <1> DEFINE P(k) == k <= 24 - i => 2 ^ (i + k) = 2 ^ i * 2 ^ k
             S == {k \in Nat : P(k)}
  <1>1. \A k \in 0 .. 24 : 2 ^ k \in Nat \ {0}
    BY PowerType
  <1>2. 0 \in S
    <2>1. 2 ^ 0 = 1 /\ i + 0 = i
      OBVIOUS
    <2> QED
      BY <1>1, <2>1
  <1>3. ASSUME NEW k \in Nat, k \in S
        PROVE  k + 1 \in S
    <2>1. SUFFICES ASSUME k + 1 <= 24 - i
                   PROVE  2 ^ (i + (k + 1)) = 2 ^ i * 2 ^ (k + 1)
      OBVIOUS
    <2>2. 2 ^ (i + k) = 2 ^ i * 2 ^ k
      BY <1>3, <2>1
    <2>3. 2 ^ (k + 1) = 2 * 2 ^ k
      <3>1. k \in 0 .. 23
        BY <2>1
      <3> QED
        BY <3>1, PowerNext
    <2>4. 2 ^ (i + k + 1) = 2 * 2 ^ (i + k)
      <3>1. i + k \in 0 .. 23
        BY <2>1
      <3> QED
        BY <3>1, PowerNext
    <2>5. i + (k + 1) = i + k + 1
      OBVIOUS
    <2>6. \A x, y \in Nat : 2 * (x * y) = x * (2 * y)
      OBVIOUS
    <2>7. 2 ^ i \in Nat /\ 2 ^ k \in Nat
      <3>1. k \in 0 .. 24
        BY <2>1
      <3> QED
        BY <1>1, <3>1
    <2> QED
      BY <2>2, <2>3, <2>4, <2>5, <2>6, <2>7
  <1> HIDE DEF S
  <1>4. j \in S
    BY <1>2, <1>3, Induction
  <1>5. j <= 24 - i
    OBVIOUS
  <1>6. 2 ^ (i + j) = 2 ^ i * 2 ^ j
    BY <1>4, <1>5 DEF S
  <1> QED
    BY <1>1, <1>6

\* Bits of what is left when bits are shifted out.
LEMMA BitShift ==
  ASSUME NEW n \in Nat, NEW i \in 0 .. 24, NEW k \in 0 .. 24, i + k <= 24
  PROVE  n \div 2 ^ k \in Nat /\ Bit(n \div 2 ^ k, i) = Bit(n, i + k)
  <1>1. 2 ^ i \in Nat \ {0} /\ 2 ^ k \in Nat \ {0} /\ 2 ^ (i + k) = 2 ^ k * 2 ^ i
    <2>1. k + i = i + k
      OBVIOUS
    <2> QED
      BY <2>1, PowerSum
  <1> DEFINE p == 2 ^ i
             q == 2 ^ k
  <1>2. (n \div q) \div p = n \div (q * p)
    <2> HIDE DEF p, q
    <2> QED
      BY <1>1, DivideTwice DEF p, q
  <1>3. n \div q \in Nat
    <2> HIDE DEF q
    <2> QED
      BY <1>1 DEF q
  <1> QED
    BY <1>1, <1>2, <1>3 DEF Bit

\* A remainder modulo a multiple of 2 * p has the same bit of weight p.
LEMMA Even ==
  ASSUME NEW n \in Nat, NEW p \in Nat \ {0}, NEW d \in Nat \ {0}
  PROVE  ((n % (p * (2 * d))) \div p) % 2 = (n \div p) % 2
  <1> DEFINE m == p * (2 * d)
             h == n \div m
             s == n % m
             t == s \div p
             u == s % p
  <1>1. m \in Nat \ {0}
    OBVIOUS
  <1>2. h \in Nat /\ s \in Nat /\ n = m * h + s
    <2> HIDE DEF m
    <2> QED
      BY <1>1
  <1>3. t \in Nat /\ u \in 0 .. p - 1 /\ s = p * t + u
    <2> HIDE DEF s
    <2> QED
      BY <1>2, Divide
  <1> HIDE DEF h, t, u
  <1>4. n = p * (2 * (d * h) + t) + u
    <2>1. m * h = p * (2 * (d * h))
      BY <1>2
    <2> HIDE DEF m, s
    <2>2. ASSUME NEW x \in Nat
          PROVE  p * (x + t) = p * x + p * t
      BY <1>3
    <2>3. 2 * (d * h) \in Nat
      BY <1>2
    <2> QED
      BY <1>2, <1>3, <2>1, <2>2, <2>3
  <1>5. n \div p = 2 * (d * h) + t
    <2>1. 2 * (d * h) + t \in Nat
      BY <1>2, <1>3
    <2> QED
      BY <1>3, <1>4, <2>1, DivideUnique
  <1>6. \A x \in Nat : (2 * x + t) % 2 = t % 2
    BY <1>3
  <1>7. d * h \in Nat
    BY <1>2
  <1> QED
    BY <1>5, <1>6, <1>7 DEF t, s

\* Bits of what is left when higher bits are cut off.
LEMMA BitLow ==
  ASSUME NEW n \in Nat, NEW k \in 1 .. 24, NEW i \in 0 .. k - 1
  PROVE  n % 2 ^ k \in Nat /\ Bit(n % 2 ^ k, i) = Bit(n, i)
  <1> DEFINE d == 2 ^ (k - i - 1)
             p == 2 ^ i
  <1>1. d \in Nat \ {0} /\ p \in Nat \ {0} /\ 2 ^ (k - 1) = p * d /\ 2 ^ k = 2 * 2 ^ (k - 1)
    <2>1. i + (k - i - 1) = k - 1 /\ (k - 1) + 1 = k
      OBVIOUS
    <2>2. k - i - 1 \in 0 .. 24 /\ i \in 0 .. 24 /\ k - 1 \in 0 .. 23
      OBVIOUS
    <2>3. 2 ^ k = 2 * 2 ^ (k - 1)
      BY <2>1, <2>2, PowerNext
    <2>4. ASSUME NEW e \in 0 .. 24, i + e = k - 1
          PROVE  2 ^ e \in Nat \ {0} /\ 2 ^ i \in Nat \ {0} /\ 2 ^ (k - 1) = 2 ^ i * 2 ^ e
      <3>1. i + e <= 24
        BY <2>4
      <3> QED
        BY <2>2, <2>4, <3>1, PowerSum
    <2> QED
      BY <2>1, <2>2, <2>3, <2>4
  <1>2. 2 ^ k = p * (2 * d)
    <2> HIDE DEF p, d
    <2> QED
      BY <1>1
  <1>3. n % (p * (2 * d)) \in Nat
    <2> HIDE DEF p, d
    <2>1. p * (2 * d) \in Nat \ {0}
      BY <1>1
    <2> QED
      BY <2>1
  <1>4. ((n % (p * (2 * d))) \div p) % 2 = (n \div p) % 2
    <2> HIDE DEF p, d
    <2> QED
      BY <1>1, Even
  <1> QED
    BY <1>2, <1>3, <1>4 DEF Bit

Bits == Seq({0, 1})

\* A bit is 0 or 1.
LEMMA BitType ==
  ASSUME NEW n \in Nat, NEW i \in 0 .. 24
  PROVE  Bit(n, i) \in {0, 1}
  <1>1. 2 ^ i \in Nat \ {0}
    BY PowerType
  <1>2. n \div 2 ^ i \in Nat
    BY <1>1, Divide
  <1>3. \A m \in Nat : m % 2 \in {0, 1}
    OBVIOUS
  <1> QED
    BY <1>2, <1>3 DEF Bit

\* The 11 bits behind the first r of three bytes, as huffdecbyte shifts them, and bit j
\* of the three.
Ahead(a, b, c, r) ==
  (((a * 65536 + b * 256 + c) \div 2 ^ (8 - r)) % 65536) \div 2 ^ (16 - 11)

BitOf(a, b, c, j) == IF j <= 8 THEN Bit(a, 8 - j)
                     ELSE IF j <= 16 THEN Bit(b, 16 - j) ELSE Bit(c, 24 - j)

\* They are the bits r + 1 to r + 11.
LEMMA ElevenBits ==
  ASSUME NEW a \in Byte, NEW b \in Byte, NEW c \in Byte, NEW r \in 0 .. 7
  PROVE  /\ Ahead(a, b, c, r) \in Index
         /\ \A i \in 1 .. 11 : Bit(Ahead(a, b, c, r), 11 - i) = BitOf(a, b, c, r + i)
  <1> DEFINE three == a * 65536 + b * 256 + c
             shifted == three \div 2 ^ (8 - r)
             word == shifted % 2 ^ 16
             index == Ahead(a, b, c, r)
  <1>1. a \in Nat /\ b \in Nat /\ c \in Nat /\ a < 256 /\ b < 256 /\ c < 256
    BY DEF Byte
  <1>2. three \in Nat
    BY <1>1
  <1>3. 8 - r \in 0 .. 24
    OBVIOUS
  <1>4. shifted \in Nat
    <2> HIDE DEF three
    <2>1. 2 ^ (8 - r) \in Nat \ {0}
      BY ONLY <1>3, PowerType
    <2> QED
      BY ONLY <1>2, <2>1, Divide
  <1>5. index = word \div 2 ^ 5 /\ word \in Nat /\ word < 65536
    <2>1. 2 ^ 16 = 65536 /\ 16 - 11 = 5
      OBVIOUS
    <2>2. index = word \div 2 ^ 5
      BY <2>1 DEF Ahead
    <2> HIDE DEF shifted
    <2>3. shifted % 65536 \in Nat /\ shifted % 65536 < 65536
      BY ONLY <1>4
    <2>4. word = shifted % 65536
      BY ONLY <2>1
    <2> HIDE DEF word
    <2> QED
      BY <2>2, <2>3, <2>4
  <1>6. index \in Index
    <2> HIDE DEF word
    <2> QED
      BY <1>5 DEF Index
  <1>7. ASSUME NEW i \in 1 .. 11
        PROVE  Bit(index, 11 - i) = Bit(three, 24 - (r + i))
    <2> HIDE DEF three, shifted
    <2>1. Bit(index, 11 - i) = Bit(word, 16 - i)
      <3>1. 11 - i \in 0 .. 24 /\ 5 \in 0 .. 24 /\ (11 - i) + 5 = 16 - i /\ 16 - i <= 24
        OBVIOUS
      <3> HIDE DEF word
      <3>2. word \in Nat /\ index = word \div 2 ^ 5
        BY <1>5
      <3>3. Bit(word \div 2 ^ 5, 11 - i) = Bit(word, (11 - i) + 5)
        BY ONLY <3>1, <3>2, BitShift
      <3> QED
        BY <3>1, <3>2, <3>3
    <2>2. Bit(word, 16 - i) = Bit(shifted, 16 - i)
      <3>1. 16 \in 1 .. 24 /\ 16 - i \in 0 .. 16 - 1
        OBVIOUS
      <3> QED
        BY ONLY <1>4, <3>1, BitLow
    <2>3. Bit(shifted, 16 - i) = Bit(three, 24 - (r + i))
      <3>1. /\ 16 - i \in 0 .. 24 /\ (16 - i) + (8 - r) = 24 - (r + i)
            /\ 24 - (r + i) <= 24
        OBVIOUS
      <3>2. Bit(three \div 2 ^ (8 - r), 16 - i) = Bit(three, (16 - i) + (8 - r))
        BY ONLY <1>2, <1>3, <3>1, BitShift
      <3> QED
        BY <3>1, <3>2 DEF shifted
    <2> QED
      BY <2>1, <2>2, <2>3
  <1>8. ASSUME NEW j \in 1 .. 8
        PROVE  Bit(three, 24 - j) = Bit(a, 8 - j)
    <2>1. three \div 2 ^ 16 = a
      BY <1>1
    <2>2. 8 - j \in 0 .. 24 /\ 16 \in 0 .. 24 /\ (8 - j) + 16 = 24 - j /\ 24 - j <= 24
      OBVIOUS
    <2> HIDE DEF three
    <2>3. Bit(three \div 2 ^ 16, 8 - j) = Bit(three, (8 - j) + 16)
      BY ONLY <1>2, <2>2, BitShift
    <2> QED
      BY <2>1, <2>2, <2>3
  <1>9. ASSUME NEW j \in 9 .. 16
        PROVE  Bit(three, 24 - j) = Bit(b, 16 - j)
    <2>1. three \div 2 ^ 8 = a * 256 + b
      BY <1>1
    <2>2. 16 - j \in 0 .. 24 /\ 8 \in 0 .. 24 /\ (16 - j) + 8 = 24 - j /\ 24 - j <= 24
      OBVIOUS
    <2>3. Bit(three, 24 - j) = Bit(a * 256 + b, 16 - j)
      <3> HIDE DEF three
      <3>1. Bit(three \div 2 ^ 8, 16 - j) = Bit(three, (16 - j) + 8)
        BY ONLY <1>2, <2>2, BitShift
      <3> QED
        BY <2>1, <2>2, <3>1
    <2>4. a * 256 + b \in Nat /\ (a * 256 + b) % 2 ^ 8 = b
      BY <1>1
    <2>5. 8 \in 1 .. 24 /\ 16 - j \in 0 .. 8 - 1
      OBVIOUS
    <2>6. Bit((a * 256 + b) % 2 ^ 8, 16 - j) = Bit(a * 256 + b, 16 - j)
      <3>1. \A n \in Nat, k \in 1 .. 24 : \A i \in 0 .. k - 1 : Bit(n % 2 ^ k, i) = Bit(n, i)
        BY ONLY BitLow, Zenon
      <3>2. \A n \in Nat : \A i \in 0 .. 8 - 1 : Bit(n % 2 ^ 8, i) = Bit(n, i)
        BY ONLY <2>5, <3>1, Zenon
      <3> DEFINE w == a * 256 + b
                 i == 16 - j
      <3>3. w \in Nat /\ i \in 0 .. 8 - 1
        BY ONLY <2>4, <2>5
      <3> HIDE DEF w, i
      <3>4. Bit(w % 2 ^ 8, i) = Bit(w, i)
        BY ONLY <3>2, <3>3, Zenon
      <3> QED
        BY <3>4 DEF w, i
    <2> QED
      BY <2>3, <2>4, <2>6
  <1>10. ASSUME NEW j \in 17 .. 24
         PROVE  Bit(three, 24 - j) = Bit(c, 24 - j)
    <2>1. three % 2 ^ 8 = c
      BY <1>1
    <2>2. 8 \in 1 .. 24 /\ 24 - j \in 0 .. 8 - 1
      OBVIOUS
    <2> HIDE DEF three
    <2>3. Bit(three % 2 ^ 8, 24 - j) = Bit(three, 24 - j)
      BY ONLY <1>2, <2>2, BitLow
    <2> QED
      BY <2>1, <2>3
  <1> HIDE DEF three, index
  <1>11. ASSUME NEW i \in 1 .. 11
         PROVE  Bit(index, 11 - i) = BitOf(a, b, c, r + i)
    <2> USE DEF BitOf
    <2>1. CASE r + i <= 8
      <3>1. r + i \in 1 .. 8
        BY <2>1
      <3> QED
        BY <1>7, <1>8, <3>1
    <2>2. CASE r + i > 8 /\ r + i <= 16
      <3>1. r + i \in 9 .. 16
        BY <2>2
      <3> QED
        BY <1>7, <1>9, <3>1
    <2>3. CASE r + i > 16
      <3>1. r + i \in 17 .. 24
        BY <2>3
      <3> QED
        BY <1>7, <1>10, <3>1
    <2> QED
      BY <2>1, <2>2, <2>3
  <1> QED
    BY <1>6, <1>11 DEF index

-----------------------------------------------------------------------------
(* Huffman coding. *)

\* A function on 1 .. n is a sequence of n elements.
LEMMA SequenceOf ==
  ASSUME NEW n \in Nat, NEW S, NEW f \in [1 .. n -> S]
  PROVE  f \in Seq(S) /\ Len(f) = n
  OBVIOUS

\* The code of a byte has between 1 and 11 bits.
LEMMA CodeType ==
  ASSUME NEW byte \in Byte
  PROVE  /\ Code(byte) \in Bits
         /\ Len(Code(byte)) = huffcontext.huffenctable[byte + 1][1]
         /\ Len(Code(byte)) \in 1 .. 11
         /\ \A i \in 1 .. Len(Code(byte)) :
              Code(byte)[i] = Bit(huffcontext.huffenctable[byte + 1][2], 16 - i)
  <1> DEFINE entry == huffcontext.huffenctable[byte + 1]
  <1>1. entry[1] \in 1 .. 11 /\ entry[2] \in Nat
    BY TablesAssumption
  <1>2. Code(byte) = [i \in 1 .. entry[1] |-> Bit(entry[2], 16 - i)]
    BY DEF Code
  <1> HIDE DEF entry
  <1>3. \A i \in 1 .. entry[1] : Bit(entry[2], 16 - i) \in {0, 1}
    <2>1. \A i \in 1 .. entry[1] : 16 - i \in 0 .. 24
      BY <1>1
    <2> QED
      BY <1>1, <2>1, BitType
  <1>4. Code(byte) \in Bits /\ Len(Code(byte)) = entry[1]
    <2>1. Code(byte) \in [1 .. entry[1] -> {0, 1}]
      BY <1>2, <1>3, Zenon
    <2>2. entry[1] \in Nat
      BY <1>1
    <2> QED
      BY ONLY <2>1, <2>2, SequenceOf DEF Bits
  <1> QED
    BY <1>1, <1>2, <1>4 DEF entry

\* What the recursion of Codes computes.
LEMMA CodesRecursion ==
  ASSUME NEW inbuf \in Seq(Byte)
  PROVE  /\ Codes(inbuf, 0) = << >>
         /\ \A n \in 0 .. Len(inbuf) : Codes(inbuf, n) \in Bits
         /\ \A n \in 1 .. Len(inbuf) :
              Codes(inbuf, n) = Codes(inbuf, n - 1) \o Code(inbuf[n])
  <1> DEFINE Step == [p \in Nat \X Bits |->
                        IF p[1] \in 1 .. Len(inbuf) THEN p[2] \o Code(inbuf[p[1]])
                        ELSE p[2]]
             Solves(n, h) == h = [i \in 0 .. n |->
                                    IF i = 0 THEN << >> ELSE h[i - 1] \o Code(inbuf[i])]
  <1>1. << >> \in Bits /\ Step \in [Nat \X Bits -> Bits]
    <2>1. \A i \in 1 .. Len(inbuf) : Code(inbuf[i]) \in Bits
      BY CodeType
    <2>2. \A x, y \in Bits : x \o y \in Bits
      BY DEF Bits
    <2>3. << >> \in Bits
      BY DEF Bits
    <2> QED
      BY <2>1, <2>2, <2>3
  <1>0. \A k \in Nat, b \in Bits :
          Step[<<k, b>>] = IF k \in 1 .. Len(inbuf) THEN b \o Code(inbuf[k]) ELSE b
    OBVIOUS
  <1> HIDE DEF Step
  <1>2. PICK f \in [Nat -> Bits] :
          f[0] = << >> /\ \A n \in Nat : f[n + 1] = Step[<<n + 1, f[n]>>]
    <2>1. Recursive(Bits, << >>, Step)
      BY <1>1, Recursion
    <2> QED
      BY <2>1 DEF Recursive
  <1>3. ASSUME NEW n \in 1 .. Len(inbuf)
        PROVE  f[n] = f[n - 1] \o Code(inbuf[n])
    <2>1. n - 1 \in Nat /\ (n - 1) + 1 = n
      OBVIOUS
    <2>2. f[n] = Step[<<n, f[n - 1]>>]
      BY <1>2, <2>1
    <2>3. f[n - 1] \in Bits
      BY <1>2, <2>1
    <2>4. n \in Nat
      OBVIOUS
    <2> QED
      BY <1>0, <2>2, <2>3, <2>4
  <1>4. ASSUME NEW n \in 0 .. Len(inbuf)
        PROVE  Codes(inbuf, n) = f[n]
    <2> DEFINE g == [i \in 0 .. n |-> f[i]]
    <2>1. Solves(n, g)
      <3>1. ASSUME NEW i \in 0 .. n
            PROVE  g[i] = IF i = 0 THEN << >> ELSE g[i - 1] \o Code(inbuf[i])
        <4>1. CASE i = 0
          BY <1>2, <4>1
        <4>2. CASE i # 0
          <5>1. i \in 1 .. Len(inbuf) /\ i - 1 \in 0 .. n
            BY <4>2
          <5>2. g[i] = f[i] /\ g[i - 1] = f[i - 1]
            BY <5>1
          <5> QED
            BY <1>3, <4>2, <5>1, <5>2
        <4> QED
          BY <4>1, <4>2
      <3> DEFINE e == [i \in 0 .. n |-> IF i = 0 THEN << >> ELSE g[i - 1] \o Code(inbuf[i])]
      <3>2. \A i \in 0 .. n : g[i] = e[i]
        BY <3>1
      <3>3. g \in [0 .. n -> Bits] /\ DOMAIN e = 0 .. n /\ e = [i \in 0 .. n |-> e[i]]
        BY <1>2
      <3> HIDE DEF g, e
      <3>4. g = e
        <4>1. g = [i \in 0 .. n |-> g[i]]
          BY <3>3
        <4> QED
          BY <3>2, <3>3, <4>1
      <3> QED
        BY <3>4 DEF e
    <2> HIDE DEF g
    <2> DEFINE h == CHOOSE x : Solves(n, x)
    <2>2. Solves(n, h)
      BY <2>1
    <2>3. Codes(inbuf, n) = h[n]
      BY DEF Codes
    <2> HIDE DEF h
    <2>4. \A i \in 0 .. n : h[i] = IF i = 0 THEN << >> ELSE h[i - 1] \o Code(inbuf[i])
      <3> DEFINE v(i) == IF i = 0 THEN << >> ELSE h[i - 1] \o Code(inbuf[i])
      <3>1. h = [i \in 0 .. n |-> v(i)]
        BY <2>2
      <3> HIDE DEF v
      <3>2. \A i \in 0 .. n : h[i] = v(i)
        BY <3>1
      <3> QED
        BY <3>2 DEF v
    <2> DEFINE S == {k \in Nat : k <= n => h[k] = f[k]}
    <2>5. 0 \in S
      BY <1>2, <2>4
    <2>6. ASSUME NEW k \in Nat, k \in S
          PROVE  k + 1 \in S
      <3>1. SUFFICES ASSUME k + 1 <= n
                     PROVE  h[k + 1] = f[k + 1]
        OBVIOUS
      <3>2. k + 1 \in 0 .. n /\ k + 1 # 0 /\ (k + 1) - 1 = k /\ k + 1 \in 1 .. Len(inbuf)
        BY <3>1
      <3>3. h[k + 1] = h[k] \o Code(inbuf[k + 1])
        BY <2>4, <3>2
      <3>4. f[k + 1] = f[k] \o Code(inbuf[k + 1])
        BY <1>3, <3>2
      <3>5. h[k] = f[k]
        BY <2>6, <3>1
      <3> QED
        BY <3>3, <3>4, <3>5
    <2>7. n \in S
      <3> HIDE DEF S
      <3> QED
        BY <2>5, <2>6, Induction
    <2> QED
      BY <2>3, <2>7
  <1> HIDE DEF Solves
  <1>5. /\ 0 \in 0 .. Len(inbuf)
        /\ \A n \in 1 .. Len(inbuf) : n \in 0 .. Len(inbuf) /\ n - 1 \in 0 .. Len(inbuf)
    OBVIOUS
  <1>6. \A n \in 0 .. Len(inbuf) : n \in Nat
    OBVIOUS
  <1> QED
    BY <1>2, <1>3, <1>4, <1>5, <1>6

\* Every byte adds a bit at least, and behind the bits of those before it.
LEMMA CodesGrow ==
  ASSUME NEW inbuf \in Seq(Byte), NEW n \in 0 .. Len(inbuf), NEW m \in 0 .. n
  PROVE  /\ Codes(inbuf, n) \in Bits /\ Codes(inbuf, m) \in Bits
         /\ Len(Codes(inbuf, m)) + (n - m) <= Len(Codes(inbuf, n))
         /\ \A j \in 1 .. Len(Codes(inbuf, m)) : Codes(inbuf, n)[j] = Codes(inbuf, m)[j]
  <1>1. \A k \in 0 .. Len(inbuf) : Codes(inbuf, k) \in Bits
    BY CodesRecursion
  <1> DEFINE Grown(k) == /\ Len(Codes(inbuf, m)) + k <= Len(Codes(inbuf, m + k))
                         /\ \A j \in 1 .. Len(Codes(inbuf, m)) :
                              Codes(inbuf, m + k)[j] = Codes(inbuf, m)[j]
             S == {k \in Nat : m + k <= n => Grown(k)}
  <1>2. 0 \in S
    <2>1. m + 0 = m /\ Len(Codes(inbuf, m)) \in Nat
      BY <1>1 DEF Bits
    <2> QED
      BY <2>1
  <1>3. ASSUME NEW k \in Nat, k \in S
        PROVE  k + 1 \in S
    <2>1. SUFFICES ASSUME m + (k + 1) <= n
                   PROVE  Grown(k + 1)
      OBVIOUS
    <2>2. Grown(k)
      BY <1>3, <2>1
    <2>3. /\ m + (k + 1) \in 1 .. Len(inbuf) /\ (m + (k + 1)) - 1 = m + k
          /\ m + k \in 0 .. Len(inbuf) /\ m \in 0 .. Len(inbuf)
      BY <2>1
    <2> DEFINE a == Codes(inbuf, m)
               b == Codes(inbuf, m + k)
               c == Code(inbuf[m + (k + 1)])
    <2>4. Codes(inbuf, m + (k + 1)) = b \o c
      BY <2>3, CodesRecursion
    <2>5. c \in Bits /\ Len(c) >= 1 /\ a \in Bits /\ b \in Bits
      <3>1. inbuf[m + (k + 1)] \in Byte
        BY <2>3
      <3>2. c \in Bits /\ Len(c) \in 1 .. 11
        BY <3>1, CodeType
      <3>3. a \in Bits /\ b \in Bits
        BY <1>1, <2>3
      <3> HIDE DEF a, b, c
      <3> QED
        BY <3>2, <3>3
    <2>6. Len(a) + k <= Len(b) /\ \A j \in 1 .. Len(a) : b[j] = a[j]
      BY <2>2
    <2> HIDE DEF a, b, c
    <2>7. Len(a) + (k + 1) <= Len(b \o c) /\ \A j \in 1 .. Len(a) : (b \o c)[j] = a[j]
      BY <2>5, <2>6 DEF Bits
    <2> QED
      BY <2>4, <2>7 DEF a
  <1>4. n - m \in Nat /\ m + (n - m) = n /\ n \in Nat
    OBVIOUS
  <1>5. n - m \in S
    <2> HIDE DEF S
    <2> QED
      BY <1>2, <1>3, <1>4, Induction
  <1>6. Grown(n - m)
    BY <1>4, <1>5
  <1> QED
    BY <1>1, <1>4, <1>6

\* bitswaptable is its own inverse.
LEMMA SwapTwice ==
  ASSUME NEW b \in Byte
  PROVE  bitswaptable[b] \in Byte /\ bitswaptable[bitswaptable[b]] = b
  <1> DEFINE Sw(x) == 128 * Bit(x, 0) + 64 * Bit(x, 1) + 32 * Bit(x, 2) + 16 * Bit(x, 3)
                      + 8 * Bit(x, 4) + 4 * Bit(x, 5) + 2 * Bit(x, 6) + Bit(x, 7)
  <1>1. \A x \in Byte : bitswaptable[x] = Sw(x)
    BY DEF bitswaptable, Byte
  <1>2. Sw(b) \in Byte
    <2>1. \A i \in {0, 1, 2, 3, 4, 5, 6, 7} : Bit(b, i) \in {0, 1}
      <3>1. b \in Nat /\ \A i \in {0, 1, 2, 3, 4, 5, 6, 7} : i \in 0 .. 24
        BY DEF Byte
      <3> QED
        BY <3>1, BitType
    <2> QED
      BY <2>1 DEF Byte
  <1>3. Sw(Sw(b)) = b
    BY SMTT(120) DEF Byte, Bit
  <1> HIDE DEF Sw
  <1> QED
    BY <1>1, <1>2, <1>3

\* The bits of a number made from 8 bits.
LEMMA NumberBits ==
  ASSUME NEW bits \in Bits, Len(bits) = 8
  PROVE  /\ Number(bits) \in Byte
         /\ \A j \in 1 .. 8 : Bit(Number(bits), 8 - j) = bits[j]
  <1>1. ASSUME NEW b1 \in {0, 1}, NEW b2 \in {0, 1}, NEW b3 \in {0, 1}, NEW b4 \in {0, 1},
               NEW b5 \in {0, 1}, NEW b6 \in {0, 1}, NEW b7 \in {0, 1}, NEW b8 \in {0, 1},
               NEW n,
               n = 128 * b1 + 64 * b2 + 32 * b3 + 16 * b4 + 8 * b5 + 4 * b6 + 2 * b7 + b8
        PROVE  /\ n \in Byte
               /\ Bit(n, 7) = b1 /\ Bit(n, 6) = b2 /\ Bit(n, 5) = b3 /\ Bit(n, 4) = b4
               /\ Bit(n, 3) = b5 /\ Bit(n, 2) = b6 /\ Bit(n, 1) = b7 /\ Bit(n, 0) = b8
    <2>1. n \in Byte
      BY <1>1 DEF Byte
    <2>2. Bit(n, 7) = b1 /\ Bit(n, 6) = b2 /\ Bit(n, 5) = b3 /\ Bit(n, 4) = b4
      BY <1>1, SMTT(60) DEF Bit
    <2>3. Bit(n, 3) = b5 /\ Bit(n, 2) = b6 /\ Bit(n, 1) = b7 /\ Bit(n, 0) = b8
      BY <1>1, SMTT(60) DEF Bit
    <2> QED
      BY <2>1, <2>2, <2>3
  <1>2. \A j \in 1 .. 8 : bits[j] \in {0, 1}
    <2>1. \A j \in 1 .. Len(bits) : bits[j] \in {0, 1}
      BY ElementOfSeq DEF Bits
    <2> QED
      BY <2>1
  <1>3. /\ Number(bits) \in Byte
        /\ Bit(Number(bits), 7) = bits[1] /\ Bit(Number(bits), 6) = bits[2]
        /\ Bit(Number(bits), 5) = bits[3] /\ Bit(Number(bits), 4) = bits[4]
        /\ Bit(Number(bits), 3) = bits[5] /\ Bit(Number(bits), 2) = bits[6]
        /\ Bit(Number(bits), 1) = bits[7] /\ Bit(Number(bits), 0) = bits[8]
    <2> DEFINE B(j) == bits[j]
    <2>1. /\ B(1) \in {0, 1} /\ B(2) \in {0, 1} /\ B(3) \in {0, 1} /\ B(4) \in {0, 1}
          /\ B(5) \in {0, 1} /\ B(6) \in {0, 1} /\ B(7) \in {0, 1} /\ B(8) \in {0, 1}
      BY <1>2
    <2>2. Number(bits) = 128 * B(1) + 64 * B(2) + 32 * B(3) + 16 * B(4)
                         + 8 * B(5) + 4 * B(6) + 2 * B(7) + B(8)
      BY DEF Number
    <2> HIDE DEF B
    <2>3. /\ Number(bits) \in Byte
          /\ Bit(Number(bits), 7) = B(1) /\ Bit(Number(bits), 6) = B(2)
          /\ Bit(Number(bits), 5) = B(3) /\ Bit(Number(bits), 4) = B(4)
          /\ Bit(Number(bits), 3) = B(5) /\ Bit(Number(bits), 2) = B(6)
          /\ Bit(Number(bits), 1) = B(7) /\ Bit(Number(bits), 0) = B(8)
      BY ONLY <1>1, <2>1, <2>2
    <2> QED
      BY <2>3 DEF B
  <1>4. ASSUME NEW j \in 1 .. 8
        PROVE  Bit(Number(bits), 8 - j) = bits[j]
    <2>1. j \in {1, 2, 3, 4, 5, 6, 7, 8}
      OBVIOUS
    <2>2. /\ 8 - 1 = 7 /\ 8 - 2 = 6 /\ 8 - 3 = 5 /\ 8 - 4 = 4
          /\ 8 - 5 = 3 /\ 8 - 6 = 2 /\ 8 - 7 = 1 /\ 8 - 8 = 0
      OBVIOUS
    <2> QED
      BY <1>3, <2>1, <2>2
  <1> QED
    BY <1>3, <1>4

\* Each byte behind the first of a compressed packet holds 8 of the bits, and the last
\* one zeros when they are used up.
LEMMA PackedBits ==
  ASSUME NEW bits \in Bits, NEW pad \in Nat, NEW n \in Nat, 8 * n <= Len(bits) + 8
  PROVE  /\ Packed(bits, pad, n) # << >>
         /\ Len(Packed(bits, pad, n)) = n + 1
         /\ Head(Packed(bits, pad, n)) = pad
         /\ Tail(Packed(bits, pad, n)) \in Seq(Byte)
         /\ Len(Tail(Packed(bits, pad, n))) = n
         /\ \A o \in 1 .. n : /\ bitswaptable[Tail(Packed(bits, pad, n))[o]] \in Byte
                             /\ \A j \in 1 .. 8 :
                                  8 * (o - 1) + j <= Len(bits) =>
                                  Bit(bitswaptable[Tail(Packed(bits, pad, n))[o]], 8 - j)
                                  = bits[8 * (o - 1) + j]
  <1> DEFINE padded == bits \o [i \in 1 .. 8 |-> 0]
             eight(o) == SubSeq(padded, 8 * o - 7, 8 * o)
             data == [i \in 1 .. n |-> bitswaptable[Number(eight(i))]]
  <1>1. padded \in Bits /\ Len(padded) = Len(bits) + 8
        /\ \A k \in 1 .. Len(bits) : padded[k] = bits[k]
    <2>1. [i \in 1 .. 8 |-> 0] \in Bits /\ Len([i \in 1 .. 8 |-> 0]) = 8
      BY DEF Bits
    <2> DEFINE z == [i \in 1 .. 8 |-> 0]
    <2> HIDE DEF z
    <2>2. bits \o z \in Bits /\ Len(bits \o z) = Len(bits) + 8
          /\ \A k \in 1 .. Len(bits) : (bits \o z)[k] = bits[k]
      BY <2>1 DEF Bits, z
    <2> QED
      BY <2>2 DEF z
  <1> HIDE DEF padded
  <1>2. ASSUME NEW o \in 1 .. n
        PROVE  /\ eight(o) \in Bits /\ Len(eight(o)) = 8
               /\ \A j \in 1 .. 8 : eight(o)[j] = padded[8 * (o - 1) + j]
    <2>1. 8 * o - 7 \in 1 .. Len(padded) /\ 8 * o \in 1 .. Len(padded)
      BY <1>1 DEF Bits
    <2>2. /\ 8 * o - (8 * o - 7) + 1 = 8
          /\ \A j \in 1 .. 8 : 8 * o - 7 + j - 1 = 8 * (o - 1) + j
      OBVIOUS
    <2> DEFINE lo == 8 * o - 7
               hi == 8 * o
    <2>3. lo \in 1 .. Len(padded) /\ hi \in 1 .. Len(padded) /\ hi - lo + 1 = 8
      BY <2>1, <2>2
    <2>4. \A j \in 1 .. 8 : lo + j - 1 = 8 * (o - 1) + j
      BY <2>2
    <2> HIDE DEF lo, hi
    <2>5. SubSeq(padded, lo, hi) \in Bits /\ Len(SubSeq(padded, lo, hi)) = 8
          /\ \A j \in 1 .. 8 : SubSeq(padded, lo, hi)[j] = padded[lo + j - 1]
      BY <1>1, <2>3 DEF Bits
    <2> QED
      BY <2>4, <2>5 DEF lo, hi
  <1>3. ASSUME NEW o \in 1 .. n
        PROVE  /\ bitswaptable[Number(eight(o))] \in Byte
               /\ bitswaptable[bitswaptable[Number(eight(o))]] = Number(eight(o))
               /\ Number(eight(o)) \in Byte
               /\ \A j \in 1 .. 8 : Bit(Number(eight(o)), 8 - j) = padded[8 * (o - 1) + j]
    <2>1. /\ eight(o) \in Bits /\ Len(eight(o)) = 8
          /\ \A j \in 1 .. 8 : eight(o)[j] = padded[8 * (o - 1) + j]
      BY <1>2
    <2> HIDE DEF eight
    <2>2. /\ Number(eight(o)) \in Byte
          /\ \A j \in 1 .. 8 : Bit(Number(eight(o)), 8 - j) = eight(o)[j]
      BY <2>1, NumberBits
    <2>3. bitswaptable[Number(eight(o))] \in Byte
          /\ bitswaptable[bitswaptable[Number(eight(o))]] = Number(eight(o))
      BY <2>2, SwapTwice
    <2> QED
      BY <2>1, <2>2, <2>3
  <1> HIDE DEF eight
  <1>4. /\ data \in Seq(Byte) /\ Len(data) = n
        /\ \A o \in 1 .. n : data[o] = bitswaptable[Number(eight(o))]
    <2>1. data \in [1 .. n -> Byte]
      BY <1>3
    <2>2. \A o \in 1 .. n : data[o] = bitswaptable[Number(eight(o))]
      OBVIOUS
    <2> HIDE DEF data
    <2> QED
      BY <2>1, <2>2, SequenceOf
  <1>5. Packed(bits, pad, n) = <<pad>> \o data
    BY DEF Packed, padded, eight
  <1> HIDE DEF data
  <1>6. /\ Packed(bits, pad, n) # << >> /\ Len(Packed(bits, pad, n)) = n + 1
        /\ Head(Packed(bits, pad, n)) = pad
    BY <1>4, <1>5
  <1>7. Tail(Packed(bits, pad, n)) = data
    <2>1. \A k \in 1 .. n : Tail(<<pad>> \o data)[k] = data[k]
      BY <1>4
    <2>2. Tail(<<pad>> \o data) \in Seq(Byte \cup Nat) /\ Len(Tail(<<pad>> \o data)) = n
      BY <1>4
    <2> QED
      BY <1>4, <1>5, <2>1, <2>2, SeqEqual
  <1>8. ASSUME NEW o \in 1 .. n
        PROVE  /\ bitswaptable[data[o]] \in Byte
               /\ \A j \in 1 .. 8 :
                    8 * (o - 1) + j <= Len(bits) =>
                    Bit(bitswaptable[data[o]], 8 - j) = bits[8 * (o - 1) + j]
    <2>1. ASSUME NEW j \in 1 .. 8, NEW k, k = 8 * (o - 1) + j, k <= Len(bits)
          PROVE  Bit(bitswaptable[data[o]], 8 - j) = bits[k]
      <3>1. k \in 1 .. Len(bits)
        BY <2>1 DEF Bits
      <3>2. padded[k] = bits[k]
        BY <1>1, <3>1
      <3>3. bitswaptable[data[o]] = Number(eight(o))
        BY <1>3, <1>4
      <3>4. Bit(Number(eight(o)), 8 - j) = padded[k]
        BY <1>3, <2>1
      <3> QED
        BY <3>2, <3>3, <3>4
    <2>2. bitswaptable[data[o]] \in Byte
      <3>1. data[o] = bitswaptable[Number(eight(o))]
        BY ONLY <1>4, o \in 1 .. n
      <3>2. bitswaptable[bitswaptable[Number(eight(o))]] = Number(eight(o))
        BY ONLY <1>3, o \in 1 .. n
      <3>3. Number(eight(o)) \in Byte
        BY ONLY <1>3, o \in 1 .. n
      <3> QED
        BY ONLY <3>1, <3>2, <3>3
    <2> QED
      BY <2>1, <2>2
  <1>9. data \in Seq(Byte) /\ Len(data) = n
    BY <1>4
  <1> QED
    BY ONLY <1>6, <1>7, <1>8, <1>9

\* The first n of these bytes, read from the lowest bit on, begin with bits.
Carries(encmsg, n, bits) ==
  /\ \A o \in 1 .. n + 3 : bitswaptable[encmsg[o]] \in Byte
  /\ \A o \in 1 .. n, j \in 1 .. 8 :
       8 * (o - 1) + j <= Len(bits) =>
       Bit(bitswaptable[encmsg[o]], 8 - j) = bits[8 * (o - 1) + j]

\* huffdecbyte finds byte k behind the codes of the bytes before it.
LEMMA ByteDecoded ==
  ASSUME NEW inbuf \in Seq(Byte), NEW encmsg, NEW n \in Nat,
         Carries(encmsg, n, Codes(inbuf, Len(inbuf))),
         Len(Codes(inbuf, Len(inbuf))) <= 8 * n,
         NEW k \in 1 .. Len(inbuf)
  PROVE  huffdecbyte(encmsg, Len(Codes(inbuf, k - 1))) = <<inbuf[k], Len(Code(inbuf[k]))>>
  <1> DEFINE bits == Codes(inbuf, Len(inbuf))
             len == Len(Codes(inbuf, k - 1))
             x == inbuf[k]
             L == Len(Code(x))
             o == len \div 8
             r == len % 8
             a == bitswaptable[encmsg[o + 1]]
             b == bitswaptable[encmsg[o + 2]]
             c == bitswaptable[encmsg[o + 3]]
             index == Ahead(a, b, c, r)
  <1>1. x \in Byte
    OBVIOUS
  <1>2. /\ Code(x) \in Bits /\ L = huffcontext.huffenctable[x + 1][1] /\ L \in 1 .. 11
        /\ \A i \in 1 .. L : Code(x)[i] = Bit(huffcontext.huffenctable[x + 1][2], 16 - i)
    BY <1>1, CodeType
  <1>3. /\ k \in 0 .. Len(inbuf) /\ k - 1 \in 0 .. Len(inbuf) /\ k \in 0 .. Len(inbuf)
        /\ Len(inbuf) \in 0 .. Len(inbuf)
    OBVIOUS
  <1>4. /\ bits \in Bits /\ Codes(inbuf, k - 1) \in Bits
        /\ Codes(inbuf, k) = Codes(inbuf, k - 1) \o Code(x)
    BY <1>3, CodesRecursion
  <1>5. /\ Len(Codes(inbuf, k)) <= Len(bits)
        /\ \A j \in 1 .. Len(Codes(inbuf, k)) : bits[j] = Codes(inbuf, k)[j]
    <2>1. /\ Len(Codes(inbuf, k)) + (Len(inbuf) - k) <= Len(bits)
          /\ \A j \in 1 .. Len(Codes(inbuf, k)) : bits[j] = Codes(inbuf, k)[j]
      BY <1>3, CodesGrow
    <2>2. Len(inbuf) - k >= 0 /\ Len(inbuf) - k \in Int
      OBVIOUS
    <2>3. Len(bits) \in Nat
      BY <1>4 DEF Bits
    <2>4. Codes(inbuf, k) \in Bits
      BY <1>3, CodesRecursion
    <2>5. Len(Codes(inbuf, k)) \in Nat
      BY <2>4 DEF Bits
    <2> HIDE DEF bits
    <2> QED
      BY <2>1, <2>2, <2>3, <2>5
  <1>6. len \in Nat /\ Len(bits) \in Nat
    BY <1>4 DEF Bits
  <1>7. /\ len + L <= Len(bits)
        /\ \A i \in 1 .. L : bits[len + i] = Code(x)[i]
    <2> DEFINE front == Codes(inbuf, k - 1)
               code == Code(x)
    <2>1. front \in Bits /\ code \in Bits /\ Codes(inbuf, k) = front \o code
      BY <1>2, <1>4
    <2> HIDE DEF front, code
    <2>2. /\ Len(front \o code) = Len(front) + Len(code)
          /\ \A i \in 1 .. Len(code) : Len(front) + i \in 1 .. Len(front \o code)
                                     /\ (front \o code)[Len(front) + i] = code[i]
      BY <2>1 DEF Bits
    <2> HIDE DEF bits
    <2>3. /\ Len(front) + Len(code) <= Len(bits)
          /\ \A i \in 1 .. Len(code) : bits[Len(front) + i] = code[i]
      BY <1>5, <2>1, <2>2
    <2> QED
      BY <2>3 DEF front, code
  <1>8. o \in Nat /\ r \in 0 .. 7 /\ len = 8 * o + r
    <2> HIDE DEF len
    <2> QED
      BY <1>6
  <1>9. Carries(encmsg, n, bits) /\ Len(bits) <= 8 * n
    OBVIOUS
  <1> HIDE DEF bits, len, x, L, o, r
  <1>17. /\ n \in Nat /\ o \in Nat /\ r \in Nat /\ r < 8 /\ L \in Nat /\ 1 <= L /\ L <= 11
         /\ 8 * o + r + L <= 8 * n
    <2>0. L \in 1 .. 11
      BY <1>2
    <2>1. L \in Nat /\ 1 <= L /\ L <= 11
      BY ONLY <2>0
    <2> QED
      BY ONLY <2>1, <1>6, <1>7, <1>8, <1>9, n \in Nat
  <1>10. a \in Byte /\ b \in Byte /\ c \in Byte
    <2>1. o + 1 \in 1 .. n + 3 /\ o + 2 \in 1 .. n + 3 /\ o + 3 \in 1 .. n + 3
      BY ONLY <1>17
    <2> QED
      BY <1>9, <2>1 DEF Carries
  <1>11. ASSUME NEW i \in 1 .. L
         PROVE  Code(x)[i] = BitOf(a, b, c, r + i)
    <2> USE DEF BitOf
    <2>0. i \in Nat /\ 1 <= i /\ i <= L /\ i <= 11
      BY <1>17
    <2>1. Code(x)[i] = bits[len + i] /\ len + i <= Len(bits)
      <3>1. bits[len + i] = Code(x)[i]
        BY ONLY <1>7, i \in 1 .. L
      <3>2. len + i <= Len(bits)
        BY ONLY <1>6, <1>7, <1>17, <2>0
      <3> QED
        BY ONLY <3>1, <3>2
    <2>6. len + i <= 8 * n /\ len = 8 * o + r
      BY ONLY <1>6, <1>8, <1>9, <1>17, <2>0, <2>1
    <2>2. ASSUME NEW w \in 1 .. n, NEW j \in 1 .. 8, 8 * (w - 1) + j = len + i
          PROVE  Code(x)[i] = Bit(bitswaptable[encmsg[w]], 8 - j)
      BY <1>9, <2>1, <2>2 DEF Carries
    <2>3. CASE r + i <= 8
      <3>1. o + 1 \in 1 .. n /\ r + i \in 1 .. 8 /\ 8 * ((o + 1) - 1) + (r + i) = len + i
        BY ONLY <1>17, <2>0, <2>6, <2>3
      <3>2. Code(x)[i] = Bit(a, 8 - (r + i))
        BY ONLY <2>2, <3>1
      <3> QED
        BY <2>3, <3>2
    <2>4. CASE r + i > 8 /\ r + i <= 16
      <3>1. /\ o + 2 \in 1 .. n /\ r + i - 8 \in 1 .. 8
            /\ 8 * ((o + 2) - 1) + (r + i - 8) = len + i /\ 8 - (r + i - 8) = 16 - (r + i)
        BY ONLY <1>17, <2>0, <2>6, <2>4
      <3>2. Code(x)[i] = Bit(b, 8 - (r + i - 8))
        BY ONLY <2>2, <3>1
      <3>3. ~(r + i <= 8)
        BY <1>17, <2>0, <2>4
      <3> QED
        BY <2>4, <3>1, <3>2, <3>3
    <2>5. CASE r + i > 16
      <3>1. /\ o + 3 \in 1 .. n /\ r + i - 16 \in 1 .. 8
            /\ 8 * ((o + 3) - 1) + (r + i - 16) = len + i /\ 8 - (r + i - 16) = 24 - (r + i)
        BY ONLY <1>17, <2>0, <2>6, <2>5
      <3>2. Code(x)[i] = Bit(c, 8 - (r + i - 16))
        BY ONLY <2>2, <3>1
      <3>3. ~(r + i <= 8) /\ ~(r + i <= 16)
        BY <1>17, <2>0, <2>5
      <3> QED
        BY <3>1, <3>2, <3>3
    <2> QED
      BY <1>17, <2>0, <2>3, <2>4, <2>5
  <1> HIDE DEF a, b, c
  <1>12. /\ index \in Index
         /\ \A i \in 1 .. 11 : Bit(index, 11 - i) = BitOf(a, b, c, r + i)
    BY ONLY <1>8, <1>10, ElevenBits, SMTT(20)
  <1> DEFINE entry == huffcontext.huffenctable[x + 1]
  <1>13. huffdecbyte(encmsg, len) = huffcontext.huffdectable[index + 1]
    BY DEF huffdecbyte, Ahead, a, b, c, o, r
  <1> HIDE DEF index
  <1>14. \A i \in 1 .. entry[1] : Bit(index, 11 - i) = Bit(entry[2], 16 - i)
    <2>1. \A i \in 1 .. L : i \in 1 .. 11
      BY <1>17
    <2> QED
      BY <1>2, <1>11, <1>12, <2>1
  <1>15. huffcontext.huffdectable[index + 1] = <<x, entry[1]>>
    BY <1>1, <1>12, <1>14, TablesAssumption
  <1>16. huffdecbyte(encmsg, len) = <<x, L>>
    BY <1>2, <1>13, <1>15
  <1> QED
    BY <1>16 DEF len, x, L

\* Where Huff_DecompressPacket is after the first i bytes.
Decoded(inbuf, i) == [outlen |-> Len(Codes(inbuf, i)), buffer |-> SubSeq(inbuf, 1, i)]

\* The loop of Huff_DecompressPacket gets from one byte to the next and then stays.
LEMMA DecodeNext ==
  ASSUME NEW inbuf \in Seq(Byte), Len(inbuf) <= MAX_MSGLEN, NEW encmsg, NEW n \in Nat,
         Carries(encmsg, n, Codes(inbuf, Len(inbuf))),
         Len(Codes(inbuf, Len(inbuf))) <= 8 * n
  PROVE  LET outlen == Len(Codes(inbuf, Len(inbuf)))
         IN  /\ Decoded(inbuf, 0) = [outlen |-> 0, buffer |-> << >>]
             /\ \A i \in 1 .. Len(inbuf) :
                  Decode(Decoded(inbuf, i - 1), encmsg, outlen) = Decoded(inbuf, i)
             /\ Decode(Decoded(inbuf, Len(inbuf)), encmsg, outlen)
                = Decoded(inbuf, Len(inbuf))
  <1> DEFINE N == Len(inbuf)
             outlen == Len(Codes(inbuf, N))
  <1>1. N \in Nat /\ \A i \in 0 .. N : Codes(inbuf, i) \in Bits
    BY CodesRecursion
  <1>2. outlen \in Nat
    <2>1. N \in 0 .. N
      BY <1>1
    <2> QED
      BY <1>1, <2>1 DEF Bits
  <1>3. Decoded(inbuf, 0) = [outlen |-> 0, buffer |-> << >>]
    <2>1. SubSeq(inbuf, 1, 0) = << >> /\ Len(Codes(inbuf, 0)) = 0
      BY CodesRecursion
    <2> QED
      BY <2>1 DEF Decoded
  <1>4. ASSUME NEW i \in 1 .. N
        PROVE  Decode(Decoded(inbuf, i - 1), encmsg, outlen) = Decoded(inbuf, i)
    <2> DEFINE s == Decoded(inbuf, i - 1)
               x == inbuf[i]
    <2>1. s.outlen = Len(Codes(inbuf, i - 1)) /\ s.buffer = SubSeq(inbuf, 1, i - 1)
      BY DEF Decoded
    <2>2. i \in 0 .. N /\ i - 1 \in 0 .. N /\ N \in 0 .. N
      BY <1>1
    <2>3. s.outlen < outlen
      <3>1. Len(Codes(inbuf, i - 1)) + (N - (i - 1)) <= outlen
        BY <2>2, CodesGrow
      <3>2. Len(Codes(inbuf, i - 1)) \in Nat
        BY <1>1, <2>2 DEF Bits
      <3>3. N - (i - 1) >= 1
        BY <1>1
      <3> HIDE DEF outlen, N, s
      <3> QED
        BY <1>1, <1>2, <2>1, <3>1, <3>2, <3>3
    <2>4. Len(s.buffer) < MAX_MSGLEN
      <3>1. Len(SubSeq(inbuf, 1, i - 1)) = i - 1
        OBVIOUS
      <3>2. N <= MAX_MSGLEN
        OBVIOUS
      <3> HIDE DEF s
      <3> QED
        BY <1>1, <2>1, <3>1, <3>2, MAX_MSGLENAssumption
    <2>5. huffdecbyte(encmsg, s.outlen) = <<x, Len(Code(x))>>
      BY <2>1, ByteDecoded
    <2>6. s.outlen + Len(Code(x)) = Len(Codes(inbuf, i))
      <3>1. x \in Byte
        OBVIOUS
      <3>2. Codes(inbuf, i - 1) \in Bits /\ Code(x) \in Bits
            /\ Codes(inbuf, i) = Codes(inbuf, i - 1) \o Code(x)
        BY <1>1, <2>2, <3>1, CodeType, CodesRecursion
      <3> DEFINE p == Codes(inbuf, i - 1)
                 q == Code(x)
      <3> HIDE DEF p, q, s
      <3>3. Len(p \o q) = Len(p) + Len(q)
        BY <3>2 DEF Bits, p, q
      <3> QED
        BY <2>1, <3>2, <3>3 DEF p, q
    <2>7. Append(s.buffer, x) = SubSeq(inbuf, 1, i)
      <3>1. Append(SubSeq(inbuf, 1, i - 1), x) = SubSeq(inbuf, 1, i)
        OBVIOUS
      <3> QED
        BY <2>1, <3>1
    <2> HIDE DEF s, outlen, x
    <2>8. Decode(s, encmsg, outlen)
          = [outlen |-> s.outlen + Len(Code(x)), buffer |-> Append(s.buffer, x)]
      <3> DEFINE entry == <<x, Len(Code(x))>>
      <3>1. entry[1] = x /\ entry[2] = Len(Code(x))
        OBVIOUS
      <3>2. huffdecbyte(encmsg, s.outlen) = entry
        BY <2>5
      <3> HIDE DEF entry
      <3> QED
        BY <2>3, <2>4, <3>1, <3>2 DEF Decode
    <2> QED
      BY <2>6, <2>7, <2>8 DEF Decoded, s
  <1>5. Decode(Decoded(inbuf, N), encmsg, outlen) = Decoded(inbuf, N)
    <2>1. Decoded(inbuf, N).outlen = outlen
      BY DEF Decoded
    <2>2. ~(outlen < outlen)
      BY <1>2
    <2> HIDE DEF outlen
    <2> QED
      BY <2>1, <2>2 DEF Decode
  <1> QED
    BY <1>3, <1>4, <1>5

\* What a function says that is defined by a recursion of Huff_DecompressPacket.
Decodes(After, encmsg, inbuflen) ==
  After = [i \in Nat |-> IF i = 0 THEN [outlen |-> 0, buffer |-> << >>]
                         ELSE Decode(After[i - 1], encmsg, inbuflen)]

\* So it finds all of them, as there are at least as many bits as bytes.
LEMMA Decompressed ==
  ASSUME NEW inbuf \in Seq(Byte), Len(inbuf) <= MAX_MSGLEN, NEW encmsg, NEW n \in Nat,
         Carries(encmsg, n, Codes(inbuf, Len(inbuf))),
         Len(Codes(inbuf, Len(inbuf))) <= 8 * n
  PROVE  LET outlen == Len(Codes(inbuf, Len(inbuf)))
         IN  (CHOOSE After : Decodes(After, encmsg, outlen))[outlen].buffer = inbuf
  <1> DEFINE N == Len(inbuf)
             outlen == Len(Codes(inbuf, N))
             St(i) == Decoded(inbuf, i)
             f == [i \in Nat |-> IF i <= N THEN St(i) ELSE St(N)]
             DecodeStep(s) == Decode(s, encmsg, outlen)
             zero == [outlen |-> 0, buffer |-> << >>]
  <1>1. N \in Nat
    OBVIOUS
  <1>2. /\ St(0) = zero /\ \A i \in 1 .. N : DecodeStep(St(i - 1)) = St(i)
        /\ DecodeStep(St(N)) = St(N)
    BY DecodeNext
  <1>3. outlen \in Nat /\ N <= outlen
    <2>1. N \in 0 .. N /\ 0 \in 0 .. N
      BY <1>1
    <2>2. Codes(inbuf, N) \in Bits /\ Len(Codes(inbuf, 0)) + (N - 0) <= outlen
      BY <2>1, CodesGrow
    <2>3. Codes(inbuf, 0) = << >>
      BY CodesRecursion
    <2>4. Len(Codes(inbuf, 0)) = 0
      BY <2>3
    <2>5. outlen \in Nat
      BY <2>2 DEF Bits
    <2> HIDE DEF outlen, N
    <2> QED
      BY <1>1, <2>2, <2>4, <2>5
  <1>4. SubSeq(inbuf, 1, N) = inbuf
    OBVIOUS
  <1>5. St(N).buffer = inbuf
    BY <1>4 DEF Decoded
  <1> HIDE DEF N, outlen, St, DecodeStep, zero
  <1>6. f[0] = zero /\ \A i \in Nat : f[i + 1] = DecodeStep(f[i])
    <2>1. f[0] = zero
      BY <1>1, <1>2
    <2>2. ASSUME NEW i \in Nat
          PROVE  f[i + 1] = DecodeStep(f[i])
      <3>1. CASE i + 1 <= N
        <4>1. i + 1 \in 1 .. N /\ (i + 1) - 1 = i /\ i <= N
          BY <1>1, <3>1
        <4>2. f[i + 1] = St(i + 1) /\ f[i] = St(i)
          BY <3>1, <4>1
        <4>3. DecodeStep(St((i + 1) - 1)) = St(i + 1)
          BY <1>2, <4>1
        <4> QED
          BY <4>1, <4>2, <4>3
      <3>2. CASE i = N
        <4>1. f[i + 1] = St(N) /\ f[i] = St(N)
          BY <1>1, <3>2
        <4> QED
          BY <1>2, <4>1
      <3>3. CASE i > N
        <4>1. f[i + 1] = St(N) /\ f[i] = St(N)
          BY <1>1, <3>3
        <4> QED
          BY <1>2, <4>1
      <3> QED
        BY <1>1, <3>1, <3>2, <3>3
    <2> HIDE DEF f
    <2> QED
      BY <2>1, <2>2
  <1>7. Decodes(f, encmsg, outlen)
    <2> DEFINE e == [i \in Nat |-> IF i = 0 THEN zero ELSE DecodeStep(f[i - 1])]
    <2>1. ASSUME NEW i \in Nat
          PROVE  f[i] = IF i = 0 THEN zero ELSE DecodeStep(f[i - 1])
      <3> HIDE DEF f
      <3>1. CASE i = 0
        BY <1>6, <3>1
      <3>2. CASE i # 0
        <4>1. i - 1 \in Nat /\ (i - 1) + 1 = i
          BY <3>2
        <4> QED
          BY <1>6, <3>2, <4>1
      <3> QED
        BY <3>1, <3>2
    <2>2. \A i \in Nat : e[i] = f[i]
      BY <2>1
    <2>3. f = [i \in Nat |-> f[i]]
      OBVIOUS
    <2>4. e = [i \in Nat |-> e[i]]
      OBVIOUS
    <2> HIDE DEF e, f
    <2>5. f = e
      BY <2>2, <2>3, <2>4
    <2> QED
      BY <2>5 DEF Decodes, e, DecodeStep, zero
  <1> HIDE DEF f
  <1> DEFINE h == CHOOSE After : Decodes(After, encmsg, outlen)
  <1>8. Decodes(h, encmsg, outlen)
    BY <1>7
  <1> HIDE DEF h
  <1>9. h[0] = zero /\ \A i \in Nat : h[i + 1] = DecodeStep(h[i])
    <2> DEFINE v(i) == IF i = 0 THEN zero ELSE DecodeStep(h[i - 1])
    <2>1. h = [i \in Nat |-> v(i)]
      BY <1>8 DEF Decodes, DecodeStep, zero
    <2> HIDE DEF v
    <2>2. \A i \in Nat : h[i] = v(i)
      BY <2>1
    <2>3. h[0] = zero
      BY <2>2 DEF v
    <2>4. ASSUME NEW i \in Nat
          PROVE  h[i + 1] = DecodeStep(h[i])
      <3>1. i + 1 \in Nat /\ i + 1 # 0 /\ (i + 1) - 1 = i
        OBVIOUS
      <3>2. h[i + 1] = v(i + 1)
        BY <2>2, <3>1
      <3> QED
        BY <3>1, <3>2 DEF v
    <2> QED
      BY <2>3, <2>4
  <1> DEFINE S == {i \in Nat : h[i] = f[i]}
  <1>10. 0 \in S
    BY <1>6, <1>9
  <1>11. \A i \in Nat : i \in S => i + 1 \in S
    BY <1>6, <1>9
  <1>12. outlen \in S
    <2> HIDE DEF S
    <2> QED
      BY <1>3, <1>10, <1>11, Induction
  <1>13. f[outlen] = St(N)
    <2>1. f[outlen] = IF outlen <= N THEN St(outlen) ELSE St(N)
      BY <1>3 DEF f
    <2>2. outlen <= N => outlen = N
      BY <1>1, <1>3
    <2> QED
      BY <2>1, <2>2
  <1>14. h[outlen].buffer = inbuf
    BY <1>5, <1>12, <1>13
  <1> QED
    BY <1>14 DEF h, outlen, N

\* What Huff_CompressPacket makes of a packet is what Huff_DecompressPacket makes it of,
\* whatever lies behind it in memory.
THEOREM RoundTrip ==
  ASSUME NEW inbuf \in Seq(Byte), Len(inbuf) <= MAX_MSGLEN, NEW behind \in Byte
  PROVE  Huff_DecompressPacket(Huff_CompressPacket(inbuf), behind) = inbuf
  <1> DEFINE bits == Codes(inbuf, Len(inbuf))
             outlen == Len(bits)
             n == (outlen + 8) \div 8
             pad == 8 - (outlen % 8)
  <1>1. bits \in Bits /\ outlen \in Nat
    <2>1. Len(inbuf) \in 0 .. Len(inbuf)
      OBVIOUS
    <2>2. bits \in Bits
      BY <2>1, CodesRecursion
    <2> QED
      BY <2>2 DEF Bits
  <1>2. CASE outlen \div 8 >= Len(inbuf)
    <2>1. Huff_CompressPacket(inbuf) = <<128>> \o inbuf
      BY <1>2 DEF Huff_CompressPacket, Raw
    <2>2. Head(<<128>> \o inbuf) = 128
      OBVIOUS
    <2>3. Tail(<<128>> \o inbuf) = inbuf
      <3>1. \A k \in 1 .. Len(inbuf) : Tail(<<128>> \o inbuf)[k] = inbuf[k]
        OBVIOUS
      <3>2. /\ Tail(<<128>> \o inbuf) \in Seq(Byte \cup Nat)
            /\ Len(Tail(<<128>> \o inbuf)) = Len(inbuf)
            /\ inbuf \in Seq(Byte \cup Nat)
        OBVIOUS
      <3> QED
        BY <3>1, <3>2, SeqEqual
    <2> QED
      BY <2>1, <2>2, <2>3 DEF Huff_DecompressPacket
  <1>3. CASE ~(outlen \div 8 >= Len(inbuf))
    <2> DEFINE packet == Huff_CompressPacket(inbuf)
               encmsg == Tail(packet) \o <<behind, behind, behind>>
    <2>1. packet = Packed(bits, pad, n)
      BY <1>3 DEF Huff_CompressPacket
    <2>2. n \in Nat /\ pad \in Nat /\ pad <= 8 /\ 8 * n <= outlen + 8 /\ outlen <= 8 * n
          /\ 8 * n - pad = outlen
      <3> HIDE DEF outlen
      <3> QED
        BY <1>1
    <2> HIDE DEF n, pad, bits, packet
    <2>3. /\ Len(packet) = n + 1 /\ Head(packet) = pad
          /\ Tail(packet) \in Seq(Byte) /\ Len(Tail(packet)) = n
          /\ \A o \in 1 .. n : /\ bitswaptable[Tail(packet)[o]] \in Byte
                              /\ \A j \in 1 .. 8 :
                                   8 * (o - 1) + j <= Len(bits) =>
                                   Bit(bitswaptable[Tail(packet)[o]], 8 - j)
                                   = bits[8 * (o - 1) + j]
      <3> DEFINE p == Packed(bits, pad, n)
      <3>1. /\ Len(p) = n + 1 /\ Head(p) = pad /\ Tail(p) \in Seq(Byte) /\ Len(Tail(p)) = n
            /\ \A o \in 1 .. n : /\ bitswaptable[Tail(p)[o]] \in Byte
                                /\ \A j \in 1 .. 8 :
                                     8 * (o - 1) + j <= Len(bits) =>
                                     Bit(bitswaptable[Tail(p)[o]], 8 - j)
                                     = bits[8 * (o - 1) + j]
        <4>1. bits \in Bits /\ pad \in Nat /\ n \in Nat /\ 8 * n <= Len(bits) + 8
          BY ONLY <1>1, <2>2
        <4> QED
          BY ONLY <4>1, PackedBits, Zenon
      <3> HIDE DEF p
      <3>2. packet = p
        BY <2>1 DEF p
      <3> QED
        BY <3>1, <3>2
    <2>4. Carries(encmsg, n, bits)
      <3> DEFINE t == Tail(packet)
                 m == <<behind, behind, behind>>
      <3>1. t \in Seq(Byte) /\ Len(t) = n
        BY <2>3
      <3>2. m \in Seq(Byte) /\ Len(m) = 3 /\ \A j \in 1 .. 3 : m[j] = behind
        OBVIOUS
      <3> HIDE DEF t, m
      <3>3. /\ \A o \in 1 .. n : (t \o m)[o] = t[o]
            /\ \A o \in 1 .. n + 3 : o > n => (t \o m)[o] = behind
        <4>1. Len(t) = n /\ n \in Nat /\ Len(m) = 3 /\ t \in Seq(Byte) /\ m \in Seq(Byte)
          BY <2>2, <3>1, <3>2
        <4>2. \A o \in 1 .. Len(t) + Len(m) :
                (t \o m)[o] = IF o <= Len(t) THEN t[o] ELSE m[o - Len(t)]
          BY <4>1, ConcatProperties
        <4>3. ASSUME NEW o \in 1 .. n + 3, o > n
              PROVE  (t \o m)[o] = behind
          <5>1. o \in 1 .. Len(t) + Len(m) /\ o - Len(t) \in 1 .. 3 /\ ~(o <= Len(t))
            BY <4>1, <4>3
          <5> QED
            BY <3>2, <4>2, <5>1
        <4>4. ASSUME NEW o \in 1 .. n
              PROVE  (t \o m)[o] = t[o]
          <5>1. o \in 1 .. Len(t) + Len(m) /\ o <= Len(t)
            BY <4>1
          <5> QED
            BY <4>2, <5>1
        <4> QED
          BY <4>3, <4>4
      <3>4. bitswaptable[behind] \in Byte
        BY SwapTwice
      <3>5. \A o \in 1 .. n + 3 : o \in 1 .. n \/ o > n
        BY <2>2
      <3>6. /\ \A o \in 1 .. n + 3 : bitswaptable[(t \o m)[o]] \in Byte
            /\ \A o \in 1 .. n, j \in 1 .. 8 :
                 8 * (o - 1) + j <= Len(bits) =>
                 Bit(bitswaptable[(t \o m)[o]], 8 - j) = bits[8 * (o - 1) + j]
        <4>1. ASSUME NEW o \in 1 .. n
              PROVE  /\ bitswaptable[(t \o m)[o]] \in Byte
                     /\ \A j \in 1 .. 8 :
                          8 * (o - 1) + j <= Len(bits) =>
                          Bit(bitswaptable[(t \o m)[o]], 8 - j) = bits[8 * (o - 1) + j]
          <5>1. (t \o m)[o] = Tail(packet)[o]
            BY <3>3 DEF t
          <5> QED
            BY ONLY <2>3, <5>1, o \in 1 .. n
        <4>2. ASSUME NEW o \in 1 .. n + 3, o > n
              PROVE  bitswaptable[(t \o m)[o]] \in Byte
          BY <3>3, <3>4, <4>2
        <4> QED
          BY ONLY <3>5, <4>1, <4>2
      <3> QED
        BY <3>6 DEF Carries, t, m
    <2>5. (CHOOSE After : Decodes(After, encmsg, outlen))[outlen].buffer = inbuf
      <3> HIDE DEF encmsg
      <3> QED
        BY <2>2, <2>4, Decompressed DEF bits
    <2>6. 8 * (Len(packet) - 1) - Head(packet) = outlen
      <3>1. (n + 1) - 1 = n
        BY <2>2
      <3> QED
        BY <2>2, <2>3, <3>1
    <2>7. Head(packet) # 128
      BY <2>2, <2>3
    <2> HIDE DEF outlen, encmsg
    <2>8. Huff_DecompressPacket(packet, behind) = inbuf
      <3> DEFINE Read(inbuflen) ==
                   IF Head(packet) = 128 THEN Tail(packet)
                   ELSE (CHOOSE After : Decodes(After, encmsg, inbuflen))[inbuflen].buffer
      <3>1. Read(outlen) = inbuf
        BY ONLY <2>5, <2>7
      <3>2. Huff_DecompressPacket(packet, behind) = Read(8 * (Len(packet) - 1) - Head(packet))
        BY ONLY DEF Huff_DecompressPacket, Decodes, encmsg
      <3> HIDE DEF Read
      <3> QED
        BY ONLY <2>6, <3>1, <3>2
    <2> QED
      BY <2>8 DEF packet
  <1> QED
    BY <1>2, <1>3

-----------------------------------------------------------------------------
(* The invariant of SendPath. *)

USE SendPathAssumption

\* All of them can be read.
Packets == [sequence : Nat \ {0}, past : BOOLEAN, readable : {TRUE}]
Waiting == [packet : Packets, delayuntil : Nat]

TypeInv ==
  /\ step \in {"release", "receive", "send", "ended"}
  /\ clock \in Nat /\ lag \in Nat /\ lag_ezcheat \in BOOLEAN
  /\ sendpackets \in Seq(Waiting)
  /\ wire \in Seq(Packets)
  /\ current_outgoing_sequence_number \in Nat \ {0}
  /\ last_incoming_sequence_number \in Nat
  /\ replyreceived \in [Slots -> {0, 1}]

\* What is on the wire or waits has an older number than the next packet's, what
\* waits is in order, and a packet on the wire that has overtaken one that waits
\* did not wait itself.
OrderInv ==
  /\ \A i \in DOMAIN wire : wire[i].sequence < current_outgoing_sequence_number
  /\ \A k \in DOMAIN sendpackets :
       sendpackets[k].packet.sequence < current_outgoing_sequence_number
  /\ \A k, l \in DOMAIN sendpackets : k < l =>
       sendpackets[k].packet.sequence < sendpackets[l].packet.sequence
  /\ \A i \in DOMAIN wire, k \in DOMAIN sendpackets :
       /\ wire[i].sequence # sendpackets[k].packet.sequence
       /\ sendpackets[k].packet.sequence < wire[i].sequence => wire[i].past

\* The slots of the last packets tell to which of them a reply was handled.
RingInv ==
  /\ \A n \in replied : n \in Nat /\ n < current_outgoing_sequence_number
  /\ step # "ended" =>
       \A n \in 1 .. current_outgoing_sequence_number - 1 :
         n + PLPACKETHISTORYCOUNT > current_outgoing_sequence_number =>
           (replyreceived[Slot(n)] = 1 <=> n \in replied)

IInv == TypeInv /\ OrderInv /\ SentInOrder /\ RingInv

-----------------------------------------------------------------------------
(* Slots. *)

LEMMA SlotType == \A n \in Nat : Slot(n) \in Slots
  BY DEF Slot, Slots

\* Numbers less than a ring apart have different slots.
LEMMA SlotsDiffer ==
  ASSUME NEW m \in Nat, NEW n \in Nat, m < n, n - m < PLPACKETHISTORYCOUNT
  PROVE  Slot(m) # Slot(n)
  <1> DEFINE N == PLPACKETHISTORYCOUNT
             p == m \div N
             q == n \div N
  <1>1. N \in Nat /\ N > 0
    OBVIOUS
  <1>2. /\ p \in Nat /\ q \in Nat
        /\ m = N * p + (m % N)
        /\ n = N * q + (n % N)
    BY <1>1
  <1> SUFFICES ASSUME m % N = n % N PROVE FALSE
    BY DEF Slot
  <1> HIDE DEF N, p, q
  <1>3. n - m = N * q - N * p
    BY <1>1, <1>2
  <1>4. N * q - N * p = N * (q - p)
    BY <1>1, <1>2
  <1>5. CASE q - p <= 0
    <2>1. N * (q - p) <= 0
      BY <1>1, <1>2, <1>5
    <2> QED
      BY <2>1, <1>1, <1>2, <1>3, <1>4
  <1>6. CASE q - p >= 1
    <2>1. N * (q - p) >= N
      BY <1>1, <1>2, <1>6
    <2>2. n - m >= N
      BY <2>1, <1>3, <1>4
    <2> QED
      BY <2>2, <1>1 DEF N
  <1> QED
    BY <1>2, <1>5, <1>6

-----------------------------------------------------------------------------
(* The invariant is kept. *)

\* The packets NetQW_Thread_DoSend and NetQW_Thread_Disconnect compress are sequences
\* of bytes that MAX_MSGLEN leaves room for.
LEMMA ContentsType ==
  /\ \A contents \in Contents : contents \in Seq(Byte) /\ Len(contents) <= MAX_MSGLEN
  /\ <<0>> \in Seq(Byte) /\ Len(<<0>>) <= MAX_MSGLEN
  <1>1. MaxLength \in Nat /\ MAX_MSGLEN \in Nat /\ MaxLength <= MAX_MSGLEN /\ 3 <= MAX_MSGLEN
    BY MAX_MSGLENAssumption, LengthAssumption
  <1>2. 0 \in Byte
    BY DEF Byte
  <1>3. ASSUME NEW n \in 0 .. MaxLength, NEW contents \in [1 .. n -> Bytes]
        PROVE  contents \in Seq(Byte) /\ Len(contents) <= MAX_MSGLEN
    <2>1. contents \in [1 .. n -> Byte] /\ n \in Nat /\ n <= MAX_MSGLEN
      BY <1>1, <1>3, BytesAssumption
    <2>2. contents \in Seq(Byte) /\ Len(contents) = n
      BY <2>1, SequenceOf
    <2> QED
      BY <2>1, <2>2
  <1>4. ASSUME NEW b \in Byte
        PROVE  <<0, b, 0>> \in Seq(Byte) /\ Len(<<0, b, 0>>) <= MAX_MSGLEN
    BY <1>1, <1>2
  <1>5. <<0>> \in Seq(Byte) /\ Len(<<0>>) <= MAX_MSGLEN
    BY <1>1, <1>2
  <1> QED
    BY <1>3, <1>4, <1>5 DEF Contents

LEMMA SentType ==
  ASSUME NEW n \in Nat \ {0}, NEW past \in BOOLEAN,
         NEW contents \in Seq(Byte), Len(contents) <= MAX_MSGLEN
  PROVE  /\ Sent(n, past, contents) \in Packets
         /\ Sent(n, past, contents).sequence = n
         /\ Sent(n, past, contents).past = past
  <1>1. \A behind \in {0, 255} :
          Huff_DecompressPacket(Huff_CompressPacket(contents), behind) = contents
    <2>1. 0 \in Byte /\ 255 \in Byte
      BY DEF Byte
    <2> QED
      BY <2>1, RoundTrip
  <1> QED
    BY <1>1 DEF Sent, Packets

\* What the sequences hold.
LEMMA Elements ==
  ASSUME TypeInv
  PROVE  /\ \A i \in DOMAIN wire : i \in Nat \ {0} /\ wire[i] \in Packets
         /\ \A k \in DOMAIN sendpackets :
              /\ k \in Nat \ {0} /\ sendpackets[k] \in Waiting
              /\ sendpackets[k].packet \in Packets
              /\ sendpackets[k].packet.sequence \in Nat \ {0}
         /\ \A i \in DOMAIN wire : wire[i].sequence \in Nat \ {0}
  <1>1. \A i \in DOMAIN wire : i \in Nat \ {0} /\ wire[i] \in Packets
    BY DEF TypeInv
  <1>2. \A k \in DOMAIN sendpackets :
          k \in Nat \ {0} /\ sendpackets[k] \in Waiting
    BY DEF TypeInv
  <1>3. \A w \in Waiting : w.packet \in Packets
    BY DEF Waiting
  <1>4. \A q \in Packets : q.sequence \in Nat \ {0}
    BY DEF Packets
  <1> QED
    BY <1>1, <1>2, <1>3, <1>4

LEMMA InitInv == Init => IInv
  <1> SUFFICES ASSUME Init PROVE IInv
    OBVIOUS
  <1>0. replyreceived \in [Slots -> {0, 1}]
    BY DEF Init
  <1>1. TypeInv
    <2>1. << >> \in Seq(Waiting) /\ << >> \in Seq(Packets)
      OBVIOUS
    <2>2. sendpackets \in Seq(Waiting) /\ wire \in Seq(Packets)
      BY <2>1 DEF Init
    <2>3. lag_ezcheat \in BOOLEAN /\ step \in {"release", "receive", "send", "ended"}
      BY DEF Init
    <2>4. /\ clock \in Nat /\ lag \in Nat /\ last_incoming_sequence_number \in Nat
          /\ current_outgoing_sequence_number \in Nat \ {0}
      BY DEF Init
    <2> QED
      BY <1>0, <2>2, <2>3, <2>4 DEF TypeInv
  <1>2. OrderInv /\ SentInOrder /\ RingInv
    BY DEF Init, OrderInv, SentInOrder, RingInv
  <1> QED
    BY <1>1, <1>2 DEF IInv

LEMMA SendMoveInv == IInv /\ SendMove => IInv'
  <1> SUFFICES ASSUME IInv, SendMove PROVE IInv'
    OBVIOUS
  <1> DEFINE c == current_outgoing_sequence_number
  <1> USE DEF IInv, measuring
  <1>1. PICK contents \in Contents : NetQW_Thread_SendPacket(c, contents, FALSE)
    BY DEF SendMove
  <1>2. /\ c \in Nat \ {0} /\ c' = c + 1
        /\ replyreceived' = [replyreceived EXCEPT ![Slot(c)] = 0]
        /\ UNCHANGED <<step, clock, lag, lag_ezcheat,
                       last_incoming_sequence_number, replied>>
        /\ step = "send"
    BY DEF SendMove, TypeInv
  <1>3. RingInv'
    <2>1. \A n \in replied' : n \in Nat /\ n < c'
      BY <1>2 DEF RingInv
    <2>2. ASSUME NEW n \in 1 .. c' - 1, n + PLPACKETHISTORYCOUNT > c'
          PROVE  (replyreceived[Slot(n)] = 1 <=> n \in replied)'
      <3>1. CASE n = c
        BY <3>1, <1>2, SlotType DEF RingInv, TypeInv
      <3>2. CASE n # c
        <4>1. n \in 1 .. c - 1 /\ n + PLPACKETHISTORYCOUNT > c /\ n < c
          BY <1>2, <2>2, <3>2
        <4>2. Slot(n) # Slot(c)
          BY <4>1, <1>2, <2>2, SlotsDiffer
        <4>3. replyreceived'[Slot(n)] = replyreceived[Slot(n)]
          BY <4>1, <4>2, <1>2, SlotType DEF TypeInv
        <4> QED
          BY <4>1, <4>3, <1>2 DEF RingInv
      <3> QED
        BY <3>1, <3>2
    <2> QED
      BY <2>1, <2>2, <1>2 DEF RingInv
  <1>4. CASE lag # 0
    <2> DEFINE p == [packet |-> Sent(c, FALSE, contents), delayuntil |-> clock + Delay]
    <2>1. wire' = wire /\ sendpackets' = Append(sendpackets, p)
      BY <1>1, <1>4 DEF NetQW_Thread_SendPacket
    <2>2. Delay \in Nat
      BY DEF TypeInv, Delay
    <2>3. /\ p \in Waiting
          /\ p.packet.sequence = c
      <3>1. clock + Delay \in Nat
        BY <2>2 DEF TypeInv
      <3>2. Sent(c, FALSE, contents) \in Packets /\ Sent(c, FALSE, contents).sequence = c
        BY <1>1, <1>2, ContentsType, SentType
      <3> QED
        BY <3>1, <3>2 DEF Waiting
    <2> HIDE DEF p
    <2>4. TypeInv'
      BY <1>2, <2>1, <2>3, SlotType DEF TypeInv
    <2>5. DOMAIN sendpackets' = DOMAIN sendpackets \cup {Len(sendpackets) + 1}
          /\ sendpackets'[Len(sendpackets) + 1] = p
          /\ \A k \in DOMAIN sendpackets : sendpackets'[k] = sendpackets[k]
                                           /\ k \in Nat /\ k < Len(sendpackets) + 1
      BY <2>1, <2>3 DEF TypeInv
    <2>6. sendpackets'[Len(sendpackets) + 1].packet.sequence = c
      BY <2>3, <2>5
    <2>7. c' > c /\ c \in Nat
      BY <1>2
    <2> DEFINE new == Len(sendpackets) + 1
    <2>8. OrderInv'
      <3>1. \A i \in DOMAIN wire : wire[i].sequence < c'
        BY <2>7, <1>2, Elements DEF OrderInv
      <3>2. \A k \in DOMAIN sendpackets' :
              /\ k # new => k \in DOMAIN sendpackets /\ k < new
                             /\ sendpackets'[k] = sendpackets[k]
                             /\ sendpackets'[k].packet.sequence < c
                             /\ sendpackets'[k].packet.sequence \in Nat
              /\ k = new => sendpackets'[k].packet.sequence = c
        BY <2>5, <2>6, Elements DEF OrderInv
      <3> HIDE DEF new
      <3>3. \A k \in DOMAIN sendpackets' : sendpackets'[k].packet.sequence < c'
        BY <3>2, <2>7, <1>2
      <3>4. \A k, l \in DOMAIN sendpackets' : k < l =>
              sendpackets'[k].packet.sequence < sendpackets'[l].packet.sequence
        <4> SUFFICES ASSUME NEW k \in DOMAIN sendpackets', NEW l \in DOMAIN sendpackets',
                            k < l
                     PROVE  sendpackets'[k].packet.sequence < sendpackets'[l].packet.sequence
          OBVIOUS
        <4>1. k # new
          BY <3>2, <2>5 DEF new
        <4>2. CASE l = new
          BY <4>1, <4>2, <3>2
        <4>3. CASE l # new
          BY <4>1, <4>3, <3>2 DEF OrderInv
        <4> QED
          BY <4>2, <4>3
      <3>5. \A i \in DOMAIN wire, k \in DOMAIN sendpackets' :
              /\ wire[i].sequence # sendpackets'[k].packet.sequence
              /\ sendpackets'[k].packet.sequence < wire[i].sequence => wire[i].past
        <4> SUFFICES ASSUME NEW i \in DOMAIN wire, NEW k \in DOMAIN sendpackets'
                     PROVE  /\ wire[i].sequence # sendpackets'[k].packet.sequence
                            /\ sendpackets'[k].packet.sequence < wire[i].sequence
                                 => wire[i].past
          OBVIOUS
        <4>1. wire[i].sequence < c /\ wire[i].sequence \in Nat
          BY Elements DEF OrderInv
        <4>2. CASE k = new
          BY <4>1, <4>2, <3>2, <2>7
        <4>3. CASE k # new
          BY <4>3, <3>2 DEF OrderInv
        <4> QED
          BY <4>2, <4>3
      <3> QED
        BY <3>1, <3>3, <3>4, <3>5, <2>1 DEF OrderInv
    <2>9. SentInOrder'
      BY <2>1 DEF SentInOrder
    <2> QED
      BY <2>4, <2>8, <2>9, <1>3
  <1>5. CASE lag = 0
    <2> DEFINE p == Sent(c, TRUE, contents)
    <2>1. wire' = Append(wire, p) /\ sendpackets' = sendpackets
      BY <1>1, <1>5 DEF NetQW_Thread_SendPacket
    <2>2. p \in Packets /\ p.sequence = c /\ p.past = TRUE
      BY <1>1, <1>2, ContentsType, SentType
    <2> HIDE DEF p
    <2>3. TypeInv'
      BY <1>2, <2>1, <2>2, SlotType DEF TypeInv
    <2>4. DOMAIN wire' = DOMAIN wire \cup {Len(wire) + 1}
          /\ wire'[Len(wire) + 1] = p
          /\ \A i \in DOMAIN wire : wire'[i] = wire[i] /\ i \in Nat /\ i < Len(wire) + 1
      BY <2>1, <2>2 DEF TypeInv
    <2>7. OrderInv'
      BY <1>2, <2>1, <2>2, <2>4, Elements, SMTT(20) DEF OrderInv
    <2>8. SentInOrder'
      BY <1>2, <2>2, <2>4, Elements DEF OrderInv, SentInOrder
    <2> QED
      BY <2>3, <2>7, <2>8, <1>3
  <1> QED
    BY <1>4, <1>5

\* Clearing the waiting times keeps the packets.
LEMMA CheckedKeeps ==
  ASSUME TypeInv
  PROVE  /\ Checked \in Seq(Waiting) /\ Len(Checked) = Len(sendpackets)
         /\ \A k \in DOMAIN sendpackets : Checked[k].packet = sendpackets[k].packet
  <1>1. CASE Checked = sendpackets
    BY <1>1 DEF TypeInv
  <1>2. CASE Checked # sendpackets
    <2> DEFINE e(k) == [sendpackets[k] EXCEPT !.delayuntil = clock]
    <2>1. Checked = [k \in DOMAIN sendpackets |-> e(k)]
      BY <1>2 DEF Checked
    <2>2. \A w \in Waiting : /\ [w EXCEPT !.delayuntil = clock] \in Waiting
                             /\ [w EXCEPT !.delayuntil = clock].packet = w.packet
      BY DEF Waiting, TypeInv
    <2>3. \A k \in DOMAIN sendpackets : e(k) \in Waiting
                                      /\ e(k).packet = sendpackets[k].packet
      BY <2>2, Elements
    <2> HIDE DEF e
    <2>4. Len(sendpackets) \in Nat /\ DOMAIN sendpackets = 1 .. Len(sendpackets)
      BY DEF TypeInv
    <2> QED
      BY <2>1, <2>3, <2>4
  <1> QED
    BY <1>1, <1>2

LEMMA ReleaseInv == IInv /\ Release => IInv'
  <1> SUFFICES ASSUME IInv, Release PROVE IInv'
    OBVIOUS
  <1> DEFINE c == current_outgoing_sequence_number
             q == sendpackets
             w == wire
  <1> USE DEF IInv, measuring
  <1>1. PICK n \in 0 .. Len(Checked) :
               /\ wire' = wire \o [i \in 1 .. n |-> Checked[i].packet]
               /\ sendpackets' = SubSeq(Checked, n + 1, Len(Checked))
    BY DEF Release
  <1>2. /\ c \in Nat \ {0} /\ step' = "receive" /\ step = "release"
        /\ UNCHANGED <<clock, lag, lag_ezcheat, replyreceived,
                       last_incoming_sequence_number, replied, c>>
    BY DEF Release, TypeInv
  <1> DEFINE out == [i \in 1 .. n |-> Checked[i].packet]
             L == Len(sendpackets)
             W == Len(wire)
  <1>3. /\ L \in Nat /\ W \in Nat /\ n \in Nat /\ n <= L
        /\ DOMAIN sendpackets = 1 .. L /\ DOMAIN wire = 1 .. W
    BY <1>1, CheckedKeeps DEF TypeInv
  <1>4. /\ out \in Seq(Packets) /\ Len(out) = n
        /\ \A i \in 1 .. n : out[i] = sendpackets[i].packet
    <2>1. \A i \in 1 .. n : Checked[i].packet = sendpackets[i].packet
                           /\ sendpackets[i].packet \in Packets
      BY <1>3, CheckedKeeps, Elements, SMTT(20)
    <2> QED
      BY <2>1, <1>3
  <1>5. /\ wire' \in Seq(Packets) /\ DOMAIN wire' = 1 .. W + n
        /\ \A i \in 1 .. W + n : wire'[i] = IF i <= W THEN wire[i]
                                              ELSE sendpackets[i - W].packet
    <2>1. wire' = wire \o out
      BY <1>1
    <2> HIDE DEF out, L, W
    <2>2. /\ wire \in Seq(Packets) /\ Len(wire) = W
          /\ out \in Seq(Packets) /\ Len(out) = n
      BY <1>4 DEF TypeInv, W
    <2>3. /\ wire' \in Seq(Packets) /\ Len(wire') = W + n
          /\ \A i \in 1 .. W + n : wire'[i] = IF i <= W THEN wire[i] ELSE out[i - W]
      BY <2>1, <2>2, ConcatProperties
    <2>4. \A i \in 1 .. W + n : i > W => i - W \in 1 .. n
      BY <1>3
    <2>5. DOMAIN wire' = 1 .. W + n
      BY <2>3
    <2>6. ASSUME NEW i \in 1 .. W + n
          PROVE  wire'[i] = IF i <= W THEN wire[i] ELSE sendpackets[i - W].packet
      <3>1. CASE i <= W
        BY <3>1, <2>3
      <3>2. CASE i > W
        BY <3>2, <2>3, <2>4, <1>4
      <3> QED
        BY <3>1, <3>2, <1>3
    <2> QED
      BY <2>3, <2>5, <2>6
  <1>6. /\ sendpackets' \in Seq(Waiting) /\ DOMAIN sendpackets' = 1 .. L - n
        /\ \A k \in 1 .. L - n : sendpackets'[k].packet = sendpackets[k + n].packet
    <2> DEFINE C == Checked
    <2>1. C \in Seq(Waiting) /\ Len(C) = L
      BY CheckedKeeps
    <2>2. \A k \in 1 .. L - n : C[k + n].packet = sendpackets[k + n].packet
      BY CheckedKeeps, <1>3, SMTT(20)
    <2>3. sendpackets' = SubSeq(C, n + 1, L)
      BY <1>1, <2>1
    <2> HIDE DEF C
    <2> HIDE DEF L
    <2>4. n + 1 \in 1 .. L + 1 /\ L \in n .. L /\ (n + 1) - 1 = n /\ L - (n + 1) + 1 = L - n
      BY <1>3
    <2>5. /\ sendpackets' \in Seq(Waiting) /\ Len(sendpackets') = L - n
          /\ \A k \in 1 .. L - n : sendpackets'[k] = C[(n + 1) + k - 1]
      BY <2>1, <2>3, <2>4, SubSeqProperties
    <2>6. \A k \in 1 .. L - n : (n + 1) + k - 1 = k + n
      BY <1>3
    <2>7. DOMAIN sendpackets' = 1 .. L - n
      BY <2>5
    <2> QED
      BY <2>2, <2>5, <2>6, <2>7
  <1> HIDE DEF out, L, W
  <1>7. TypeInv'
    BY <1>2, <1>5, <1>6 DEF TypeInv
  <1>8. RingInv'
    BY <1>2 DEF RingInv
  <1> DEFINE sq(i) == wire[i].sequence
             pq(k) == sendpackets[k].packet.sequence
  <1>9. /\ \A i \in 1 .. W : sq(i) \in Nat /\ sq(i) < c
        /\ \A k \in 1 .. L : pq(k) \in Nat /\ pq(k) < c
        /\ \A k, l \in 1 .. L : k < l => pq(k) < pq(l)
        /\ \A i \in 1 .. W, k \in 1 .. L :
             sq(i) # pq(k) /\ (pq(k) < sq(i) => wire[i].past)
        /\ \A i, j \in 1 .. W : i < j =>
             sq(i) # sq(j) /\ (sq(j) < sq(i) => wire[i].past)
    BY <1>3, Elements DEF OrderInv, SentInOrder
  <1>10. \A i \in 1 .. W + n :
           \/ i \in 1 .. W /\ wire'[i] = wire[i]
           \/ i > W /\ i - W \in 1 .. L /\ i - W <= n /\ wire'[i].sequence = pq(i - W)
    BY <1>3, <1>5
  <1>11. \A k \in 1 .. L - n : k + n \in 1 .. L /\ k + n > n
                               /\ sendpackets'[k].packet.sequence = pq(k + n)
    <2>1. ASSUME NEW k \in 1 .. L - n
          PROVE  k + n \in 1 .. L /\ k + n > n
      BY ONLY <1>3, k \in 1 .. L - n
    <2>2. \A k \in 1 .. L - n : sendpackets'[k].packet.sequence = pq(k + n)
      BY <1>6, Zenon
    <2> QED
      BY <2>1, <2>2
  <1>12. OrderInv'
    <2>1. \A i \in DOMAIN wire' : wire'[i].sequence < c
      BY <1>9, <1>10, <1>5
    <2>2. \A k \in DOMAIN sendpackets' : sendpackets'[k].packet.sequence < c
      BY <1>9, <1>11, <1>6
    <2>3. \A k, l \in DOMAIN sendpackets' : k < l =>
            sendpackets'[k].packet.sequence < sendpackets'[l].packet.sequence
      <3> SUFFICES ASSUME NEW k \in 1 .. L - n, NEW l \in 1 .. L - n, k < l
                   PROVE  sendpackets'[k].packet.sequence
                            < sendpackets'[l].packet.sequence
        BY <1>6
      <3>1. k + n < l + n
        BY <1>3
      <3>2. pq(k + n) < pq(l + n)
        BY <3>1, <1>9, <1>11
      <3> QED
        BY <3>2, <1>11
    <2>4. ASSUME NEW i \in DOMAIN wire', NEW k \in DOMAIN sendpackets'
          PROVE  /\ wire'[i].sequence # sendpackets'[k].packet.sequence
                 /\ sendpackets'[k].packet.sequence < wire'[i].sequence => wire'[i].past
      <3>1. CASE i \in 1 .. W
        <4>1. k \in 1 .. L - n
          BY <1>6
        <4>2. i \in 1 .. W + n /\ ~(i > W)
          BY <3>1, <1>3
        <4>3. wire'[i] = wire[i]
          BY <4>2, <1>10
        <4> QED
          BY <4>1, <4>3, <3>1, <1>9, <1>11
      <3>2. CASE i > W
        <4>1. i - W \in 1 .. L /\ i - W < k + n /\ wire'[i].sequence = pq(i - W)
          BY <3>2, <1>3, <1>10, <1>11, <1>5, <1>6, SMTT(20)
        <4>2. pq(i - W) < pq(k + n) /\ pq(i - W) \in Nat /\ pq(k + n) \in Nat
          BY <4>1, <1>9, <1>11, <1>6
        <4> QED
          BY <4>1, <4>2, <1>11, <1>6, SMTT(20)
      <3> QED
        BY <3>1, <3>2, <1>3, <1>5
    <2> QED
      BY <2>1, <2>2, <2>3, <2>4, <1>2 DEF OrderInv
  <1>13. SentInOrder'
    <2> SUFFICES ASSUME NEW i \in DOMAIN wire', NEW j \in DOMAIN wire', i < j
                 PROVE  /\ wire'[i].sequence # wire'[j].sequence
                        /\ wire'[j].sequence < wire'[i].sequence => wire'[i].past
      BY DEF SentInOrder
    <2>1. CASE i > W
      <3>1. /\ i - W \in 1 .. L /\ j - W \in 1 .. L /\ i - W < j - W
            /\ wire'[i].sequence = pq(i - W) /\ wire'[j].sequence = pq(j - W)
        <4>1. i \in 1 .. W + n /\ j \in 1 .. W + n /\ j > W /\ i - W < j - W
          BY <2>1, <1>3, <1>5
        <4>2. ~(i \in 1 .. W) /\ ~(j \in 1 .. W)
          BY <4>1, <2>1, <1>3
        <4> QED
          BY <4>1, <4>2, <1>10
      <3>2. pq(i - W) < pq(j - W) /\ pq(i - W) \in Nat /\ pq(j - W) \in Nat
        BY <3>1, <1>9
      <3> QED
        BY <3>1, <3>2
    <2>2. CASE i <= W
      <3>1. i \in 1 .. W /\ wire'[i] = wire[i]
        BY <2>2, <1>3, <1>5, <1>10
      <3>2. CASE j \in 1 .. W /\ wire'[j] = wire[j]
        BY <3>1, <3>2, <1>9
      <3>3. CASE j - W \in 1 .. L /\ wire'[j].sequence = pq(j - W)
        BY <3>1, <3>3, <1>9
      <3> QED
        BY <3>2, <3>3, <1>10, <1>5
    <2> QED
      BY <2>1, <2>2, <1>3, <1>5
  <1> QED
    BY <1>7, <1>8, <1>12, <1>13

LEMMA DisconnectInv == IInv /\ NetQW_Thread_Disconnect => IInv'
  <1> SUFFICES ASSUME IInv, NetQW_Thread_Disconnect PROVE IInv'
    OBVIOUS
  <1> DEFINE c == current_outgoing_sequence_number
             W == Len(wire)
             drop(i) == Sent(c + i - 1, TRUE, <<0>>)
             drops == [i \in 1 .. 3 |-> drop(i)]
  <1> USE DEF IInv, measuring
  <1>1. /\ c \in Nat \ {0} /\ c' = c + 3 /\ step' = "ended"
        /\ UNCHANGED <<clock, lag, lag_ezcheat, sendpackets, replyreceived,
                       last_incoming_sequence_number, replied>>
        /\ wire' = wire \o drops
        /\ W \in Nat /\ DOMAIN wire = 1 .. W
    BY DEF NetQW_Thread_Disconnect, TypeInv
  <1>2. /\ drops \in Seq(Packets) /\ Len(drops) = 3
        /\ \A i \in 1 .. 3 : drops[i].sequence = c + i - 1 /\ drops[i].past = TRUE
    <2>1. \A i \in 1 .. 3 : c + i - 1 \in Nat \ {0}
      BY <1>1
    <2>2. \A i \in 1 .. 3 : /\ drop(i) \in Packets
                            /\ drop(i).sequence = c + i - 1 /\ drop(i).past = TRUE
      BY <2>1, ContentsType, SentType
    <2> HIDE DEF drop
    <2>3. drops \in Seq(Packets) /\ Len(drops) = 3
      BY <2>2
    <2>4. \A i \in 1 .. 3 : drops[i] = drop(i)
      OBVIOUS
    <2> QED
      BY <2>2, <2>3, <2>4
  <1> HIDE DEF drops
  <1>3. /\ wire' \in Seq(Packets) /\ Len(wire') = W + 3
        /\ \A i \in 1 .. W + 3 : wire'[i] = IF i <= W THEN wire[i] ELSE drops[i - W]
    <2>1. wire \in Seq(Packets)
      BY DEF TypeInv
    <2>2. wire' = wire \o drops
      BY <1>1
    <2>3. Len(wire) = W
      OBVIOUS
    <2>4. drops \in Seq(Packets) /\ Len(drops) = 3
      BY <1>2
    <2> HIDE DEF W
    <2>5. /\ wire \o drops \in Seq(Packets)
          /\ Len(wire \o drops) = Len(wire) + Len(drops)
          /\ \A i \in 1 .. Len(wire) + Len(drops) :
               (wire \o drops)[i] = IF i <= Len(wire) THEN wire[i] ELSE drops[i - Len(wire)]
      BY <2>1, <2>4, ConcatProperties
    <2> QED
      BY <2>2, <2>3, <2>4, <2>5
  <1> HIDE DEF W
  <1>4. DOMAIN wire' = 1 .. W + 3
    BY <1>3
  <1>5. \A i \in DOMAIN wire' :
          \/ i <= W /\ i \in DOMAIN wire /\ wire'[i] = wire[i]
          \/ i > W /\ wire'[i].sequence = c + i - W - 1 /\ wire'[i].past = TRUE
             /\ i - W \in 1 .. 3
    <2> SUFFICES ASSUME NEW i \in DOMAIN wire'
                 PROVE  \/ i <= W /\ i \in DOMAIN wire /\ wire'[i] = wire[i]
                        \/ i > W /\ wire'[i].sequence = c + i - W - 1
                           /\ wire'[i].past = TRUE /\ i - W \in 1 .. 3
      OBVIOUS
    <2>1. CASE i <= W
      BY <2>1, <1>1, <1>3, <1>4
    <2>2. CASE i > W
      <3>1. i \in 1 .. W + 3
        BY <1>4
      <3>2. i - W \in 1 .. 3
        BY <2>2, <3>1, <1>1
      <3>3. wire'[i] = drops[i - W]
        BY <2>2, <3>1, <1>3, <1>1
      <3>4. drops[i - W].sequence = c + i - W - 1 /\ drops[i - W].past = TRUE
        BY <3>1, <3>2, <1>1, <1>2
      <3>5. wire'[i].sequence = c + i - W - 1 /\ wire'[i].past = TRUE
        BY <3>3, <3>4
      <3> QED
        BY <2>2, <3>2, <3>5
    <2>3. i <= W \/ i > W
      BY <1>1, <1>4
    <2> QED
      BY <2>1, <2>2, <2>3
  <1>6. TypeInv'
    BY <1>1, <1>3 DEF TypeInv
  <1>7. RingInv'
    BY <1>1 DEF RingInv
  <1>8. OrderInv'
    <2>1. \A i \in DOMAIN wire' : wire'[i].sequence < c'
      <3> SUFFICES ASSUME NEW i \in DOMAIN wire' PROVE wire'[i].sequence < c'
        OBVIOUS
      <3>1. CASE i <= W
        <4>1. i \in DOMAIN wire /\ wire'[i] = wire[i]
          BY <3>1, <1>1, <1>4, <1>5
        <4> QED
          BY <4>1, <1>1, Elements DEF OrderInv
      <3>2. CASE i > W
        BY <3>2, <1>1, <1>4, <1>5, SMTT(20)
      <3> QED
        BY <3>1, <3>2, <1>1, <1>4
    <2>2. \A k \in DOMAIN sendpackets : sendpackets[k].packet.sequence < c'
      BY <1>1, Elements DEF OrderInv
    <2>3. \A i \in DOMAIN wire', k \in DOMAIN sendpackets :
            /\ wire'[i].sequence # sendpackets[k].packet.sequence
            /\ sendpackets[k].packet.sequence < wire'[i].sequence => wire'[i].past
      BY <1>1, <1>5, Elements DEF OrderInv
    <2> QED
      BY <2>1, <2>2, <2>3, <1>1 DEF OrderInv
  <1>9. SentInOrder'
    <2> SUFFICES ASSUME NEW i \in DOMAIN wire', NEW j \in DOMAIN wire', i < j
                 PROVE  /\ wire'[i].sequence # wire'[j].sequence
                        /\ wire'[j].sequence < wire'[i].sequence => wire'[i].past
      BY DEF SentInOrder
    <2>1. CASE j <= W
      BY <2>1, <1>1, <1>4, <1>5 DEF SentInOrder
    <2>2. CASE i <= W /\ j > W
      <3>1. i \in DOMAIN wire /\ wire'[i] = wire[i]
        BY <2>2, <1>1, <1>4, <1>5
      <3>2. wire[i].sequence \in Nat /\ wire[i].sequence < c
        BY <3>1, Elements DEF OrderInv
      <3>3. wire'[j].sequence >= c
        <4>1. j - W \in 1 .. 3 /\ wire'[j].sequence = c + j - W - 1
          BY <2>2, <1>1, <1>4, <1>5, SMTT(20)
        <4>2. j \in Nat /\ W \in Nat /\ c \in Nat
          BY <1>1, <1>4
        <4> QED
          BY ONLY <4>1, <4>2
      <3>4. wire'[j].sequence \in Nat
        BY <2>2, <1>1, <1>4, <1>5, SMTT(20)
      <3> QED
        BY <3>1, <3>2, <3>3, <3>4, <1>1, SMTT(20)
    <2>3. CASE i > W
      <3>1. i - W \in 1 .. 3 /\ j - W \in 1 .. 3 /\ i - W < j - W
            /\ ~(i <= W) /\ ~(j <= W)
        BY <2>3, <1>1, <1>4, <1>5
      <3>2. /\ wire'[i].sequence = c + i - W - 1
            /\ wire'[j].sequence = c + j - W - 1
        BY <3>1, <1>5
      <3>3. W \in Nat /\ i \in Nat /\ j \in Nat /\ c \in Nat
        BY <1>1, <1>4
      <3> HIDE DEF c
      <3>4. c + i - W - 1 < c + j - W - 1
        BY <3>3
      <3> QED
        BY <3>2, <3>3, <3>4
    <2> QED
      BY <2>1, <2>2, <2>3, <1>1, <1>4, SMTT(20)
  <1> QED
    BY <1>6, <1>7, <1>8, <1>9

LEMMA ReceiveInv == IInv /\ Receive => IInv'
  <1> SUFFICES ASSUME IInv, Receive PROVE IInv'
    OBVIOUS
  <1> DEFINE c == current_outgoing_sequence_number
             N == PLPACKETHISTORYCOUNT
  <1> USE DEF IInv, sending
  <1>1. PICK i \in DOMAIN wire :
          /\ NetQW_Thread_HandleReceivedPacket(wire[i].sequence)
          /\ last_incoming_sequence_number' = wire[i].sequence
          /\ replied' = replied \cup {wire[i].sequence}
    BY DEF Receive
  <1> DEFINE s == wire[i].sequence
  <1>2. /\ s \in Nat \ {0} /\ s < c /\ c \in Nat \ {0} /\ N \in Nat \ {0}
        /\ last_incoming_sequence_number' = s /\ replied' = replied \cup {s}
        /\ UNCHANGED <<step, clock, lag, lag_ezcheat, sendpackets, wire,
                       current_outgoing_sequence_number>>
    BY <1>1, Elements DEF Receive, OrderInv, TypeInv
  <1>3. IF s + N > c THEN replyreceived' = [replyreceived EXCEPT ![Slot(s)] = 1]
        ELSE replyreceived' = replyreceived
    BY <1>1 DEF NetQW_Thread_HandleReceivedPacket
  <1> HIDE DEF s
  <1>4. replyreceived' \in [Slots -> {0, 1}]
    BY <1>2, <1>3, SlotType DEF TypeInv
  <1>5. TypeInv'
    BY <1>2, <1>4 DEF TypeInv
  <1>6. OrderInv' /\ SentInOrder'
    BY <1>2 DEF OrderInv, SentInOrder
  <1>7. RingInv'
    <2>1. \A n \in replied' : n \in Nat /\ n < c'
      BY <1>2 DEF RingInv
    <2>2. ASSUME step # "ended", NEW n \in 1 .. c - 1, n + N > c
          PROVE  replyreceived'[Slot(n)] = 1 <=> n \in replied'
      <3>0. replyreceived[Slot(n)] = 1 <=> n \in replied
        BY <2>2 DEF RingInv
      <3>1. CASE s + N > c /\ n = s
        BY <3>1, <1>2, <1>3, SlotType DEF TypeInv
      <3>2. CASE s + N > c /\ n # s
        <4>1. Slot(n) # Slot(s)
          <5>1. CASE n < s
            BY <5>1, <1>2, <2>2, SlotsDiffer
          <5>2. CASE s < n
            BY <5>2, <3>2, <1>2, <2>2, SlotsDiffer
          <5> QED
            BY <5>1, <5>2, <3>2, <1>2, <2>2
        <4>2. n \in Nat
          BY <1>2
        <4>3. replyreceived'[Slot(n)] = replyreceived[Slot(n)]
          BY <4>1, <4>2, <3>2, <1>2, <1>3, SlotType DEF TypeInv
        <4> QED
          BY <4>3, <3>0, <3>2, <1>2
      <3>3. CASE ~(s + N > c)
        BY <3>3, <3>0, <2>2, <1>2, <1>3
      <3> QED
        BY <3>1, <3>2, <3>3
    <2> QED
      BY <2>1, <2>2, <1>2 DEF RingInv
  <1> QED
    BY <1>5, <1>6, <1>7

\* The application and the clock.
LEMMA OtherInv ==
  ASSUME IInv,
         Sleep \/ NothingReceived \/ NetQW_SetLag \/ NetQW_SetLagEzcheat \/ Tick \/ JumpBack
  PROVE  IInv'
  <1>1. /\ UNCHANGED <<sending, measuring, replyreceived>>
        /\ step = "ended" => step' = "ended"
    BY DEF Sleep, NothingReceived, NetQW_SetLag, NetQW_SetLagEzcheat, Tick, JumpBack, IInv
  <1>2. /\ step' \in {"release", "receive", "send", "ended"}
        /\ clock' \in Nat /\ lag' \in Nat /\ lag_ezcheat' \in BOOLEAN
    <2>1. CASE Sleep \/ NothingReceived
      BY <2>1 DEF IInv, TypeInv, Sleep, NothingReceived
    <2>2. CASE NetQW_SetLag
      BY <2>2 DEF IInv, TypeInv, NetQW_SetLag
    <2>3. CASE NetQW_SetLagEzcheat
      BY <2>3 DEF IInv, TypeInv, NetQW_SetLagEzcheat
    <2>4. CASE Tick \/ JumpBack
      BY <2>4 DEF IInv, TypeInv, Tick, JumpBack
    <2> QED
      BY <2>1, <2>2, <2>3, <2>4
  <1>3. TypeInv'
    BY <1>1, <1>2 DEF IInv, TypeInv, sending, measuring
  <1>4. OrderInv' /\ SentInOrder' /\ RingInv'
    BY <1>1 DEF IInv, OrderInv, SentInOrder, RingInv, sending, measuring
  <1> QED
    BY <1>3, <1>4 DEF IInv

LEMMA NextInv == IInv /\ [Next]_vars => IInv'
  <1> SUFFICES ASSUME IInv, [Next]_vars PROVE IInv'
    OBVIOUS
  <1>1. CASE UNCHANGED vars
    <2>1. /\ TypeInv => TypeInv'
          /\ OrderInv => OrderInv'
          /\ SentInOrder => SentInOrder'
          /\ RingInv => RingInv'
      BY <1>1 DEF vars, sending, measuring, TypeInv, OrderInv, SentInOrder, RingInv
    <2> QED
      BY <2>1 DEF IInv
  <1>2. CASE Next
    BY <1>2, SendMoveInv, ReleaseInv, DisconnectInv, ReceiveInv, OtherInv DEF Next
  <1> QED
    BY <1>1, <1>2

(* Whatever the lags, the clock and the compressed contents, what waits and what was *)
(* sent is in order, and the slots of the last packets tell which were answered      *)
(* (NetQW_Thread_SendPacket, NetQW_Thread and NetQW_Thread_HandleReceivedPacket).    *)
THEOREM Invariance == Spec => []IInv
  <1>1. Init => IInv
    BY InitInv
  <1>2. IInv /\ [Next]_vars => IInv'
    BY NextInv
  <1> QED
    BY <1>1, <1>2, PTL DEF Spec

(* No packet is sent twice, and one is overtaken only by packets that did not wait,   *)
(* although the lag and its mode change and the clock jumps.                        *)
THEOREM SentInOrderAlways == Spec => []SentInOrder
  <1>1. IInv => SentInOrder
    BY DEF IInv
  <1> QED
    BY <1>1, Invariance, PTL

(* Every packet Huff_CompressPacket has compressed, or left as it is, is read as it   *)
(* was by Huff_DecompressPacket, for any tables as TablesAssumption wants them.       *)
THEOREM SentIsReadableAlways == Spec => []SentIsReadable
  <1>1. IInv => SentIsReadable
    <2>1. \A p \in Packets : p.readable
      BY DEF Packets
    <2> QED
      BY <2>1, Elements DEF IInv, SentIsReadable
  <1> QED
    BY <1>1, Invariance, PTL

-----------------------------------------------------------------------------
(* The packet loss. *)

\* Rounding up.
LEMMA Share ==
  ASSUME NEW x \in Nat, NEW d \in Nat \ {0}
  PROVE  LET p == (x * 100 + d - 1) \div d
         IN  (p - 1) * d < 100 * x /\ 100 * x <= p * d
  <1> DEFINE y == x * 100 + d - 1
             p == y \div d
  <1>1. y \in Nat /\ d \in Nat /\ d > 0 /\ y = 100 * x + d - 1 /\ 100 * x \in Nat
    OBVIOUS
  <1> HIDE DEF y
  <1>2. p \in Nat /\ y % d \in 0 .. d - 1 /\ y = d * p + (y % d)
    BY <1>1
  <1> HIDE DEF p
  <1>3. p * d = d * p /\ d * p \in Nat /\ (p - 1) * d = d * p - d
    BY <1>2, <1>1
  <1> DEFINE r == y % d
             dp == d * p
  <1>4. dp \in Nat /\ r \in Nat /\ r < d /\ y = dp + r
    BY <1>1, <1>2, <1>3
  <1>5. (p - 1) * d = dp - d /\ p * d = dp
    BY <1>3
  <1> HIDE DEF r, dp
  <1>6. dp - d < 100 * x /\ 100 * x <= dp
    BY <1>1, <1>4
  <1> QED
    BY <1>5, <1>6 DEF p, y

\* The loop counts the judged packets without a reply.
LEMMA LostCount ==
  ASSUME NEW s \in Nat \ {0}, NEW c \in Nat \ {0}, s < c, s + PLPACKETHISTORYCOUNT > c,
         c = current_outgoing_sequence_number,
         NEW ring \in [Slots -> {0, 1}], NEW answered,
         \A n \in 1 .. c - 1 : n + PLPACKETHISTORYCOUNT > c =>
           (ring[Slot(n)] = 1 <=> n \in answered)
  PROVE  LET counted == {i \in Window(s) : ring[Slot(s - i)] = 0}
             lost == Judged(s) \ answered
         IN  Cardinality(counted) = Cardinality(lost) /\ Cardinality(lost) \in Nat
  <1> DEFINE N == PLPACKETHISTORYCOUNT
             j == (IF c > N THEN N ELSE c) - (c - s + 1)
             counted == {i \in Window(s) : ring[Slot(s - i)] = 0}
             lost == Judged(s) \ answered
             f == [i \in counted |-> s - i]
  <1>1. Window(s) = 0 .. j - 1 /\ j \in Int
    BY DEF Window
  <1>2. \A i \in Window(s) : s - i \in Judged(s) /\ i \in Nat
    BY <1>1 DEF Judged
  <1>3. \A n \in Judged(s) : s - n \in Window(s) /\ n \in Nat /\ s - (s - n) = n
    BY <1>1 DEF Judged
  <1>4. \A n \in Judged(s) : n \in 1 .. c - 1 /\ n + N > c
    BY DEF Judged
  <1>5. \A n \in Judged(s) : ring[Slot(n)] = 0 <=> n \notin answered
    BY <1>3, <1>4, SlotType
  <1> HIDE DEF N, j
  <1>6. IsFiniteSet(counted)
    <2>1. j - 1 \in Int
      BY <1>1
    <2>2. IsFiniteSet(0 .. j - 1)
      BY <2>1, FS_Interval
    <2> QED
      BY <2>2, <1>1, FS_Subset
  <1>7. \A i \in counted : s - i \in lost
    BY <1>2, <1>5
  <1>8. \A n \in lost : s - n \in counted /\ s - (s - n) = n
    BY <1>3, <1>5
  <1>9. f \in Bijection(counted, lost)
    <2>1. f \in [counted -> lost]
      BY <1>7
    <2>2. \A a, b \in counted : f[a] = f[b] => a = b
      BY <1>2
    <2>3. \A n \in lost : \E i \in counted : f[i] = n
      BY <1>8
    <2> HIDE DEF f, counted, lost
    <2>4. f \in Injection(counted, lost)
      BY <2>1, <2>2 DEF Injection, IsInjective
    <2>5. f \in Surjection(counted, lost)
      BY <2>1, <2>3 DEF Surjection
    <2> QED
      BY <2>4, <2>5 DEF Bijection
  <1>10. Cardinality(lost) = Cardinality(counted) /\ IsFiniteSet(lost)
    <2> HIDE DEF f, counted, lost
    <2> QED
      BY <1>6, <1>9, FS_Bijection DEF ExistsBijection
  <1> QED
    BY <1>10, FS_CardinalityType

(* The packet loss is the share of the ring's slots, rounded up, of the judged       *)
(* packets without a reply, for a ring of any length, whatever it held at first     *)
(* (netqw.c:440-459).                                                               *)
THEOREM LossIsShareAlways == Spec => LossIsShare
  <1> DEFINE s == last_incoming_sequence_number'
             c == current_outgoing_sequence_number
             N == PLPACKETHISTORYCOUNT
             lost == Cardinality(Judged(s) \ replied')
             Step == last_incoming_sequence_number' # last_incoming_sequence_number =>
                       IF s + N > c
                       THEN (packetloss' - 1) * N < 100 * lost /\ 100 * lost <= packetloss' * N
                       ELSE packetloss' = packetloss
  <1>1. ASSUME IInv, IInv', [Next]_vars PROVE [Step]_vars
    <2>1. CASE Receive
      <3>1. PICK i \in DOMAIN wire :
              /\ NetQW_Thread_HandleReceivedPacket(wire[i].sequence)
              /\ last_incoming_sequence_number' = wire[i].sequence
        BY <2>1 DEF Receive
      <3>2. /\ s \in Nat \ {0} /\ s < c /\ c \in Nat \ {0} /\ c' = c
            /\ step' # "ended" /\ replyreceived' \in [Slots -> {0, 1}]
        BY <2>1, <3>1, <1>1, Elements DEF IInv, OrderInv, TypeInv, Receive, sending
      <3>3. CASE s + N > c
        <4>1. \A n \in 1 .. c - 1 : n + N > c =>
                (replyreceived'[Slot(n)] = 1 <=> n \in replied')
          BY <3>2, <1>1 DEF IInv, RingInv
        <4> DEFINE counted == {k \in Window(s) : replyreceived'[Slot(s - k)] = 0}
        <4>2. Cardinality(counted) = lost /\ lost \in Nat
          BY <3>2, <3>3, <4>1, LostCount
        <4>3. packetloss' = (Cardinality(counted) * 100 + N - 1) \div N
          BY <3>1, <3>3 DEF NetQW_Thread_HandleReceivedPacket
        <4> HIDE DEF counted, lost
        <4>4. (packetloss' - 1) * N < 100 * lost /\ 100 * lost <= packetloss' * N
          BY <4>2, <4>3, Share
        <4> QED
          BY <3>3, <4>4 DEF lost
      <3>4. CASE ~(s + N > c)
        BY <3>1, <3>4 DEF NetQW_Thread_HandleReceivedPacket
      <3> QED
        BY <3>3, <3>4
    <2>2. CASE ~Receive
      BY <2>2, <1>1 DEF Next, vars, SendMove, Sleep, NetQW_Thread_Disconnect, Release,
        NothingReceived, NetQW_SetLag, NetQW_SetLagEzcheat, Tick, JumpBack, measuring
    <2> QED
      BY <2>1, <2>2
  <1>2. Spec => [][Step]_vars
    BY <1>1, Invariance, PTL DEF Spec
  <1> QED
    BY <1>2 DEF LossIsShare

=============================================================================
