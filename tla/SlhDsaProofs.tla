---------------------------- MODULE SlhDsaProofs ----------------------------
(***************************************************************************)
(* Proofs about SlhDsa, for every parameter set whose numbers fit          *)
(* together: trees of any height, any number of layers, of FORS trees and  *)
(* of messages.                                                            *)
(***************************************************************************)
EXTENDS SlhDsa, FiniteSetTheorems, SequenceTheorems, TLAPS

-----------------------------------------------------------------------------
(* The loops of the model, each a recursion with a step of its own.        *)

BytesStep(bytes, i, v) == 256 * v + bytes[i]

Bytes == INSTANCE Recursion WITH Step <- BytesStep

WithByte(x, s) == [s EXCEPT !.bits = @ + 8, !.i = @ + 1, !.total = @ * 256 + x[s.i + 1]]

LoadStep(e, k, s) == IF s.bits >= e.B THEN s ELSE WithByte(e.x, s)

Load == INSTANCE Recursion WITH Step <- LoadStep

DigitStep(e, n, s) == unloaded(e.B, loaded(e.x, e.B, s))

Digit == INSTANCE Recursion WITH Step <- DigitStep

-----------------------------------------------------------------------------
(* Powers of two.  The library counts the subsets of a set with them; that *)
(* one more element makes twice as many is what the provers need to know.  *)

\* One more element doubles the number of subsets.
LEMMA PowerNext ==
  ASSUME NEW n \in Nat
  PROVE  2^n \in Nat /\ 2^(n + 1) = 2 * 2^n
<1> DEFINE A == 1 .. n
           x == n + 1
           Without == SUBSET A
           With == {B \cup {x} : B \in Without}
<1>1. IsFiniteSet(A) /\ Cardinality(A) = n /\ IsFiniteSet(1 .. x) /\ Cardinality(1 .. x) = x
  BY FS_Interval
<1>2. /\ IsFiniteSet(Without) /\ Cardinality(Without) = 2^n
      /\ IsFiniteSet(SUBSET (1 .. x)) /\ Cardinality(SUBSET (1 .. x)) = 2^x
  BY <1>1, FS_SUBSET
<1>3. x \notin A /\ 1 .. x = A \cup {x}
  OBVIOUS
<1> HIDE DEF A, x
<1>4. SUBSET (A \cup {x}) = Without \cup With
  <2>1. ASSUME NEW C \in SUBSET (A \cup {x})
        PROVE  C \in Without \cup With
    <3>1. CASE x \in C
      <4>1. C \ {x} \in Without /\ C = (C \ {x}) \cup {x}
        BY <3>1
      <4> QED
        BY <4>1
    <3>2. CASE x \notin C
      BY <3>2
    <3> QED
      BY <3>1, <3>2
  <2>2. ASSUME NEW C \in Without \cup With
        PROVE  C \in SUBSET (A \cup {x})
    OBVIOUS
  <2> QED
    BY <2>1, <2>2
<1>5. Without \cap With = {}
  BY <1>3
<1>6. IsFiniteSet(With) /\ Cardinality(With) = Cardinality(Without)
  <2> DEFINE g == [B \in Without |-> B \cup {x}]
  <2>1. g \in Bijection(Without, With)
    <3>1. g \in Surjection(Without, With)
      BY DEF Surjection
    <3>2. g \in Injection(Without, With)
      <4>1. g \in [Without -> With]
        OBVIOUS
      <4>2. ASSUME NEW B \in Without, NEW C \in Without, g[B] = g[C]
            PROVE  B = C
        <5>1. B \cup {x} = C \cup {x} /\ x \notin B /\ x \notin C
          BY <1>3, <4>2
        <5> QED
          BY <5>1
      <4> QED
        BY <4>1, <4>2 DEF Injection, IsInjective
    <3> QED
      BY <3>1, <3>2 DEF Bijection
  <2>2. ExistsBijection(Without, With)
    BY <2>1 DEF ExistsBijection
  <2> QED
    BY <1>2, <2>2, FS_Bijection
<1>7. Cardinality(Without \cup With) = 2 * Cardinality(Without)
  <2>1. Cardinality(Without) \in Nat
    BY <1>2, FS_CardinalityType
  <2>2. Cardinality(Without \cup With)
          = Cardinality(Without) + Cardinality(With) - Cardinality(Without \cap With)
    BY <1>2, <1>6, FS_Union
  <2>3. Cardinality(Without \cap With) = 0
    BY <1>5, FS_EmptySet
  <2> QED
    BY <1>6, <2>1, <2>2, <2>3
<1>8. 2^x = 2 * 2^n
  BY <1>2, <1>3, <1>4, <1>7
<1>9. 2^n \in Nat
  BY <1>2, FS_CardinalityType
<1> QED
  BY <1>8, <1>9 DEF x

\* A power of two is a positive number.
LEMMA PowerType == \A n \in Nat : 2^n \in Nat /\ 2^n > 0
<1> DEFINE T == {n \in Nat : 2^n > 0}
<1>1. 0 \in T
  OBVIOUS
<1>2. \A n \in Nat : n \in T => n + 1 \in T
  BY PowerNext
<1> HIDE DEF T
<1>3. \A n \in Nat : n \in T
  BY <1>1, <1>2, Bytes!NumberInduction
<1> QED
  BY <1>3, PowerNext DEF T

\* The law of exponents.
LEMMA PowerSum ==
  ASSUME NEW m \in Nat, NEW n \in Nat
  PROVE  2^(m + n) = 2^m * 2^n
<1> DEFINE T == {k \in Nat : 2^(m + k) = 2^m * 2^k}
<1>1. 0 \in T
  <2>1. 2^0 = 1 /\ m + 0 = m /\ 2^m \in Nat
    BY PowerType
  <2> QED
    BY <2>1
<1>2. ASSUME NEW k \in Nat, k \in T
      PROVE  k + 1 \in T
  <2> DEFINE p == 2^m
             q == 2^k
             r == 2^(m + k)
  <2>1. p \in Nat /\ q \in Nat /\ r = p * q
    BY <1>2, PowerType
  <2>2. 2^(k + 1) = 2 * q /\ 2^((m + k) + 1) = 2 * r
    BY PowerNext
  <2>3. m + (k + 1) = (m + k) + 1
    OBVIOUS
  <2> HIDE DEF p, q, r
  <2>4. 2 * r = p * (2 * q)
    BY <2>1
  <2> QED
    BY <2>2, <2>3, <2>4 DEF p
<1> HIDE DEF T
<1>3. \A k \in Nat : k \in T
  BY <1>1, <1>2, Bytes!NumberInduction
<1> QED
  BY <1>3 DEF T

\* Eight bits more.
LEMMA PowerByte ==
  ASSUME NEW b \in Nat
  PROVE  2^(b + 8) = 2^b * 256
<1>1. 2^(b + 8) = 2^b * 2^8
  BY PowerSum
<1>2. 2^8 = 256
  OBVIOUS
<1> QED
  BY <1>1, <1>2

-----------------------------------------------------------------------------
(* Division.                                                               *)

\* What a quotient and a remainder are.
LEMMA Divides ==
  ASSUME NEW n \in Nat, NEW d \in Nat, d > 0
  PROVE  /\ n \div d \in Nat /\ n % d \in 0 .. (d - 1)
         /\ n = d * (n \div d) + (n % d)
  OBVIOUS

\* There is no other way to write a number as a multiple and a remainder.
LEMMA DivideUnique ==
  ASSUME NEW d \in Nat, d > 0, NEW q \in Nat, NEW r \in 0 .. (d - 1)
  PROVE  (d * q + r) \div d = q /\ (d * q + r) % d = r
<1> DEFINE n == d * q + r
           q2 == n \div d
           r2 == n % d
<1>1. n \in Nat
  <2>1. d * q \in Nat
    OBVIOUS
  <2> QED
    BY <2>1
<1>2. q2 \in Nat /\ r2 \in 0 .. (d - 1) /\ n = d * q2 + r2
  BY <1>1, Divides
<1>3. d * q + r = d * q2 + r2
  BY <1>2
<1> HIDE DEF n, q2, r2
<1>4. q = q2
  <2>1. ASSUME q < q2
        PROVE  FALSE
    <3>1. d * (q + 1) <= d * q2
      BY <1>2, <2>1
    <3> QED
      BY <1>2, <1>3, <3>1
  <2>2. ASSUME q2 < q
        PROVE  FALSE
    <3>1. d * (q2 + 1) <= d * q
      BY <1>2, <2>2
    <3> QED
      BY <1>2, <1>3, <3>1
  <2> QED
    BY <1>2, <2>1, <2>2
<1>5. r = r2
  BY <1>2, <1>3, <1>4
<1> QED
  BY <1>4, <1>5 DEF n, q2, r2

\* A remainder keeps what a smaller divisor leaves of a number, and its
\* quotient is a remainder of the quotient.
LEMMA DivideTwice ==
  ASSUME NEW n \in Nat, NEW a \in Nat, a > 0, NEW b \in Nat, b > 0
  PROVE  /\ (n \div a) \div b = n \div (a * b)
         /\ (n % (a * b)) \div a = (n \div a) % b
         /\ (n % (a * b)) % a = n % a
<1> DEFINE q == n \div a
           r == n % a
           q2 == q \div b
           r2 == q % b
           m == a * b
           x == a * r2 + r
<1>1. q \in Nat /\ r \in 0 .. (a - 1) /\ n = a * q + r
  BY Divides
<1>2. q2 \in Nat /\ r2 \in 0 .. (b - 1) /\ q = b * q2 + r2
  BY <1>1, Divides
<1> HIDE DEF q, r, q2, r2
<1>3. m \in Nat /\ m > 0
  OBVIOUS
<1>4. n = m * q2 + x
  BY <1>1, <1>2
<1>5. x \in 0 .. (m - 1)
  <2>1. a * r2 <= a * (b - 1)
    BY <1>2
  <2>2. a * r2 \in Nat
    BY <1>2
  <2> QED
    BY <1>1, <2>1, <2>2
<1>6. x \div a = r2 /\ x % a = r
  BY <1>1, <1>2, DivideUnique
<1> HIDE DEF m, x
<1>7. (m * q2 + x) \div m = q2 /\ (m * q2 + x) % m = x
  BY <1>2, <1>3, <1>5, DivideUnique
<1>8. n \div m = q2 /\ n % m = x
  BY <1>4, <1>7
<1> QED
  BY <1>6, <1>8 DEF q, r, q2, r2, m

-----------------------------------------------------------------------------
(* Bytes as numbers.                                                       *)

Byte == 0 .. 255

\* The numbers that the first bytes make, and the next one each time.
Prefixes(v, bytes) ==
  /\ v \in [0 .. Len(bytes) -> Nat] /\ v[0] = 0
  /\ \A i \in 1 .. Len(bytes) : v[i] = 256 * v[i - 1] + bytes[i]

\* from_be_bytes is the last of them.
LEMMA FromBytes ==
  ASSUME NEW bytes \in Seq(Byte)
  PROVE  \E v : Prefixes(v, bytes) /\ from_be_bytes(bytes) = v[Len(bytes)]
<1> DEFINE n == Len(bytes)
<1>1. n \in Nat /\ 0 <= n /\ \A i \in 1 .. n : bytes[i] \in Byte
  OBVIOUS
<1>2. PICK g : Bytes!Solves(g, bytes, 0, 0, n)
  BY <1>1, Bytes!RecursionExists
<1>3. g = [i \in 0 .. n |-> IF i = 0 THEN 0 ELSE 256 * g[i - 1] + bytes[i]]
  BY <1>2 DEF Bytes!Solves, BytesStep
<1> DEFINE v == CHOOSE v : v = [i \in 0 .. n |-> IF i = 0 THEN 0 ELSE 256 * v[i - 1] + bytes[i]]
<1>4. v = [i \in 0 .. n |-> IF i = 0 THEN 0 ELSE 256 * v[i - 1] + bytes[i]]
  BY <1>3
<1>5. from_be_bytes(bytes) = v[n]
  BY DEF from_be_bytes
<1> HIDE DEF v, n
<1>6. v[0] = 0 /\ \A i \in 1 .. n : v[i] = 256 * v[i - 1] + bytes[i]
  BY <1>1, <1>4
<1> DEFINE T == {i \in Nat : v[i] \in Nat}
<1>7. 0 \in T
  BY <1>6
<1>8. ASSUME NEW i \in (0 + 1) .. n, i - 1 \in T
      PROVE  i \in T
  <2>1. i \in 1 .. n /\ i \in Nat
    BY <1>1
  <2>2. v[i - 1] \in Nat
    BY <1>8
  <2>3. bytes[i] \in Nat
    <3>1. bytes[i] \in Byte
      BY <1>1, <2>1
    <3>2. Byte \subseteq Nat
      BY DEF Byte
    <3> QED
      BY <3>1, <3>2
  <2>4. v[i] = 256 * v[i - 1] + bytes[i]
    BY <1>6, <2>1
  <2> DEFINE a == v[i - 1]
             b == bytes[i]
  <2>5. a \in Nat /\ b \in Nat /\ v[i] = 256 * a + b
    BY <2>2, <2>3, <2>4
  <2> HIDE DEF a, b
  <2>6. v[i] \in Nat
    BY <2>5
  <2> QED
    BY <2>1, <2>6
<1> HIDE DEF T
<1>9. \A i \in 0 .. n : i \in T
  BY <1>1, <1>7, <1>8, Bytes!IntervalInduction
<1>10. v \in [0 .. n -> Nat]
  BY <1>4, <1>9 DEF T
<1> QED
  BY <1>5, <1>6, <1>10 DEF Prefixes, n

\* A byte less at the end is a quotient.
LEMMA PrefixIs ==
  ASSUME NEW bytes \in Seq(Byte), NEW v, Prefixes(v, bytes),
         NEW i \in 0 .. Len(bytes), NEW j \in i .. Len(bytes)
  PROVE  v[i] = v[j] \div 2^(8 * (j - i))
<1> DEFINE n == Len(bytes)
           T == {k \in Nat : k <= n => v[i] = v[k] \div 2^(8 * (k - i))}
<1>1. n \in Nat /\ i \in Nat /\ j \in Nat /\ i <= j /\ j <= n
  OBVIOUS
<1>2. /\ \A k \in 0 .. n : v[k] \in Nat
      /\ \A k \in 1 .. n : v[k] = 256 * v[k - 1] + bytes[k] /\ bytes[k] \in Byte
  <2>1. \A k \in 1 .. n : bytes[k] \in Byte
    BY <1>1
  <2> QED
    BY <2>1 DEF Prefixes
<1>3. i \in T
  <2>1. 8 * (i - i) = 0 /\ v[i] \in Nat
    BY <1>1, <1>2
  <2> QED
    BY <2>1
<1>4. ASSUME NEW k \in (i + 1) .. j, k - 1 \in T
      PROVE  k \in T
  <2> DEFINE b == 8 * ((k - 1) - i)
             w == 2^b
  <2>1. b \in Nat /\ 8 * (k - i) = b + 8 /\ k \in 1 .. n /\ k - 1 \in 0 .. n
    BY <1>1
  <2>2. w \in Nat /\ w > 0 /\ 2^(b + 8) = w * 256
    <3> HIDE DEF b
    <3> QED
      BY <2>1, PowerByte, PowerType
  <2>3. v[i] = v[k - 1] \div w
    BY <1>1, <1>4, <2>1
  <2>4. v[k] = 256 * v[k - 1] + bytes[k] /\ bytes[k] \in 0 .. 255 /\ v[k - 1] \in Nat /\ v[k] \in Nat
    BY <1>2, <2>1 DEF Byte
  <2> DEFINE x == v[k]
             y == v[k - 1]
             c == bytes[k]
  <2>5. x = 256 * y + c /\ c \in 0 .. 255 /\ y \in Nat /\ x \in Nat /\ v[i] = y \div w
    BY <2>3, <2>4
  <2> HIDE DEF b, w, x, y, c
  <2>6. 256 \in Nat /\ 256 > 0 /\ 255 = 256 - 1
    OBVIOUS
  <2>7. x \div 256 = y
    BY <2>5, <2>6, DivideUnique
  <2>8. (x \div 256) \div w = x \div (256 * w)
    <3> DEFINE d == 256
    <3>1. d \in Nat /\ d > 0 /\ w \in Nat /\ w > 0 /\ x \in Nat
      BY <2>2, <2>5
    <3> HIDE DEF d
    <3>2. (x \div d) \div w = x \div (d * w)
      BY <3>1, DivideTwice, ZenonT(30)
    <3> QED
      BY <3>2 DEF d
  <2>9. 256 * w = w * 256
    BY <2>2
  <2>10. v[i] = x \div 2^(8 * (k - i))
    BY <2>1, <2>2, <2>5, <2>7, <2>8, <2>9
  <2> QED
    BY <1>1, <2>1, <2>10 DEF x
<1> HIDE DEF T
<1>5. \A k \in i .. j : k \in T
  BY <1>1, <1>3, <1>4, Bytes!IntervalInduction
<1> QED
  BY <1>1, <1>5 DEF T

\* A number is less than what its bytes can hold.
LEMMA PrefixBound ==
  ASSUME NEW bytes \in Seq(Byte), NEW v, Prefixes(v, bytes), NEW i \in 0 .. Len(bytes)
  PROVE  v[i] < 2^(8 * i)
<1> DEFINE n == Len(bytes)
           T == {k \in Nat : v[k] < 2^(8 * k)}
<1>1. n \in Nat /\ i \in Nat /\ i <= n
  OBVIOUS
<1>2. /\ \A k \in 0 .. n : v[k] \in Nat
      /\ \A k \in 1 .. n : v[k] = 256 * v[k - 1] + bytes[k] /\ bytes[k] \in Byte
  <2>1. \A k \in 1 .. n : bytes[k] \in Byte
    BY <1>1
  <2> QED
    BY <2>1 DEF Prefixes
<1>3. 0 \in T
  <2>1. v[0] = 0 /\ 8 * 0 = 0 /\ 2^0 = 1
    BY DEF Prefixes
  <2> QED
    BY <2>1
<1>4. ASSUME NEW k \in (0 + 1) .. n, k - 1 \in T
      PROVE  k \in T
  <2> DEFINE b == 8 * (k - 1)
             w == 2^b
  <2>1. b \in Nat /\ 8 * k = b + 8 /\ k \in 1 .. n /\ k - 1 \in 0 .. n
    BY <1>1
  <2>2. w \in Nat /\ 2^(b + 8) = w * 256
    <3> HIDE DEF b
    <3> QED
      BY <2>1, PowerByte, PowerType
  <2>3. v[k - 1] < w /\ v[k - 1] \in Nat
    BY <1>2, <1>4, <2>1
  <2>4. v[k] = 256 * v[k - 1] + bytes[k] /\ bytes[k] \in 0 .. 255
    BY <1>2, <2>1 DEF Byte
  <2> DEFINE x == v[k]
             y == v[k - 1]
             c == bytes[k]
  <2>5. x = 256 * y + c /\ c \in 0 .. 255 /\ y \in Nat /\ y < w
    BY <2>3, <2>4
  <2> HIDE DEF b, w, x, y, c
  <2>6. x < w * 256
    BY <2>2, <2>5
  <2> QED
    BY <1>1, <2>1, <2>2, <2>6 DEF x
<1> HIDE DEF T
<1>5. \A k \in 0 .. n : k \in T
  BY <1>1, <1>3, <1>4, Bytes!IntervalInduction
<1> QED
  BY <1>1, <1>5 DEF T

-----------------------------------------------------------------------------
(* The digits of a sequence of bytes.                                      *)

\* A byte more: the last of the bits that are kept stay the last ones.
LEMMA AppendByte ==
  ASSUME NEW y \in Nat, NEW c \in Byte, NEW w \in Nat, w > 0
  PROVE  (y % w) * 256 + c = (256 * y + c) % (w * 256)
<1> DEFINE q == y \div w
           r == y % w
           m == w * 256
           z == r * 256 + c
<1>1. q \in Nat /\ r \in 0 .. (w - 1) /\ y = w * q + r
  BY Divides
<1> HIDE DEF q, r
<1>2. c \in 0 .. 255 /\ m \in Nat /\ m > 0
  BY DEF Byte
<1>3. 256 * y + c = m * q + z
  <2>1. w * q \in Nat /\ m * q = 256 * (w * q)
    BY <1>1
  <2> QED
    BY <1>1, <1>2, <2>1
<1>4. z \in 0 .. (m - 1)
  BY <1>1, <1>2
<1> HIDE DEF m, z
<1>5. (m * q + z) % m = z
  BY <1>1, <1>2, <1>4, DivideUnique
<1> QED
  BY <1>3, <1>5 DEF m, z, r

\* Of the bytes read so far m bits are out and the others are in total.
ReadTo(x, v, m, s) ==
  /\ s \in [bits : Nat, i : 0 .. Len(x), total : Nat, out : Seq(Nat)]
  /\ 8 * s.i = s.bits + m
  /\ s.total = v[s.i] % 2^s.bits

\* A pass of the inner loop of base_2b.
LEMMA LoadedByte ==
  ASSUME NEW x \in Seq(Byte), NEW v, Prefixes(v, x), NEW B \in Nat \ {0}, NEW m \in Nat,
         m + B <= 8 * Len(x), NEW s, ReadTo(x, v, m, s), s.bits < B
  PROVE  LET u == WithByte(x, s)
         IN  ReadTo(x, v, m, u) /\ u.bits = s.bits + 8 /\ u.out = s.out
<1> DEFINE L == Len(x)
           b == s.bits
           k == s.i
           w == 2^b
           y == v[k]
           c == x[k + 1]
           u == WithByte(x, s)
<1>1. /\ s \in [bits : Nat, i : 0 .. L, total : Nat, out : Seq(Nat)]
      /\ 8 * k = b + m /\ s.total = y % w
  BY DEF ReadTo
<1>2. L \in Nat /\ b \in Nat /\ k \in 0 .. L
  BY <1>1
<1>3. /\ u.bits = b + 8 /\ u.i = k + 1 /\ u.total = (y % w) * 256 + c /\ u.out = s.out
      /\ \A S : u.total \in S => u \in [bits : {u.bits}, i : {u.i}, total : S, out : Seq(Nat)]
  BY <1>1 DEF WithByte
<1>4. k + 1 \in 1 .. L /\ (k + 1) - 1 = k
  <2> HIDE DEF L, k, b
  <2> QED
    BY <1>1, <1>2 DEF L, b
<1>5. /\ y \in Nat /\ v[k + 1] = 256 * y + c /\ v[k + 1] \in Nat
      /\ c \in Byte
  <2>1. v[k + 1] = 256 * v[(k + 1) - 1] + x[k + 1]
    BY <1>4 DEF Prefixes
  <2>2. v[k] \in Nat /\ v[k + 1] \in Nat
    BY <1>2, <1>4 DEF Prefixes
  <2>3. c \in Byte
    BY <1>4
  <2> QED
    BY <1>4, <2>1, <2>2, <2>3
<1>6. w \in Nat /\ w > 0 /\ 2^(b + 8) = w * 256
  <2> HIDE DEF b
  <2> QED
    BY <1>2, PowerType, PowerByte
<1> HIDE DEF L, b, k, w, y, c, u
<1>7. (y % w) * 256 + c = (256 * y + c) % (w * 256)
  BY <1>5, <1>6, AppendByte
<1>8. v[k + 1] % 2^(b + 8) \in Nat
  <2> DEFINE a == v[k + 1]
             d == 2^(b + 8)
  <2>1. a \in Nat /\ d \in Nat /\ d > 0
    BY <1>2, <1>5, PowerType
  <2> HIDE DEF a, d
  <2>2. a % d \in Nat
    BY <2>1
  <2> QED
    BY <2>2 DEF a, d
<1>9. u.total = v[k + 1] % 2^(b + 8)
  BY <1>3, <1>5, <1>6, <1>7
<1>10. 8 * (k + 1) = (b + 8) + m /\ b + 8 \in Nat /\ k + 1 \in 0 .. L
  BY <1>1, <1>2, <1>4
<1>11. u \in [bits : Nat, i : 0 .. L, total : Nat, out : Seq(Nat)]
  BY <1>3, <1>8, <1>9, <1>10
<1>12. ReadTo(x, v, m, u) /\ u.bits = s.bits + 8 /\ u.out = s.out
  BY <1>3, <1>9, <1>10, <1>11 DEF ReadTo, L, b
<1> QED
  BY <1>12 DEF u

\* The inner loop of base_2b: the bits a digit needs are there after it.
LEMMA Loaded ==
  ASSUME NEW x \in Seq(Byte), NEW v, Prefixes(v, x), NEW B \in Nat \ {0}, NEW m \in Nat,
         m + B <= 8 * Len(x), NEW s, ReadTo(x, v, m, s)
  PROVE  LET u == loaded(x, B, s) IN ReadTo(x, v, m, u) /\ u.bits >= B /\ u.out = s.out
<1> DEFINE e == [x |-> x, B |-> B]
<1>1. PICK g : Load!Solves(g, e, s, 0, B)
  <2>1. 0 \in Nat /\ B \in Nat /\ 0 <= B
    OBVIOUS
  <2> QED
    BY <2>1, Load!RecursionExists
<1>2. g = [k \in 0 .. B |->
             IF k = 0 THEN s
             ELSE LET r == g[k - 1]
                  IN  IF r.bits >= B THEN r
                      ELSE [r EXCEPT !.bits = @ + 8, !.i = @ + 1, !.total = @ * 256 + x[r.i + 1]]]
  BY <1>1 DEF Load!Solves, LoadStep, WithByte
<1> DEFINE pass == CHOOSE pass : pass =
             [k \in 0 .. B |->
               IF k = 0 THEN s
               ELSE LET r == pass[k - 1]
                    IN  IF r.bits >= B THEN r
                        ELSE [r EXCEPT !.bits = @ + 8, !.i = @ + 1, !.total = @ * 256 + x[r.i + 1]]]
<1>3. pass = [k \in 0 .. B |-> IF k = 0 THEN s ELSE LoadStep(e, k, pass[k - 1])]
  <2>1. pass =
             [k \in 0 .. B |->
               IF k = 0 THEN s
               ELSE LET r == pass[k - 1]
                    IN  IF r.bits >= B THEN r
                        ELSE [r EXCEPT !.bits = @ + 8, !.i = @ + 1, !.total = @ * 256 + x[r.i + 1]]]
    BY <1>2
  <2> HIDE DEF pass
  <2> QED
    BY <2>1 DEF LoadStep, WithByte
<1>4. loaded(x, B, s) = pass[B]
  BY DEF loaded
<1> HIDE DEF pass, e
<1>5. pass[0] = s /\ \A k \in 1 .. B : pass[k] = LoadStep(e, k, pass[k - 1])
  BY <1>3
<1>20. ASSUME NEW k, NEW r
       PROVE  LoadStep(e, k, r) =
                IF r.bits >= B THEN r
                ELSE WithByte(x, r)
  BY DEF LoadStep, e
<1> DEFINE T == {k \in Nat : /\ ReadTo(x, v, m, pass[k]) /\ pass[k].out = s.out
                             /\ pass[k].bits >= B \/ pass[k].bits >= 8 * k}
<1>6. 0 \in T
  <2>1. ReadTo(x, v, m, s) /\ s.bits \in Nat
    BY DEF ReadTo
  <2> QED
    BY <1>5, <2>1
<1>7. ASSUME NEW k \in (0 + 1) .. B, k - 1 \in T
      PROVE  k \in T
  <2> DEFINE r == pass[k - 1]
  <2>1. k \in 1 .. B /\ k \in Nat /\ pass[k] = LoadStep(e, k, r)
    BY <1>5
  <2>2. /\ ReadTo(x, v, m, r) /\ r.out = s.out
        /\ r.bits >= B \/ r.bits >= 8 * (k - 1)
    BY <1>7
  <2>3. r.bits \in Nat
    BY <2>2 DEF ReadTo
  <2> HIDE DEF r
  <2>4. CASE r.bits >= B
    <3>1. pass[k] = r
      BY <1>20, <2>1, <2>4
    <3> QED
      BY <2>1, <2>2, <2>4, <3>1
  <2>5. CASE ~(r.bits >= B)
    <3>1. pass[k] = WithByte(x, r)
      BY <1>20, <2>1, <2>5
    <3>2. r.bits < B
      BY <2>3, <2>5
    <3>4. ReadTo(x, v, m, pass[k]) /\ pass[k].bits = r.bits + 8 /\ pass[k].out = r.out
      BY <2>2, <3>1, <3>2, LoadedByte
    <3>5. pass[k].bits >= 8 * k
      BY <2>1, <2>2, <2>3, <3>2, <3>4
    <3> QED
      BY <2>1, <2>2, <3>4, <3>5
  <2> QED
    BY <2>4, <2>5
<1> HIDE DEF T
<1>8. \A k \in 0 .. B : k \in T
  BY <1>6, <1>7, Load!IntervalInduction
<1>9. B \in T /\ B \in Nat
  BY <1>8
<1>10. ReadTo(x, v, m, pass[B]) /\ pass[B].out = s.out /\ pass[B].bits >= B
  <2>1. /\ ReadTo(x, v, m, pass[B]) /\ pass[B].out = s.out
        /\ pass[B].bits >= B \/ pass[B].bits >= 8 * B
    BY <1>9 DEF T
  <2>2. pass[B].bits \in Nat
    BY <2>1 DEF ReadTo
  <2> QED
    BY <1>9, <2>1, <2>2
<1> QED
  BY <1>4, <1>10

\* The digits that are out so far are the leading bits of the bytes.
LeadingDigits(x, v, B, out) ==
  \A j \in 1 .. Len(out) :
    out[j] = (v[Len(x)] \div 2^(8 * Len(x) - j * B)) % 2^B

\* A digit leaves the total.
LEMMA Unloaded ==
  ASSUME NEW x \in Seq(Byte), NEW v, Prefixes(v, x), NEW B \in Nat \ {0}, NEW m \in Nat,
         m + B <= 8 * Len(x), NEW s, ReadTo(x, v, m, s), s.bits >= B
  PROVE  LET u == unloaded(B, s)
         IN  /\ ReadTo(x, v, m + B, u)
             /\ u.out = Append(s.out, (v[Len(x)] \div 2^(8 * Len(x) - (m + B))) % 2^B)
<1> DEFINE L == Len(x)
           b == s.bits - B
           k == s.i
           y == v[k]
           z == v[L]
           p == 2^b
           q == 2^B
           c == 8 * (L - k)
           u == unloaded(B, s)
<1>1. /\ L \in Nat /\ b \in Nat /\ k \in 0 .. L /\ s.out \in Seq(Nat)
      /\ 8 * k = b + (m + B) /\ s.bits = b + B /\ s.total = y % 2^s.bits /\ s.total \in Nat
  BY DEF ReadTo
<1>2. y \in Nat /\ z \in Nat
  <2>1. k \in 0 .. Len(x) /\ Len(x) \in 0 .. Len(x) /\ v \in [0 .. Len(x) -> Nat]
    BY <1>1 DEF Prefixes
  <2> HIDE DEF k
  <2> QED
    BY <2>1
<1>3. p \in Nat /\ p > 0 /\ q \in Nat /\ q > 0 /\ 2^(b + B) = p * q
  <2> HIDE DEF b
  <2> QED
    BY <1>1, PowerType, PowerSum
<1>4. c \in Nat /\ c + b = 8 * L - (m + B)
  <2> HIDE DEF L, b, k
  <2> QED
    BY <1>1
<1>5. y = z \div 2^c
  <2>1. k \in 0 .. Len(x) /\ Len(x) \in k .. Len(x)
    BY <1>1
  <2> HIDE DEF k
  <2> QED
    BY <2>1, PrefixIs
<1>6. /\ 2^c \in Nat /\ 2^c > 0 /\ 2^(c + b) = 2^c * p
  <2> HIDE DEF b, c
  <2> QED
    BY <1>1, <1>4, PowerType, PowerSum
<1>7. /\ u.bits = b /\ u.i = k /\ u.total = s.total % ((p - 1) + 1)
      /\ u.out = Append(s.out, (s.total \div p) % ((q - 1) + 1))
      /\ \A S, R : u.total \in S /\ u.out \in R => u \in [bits : {b}, i : {k}, total : S, out : R]
  BY DEF unloaded, And
<1> HIDE DEF L, b, k, y, z, p, q, c, u
<1>8. s.total = y % (p * q)
  BY <1>1, <1>3
<1>9. (y % (p * q)) \div p = (y \div p) % q /\ (y % (p * q)) % p = y % p
  <2>1. y \in Nat /\ p \in Nat /\ p > 0 /\ q \in Nat /\ q > 0
    BY <1>2, <1>3
  <2>2. (y % (p * q)) \div p = (y \div p) % q
    <3>1. /\ (y \div p) \div q = y \div (p * q)
          /\ (y % (p * q)) \div p = (y \div p) % q
          /\ (y % (p * q)) % p = y % p
      BY <2>1, DivideTwice, ZenonT(30)
    <3> QED
      BY <3>1
  <2>3. (y % (p * q)) % p = y % p
    BY <2>1, DivideTwice, ZenonT(30)
  <2> QED
    BY <2>2, <2>3
<1>10. (z \div 2^c) \div p = z \div (2^c * p)
  <2>1. z \in Nat /\ p \in Nat /\ p > 0 /\ 2^c \in Nat /\ 2^c > 0
    BY <1>2, <1>3, <1>6
  <2> QED
    BY <2>1, DivideTwice, ZenonT(30)
<1>11. y \div p \in Nat /\ (y \div p) % q \in Nat /\ y % p \in Nat
  <2>1. y \div p \in Nat /\ y % p \in Nat
    BY <1>2, <1>3, Divides
  <2> DEFINE r == y \div p
  <2> HIDE DEF r
  <2>2. r \in Nat => r % q \in Nat
    BY <1>3
  <2> QED
    BY <2>1, <2>2 DEF r
<1>12. (p - 1) + 1 = p /\ (q - 1) + 1 = q
  BY <1>3
<1>13. u.total = y % p
  BY <1>7, <1>8, <1>9, <1>12
<1>14. (s.total \div p) % q = (y \div p) % q
  <2> DEFINE r == y \div p
  <2> HIDE DEF r
  <2>1. r \in Nat => (r % q) % q = r % q
    BY <1>3
  <2>2. s.total \div p = r % q
    BY <1>8, <1>9 DEF r
  <2> QED
    BY <1>11, <2>1, <2>2 DEF r
<1>15. y \div p = z \div 2^(8 * L - (m + B))
  BY <1>4, <1>5, <1>6, <1>10
<1>16. u.out = Append(s.out, (y \div p) % q)
  BY <1>7, <1>12, <1>14
<1>17. u.out \in Seq(Nat)
  BY <1>1, <1>11, <1>16
<1>18. ReadTo(x, v, m + B, u)
  <2>1. u.total \in Nat /\ u \in [bits : {b}, i : {k}, total : Nat, out : Seq(Nat)]
    BY <1>7, <1>11, <1>13, <1>17
  <2>2. u \in [bits : Nat, i : 0 .. L, total : Nat, out : Seq(Nat)]
    BY <1>1, <2>1
  <2>3. 8 * u.i = u.bits + (m + B)
    BY <1>1, <1>7
  <2>4. u.total = v[u.i] % 2^u.bits
    BY <1>7, <1>13 DEF y, p
  <2> QED
    BY <2>2, <2>3, <2>4 DEF ReadTo, L
<1> QED
  BY <1>15, <1>16, <1>18 DEF u, L, z, q

\* base_2b: digit j is the j-th group of B leading bits.
THEOREM DigitsAre ==
  ASSUME NEW x \in Seq(Byte), NEW OutLen \in Nat, NEW B \in Nat \ {0},
         OutLen * B <= 8 * Len(x)
  PROVE  LET out == base_2b(x, OutLen, B)
         IN  /\ out \in Seq(Nat) /\ Len(out) = OutLen
             /\ \A j \in 1 .. OutLen :
                  out[j] = (from_be_bytes(x) \div 2^(8 * Len(x) - j * B)) % 2^B
<1> DEFINE e == [x |-> x, B |-> B]
           start == [bits |-> 0, i |-> 0, total |-> 0, out |-> <<>>]
           L == Len(x)
<1>1. PICK v : Prefixes(v, x) /\ from_be_bytes(x) = v[Len(x)]
  BY FromBytes
<1>2. PICK g : Digit!Solves(g, e, start, 0, OutLen)
  <2>1. 0 \in Nat /\ OutLen \in Nat /\ 0 <= OutLen
    OBVIOUS
  <2> QED
    BY <2>1, Digit!RecursionExists
<1>3. g = [n \in 0 .. OutLen |->
             IF n = 0 THEN [bits |-> 0, i |-> 0, total |-> 0, out |-> <<>>]
             ELSE unloaded(B, loaded(x, B, g[n - 1]))]
  BY <1>2 DEF Digit!Solves, DigitStep
<1> DEFINE after == CHOOSE after : after =
             [n \in 0 .. OutLen |->
               IF n = 0 THEN [bits |-> 0, i |-> 0, total |-> 0, out |-> <<>>]
               ELSE unloaded(B, loaded(x, B, after[n - 1]))]
<1>4. after = [n \in 0 .. OutLen |->
                IF n = 0 THEN [bits |-> 0, i |-> 0, total |-> 0, out |-> <<>>]
                ELSE unloaded(B, loaded(x, B, after[n - 1]))]
  BY <1>3
<1>5. base_2b(x, OutLen, B) = after[OutLen].out
  BY DEF base_2b
<1> HIDE DEF after
<1>6. after[0] = start /\ \A n \in 1 .. OutLen : after[n] = unloaded(B, loaded(x, B, after[n - 1]))
  BY <1>4
<1> DEFINE T == {n \in Nat : /\ ReadTo(x, v, n * B, after[n]) /\ Len(after[n].out) = n
                             /\ LeadingDigits(x, v, B, after[n].out)}
<1>7. 0 \in T
  <2>1. v[0] = 0 /\ L \in Nat
    BY <1>1 DEF Prefixes
  <2>2. ReadTo(x, v, 0, start)
    <3>1. 2^0 = 1 /\ 0 % 1 = 0
      OBVIOUS
    <3> HIDE DEF L
    <3> QED
      BY <2>1, <3>1 DEF ReadTo, L
  <2>3. start.out = <<>> /\ Len(start.out) = 0 /\ 0 * B = 0
    OBVIOUS
  <2>4. LeadingDigits(x, v, B, start.out)
    BY <2>3 DEF LeadingDigits
  <2> HIDE DEF start
  <2> QED
    BY <1>6, <2>2, <2>3, <2>4
<1>8. ASSUME NEW n \in (0 + 1) .. OutLen, n - 1 \in T
      PROVE  n \in T
  <2> DEFINE m == (n - 1) * B
             s == after[n - 1]
             u == loaded(x, B, s)
             w == unloaded(B, u)
             d == (v[Len(x)] \div 2^(8 * Len(x) - (m + B))) % 2^B
  <2>1. /\ ReadTo(x, v, m, s) /\ Len(s.out) = n - 1 /\ LeadingDigits(x, v, B, s.out)
        /\ after[n] = w
    <3>1. n \in 1 .. OutLen
      OBVIOUS
    <3>2. after[n] = w
      BY <1>6, <3>1
    <3> HIDE DEF w
    <3>3. ReadTo(x, v, m, s) /\ Len(s.out) = n - 1 /\ LeadingDigits(x, v, B, s.out)
      BY <1>8
    <3> QED
      BY <3>2, <3>3
  <2>2. n \in Nat /\ n - 1 \in Nat /\ m \in Nat /\ m + B = n * B
    <3>1. n \in Nat /\ n - 1 \in Nat
      OBVIOUS
    <3> QED
      BY <3>1
  <2>3. m + B <= 8 * Len(x)
    <3>1. n * B <= OutLen * B
      <4>1. n \in Nat /\ n <= OutLen
        OBVIOUS
      <4> QED
        BY <4>1
    <3>2. n * B \in Nat /\ OutLen * B \in Nat /\ Len(x) \in Nat
      BY <2>2
    <3> QED
      BY <2>2, <3>1, <3>2
  <2> HIDE DEF m, s
  <2>4. ReadTo(x, v, m, u) /\ u.bits >= B /\ u.out = s.out
    BY <1>1, <2>1, <2>2, <2>3, Loaded
  <2> HIDE DEF u
  <2>5. ReadTo(x, v, m + B, w) /\ w.out = Append(u.out, d)
    <3>1. Prefixes(v, x) /\ m \in Nat /\ m + B <= 8 * Len(x) /\ ReadTo(x, v, m, u) /\ u.bits >= B
      BY <1>1, <2>2, <2>3, <2>4, Zenon
    <3> QED
      BY <3>1, Unloaded
  <2> HIDE DEF w
  <2>6. s.out \in Seq(Nat)
    BY <2>1 DEF ReadTo
  <2>7. /\ Len(w.out) = n /\ w.out[n] = d
        /\ \A j \in 1 .. (n - 1) : w.out[j] = s.out[j]
    <3> HIDE DEF d
    <3> DEFINE o == s.out
    <3>1. o \in Seq(Nat) /\ Len(o) = n - 1 /\ w.out = Append(o, d)
      BY <2>1, <2>4, <2>5, <2>6
    <3> HIDE DEF o
    <3>2. /\ Len(w.out) = n /\ w.out[n] = d
          /\ \A j \in 1 .. (n - 1) : w.out[j] = o[j]
      BY <2>2, <3>1
    <3> QED
      BY <3>2 DEF o
  <2>8. LeadingDigits(x, v, B, w.out)
    <3>1. ASSUME NEW j \in 1 .. n
          PROVE  w.out[j] = (v[Len(x)] \div 2^(8 * Len(x) - j * B)) % 2^B
      <4>1. CASE j = n
        BY <2>2, <2>7, <4>1 DEF d
      <4>2. CASE j # n
        <5>1. j \in 1 .. (n - 1) /\ j \in 1 .. Len(s.out)
          BY <2>1, <2>2, <4>2
        <5>2. s.out[j] = (v[Len(x)] \div 2^(8 * Len(x) - j * B)) % 2^B
          BY <2>1, <5>1 DEF LeadingDigits
        <5> QED
          BY <2>7, <5>1, <5>2
      <4> QED
        BY <4>1, <4>2
    <3> QED
      BY <2>7, <3>1 DEF LeadingDigits
  <2> QED
    BY <2>1, <2>2, <2>5, <2>7, <2>8
<1> HIDE DEF T
<1>9. \A n \in 0 .. OutLen : n \in T
  BY <1>7, <1>8, Digit!IntervalInduction
<1>10. /\ ReadTo(x, v, OutLen * B, after[OutLen]) /\ Len(after[OutLen].out) = OutLen
       /\ LeadingDigits(x, v, B, after[OutLen].out)
  BY <1>9 DEF T
<1>11. after[OutLen].out \in Seq(Nat)
  BY <1>10 DEF ReadTo
<1>12. \A j \in 1 .. OutLen :
         after[OutLen].out[j] = (v[Len(x)] \div 2^(8 * Len(x) - j * B)) % 2^B
  BY <1>10 DEF LeadingDigits
<1> QED
  BY <1>1, <1>5, <1>10, <1>11, <1>12

-----------------------------------------------------------------------------
(* The value of a hash is a number of N bytes.                             *)

\* There are such numbers.
LEMMA ModulusType == Modulus \in Nat /\ Modulus > 0
<1> DEFINE n == 8 * P.N - 4
           q == 2^n
<1>1. P.N \in Nat /\ P.N >= 1
  BY SlhDsaAssumption
<1>2. n \in Nat /\ n + 4 = 8 * P.N
  BY <1>1
<1> HIDE DEF n
<1>3. q \in Nat /\ q > 0
  BY <1>2, PowerType
<1>4. Modulus = 2^(n + 4) - 15
  BY <1>2 DEF Modulus
<1>5. Modulus = q * 16 - 15
  <2>1. 2^(n + 4) = q * 2^4
    BY <1>2, PowerSum
  <2>2. 2^4 = 16
    OBVIOUS
  <2> HIDE DEF q
  <2> QED
    BY <1>4, <2>1, <2>2
<1> HIDE DEF q
<1> QED
  BY <1>3, <1>5

NumbersStep(numbers, i, v) == (v * 131 + numbers[i] + 7) % Modulus

OverNumbers == INSTANCE Recursion WITH Step <- NumbersStep

ValuesStep(values, i, v) == (v * 257 + values[i].val + 11) % Modulus

OverValues == INSTANCE Recursion WITH Step <- ValuesStep

\* The last remainder makes a number smaller than Modulus, whatever the others are.
LEMMA MixType ==
  ASSUME NEW numbers \in Seq(Int), NEW values, Len(values) \in Nat,
         \A i \in 1 .. Len(values) : values[i].val \in Int
  PROVE  Mix(numbers, values) \in 0 .. (Modulus - 1)
<1> DEFINE m == Len(numbers)
           n == Len(values)
<1>1. m \in Nat /\ n \in Nat /\ 0 <= m /\ 0 <= n /\ \A i \in 1 .. m : numbers[i] \in Int
  OBVIOUS
<1>2. \A k \in Int : k % Modulus \in 0 .. (Modulus - 1)
  <2>1. Modulus \in Nat /\ Modulus > 0
    BY ModulusType
  <2> QED
    BY <2>1
<1>3. PICK g : OverNumbers!Solves(g, numbers, 1, 0, m)
  BY <1>1, OverNumbers!RecursionExists
<1>4. g = [i \in 0 .. m |-> IF i = 0 THEN 1 ELSE (g[i - 1] * 131 + numbers[i] + 7) % Modulus]
  BY <1>3 DEF OverNumbers!Solves, NumbersStep
<1> DEFINE overNumbers == CHOOSE overNumbers : overNumbers =
             [i \in 0 .. m |-> IF i = 0 THEN 1 ELSE (overNumbers[i - 1] * 131 + numbers[i] + 7) % Modulus]
<1>5. overNumbers = [i \in 0 .. m |->
                      IF i = 0 THEN 1 ELSE (overNumbers[i - 1] * 131 + numbers[i] + 7) % Modulus]
  BY <1>4
<1>6. PICK h1 : OverValues!Solves(h1, values, overNumbers[m], 0, n)
  BY <1>1, OverValues!RecursionExists
<1>7. h1 = [i \in 0 .. n |->
             IF i = 0 THEN overNumbers[m] ELSE (h1[i - 1] * 257 + values[i].val + 11) % Modulus]
  BY <1>6 DEF OverValues!Solves, ValuesStep
<1> DEFINE overValues == CHOOSE overValues : overValues =
             [i \in 0 .. n |->
               IF i = 0 THEN overNumbers[m] ELSE (overValues[i - 1] * 257 + values[i].val + 11) % Modulus]
<1>8. overValues = [i \in 0 .. n |->
                     IF i = 0 THEN overNumbers[m]
                     ELSE (overValues[i - 1] * 257 + values[i].val + 11) % Modulus]
  BY <1>7
<1>9. Mix(numbers, values) = (overValues[n] * 2711 + 5) % Modulus
  BY DEF Mix
<1> HIDE DEF overNumbers, overValues, m, n
<1>10. \A i \in 0 .. m : overNumbers[i] \in Int
  <2> DEFINE T == {i \in Nat : overNumbers[i] \in Int}
  <2>1. overNumbers[0] = 1 /\ 0 \in Nat
    BY <1>1, <1>5
  <2>2. 0 \in T
    BY <2>1
  <2>3. ASSUME NEW i \in (0 + 1) .. m, i - 1 \in T
        PROVE  i \in T
    <3>1. i \in Nat /\ i \in 0 .. m /\ i # 0 /\ i \in 1 .. m
      BY <1>1
    <3> DEFINE a == overNumbers[i - 1] * 131 + numbers[i] + 7
    <3>2. overNumbers[i] = a % Modulus
      BY <1>5, <3>1
    <3>3. a \in Int
      BY <1>1, <2>3, <3>1
    <3> HIDE DEF a
    <3>4. overNumbers[i] \in Int
      BY <1>2, <3>2, <3>3
    <3> QED
      BY <3>1, <3>4
  <2> HIDE DEF T
  <2>4. \A i \in 0 .. m : i \in T
    BY <1>1, <2>2, <2>3, OverNumbers!IntervalInduction
  <2> QED
    BY <2>4 DEF T
<1>11. \A i \in 0 .. n : overValues[i] \in Int
  <2> DEFINE T == {i \in Nat : overValues[i] \in Int}
  <2>1. overValues[0] = overNumbers[m] /\ 0 \in Nat
    BY <1>1, <1>8
  <2>2. 0 \in T
    BY <1>1, <1>10, <2>1
  <2>3. ASSUME NEW i \in (0 + 1) .. n, i - 1 \in T
        PROVE  i \in T
    <3>1. i \in Nat /\ i \in 0 .. n /\ i # 0 /\ i \in 1 .. n
      BY <1>1
    <3> DEFINE a == overValues[i - 1] * 257 + values[i].val + 11
    <3>2. overValues[i] = a % Modulus
      BY <1>8, <3>1
    <3>3. a \in Int
      <4>1. values[i].val \in Int
        BY <3>1 DEF n
      <4>2. overValues[i - 1] \in Int
        BY <2>3
      <4> QED
        BY <4>1, <4>2
    <3> HIDE DEF a
    <3>4. overValues[i] \in Int
      BY <1>2, <3>2, <3>3
    <3> QED
      BY <3>1, <3>4
  <2> HIDE DEF T
  <2>4. \A i \in 0 .. n : i \in T
    BY <1>1, <2>2, <2>3, OverValues!IntervalInduction
  <2> QED
    BY <2>4 DEF T
<1> DEFINE k == overValues[n] * 2711 + 5
<1>12. k \in Int
  BY <1>1, <1>11
<1> HIDE DEF k
<1>13. k % Modulus \in 0 .. (Modulus - 1)
  BY <1>2, <1>12
<1> QED
  BY <1>9, <1>13 DEF k

\* The addresses of the model.
WotsAdrs == [layer_adrs : Nat, tree_adrs_low : Nat, type_const : {WotsHash, WotsPrf},
             key_pair_adrs : Nat, chain_adrs : Nat, hash_adrs : Nat]
PkAdrs   == [layer_adrs : Nat, tree_adrs_low : Nat, type_const : {WotsPk, ForsRoots},
             key_pair_adrs : Nat]
TreeAdrs == [layer_adrs : Nat, tree_adrs_low : Nat, type_const : {HashTree},
             tree_height : Nat, tree_index : Nat]
ForsAdrs == [layer_adrs : Nat, tree_adrs_low : Nat, type_const : {ForsTree, ForsPrf},
             key_pair_adrs : Nat, tree_height : Nat, tree_index : Nat]
Adrs == WotsAdrs \cup PkAdrs \cup TreeAdrs \cup ForsAdrs

\* They are hashed as numbers.
LEMMA CompressedType == \A a \in Adrs : compressed(a) \in Seq(Int)
<1> TAKE a \in Adrs
<1>1. /\ a.layer_adrs \in Nat /\ a.tree_adrs_low \in Nat
      /\ a.type_const \in 0 .. 6 /\ LastWords(a) \in Seq(Int)
  <2>1. CASE a \in WotsAdrs
    BY <2>1 DEF WotsAdrs, LastWords, WotsHash, WotsPk, HashTree, ForsTree, ForsRoots, WotsPrf, ForsPrf
  <2>2. CASE a \in PkAdrs
    BY <2>2 DEF PkAdrs, LastWords, WotsHash, WotsPk, HashTree, ForsTree, ForsRoots, WotsPrf, ForsPrf
  <2>3. CASE a \in TreeAdrs
    BY <2>3 DEF TreeAdrs, LastWords, WotsHash, WotsPk, HashTree, ForsTree, ForsRoots, WotsPrf, ForsPrf
  <2>4. CASE a \in ForsAdrs
    BY <2>4 DEF ForsAdrs, LastWords, WotsHash, WotsPk, HashTree, ForsTree, ForsRoots, WotsPrf, ForsPrf
  <2> QED
    BY <2>1, <2>2, <2>3, <2>4 DEF Adrs
<1>2. <<a.layer_adrs % 256, a.tree_adrs_low, a.type_const % 256>> \in Seq(Int)
  <2>1. a.layer_adrs % 256 \in Int /\ a.type_const % 256 \in Int /\ a.tree_adrs_low \in Int
    BY <1>1
  <2> QED
    BY <2>1
<1> QED
  BY <1>1, <1>2 DEF compressed

\* What as_slice takes: all that is known of a value is that it is a number of
\* N bytes.
IsValue(v) == v.val \in 0 .. (Modulus - 1)

\* A value is a hash of values.
LEMMA HashType ==
  ASSUME NEW a \in Adrs, NEW parts, Len(parts) \in Nat,
         \A i \in 1 .. Len(parts) : IsValue(parts[i])
  PROVE  IsValue(Hash(a, parts))
<1>1. \A i \in 1 .. Len(parts) : parts[i].val \in Int
  <2>1. 0 .. (Modulus - 1) \subseteq Int
    BY ModulusType
  <2>2. \A x : IsValue(x) => x.val \in Int
    BY <2>1, Zenon DEF IsValue
  <2> QED
    BY <2>2
<1>2. compressed(a) \in Seq(Int)
  BY CompressedType
<1>3. Mix(compressed(a), parts) \in 0 .. (Modulus - 1)
  BY <1>1, <1>2, MixType
<1>4. Hash(a, parts).val = Mix(compressed(a), parts)
  BY DEF Hash
<1> QED
  BY <1>3, <1>4 DEF IsValue

\* The functions of the suite.
LEMMA SuiteType ==
  ASSUME NEW a \in Adrs
  PROVE  /\ IsValue(prf_sk(a))
         /\ \A x : IsValue(x) => IsValue(f(a, x))
         /\ \A x, y : IsValue(x) /\ IsValue(y) => IsValue(h(a, x, y))
         /\ \A n \in Nat : \A S : (\A x \in S : IsValue(x)) => \A x \in [1 .. n -> S] : IsValue(t(a, x))
<1>1. IsValue(prf_sk(a))
  <2>1. Len(<<>>) \in Nat /\ \A i \in 1 .. Len(<<>>) : IsValue(<<>>[i])
    OBVIOUS
  <2> QED
    BY <2>1, HashType DEF prf_sk
<1>2. ASSUME NEW x, IsValue(x)
      PROVE  IsValue(f(a, x))
  <2>1. Len(<<x>>) \in Nat /\ \A i \in 1 .. Len(<<x>>) : IsValue(<<x>>[i])
    <3>1. Len(<<x>>) = 1 /\ <<x>>[1] = x
      OBVIOUS
    <3>2. \A i \in 1 .. 1 : i = 1
      OBVIOUS
    <3> QED
      BY <1>2, <3>1, <3>2
  <2> QED
    BY <2>1, HashType DEF f
<1>3. ASSUME NEW x, NEW y, IsValue(x), IsValue(y)
      PROVE  IsValue(h(a, x, y))
  <2>1. Len(<<x, y>>) \in Nat /\ \A i \in 1 .. Len(<<x, y>>) : IsValue(<<x, y>>[i])
    <3>1. Len(<<x, y>>) = 2 /\ <<x, y>>[1] = x /\ <<x, y>>[2] = y
      OBVIOUS
    <3>2. \A i \in 1 .. 2 : i = 1 \/ i = 2
      OBVIOUS
    <3> QED
      BY <1>3, <3>1, <3>2
  <2> QED
    BY <2>1, HashType DEF h
<1>4. ASSUME NEW n \in Nat, NEW S, \A x \in S : IsValue(x), NEW x \in [1 .. n -> S]
      PROVE  IsValue(t(a, x))
  <2>1. Len(x) = n /\ \A i \in 1 .. n : x[i] \in S
    OBVIOUS
  <2>2. Len(x) \in Nat /\ \A i \in 1 .. Len(x) : IsValue(x[i])
    BY <1>4, <2>1
  <2> QED
    BY <2>2, HashType DEF t
<1> QED
  BY <1>1, <1>2, <1>3, <1>4

-----------------------------------------------------------------------------
(* WOTS+.                                                                  *)

\* A sequence is one over any set its elements are in.
LEMMA SeqInto ==
  ASSUME NEW S, NEW T, NEW s \in Seq(S), \A i \in 1 .. Len(s) : s[i] \in T
  PROVE  s \in Seq(T)
  OBVIOUS

\* Its elements are in that set.
LEMMA SeqElement ==
  ASSUME NEW S, NEW s \in Seq(S), NEW i \in 1 .. Len(s)
  PROVE  s[i] \in S
  OBVIOUS

\* So are those of the concatenation of two.
LEMMA ConcatInto ==
  ASSUME NEW S, NEW s1 \in Seq(S), NEW s2 \in Seq(S)
  PROVE  /\ s1 \o s2 \in Seq(S) /\ Len(s1 \o s2) = Len(s1) + Len(s2)
         /\ \A i \in 1 .. Len(s1) : (s1 \o s2)[i] = s1[i]
         /\ \A i \in 1 .. Len(s2) : (s1 \o s2)[Len(s1) + i] = s2[i]
  OBVIOUS

\* What the numbers of the parameter set are.
LEMMA Numbers ==
  /\ P.N \in Nat \ {0} /\ P.WotsMsgLen \in Nat \ {0} /\ P.WotsSigLen \in Nat
  /\ P.HPrime \in Nat \ {0} /\ P.D \in Nat \ {0} /\ P.K \in Nat \ {0} /\ P.A \in Nat \ {0}
  /\ P.H = P.D * P.HPrime /\ P.MD = DivCeil(P.K * P.A, 8)
  /\ P.M = P.MD + DivCeil(P.H - P.HPrime, 8) + DivCeil(P.HPrime, 8)
<1>1. /\ P.N \in Nat \ {0} /\ P.WotsMsgLen \in Nat \ {0}
      /\ P.HPrime \in Nat \ {0} /\ P.D \in Nat \ {0} /\ P.K \in Nat \ {0} /\ P.A \in Nat \ {0}
      /\ Fits(P)
  BY SlhDsaAssumption
<1>2. /\ P.WotsSigLen = P.WotsMsgLen + CK_LEN
      /\ P.H = P.D * P.HPrime /\ P.MD = DivCeil(P.K * P.A, 8)
      /\ P.M = P.MD + DivCeil(P.H - P.HPrime, 8) + DivCeil(P.HPrime, 8)
  BY <1>1, Zenon DEF Fits
<1>3. P.WotsSigLen \in Nat
  BY <1>1, <1>2 DEF CK_LEN
<1> QED
  BY <1>1, <1>2, <1>3, Zenon

\* What those of WOTS+ are: two digits to a byte, and three of a checksum that no
\* message is too long for.
LEMMA WotsNumbers ==
  /\ P.WotsMsgLen * 4 = 8 * P.N /\ P.WotsSigLen = P.WotsMsgLen + 3
  /\ P.WotsMsgLen * 15 < 4096
<1>1. /\ P.WotsMsgLen * LOG_W = 8 * P.N /\ P.WotsSigLen = P.WotsMsgLen + CK_LEN
      /\ P.WotsMsgLen * (W - 1) < 2^(CK_LEN * LOG_W)
  BY SlhDsaAssumption, Zenon DEF Fits
<1>2. P.WotsMsgLen * 4 = 8 * P.N /\ P.WotsSigLen = P.WotsMsgLen + 3
  BY <1>1 DEF LOG_W, CK_LEN
<1>3. P.WotsMsgLen * 15 < 4096
  <2>1. 2^(8 + 4) = 2^8 * 2^4 /\ 2^8 = 256 /\ 2^4 = 16
    BY PowerSum
  <2>2. CK_LEN * LOG_W = 8 + 4 /\ W - 1 = 15
    BY DEF CK_LEN, LOG_W, W
  <2>3. P.WotsMsgLen * 15 < 2^(8 + 4)
    BY <1>1, <2>2
  <2> QED
    BY <2>1, <2>3
<1> QED
  BY <1>2, <1>3

\* A number is no longer than its bytes.
LEMMA FromBytesType == \A x \in Seq(Byte) : from_be_bytes(x) \in Nat
<1> TAKE x \in Seq(Byte)
<1>1. PICK v : Prefixes(v, x) /\ from_be_bytes(x) = v[Len(x)]
  BY FromBytes
<1>2. v \in [0 .. Len(x) -> Nat] /\ Len(x) \in 0 .. Len(x)
  BY <1>1 DEF Prefixes
<1> QED
  BY <1>1, <1>2

\* A digit has B bits.
LEMMA DigitsType ==
  ASSUME NEW x \in Seq(Byte), NEW OutLen \in Nat, NEW B \in Nat \ {0},
         OutLen * B <= 8 * Len(x)
  PROVE  /\ base_2b(x, OutLen, B) \in Seq(0 .. (2^B - 1))
         /\ Len(base_2b(x, OutLen, B)) = OutLen
<1> DEFINE out == base_2b(x, OutLen, B)
           v == from_be_bytes(x)
           q == 2^B
<1>1. /\ out \in Seq(Nat) /\ Len(out) = OutLen
      /\ \A j \in 1 .. OutLen : out[j] = (v \div 2^(8 * Len(x) - j * B)) % q
  BY DigitsAre
<1>2. v \in Nat /\ q \in Nat /\ q > 0
  BY FromBytesType, PowerType
<1> HIDE DEF out, v, q
<1>3. ASSUME NEW j \in 1 .. OutLen
      PROVE  out[j] \in 0 .. (q - 1)
  <2> DEFINE k == 8 * Len(x) - j * B
             d == 2^k
  <2>1. k \in Nat
    <3>1. j \in Nat /\ j <= OutLen
      OBVIOUS
    <3>2. j * B <= OutLen * B /\ j * B \in Nat /\ OutLen * B \in Nat
      BY <3>1
    <3> QED
      BY <3>2
  <2> HIDE DEF k
  <2>2. d \in Nat /\ d > 0
    BY <2>1, PowerType
  <2> HIDE DEF d
  <2>3. v \div d \in Nat
    BY <1>2, <2>2
  <2>4. \A y \in Nat : y % q \in 0 .. (q - 1)
    BY <1>2
  <2> QED
    BY <1>1, <2>3, <2>4 DEF d, k
<1>4. out \in Seq(0 .. (q - 1))
  BY <1>1, <1>3, SeqInto
<1> QED
  BY <1>1, <1>4 DEF out, q

LeftStep(msg, i, v) == v + W - 1 - msg[i]

Left == INSTANCE Recursion WITH Step <- LeftStep

\* The checksum of digits is a number.
LEMMA StepsLeftType == \A msg \in Seq(Nat) : steps_left(msg) \in Int
<1> TAKE msg \in Seq(Nat)
<1> DEFINE n == Len(msg)
<1>1. n \in Nat /\ 0 <= n /\ \A i \in 1 .. n : msg[i] \in Nat
  OBVIOUS
<1>2. PICK g : Left!Solves(g, msg, 0, 0, n)
  BY <1>1, Left!RecursionExists
<1>3. g = [i \in 0 .. n |-> IF i = 0 THEN 0 ELSE g[i - 1] + W - 1 - msg[i]]
  BY <1>2 DEF Left!Solves, LeftStep
<1> DEFINE upTo == CHOOSE upTo : upTo =
             [i \in 0 .. n |-> IF i = 0 THEN 0 ELSE upTo[i - 1] + W - 1 - msg[i]]
<1>4. upTo = [i \in 0 .. n |-> IF i = 0 THEN 0 ELSE upTo[i - 1] + W - 1 - msg[i]]
  BY <1>3
<1>5. steps_left(msg) = upTo[n]
  BY DEF steps_left
<1> HIDE DEF upTo, n
<1> DEFINE T == {i \in Nat : upTo[i] \in Int}
<1>6. 0 \in T
  BY <1>1, <1>4
<1>7. ASSUME NEW i \in (0 + 1) .. n, i - 1 \in T
      PROVE  i \in T
  <2>1. i \in Nat /\ i \in 0 .. n /\ i # 0 /\ i \in 1 .. n
    BY <1>1
  <2>2. upTo[i] = upTo[i - 1] + W - 1 - msg[i] /\ upTo[i - 1] \in Int /\ msg[i] \in Nat
    BY <1>1, <1>4, <1>7, <2>1
  <2>3. upTo[i] \in Int
    BY <2>2 DEF W
  <2> QED
    BY <2>1, <2>3
<1> HIDE DEF T
<1>8. \A i \in 0 .. n : i \in T
  BY <1>1, <1>6, <1>7, Left!IntervalInduction
<1> QED
  BY <1>1, <1>5, <1>8 DEF T

\* as_slice makes N bytes.
LEMMA ValueBytes ==
  ASSUME NEW v, IsValue(v)
  PROVE  as_slice(v) \in Seq(Byte) /\ Len(as_slice(v)) = P.N
<1> DEFINE n == P.N
           k == v.val
           byte(i) == (k \div 2^(8 * (n - i))) % 256
<1>1. n \in Nat /\ k \in Int
  <2>1. 0 .. (Modulus - 1) \subseteq Int
    BY ModulusType
  <2>2. v.val \in 0 .. (Modulus - 1)
    BY DEF IsValue
  <2> QED
    BY <2>1, <2>2, Numbers
<1>2. as_slice(v) = [i \in 1 .. n |-> byte(i)]
  BY DEF as_slice
<1> HIDE DEF n, k
<1>3. ASSUME NEW i \in 1 .. n
      PROVE  byte(i) \in Byte
  <2> DEFINE e == 8 * (n - i)
             q == 2^e
             y == k \div q
  <2>1. e \in Nat
    BY <1>1
  <2> HIDE DEF e
  <2>2. q \in Nat /\ q > 0
    BY <2>1, PowerType
  <2> HIDE DEF q
  <2>3. y \in Int
    BY <1>1, <2>2
  <2> HIDE DEF y
  <2>4. y % 256 \in Byte
    BY <2>3 DEF Byte
  <2> QED
    BY <2>4 DEF y, q, e
<1> HIDE DEF byte
<1>4. [i \in 1 .. n |-> byte(i)] \in [1 .. n -> Byte]
  BY <1>3
<1> DEFINE x == [i \in 1 .. n |-> byte(i)]
<1>5. x \in [1 .. n -> Byte]
  BY <1>4
<1> HIDE DEF x
<1>6. x \in Seq(Byte) /\ Len(x) = n
  BY <1>1, <1>5
<1> QED
  BY <1>2, <1>6 DEF x, n

\* What wots.rs signs of a value: a digit for each chain.
LEMMA WotsDigits ==
  ASSUME NEW m, IsValue(m)
  PROVE  /\ as_slice(m) \in Seq(Byte) /\ Len(as_slice(m)) = P.N
         /\ msg_csum(as_slice(m)) \in Seq(0 .. (W - 1))
         /\ Len(msg_csum(as_slice(m))) = P.WotsSigLen
<1> DEFINE x == as_slice(m)
           msg == base_2b(x, P.WotsMsgLen, LOG_W)
           csum == checksum(msg)
           y == <<csum \div 256, csum % 256>>
           c == base_2b(y, CK_LEN, LOG_W)
           R == 0 .. (2^LOG_W - 1)
<1>1. \A k \in Int : 0 <= k /\ k < 65536 =>
        <<k \div 256, k % 256>> \in Seq(Byte) /\ Len(<<k \div 256, k % 256>>) = 2
  <2> TAKE k \in Int
  <2>1. \A a, b \in Byte : <<a, b>> \in Seq(Byte) /\ Len(<<a, b>>) = 2
    OBVIOUS
  <2> HAVE 0 <= k /\ k < 65536
  <2>2. k \div 256 \in Byte /\ k % 256 \in Byte
    BY DEF Byte
  <2> QED
    BY <2>1, <2>2
<1>2. x \in Seq(Byte) /\ Len(x) = P.N
  BY ValueBytes
<1>3. /\ P.WotsMsgLen \in Nat /\ CK_LEN \in Nat /\ LOG_W \in Nat \ {0}
      /\ P.WotsMsgLen * LOG_W <= 8 * P.N /\ CK_LEN * LOG_W <= 8 * 2
      /\ P.WotsMsgLen + CK_LEN = P.WotsSigLen
  <2> DEFINE n == P.WotsMsgLen
             N == P.N
             l == P.WotsSigLen
  <2>1. n \in Nat /\ N \in Nat /\ n * 4 = 8 * N /\ l = n + 3
    BY Numbers, WotsNumbers
  <2> HIDE DEF n, N, l
  <2>2. n * LOG_W <= 8 * N /\ n + CK_LEN = l
    BY <2>1 DEF LOG_W, CK_LEN
  <2>3. CK_LEN \in Nat /\ LOG_W \in Nat \ {0} /\ CK_LEN * LOG_W <= 8 * 2
    BY DEF LOG_W, CK_LEN
  <2> QED
    BY <2>1, <2>2, <2>3 DEF n, N, l
<1>4. R = 0 .. (W - 1) /\ R \subseteq Nat
  BY DEF W, LOG_W
<1> HIDE DEF x
<1>5. msg \in Seq(R) /\ Len(msg) = P.WotsMsgLen
  BY <1>2, <1>3, DigitsType
<1> HIDE DEF msg, R
<1>6. csum \in Int /\ 0 <= csum /\ csum < 65536
  <2>1. msg \in Seq(Nat)
    <3>1. \A i \in 1 .. Len(msg) : msg[i] \in Nat
      <4>1. \A i \in 1 .. Len(msg) : msg[i] \in R
        BY <1>5
      <4> QED
        BY <1>4, <4>1
    <3> QED
      BY <1>5, <3>1, SeqInto
  <2> DEFINE k == steps_left(msg) * 2^4
  <2>2. k \in Int
    BY <2>1, StepsLeftType
  <2>3. csum = k % 2^16 /\ 2^16 = 65536
    BY DEF checksum
  <2> HIDE DEF k, csum
  <2> QED
    BY <2>2, <2>3
<1> HIDE DEF csum
<1>7. y \in Seq(Byte) /\ Len(y) = 2
  BY <1>1, <1>6
<1> HIDE DEF y
<1>8. c \in Seq(R) /\ Len(c) = CK_LEN
  BY <1>3, <1>7, DigitsType DEF R
<1> HIDE DEF c
<1>9. msg_csum(x) = msg \o c
  BY DEF msg_csum, msg, csum, y, c
<1>10. msg \o c \in Seq(R) /\ Len(msg \o c) = P.WotsSigLen
  <2>1. msg \in Seq(R) /\ c \in Seq(R)
    BY <1>5, <1>8
  <2>2. msg \o c \in Seq(R) /\ Len(msg \o c) = Len(msg) + Len(c)
    BY <2>1, ConcatInto
  <2> QED
    BY <1>3, <1>5, <1>8, <2>2
<1> QED
  BY <1>2, <1>4, <1>9, <1>10 DEF x

ChainStep(adrs, j, v) == f([adrs EXCEPT !.hash_adrs = j - 1], v)

Chain == INSTANCE Recursion WITH Step <- ChainStep

\* A chain follows its step.
LEMMA ChainFollows ==
  ASSUME NEW x, NEW i \in Nat, NEW s \in Nat, NEW adrs
  PROVE  \E g : Chain!Solves(g, adrs, x, i, i + s) /\ wots_chain(x, i, s, adrs) = g[i + s]
<1>1. PICK g : Chain!Solves(g, adrs, x, i, i + s)
  <2>1. i \in Nat /\ i + s \in Nat /\ i <= i + s
    OBVIOUS
  <2> QED
    BY <2>1, Chain!RecursionExists
<1>2. g = [j \in i .. (i + s) |->
            IF j = i THEN x ELSE f([adrs EXCEPT !.hash_adrs = j - 1], g[j - 1])]
  BY <1>1 DEF Chain!Solves, ChainStep
<1> DEFINE at == CHOOSE at : at =
             [j \in i .. (i + s) |->
               IF j = i THEN x ELSE f([adrs EXCEPT !.hash_adrs = j - 1], at[j - 1])]
<1>3. at = [j \in i .. (i + s) |->
             IF j = i THEN x ELSE f([adrs EXCEPT !.hash_adrs = j - 1], at[j - 1])]
  BY <1>2
<1>4. wots_chain(x, i, s, adrs) = at[i + s]
  BY DEF wots_chain
<1> HIDE DEF at
<1>5. Chain!Solves(at, adrs, x, i, i + s)
  BY <1>3 DEF Chain!Solves, ChainStep
<1> QED
  BY <1>4, <1>5

\* Two pieces of a chain are one (wots.rs: the verifier goes on where the signer
\* stopped).
LEMMA ChainComposes ==
  ASSUME NEW x, NEW n \in Nat, NEW d \in 0 .. n, NEW adrs
  PROVE  wots_chain(wots_chain(x, 0, d, adrs), d, n - d, adrs) = wots_chain(x, 0, n, adrs)
<1>1. d \in Nat /\ n - d \in Nat /\ 0 \in Nat /\ d <= n /\ 0 <= d /\ d + (n - d) = n
      /\ 0 + d = d /\ 0 + n = n
  OBVIOUS
<1>2. PICK g : Chain!Solves(g, adrs, x, 0, n) /\ wots_chain(x, 0, n, adrs) = g[n]
  <2>1. \E g : Chain!Solves(g, adrs, x, 0, 0 + n) /\ wots_chain(x, 0, n, adrs) = g[0 + n]
    BY <1>1, ChainFollows
  <2> QED
    BY <1>1, <2>1
<1>3. PICK k : Chain!Solves(k, adrs, x, 0, d) /\ wots_chain(x, 0, d, adrs) = k[d]
  <2>1. \E k : Chain!Solves(k, adrs, x, 0, 0 + d) /\ wots_chain(x, 0, d, adrs) = k[0 + d]
    BY <1>1, ChainFollows
  <2> QED
    BY <1>1, <2>1
<1>4. k[d] = g[d]
  <2>1. \A j \in 0 .. d : k[j] = g[j]
    BY <1>1, <1>2, <1>3, Chain!RecursionUnique
  <2> QED
    BY <1>1, <2>1
<1> DEFINE c == g[d]
<1>5. PICK u : Chain!Solves(u, adrs, c, d, n) /\ wots_chain(c, d, n - d, adrs) = u[n]
  <2> HIDE DEF c
  <2>1. \E u : Chain!Solves(u, adrs, c, d, d + (n - d)) /\ wots_chain(c, d, n - d, adrs) = u[d + (n - d)]
    BY <1>1, ChainFollows
  <2> QED
    BY <1>1, <2>1
<1> DEFINE w == [j \in d .. n |-> g[j]]
<1>6. Chain!Solves(w, adrs, c, d, n)
  <2>1. \A j \in 1 .. n : g[j] = ChainStep(adrs, j, g[j - 1])
    BY <1>2 DEF Chain!Solves
  <2>2. ASSUME NEW j \in d .. n
        PROVE  w[j] = IF j = d THEN c ELSE ChainStep(adrs, j, w[j - 1])
    <3>1. CASE j = d
      BY <3>1
    <3>2. CASE j # d
      <4>1. j \in 1 .. n /\ j - 1 \in d .. n
        BY <1>1, <3>2
      <4>2. w[j] = g[j] /\ w[j - 1] = g[j - 1]
        BY <4>1
      <4> HIDE DEF w
      <4> QED
        BY <2>1, <3>2, <4>1, <4>2
    <3> QED
      BY <3>1, <3>2
  <2>3. w = [j \in d .. n |-> w[j]]
    OBVIOUS
  <2> HIDE DEF w, c
  <2>4. w = [j \in d .. n |-> IF j = d THEN c ELSE ChainStep(adrs, j, w[j - 1])]
    BY <2>2, <2>3
  <2> QED
    BY <2>4 DEF Chain!Solves
<1>7. w[n] = g[n] /\ n \in d .. n
  BY <1>1
<1> HIDE DEF w, c
<1>8. \A j \in d .. n : u[j] = w[j]
  BY <1>1, <1>5, <1>6, Chain!RecursionUnique
<1>9. wots_chain(c, d, n - d, adrs) = g[n]
  BY <1>5, <1>7, <1>8
<1> QED
  BY <1>2, <1>3, <1>4, <1>9 DEF c

\* The addresses of one-time keys.
LEMMA WotsAdrsSteps ==
  ASSUME NEW adrs \in WotsAdrs
  PROVE  /\ \A i \in Nat : [adrs EXCEPT !.hash_adrs = i] \in WotsAdrs
         /\ \A i \in Nat : [adrs EXCEPT !.key_pair_adrs = i] \in WotsAdrs
         /\ \A i \in Chains : OnChain(adrs, i) \in WotsAdrs
         /\ prf_adrs(adrs) \in WotsAdrs
         /\ pk_adrs(adrs) \in PkAdrs
         /\ tree_adrs(adrs) \in TreeAdrs
<1>1. \A i \in Chains : i - 1 \in Nat
  BY Numbers DEF Chains
<1> QED
  BY <1>1 DEF WotsAdrs, PkAdrs, TreeAdrs, OnChain, prf_adrs, pk_adrs, tree_adrs

\* A chain of values.
LEMMA ChainType ==
  ASSUME NEW x, IsValue(x), NEW i \in Nat, NEW s \in Nat, NEW adrs \in WotsAdrs
  PROVE  IsValue(wots_chain(x, i, s, adrs))
<1>1. PICK g : Chain!Solves(g, adrs, x, i, i + s) /\ wots_chain(x, i, s, adrs) = g[i + s]
  BY ChainFollows
<1> DEFINE n == i + s
           T == {j \in Nat : IsValue(g[j])}
<1>2. n \in Nat /\ i <= n
  OBVIOUS
<1> HIDE DEF n
<1>3. g[i] = x /\ \A j \in (i + 1) .. n : g[j] = f([adrs EXCEPT !.hash_adrs = j - 1], g[j - 1])
  BY <1>1, <1>2 DEF Chain!Solves, ChainStep, n
<1>4. i \in T
  BY <1>3
<1>5. ASSUME NEW j \in (i + 1) .. n, j - 1 \in T
      PROVE  j \in T
  <2>1. j \in Nat /\ j - 1 \in Nat
    BY <1>2
  <2>2. [adrs EXCEPT !.hash_adrs = j - 1] \in Adrs
    BY <2>1, WotsAdrsSteps DEF Adrs
  <2>3. IsValue(g[j - 1])
    BY <1>5
  <2>4. IsValue(f([adrs EXCEPT !.hash_adrs = j - 1], g[j - 1]))
    BY <2>2, <2>3, SuiteType
  <2>5. IsValue(g[j])
    BY <1>3, <2>4
  <2> QED
    BY <2>1, <2>5
<1> HIDE DEF T
<1>6. \A j \in i .. n : j \in T
  BY <1>2, <1>4, <1>5, Chain!IntervalInduction
<1>7. IsValue(g[n])
  BY <1>2, <1>6 DEF T
<1> QED
  BY <1>1, <1>7 DEF n

\* A one-time public key is a value.
LEMMA WotsPkType == \A adrs \in WotsAdrs : IsValue(wots_pk_gen(adrs))
<1> TAKE adrs \in WotsAdrs
<1> DEFINE ends == [i \in Chains |-> wots_chain(wots_sk(adrs, i), 0, W - 1, OnChain(adrs, i))]
           S == {ends[i] : i \in Chains}
<1>1. ASSUME NEW i \in Chains
      PROVE  IsValue(ends[i])
  <2>1. OnChain(adrs, i) \in WotsAdrs /\ OnChain(prf_adrs(adrs), i) \in WotsAdrs
    BY WotsAdrsSteps
  <2>2. IsValue(wots_sk(adrs, i))
    BY <2>1, SuiteType DEF wots_sk, Adrs
  <2>3. 0 \in Nat /\ W - 1 \in Nat
    BY DEF W
  <2>4. IsValue(wots_chain(wots_sk(adrs, i), 0, W - 1, OnChain(adrs, i)))
    BY <2>1, <2>2, <2>3, ChainType
  <2> QED
    BY <2>4
<1>2. ends \in [1 .. P.WotsSigLen -> S] /\ P.WotsSigLen \in Nat
  BY Numbers DEF Chains
<1>3. \A x \in S : IsValue(x)
  BY <1>1
<1>4. wots_pk_gen(adrs) = t(pk_adrs(adrs), ends)
  BY DEF wots_pk_gen
<1>5. pk_adrs(adrs) \in Adrs
  BY WotsAdrsSteps DEF Adrs
<1> HIDE DEF ends, S
<1> QED
  BY <1>2, <1>3, <1>4, <1>5, SuiteType

\* The verifier of a one-time signature finds the public key.
LEMMA WotsOpens ==
  ASSUME NEW m, IsValue(m), NEW adrs
  PROVE  wots_pk_from_sig(wots_sign(m, adrs), m, adrs) = wots_pk_gen(adrs)
<1> DEFINE digits == msg_csum(as_slice(m))
           sig == wots_sign(m, adrs)
<1>1. ASSUME NEW i \in Chains
      PROVE  digits[i] \in 0 .. (W - 1)
  <2>1. digits \in Seq(0 .. (W - 1)) /\ Len(digits) = P.WotsSigLen
    BY WotsDigits
  <2> HIDE DEF digits
  <2>2. i \in 1 .. Len(digits)
    BY <2>1 DEF Chains
  <2> QED
    BY <2>1, <2>2, SeqElement
<1> HIDE DEF digits
<1>2. sig = [i \in Chains |-> wots_chain(wots_sk(adrs, i), 0, digits[i], OnChain(adrs, i))]
  BY DEF wots_sign, digits
<1> HIDE DEF sig
<1>3. ASSUME NEW i \in Chains
      PROVE  wots_chain(sig[i], digits[i], W - 1 - digits[i], OnChain(adrs, i))
               = wots_chain(wots_sk(adrs, i), 0, W - 1, OnChain(adrs, i))
  <2>1. W - 1 \in Nat
    BY DEF W
  <2>2. sig[i] = wots_chain(wots_sk(adrs, i), 0, digits[i], OnChain(adrs, i))
    BY <1>2
  <2> QED
    BY <1>1, <2>1, <2>2, ChainComposes
<1>4. wots_pk_from_sig(sig, m, adrs) =
        t(pk_adrs(adrs),
          [i \in Chains |-> wots_chain(sig[i], digits[i], W - 1 - digits[i], OnChain(adrs, i))])
  BY DEF wots_pk_from_sig, digits
<1>5. [i \in Chains |-> wots_chain(sig[i], digits[i], W - 1 - digits[i], OnChain(adrs, i))]
        = [i \in Chains |-> wots_chain(wots_sk(adrs, i), 0, W - 1, OnChain(adrs, i))]
  BY <1>3
<1> QED
  BY <1>4, <1>5 DEF wots_pk_gen, sig

-----------------------------------------------------------------------------
(* XMSS trees.                                                             *)

XmssRow(adrs, z, below) ==
  [i \in Nat |-> h([tree_adrs(adrs) EXCEPT !.tree_height = z, !.tree_index = i],
                   below[2 * i], below[2 * i + 1])]

XmssRows == INSTANCE Recursion WITH Step <- XmssRow

\* A leaf is a one-time key, an inner node hashes the two below.
LEMMA XmssNode ==
  ASSUME NEW adrs
  PROVE  /\ \A i \in Nat : xmss_node(i, 0, adrs) = wots_pk_gen([adrs EXCEPT !.key_pair_adrs = i])
         /\ \A z \in Nat \ {0}, i \in Nat :
              xmss_node(i, z, adrs) =
                h([tree_adrs(adrs) EXCEPT !.tree_height = z, !.tree_index = i],
                  xmss_node(2 * i, z - 1, adrs), xmss_node(2 * i + 1, z - 1, adrs))
<1> DEFINE leaves == [i \in Nat |-> wots_pk_gen([adrs EXCEPT !.key_pair_adrs = i])]
<1>1. PICK g : XmssRows!SolvesOnNat(g, adrs, leaves)
  <2> HIDE DEF leaves
  <2> QED
    BY XmssRows!RecursionOnNat
<1>2. g = [z \in Nat |->
            IF z = 0 THEN [i \in Nat |-> wots_pk_gen([adrs EXCEPT !.key_pair_adrs = i])]
            ELSE [i \in Nat |-> h([tree_adrs(adrs) EXCEPT !.tree_height = z, !.tree_index = i],
                                  g[z - 1][2 * i], g[z - 1][2 * i + 1])]]
  BY <1>1 DEF XmssRows!SolvesOnNat, XmssRow
<1> DEFINE row == CHOOSE row : row =
             [z \in Nat |->
               IF z = 0 THEN [i \in Nat |-> wots_pk_gen([adrs EXCEPT !.key_pair_adrs = i])]
               ELSE [i \in Nat |-> h([tree_adrs(adrs) EXCEPT !.tree_height = z, !.tree_index = i],
                                     row[z - 1][2 * i], row[z - 1][2 * i + 1])]]
<1>3. row = [z \in Nat |->
              IF z = 0 THEN [i \in Nat |-> wots_pk_gen([adrs EXCEPT !.key_pair_adrs = i])]
              ELSE [i \in Nat |-> h([tree_adrs(adrs) EXCEPT !.tree_height = z, !.tree_index = i],
                                    row[z - 1][2 * i], row[z - 1][2 * i + 1])]]
  BY <1>2
<1>4. \A i, z : xmss_node(i, z, adrs) = row[z][i]
  BY DEF xmss_node
<1> HIDE DEF row, leaves
<1>5. row = [z \in Nat |-> IF z = 0 THEN leaves ELSE XmssRow(adrs, z, row[z - 1])]
  BY <1>3 DEF XmssRow, leaves
<1>6. \A i \in Nat : xmss_node(i, 0, adrs) = wots_pk_gen([adrs EXCEPT !.key_pair_adrs = i])
  <2>1. row[0] = leaves
    BY <1>5
  <2> QED
    BY <1>4, <2>1 DEF leaves
<1>7. ASSUME NEW z \in Nat \ {0}, NEW i \in Nat
      PROVE  xmss_node(i, z, adrs) =
               h([tree_adrs(adrs) EXCEPT !.tree_height = z, !.tree_index = i],
                 xmss_node(2 * i, z - 1, adrs), xmss_node(2 * i + 1, z - 1, adrs))
  <2>1. row[z] = XmssRow(adrs, z, row[z - 1])
    BY <1>5
  <2>2. row[z][i] = h([tree_adrs(adrs) EXCEPT !.tree_height = z, !.tree_index = i],
                      row[z - 1][2 * i], row[z - 1][2 * i + 1])
    BY <2>1 DEF XmssRow
  <2> QED
    BY <1>4, <2>2
<1> QED
  BY <1>6, <1>7

\* A node is a value.
LEMMA XmssNodeType ==
  ASSUME NEW adrs \in WotsAdrs
  PROVE  \A z \in Nat : \A i \in Nat : IsValue(xmss_node(i, z, adrs))
<1> DEFINE T == {z \in Nat : \A i \in Nat : IsValue(xmss_node(i, z, adrs))}
<1>1. 0 \in T
  <2>1. \A i \in Nat : IsValue(xmss_node(i, 0, adrs))
    BY XmssNode, WotsPkType, WotsAdrsSteps
  <2> QED
    BY <2>1
<1>2. ASSUME NEW z \in Nat, z \in T
      PROVE  z + 1 \in T
  <2>1. ASSUME NEW i \in Nat
        PROVE  IsValue(xmss_node(i, z + 1, adrs))
    <3> DEFINE a == [tree_adrs(adrs) EXCEPT !.tree_height = z + 1, !.tree_index = i]
    <3>1. a \in Adrs
      <4>1. tree_adrs(adrs) \in TreeAdrs /\ z + 1 \in Nat
        BY WotsAdrsSteps
      <4>2. a \in TreeAdrs
        BY <4>1 DEF TreeAdrs
      <4> QED
        BY <4>2 DEF Adrs
    <3>2. z + 1 \in Nat \ {0} /\ (z + 1) - 1 = z /\ 2 * i \in Nat /\ 2 * i + 1 \in Nat
      OBVIOUS
    <3>3. xmss_node(i, z + 1, adrs) =
            h(a, xmss_node(2 * i, (z + 1) - 1, adrs), xmss_node(2 * i + 1, (z + 1) - 1, adrs))
      BY <3>2, XmssNode
    <3> HIDE DEF a
    <3>4. IsValue(xmss_node(2 * i, z, adrs)) /\ IsValue(xmss_node(2 * i + 1, z, adrs))
      BY <1>2, <3>2
    <3> QED
      BY <3>1, <3>2, <3>3, <3>4, SuiteType
  <2> QED
    BY <2>1
<1> HIDE DEF T
<1>3. \A z \in Nat : z \in T
  BY <1>1, <1>2, XmssRows!NumberInduction
<1> QED
  BY <1>3 DEF T

ClimbStep(e, j, v) ==
  LET at == [tree_adrs(e.own) EXCEPT !.tree_height = j, !.tree_index = e.idx \div 2^j]
  IN  IF (e.idx \div 2^(j - 1)) % 2 = 0
      THEN h(at, v, e.auth[j])
      ELSE h(at, e.auth[j], v)

Climb == INSTANCE Recursion WITH Step <- ClimbStep

\* A step up: an even node and the sibling on its right, or an odd one and the
\* sibling on its left, are the two below the same parent.
LEMMA Siblings ==
  ASSUME NEW idx \in Nat, NEW j \in Nat \ {0}
  PROVE  LET low  == idx \div 2^(j - 1)
             high == idx \div 2^j
         IN  /\ low \in Nat /\ high \in Nat /\ Sibling(low) \in Nat
             /\ low % 2 = 0 => low = 2 * high /\ Sibling(low) = 2 * high + 1
             /\ low % 2 # 0 => low = 2 * high + 1 /\ Sibling(low) = 2 * high
<1> DEFINE p == 2^(j - 1)
           low == idx \div p
           high == idx \div 2^j
<1>1. p \in Nat /\ p > 0 /\ 2^j = 2 * p /\ 2 * p = p * 2
  <2> DEFINE k == j - 1
  <2>1. k \in Nat /\ k + 1 = j
    OBVIOUS
  <2> HIDE DEF k
  <2>2. 2^k \in Nat /\ 2^k > 0 /\ 2^(k + 1) = 2 * 2^k
    BY <2>1, PowerType, PowerNext
  <2> QED
    BY <2>1, <2>2 DEF k
<1> HIDE DEF p
<1>2. low \in Nat
  BY <1>1
<1>3. high = low \div 2
  <2>1. 2 \in Nat /\ 2 > 0
    OBVIOUS
  <2>2. (idx \div p) \div 2 = idx \div (p * 2)
    <3> DEFINE d == 2
    <3>1. d \in Nat /\ d > 0
      OBVIOUS
    <3> HIDE DEF d
    <3>2. (idx \div p) \div d = idx \div (p * d)
      BY <1>1, <3>1, DivideTwice, ZenonT(30)
    <3> QED
      BY <3>2 DEF d
  <2> QED
    BY <1>1, <2>2
<1> HIDE DEF low, high
<1>4. /\ high \in Nat
      /\ low % 2 = 0 => low = 2 * high
      /\ low % 2 # 0 => low = 2 * high + 1
  BY <1>2, <1>3
<1>5. /\ low % 2 = 0 => Sibling(low) = low + 1
      /\ low % 2 # 0 => Sibling(low) = low - 1
  BY DEF Sibling
<1> QED
  BY <1>2, <1>4, <1>5 DEF low, high, p

\* Whatever key pair an address has, its nodes are the same.
LEMMA XmssOwn ==
  ASSUME NEW idx \in Nat, NEW adrs \in WotsAdrs
  PROVE  \A z \in Nat : \A i \in Nat :
           xmss_node(i, z, [adrs EXCEPT !.key_pair_adrs = idx]) = xmss_node(i, z, adrs)
<1> DEFINE own == [adrs EXCEPT !.key_pair_adrs = idx]
<1>1. \A i \in Nat : [own EXCEPT !.key_pair_adrs = i] = [adrs EXCEPT !.key_pair_adrs = i]
  BY DEF WotsAdrs
<1>2. tree_adrs(own) = tree_adrs(adrs)
  BY DEF tree_adrs, WotsAdrs
<1> HIDE DEF own
<1> DEFINE T == {z \in Nat : \A i \in Nat : xmss_node(i, z, own) = xmss_node(i, z, adrs)}
<1>3. 0 \in T
  <2>1. ASSUME NEW i \in Nat
        PROVE  xmss_node(i, 0, own) = xmss_node(i, 0, adrs)
    <3>1. /\ xmss_node(i, 0, own) = wots_pk_gen([own EXCEPT !.key_pair_adrs = i])
          /\ xmss_node(i, 0, adrs) = wots_pk_gen([adrs EXCEPT !.key_pair_adrs = i])
      BY XmssNode
    <3>2. [own EXCEPT !.key_pair_adrs = i] = [adrs EXCEPT !.key_pair_adrs = i]
      BY <1>1
    <3> QED
      BY <3>1, <3>2
  <2> QED
    BY <2>1
<1>4. ASSUME NEW z \in Nat, z \in T
      PROVE  z + 1 \in T
  <2>1. ASSUME NEW i \in Nat
        PROVE  xmss_node(i, z + 1, own) = xmss_node(i, z + 1, adrs)
    <3>1. z + 1 \in Nat \ {0} /\ (z + 1) - 1 = z /\ 2 * i \in Nat /\ 2 * i + 1 \in Nat
      OBVIOUS
    <3> DEFINE a == [tree_adrs(adrs) EXCEPT !.tree_height = z + 1, !.tree_index = i]
    <3>2. /\ xmss_node(i, z + 1, own) = h(a, xmss_node(2 * i, z, own), xmss_node(2 * i + 1, z, own))
          /\ xmss_node(i, z + 1, adrs) = h(a, xmss_node(2 * i, z, adrs), xmss_node(2 * i + 1, z, adrs))
      BY <1>2, <3>1, XmssNode
    <3> HIDE DEF a
    <3>3. /\ xmss_node(2 * i, z, own) = xmss_node(2 * i, z, adrs)
          /\ xmss_node(2 * i + 1, z, own) = xmss_node(2 * i + 1, z, adrs)
      BY <1>4, <3>1
    <3> QED
      BY <3>2, <3>3
  <2> QED
    BY <2>1
<1> HIDE DEF T
<1>5. \A z \in Nat : z \in T
  BY <1>3, <1>4, XmssRows!NumberInduction
<1> QED
  BY <1>5 DEF T, own

\* The verifier of a signature by a leaf finds the root of the tree
\* (xmss.rs: xmss_pk_from_sig of xmss_sign).
THEOREM XmssOpens ==
  ASSUME NEW m, IsValue(m), NEW idx \in Nat, idx < 2^P.HPrime, NEW adrs \in WotsAdrs
  PROVE  xmss_pk_from_sig(idx, xmss_sign(m, idx, adrs), m, adrs) = xmss_node(0, P.HPrime, adrs)
<1> DEFINE own == [adrs EXCEPT !.key_pair_adrs = idx]
           sig == xmss_sign(m, idx, adrs)
           e == [own |-> own, idx |-> idx, auth |-> sig.auth]
           leaf == wots_pk_from_sig(sig.sig, m, own)
           n == P.HPrime
<1>1. n \in Nat /\ 0 <= n /\ n \in Nat \ {0}
  BY Numbers
<1>2. PICK g : Climb!Solves(g, e, leaf, 0, n)
  <2> HIDE DEF n, e, leaf
  <2>1. 0 \in Nat
    OBVIOUS
  <2> QED
    BY <1>1, <2>1, Climb!RecursionExists
<1>3. g = [j \in 0 .. n |->
            IF j = 0 THEN wots_pk_from_sig(sig.sig, m, own)
            ELSE LET at == [tree_adrs(own) EXCEPT !.tree_height = j, !.tree_index = idx \div 2^j]
                 IN  IF (idx \div 2^(j - 1)) % 2 = 0
                     THEN h(at, g[j - 1], sig.auth[j])
                     ELSE h(at, sig.auth[j], g[j - 1])]
  <2> HIDE DEF own, sig, n
  <2> QED
    BY <1>2 DEF Climb!Solves, ClimbStep
<1> DEFINE climb == CHOOSE climb : climb =
             [j \in 0 .. n |->
               IF j = 0 THEN wots_pk_from_sig(sig.sig, m, own)
               ELSE LET at == [tree_adrs(own) EXCEPT !.tree_height = j, !.tree_index = idx \div 2^j]
                    IN  IF (idx \div 2^(j - 1)) % 2 = 0
                        THEN h(at, climb[j - 1], sig.auth[j])
                        ELSE h(at, sig.auth[j], climb[j - 1])]
<1>4. climb = [j \in 0 .. n |->
                IF j = 0 THEN wots_pk_from_sig(sig.sig, m, own)
                ELSE LET at == [tree_adrs(own) EXCEPT !.tree_height = j, !.tree_index = idx \div 2^j]
                     IN  IF (idx \div 2^(j - 1)) % 2 = 0
                         THEN h(at, climb[j - 1], sig.auth[j])
                         ELSE h(at, sig.auth[j], climb[j - 1])]
  BY <1>3
<1>5. xmss_pk_from_sig(idx, sig, m, adrs) = climb[n]
  BY DEF xmss_pk_from_sig
<1>6. /\ sig.sig = wots_sign(m, own)
      /\ sig.auth = [j \in 1 .. n |-> xmss_node(Sibling(idx \div 2^(j - 1)), j - 1, own)]
  BY DEF xmss_sign
<1> HIDE DEF climb, sig
<1>7. \A i \in Nat : [own EXCEPT !.key_pair_adrs = i] = [adrs EXCEPT !.key_pair_adrs = i]
  BY DEF WotsAdrs
<1>8. tree_adrs(own) = tree_adrs(adrs) /\ own = [adrs EXCEPT !.key_pair_adrs = idx]
  BY DEF tree_adrs, WotsAdrs
<1> HIDE DEF own
<1>9. \A z \in Nat : \A i \in Nat : xmss_node(i, z, own) = xmss_node(i, z, adrs)
  BY <1>8, XmssOwn
<1> DEFINE T == {j \in Nat : climb[j] = xmss_node(idx \div 2^j, j, adrs)}
<1>10. 0 \in T
  <2>1. climb[0] = wots_pk_from_sig(sig.sig, m, own)
    <3>1. 0 \in 0 .. n
      BY <1>1
    <3> HIDE DEF n
    <3> QED
      BY <1>4, <3>1
  <2>2. climb[0] = wots_pk_gen(own)
    BY <1>6, <2>1, WotsOpens
  <2>3. idx \div 2^0 = idx
    OBVIOUS
  <2> QED
    BY <1>8, <2>2, <2>3, XmssNode
<1>11. ASSUME NEW j \in (0 + 1) .. n, j - 1 \in T
       PROVE  j \in T
  <2> DEFINE low == idx \div 2^(j - 1)
             high == idx \div 2^j
             at == [tree_adrs(adrs) EXCEPT !.tree_height = j, !.tree_index = high]
  <2>1. j \in Nat \ {0} /\ j \in Nat /\ j - 1 \in Nat /\ j \in 1 .. n /\ j \in 0 .. n /\ j # 0
    BY <1>1
  <2>2. climb[j - 1] = xmss_node(low, j - 1, adrs)
    BY <1>11
  <2>3. climb[j] = IF low % 2 = 0
                   THEN h(at, climb[j - 1], sig.auth[j])
                   ELSE h(at, sig.auth[j], climb[j - 1])
    BY <1>4, <1>8, <2>1
  <2>4. /\ low \in Nat /\ high \in Nat /\ Sibling(low) \in Nat
        /\ low % 2 = 0 => low = 2 * high /\ Sibling(low) = 2 * high + 1
        /\ low % 2 # 0 => low = 2 * high + 1 /\ Sibling(low) = 2 * high
    BY <2>1, Siblings
  <2>5. sig.auth[j] = xmss_node(Sibling(low), j - 1, own)
    BY <1>6, <2>1
  <2>6. xmss_node(high, j, adrs) =
          h(at, xmss_node(2 * high, j - 1, adrs), xmss_node(2 * high + 1, j - 1, adrs))
    BY <2>1, <2>4, XmssNode
  <2> HIDE DEF low, at, high
  <2>7. sig.auth[j] = xmss_node(Sibling(low), j - 1, adrs)
    BY <1>9, <2>1, <2>4, <2>5
  <2>8. climb[j] = xmss_node(high, j, adrs)
    <3>1. CASE low % 2 = 0
      BY <2>2, <2>3, <2>4, <2>6, <2>7, <3>1
    <3>2. CASE low % 2 # 0
      BY <2>2, <2>3, <2>4, <2>6, <2>7, <3>2
    <3> QED
      BY <3>1, <3>2
  <2> QED
    BY <2>1, <2>8 DEF high
<1> HIDE DEF T
<1>12. \A j \in 0 .. n : j \in T
  BY <1>1, <1>10, <1>11, Climb!IntervalInduction
<1>13. climb[n] = xmss_node(idx \div 2^n, n, adrs)
  BY <1>1, <1>12 DEF T
<1>14. idx \div 2^n = 0
  <2> DEFINE d == 2^n
  <2>1. d \in Nat /\ d > 0 /\ idx < d
    BY <1>1, PowerType
  <2> HIDE DEF d
  <2>2. d * 0 + idx = idx /\ idx \in 0 .. (d - 1) /\ 0 \in Nat
    BY <2>1
  <2>3. (d * 0 + idx) \div d = 0
    BY <2>1, <2>2, DivideUnique
  <2> QED
    BY <2>2, <2>3 DEF d
<1> QED
  BY <1>5, <1>13, <1>14 DEF sig, n

-----------------------------------------------------------------------------
(* FORS trees.                                                             *)

ForsRow(adrs, z, below) ==
  [i \in Nat |-> h(AtNode(adrs, z, i), below[2 * i], below[2 * i + 1])]

ForsRows == INSTANCE Recursion WITH Step <- ForsRow

\* A leaf is the hash of a secret, an inner node hashes the two below.
LEMMA ForsNode ==
  ASSUME NEW adrs
  PROVE  /\ \A i \in Nat : fors_node(i, 0, adrs) = f(AtNode(adrs, 0, i), fors_sk_gen(adrs, i))
         /\ \A z \in Nat \ {0}, i \in Nat :
              fors_node(i, z, adrs) =
                h(AtNode(adrs, z, i),
                  fors_node(2 * i, z - 1, adrs), fors_node(2 * i + 1, z - 1, adrs))
<1> DEFINE leaves == [i \in Nat |-> f(AtNode(adrs, 0, i), fors_sk_gen(adrs, i))]
<1>1. PICK g : ForsRows!SolvesOnNat(g, adrs, leaves)
  <2> HIDE DEF leaves
  <2> QED
    BY ForsRows!RecursionOnNat
<1>2. g = [z \in Nat |->
            IF z = 0 THEN [i \in Nat |-> f(AtNode(adrs, 0, i), fors_sk_gen(adrs, i))]
            ELSE [i \in Nat |-> h(AtNode(adrs, z, i), g[z - 1][2 * i], g[z - 1][2 * i + 1])]]
  BY <1>1 DEF ForsRows!SolvesOnNat, ForsRow
<1> DEFINE row == CHOOSE row : row =
             [z \in Nat |->
               IF z = 0 THEN [i \in Nat |-> f(AtNode(adrs, 0, i), fors_sk_gen(adrs, i))]
               ELSE [i \in Nat |-> h(AtNode(adrs, z, i), row[z - 1][2 * i], row[z - 1][2 * i + 1])]]
<1>3. row = [z \in Nat |->
              IF z = 0 THEN [i \in Nat |-> f(AtNode(adrs, 0, i), fors_sk_gen(adrs, i))]
              ELSE [i \in Nat |-> h(AtNode(adrs, z, i), row[z - 1][2 * i], row[z - 1][2 * i + 1])]]
  BY <1>2
<1>4. \A i, z : fors_node(i, z, adrs) = row[z][i]
  BY DEF fors_node
<1> HIDE DEF row, leaves
<1>5. row = [z \in Nat |-> IF z = 0 THEN leaves ELSE ForsRow(adrs, z, row[z - 1])]
  BY <1>3 DEF ForsRow, leaves
<1>6. \A i \in Nat : fors_node(i, 0, adrs) = f(AtNode(adrs, 0, i), fors_sk_gen(adrs, i))
  <2>1. row[0] = leaves
    BY <1>5
  <2> QED
    BY <1>4, <2>1 DEF leaves
<1>7. ASSUME NEW z \in Nat \ {0}, NEW i \in Nat
      PROVE  fors_node(i, z, adrs) =
               h(AtNode(adrs, z, i),
                 fors_node(2 * i, z - 1, adrs), fors_node(2 * i + 1, z - 1, adrs))
  <2>1. row[z] = ForsRow(adrs, z, row[z - 1])
    BY <1>5
  <2>2. row[z][i] = h(AtNode(adrs, z, i), row[z - 1][2 * i], row[z - 1][2 * i + 1])
    BY <2>1 DEF ForsRow
  <2> QED
    BY <1>4, <2>2
<1> QED
  BY <1>6, <1>7

\* A node is a value.
LEMMA ForsNodeType ==
  ASSUME NEW adrs \in ForsAdrs
  PROVE  \A z \in Nat : \A i \in Nat : IsValue(fors_node(i, z, adrs))
<1> DEFINE T == {z \in Nat : \A i \in Nat : IsValue(fors_node(i, z, adrs))}
<1>1. \A z \in Nat : \A i \in Nat : AtNode(adrs, z, i) \in Adrs
  <2>1. \A z \in Nat : \A i \in Nat : AtNode(adrs, z, i) \in ForsAdrs
    BY DEF ForsAdrs, AtNode
  <2> QED
    BY <2>1 DEF Adrs
<1>2. 0 \in T
  <2>1. ASSUME NEW i \in Nat
        PROVE  IsValue(fors_node(i, 0, adrs))
    <3>1. [fors_prf_adrs(adrs) EXCEPT !.tree_index = i] \in ForsAdrs
      BY DEF fors_prf_adrs, ForsAdrs
    <3>2. IsValue(fors_sk_gen(adrs, i))
      BY <3>1, SuiteType DEF fors_sk_gen, Adrs
    <3>3. IsValue(f(AtNode(adrs, 0, i), fors_sk_gen(adrs, i)))
      BY <1>1, <3>2, SuiteType
    <3> QED
      BY <3>3, ForsNode
  <2> QED
    BY <2>1
<1>3. ASSUME NEW z \in Nat, z \in T
      PROVE  z + 1 \in T
  <2>1. ASSUME NEW i \in Nat
        PROVE  IsValue(fors_node(i, z + 1, adrs))
    <3> DEFINE a == AtNode(adrs, z + 1, i)
    <3>1. z + 1 \in Nat \ {0} /\ (z + 1) - 1 = z /\ 2 * i \in Nat /\ 2 * i + 1 \in Nat
      OBVIOUS
    <3>2. a \in Adrs
      BY <1>1, <3>1
    <3>3. fors_node(i, z + 1, adrs) =
            h(a, fors_node(2 * i, (z + 1) - 1, adrs), fors_node(2 * i + 1, (z + 1) - 1, adrs))
      BY <3>1, ForsNode
    <3> HIDE DEF a
    <3>4. IsValue(fors_node(2 * i, z, adrs)) /\ IsValue(fors_node(2 * i + 1, z, adrs))
      BY <1>3, <3>1
    <3> QED
      BY <3>1, <3>2, <3>3, <3>4, SuiteType
  <2> QED
    BY <2>1
<1> HIDE DEF T
<1>4. \A z \in Nat : z \in T
  BY <1>2, <1>3, ForsRows!NumberInduction
<1> QED
  BY <1>4 DEF T

\* A node of tree b (fors.rs): its number is that within the tree after all of
\* the trees before, of which there are as many as two siblings make.
LEMMA ForsIndex ==
  ASSUME NEW b \in Nat, NEW x \in Nat, NEW n \in Nat, NEW j \in 1 .. n
  PROVE  LET base == b * 2^(n - j + 1)
             low  == x \div 2^(j - 1)
         IN  /\ base \in Nat /\ low \in Nat
             /\ (b * 2^n + x) \div 2^(j - 1) = base + low
             /\ (base + low) % 2 = low % 2
             /\ Sibling(base + low) = base + Sibling(low)
<1> DEFINE p == 2^(j - 1)
           q == 2^(n - j + 1)
           r == 2^(n - j)
           base == b * q
           low == x \div p
           rest == x % p
<1>1. /\ p \in Nat /\ p > 0 /\ q \in Nat /\ r \in Nat /\ q = 2 * r
      /\ 2^n = q * p
  <2> DEFINE k == j - 1
             i == n - j
  <2>1. k \in Nat /\ i \in Nat /\ n - j + 1 = i + 1 /\ i + 1 \in Nat /\ n = (i + 1) + k
    OBVIOUS
  <2> HIDE DEF k, i
  <2>2. 2^k \in Nat /\ 2^k > 0 /\ 2^(i + 1) \in Nat /\ 2^i \in Nat /\ 2^(i + 1) = 2 * 2^i
    BY <2>1, PowerType, PowerNext
  <2>3. 2^((i + 1) + k) = 2^(i + 1) * 2^k
    BY <2>1, PowerSum
  <2> QED
    BY <2>1, <2>2, <2>3 DEF k, i
<1> HIDE DEF p, q, r
<1>2. low \in Nat /\ rest \in 0 .. (p - 1) /\ x = p * low + rest
  BY <1>1, Divides
<1> HIDE DEF low, rest
<1>3. base \in Nat
  BY <1>1
<1>4. b * 2^n = p * base
  BY <1>1
<1>5. base = 2 * (b * r) /\ b * r \in Nat
  BY <1>1
<1> HIDE DEF base
<1>6. b * 2^n + x = p * (base + low) + rest /\ base + low \in Nat
  BY <1>1, <1>2, <1>3, <1>4
<1>7. (p * (base + low) + rest) \div p = base + low
  BY <1>1, <1>2, <1>6, DivideUnique
<1>8. (base + low) % 2 = low % 2
  <2> DEFINE y == b * r
  <2>1. y \in Nat /\ base = 2 * y
    BY <1>5
  <2> HIDE DEF y
  <2> QED
    BY <1>2, <2>1
<1>9. Sibling(base + low) = base + Sibling(low)
  <2>1. CASE low % 2 = 0
    BY <1>2, <1>3, <1>8, <2>1 DEF Sibling
  <2>2. CASE low % 2 # 0
    BY <1>2, <1>3, <1>8, <2>2 DEF Sibling
  <2> QED
    BY <2>1, <2>2
<1> QED
  BY <1>2, <1>3, <1>6, <1>7, <1>8, <1>9 DEF base, low, p, q

ForsClimbStep(e, j, v) ==
  LET at == AtNode(e.adrs, j, e.leaf \div 2^j)
  IN  IF (e.index \div 2^(j - 1)) % 2 = 0
      THEN h(at, v, e.auth[j])
      ELSE h(at, e.auth[j], v)

ForsClimb == INSTANCE Recursion WITH Step <- ForsClimbStep

\* What fors_sign returns for a tree leads to its root.
LEMMA ForsTreeOpens ==
  ASSUME NEW adrs, NEW b \in Nat, NEW x \in Nat, x < 2^P.A, NEW part,
         part.sk = fors_sk_gen(adrs, b * 2^P.A + x),
         \A j \in 1 .. P.A :
           part.auth[j] = fors_node(b * 2^(P.A - j + 1) + Sibling(x \div 2^(j - 1)), j - 1, adrs)
  PROVE  fors_root(part, x, b, adrs) = fors_node(b, P.A, adrs)
<1> DEFINE n == P.A
           leaf == b * 2^n + x
           e == [adrs |-> adrs, leaf |-> leaf, index |-> x, auth |-> part.auth]
           first == f(AtNode(adrs, 0, leaf), part.sk)
<1>1. n \in Nat /\ 0 <= n /\ n \in Nat \ {0} /\ 0 \in Nat
  BY Numbers
<1>2. PICK g : ForsClimb!Solves(g, e, first, 0, n)
  <2> HIDE DEF n, e, first
  <2> QED
    BY <1>1, ForsClimb!RecursionExists
<1>3. g = [j \in 0 .. n |->
            IF j = 0 THEN f(AtNode(adrs, 0, leaf), part.sk)
            ELSE LET at == AtNode(adrs, j, leaf \div 2^j)
                 IN  IF (x \div 2^(j - 1)) % 2 = 0
                     THEN h(at, g[j - 1], part.auth[j])
                     ELSE h(at, part.auth[j], g[j - 1])]
  <2> HIDE DEF leaf, n
  <2> QED
    BY <1>2 DEF ForsClimb!Solves, ForsClimbStep
<1> DEFINE climb == CHOOSE climb : climb =
             [j \in 0 .. n |->
               IF j = 0 THEN f(AtNode(adrs, 0, leaf), part.sk)
               ELSE LET at == AtNode(adrs, j, leaf \div 2^j)
                    IN  IF (x \div 2^(j - 1)) % 2 = 0
                        THEN h(at, climb[j - 1], part.auth[j])
                        ELSE h(at, part.auth[j], climb[j - 1])]
<1>4. climb = [j \in 0 .. n |->
                IF j = 0 THEN f(AtNode(adrs, 0, leaf), part.sk)
                ELSE LET at == AtNode(adrs, j, leaf \div 2^j)
                     IN  IF (x \div 2^(j - 1)) % 2 = 0
                         THEN h(at, climb[j - 1], part.auth[j])
                         ELSE h(at, part.auth[j], climb[j - 1])]
  BY <1>3
<1>5. fors_root(part, x, b, adrs) = climb[n]
  BY DEF fors_root
<1> HIDE DEF climb
<1>6. leaf \in Nat
  <2>1. 2^n \in Nat
    BY <1>1, PowerType
  <2> DEFINE w == 2^n
  <2> HIDE DEF w
  <2>2. w \in Nat => b * w + x \in Nat
    OBVIOUS
  <2> QED
    BY <2>1, <2>2 DEF w
<1> DEFINE T == {j \in Nat : climb[j] = fors_node(leaf \div 2^j, j, adrs)}
<1>7. 0 \in T
  <2>1. climb[0] = f(AtNode(adrs, 0, leaf), part.sk)
    <3>1. 0 \in 0 .. n
      BY <1>1
    <3> HIDE DEF n, leaf
    <3> QED
      BY <1>4, <3>1
  <2>2. part.sk = fors_sk_gen(adrs, leaf)
    OBVIOUS
  <2> HIDE DEF leaf
  <2>3. leaf \div 2^0 = leaf
    BY <1>6
  <2>4. climb[0] = fors_node(leaf, 0, adrs)
    BY <1>6, <2>1, <2>2, ForsNode
  <2> QED
    BY <1>1, <2>3, <2>4
<1>8. ASSUME NEW j \in (0 + 1) .. n, j - 1 \in T
      PROVE  j \in T
  <2> DEFINE base == b * 2^(n - j + 1)
             low == x \div 2^(j - 1)
             node == leaf \div 2^(j - 1)
             high == leaf \div 2^j
             at == AtNode(adrs, j, high)
  <2>1. j \in Nat \ {0} /\ j \in Nat /\ j - 1 \in Nat /\ j \in 1 .. n /\ j \in 0 .. n /\ j # 0
    BY <1>1
  <2>2. climb[j - 1] = fors_node(node, j - 1, adrs)
    BY <1>8
  <2>3. climb[j] = IF low % 2 = 0
                   THEN h(at, climb[j - 1], part.auth[j])
                   ELSE h(at, part.auth[j], climb[j - 1])
    <3> HIDE DEF n, leaf
    <3> QED
      BY <1>4, <2>1
  <2>4. /\ node \in Nat /\ high \in Nat /\ Sibling(node) \in Nat
        /\ node % 2 = 0 => node = 2 * high /\ Sibling(node) = 2 * high + 1
        /\ node % 2 # 0 => node = 2 * high + 1 /\ Sibling(node) = 2 * high
    <3> HIDE DEF leaf
    <3> QED
      BY <1>6, <2>1, Siblings
  <2>5. /\ base \in Nat /\ low \in Nat /\ node = base + low
        /\ (base + low) % 2 = low % 2
        /\ Sibling(base + low) = base + Sibling(low)
    <3> HIDE DEF n
    <3> QED
      BY <1>1, <2>1, ForsIndex
  <2>6. part.auth[j] = fors_node(base + Sibling(low), j - 1, adrs)
    BY <2>1
  <2>7. fors_node(high, j, adrs) =
          h(at, fors_node(2 * high, j - 1, adrs), fors_node(2 * high + 1, j - 1, adrs))
    <3> HIDE DEF high
    <3> QED
      BY <2>1, <2>4, ForsNode
  <2> HIDE DEF base, low, node, at, high
  <2>8. /\ part.auth[j] = fors_node(Sibling(node), j - 1, adrs)
        /\ node % 2 = low % 2
    BY <2>5, <2>6
  <2>9. climb[j] = fors_node(high, j, adrs)
    <3>1. CASE low % 2 = 0
      BY <2>2, <2>3, <2>4, <2>7, <2>8, <3>1
    <3>2. CASE low % 2 # 0
      BY <2>2, <2>3, <2>4, <2>7, <2>8, <3>2
    <3> QED
      BY <3>1, <3>2
  <2> QED
    BY <2>1, <2>9 DEF high
<1> HIDE DEF T
<1>9. \A j \in 0 .. n : j \in T
  BY <1>1, <1>7, <1>8, ForsClimb!IntervalInduction
<1>10. climb[n] = fors_node(leaf \div 2^n, n, adrs)
  BY <1>1, <1>9 DEF T
<1>11. leaf \div 2^n = b
  <2> DEFINE d == 2^n
  <2>1. d \in Nat /\ d > 0 /\ x < d
    BY <1>1, PowerType
  <2> HIDE DEF d
  <2>2. b * d + x = d * b + x /\ x \in 0 .. (d - 1)
    BY <2>1
  <2>3. (d * b + x) \div d = b
    BY <2>1, <2>2, DivideUnique
  <2> QED
    BY <2>2, <2>3 DEF d
<1> QED
  BY <1>5, <1>10, <1>11 DEF n

\* The verifier of a FORS signature finds the roots of all trees
\* (fors.rs: fors_pk_from_sig of fors_sign).
THEOREM ForsOpens ==
  ASSUME NEW md \in Seq(Byte), P.K * P.A <= 8 * Len(md), NEW adrs
  PROVE  fors_pk_from_sig(fors_sign(md, adrs), md, adrs) =
           t(fors_roots(adrs), [i \in 1 .. P.K |-> fors_node(i - 1, P.A, adrs)])
<1> DEFINE indices == base_2b(md, P.K, P.A)
           sig == fors_sign(md, adrs)
<1>1. P.K \in Nat /\ P.A \in Nat \ {0} /\ P.A \in Nat
  BY Numbers
<1>2. indices \in Seq(0 .. (2^P.A - 1)) /\ Len(indices) = P.K
  BY <1>1, DigitsType
<1> HIDE DEF indices
<1>3. sig = [i \in 1 .. P.K |->
              [sk   |-> fors_sk_gen(adrs, (i - 1) * 2^P.A + indices[i]),
               auth |-> [j \in 1 .. P.A |->
                          fors_node((i - 1) * 2^(P.A - j + 1) + Sibling(indices[i] \div 2^(j - 1)),
                                    j - 1, adrs)]]]
  BY DEF fors_sign, indices
<1> HIDE DEF sig
<1>4. ASSUME NEW i \in 1 .. P.K
      PROVE  fors_root(sig[i], indices[i], i - 1, adrs) = fors_node(i - 1, P.A, adrs)
  <2> DEFINE b == i - 1
             x == indices[i]
             part == sig[i]
             d == 2^P.A
  <2>1. b \in Nat
    BY <1>1
  <2>2. x \in 0 .. (d - 1)
    <3>1. i \in 1 .. Len(indices)
      BY <1>2
    <3> QED
      BY <1>2, <3>1, SeqElement
  <2>3. /\ part.sk = fors_sk_gen(adrs, b * 2^P.A + x)
        /\ part.auth = [j \in 1 .. P.A |->
                          fors_node(b * 2^(P.A - j + 1) + Sibling(x \div 2^(j - 1)), j - 1, adrs)]
    BY <1>3
  <2> HIDE DEF b, x, part
  <2>4. \A j \in 1 .. P.A :
          part.auth[j] = fors_node(b * 2^(P.A - j + 1) + Sibling(x \div 2^(j - 1)), j - 1, adrs)
    BY <2>3
  <2>5. d \in Nat
    BY <1>1, PowerType
  <2> HIDE DEF d
  <2>6. x \in Nat /\ x < d
    BY <2>2, <2>5
  <2>7. fors_root(part, x, b, adrs) = fors_node(b, P.A, adrs)
    BY <2>1, <2>3, <2>4, <2>6, ForsTreeOpens DEF d
  <2> QED
    BY <2>7 DEF b, x, part
<1>5. fors_pk_from_sig(sig, md, adrs) =
        t(fors_roots(adrs), [i \in 1 .. P.K |-> fors_root(sig[i], indices[i], i - 1, adrs)])
  BY DEF fors_pk_from_sig, indices
<1>6. [i \in 1 .. P.K |-> fors_root(sig[i], indices[i], i - 1, adrs)]
        = [i \in 1 .. P.K |-> fors_node(i - 1, P.A, adrs)]
  BY <1>4
<1> QED
  BY <1>5, <1>6 DEF sig

\* What they are hashed to is a value.
LEMMA ForsPkType ==
  ASSUME NEW adrs \in ForsAdrs
  PROVE  IsValue(t(fors_roots(adrs), [i \in 1 .. P.K |-> fors_node(i - 1, P.A, adrs)]))
<1> DEFINE roots == [i \in 1 .. P.K |-> fors_node(i - 1, P.A, adrs)]
           S == {roots[i] : i \in 1 .. P.K}
<1>1. ASSUME NEW i \in 1 .. P.K
      PROVE  IsValue(roots[i])
  <2>1. i - 1 \in Nat /\ P.A \in Nat
    BY Numbers
  <2>2. IsValue(fors_node(i - 1, P.A, adrs))
    BY <2>1, ForsNodeType
  <2> QED
    BY <2>2
<1>2. roots \in [1 .. P.K -> S] /\ P.K \in Nat
  BY Numbers
<1>3. \A x \in S : IsValue(x)
  BY <1>1
<1>4. fors_roots(adrs) \in Adrs
  <2>1. fors_roots(adrs) \in PkAdrs
    BY DEF fors_roots, ForsAdrs, PkAdrs
  <2> QED
    BY <2>1 DEF Adrs
<1> HIDE DEF roots, S
<1>5. IsValue(t(fors_roots(adrs), roots))
  BY <1>2, <1>3, <1>4, SuiteType
<1> QED
  BY <1>5 DEF roots

-----------------------------------------------------------------------------
(* What a digest is split into.                                            *)

\* The trees of all layers but the lowest.
LEMMA TreeBits ==
  /\ P.H - P.HPrime \in Nat /\ P.H - P.HPrime = (P.D - 1) * P.HPrime
  /\ P.H - P.HPrime <= WordBits /\ WordBits \in Nat
<1>1. /\ P.D \in Nat \ {0} /\ P.HPrime \in Nat \ {0} /\ P.H = P.D * P.HPrime
      /\ P.H - P.HPrime <= WordBits /\ WordBits \in Nat
  BY Numbers, SlhDsaAssumption, DigitsAssumption
<1> DEFINE a == P.D
           b == P.HPrime
<1>2. a \in Nat \ {0} /\ b \in Nat \ {0} /\ P.H = a * b
  BY <1>1
<1> HIDE DEF a, b
<1>3. (a - 1) * b \in Nat /\ a * b - b = (a - 1) * b
  BY <1>2
<1> QED
  BY <1>1, <1>2, <1>3 DEF a, b

\* The mask has all of the ones, also when it takes the whole word (util.rs:32-35).
LEMMA TreeMask ==
  ASSUME NEW p, p.H - p.HPrime \in Nat, p.H - p.HPrime <= WordBits, WordBits \in Nat
  PROVE  tree_mask(p) + 1 = 2^(p.H - p.HPrime)
<1> DEFINE k == p.H - p.HPrime
           a == 2^k
           d == 2^WordBits
<1>1. k \in Nat /\ k <= WordBits
  OBVIOUS
<1> HIDE DEF k
<1>2. a \in Nat /\ a > 0 /\ d \in Nat /\ d > 0
  BY <1>1, PowerType
<1>3. CASE k < WordBits
  <2>1. a <= d
    <3> DEFINE i == WordBits - k
               c == 2^i
    <3>1. i \in Nat /\ WordBits = k + i
      BY <1>1
    <3> HIDE DEF i
    <3>2. c \in Nat /\ c > 0
      BY <3>1, PowerType
    <3>3. d = a * c
      BY <1>1, <3>1, PowerSum
    <3> HIDE DEF a, d, c
    <3>4. a * 1 <= a * c
      BY <1>2, <3>2
    <3> QED
      BY <1>2, <3>3, <3>4
  <2>2. tree_mask(p) = (a - 1) % d
    BY <1>3 DEF tree_mask, CheckedShl, k
  <2> HIDE DEF a, d
  <2>3. d * 0 + (a - 1) = a - 1 /\ a - 1 \in 0 .. (d - 1) /\ 0 \in Nat
    BY <1>2, <2>1
  <2>4. (d * 0 + (a - 1)) % d = a - 1
    BY <1>2, <2>3, DivideUnique
  <2>5. tree_mask(p) + 1 = a
    BY <1>2, <2>2, <2>3, <2>4
  <2> QED
    BY <2>5 DEF a, k
<1>4. CASE ~(k < WordBits)
  <2>1. a = d
    BY <1>1, <1>4
  <2>2. tree_mask(p) = (0 - 1) % d
    BY <1>4 DEF tree_mask, CheckedShl, k
  <2> HIDE DEF a, d
  <2>3. (0 - 1) % d = d - 1
    BY <1>2
  <2>4. tree_mask(p) + 1 = a
    BY <1>2, <2>1, <2>2, <2>3
  <2> QED
    BY <2>4 DEF a, k
<1> QED
  BY <1>3, <1>4

\* As many bytes as bits need.
LEMMA DivCeilBound == \A a \in Nat : DivCeil(a, 8) \in Nat /\ a <= 8 * DivCeil(a, 8)
  BY DEF DivCeil

\* A part of a digest is a sequence of bytes.
LEMMA PartOfDigest ==
  ASSUME NEW x \in Seq(Byte), NEW from \in Nat, NEW size \in Nat, from + size <= Len(x)
  PROVE  /\ SubSeq(x, from + 1, from + size) \in Seq(Byte)
         /\ Len(SubSeq(x, from + 1, from + size)) = size
  OBVIOUS

\* split_digest leads to a leaf that is there (util.rs:25-50): the tree is the
\* number its bytes make, cut to its bits.
THEOREM SplitDigest ==
  ASSUME NEW d \in Digests
  PROVE  LET s == split_digest(P, d)
         IN  /\ s.md \in Seq(Byte) /\ P.K * P.A <= 8 * Len(s.md)
             /\ s.idx_leaf \in Nat /\ s.idx_leaf < 2^P.HPrime
             /\ s.idx_tree \in Nat /\ s.idx_tree < 2^(P.H - P.HPrime)
             /\ s.idx_tree = from_be_bytes(SubSeq(d, P.MD + 1, P.MD + DivCeil(P.H - P.HPrime, 8)))
                               % 2^(P.H - P.HPrime)
<1> DEFINE s == split_digest(P, d)
           treeSize == DivCeil(P.H - P.HPrime, 8)
           leafSize == DivCeil(P.HPrime, 8)
           trees == SubSeq(d, P.MD + 1, P.MD + treeSize)
           leaves == SubSeq(d, P.MD + treeSize + 1, P.MD + treeSize + leafSize)
           p == 2^(P.H - P.HPrime)
           q == 2^P.HPrime
<1>1. d \in Seq(Byte) /\ Len(d) = P.M
  BY SlhDsaAssumption DEF Byte
<1>2. /\ treeSize \in Nat /\ leafSize \in Nat /\ P.MD \in Nat
      /\ P.K * P.A \in Nat /\ P.K * P.A <= 8 * P.MD /\ P.M = P.MD + treeSize + leafSize
  <2>1. P.K * P.A \in Nat
    <3> DEFINE a == P.K
               b == P.A
    <3>1. a \in Nat /\ b \in Nat
      BY Numbers
    <3> HIDE DEF a, b
    <3>2. a * b \in Nat
      BY <3>1
    <3> QED
      BY <3>2 DEF a, b
  <2> QED
    BY <2>1, Numbers, TreeBits, DivCeilBound
<1>3. p \in Nat /\ p > 0 /\ q \in Nat /\ q > 0
  BY Numbers, TreeBits, PowerType
<1>4. /\ s.md = SubSeq(d, 1, P.MD)
      /\ s.idx_tree = from_be_bytes(trees) % (tree_mask(P) + 1)
      /\ s.idx_leaf = from_be_bytes(leaves) % ((q - 1) + 1)
  BY DEF split_digest, And
<1>5. tree_mask(P) + 1 = p
  BY TreeBits, TreeMask
<1> HIDE DEF s, treeSize, leafSize, p, q
<1>6. trees \in Seq(Byte)
  BY <1>1, <1>2, PartOfDigest
<1>7. leaves \in Seq(Byte)
  <2>1. P.MD + treeSize \in Nat /\ (P.MD + treeSize) + leafSize <= Len(d)
    BY <1>1, <1>2
  <2> QED
    BY <1>1, <1>2, <2>1, PartOfDigest
<1>8. SubSeq(d, 1, P.MD) \in Seq(Byte) /\ Len(SubSeq(d, 1, P.MD)) = P.MD
  <2>1. 0 \in Nat /\ 0 + P.MD <= Len(d) /\ 0 + 1 = 1 /\ 0 + P.MD = P.MD
    BY <1>1, <1>2
  <2>2. /\ SubSeq(d, 0 + 1, 0 + P.MD) \in Seq(Byte)
        /\ Len(SubSeq(d, 0 + 1, 0 + P.MD)) = P.MD
    BY <1>1, <1>2, <2>1, PartOfDigest
  <2> QED
    BY <2>1, <2>2
<1> HIDE DEF trees, leaves
<1>9. from_be_bytes(trees) \in Nat /\ from_be_bytes(leaves) \in Nat
  BY <1>6, <1>7, FromBytesType
<1>10. \A n, a \in Nat : a > 0 => n % a \in Nat /\ n % a < a
  BY Divides
<1>11. s.idx_tree = from_be_bytes(trees) % p /\ s.idx_leaf = from_be_bytes(leaves) % q
  BY <1>3, <1>4, <1>5
<1>12. s.md \in Seq(Byte) /\ P.K * P.A <= 8 * Len(s.md)
  BY <1>2, <1>4, <1>8
<1>13. /\ s.idx_tree \in Nat /\ s.idx_tree < p
       /\ s.idx_leaf \in Nat /\ s.idx_leaf < q
  BY <1>3, <1>9, <1>10, <1>11
<1> QED
  BY <1>11, <1>12, <1>13 DEF s, p, q, trees, treeSize

-----------------------------------------------------------------------------
(* The hypertree.                                                          *)

LayerStep(e, j, below) ==
  SignedLayer(j, next_tree(below.tree), next_leaf(below.tree),
              xmss_pk_from_sig(below.leaf, below.sig, below.m, AtLayer(j - 1, below.tree)))

Layer == INSTANCE Recursion WITH Step <- LayerStep

\* Each layer signs what the one below leads to.
LEMMA LayersFollow ==
  ASSUME NEW m, NEW tree, NEW leaf
  PROVE  LET L == ht_layers(m, tree, leaf)
         IN  /\ L = [j \in 1 .. P.D |-> L[j]]
             /\ L[1] = SignedLayer(0, tree, leaf, m)
             /\ \A j \in 2 .. P.D : L[j] = LayerStep(0, j - 1, L[j - 1])
<1> DEFINE n == P.D - 1
           first == SignedLayer(0, tree, leaf, m)
           L == ht_layers(m, tree, leaf)
<1>1. n \in Nat /\ 0 <= n /\ 0 \in Nat /\ P.D = n + 1
  BY Numbers
<1>2. PICK g : Layer!Solves(g, 0, first, 0, n)
  <2> HIDE DEF n, first
  <2> QED
    BY <1>1, Layer!RecursionExists
<1>3. g = [j \in 0 .. n |->
            IF j = 0 THEN SignedLayer(0, tree, leaf, m)
            ELSE LET below == g[j - 1]
                     root  == xmss_pk_from_sig(below.leaf, below.sig, below.m,
                                               AtLayer(j - 1, below.tree))
                 IN  SignedLayer(j, next_tree(below.tree), next_leaf(below.tree), root)]
  BY <1>2 DEF Layer!Solves, LayerStep
<1> DEFINE at == CHOOSE at : at =
             [j \in 0 .. n |->
               IF j = 0 THEN SignedLayer(0, tree, leaf, m)
               ELSE LET below == at[j - 1]
                        root  == xmss_pk_from_sig(below.leaf, below.sig, below.m,
                                                  AtLayer(j - 1, below.tree))
                    IN  SignedLayer(j, next_tree(below.tree), next_leaf(below.tree), root)]
<1>4. at = [j \in 0 .. n |->
             IF j = 0 THEN SignedLayer(0, tree, leaf, m)
             ELSE LET below == at[j - 1]
                      root  == xmss_pk_from_sig(below.leaf, below.sig, below.m,
                                                AtLayer(j - 1, below.tree))
                  IN  SignedLayer(j, next_tree(below.tree), next_leaf(below.tree), root)]
  BY <1>3
<1>5. L = [j \in 1 .. P.D |-> at[j - 1]]
  BY DEF ht_layers
<1> HIDE DEF at, first
<1>6. at = [j \in 0 .. n |-> IF j = 0 THEN first ELSE LayerStep(0, j, at[j - 1])]
  BY <1>4 DEF LayerStep, first
<1> HIDE DEF n, L
<1>7. at[0] = first /\ \A j \in 1 .. n : at[j] = LayerStep(0, j, at[j - 1])
  BY <1>1, <1>6
<1>8. L[1] = first
  <2>1. 1 \in 1 .. P.D /\ 1 - 1 = 0
    BY <1>1
  <2> QED
    BY <1>5, <1>7, <2>1
<1>9. ASSUME NEW j \in 2 .. P.D
      PROVE  L[j] = LayerStep(0, j - 1, L[j - 1])
  <2>1. j \in 1 .. P.D /\ j - 1 \in 1 .. P.D /\ j - 1 \in 1 .. n
    BY <1>1
  <2>2. L[j] = at[j - 1] /\ L[j - 1] = at[(j - 1) - 1]
    BY <1>5, <2>1
  <2> QED
    BY <1>7, <2>1, <2>2
<1>10. L = [j \in 1 .. P.D |-> L[j]]
  BY <1>5
<1> QED
  BY <1>8, <1>9, <1>10 DEF L, first

\* Layer addresses are addresses of one-time keys.
LEMMA AtLayerType == \A j, tree \in Nat : AtLayer(j, tree) \in WotsAdrs
  BY DEF AtLayer, DefaultWotsHash, WotsAdrs

\* A layer signs a value with a leaf it has.  The trees of a layer are as many
\* as the layers above it make.
GoodLayer(l, j) ==
  /\ l = SignedLayer(j - 1, l.tree, l.leaf, l.m)
  /\ IsValue(l.m) /\ l.leaf \in Nat /\ l.leaf < 2^P.HPrime
  /\ l.tree \in Nat /\ l.tree < 2^((P.D - j) * P.HPrime)

\* The parts of what a layer records.
LEMMA LayerParts ==
  ASSUME NEW j, NEW a, NEW b, NEW c
  PROVE  LET r == SignedLayer(j, a, b, c)
         IN  r.tree = a /\ r.leaf = b /\ r.m = c /\ r.sig = xmss_sign(c, b, AtLayer(j, a))
  BY DEF SignedLayer

\* It leads to the root of its tree.
LEMMA GoodLayerOpens ==
  ASSUME NEW j \in 1 .. P.D, NEW l, GoodLayer(l, j)
  PROVE  LET root == xmss_pk_from_sig(l.leaf, l.sig, l.m, AtLayer(j - 1, l.tree))
         IN  root = xmss_node(0, P.HPrime, AtLayer(j - 1, l.tree)) /\ IsValue(root)
<1> DEFINE a == AtLayer(j - 1, l.tree)
<1>1. j - 1 \in Nat /\ P.HPrime \in Nat /\ 0 \in Nat
  BY Numbers
<1>2. /\ IsValue(l.m) /\ l.leaf \in Nat /\ l.leaf < 2^P.HPrime /\ l.tree \in Nat
      /\ l = SignedLayer(j - 1, l.tree, l.leaf, l.m)
  BY DEF GoodLayer
<1>3. a \in WotsAdrs
  BY <1>1, <1>2, AtLayerType
<1>4. l.sig = xmss_sign(l.m, l.leaf, a)
  <2>1. SignedLayer(j - 1, l.tree, l.leaf, l.m).sig = xmss_sign(l.m, l.leaf, a)
    BY LayerParts
  <2> QED
    BY <1>2, <2>1
<1> HIDE DEF a
<1>5. xmss_pk_from_sig(l.leaf, l.sig, l.m, a) = xmss_node(0, P.HPrime, a)
  BY <1>2, <1>3, <1>4, XmssOpens
<1>6. IsValue(xmss_node(0, P.HPrime, a))
  BY <1>1, <1>3, XmssNodeType
<1> QED
  BY <1>5, <1>6 DEF a

\* A quotient of a number below a product.
LEMMA QuotientBound ==
  ASSUME NEW a \in Nat, NEW b \in Nat, b > 0, NEW n \in Nat, n < a * b
  PROVE  n \div b \in Nat /\ n \div b < a
<1> DEFINE q == n \div b
           r == n % b
<1>1. q \in Nat /\ r \in 0 .. (b - 1) /\ n = b * q + r
  BY Divides
<1> HIDE DEF q, r
<1>2. ASSUME ~(q < a)
      PROVE  FALSE
  <2>1. b * a <= b * q
    BY <1>1, <1>2
  <2>2. b * a \in Nat /\ b * q \in Nat /\ a * b = b * a
    BY <1>1
  <2> QED
    BY <1>1, <2>1, <2>2
<1> QED
  BY <1>1, <1>2 DEF q

\* So is the layer above.
LEMMA NextLayerGood ==
  ASSUME NEW j \in 2 .. P.D, NEW l, GoodLayer(l, j - 1)
  PROVE  GoodLayer(LayerStep(0, j - 1, l), j)
<1> DEFINE w == 2^P.HPrime
           u == 2^((P.D - j) * P.HPrime)
           root == xmss_pk_from_sig(l.leaf, l.sig, l.m, AtLayer(j - 1 - 1, l.tree))
           x == LayerStep(0, j - 1, l)
<1>1. j \in Nat /\ j - 1 \in 1 .. P.D /\ P.HPrime \in Nat /\ P.D - j \in Nat
  BY Numbers
<1>2. IsValue(root)
  BY <1>1, GoodLayerOpens
<1>3. x = SignedLayer(j - 1, next_tree(l.tree), next_leaf(l.tree), root)
  BY DEF LayerStep
<1> HIDE DEF root, x
<1>4. x.tree = next_tree(l.tree) /\ x.leaf = next_leaf(l.tree) /\ x.m = root
  BY <1>3, LayerParts
<1>5. w \in Nat /\ w > 0 /\ u \in Nat /\ u > 0 /\ 2^((P.D - (j - 1)) * P.HPrime) = u * w
  <2> DEFINE i == P.D - j
             k == P.HPrime
             e == i * k
  <2>1. i \in Nat /\ k \in Nat /\ P.D - (j - 1) = i + 1
    BY <1>1, Numbers
  <2> HIDE DEF i, k
  <2>2. e \in Nat /\ (i + 1) * k = e + k
    BY <2>1
  <2> HIDE DEF e
  <2>3. 2^(e + k) = 2^e * 2^k /\ 2^e \in Nat /\ 2^e > 0 /\ 2^k \in Nat /\ 2^k > 0
    BY <2>1, <2>2, PowerSum, PowerType
  <2> QED
    BY <2>1, <2>2, <2>3 DEF e, i, k
<1>6. l.tree \in Nat /\ l.tree < u * w
  BY <1>5 DEF GoodLayer
<1>7. next_tree(l.tree) = l.tree \div w /\ next_leaf(l.tree) = l.tree % ((w - 1) + 1)
  BY DEF next_tree, next_leaf, And
<1> HIDE DEF w, u
<1>8. next_tree(l.tree) \in Nat /\ next_tree(l.tree) < u
  BY <1>5, <1>6, <1>7, QuotientBound
<1>9. next_leaf(l.tree) \in Nat /\ next_leaf(l.tree) < w
  <2>1. l.tree % w \in 0 .. (w - 1)
    BY <1>5, <1>6, Divides
  <2>2. (w - 1) + 1 = w
    BY <1>5
  <2> QED
    BY <1>5, <1>7, <2>1, <2>2
<1>10. x = SignedLayer(j - 1, x.tree, x.leaf, x.m)
  BY <1>3, <1>4
<1>11. GoodLayer(x, j)
  BY <1>2, <1>4, <1>8, <1>9, <1>10 DEF GoodLayer, w, u
<1> QED
  BY <1>11 DEF x

\* Every layer of a signature is good, from the lowest, which signs a value with a
\* leaf there is, to the highest, which has one tree.
THEOREM LayersOpen ==
  ASSUME NEW m, IsValue(m), NEW tree \in Nat, tree < 2^(P.H - P.HPrime),
         NEW leaf \in Nat, leaf < 2^P.HPrime
  PROVE  /\ \A j \in 1 .. P.D : GoodLayer(ht_layers(m, tree, leaf)[j], j)
         /\ ht_layers(m, tree, leaf)[P.D].tree = 0
<1> DEFINE L == ht_layers(m, tree, leaf)
           n == P.D
           T == {j \in Nat : GoodLayer(L[j], j)}
<1>1. n \in Nat /\ 1 \in Nat /\ 1 <= n
  BY Numbers
<1>2. /\ L[1] = SignedLayer(0, tree, leaf, m)
      /\ \A j \in 2 .. P.D : L[j] = LayerStep(0, j - 1, L[j - 1])
  BY LayersFollow
<1> HIDE DEF L
<1>3. 1 \in T
  <2>1. 1 - 1 = 0
    OBVIOUS
  <2>2. tree < 2^((P.D - 1) * P.HPrime)
    BY TreeBits
  <2>3. L[1].tree = tree /\ L[1].leaf = leaf /\ L[1].m = m
    BY <1>2, LayerParts
  <2>4. GoodLayer(L[1], 1)
    BY <1>2, <2>1, <2>2, <2>3 DEF GoodLayer
  <2> QED
    BY <2>4
<1>4. ASSUME NEW j \in (1 + 1) .. n, j - 1 \in T
      PROVE  j \in T
  <2>1. j \in 2 .. P.D /\ j \in Nat /\ GoodLayer(L[j - 1], j - 1)
    BY <1>4
  <2>2. GoodLayer(LayerStep(0, j - 1, L[j - 1]), j)
    BY <2>1, NextLayerGood
  <2>3. GoodLayer(L[j], j)
    BY <1>2, <2>1, <2>2
  <2> QED
    BY <2>1, <2>3
<1> HIDE DEF T
<1>5. \A j \in 1 .. n : j \in T
  <2> HIDE DEF n
  <2> QED
    BY <1>1, <1>3, <1>4, Layer!IntervalInduction
<1>6. \A j \in 1 .. n : GoodLayer(L[j], j)
  BY <1>5 DEF T
<1>7. L[n].tree = 0
  <2>1. L[n].tree \in Nat /\ L[n].tree < 2^((P.D - n) * P.HPrime)
    BY <1>1, <1>6 DEF GoodLayer
  <2>2. (P.D - n) * P.HPrime = 0
    BY Numbers
  <2>3. 2^((P.D - n) * P.HPrime) = 1
    <3> DEFINE e == (P.D - n) * P.HPrime
    <3>1. e = 0
      BY <2>2
    <3> HIDE DEF e
    <3>2. 2^e = 1
      BY <3>1
    <3> QED
      BY <3>2 DEF e
  <2> DEFINE k == L[n].tree
  <2>4. k \in Nat /\ k < 1
    BY <2>1, <2>3
  <2> HIDE DEF k
  <2>5. k = 0
    BY <2>4
  <2> QED
    BY <2>5 DEF k
<1> QED
  BY <1>6, <1>7 DEF L

\* A one-time key signs one value (hypertree.rs:64-101): two signatures that meet in
\* a leaf of a layer have it sign the same.  In the lowest layer that is the
\* public key of the FORS trees, which the leaf's address gives; above it is the root
\* of the tree below, which the leaf's place in its tree gives.
LEMMA MeetSame ==
  ASSUME NEW m1, IsValue(m1), NEW tree1 \in Nat, tree1 < 2^(P.H - P.HPrime),
         NEW leaf1 \in Nat, leaf1 < 2^P.HPrime,
         NEW m2, IsValue(m2), NEW tree2 \in Nat, tree2 < 2^(P.H - P.HPrime),
         NEW leaf2 \in Nat, leaf2 < 2^P.HPrime,
         (tree1 = tree2 /\ leaf1 = leaf2) => m1 = m2
  PROVE  LET a == ht_layers(m1, tree1, leaf1)
             b == ht_layers(m2, tree2, leaf2)
         IN  \A j \in 1 .. P.D :
               (a[j].tree = b[j].tree /\ a[j].leaf = b[j].leaf) => a[j].m = b[j].m
<1> DEFINE a == ht_layers(m1, tree1, leaf1)
           b == ht_layers(m2, tree2, leaf2)
<1>1. /\ a[1] = SignedLayer(0, tree1, leaf1, m1)
      /\ \A j \in 2 .. P.D : a[j] = LayerStep(0, j - 1, a[j - 1])
  BY LayersFollow
<1>2. /\ b[1] = SignedLayer(0, tree2, leaf2, m2)
      /\ \A j \in 2 .. P.D : b[j] = LayerStep(0, j - 1, b[j - 1])
  BY LayersFollow
<1>3. \A j \in 1 .. P.D : GoodLayer(a[j], j) /\ GoodLayer(b[j], j)
  BY LayersOpen
<1> HIDE DEF a, b
<1>4. ASSUME NEW j \in 1 .. P.D, a[j].tree = b[j].tree, a[j].leaf = b[j].leaf
      PROVE  a[j].m = b[j].m
  <2>1. CASE j = 1
    <3>1. /\ a[1].tree = tree1 /\ a[1].leaf = leaf1 /\ a[1].m = m1
          /\ b[1].tree = tree2 /\ b[1].leaf = leaf2 /\ b[1].m = m2
      BY <1>1, <1>2, LayerParts
    <3> QED
      BY <1>4, <2>1, <3>1
  <2>2. CASE j # 1
    <3> DEFINE i == j - 1
               x == a[i]
               y == b[i]
               rx == xmss_pk_from_sig(x.leaf, x.sig, x.m, AtLayer(i - 1, x.tree))
               ry == xmss_pk_from_sig(y.leaf, y.sig, y.m, AtLayer(i - 1, y.tree))
    <3>1. j \in 2 .. P.D /\ i \in 1 .. P.D
      BY <2>2, Numbers
    <3>2. a[j] = LayerStep(0, i, x) /\ b[j] = LayerStep(0, i, y)
      BY <1>1, <1>2, <3>1
    <3> HIDE DEF i
    <3>3. /\ rx = xmss_node(0, P.HPrime, AtLayer(i - 1, x.tree)) /\ GoodLayer(x, i)
          /\ ry = xmss_node(0, P.HPrime, AtLayer(i - 1, y.tree)) /\ GoodLayer(y, i)
      BY <1>3, <3>1, GoodLayerOpens
    <3>4. /\ a[j] = SignedLayer(i, next_tree(x.tree), next_leaf(x.tree), rx)
          /\ b[j] = SignedLayer(i, next_tree(y.tree), next_leaf(y.tree), ry)
      BY <3>2 DEF LayerStep
    <3> HIDE DEF rx, ry
    <3>5. /\ a[j].tree = next_tree(x.tree) /\ a[j].leaf = next_leaf(x.tree) /\ a[j].m = rx
          /\ b[j].tree = next_tree(y.tree) /\ b[j].leaf = next_leaf(y.tree) /\ b[j].m = ry
      BY <3>4, LayerParts
    <3> DEFINE w == 2^P.HPrime
               k == x.tree
               n == y.tree
    <3>6. /\ k \in Nat /\ n \in Nat /\ w \in Nat /\ w > 0
          /\ next_tree(k) = k \div w /\ next_leaf(k) = k % w
          /\ next_tree(n) = n \div w /\ next_leaf(n) = n % w
      <4>1. w \in Nat /\ w > 0
        BY Numbers, PowerType
      <4>2. (w - 1) + 1 = w
        BY <4>1
      <4>3. \A z : next_tree(z) = z \div w /\ next_leaf(z) = z % ((w - 1) + 1)
        BY DEF next_tree, next_leaf, And
      <4> HIDE DEF w
      <4> QED
        BY <3>3, <4>1, <4>2, <4>3 DEF GoodLayer
    <3> HIDE DEF w, k, n
    <3>7. k = n
      <4>1. k = w * (k \div w) + (k % w) /\ n = w * (n \div w) + (n % w)
        BY <3>6, Divides
      <4>2. k \div w = n \div w /\ k % w = n % w
        BY <1>4, <3>5, <3>6 DEF k, n
      <4> QED
        BY <4>1, <4>2
    <3> QED
      BY <3>3, <3>5, <3>7 DEF k, n
  <2> QED
    BY <2>1, <2>2
<1> QED
  BY <1>4 DEF a, b

\* What the signer of a digest signs with the hypertree.
LEMMA ForsSigned ==
  ASSUME NEW d \in Digests
  PROVE  LET s    == split_digest(P, d)
             adrs == NewForsTree(s.idx_tree, s.idx_leaf)
             pk   == fors_pk_from_sig(fors_sign(s.md, adrs), s.md, adrs)
         IN  /\ pk = t(fors_roots(adrs), [i \in 1 .. P.K |-> fors_node(i - 1, P.A, adrs)])
             /\ IsValue(pk)
<1> DEFINE s == split_digest(P, d)
           adrs == NewForsTree(s.idx_tree, s.idx_leaf)
           pk == fors_pk_from_sig(fors_sign(s.md, adrs), s.md, adrs)
           roots == t(fors_roots(adrs), [i \in 1 .. P.K |-> fors_node(i - 1, P.A, adrs)])
<1>1. s.md \in Seq(Byte) /\ P.K * P.A <= 8 * Len(s.md) /\ s.idx_leaf \in Nat /\ s.idx_tree \in Nat
  BY SplitDigest
<1> HIDE DEF s
<1>2. adrs \in ForsAdrs
  BY <1>1 DEF NewForsTree, ForsAdrs
<1> HIDE DEF adrs
<1>3. pk = roots
  BY <1>1, ForsOpens
<1>4. IsValue(roots)
  BY <1>2, ForsPkType
<1> QED
  BY <1>3, <1>4 DEF s, adrs

-----------------------------------------------------------------------------
(* The life of a signature.                                                *)

\* What is sent is the signature of a digest, and what is found of it is what the
\* verifier finds.  (Nothing is said of None, which may be any value.)
SignedInv ==
  /\ digest # None => digest \in Digests
  /\ sent # None => digest \in Digests /\ sent = to_bytes(slh_sign(digest))
  /\ received # None => sent # None
  /\ presented # None => presented \in Digests /\ received # None
  /\ verdict # None =>
       /\ presented \in Digests /\ received # None
       /\ verdict = IF Parses(received) /\ slh_verify(presented, from_bytes(received))
                    THEN "ok" ELSE "err"

\* It holds in every state.
THEOREM SignedAlways == Spec => []SignedInv
<1>1. Init => SignedInv
  BY DEF Init, SignedInv
<1>2. ASSUME SignedInv, [Next]_vars
      PROVE  SignedInv'
  <2>1. CASE UNCHANGED vars
    BY <1>2, <2>1 DEF SignedInv, vars
  <2>2. ASSUME NEW d \in Digests, TrySign(d)
        PROVE  SignedInv'
    BY <1>2, <2>2 DEF SignedInv, TrySign
  <2>3. ASSUME NEW chunks, Arrives(chunks)
        PROVE  SignedInv'
    BY <1>2, <2>3 DEF SignedInv, Arrives
  <2>4. ASSUME NEW d \in Digests, TryVerify(d)
        PROVE  SignedInv'
    <3>1. SignedInv /\ received # None /\ sent # None
      BY <1>2, <2>4 DEF SignedInv, TryVerify
    <3> QED
      BY <2>4, <3>1 DEF SignedInv, TryVerify
  <2>5. CASE Again
    BY <2>5 DEF SignedInv, Again
  <2> QED
    BY <1>2, <2>1, <2>2, <2>3, <2>4, <2>5 DEF Next, Deliver, Damage, Truncate
<1> QED
  BY <1>1, <1>2, PTL DEF Spec

\* A one-time key signs one value, whatever two messages meet in its leaf
\* (hypertree.rs:64-101).
THEOREM KeysSignOnce == Spec => []OneTimeKeysSignOnce
<1>1. ASSUME SignedInv, presented # None
      PROVE  LET a == LayersOf(digest)
                 b == LayersOf(presented)
             IN  \A j \in 1..P.D :
                   (a[j].tree = b[j].tree /\ a[j].leaf = b[j].leaf) => a[j].m = b[j].m
  <2>1. digest \in Digests /\ presented \in Digests
    BY <1>1 DEF SignedInv
  <2> DEFINE s1 == split_digest(P, digest)
             s2 == split_digest(P, presented)
             adrs1 == NewForsTree(s1.idx_tree, s1.idx_leaf)
             adrs2 == NewForsTree(s2.idx_tree, s2.idx_leaf)
             pk1 == fors_pk_from_sig(fors_sign(s1.md, adrs1), s1.md, adrs1)
             pk2 == fors_pk_from_sig(fors_sign(s2.md, adrs2), s2.md, adrs2)
  <2>2. /\ s1.idx_tree \in Nat /\ s1.idx_tree < 2^(P.H - P.HPrime)
        /\ s1.idx_leaf \in Nat /\ s1.idx_leaf < 2^P.HPrime
        /\ s2.idx_tree \in Nat /\ s2.idx_tree < 2^(P.H - P.HPrime)
        /\ s2.idx_leaf \in Nat /\ s2.idx_leaf < 2^P.HPrime
    BY <2>1, SplitDigest
  <2>3. /\ pk1 = t(fors_roots(adrs1), [i \in 1 .. P.K |-> fors_node(i - 1, P.A, adrs1)])
        /\ IsValue(pk1)
    BY <2>1, ForsSigned
  <2>4. /\ pk2 = t(fors_roots(adrs2), [i \in 1 .. P.K |-> fors_node(i - 1, P.A, adrs2)])
        /\ IsValue(pk2)
    BY <2>1, ForsSigned
  <2>5. /\ LayersOf(digest) = ht_layers(pk1, s1.idx_tree, s1.idx_leaf)
        /\ LayersOf(presented) = ht_layers(pk2, s2.idx_tree, s2.idx_leaf)
    BY DEF LayersOf
  <2> HIDE DEF s1, s2
  <2>6. (s1.idx_tree = s2.idx_tree /\ s1.idx_leaf = s2.idx_leaf) => adrs1 = adrs2
    OBVIOUS
  <2> HIDE DEF adrs1, adrs2
  <2>7. (s1.idx_tree = s2.idx_tree /\ s1.idx_leaf = s2.idx_leaf) => pk1 = pk2
    BY <2>3, <2>4, <2>6
  <2> DEFINE t1 == s1.idx_tree
             l1 == s1.idx_leaf
             t2 == s2.idx_tree
             l2 == s2.idx_leaf
  <2>8. /\ t1 \in Nat /\ t1 < 2^(P.H - P.HPrime) /\ l1 \in Nat /\ l1 < 2^P.HPrime
        /\ t2 \in Nat /\ t2 < 2^(P.H - P.HPrime) /\ l2 \in Nat /\ l2 < 2^P.HPrime
    BY <2>2
  <2>9. /\ LayersOf(digest) = ht_layers(pk1, t1, l1)
        /\ LayersOf(presented) = ht_layers(pk2, t2, l2)
    BY <2>5
  <2>10. IsValue(pk1) /\ IsValue(pk2) /\ ((t1 = t2 /\ l1 = l2) => pk1 = pk2)
    BY <2>3, <2>4, <2>7
  <2> HIDE DEF pk1, pk2, t1, t2, l1, l2
  <2>11. LET a == ht_layers(pk1, t1, l1)
             b == ht_layers(pk2, t2, l2)
         IN  \A j \in 1 .. P.D :
               (a[j].tree = b[j].tree /\ a[j].leaf = b[j].leaf) => a[j].m = b[j].m
    BY <2>8, <2>10, MeetSame
  <2> QED
    BY <2>9, <2>11
<1>2. SignedInv => OneTimeKeysSignOnce
  BY <1>1 DEF OneTimeKeysSignOnce
<1> QED
  BY <1>2, SignedAlways, PTL

-----------------------------------------------------------------------------
(* Signatures as bytes (signature_encoding.rs, fors.rs, hypertree.rs).      *)

\* The elements of a piece of a sequence.
LEMMA PieceOf ==
  ASSUME NEW S, NEW s \in Seq(S), NEW from \in Nat, NEW n \in Nat, from + n <= Len(s)
  PROVE  LET piece == SubSeq(s, from + 1, from + n)
         IN  /\ piece \in Seq(S) /\ Len(piece) = n
             /\ \A i \in 1 .. n : piece[i] = s[from + i]
  OBVIOUS

\* The functions on 1 .. n are the sequences of length n.
LEMMA SeqOfFunction ==
  ASSUME NEW S, NEW n \in Nat, NEW s
  PROVE  s \in [1 .. n -> S] <=> s \in Seq(S) /\ Len(s) = n
  OBVIOUS

\* A step of Flattened.
JoinStep(parts, i, v) == v \o parts[i]
Join == INSTANCE Recursion WITH Step <- JoinStep

\* Flattened follows it.
LEMMA FlattenedFollows ==
  ASSUME NEW S, NEW n \in Nat, NEW parts \in [1 .. n -> Seq(S)]
  PROVE  \E v : /\ v[0] = <<>> /\ \A i \in 1 .. n : v[i] = v[i - 1] \o parts[i]
                /\ Flattened(parts) = v[n]
<1>1. parts \in Seq(Seq(S)) /\ Len(parts) = n
  BY SeqOfFunction
<1>2. PICK g : Join!Solves(g, parts, <<>>, 0, n)
  <2>1. 0 \in Nat /\ n \in Nat /\ 0 <= n
    OBVIOUS
  <2> QED
    BY <2>1, Join!RecursionExists
<1>3. g = [i \in 0 .. Len(parts) |-> IF i = 0 THEN <<>> ELSE g[i - 1] \o parts[i]]
  BY <1>1, <1>2 DEF Join!Solves, JoinStep
<1> DEFINE v == CHOOSE upTo : upTo =
             [i \in 0 .. Len(parts) |-> IF i = 0 THEN <<>> ELSE upTo[i - 1] \o parts[i]]
<1>4. v = [i \in 0 .. Len(parts) |-> IF i = 0 THEN <<>> ELSE v[i - 1] \o parts[i]]
  BY <1>3
<1>5. Flattened(parts) = v[n]
  BY <1>1 DEF Flattened
<1> HIDE DEF v
<1>6. v = [i \in 0 .. n |-> IF i = 0 THEN <<>> ELSE v[i - 1] \o parts[i]]
  BY <1>1, <1>4
<1>7. v[0] = <<>>
  BY <1>6
<1>8. ASSUME NEW i \in 1 .. n
      PROVE  v[i] = v[i - 1] \o parts[i]
  <2>1. i \in 0 .. n /\ i # 0
    OBVIOUS
  <2> QED
    BY <1>6, <2>1, Zenon
<1> QED
  BY <1>5, <1>7, <1>8

\* Where an element of part a + 1 stands among parts of l elements.
LEMMA Places ==
  ASSUME NEW i \in Nat, NEW l \in Nat, NEW a \in 1 .. i, NEW k \in 1 .. l
  PROVE  /\ i * l \in Nat /\ (a - 1) * l + k \in 1 .. i * l
         /\ (i + 1) * l = i * l + l /\ (a - 1) * l \in Nat /\ a * l = (a - 1) * l + l
         /\ (a - 1) * l + l <= i * l
<1>1. a - 1 \in Nat /\ i - a \in Nat
  OBVIOUS
<1>2. i * l = (a - 1) * l + l + (i - a) * l /\ a * l = (a - 1) * l + l
  BY <1>1
<1>3. (a - 1) * l \in Nat /\ (i - a) * l \in Nat /\ i * l \in Nat
  BY <1>1
<1>4. (i + 1) * l = i * l + l
  OBVIOUS
<1> DEFINE x == (a - 1) * l
           y == (i - a) * l
           z == i * l
<1>5. x \in Nat /\ y \in Nat /\ z \in Nat /\ z = x + l + y
  BY <1>2, <1>3
<1> HIDE DEF x, y, z
<1>6. x + k \in 1 .. z /\ x + l <= z
  BY <1>5
<1> QED
  BY <1>2, <1>3, <1>4, <1>6 DEF x, z

\* Parts of one length, put one behind the other.
LEMMA FlattenedIs ==
  ASSUME NEW S, NEW n \in Nat, NEW l \in Nat, NEW parts \in [1 .. n -> Seq(S)],
         \A i \in 1 .. n : Len(parts[i]) = l
  PROVE  /\ Flattened(parts) \in Seq(S) /\ Len(Flattened(parts)) = n * l
         /\ \A a \in 1 .. n, k \in 1 .. l : Flattened(parts)[(a - 1) * l + k] = parts[a][k]
<1>1. PICK v : /\ v[0] = <<>> /\ \A i \in 1 .. n : v[i] = v[i - 1] \o parts[i]
               /\ Flattened(parts) = v[n]
  BY FlattenedFollows
<1> DEFINE Joined(i) ==
             /\ v[i] \in Seq(S) /\ Len(v[i]) = i * l
             /\ \A a \in 1 .. i, k \in 1 .. l : v[i][(a - 1) * l + k] = parts[a][k]
           T == {i \in 0 .. n : Joined(i)}
<1>2. 0 \in T
  <2>1. v[0] \in Seq(S) /\ Len(v[0]) = 0 /\ 0 * l = 0 /\ 0 \in 0 .. n
    BY <1>1
  <2>2. \A a \in 1 .. 0 : FALSE
    OBVIOUS
  <2> HIDE DEF Joined
  <2>3. Joined(0)
    BY <2>1, <2>2 DEF Joined
  <2> QED
    BY <2>1, <2>3
<1>3. ASSUME NEW i \in (0 + 1) .. n, i - 1 \in T
      PROVE  i \in T
  <2> DEFINE j == i - 1
             x == v[j]
             y == parts[i]
  <2>1. i \in 1 .. n /\ j \in Nat /\ i = j + 1 /\ i \in 0 .. n
    OBVIOUS
  <2>2. /\ x \in Seq(S) /\ Len(x) = j * l
        /\ \A a \in 1 .. j, k \in 1 .. l : x[(a - 1) * l + k] = parts[a][k]
    BY <1>3
  <2>3. v[i] = x \o y /\ y \in Seq(S) /\ Len(y) = l
    BY <1>1, <2>1
  <2> HIDE DEF j, x, y
  <2>4. /\ x \o y \in Seq(S) /\ Len(x \o y) = j * l + l
        /\ \A m \in 1 .. (j * l) : (x \o y)[m] = x[m]
        /\ \A m \in 1 .. l : (x \o y)[j * l + m] = y[m]
    <3>1. /\ x \o y \in Seq(S) /\ Len(x \o y) = Len(x) + Len(y)
          /\ \A m \in 1 .. Len(x) : (x \o y)[m] = x[m]
          /\ \A m \in 1 .. Len(y) : (x \o y)[Len(x) + m] = y[m]
      <4>1. x \in Seq(S) /\ y \in Seq(S)
        BY <2>2, <2>3
      <4> QED
        BY <4>1, ConcatInto
    <3> DEFINE p == j * l
    <3>2. Len(x) = p /\ Len(y) = l
      BY <2>2, <2>3
    <3> HIDE DEF p
    <3>3. /\ x \o y \in Seq(S) /\ Len(x \o y) = p + l
          /\ \A m \in 1 .. p : (x \o y)[m] = x[m]
          /\ \A m \in 1 .. l : (x \o y)[p + m] = y[m]
      BY <3>1, <3>2, Zenon
    <3> QED
      BY <3>3 DEF p
  <2>5. i * l = j * l + l
    BY <2>1
  <2>6. ASSUME NEW a \in 1 .. i, NEW k \in 1 .. l
        PROVE  v[i][(a - 1) * l + k] = parts[a][k]
    <3>1. CASE a = i
      <4>1. a - 1 = j
        BY <2>1, <3>1
      <4> QED
        BY <2>3, <2>4, <3>1, <4>1 DEF y
    <3>2. CASE a # i
      <4>1. a \in 1 .. j
        BY <2>1, <3>2
      <4>2. (a - 1) * l + k \in 1 .. (j * l)
        BY <2>1, <4>1, Places
      <4> QED
        BY <2>2, <2>3, <2>4, <4>1, <4>2
    <3> QED
      BY <3>1, <3>2
  <2>7. v[i] \in Seq(S) /\ Len(v[i]) = i * l
    BY <2>3, <2>4, <2>5
  <2> HIDE DEF Joined
  <2>8. Joined(i)
    BY <2>6, <2>7 DEF Joined
  <2> QED
    BY <2>1, <2>8
<1>4. \A i \in 0 .. n : i \in T
  <2>1. 0 \in Nat /\ n \in Nat
    OBVIOUS
  <2> HIDE DEF T
  <2> QED
    BY <1>2, <1>3, <2>1, Join!IntervalInduction
<1>5. Joined(n)
  BY <1>4
<1> QED
  BY <1>1, <1>5

\* Signatures whose chunks are in a set.
ForsParts(S) == [sk : S, auth : [1 .. P.A -> S]]
XmssParts(S) == [sig : [1 .. P.WotsSigLen -> S], auth : [1 .. P.HPrime -> S]]
Signatures(S) ==
  [randomizer : S, fors_sig : [1 .. P.K -> ForsParts(S)], ht_sig : [1 .. P.D -> XmssParts(S)]]

\* The chunks of a part of a FORS signature are read as they were written
\* (fors.rs).
LEMMA ForsPartBytes ==
  ASSUME NEW S, NEW part \in ForsParts(S)
  PROVE  LET chunks == ForsMTChunks(part)
         IN  /\ chunks \in Seq(S) /\ Len(chunks) = P.A + 1
             /\ chunks[1] = part.sk /\ \A j \in 1 .. P.A : chunks[1 + j] = part.auth[j]
<1> DEFINE one == <<part.sk>>
           auth == part.auth
<1>1. P.A \in Nat
  BY Numbers
<1>2. part.sk \in S /\ auth \in [1 .. P.A -> S]
  BY DEF ForsParts
<1>3. one \in Seq(S) /\ Len(one) = 1 /\ one[1] = part.sk
  BY <1>2
<1>4. auth \in Seq(S) /\ Len(auth) = P.A
  BY <1>1, <1>2, SeqOfFunction
<1>5. ForsMTChunks(part) = one \o auth
  BY DEF ForsMTChunks
<1> HIDE DEF one, auth
<1>6. /\ one \o auth \in Seq(S) /\ Len(one \o auth) = Len(one) + Len(auth)
      /\ \A i \in 1 .. Len(one) : (one \o auth)[i] = one[i]
      /\ \A i \in 1 .. Len(auth) : (one \o auth)[Len(one) + i] = auth[i]
  BY <1>3, <1>4, ConcatInto
<1>7. 1 \in 1 .. Len(one) /\ Len(one) + Len(auth) = P.A + 1
  BY <1>1, <1>3, <1>4
<1>8. (one \o auth)[1] = part.sk
  BY <1>3, <1>6, <1>7
<1>9. \A j \in 1 .. P.A : (one \o auth)[1 + j] = auth[j]
  BY <1>3, <1>4, <1>6
<1> QED
  BY <1>5, <1>6, <1>7, <1>8, <1>9 DEF auth

\* So are those of an XMSS signature (xmss.rs).
LEMMA XmssPartBytes ==
  ASSUME NEW S, NEW part \in XmssParts(S)
  PROVE  LET chunks == XmssChunks(part)
         IN  chunks \in Seq(S) /\ Len(chunks) = XmssLen /\ XmssSig(chunks) = part
<1> DEFINE sig == part.sig
           auth == part.auth
           m == P.WotsSigLen
           n == P.HPrime
           chunks == XmssChunks(part)
<1>1. m \in Nat /\ n \in Nat /\ XmssLen = m + n
  BY Numbers DEF XmssLen
<1>2. /\ sig \in [1 .. m -> S] /\ auth \in [1 .. n -> S]
      /\ part = [sig |-> sig, auth |-> auth]
  BY DEF XmssParts
<1>3. chunks = sig \o auth
  BY DEF XmssChunks
<1>4. XmssSig(chunks) = [sig |-> SubSeq(chunks, 1, m), auth |-> SubSeq(chunks, m + 1, Len(chunks))]
  BY DEF XmssSig
<1> HIDE DEF sig, auth, m, n, chunks
<1>5. sig \in Seq(S) /\ Len(sig) = m /\ auth \in Seq(S) /\ Len(auth) = n
  BY <1>1, <1>2, SeqOfFunction
<1>6. /\ chunks \in Seq(S) /\ Len(chunks) = m + n
      /\ \A i \in 1 .. m : chunks[i] = sig[i]
      /\ \A i \in 1 .. n : chunks[m + i] = auth[i]
  <2>1. /\ sig \o auth \in Seq(S) /\ Len(sig \o auth) = Len(sig) + Len(auth)
        /\ \A i \in 1 .. Len(sig) : (sig \o auth)[i] = sig[i]
        /\ \A i \in 1 .. Len(auth) : (sig \o auth)[Len(sig) + i] = auth[i]
    <3>1. sig \in Seq(S) /\ auth \in Seq(S)
      BY <1>5
    <3> QED
      BY <3>1, ConcatInto
  <2> QED
    BY <1>3, <1>5, <2>1
<1>7. SubSeq(chunks, 1, m) = sig
  <2>1. /\ SubSeq(chunks, 0 + 1, 0 + m) \in Seq(S) /\ Len(SubSeq(chunks, 0 + 1, 0 + m)) = m
        /\ \A i \in 1 .. m : SubSeq(chunks, 0 + 1, 0 + m)[i] = chunks[0 + i]
    BY <1>1, <1>6, PieceOf
  <2>2. 0 + 1 = 1 /\ 0 + m = m /\ \A i \in 1 .. m : 0 + i = i
    BY <1>1
  <2> QED
    BY <1>5, <1>6, <2>1, <2>2, SeqEqual
<1>8. SubSeq(chunks, m + 1, Len(chunks)) = auth
  <2>1. /\ SubSeq(chunks, m + 1, m + n) \in Seq(S) /\ Len(SubSeq(chunks, m + 1, m + n)) = n
        /\ \A i \in 1 .. n : SubSeq(chunks, m + 1, m + n)[i] = chunks[m + i]
    <3>1. chunks \in Seq(S) /\ m \in Nat /\ n \in Nat /\ m + n <= Len(chunks)
      BY <1>1, <1>6
    <3> QED
      BY <3>1, PieceOf
  <2> DEFINE piece == SubSeq(chunks, m + 1, m + n)
  <2>2. /\ piece \in Seq(S) /\ auth \in Seq(S) /\ Len(piece) = Len(auth)
        /\ \A i \in 1 .. Len(piece) : piece[i] = auth[i]
    BY <1>5, <1>6, <2>1
  <2>3. SubSeq(chunks, m + 1, Len(chunks)) = piece
    BY <1>6
  <2> HIDE DEF piece
  <2>4. piece = auth
    BY <2>2, SeqEqual
  <2> QED
    BY <2>3, <2>4
<1> QED
  BY <1>1, <1>2, <1>4, <1>6, <1>7, <1>8 DEF chunks

\* The FORS part of a signature is read as it was written.
LEMMA ForsBytes ==
  ASSUME NEW S, NEW sig \in [1 .. P.K -> ForsParts(S)]
  PROVE  LET chunks == Flattened([i \in 1 .. P.K |-> ForsMTChunks(sig[i])])
         IN  /\ chunks \in Seq(S) /\ Len(chunks) = P.K * (P.A + 1)
             /\ ForsSignature(chunks) = sig
<1> DEFINE parts == [i \in 1 .. P.K |-> ForsMTChunks(sig[i])]
           chunks == Flattened(parts)
           A == P.A
           l == A + 1
           n == P.K
<1>1. n \in Nat /\ A \in Nat /\ l \in Nat /\ l = A + 1
  BY Numbers
<1>2. \A i \in 1 .. n : /\ parts[i] \in Seq(S) /\ Len(parts[i]) = l /\ parts[i][1] = sig[i].sk
                        /\ \A j \in 1 .. A : parts[i][1 + j] = sig[i].auth[j]
  <2> TAKE i \in 1 .. n
  <2>1. sig[i] \in ForsParts(S) /\ parts[i] = ForsMTChunks(sig[i])
    OBVIOUS
  <2> HIDE DEF parts
  <2> QED
    BY <2>1, ForsPartBytes
<1>3. parts \in [1 .. n -> Seq(S)]
  <2>1. parts = [i \in 1 .. n |-> parts[i]]
    OBVIOUS
  <2> HIDE DEF parts
  <2> QED
    BY <1>2, <2>1
<1>4. ForsSignature(chunks) =
        [i \in 1 .. n |-> [sk   |-> chunks[(i - 1) * (A + 1) + 1],
                           auth |-> SubSeq(chunks, (i - 1) * (A + 1) + 2, (i - 1) * (A + 1) + A + 1)]]
  BY DEF ForsSignature
<1> HIDE DEF parts, chunks, A, l, n
<1>5. /\ chunks \in Seq(S) /\ Len(chunks) = n * l
      /\ \A i \in 1 .. n, k \in 1 .. l : chunks[(i - 1) * l + k] = parts[i][k]
  <2>1. /\ Flattened(parts) \in Seq(S) /\ Len(Flattened(parts)) = n * l
        /\ \A i \in 1 .. n, k \in 1 .. l : Flattened(parts)[(i - 1) * l + k] = parts[i][k]
    <3>1. n \in Nat /\ l \in Nat /\ \A i \in 1 .. n : Len(parts[i]) = l
      BY <1>1, <1>2
    <3> QED
      BY <1>3, <3>1, FlattenedIs
  <2> QED
    BY <2>1 DEF chunks
<1>6. ASSUME NEW i \in 1 .. n
      PROVE  [sk   |-> chunks[(i - 1) * (A + 1) + 1],
              auth |-> SubSeq(chunks, (i - 1) * (A + 1) + 2, (i - 1) * (A + 1) + A + 1)]
               = sig[i]
  <2> DEFINE at == (i - 1) * l
  <2>1. at = (i - 1) * (A + 1) /\ at \in Nat /\ at + l <= n * l
    <3>1. 1 \in 1 .. l
      BY <1>1
    <3>2. (i - 1) * l \in Nat /\ (i - 1) * l + l <= n * l
      BY <1>1, <3>1, Places
    <3> QED
      BY <1>1, <3>2
  <2>2. \A k \in 1 .. l : chunks[at + k] = parts[i][k]
    BY <1>5
  <2> HIDE DEF at
  <2>3. chunks[at + 1] = sig[i].sk
    <3>1. 1 \in 1 .. l
      BY <1>1
    <3> QED
      BY <1>2, <2>2, <3>1
  <2> DEFINE piece == SubSeq(chunks, (at + 1) + 1, (at + 1) + A)
             auth == sig[i].auth
  <2>4. /\ piece \in Seq(S) /\ Len(piece) = A
        /\ \A j \in 1 .. A : piece[j] = chunks[(at + 1) + j]
    <3>1. at + 1 \in Nat /\ (at + 1) + A <= Len(chunks)
      BY <1>1, <1>5, <2>1
    <3>2. chunks \in Seq(S) /\ A \in Nat
      BY <1>1, <1>5
    <3> QED
      BY <3>1, <3>2, PieceOf
  <2>5. \A j \in 1 .. A : (at + 1) + j = at + (1 + j) /\ 1 + j \in 1 .. l
    BY <1>1, <2>1
  <2>6. \A j \in 1 .. A : piece[j] = auth[j]
    <3> TAKE j \in 1 .. A
    <3>1. parts[i][1 + j] = sig[i].auth[j]
      BY <1>2
    <3>2. chunks[at + (1 + j)] = parts[i][1 + j]
      BY <2>2, <2>5
    <3> QED
      BY <2>4, <2>5, <3>1, <3>2
  <2>7. sig[i] = [sk |-> sig[i].sk, auth |-> auth] /\ auth \in [1 .. A -> S]
    BY DEF ForsParts, n, A
  <2>8. (at + 1) + 1 = at + 2 /\ (at + 1) + A = at + A + 1
    BY <1>1, <2>1
  <2>9. SubSeq(chunks, at + 2, at + A + 1) = piece
    BY <2>8
  <2> HIDE DEF piece, auth
  <2>10. auth \in Seq(S) /\ Len(auth) = A
    BY <1>1, <2>7, SeqOfFunction
  <2>11. piece = auth
    BY <2>4, <2>6, <2>10, SeqEqual
  <2> QED
    BY <2>1, <2>3, <2>7, <2>9, <2>11
<1>7. sig = [i \in 1 .. n |-> sig[i]]
  BY DEF n
<1>8. ForsSignature(chunks) = sig
  BY <1>4, <1>6, <1>7
<1> QED
  BY <1>5, <1>8 DEF chunks, parts, n, l, A

\* So is the hypertree part.
LEMMA HypertreeBytes ==
  ASSUME NEW S, NEW sig \in [1 .. P.D -> XmssParts(S)]
  PROVE  LET chunks == Flattened([j \in 1 .. P.D |-> XmssChunks(sig[j])])
         IN  /\ chunks \in Seq(S) /\ Len(chunks) = P.D * XmssLen
             /\ HypertreeSig(chunks) = sig
<1> DEFINE parts == [j \in 1 .. P.D |-> XmssChunks(sig[j])]
           chunks == Flattened(parts)
           l == XmssLen
           n == P.D
<1>1. n \in Nat /\ l \in Nat /\ l > 0
  BY Numbers DEF XmssLen
<1>2. \A i \in 1 .. n : parts[i] \in Seq(S) /\ Len(parts[i]) = l /\ XmssSig(parts[i]) = sig[i]
  <2> TAKE i \in 1 .. n
  <2>1. sig[i] \in XmssParts(S) /\ parts[i] = XmssChunks(sig[i])
    OBVIOUS
  <2> HIDE DEF parts
  <2> QED
    BY <2>1, XmssPartBytes
<1>3. parts \in [1 .. n -> Seq(S)]
  <2>1. parts = [i \in 1 .. n |-> parts[i]]
    OBVIOUS
  <2> HIDE DEF parts
  <2> QED
    BY <1>2, <2>1
<1>4. HypertreeSig(chunks) = [i \in 1 .. n |-> XmssSig(SubSeq(chunks, (i - 1) * l + 1, i * l))]
  BY DEF HypertreeSig
<1> HIDE DEF parts, chunks, l, n
<1>5. /\ chunks \in Seq(S) /\ Len(chunks) = n * l
      /\ \A i \in 1 .. n, k \in 1 .. l : chunks[(i - 1) * l + k] = parts[i][k]
  <2>1. /\ Flattened(parts) \in Seq(S) /\ Len(Flattened(parts)) = n * l
        /\ \A i \in 1 .. n, k \in 1 .. l : Flattened(parts)[(i - 1) * l + k] = parts[i][k]
    BY <1>1, <1>2, <1>3, FlattenedIs
  <2> QED
    BY <2>1 DEF chunks
<1>6. ASSUME NEW i \in 1 .. n
      PROVE  XmssSig(SubSeq(chunks, (i - 1) * l + 1, i * l)) = sig[i]
  <2> DEFINE at == (i - 1) * l
             piece == SubSeq(chunks, at + 1, at + l)
             part == parts[i]
  <2>1. i * l = at + l /\ at \in Nat /\ at + l <= n * l
    <3>1. 1 \in 1 .. l
      BY <1>1
    <3> QED
      BY <1>1, <3>1, Places
  <2>2. \A k \in 1 .. l : chunks[at + k] = part[k]
    BY <1>5
  <2>3. part \in Seq(S) /\ Len(part) = l /\ XmssSig(part) = sig[i]
    BY <1>2
  <2>4. SubSeq(chunks, (i - 1) * l + 1, i * l) = piece
    BY <2>1
  <2>5. XmssSig(piece) = XmssSig(SubSeq(chunks, (i - 1) * l + 1, i * l))
    BY <2>4
  <2> HIDE DEF at, part
  <2>6. /\ piece \in Seq(S) /\ Len(piece) = l
        /\ \A k \in 1 .. l : piece[k] = chunks[at + k]
    BY <1>1, <1>5, <2>1, PieceOf
  <2>7. \A k \in 1 .. l : piece[k] = part[k]
    BY <2>2, <2>6
  <2> HIDE DEF piece
  <2>8. piece = part
    BY <2>3, <2>6, <2>7, SeqEqual
  <2> QED
    BY <2>3, <2>5, <2>8
<1>7. sig = [i \in 1 .. n |-> sig[i]]
  BY DEF n
<1>8. HypertreeSig(chunks) = sig
  BY <1>4, <1>6, <1>7
<1> QED
  BY <1>5, <1>8 DEF chunks, parts, n, l

\* The bytes of a signature are as many as its parameter set says, and they are
\* read as the signature they were written from (signature_encoding.rs).
THEOREM SignatureBytes ==
  ASSUME NEW S, NEW sig \in Signatures(S)
  PROVE  Parses(to_bytes(sig)) /\ from_bytes(to_bytes(sig)) = sig
<1> DEFINE F == Flattened([i \in 1 .. P.K |-> ForsMTChunks(sig.fors_sig[i])])
           X == Flattened([j \in 1 .. P.D |-> XmssChunks(sig.ht_sig[j])])
           first == <<sig.randomizer>>
           m == P.K * (P.A + 1)
           n == P.D * XmssLen
           chunks == to_bytes(sig)
<1>1. /\ sig.randomizer \in S /\ sig.fors_sig \in [1 .. P.K -> ForsParts(S)]
      /\ sig.ht_sig \in [1 .. P.D -> XmssParts(S)]
      /\ sig = [randomizer |-> sig.randomizer, fors_sig |-> sig.fors_sig, ht_sig |-> sig.ht_sig]
  BY DEF Signatures
<1>2. F \in Seq(S) /\ Len(F) = m /\ ForsSignature(F) = sig.fors_sig
  BY <1>1, ForsBytes
<1>3. X \in Seq(S) /\ Len(X) = n /\ HypertreeSig(X) = sig.ht_sig
  BY <1>1, HypertreeBytes
<1>4. chunks = (first \o F) \o X
  BY DEF to_bytes
<1>5. first \in Seq(S) /\ Len(first) = 1 /\ first[1] = sig.randomizer
  BY <1>1
<1>6. m \in Nat /\ n \in Nat
  BY Numbers DEF XmssLen
<1>7. Parses(chunks) <=> Len(chunks) * P.N = SignatureSize(P)
  BY DEF Parses
<1>8. SignatureSize(P) = (1 + m + n) * P.N
  <2> DEFINE N == P.N
             L == P.WotsSigLen
             D == P.D
             H == P.HPrime
             K == P.K
             A == P.A
  <2>1. SignatureSize(P) = N + K * (A + 1) * N + (N * L + H * N) * D
    BY DEF SignatureSize, ForsSize, HypertreeSize, XmssSize, WotsSize
  <2>2. XmssLen = L + H
    BY DEF XmssLen
  <2>3. N \in Nat /\ L \in Nat /\ D \in Nat /\ H \in Nat /\ K \in Nat /\ A \in Nat
    BY Numbers
  <2> HIDE DEF N, L, D, H, K, A
  <2>4. N + K * (A + 1) * N + (N * L + H * N) * D = (1 + K * (A + 1) + D * (L + H)) * N
    BY <2>3
  <2> QED
    BY <2>1, <2>2, <2>4 DEF N, L, D, H, K, A
<1>9. from_bytes(chunks) =
        [randomizer |-> chunks[1],
         fors_sig   |-> ForsSignature(SubSeq(chunks, 2, 1 + m)),
         ht_sig     |-> HypertreeSig(SubSeq(chunks, (1 + m) + 1, Len(chunks)))]
  BY DEF from_bytes
<1> HIDE DEF F, X, first, m, n, chunks
<1>10. /\ first \o F \in Seq(S) /\ Len(first \o F) = 1 + m /\ (first \o F)[1] = sig.randomizer
       /\ \A i \in 1 .. m : (first \o F)[1 + i] = F[i]
  <2>1. first \in Seq(S) /\ F \in Seq(S)
    BY <1>2, <1>5
  <2>2. /\ first \o F \in Seq(S) /\ Len(first \o F) = Len(first) + Len(F)
        /\ \A i \in 1 .. Len(first) : (first \o F)[i] = first[i]
        /\ \A i \in 1 .. Len(F) : (first \o F)[Len(first) + i] = F[i]
    BY <2>1, ConcatInto
  <2> QED
    BY <1>2, <1>5, <2>2
<1> DEFINE front == first \o F
<1>11. /\ chunks \in Seq(S) /\ Len(chunks) = (1 + m) + n
       /\ \A i \in 1 .. (1 + m) : chunks[i] = front[i]
       /\ \A i \in 1 .. n : chunks[(1 + m) + i] = X[i]
  <2>1. front \in Seq(S) /\ X \in Seq(S) /\ Len(front) = 1 + m
    BY <1>3, <1>10
  <2> HIDE DEF front
  <2>2. /\ front \o X \in Seq(S) /\ Len(front \o X) = Len(front) + Len(X)
        /\ \A i \in 1 .. Len(front) : (front \o X)[i] = front[i]
        /\ \A i \in 1 .. Len(X) : (front \o X)[Len(front) + i] = X[i]
    <3>1. front \in Seq(S) /\ X \in Seq(S)
      BY <2>1
    <3> QED
      BY <3>1, ConcatInto
  <2>3. chunks = front \o X
    BY <1>4 DEF front
  <2> QED
    BY <1>3, <2>1, <2>2, <2>3
<1>12. chunks[1] = sig.randomizer
  BY <1>6, <1>10, <1>11
<1>13. SubSeq(chunks, 2, 1 + m) = F
  <2> DEFINE piece == SubSeq(chunks, 1 + 1, 1 + m)
  <2>1. 1 \in Nat /\ 1 + m <= Len(chunks)
    BY <1>6, <1>11
  <2>2. /\ piece \in Seq(S) /\ Len(piece) = m
        /\ \A i \in 1 .. m : piece[i] = chunks[1 + i]
    BY <1>6, <1>11, <2>1, PieceOf
  <2>3. SubSeq(chunks, 2, 1 + m) = piece
    OBVIOUS
  <2> HIDE DEF piece
  <2>4. \A i \in 1 .. m : piece[i] = F[i]
    <3> TAKE i \in 1 .. m
    <3>1. 1 + i \in 1 .. (1 + m)
      BY <1>6
    <3>2. chunks[1 + i] = front[1 + i]
      BY <1>11, <3>1
    <3> QED
      BY <1>10, <2>2, <3>2
  <2>5. piece = F
    BY <1>2, <2>2, <2>4, SeqEqual
  <2> QED
    BY <2>3, <2>5
<1>14. SubSeq(chunks, (1 + m) + 1, Len(chunks)) = X
  <2> DEFINE piece == SubSeq(chunks, (1 + m) + 1, (1 + m) + n)
  <2>1. 1 + m \in Nat /\ (1 + m) + n <= Len(chunks)
    BY <1>6, <1>11
  <2>2. /\ piece \in Seq(S) /\ Len(piece) = n
        /\ \A i \in 1 .. n : piece[i] = chunks[(1 + m) + i]
    BY <1>6, <1>11, <2>1, PieceOf
  <2>3. SubSeq(chunks, (1 + m) + 1, Len(chunks)) = piece
    BY <1>11
  <2> HIDE DEF piece
  <2>4. \A i \in 1 .. n : piece[i] = X[i]
    BY <1>11, <2>2
  <2>5. piece = X
    BY <1>3, <2>2, <2>4, SeqEqual
  <2> QED
    BY <2>3, <2>5
<1>15. from_bytes(chunks) = sig
  BY <1>1, <1>2, <1>3, <1>9, <1>12, <1>13, <1>14
<1>16. Parses(chunks)
  BY <1>6, <1>7, <1>8, <1>11
<1> QED
  BY <1>15, <1>16 DEF chunks

-----------------------------------------------------------------------------
(* What a signer made, a verifier accepts.                                  *)

\* The keys are read as they were written: a verifier has the root of the top tree.
LEMMA KeyRead == VerifyingKey.pk_root = pk_root
<1> DEFINE a == Seed(1)
           b == Seed(2)
           c == Seed(3)
           d == pk_root
           chunks == <<a, b>> \o <<c, d>>
<1>1. new = [sk_seed |-> a, sk_prf |-> b, verifying_key |-> [pk_seed |-> c, pk_root |-> d]]
  BY DEF new, from_seed
<1>2. sk_to_bytes(new) = chunks
  BY <1>1 DEF sk_to_bytes, vk_to_bytes
<1> HIDE DEF a, b, c, d
<1>3. Len(chunks) = 4 /\ SubSeq(chunks, 3, 4) = <<c, d>>
  <2> DEFINE S == {a, b, c, d}
             x == <<a, b>>
             y == <<c, d>>
             piece == SubSeq(chunks, 2 + 1, 2 + 2)
  <2>1. x \in Seq(S) /\ y \in Seq(S)
    OBVIOUS
  <2>2. Len(x) = 2 /\ Len(y) = 2
    OBVIOUS
  <2>3. chunks = x \o y
    OBVIOUS
  <2> HIDE DEF S, x, y, chunks
  <2>4. /\ x \o y \in Seq(S) /\ Len(x \o y) = Len(x) + Len(y)
        /\ \A i \in 1 .. Len(x) : (x \o y)[i] = x[i]
        /\ \A i \in 1 .. Len(y) : (x \o y)[Len(x) + i] = y[i]
    BY <2>1, ConcatInto
  <2>5. chunks \in Seq(S) /\ Len(chunks) = 4 /\ \A i \in 1 .. 2 : chunks[2 + i] = y[i]
    BY <2>2, <2>3, <2>4
  <2>6. /\ piece \in Seq(S) /\ Len(piece) = 2
        /\ \A i \in 1 .. 2 : piece[i] = chunks[2 + i]
    <3>1. chunks \in Seq(S) /\ 2 \in Nat /\ 2 + 2 <= Len(chunks)
      BY <2>5
    <3> QED
      BY <3>1, PieceOf
  <2>7. SubSeq(chunks, 3, 4) = piece
    OBVIOUS
  <2> HIDE DEF piece
  <2>8. piece = y
    BY <2>1, <2>2, <2>5, <2>6, SeqEqual
  <2> QED
    BY <2>5, <2>7, <2>8 DEF y
<1>4. vk_try_from(<<c, d>>) = [pk_seed |-> c, pk_root |-> d]
  BY DEF vk_try_from
<1>5. SigningKey.verifying_key = [pk_seed |-> c, pk_root |-> d]
  BY <1>2, <1>3, <1>4 DEF SigningKey, sk_try_from
<1>6. vk_to_bytes(SigningKey.verifying_key) = <<c, d>>
  BY <1>5 DEF vk_to_bytes
<1>7. VerifyingKey = [pk_seed |-> c, pk_root |-> d]
  BY <1>4, <1>6 DEF VerifyingKey
<1> QED
  BY <1>7 DEF d

\* A pass of the loop of ht_verify.
VerifyStep(sig, j, below) ==
  LET tree == next_tree(below.tree)
  IN  [tree |-> tree,
       root |-> xmss_pk_from_sig(next_leaf(below.tree), sig[j + 1], below.root, AtLayer(j, tree))]
Verify == INSTANCE Recursion WITH Step <- VerifyStep

\* ht_verify is the loop that makes them.
LEMMA VerifyFollows ==
  ASSUME NEW m, NEW sig, NEW tree, NEW leaf, NEW root
  PROVE  \E v : /\ v[0] = [tree |-> tree,
                           root |-> xmss_pk_from_sig(leaf, sig[1], m, AtLayer(0, tree))]
                /\ \A j \in 1 .. (P.D - 1) : v[j] = VerifyStep(sig, j, v[j - 1])
                /\ ht_verify(m, sig, tree, leaf, root) <=> (v[P.D - 1].root = root)
<1> DEFINE n == P.D - 1
           first == [tree |-> tree, root |-> xmss_pk_from_sig(leaf, sig[1], m, AtLayer(0, tree))]
<1>1. n \in Nat /\ 0 <= n /\ 0 \in Nat
  BY Numbers
<1>2. PICK g : Verify!Solves(g, sig, first, 0, n)
  <2> HIDE DEF n, first
  <2> QED
    BY <1>1, Verify!RecursionExists
<1>3. g = [j \in 0 .. n |->
            IF j = 0 THEN [tree |-> tree,
                           root |-> xmss_pk_from_sig(leaf, sig[1], m, AtLayer(0, tree))]
            ELSE LET below == g[j - 1]
                     up    == next_tree(below.tree)
                 IN  [tree |-> up,
                      root |-> xmss_pk_from_sig(next_leaf(below.tree), sig[j + 1], below.root,
                                                AtLayer(j, up))]]
  BY <1>2 DEF Verify!Solves, VerifyStep
<1> DEFINE v == CHOOSE upTo : upTo =
          [j \in 0 .. n |->
            IF j = 0 THEN [tree |-> tree,
                           root |-> xmss_pk_from_sig(leaf, sig[1], m, AtLayer(0, tree))]
            ELSE LET below == upTo[j - 1]
                     up    == next_tree(below.tree)
                 IN  [tree |-> up,
                      root |-> xmss_pk_from_sig(next_leaf(below.tree), sig[j + 1], below.root,
                                                AtLayer(j, up))]]
<1>4. v = [j \in 0 .. n |->
            IF j = 0 THEN [tree |-> tree,
                           root |-> xmss_pk_from_sig(leaf, sig[1], m, AtLayer(0, tree))]
            ELSE LET below == v[j - 1]
                     up    == next_tree(below.tree)
                 IN  [tree |-> up,
                      root |-> xmss_pk_from_sig(next_leaf(below.tree), sig[j + 1], below.root,
                                                AtLayer(j, up))]]
  BY <1>3
<1>5. ht_verify(m, sig, tree, leaf, root) <=> (v[n].root = root)
  BY DEF ht_verify
<1> HIDE DEF v, first
<1>6. v = [j \in 0 .. n |-> IF j = 0 THEN first ELSE VerifyStep(sig, j, v[j - 1])]
  BY <1>4 DEF VerifyStep, first
<1> HIDE DEF n
<1>7. v[0] = first /\ \A j \in 1 .. n : v[j] = VerifyStep(sig, j, v[j - 1])
  <2>1. v[0] = first
    BY <1>1, <1>6
  <2>2. ASSUME NEW j \in 1 .. n
        PROVE  v[j] = VerifyStep(sig, j, v[j - 1])
    <3>1. j \in 0 .. n /\ j # 0
      BY <1>1
    <3> QED
      BY <1>6, <3>1, Zenon
  <2> QED
    BY <2>1, <2>2
<1> QED
  BY <1>5, <1>7 DEF n, first

\* The address of the top tree.
LEMMA TopTree == AtLayer(P.D - 1, 0) = [DefaultWotsHash EXCEPT !.layer_adrs = P.D - 1]
<1> DEFINE n == P.D - 1
           R == [layer_adrs : Nat, tree_adrs_low : Nat, type_const : Nat,
                 key_pair_adrs : Nat, chain_adrs : Nat, hash_adrs : Nat]
           a == AtLayer(n, 0)
           b == [DefaultWotsHash EXCEPT !.layer_adrs = n]
<1>1. n \in Nat /\ 0 \in Nat
  BY Numbers
<1>2. DefaultWotsHash \in R
  BY DEF DefaultWotsHash, WotsHash
<1> HIDE DEF n
<1>3. a \in R /\ b \in R
  BY <1>1, <1>2 DEF AtLayer
<1>4. /\ a.layer_adrs = b.layer_adrs /\ a.tree_adrs_low = b.tree_adrs_low
      /\ a.type_const = b.type_const /\ a.key_pair_adrs = b.key_pair_adrs
      /\ a.chain_adrs = b.chain_adrs /\ a.hash_adrs = b.hash_adrs
  BY DEF AtLayer, DefaultWotsHash
<1> HIDE DEF a, b
<1>5. a = [layer_adrs |-> a.layer_adrs, tree_adrs_low |-> a.tree_adrs_low,
           type_const |-> a.type_const, key_pair_adrs |-> a.key_pair_adrs,
           chain_adrs |-> a.chain_adrs, hash_adrs |-> a.hash_adrs]
  BY <1>3
<1>6. b = [layer_adrs |-> b.layer_adrs, tree_adrs_low |-> b.tree_adrs_low,
           type_const |-> b.type_const, key_pair_adrs |-> b.key_pair_adrs,
           chain_adrs |-> b.chain_adrs, hash_adrs |-> b.hash_adrs]
  BY <1>3
<1> QED
  BY <1>4, <1>5, <1>6 DEF a, b, n

\* A verifier that goes up through the layers of a signer comes to the root of
\* the top tree (hypertree.rs).
THEOREM HypertreeOpens ==
  ASSUME NEW m, IsValue(m), NEW tree \in Nat, tree < 2^(P.H - P.HPrime),
         NEW leaf \in Nat, leaf < 2^P.HPrime
  PROVE  ht_verify(m, ht_sign(m, tree, leaf), tree, leaf, pk_root)
<1> DEFINE L == ht_layers(m, tree, leaf)
           sig == ht_sign(m, tree, leaf)
           n == P.D - 1
<1>1. /\ L[1] = SignedLayer(0, tree, leaf, m)
      /\ \A j \in 2 .. P.D : L[j] = LayerStep(0, j - 1, L[j - 1])
  BY LayersFollow
<1>2. (\A j \in 1 .. P.D : GoodLayer(L[j], j)) /\ L[P.D].tree = 0
  BY LayersOpen
<1>3. \A j \in 1 .. P.D : sig[j] = L[j].sig
  BY DEF ht_sign
<1>4. P.D \in Nat \ {0} /\ n \in Nat /\ n + 1 = P.D
  BY Numbers
<1>5. PICK v : /\ v[0] = [tree |-> tree,
                          root |-> xmss_pk_from_sig(leaf, sig[1], m, AtLayer(0, tree))]
               /\ \A j \in 1 .. n : v[j] = VerifyStep(sig, j, v[j - 1])
               /\ ht_verify(m, sig, tree, leaf, pk_root) <=> (v[n].root = pk_root)
  BY VerifyFollows
<1> HIDE DEF L, sig, n
<1> DEFINE Root(l, j) == xmss_pk_from_sig(l.leaf, l.sig, l.m, AtLayer(j, l.tree))
           Meets(j) == v[j].tree = L[j + 1].tree /\ v[j].root = Root(L[j + 1], j)
           T == {j \in 0 .. n : Meets(j)}
<1>6. 0 \in T
  <2>1. /\ L[1].tree = tree /\ L[1].leaf = leaf /\ L[1].m = m
    BY <1>1, LayerParts
  <2>2. sig[1] = L[1].sig
    BY <1>3, <1>4
  <2>3. v[0].tree = tree /\ v[0].root = xmss_pk_from_sig(leaf, sig[1], m, AtLayer(0, tree))
    BY <1>5
  <2>4. Root(L[1], 0) = xmss_pk_from_sig(leaf, sig[1], m, AtLayer(0, tree))
    BY <2>1, <2>2
  <2> HIDE DEF Root
  <2>5. 0 + 1 = 1 /\ 0 \in 0 .. n
    BY <1>4
  <2>6. Meets(0)
    BY <2>1, <2>3, <2>4, <2>5
  <2> HIDE DEF Meets
  <2> QED
    BY <2>5, <2>6
<1>7. ASSUME NEW j \in (0 + 1) .. n, j - 1 \in T
      PROVE  j \in T
  <2> DEFINE i == j + 1
             x == L[j]
             y == L[i]
             low == v[j - 1]
  <2>1. /\ j \in 1 .. n /\ j \in 1 .. P.D /\ i \in 2 .. P.D /\ i \in 1 .. P.D /\ i - 1 = j
        /\ (j - 1) + 1 = j /\ j \in 0 .. n
    BY <1>4
  <2>2. low.tree = x.tree /\ low.root = Root(x, j - 1)
    <3>1. Meets(j - 1)
      BY <1>7
    <3> QED
      BY <2>1, <3>1
  <2> DEFINE r == xmss_pk_from_sig(x.leaf, x.sig, x.m, AtLayer(j - 1, x.tree))
  <2>3. low.root = r
    BY <2>2
  <2>4. y = LayerStep(0, j, x)
    BY <1>1, <2>1
  <2>5. y = SignedLayer(j, next_tree(x.tree), next_leaf(x.tree), r)
    BY <2>4 DEF LayerStep
  <2>6. v[j] = VerifyStep(sig, j, low)
    BY <1>5, <2>1
  <2>7. sig[i] = y.sig
    BY <1>3, <2>1
  <2> HIDE DEF x, y, low, r, Root
  <2>8. y.tree = next_tree(x.tree) /\ y.leaf = next_leaf(x.tree) /\ y.m = r
    BY <2>5, LayerParts
  <2>9. v[j] = [tree |-> next_tree(x.tree),
                root |-> xmss_pk_from_sig(next_leaf(x.tree), sig[i], r,
                                          AtLayer(j, next_tree(x.tree)))]
    BY <2>2, <2>3, <2>6 DEF VerifyStep
  <2>10. v[j].tree = y.tree /\ v[j].root = Root(y, j)
    BY <2>7, <2>8, <2>9 DEF Root
  <2>11. Meets(j)
    BY <2>10 DEF y
  <2> HIDE DEF Meets
  <2> QED
    BY <2>1, <2>11
<1>8. \A j \in 0 .. n : j \in T
  <2>1. 0 \in Nat /\ n \in Nat
    BY <1>4
  <2> HIDE DEF T
  <2> QED
    BY <1>6, <1>7, <2>1, Verify!IntervalInduction
<1>9. Meets(n)
  <2>1. n \in 0 .. n
    BY <1>4
  <2> QED
    BY <1>8, <2>1
<1>10. v[n].root = Root(L[P.D], n)
  BY <1>4, <1>9
<1>11. Root(L[P.D], n) = xmss_node(0, P.HPrime, AtLayer(n, 0))
  <2> DEFINE l == L[P.D]
  <2>1. GoodLayer(l, P.D) /\ P.D \in 1 .. P.D /\ l.tree = 0 /\ n = P.D - 1
    BY <1>2, <1>4
  <2> HIDE DEF l
  <2>2. Root(l, n) = xmss_node(0, P.HPrime, AtLayer(n, l.tree))
    BY <2>1, GoodLayerOpens
  <2> QED
    BY <2>1, <2>2 DEF l
<1>12. pk_root = xmss_node(0, P.HPrime, AtLayer(n, 0))
  BY TopTree DEF pk_root, n
<1> QED
  BY <1>5, <1>10, <1>11, <1>12 DEF sig

\* What signs is a signature.
LEMMA SignMakes ==
  ASSUME NEW d
  PROVE  \E S : slh_sign(d) \in Signatures(S)
<1> DEFINE s == split_digest(P, d)
           adrs == NewForsTree(s.idx_tree, s.idx_leaf)
           F == fors_sign(s.md, adrs)
           pk == fors_pk_from_sig(F, s.md, adrs)
           H == ht_sign(pk, s.idx_tree, s.idx_leaf)
           r == prf_msg(d)
           S == {r} \cup {F[i].sk : i \in 1 .. P.K} \cup {F[i].auth[j] : i \in 1 .. P.K, j \in 1 .. P.A}
                  \cup {H[i].sig[j] : i \in 1 .. P.D, j \in 1 .. P.WotsSigLen}
                  \cup {H[i].auth[j] : i \in 1 .. P.D, j \in 1 .. P.HPrime}
<1>1. slh_sign(d) = [randomizer |-> r, fors_sig |-> F, ht_sig |-> H]
  BY DEF slh_sign
<1>2. \E sk, auth : F = [i \in 1 .. P.K |-> [sk |-> sk[i], auth |-> [j \in 1 .. P.A |-> auth[i][j]]]]
  <2> DEFINE indices == base_2b(s.md, P.K, P.A)
             sk == [i \in 1 .. P.K |-> fors_sk_gen(adrs, (i - 1) * 2^P.A + indices[i])]
             auth == [i \in 1 .. P.K |-> [j \in 1 .. P.A |->
                       fors_node((i - 1) * 2^(P.A - j + 1) + Sibling(indices[i] \div 2^(j - 1)), j - 1, adrs)]]
  <2>1. F = [i \in 1 .. P.K |->
              [sk   |-> fors_sk_gen(adrs, (i - 1) * 2^P.A + indices[i]),
               auth |-> [j \in 1 .. P.A |->
                          fors_node((i - 1) * 2^(P.A - j + 1) + Sibling(indices[i] \div 2^(j - 1)),
                                    j - 1, adrs)]]]
    BY DEF fors_sign
  <2> HIDE DEF F, indices, adrs
  <2>2. \A i \in 1 .. P.K : sk[i] = fors_sk_gen(adrs, (i - 1) * 2^P.A + indices[i])
    OBVIOUS
  <2>3. \A i \in 1 .. P.K : \A j \in 1 .. P.A :
          auth[i][j] = fors_node((i - 1) * 2^(P.A - j + 1) + Sibling(indices[i] \div 2^(j - 1)), j - 1, adrs)
    OBVIOUS
  <2> HIDE DEF sk, auth
  <2>4. F = [i \in 1 .. P.K |-> [sk |-> sk[i], auth |-> [j \in 1 .. P.A |-> auth[i][j]]]]
    BY <2>1, <2>2, <2>3, Zenon
  <2> QED
    BY <2>4
<1>3. \E sig, auth : H = [i \in 1 .. P.D |-> [sig  |-> [j \in 1 .. P.WotsSigLen |-> sig[i][j]],
                                              auth |-> [j \in 1 .. P.HPrime |-> auth[i][j]]]]
  <2> DEFINE L == ht_layers(pk, s.idx_tree, s.idx_leaf)
             own(i) == [AtLayer(i - 1, L[i].tree) EXCEPT !.key_pair_adrs = L[i].leaf]
             sig == [i \in 1 .. P.D |-> wots_sign(L[i].m, own(i))]
             auth == [i \in 1 .. P.D |-> [j \in 1 .. P.HPrime |->
                       xmss_node(Sibling(L[i].leaf \div 2^(j - 1)), j - 1, own(i))]]
  <2>1. H = [i \in 1 .. P.D |-> L[i].sig]
    BY DEF ht_sign
  <2>2. ASSUME NEW i \in 1 .. P.D
        PROVE  L[i].sig = [sig  |-> wots_sign(L[i].m, own(i)),
                           auth |-> [j \in 1 .. P.HPrime |->
                                      xmss_node(Sibling(L[i].leaf \div 2^(j - 1)), j - 1, own(i))]]
    <3>1. \E k, a, b, c : L[i] = SignedLayer(k, a, b, c) /\ k = i - 1
      <4>1. L[1] = SignedLayer(0, s.idx_tree, s.idx_leaf, pk)
        BY LayersFollow
      <4>2. \A j \in 2 .. P.D : L[j] = LayerStep(0, j - 1, L[j - 1])
        BY LayersFollow
      <4> HIDE DEF L, pk
      <4>3. CASE i = 1
        BY <4>1, <4>3
      <4>4. CASE i # 1
        <5>1. i \in 2 .. P.D
          BY <4>4, Numbers
        <5>2. L[i] = LayerStep(0, i - 1, L[i - 1])
          BY <4>2, <5>1
        <5> QED
          BY <5>2 DEF LayerStep
      <4> QED
        BY <4>3, <4>4
    <3>2. L[i].sig = xmss_sign(L[i].m, L[i].leaf, AtLayer(i - 1, L[i].tree))
      <4> HIDE DEF L
      <4> QED
        BY <3>1, LayerParts
    <3> HIDE DEF L
    <3> QED
      BY <3>2 DEF xmss_sign
  <2>3. \A i \in 1 .. P.D : sig[i] = [j \in 1 .. P.WotsSigLen |-> sig[i][j]]
    BY DEF wots_sign, Chains
  <2> HIDE DEF H, L
  <2>4. \A i \in 1 .. P.D : wots_sign(L[i].m, own(i)) = sig[i]
    OBVIOUS
  <2>5. \A i \in 1 .. P.D : \A j \in 1 .. P.HPrime :
          auth[i][j] = xmss_node(Sibling(L[i].leaf \div 2^(j - 1)), j - 1, own(i))
    OBVIOUS
  <2> HIDE DEF sig, auth, own
  <2>6. H = [i \in 1 .. P.D |-> [sig  |-> [j \in 1 .. P.WotsSigLen |-> sig[i][j]],
                                 auth |-> [j \in 1 .. P.HPrime |-> auth[i][j]]]]
    <3>1. ASSUME NEW i \in 1 .. P.D
          PROVE  L[i].sig = [sig  |-> [j \in 1 .. P.WotsSigLen |-> sig[i][j]],
                             auth |-> [j \in 1 .. P.HPrime |-> auth[i][j]]]
      <4>1. wots_sign(L[i].m, own(i)) = [j \in 1 .. P.WotsSigLen |-> sig[i][j]]
        BY <2>3, <2>4, Zenon
      <4>2. [j \in 1 .. P.HPrime |-> xmss_node(Sibling(L[i].leaf \div 2^(j - 1)), j - 1, own(i))]
              = [j \in 1 .. P.HPrime |-> auth[i][j]]
        BY <2>5
      <4> QED
        BY <2>2, <4>1, <4>2, Zenon
    <3> QED
      BY <2>1, <3>1, Zenon
  <2> QED
    BY <2>6
<1> HIDE DEF F, H, r
<1>4. F \in [1 .. P.K -> ForsParts(S)]
  <2>1. PICK sk, auth :
          F = [i \in 1 .. P.K |-> [sk |-> sk[i], auth |-> [j \in 1 .. P.A |-> auth[i][j]]]]
    BY <1>2
  <2>2. ASSUME NEW i \in 1 .. P.K
        PROVE  F[i] \in ForsParts(S)
    <3>1. F[i].sk \in S /\ \A j \in 1 .. P.A : F[i].auth[j] \in S
      OBVIOUS
    <3>2. F[i] = [sk |-> sk[i], auth |-> [j \in 1 .. P.A |-> auth[i][j]]]
      BY <2>1
    <3> HIDE DEF S
    <3> QED
      BY <3>1, <3>2 DEF ForsParts
  <2> HIDE DEF S
  <2> QED
    BY <2>1, <2>2
<1>5. H \in [1 .. P.D -> XmssParts(S)]
  <2>1. PICK sig, auth :
          H = [i \in 1 .. P.D |-> [sig  |-> [j \in 1 .. P.WotsSigLen |-> sig[i][j]],
                                   auth |-> [j \in 1 .. P.HPrime |-> auth[i][j]]]]
    BY <1>3
  <2>2. ASSUME NEW i \in 1 .. P.D
        PROVE  H[i] \in XmssParts(S)
    <3>1. /\ \A j \in 1 .. P.WotsSigLen : H[i].sig[j] \in S
          /\ \A j \in 1 .. P.HPrime : H[i].auth[j] \in S
      OBVIOUS
    <3>2. H[i] = [sig  |-> [j \in 1 .. P.WotsSigLen |-> sig[i][j]],
                  auth |-> [j \in 1 .. P.HPrime |-> auth[i][j]]]
      BY <2>1
    <3> HIDE DEF S
    <3>3. /\ [j \in 1 .. P.WotsSigLen |-> sig[i][j]] \in [1 .. P.WotsSigLen -> S]
          /\ [j \in 1 .. P.HPrime |-> auth[i][j]] \in [1 .. P.HPrime -> S]
      <4> DEFINE a == [j \in 1 .. P.WotsSigLen |-> sig[i][j]]
                 b == [j \in 1 .. P.HPrime |-> auth[i][j]]
      <4>1. /\ \A j \in 1 .. P.WotsSigLen : a[j] = sig[i][j]
            /\ \A j \in 1 .. P.HPrime : b[j] = auth[i][j]
        OBVIOUS
      <4> HIDE DEF a, b
      <4>2. H[i].sig = a /\ H[i].auth = b
        BY <3>2 DEF a, b
      <4>3. /\ \A j \in 1 .. P.WotsSigLen : sig[i][j] \in S
            /\ \A j \in 1 .. P.HPrime : auth[i][j] \in S
        BY <3>1, <4>1, <4>2
      <4> QED
        BY <4>3
    <3> QED
      BY <3>2, <3>3 DEF XmssParts
  <2> HIDE DEF S
  <2> QED
    BY <2>1, <2>2
<1>6. r \in S
  OBVIOUS
<1> HIDE DEF S
<1>7. slh_sign(d) \in Signatures(S)
  BY <1>1, <1>4, <1>5, <1>6 DEF Signatures
<1> QED
  BY <1>7

\* A signature verifies for every message that leads to the same leaves
\* (signing_key.rs:150, verifying_key.rs:74).
THEOREM SlhVerifies ==
  ASSUME NEW d \in Digests, NEW e \in Digests, Path(e) = Path(d)
  PROVE  slh_verify(e, slh_sign(d))
<1> DEFINE s1 == split_digest(P, d)
           s2 == split_digest(P, e)
           tree == s1.idx_tree
           leaf == s1.idx_leaf
           adrs == NewForsTree(tree, leaf)
           F == fors_sign(s1.md, adrs)
           pk == fors_pk_from_sig(F, s1.md, adrs)
<1>1. slh_sign(d) = [randomizer |-> prf_msg(d), fors_sig |-> F, ht_sig |-> ht_sign(pk, tree, leaf)]
  BY DEF slh_sign
<1>2. base_2b(s1.md, P.K, P.A) = base_2b(s2.md, P.K, P.A) /\ s2.idx_tree = tree /\ s2.idx_leaf = leaf
  BY DEF Path
<1>3. fors_pk_from_sig(F, s2.md, adrs) = pk
  <2> HIDE DEF F, adrs, s1, s2
  <2> QED
    BY <1>2 DEF fors_pk_from_sig
<1>4. slh_verify(e, slh_sign(d)) <=>
        ht_verify(fors_pk_from_sig(F, s2.md, NewForsTree(s2.idx_tree, s2.idx_leaf)),
                  ht_sign(pk, tree, leaf), s2.idx_tree, s2.idx_leaf, VerifyingKey.pk_root)
  <2> HIDE DEF pk, F
  <2> QED
    BY <1>1 DEF slh_verify
<1>5. slh_verify(e, slh_sign(d)) <=> ht_verify(pk, ht_sign(pk, tree, leaf), tree, leaf, pk_root)
  <2> HIDE DEF pk, F, s1, s2
  <2> QED
    BY <1>2, <1>3, <1>4, KeyRead
<1>6. IsValue(pk)
  BY ForsSigned
<1>7. tree \in Nat /\ tree < 2^(P.H - P.HPrime) /\ leaf \in Nat /\ leaf < 2^P.HPrime
  BY SplitDigest
<1> HIDE DEF pk, tree, leaf
<1>8. ht_verify(pk, ht_sign(pk, tree, leaf), tree, leaf, pk_root)
  BY <1>6, <1>7, HypertreeOpens
<1> QED
  BY <1>5, <1>8

\* A signature that arrives as it was sent is accepted for every message that leads
\* to the same leaves.
THEOREM HonestAccepted == Spec => []HonestVerifies
<1>1. ASSUME SignedInv, verdict # None, received = sent, Path(presented) = Path(digest)
      PROVE  verdict = "ok"
  <2>1. /\ sent # None /\ digest \in Digests /\ presented \in Digests
        /\ received = to_bytes(slh_sign(digest))
        /\ verdict = IF Parses(received) /\ slh_verify(presented, from_bytes(received))
                     THEN "ok" ELSE "err"
    BY <1>1 DEF SignedInv
  <2>2. Parses(received) /\ from_bytes(received) = slh_sign(digest)
    <3> DEFINE sig == slh_sign(digest)
    <3>1. \E S : sig \in Signatures(S)
      BY SignMakes
    <3>2. received = to_bytes(sig)
      BY <2>1
    <3> HIDE DEF sig
    <3>3. Parses(to_bytes(sig)) /\ from_bytes(to_bytes(sig)) = sig
      BY <3>1, SignatureBytes
    <3> QED
      BY <3>2, <3>3 DEF sig
  <2>3. slh_verify(presented, slh_sign(digest))
    BY <1>1, <2>1, SlhVerifies
  <2> QED
    BY <2>1, <2>2, <2>3
<1>2. SignedInv => HonestVerifies
  BY <1>1 DEF HonestVerifies
<1> QED
  BY <1>2, SignedAlways, PTL

-----------------------------------------------------------------------------
(* What digits and trees are of the digest (util.rs:5-50).                  *)

\* The number that digits of B bits make.
ValueStep(e, i, v) == v * 2^e.B + e.digits[i]
Value == INSTANCE Recursion WITH Step <- ValueStep

\* It is the leading bits of the bytes the digits were cut from.
LEMMA LeadingBits ==
  ASSUME NEW x \in Seq(Byte), NEW OutLen \in Nat, NEW B \in Nat \ {0},
         OutLen * B <= 8 * Len(x), NEW g,
         LET digits == base_2b(x, OutLen, B)
         IN  g[0] = 0 /\ \A i \in 1 .. OutLen : g[i] = g[i - 1] * 2^B + digits[i]
  PROVE  g[OutLen] = from_be_bytes(x) \div 2^(8 * Len(x) - OutLen * B)
<1> DEFINE digits == base_2b(x, OutLen, B)
           V == from_be_bytes(x)
           w == 2^B
           L == 8 * Len(x)
           Place(i) == L - i * B
<1>1. g[0] = 0 /\ \A i \in 1 .. OutLen : g[i] = g[i - 1] * w + digits[i]
  OBVIOUS
<1>2. \A j \in 1 .. OutLen : digits[j] = (V \div 2^Place(j)) % w
  BY DigitsAre
<1>3. V \in Nat /\ w \in Nat /\ w > 0 /\ L \in Nat
  <2>1. V \in Nat
    BY FromBytesType
  <2>2. w \in Nat /\ w > 0
    BY PowerType
  <2> QED
    BY <2>1, <2>2
<1>4. V < 2^L
  <2>1. PICK v : Prefixes(v, x) /\ V = v[Len(x)]
    BY FromBytes
  <2>2. Len(x) \in 0 .. Len(x)
    OBVIOUS
  <2> QED
    BY <2>1, <2>2, PrefixBound
<1>5. \A i \in 0 .. OutLen : Place(i) \in Nat /\ (i > 0 => Place(i - 1) = Place(i) + B)
  <2> TAKE i \in 0 .. OutLen
  <2>1. i * B \in Nat /\ OutLen * B \in Nat /\ i * B <= OutLen * B /\ (i - 1) * B = i * B - B
    <3>1. i \in Nat /\ OutLen - i \in Nat
      OBVIOUS
    <3>2. OutLen * B = i * B + (OutLen - i) * B /\ (OutLen - i) * B \in Nat /\ i * B \in Nat
      BY <3>1
    <3>3. (i - 1) * B = i * B - B
      BY <3>1
    <3> DEFINE a == i * B
               b == (OutLen - i) * B
               c == OutLen * B
    <3>4. a \in Nat /\ b \in Nat /\ c = a + b
      BY <3>2
    <3> HIDE DEF a, b, c
    <3>5. c \in Nat /\ a <= c
      BY <3>4
    <3> QED
      BY <3>3, <3>4, <3>5 DEF a, c
  <2> DEFINE a == i * B
             b == (i - 1) * B
             c == OutLen * B
  <2>2. a \in Nat /\ c \in Nat /\ a <= c /\ b = a - B /\ c <= L
    BY <2>1
  <2> HIDE DEF a, b, c, L
  <2>3. L - a \in Nat /\ L - b = (L - a) + B
    BY <1>3, <2>2
  <2> QED
    BY <2>3 DEF a, b
<1> HIDE DEF digits, V, w, L
<1> DEFINE T == {i \in 0 .. OutLen : g[i] = V \div 2^Place(i)}
<1>6. 0 \in T
  <2>1. Place(0) = L /\ 0 \in 0 .. OutLen
    BY <1>3
  <2> DEFINE q == 2^L
  <2>2. q \in Nat /\ V < q /\ q > 0
    BY <1>3, <1>4, PowerType
  <2> HIDE DEF q
  <2>3. V \div q = 0
    BY <1>3, <2>2
  <2> QED
    BY <1>1, <2>1, <2>3 DEF q
<1> HIDE DEF Place
<1>7. ASSUME NEW i \in (0 + 1) .. OutLen, i - 1 \in T
      PROVE  i \in T
  <2> DEFINE e == Place(i)
             q == 2^e
             a == V \div q
  <2>1. i \in 1 .. OutLen /\ i \in 0 .. OutLen /\ e \in Nat /\ Place(i - 1) = e + B
    <3>1. i \in 1 .. OutLen /\ i \in 0 .. OutLen /\ i > 0
      OBVIOUS
    <3> QED
      BY <1>5, <3>1
  <2>2. q \in Nat /\ q > 0 /\ 2^(e + B) = q * w
    <3> HIDE DEF e
    <3> QED
      BY <2>1, PowerType, PowerSum DEF w
  <2>3. g[i - 1] = V \div (q * w)
    BY <1>7, <2>1, <2>2
  <2>4. digits[i] = a % w /\ g[i] = g[i - 1] * w + digits[i]
    BY <1>1, <1>2, <2>1
  <2> HIDE DEF q
  <2>5. a \div w = V \div (q * w)
    <3>1. V \in Nat /\ q \in Nat /\ q > 0 /\ w \in Nat /\ w > 0
      BY <1>3, <2>2
    <3>2. /\ (V \div q) \div w = V \div (q * w)
          /\ (V % (q * w)) \div q = (V \div q) % w
          /\ (V % (q * w)) % q = V % q
      BY <3>1, DivideTwice, ZenonT(30)
    <3> QED
      BY <3>2
  <2>6. a \in Nat
    BY <1>3, <2>2, Divides
  <2> HIDE DEF a
  <2>7. a \div w \in Nat /\ a % w \in 0 .. (w - 1) /\ a = w * (a \div w) + (a % w)
    BY <1>3, <2>6, Divides
  <2> DEFINE c == a \div w
             d == a % w
  <2>8. c \in Nat /\ d \in Int /\ a = w * c + d /\ g[i] = c * w + d
    BY <2>3, <2>4, <2>5, <2>7
  <2> HIDE DEF c, d
  <2>9. g[i] = a
    BY <1>3, <2>8
  <2> QED
    BY <2>1, <2>9 DEF a, q
<1>8. \A i \in 0 .. OutLen : i \in T
  <2> HIDE DEF T
  <2> QED
    BY <1>6, <1>7, Value!IntervalInduction
<1>9. g[OutLen] = V \div 2^Place(OutLen)
  BY <1>8
<1> QED
  BY <1>9 DEF V, L, Place

\* The first OutLen digits of a digest make its leading bits.
LEMMA DigitsMake ==
  ASSUME NEW x \in Seq(Byte), NEW B \in 1 .. 16
  PROVE  LET OutLen == (8 * Len(x)) \div B
         IN  LET digits == base_2b(x, OutLen, B)
                 value[i \in 0 .. OutLen] ==
                   IF i = 0 THEN 0 ELSE value[i - 1] * 2^B + digits[i]
             IN  /\ \A i \in 1 .. OutLen : digits[i] \in 0 .. (2^B - 1)
                 /\ value[OutLen] = from_be_bytes(x) \div 2^(8 * Len(x) - OutLen * B)
<1> DEFINE OutLen == (8 * Len(x)) \div B
           digits == base_2b(x, OutLen, B)
           value[i \in 0 .. OutLen] == IF i = 0 THEN 0 ELSE value[i - 1] * 2^B + digits[i]
<1>1. B \in Nat \ {0} /\ OutLen \in Nat /\ OutLen * B <= 8 * Len(x) /\ 0 <= OutLen /\ 0 \in Nat
  <2> DEFINE L == 8 * Len(x)
             d == B
  <2>1. L \in Nat /\ d \in Nat /\ d > 0
    OBVIOUS
  <2> HIDE DEF L, d
  <2>2. L \div d \in Nat /\ L % d \in 0 .. (d - 1) /\ L = d * (L \div d) + (L % d)
    BY <2>1, Divides
  <2> DEFINE q == L \div d
             r == L % d
  <2>3. q \in Nat /\ r \in Nat /\ L = d * q + r
    BY <2>1, <2>2
  <2> HIDE DEF q, r
  <2>4. q * d <= L
    <3>1. q * d = d * q /\ d * q \in Nat
      BY <2>1, <2>3
    <3> DEFINE z == d * q
    <3>2. z \in Nat /\ L = z + r /\ q * d = z
      BY <2>3, <3>1
    <3> HIDE DEF z
    <3>3. z <= L
      BY <2>3, <3>2
    <3> QED
      BY <3>2, <3>3
  <2> QED
    BY <2>1, <2>3, <2>4 DEF L, d, q
<1>2. digits \in Seq(0 .. (2^B - 1)) /\ Len(digits) = OutLen
  <2> HIDE DEF OutLen
  <2> QED
    BY <1>1, DigitsType
<1>3. \A i \in 1 .. OutLen : digits[i] \in 0 .. (2^B - 1)
  <2> DEFINE R == 0 .. (2^B - 1)
  <2>1. digits \in Seq(R) /\ Len(digits) = OutLen
    BY <1>2
  <2> HIDE DEF R, digits, OutLen
  <2>2. \A i \in 1 .. OutLen : digits[i] \in R
    BY <2>1, SeqElement
  <2> QED
    BY <2>2 DEF R
<1> DEFINE e == [B |-> B, digits |-> digits]
<1>4. PICK g : Value!Solves(g, e, 0, 0, OutLen)
  <2> HIDE DEF OutLen, e
  <2> QED
    BY <1>1, Value!RecursionExists
<1>5. e.B = B /\ e.digits = digits
  OBVIOUS
<1>6. g = [i \in 0 .. OutLen |-> IF i = 0 THEN 0 ELSE g[i - 1] * 2^B + digits[i]]
  <2> HIDE DEF e, digits, OutLen
  <2> QED
    BY <1>4, <1>5 DEF Value!Solves, ValueStep
<1>7. value = [i \in 0 .. OutLen |-> IF i = 0 THEN 0 ELSE value[i - 1] * 2^B + digits[i]]
  <2> HIDE DEF digits, OutLen
  <2> QED
    BY <1>6
<1> HIDE DEF value
<1>8. value[0] = 0 /\ \A i \in 1 .. OutLen : value[i] = value[i - 1] * 2^B + digits[i]
  <2> HIDE DEF digits, OutLen
  <2>1. \A i \in 1 .. OutLen : i \in 0 .. OutLen /\ i # 0
    BY <1>1
  <2>2. 0 \in 0 .. OutLen
    BY <1>1
  <2> QED
    BY <1>7, <2>1, <2>2, Zenon
<1>9. value[OutLen] = from_be_bytes(x) \div 2^(8 * Len(x) - OutLen * B)
  <2> HIDE DEF OutLen
  <2> QED
    BY <1>1, <1>8, LeadingBits
<1> QED
  BY <1>3, <1>9 DEF value

\* The bytes up to the end of a part are those before it and then the part.
LEMMA PartFollows ==
  ASSUME NEW x \in Seq(Byte), NEW from \in Nat, NEW size \in Nat, from + size <= Len(x),
         NEW v, Prefixes(v, x),
         NEW u, Prefixes(u, SubSeq(x, from + 1, from + size))
  PROVE  v[from + size] = v[from] * 2^(8 * size) + u[size]
<1> DEFINE part == SubSeq(x, from + 1, from + size)
           T == {i \in 0 .. size : v[from + i] = v[from] * 2^(8 * i) + u[i]}
<1>1. Len(part) = size /\ \A i \in 1 .. size : part[i] = x[from + i] /\ part[i] \in Nat
  <2>1. Len(part) = size /\ part \in Seq(Byte)
    BY PartOfDigest
  <2>2. \A i \in 1 .. size : part[i] = x[from + i]
    OBVIOUS
  <2>3. \A i \in 1 .. size : part[i] \in Byte
    BY <2>1, SeqElement
  <2>4. Byte \subseteq Nat
    BY DEF Byte
  <2> QED
    BY <2>1, <2>2, <2>3, <2>4, Zenon
<1>2. /\ \A k \in 0 .. Len(x) : v[k] \in Nat
      /\ \A k \in 1 .. Len(x) : v[k] = 256 * v[k - 1] + x[k]
  BY DEF Prefixes
<1> HIDE DEF part
<1>3. /\ u[0] = 0 /\ \A i \in 0 .. size : u[i] \in Nat
      /\ \A i \in 1 .. size : u[i] = 256 * u[i - 1] + part[i]
  <2>1. Prefixes(u, part)
    BY DEF part
  <2> QED
    BY <1>1, <2>1 DEF Prefixes
<1>4. 0 \in T
  <2>1. 8 * 0 = 0 /\ 2^0 = 1 /\ from + 0 = from /\ 0 \in 0 .. size /\ v[from] \in Nat
    BY <1>2
  <2> QED
    BY <1>3, <2>1
<1>5. ASSUME NEW i \in (0 + 1) .. size, i - 1 \in T
      PROVE  i \in T
  <2> DEFINE b == 8 * (i - 1)
             w == 2^b
             k == from + i
  <2>1. /\ b \in Nat /\ 8 * i = b + 8 /\ i \in 1 .. size /\ i - 1 \in 0 .. size
        /\ k \in 1 .. Len(x) /\ k - 1 = from + (i - 1) /\ from \in 0 .. Len(x)
    OBVIOUS
  <2>2. w \in Nat /\ 2^(8 * i) = w * 256
    <3> HIDE DEF b
    <3> QED
      BY <2>1, PowerByte, PowerType
  <2>3. v[k] = 256 * v[k - 1] + part[i] /\ u[i] = 256 * u[i - 1] + part[i]
    <3>1. u[i] = 256 * u[i - 1] + part[i] /\ part[i] = x[k]
      BY <1>1, <1>3, <2>1
    <3> HIDE DEF k
    <3>2. v[k] = 256 * v[k - 1] + x[k]
      BY <1>2, <2>1
    <3> QED
      BY <3>1, <3>2
  <2>4. v[k - 1] = v[from] * w + u[i - 1]
    BY <1>5, <2>1
  <2> DEFINE y == v[from]
             y1 == v[k - 1]
             yk == v[k]
             z1 == u[i - 1]
             zi == u[i]
             c == part[i]
  <2>5. y \in Nat /\ z1 \in Nat /\ c \in Nat /\ yk = 256 * y1 + c /\ zi = 256 * z1 + c /\ y1 = y * w + z1
    <3>1. u[i - 1] \in Nat /\ part[i] \in Nat
      <4>1. i \in 1 .. size /\ i - 1 \in 0 .. size
        BY <2>1
      <4> QED
        BY <1>1, <1>3, <4>1
    <3>2. v[from] \in Nat
      BY <1>2, <2>1
    <3> HIDE DEF w, k
    <3> QED
      BY <2>3, <2>4, <3>1, <3>2
  <2> HIDE DEF w, y, y1, yk, z1, zi, c
  <2>6. yk = y * (w * 256) + zi
    BY <2>2, <2>5
  <2> QED
    BY <2>1, <2>2, <2>6 DEF y, yk, zi
<1> HIDE DEF T
<1>6. \A i \in 0 .. size : i \in T
  BY <1>4, <1>5, Bytes!IntervalInduction
<1> QED
  BY <1>6 DEF T

\* The number a part of the bytes makes: what is left of the whole without the
\* bytes after it, and without those before it.
LEMMA PartNumber ==
  ASSUME NEW x \in Seq(Byte), NEW from \in Nat, NEW size \in Nat, from + size <= Len(x)
  PROVE  LET part  == from_be_bytes(SubSeq(x, from + 1, from + size))
             whole == from_be_bytes(x) \div 2^(8 * (Len(x) - (from + size)))
         IN  part = whole % 2^(8 * size) /\ (from = 0 => part = whole)
<1> DEFINE seq == SubSeq(x, from + 1, from + size)
           part == from_be_bytes(seq)
           whole == from_be_bytes(x) \div 2^(8 * (Len(x) - (from + size)))
           d == 2^(8 * size)
<1>1. seq \in Seq(Byte) /\ Len(seq) = size
  BY PartOfDigest
<1>2. PICK v : Prefixes(v, x) /\ from_be_bytes(x) = v[Len(x)]
  BY FromBytes
<1>3. PICK u : Prefixes(u, seq) /\ part = u[size]
  <2> HIDE DEF seq
  <2> QED
    BY <1>1, FromBytes
<1>4. v[from + size] = v[from] * d + u[size]
  BY <1>2, <1>3, PartFollows
<1>5. whole = v[from + size]
  <2>1. from + size \in 0 .. Len(x) /\ Len(x) \in (from + size) .. Len(x)
    OBVIOUS
  <2> QED
    BY <1>2, <2>1, PrefixIs
<1>6. u[size] < d
  <2>1. size \in 0 .. Len(seq)
    BY <1>1
  <2> HIDE DEF seq
  <2> QED
    BY <1>1, <1>3, <2>1, PrefixBound
<1>7. v[from] \in Nat /\ u[size] \in Nat /\ (from = 0 => v[from] = 0)
  <2>1. from \in 0 .. Len(x) /\ size \in 0 .. Len(seq)
    BY <1>1
  <2> HIDE DEF seq
  <2> QED
    BY <1>2, <1>3, <2>1 DEF Prefixes
<1>8. d \in Nat /\ d > 0
  BY PowerType
<1> DEFINE q == v[from]
           r == u[size]
<1>9. q \in Nat /\ r \in Nat /\ r < d /\ whole = q * d + r /\ part = r /\ (from = 0 => q = 0)
  BY <1>3, <1>4, <1>5, <1>6, <1>7
<1> HIDE DEF q, r, d, part, whole
<1>10. r \in 0 .. (d - 1) /\ q * d + r = d * q + r
  BY <1>8, <1>9
<1>11. (d * q + r) % d = r
  BY <1>8, <1>9, <1>10, DivideUnique
<1>12. part = whole % d
  BY <1>9, <1>10, <1>11
<1>13. from = 0 => part = whole
  BY <1>8, <1>9
<1> QED
  BY <1>12, <1>13 DEF part, whole, d

\* Of the trailing bits of a number, the trailing ones are those of the number.
LEMMA TrailingBits ==
  ASSUME NEW n \in Nat, NEW a \in Nat, NEW b \in Nat, a <= b
  PROVE  (n % 2^b) % 2^a = n % 2^a
<1> DEFINE k == b - a
           p == 2^a
           q == 2^k
<1>1. k \in Nat /\ b = a + k
  OBVIOUS
<1> HIDE DEF k
<1>2. p \in Nat /\ p > 0 /\ q \in Nat /\ q > 0 /\ 2^b = p * q
  BY <1>1, PowerType, PowerSum
<1> HIDE DEF p, q
<1>3. (n % (p * q)) % p = n % p
  BY <1>2, DivideTwice, ZenonT(30)
<1> QED
  BY <1>2, <1>3 DEF p

\* What split_digest makes of the number that a digest is (util.rs:25-50).
LEMMA SplitNumbers ==
  ASSUME NEW d \in Digests, NEW p \in SplitSets
  PROVE  LET s      == split_digest(p, d)
             number == from_be_bytes(d)
         IN  /\ s.idx_leaf = number % 2^p.HPrime
             /\ s.idx_tree = (number \div 2^(8 * LeafBytes(p))) % 2^(p.H - p.HPrime)
             /\ Len(s.md) = p.MD
             /\ from_be_bytes(s.md) = number \div 2^(8 * (TreeBytes(p) + LeafBytes(p)))
<1> DEFINE s == split_digest(p, d)
           number == from_be_bytes(d)
           tb == TreeBytes(p)
           lb == LeafBytes(p)
           th == p.H - p.HPrime
           m == p.MD
           trees == from_be_bytes(SubSeq(d, m + 1, m + tb))
           leaves == from_be_bytes(SubSeq(d, m + tb + 1, m + tb + lb))
<1>1. d \in Seq(Byte) /\ Len(d) = P.M
  BY SlhDsaAssumption DEF Byte
<1>2. th \in Nat /\ th <= WordBits /\ WordBits \in Nat /\ p.HPrime \in Nat /\ m \in Nat
  <2>1. P.H - P.HPrime \in Nat /\ P.H - P.HPrime <= WordBits /\ WordBits \in Nat
    BY TreeBits
  <2>2. P.HPrime \in Nat /\ P.MD \in Nat
    <3>1. P.K * P.A \in Nat
      <4> DEFINE a == P.K
                 b == P.A
      <4>1. a \in Nat /\ b \in Nat
        BY Numbers
      <4> HIDE DEF a, b
      <4>2. a * b \in Nat
        BY <4>1
      <4> QED
        BY <4>2 DEF a, b
    <3> QED
      BY <3>1, Numbers, DivCeilBound
  <2>3. CASE p = P
    BY <2>1, <2>2, <2>3
  <2>4. CASE p = WholeWord
    <3>1. p.H = WordBits + P.HPrime /\ p.HPrime = P.HPrime /\ p.MD = P.MD
      BY <2>4 DEF WholeWord
    <3> QED
      BY <2>1, <2>2, <3>1
  <2> QED
    BY <2>3, <2>4 DEF SplitSets
<1>3. /\ tb \in Nat /\ th <= 8 * tb /\ lb \in Nat /\ p.HPrime <= 8 * lb /\ m + tb + lb = Len(d)
      /\ tb = DivCeil(th, 8) /\ lb = DivCeil(p.HPrime, 8)
  BY <1>1, <1>2, DivCeilBound DEF TreeBytes, LeafBytes, SplitSets
<1>4. /\ s.md = SubSeq(d, 1, m)
      /\ s.idx_tree = trees % (tree_mask(p) + 1)
      /\ s.idx_leaf = leaves % ((2^p.HPrime - 1) + 1)
  BY DEF split_digest, And, TreeBytes, LeafBytes
<1>5. tree_mask(p) + 1 = 2^th
  BY <1>2, TreeMask
<1>6. (2^p.HPrime - 1) + 1 = 2^p.HPrime
  BY <1>2, PowerType
<1>7. number \in Nat
  BY <1>1, FromBytesType
<1> HIDE DEF s, tb, lb, th, m, number
<1>8. trees = (number \div 2^(8 * lb)) % 2^(8 * tb)
  <2>1. m + tb <= Len(d) /\ Len(d) - (m + tb) = lb
    <3> DEFINE len == Len(d)
    <3>1. len = m + tb + lb
      BY <1>3
    <3> HIDE DEF len
    <3>2. m + tb <= len /\ len - (m + tb) = lb
      BY <1>2, <1>3, <3>1
    <3> QED
      BY <3>2 DEF len
  <2>2. trees = (from_be_bytes(d) \div 2^(8 * (Len(d) - (m + tb)))) % 2^(8 * tb)
    BY <1>1, <1>2, <1>3, <2>1, PartNumber
  <2> QED
    BY <2>1, <2>2 DEF number
<1>9. leaves = number % 2^(8 * lb)
  <2> DEFINE from == m + tb
             whole == number \div 2^(8 * (Len(d) - (from + lb)))
  <2>1. from \in Nat /\ from + lb <= Len(d) /\ 8 * (Len(d) - (from + lb)) = 0
    <3> DEFINE len == Len(d)
    <3>1. len = m + tb + lb
      BY <1>3
    <3> HIDE DEF len
    <3>2. m \in Nat /\ tb \in Nat /\ lb \in Nat
      BY <1>2, <1>3
    <3> HIDE DEF trees, leaves, whole
    <3>3. from \in Nat /\ from + lb <= len /\ len - (from + lb) = 0
      BY <3>1, <3>2
    <3>4. 8 * (len - (from + lb)) = 0
      BY <3>3
    <3> QED
      BY <3>3, <3>4 DEF len
  <2>2. leaves = whole % 2^(8 * lb)
    <3> HIDE DEF from
    <3>1. from_be_bytes(SubSeq(d, from + 1, from + lb)) = whole % 2^(8 * lb)
      BY <1>1, <1>3, <2>1, PartNumber DEF number
    <3> QED
      BY <3>1 DEF from
  <2>3. whole = number
    <3>1. 2^0 = 1 /\ number \div 1 = number
      BY <1>7
    <3> QED
      BY <2>1, <3>1
  <2> HIDE DEF whole, leaves
  <2> QED
    BY <2>2, <2>3
<1>10. from_be_bytes(SubSeq(d, 1, m)) = number \div 2^(8 * (tb + lb)) /\ Len(SubSeq(d, 1, m)) = m
  <2> DEFINE len == Len(d)
  <2>1. len = m + tb + lb
    BY <1>3
  <2> HIDE DEF len
  <2>2. 0 + m <= len /\ len - (0 + m) = tb + lb /\ 0 + 1 = 1 /\ 0 + m = m /\ 0 \in Nat
    BY <1>2, <1>3, <2>1
  <2>3. /\ from_be_bytes(SubSeq(d, 0 + 1, 0 + m)) = number \div 2^(8 * (Len(d) - (0 + m)))
        /\ Len(SubSeq(d, 0 + 1, 0 + m)) = m
    BY <1>1, <1>2, <2>2, PartNumber, PartOfDigest DEF number, len
  <2> QED
    BY <2>2, <2>3 DEF len
<1> HIDE DEF trees, leaves
<1>11. s.idx_tree = (number \div 2^(8 * lb)) % 2^th
  <2> DEFINE n == number \div 2^(8 * lb)
             b == 8 * tb
  <2>1. b \in Nat /\ th <= b
    BY <1>2, <1>3
  <2>2. n \in Nat
    <3> DEFINE e == 8 * lb
               q == 2^e
    <3>1. e \in Nat
      BY <1>3
    <3>2. q \in Nat /\ q > 0
      <4> HIDE DEF e
      <4> QED
        BY <3>1, PowerType
    <3> HIDE DEF q
    <3>3. number \div q \in Nat
      BY <1>7, <3>2, Divides
    <3> QED
      BY <3>3 DEF q
  <2>3. s.idx_tree = (n % 2^b) % 2^th
    BY <1>4, <1>5, <1>8
  <2> HIDE DEF n, b
  <2>4. (n % 2^b) % 2^th = n % 2^th
    BY <1>2, <2>1, <2>2, TrailingBits
  <2> QED
    BY <2>3, <2>4 DEF n
<1>12. s.idx_leaf = number % 2^p.HPrime
  <2> DEFINE a == p.HPrime
             b == 8 * lb
  <2>1. a \in Nat /\ b \in Nat /\ a <= b
    BY <1>2, <1>3
  <2>2. s.idx_leaf = (number % 2^b) % 2^a
    BY <1>4, <1>6, <1>9
  <2> HIDE DEF a, b
  <2>3. (number % 2^b) % 2^a = number % 2^a
    BY <1>7, <2>1, TrailingBits
  <2> QED
    BY <2>2, <2>3 DEF a
<1> QED
  BY <1>4, <1>10, <1>11, <1>12 DEF s, number, tb, lb, th, m

\* The digits are the leading bits of the digest, the leaf and the tree the trailing
\* bits of their bytes in it, and the message digest the bytes before them.
THEOREM DigitsAreExact == Spec => []DigitsExact
<1>1. ASSUME SignedInv, digest # None
      PROVE  DigitsExact
  <2>1. digest \in Digests
    BY <1>1 DEF SignedInv
  <2>2. digest \in Seq(Byte)
    BY <2>1, SlhDsaAssumption DEF Byte
  <2>3. \A B \in 1 .. 16 :
         LET OutLen == (8 * Len(digest)) \div B
         IN  LET digits == base_2b(digest, OutLen, B)
                 value[i \in 0 .. OutLen] ==
                   IF i = 0 THEN 0 ELSE value[i - 1] * 2^B + digits[i]
             IN  /\ \A i \in 1 .. OutLen : digits[i] \in 0 .. (2^B - 1)
                 /\ value[OutLen] = from_be_bytes(digest) \div 2^(8 * Len(digest) - OutLen * B)
    BY <2>2, DigitsMake
  <2>4. \A p \in SplitSets :
         LET s == split_digest(p, digest)
         IN  /\ s.idx_leaf = from_be_bytes(digest) % 2^p.HPrime
             /\ s.idx_tree = (from_be_bytes(digest) \div 2^(8 * LeafBytes(p))) % 2^(p.H - p.HPrime)
             /\ Len(s.md) = p.MD
             /\ from_be_bytes(s.md) = from_be_bytes(digest) \div 2^(8 * (TreeBytes(p) + LeafBytes(p)))
    BY <2>1, SplitNumbers
  <2> QED
    BY <2>3, <2>4 DEF DigitsExact
<1>2. SignedInv => DigitsExact
  BY <1>1 DEF DigitsExact
<1> QED
  BY <1>2, SignedAlways, PTL

-----------------------------------------------------------------------------
(* The checksum of WOTS+ (wots.rs:110).                                     *)

Nibble == 0 .. 15

\* Two bytes cut into digits of four bits.
LEMMA Nibbles ==
  ASSUME NEW x \in Seq(Byte), Len(x) = 2, NEW n \in 1 .. 4
  PROVE  LET v   == 256 * x[1] + x[2]
             out == base_2b(x, n, LOG_W)
         IN  /\ v \in Nat /\ v < 65536 /\ out \in Seq(Nibble) /\ Len(out) = n
             /\ out[1] = (v \div 4096) % 16
             /\ n >= 2 => out[2] = (v \div 256) % 16
             /\ n >= 3 => out[3] = (v \div 16) % 16
             /\ n >= 4 => out[4] = v % 16
<1> DEFINE v == 256 * x[1] + x[2]
           out == base_2b(x, n, 4)
           V == from_be_bytes(x)
<1>0. x[1] \in Nat /\ x[1] < 256 /\ x[2] \in Nat /\ x[2] < 256
  <2>1. 1 \in 1 .. Len(x) /\ 2 \in 1 .. Len(x)
    OBVIOUS
  <2>2. x[1] \in Byte /\ x[2] \in Byte
    BY <2>1, SeqElement
  <2>3. \A b \in Byte : b \in Nat /\ b < 256
    BY DEF Byte
  <2> QED
    BY <2>2, <2>3, Zenon
<1>1. V = v
  <2>1. PICK p : Prefixes(p, x) /\ from_be_bytes(x) = p[Len(x)]
    BY FromBytes
  <2>2. p[0] = 0 /\ p[1] = 256 * p[0] + x[1] /\ p[2] = 256 * p[1] + x[2]
    BY <2>1 DEF Prefixes
  <2> DEFINE a == x[1]
             b == x[2]
             p1 == p[1]
             p2 == p[2]
  <2>3. a \in Nat /\ b \in Nat /\ p1 = 256 * 0 + a /\ p2 = 256 * p1 + b
    BY <1>0, <2>2
  <2>4. V = p2
    BY <2>1
  <2> HIDE DEF a, b, p1, p2, V
  <2>5. V = 256 * a + b
    BY <2>3, <2>4
  <2> QED
    BY <2>5 DEF a, b
<1>2. v \in Nat /\ v < 65536
  <2> DEFINE a == x[1]
             b == x[2]
  <2>1. a \in Nat /\ a < 256 /\ b \in Nat /\ b < 256
    BY <1>0
  <2> HIDE DEF a, b
  <2>2. 256 * a + b \in Nat /\ 256 * a + b < 65536
    BY <2>1
  <2> QED
    BY <2>2 DEF a, b
<1>3. 2^4 = 16 /\ 2^0 = 1 /\ 2^8 = 256 /\ 2^12 = 4096
  <2>1. 2^0 = 1 /\ 2^1 = 2
    OBVIOUS
  <2>2. 2^4 = 16
    OBVIOUS
  <2>3. 2^(4 + 4) = 2^4 * 2^4 /\ 2^(8 + 4) = 2^8 * 2^4
    BY PowerSum
  <2> QED
    BY <2>1, <2>2, <2>3
<1>4. /\ out \in Seq(Nat) /\ Len(out) = n
      /\ \A j \in 1 .. n : out[j] = (V \div 2^(8 * Len(x) - j * 4)) % 2^4
  <2>1. n \in Nat /\ 4 \in Nat \ {0} /\ n * 4 <= 8 * Len(x)
    OBVIOUS
  <2> QED
    BY <2>1, DigitsAre
<1>5. out \in Seq(Nibble)
  <2>1. n \in Nat /\ 4 \in Nat \ {0} /\ n * 4 <= 8 * Len(x)
    OBVIOUS
  <2>2. out \in Seq(0 .. (2^4 - 1))
    BY <2>1, DigitsType
  <2>3. 0 .. (2^4 - 1) = Nibble
    BY <1>3 DEF Nibble
  <2> QED
    BY <2>2, <2>3
<1>6. out = base_2b(x, n, LOG_W)
  BY DEF LOG_W
<1> HIDE DEF out, V
<1>7. ASSUME NEW j \in 1 .. n
      PROVE  out[j] = (v \div 2^(16 - 4 * j)) % 16
  <2>1. 8 * Len(x) - j * 4 = 16 - 4 * j
    OBVIOUS
  <2> QED
    BY <1>1, <1>3, <1>4, <2>1
<1> HIDE DEF v
<1>8. /\ 1 \in 1 .. n /\ (n >= 2 => 2 \in 1 .. n) /\ (n >= 3 => 3 \in 1 .. n)
      /\ (n >= 4 => 4 \in 1 .. n)
  OBVIOUS
<1>9. 16 - 4 * 1 = 12 /\ 16 - 4 * 2 = 8 /\ 16 - 4 * 3 = 4 /\ 16 - 4 * 4 = 0
  OBVIOUS
<1>10. out[1] = (v \div 2^12) % 16
  BY <1>7, <1>8, <1>9
<1>11. n >= 2 => out[2] = (v \div 2^8) % 16
  BY <1>7, <1>8, <1>9
<1>12. n >= 3 => out[3] = (v \div 2^4) % 16
  BY <1>7, <1>8, <1>9
<1>13. n >= 4 => out[4] = (v \div 2^0) % 16
  BY <1>7, <1>8, <1>9
<1>14. v \div 1 = v
  BY <1>2
<1>15. /\ out[1] = (v \div 4096) % 16 /\ (n >= 2 => out[2] = (v \div 256) % 16)
       /\ (n >= 3 => out[3] = (v \div 16) % 16) /\ (n >= 4 => out[4] = v % 16)
  <2>1. out[1] = (v \div 4096) % 16
    BY <1>3, <1>10
  <2>2. n >= 2 => out[2] = (v \div 256) % 16
    BY <1>3, <1>11
  <2>3. n >= 3 => out[3] = (v \div 16) % 16
    BY <1>3, <1>12
  <2>4. n >= 4 => out[4] = v % 16
    BY <1>3, <1>13, <1>14
  <2> QED
    BY <2>1, <2>2, <2>3, <2>4
<1> QED
  BY <1>2, <1>4, <1>5, <1>6, <1>15 DEF v

\* A number of two bytes is what its four digits make.
LEMMA NibblesMake ==
  ASSUME NEW v \in Nat, v < 65536
  PROVE  v = 4096 * ((v \div 4096) % 16) + 256 * ((v \div 256) % 16)
               + 16 * ((v \div 16) % 16) + (v % 16)
<1> DEFINE d == 16
           a == v \div d
           b == a \div d
           c == b \div d
<1>1. d \in Nat /\ d > 0 /\ d = 16 /\ d * d = 256 /\ (d * d) * d = 4096 /\ d * d \in Nat /\ d * d > 0
  OBVIOUS
<1> HIDE DEF d
<1>2. v \in Nat
  OBVIOUS
<1>3. a \in Nat /\ v % d \in 0 .. (d - 1) /\ v = d * a + (v % d)
  BY <1>1, <1>2, Divides
<1>4. b \in Nat /\ a % d \in 0 .. (d - 1) /\ a = d * b + (a % d)
  <2> HIDE DEF a
  <2> QED
    BY <1>1, <1>3, Divides
<1>5. c \in Nat /\ b % d \in 0 .. (d - 1) /\ b = d * c + (b % d)
  <2> HIDE DEF b
  <2> QED
    BY <1>1, <1>4, Divides
<1>6. b = v \div (d * d)
  BY <1>1, <1>2, DivideTwice
<1>7. c = v \div ((d * d) * d)
  <2>1. (v \div (d * d)) \div d = v \div ((d * d) * d)
    <3> DEFINE q == d * d
    <3> HIDE DEF q
    <3>1. q \in Nat /\ q > 0
      BY <1>1 DEF q
    <3>2. (v \div q) \div d = v \div (q * d)
      BY <1>1, <1>2, <3>1, DivideTwice
    <3> QED
      BY <3>2 DEF q
  <2> QED
    BY <1>6, <2>1
<1> DEFINE r == v % d
           x == a % d
           y == b % d
<1>8. /\ v \div 4096 = c /\ v \div 256 = b /\ v \div 16 = a /\ v % 16 = r
      /\ a % 16 = x /\ b % 16 = y
  <2> HIDE DEF a, b, c
  <2> QED
    BY <1>1, <1>6, <1>7 DEF a
<1> HIDE DEF a, b, c, r, x, y
<1>9. /\ a \in Nat /\ b \in Nat /\ c \in Nat /\ r \in Nat /\ x \in Nat /\ y \in Nat
      /\ v = 16 * a + r /\ a = 16 * b + x /\ b = 16 * c + y
  BY <1>1, <1>3, <1>4, <1>5 DEF r, x, y
<1>10. c < 16
  BY <1>9
<1>11. c % 16 = c
  BY <1>9, <1>10
<1>12. v = 4096 * c + 256 * y + 16 * x + r
  BY <1>9
<1> QED
  BY <1>8, <1>11, <1>12

\* What is left of the chains, digit by digit.
LEMMA StepsLeft ==
  ASSUME NEW msg \in Seq(Nibble)
  PROVE  \E u : /\ u[0] = 0 /\ \A i \in 1 .. Len(msg) : u[i] = u[i - 1] + 15 - msg[i]
                /\ steps_left(msg) = u[Len(msg)]
<1> DEFINE n == Len(msg)
<1>1. n \in Nat /\ 0 <= n /\ 0 \in Nat
  OBVIOUS
<1>2. PICK g : Left!Solves(g, msg, 0, 0, n)
  BY <1>1, Left!RecursionExists
<1>3. g = [i \in 0 .. n |-> IF i = 0 THEN 0 ELSE g[i - 1] + W - 1 - msg[i]]
  BY <1>2 DEF Left!Solves, LeftStep
<1> DEFINE upTo == CHOOSE upTo : upTo =
             [i \in 0 .. n |-> IF i = 0 THEN 0 ELSE upTo[i - 1] + W - 1 - msg[i]]
<1>4. upTo = [i \in 0 .. n |-> IF i = 0 THEN 0 ELSE upTo[i - 1] + W - 1 - msg[i]]
  BY <1>3
<1>5. steps_left(msg) = upTo[n]
  BY DEF steps_left
<1> HIDE DEF upTo
<1>6. \A i \in 1 .. n : msg[i] \in Int
  <2>1. \A i \in 1 .. n : msg[i] \in Nibble
    BY SeqElement
  <2> QED
    BY <2>1 DEF Nibble
<1> HIDE DEF n
<1>7. upTo[0] = 0 /\ \A i \in 1 .. n : upTo[i] = upTo[i - 1] + W - 1 - msg[i]
  BY <1>1, <1>4
<1> DEFINE T == {i \in Nat : upTo[i] \in Int}
<1>8. 0 \in T
  BY <1>7
<1>9. ASSUME NEW i \in (0 + 1) .. n, i - 1 \in T
      PROVE  i \in T
  <2>1. i \in 1 .. n /\ i \in Nat /\ upTo[i - 1] \in Int
    BY <1>1, <1>9
  <2>2. upTo[i] \in Int
    BY <1>6, <1>7, <2>1 DEF W
  <2> QED
    BY <2>1, <2>2
<1> HIDE DEF T
<1>10. \A i \in 0 .. n : i \in T
  BY <1>1, <1>8, <1>9, Left!IntervalInduction
<1>11. \A i \in 1 .. n : upTo[i] = upTo[i - 1] + 15 - msg[i]
  <2> TAKE i \in 1 .. n
  <2>1. i - 1 \in 0 .. n
    BY <1>1
  <2>2. upTo[i - 1] \in Int
    BY <1>10, <2>1 DEF T
  <2> QED
    BY <1>6, <1>7, <2>2 DEF W
<1> QED
  BY <1>5, <1>7, <1>11 DEF n

\* No more than all the steps are left.
LEMMA StepsLeftBound ==
  ASSUME NEW msg \in Seq(Nibble)
  PROVE  steps_left(msg) \in Nat /\ steps_left(msg) <= 15 * Len(msg)
<1> DEFINE n == Len(msg)
<1>1. n \in Nat /\ 0 <= n /\ 0 \in Nat /\ n \in 0 .. n
  OBVIOUS
<1>2. PICK u : /\ u[0] = 0 /\ \A i \in 1 .. n : u[i] = u[i - 1] + 15 - msg[i]
               /\ steps_left(msg) = u[n]
  BY StepsLeft
<1>3. \A i \in 1 .. n : msg[i] \in Nat /\ msg[i] <= 15
  <2>1. \A i \in 1 .. n : msg[i] \in Nibble
    BY SeqElement
  <2> QED
    BY <2>1 DEF Nibble
<1> HIDE DEF n
<1> DEFINE T == {i \in Nat : u[i] \in Nat /\ u[i] <= 15 * i}
<1>4. 0 \in T
  BY <1>2
<1>5. ASSUME NEW i \in (0 + 1) .. n, i - 1 \in T
      PROVE  i \in T
  <2>1. i \in 1 .. n /\ i \in Nat /\ u[i - 1] \in Nat /\ u[i - 1] <= 15 * (i - 1)
    BY <1>1, <1>5
  <2>2. u[i] = u[i - 1] + 15 - msg[i] /\ msg[i] \in Nat /\ msg[i] <= 15
    BY <1>2, <1>3, <2>1
  <2> DEFINE a == u[i - 1]
             b == msg[i]
             c == u[i]
  <2>3. a \in Nat /\ a <= 15 * (i - 1) /\ b \in Nat /\ b <= 15 /\ c = a + 15 - b
    BY <2>1, <2>2
  <2> HIDE DEF a, b, c
  <2>4. c \in Nat /\ c <= 15 * i
    BY <2>1, <2>3
  <2> QED
    BY <2>1, <2>4 DEF c
<1> HIDE DEF T
<1>6. \A i \in 0 .. n : i \in T
  BY <1>1, <1>4, <1>5, Left!IntervalInduction
<1>7. n \in T
  BY <1>1, <1>6
<1> QED
  BY <1>2, <1>7 DEF T, n

\* A message with no digit below another's leaves no more steps, and fewer unless
\* it is the other.
LEMMA StepsLeftOrder ==
  ASSUME NEW a \in Seq(Nibble), NEW b \in Seq(Nibble), Len(a) = Len(b),
         \A i \in 1 .. Len(a) : a[i] <= b[i]
  PROVE  /\ steps_left(b) <= steps_left(a)
         /\ steps_left(b) = steps_left(a) => \A i \in 1 .. Len(a) : a[i] = b[i]
<1> DEFINE n == Len(a)
<1>1. n \in Nat /\ 0 <= n /\ 0 \in Nat /\ n \in 0 .. n /\ Len(b) = n
  OBVIOUS
<1>2. PICK u : /\ u[0] = 0 /\ \A i \in 1 .. n : u[i] = u[i - 1] + 15 - a[i]
               /\ steps_left(a) = u[n]
  BY StepsLeft
<1>3. PICK w : /\ w[0] = 0 /\ \A i \in 1 .. n : w[i] = w[i - 1] + 15 - b[i]
               /\ steps_left(b) = w[n]
  BY <1>1, StepsLeft
<1>4. \A i \in 1 .. n : a[i] \in Int /\ b[i] \in Int /\ a[i] <= b[i]
  <2>1. \A i \in 1 .. n : a[i] \in Nibble /\ b[i] \in Nibble
    BY <1>1, SeqElement
  <2> QED
    BY <2>1 DEF Nibble
<1> HIDE DEF n
<1> DEFINE T == {i \in Nat : /\ u[i] \in Int /\ w[i] \in Int /\ w[i] <= u[i]
                             /\ w[i] = u[i] => \A j \in 1 .. i : a[j] = b[j]}
<1>5. 0 \in T
  BY <1>2, <1>3
<1>6. ASSUME NEW i \in (0 + 1) .. n, i - 1 \in T
      PROVE  i \in T
  <2>1. i \in 1 .. n /\ i \in Nat
    BY <1>1
  <2> DEFINE u0 == u[i - 1]
             w0 == w[i - 1]
             u1 == u[i]
             w1 == w[i]
             x == a[i]
             y == b[i]
  <2>2. /\ u0 \in Int /\ w0 \in Int /\ w0 <= u0
        /\ w0 = u0 => \A j \in 1 .. (i - 1) : a[j] = b[j]
    BY <1>6
  <2>3. u1 = u0 + 15 - x /\ w1 = w0 + 15 - y /\ x \in Int /\ y \in Int /\ x <= y
    BY <1>2, <1>3, <1>4, <2>1
  <2> HIDE DEF u0, w0, u1, w1, x, y
  <2>4. u1 \in Int /\ w1 \in Int /\ w1 <= u1 /\ (w1 = u1 => w0 = u0 /\ x = y)
    BY <2>2, <2>3
  <2>5. ASSUME w1 = u1, NEW j \in 1 .. i
        PROVE  a[j] = b[j]
    <3>1. CASE j = i
      BY <2>4, <2>5, <3>1 DEF x, y
    <3>2. CASE j # i
      <4>1. j \in 1 .. (i - 1)
        BY <2>1, <3>2
      <4> QED
        BY <2>2, <2>4, <2>5, <4>1
    <3> QED
      BY <3>1, <3>2
  <2> QED
    BY <2>1, <2>4, <2>5 DEF u1, w1
<1> HIDE DEF T
<1>7. \A i \in 0 .. n : i \in T
  BY <1>1, <1>5, <1>6, Left!IntervalInduction
<1>8. n \in T
  BY <1>1, <1>7
<1> QED
  BY <1>2, <1>3, <1>8 DEF T, n

\* What the digits after those of the message say: how far those are from their ends.
LEMMA ChecksumDigits ==
  ASSUME NEW x \in Seq(Byte), Len(x) = P.N
  PROVE  LET n   == P.WotsMsgLen
             msg == base_2b(x, n, LOG_W)
             o   == msg_csum(x)
         IN  /\ msg \in Seq(Nibble) /\ Len(msg) = n
             /\ \A i \in 1 .. n : o[i] = msg[i]
             /\ o[n + 1] \in Nat /\ o[n + 2] \in Nat /\ o[n + 3] \in Nat
             /\ 16 * steps_left(msg) = 4096 * o[n + 1] + 256 * o[n + 2] + 16 * o[n + 3]
<1> DEFINE n == P.WotsMsgLen
           msg == base_2b(x, n, LOG_W)
           s == steps_left(msg)
           csum == checksum(msg)
           y == <<csum \div 256, csum % 256>>
           c == base_2b(y, CK_LEN, LOG_W)
           o == msg_csum(x)
<1>1. n \in Nat /\ n * 15 < 4096 /\ n * 4 = 8 * Len(x)
  BY Numbers, WotsNumbers
<1> HIDE DEF n
<1>2. msg \in Seq(Nibble) /\ Len(msg) = n
  <2> DEFINE R == 0 .. (2^LOG_W - 1)
  <2>1. LOG_W \in Nat \ {0} /\ R = Nibble
    BY DEF LOG_W, Nibble
  <2>2. n * LOG_W <= 8 * Len(x)
    <3> DEFINE z == 8 * Len(x)
    <3>1. z \in Nat
      OBVIOUS
    <3> HIDE DEF z
    <3>2. n * 4 <= z
      BY <1>1, <3>1 DEF z
    <3> QED
      BY <3>2 DEF z, LOG_W
  <2>3. msg \in Seq(R) /\ Len(msg) = n
    BY <1>1, <2>1, <2>2, DigitsType
  <2> HIDE DEF msg, R
  <2> QED
    BY <2>1, <2>3
<1>3. o = msg \o c
  BY DEF msg_csum, n
<1>4. csum = (s * 2^4) % 2^16
  BY DEF checksum
<1> HIDE DEF o, csum, msg
<1>5. s \in Nat /\ s < 4096
  <2>1. s \in Nat /\ s <= 15 * Len(msg)
    BY <1>2, StepsLeftBound
  <2> HIDE DEF s
  <2> QED
    BY <1>1, <1>2, <2>1
<1> HIDE DEF s
<1>6. csum = 16 * s /\ csum \in Nat /\ csum < 65536
  <2>1. 2^4 = 16 /\ 2^16 = 65536
    OBVIOUS
  <2>2. s * 16 \in Nat /\ s * 16 < 65536 /\ s * 16 = 16 * s
    BY <1>5
  <2> DEFINE k == s * 16
  <2>3. csum = k % 65536
    BY <1>4, <2>1
  <2>4. k \in Nat /\ k < 65536
    BY <2>2
  <2> HIDE DEF k
  <2>5. k % 65536 = k
    BY <2>4
  <2> QED
    BY <2>2, <2>3, <2>5 DEF k
<1>7. /\ y \in Seq(Byte) /\ Len(y) = 2 /\ y[1] = csum \div 256 /\ y[2] = csum % 256
  <2>1. \A a, b \in Byte : <<a, b>> \in Seq(Byte) /\ Len(<<a, b>>) = 2
    OBVIOUS
  <2>2. csum \div 256 \in Byte /\ csum % 256 \in Byte
    <3>1. csum \in Int /\ 0 <= csum /\ csum < 65536
      BY <1>6
    <3> QED
      BY <3>1 DEF Byte
  <2> DEFINE a == csum \div 256
             b == csum % 256
  <2>3. y = <<a, b>>
    OBVIOUS
  <2> HIDE DEF a, b, y
  <2>4. y \in Seq(Byte) /\ Len(y) = 2
    BY <2>1, <2>2, <2>3 DEF a, b
  <2>5. y[1] = a /\ y[2] = b
    BY <2>3
  <2> QED
    BY <2>4, <2>5 DEF a, b
<1> HIDE DEF y
<1>8. 256 * y[1] + y[2] = csum
  <2> DEFINE q == 256
             a == csum \div q
             b == csum % q
  <2>1. q \in Nat /\ q > 0
    OBVIOUS
  <2> HIDE DEF q
  <2>2. csum = q * a + b
    <3>1. csum \in Nat
      BY <1>6
    <3> QED
      BY <2>1, <3>1, Divides
  <2>3. y[1] = a /\ y[2] = b
    BY <1>7 DEF q
  <2> HIDE DEF a, b
  <2> QED
    BY <2>2, <2>3 DEF q
<1>9. /\ c \in Seq(Nibble) /\ Len(c) = 3
      /\ c[1] = (csum \div 4096) % 16 /\ c[2] = (csum \div 256) % 16
      /\ c[3] = (csum \div 16) % 16
  <2>1. 3 \in 1 .. 4 /\ 3 >= 2 /\ 3 >= 3
    OBVIOUS
  <2>2. c = base_2b(y, 3, LOG_W)
    BY DEF CK_LEN
  <2> HIDE DEF c
  <2> DEFINE u == 256 * y[1] + y[2]
  <2>3. /\ c \in Seq(Nibble) /\ Len(c) = 3
        /\ c[1] = (u \div 4096) % 16 /\ c[2] = (u \div 256) % 16 /\ c[3] = (u \div 16) % 16
    BY <1>7, <2>1, <2>2, Nibbles
  <2>4. u = csum
    BY <1>8
  <2> HIDE DEF u
  <2> QED
    BY <2>3, <2>4
<1> HIDE DEF c
<1>10. /\ \A i \in 1 .. n : o[i] = msg[i]
       /\ o[n + 1] = c[1] /\ o[n + 2] = c[2] /\ o[n + 3] = c[3]
  <2>1. msg \in Seq(Nibble) /\ c \in Seq(Nibble)
    BY <1>2, <1>9
  <2>2. /\ \A i \in 1 .. Len(msg) : (msg \o c)[i] = msg[i]
        /\ \A i \in 1 .. Len(c) : (msg \o c)[Len(msg) + i] = c[i]
    BY <2>1, ConcatInto
  <2>3. /\ \A i \in 1 .. n : o[i] = msg[i]
        /\ \A i \in 1 .. 3 : o[n + i] = c[i]
    <3>1. Len(msg) = n /\ Len(c) = 3
      BY <1>2, <1>9
    <3> QED
      BY <1>3, <2>2, <3>1, Zenon
  <2>4. 1 \in 1 .. 3 /\ 2 \in 1 .. 3 /\ 3 \in 1 .. 3
    OBVIOUS
  <2> QED
    BY <2>3, <2>4, Zenon
<1>11. c[1] \in Nat /\ c[2] \in Nat /\ c[3] \in Nat
  <2>1. \A i \in 1 .. 3 : c[i] \in Nibble
    <3>1. c \in Seq(Nibble) /\ Len(c) = 3
      BY <1>9
    <3> QED
      BY <3>1, SeqElement
  <2>2. 1 \in 1 .. 3 /\ 2 \in 1 .. 3 /\ 3 \in 1 .. 3 /\ \A k \in Nibble : k \in Nat
    BY DEF Nibble
  <2> QED
    BY <2>1, <2>2, Zenon
<1>12. csum = 4096 * c[1] + 256 * c[2] + 16 * c[3]
  <2>1. csum = 4096 * ((csum \div 4096) % 16) + 256 * ((csum \div 256) % 16)
              + 16 * ((csum \div 16) % 16) + (csum % 16)
    <3>1. csum \in Nat /\ csum < 65536
      BY <1>6
    <3> HIDE DEF csum
    <3> QED
      BY <3>1, NibblesMake
  <2>2. csum % 16 = 0
    <3>1. 16 \in Nat /\ 16 > 0 /\ 0 \in 0 .. (16 - 1)
      OBVIOUS
    <3>2. (16 * s + 0) % 16 = 0
      BY <1>5, <3>1, DivideUnique
    <3> QED
      BY <1>5, <1>6, <3>2
  <2> QED
    BY <1>9, <1>11, <2>1, <2>2
<1>13. /\ o[n + 1] \in Nat /\ o[n + 2] \in Nat /\ o[n + 3] \in Nat
       /\ 16 * s = 4096 * o[n + 1] + 256 * o[n + 2] + 16 * o[n + 3]
  BY <1>6, <1>10, <1>11, <1>12
<1> QED
  BY <1>2, <1>10, <1>13 DEF o, s, msg, n

\* Bytes are told apart by the number they make.
LEMMA BytesNumber ==
  ASSUME NEW x \in Seq(Byte), NEW y \in Seq(Byte), Len(x) = Len(y),
         from_be_bytes(x) = from_be_bytes(y)
  PROVE  x = y
<1> DEFINE n == Len(x)
<1>1. PICK v : Prefixes(v, x) /\ from_be_bytes(x) = v[n]
  BY FromBytes
<1>2. PICK w : Prefixes(w, y) /\ from_be_bytes(y) = w[n]
  BY FromBytes
<1>3. ASSUME NEW i \in 0 .. n
      PROVE  v[i] = w[i]
  <2>1. n \in i .. n /\ i \in 0 .. Len(y) /\ n \in i .. Len(y)
    OBVIOUS
  <2>2. v[i] = v[n] \div 2^(8 * (n - i))
    BY <1>1, <2>1, PrefixIs
  <2>3. w[i] = w[n] \div 2^(8 * (n - i))
    BY <1>2, <2>1, PrefixIs
  <2> QED
    BY <1>1, <1>2, <2>2, <2>3
<1>4. ASSUME NEW i \in 1 .. n
      PROVE  x[i] = y[i]
  <2>1. i \in 0 .. n /\ i - 1 \in 0 .. n /\ i \in 1 .. Len(y)
    OBVIOUS
  <2>2. v[i] = 256 * v[i - 1] + x[i] /\ w[i] = 256 * w[i - 1] + y[i]
    BY <1>1, <1>2, <2>1 DEF Prefixes
  <2>3. v[i] = w[i] /\ v[i - 1] = w[i - 1] /\ v[i - 1] \in Nat
    BY <1>1, <1>3, <2>1 DEF Prefixes
  <2>4. x[i] \in Int /\ y[i] \in Int
    <3>1. x[i] \in Byte /\ y[i] \in Byte
      BY <2>1, SeqElement
    <3>2. \A b \in Byte : b \in Int
      BY DEF Byte
    <3> QED
      BY <3>1, <3>2, Zenon
  <2> DEFINE a == x[i]
             b == y[i]
             p == v[i - 1]
             q == v[i]
  <2>5. a \in Int /\ b \in Int /\ p \in Nat /\ q = 256 * p + a /\ q = 256 * p + b
    BY <2>2, <2>3, <2>4
  <2> HIDE DEF a, b, p, q
  <2>6. a = b
    BY <2>5
  <2> QED
    BY <2>6 DEF a, b
<1> QED
  BY <1>4, SeqEqual

\* And so are messages by their digits.
LEMMA MessageDigits ==
  ASSUME NEW x \in Seq(Byte), NEW y \in Seq(Byte), Len(x) = P.N, Len(y) = P.N,
         \A i \in 1 .. P.WotsMsgLen :
           base_2b(x, P.WotsMsgLen, LOG_W)[i] = base_2b(y, P.WotsMsgLen, LOG_W)[i]
  PROVE  x = y
<1> DEFINE n == P.WotsMsgLen
           a == base_2b(x, n, LOG_W)
           b == base_2b(y, n, LOG_W)
           e == [B |-> LOG_W, digits |-> a]
           z == n * LOG_W
<1>1. n \in Nat /\ 0 <= n /\ 0 \in Nat /\ LOG_W \in Nat \ {0}
  BY Numbers DEF LOG_W
<1>2. \A i \in 1 .. n : a[i] = b[i]
  OBVIOUS
<1>3. 8 * Len(x) = z /\ 8 * Len(y) = z /\ z \in Nat
  <2> DEFINE N == P.N
  <2>1. n * 4 = 8 * N /\ N \in Nat
    BY Numbers, WotsNumbers
  <2>2. Len(x) = N /\ Len(y) = N
    OBVIOUS
  <2> HIDE DEF N, n
  <2>3. z = 8 * N
    BY <2>1 DEF LOG_W
  <2> HIDE DEF z
  <2> QED
    BY <2>1, <2>2, <2>3
<1> HIDE DEF n, z
<1>4. PICK g : Value!Solves(g, e, 0, 0, n)
  <2> HIDE DEF e
  <2> QED
    BY <1>1, Value!RecursionExists
<1>5. g = [i \in 0 .. n |-> IF i = 0 THEN 0 ELSE g[i - 1] * 2^LOG_W + a[i]]
  <2>1. e.B = LOG_W /\ e.digits = a
    OBVIOUS
  <2> HIDE DEF e, a
  <2> QED
    BY <1>4, <2>1 DEF Value!Solves, ValueStep
<1>6. g[0] = 0 /\ \A i \in 1 .. n : g[i] = g[i - 1] * 2^LOG_W + a[i]
  <2> HIDE DEF a
  <2>1. \A i \in 1 .. n : i \in 0 .. n /\ i # 0
    BY <1>1
  <2>2. 0 \in 0 .. n
    BY <1>1
  <2> QED
    BY <1>5, <2>1, <2>2, Zenon
<1>7. \A i \in 1 .. n : g[i] = g[i - 1] * 2^LOG_W + b[i]
  <2> HIDE DEF a, b
  <2> QED
    BY <1>2, <1>6
<1>8. z - z = 0 /\ z <= z
  BY <1>3
<1>9. g[n] = from_be_bytes(x) \div 2^0
  <2>1. n * LOG_W <= 8 * Len(x)
    BY <1>3, <1>8, Zenon DEF z
  <2>2. g[n] = from_be_bytes(x) \div 2^(8 * Len(x) - n * LOG_W)
    <3> HIDE DEF a
    <3>1. g[0] = 0 /\ \A i \in 1 .. n : g[i] = g[i - 1] * 2^LOG_W + base_2b(x, n, LOG_W)[i]
      BY <1>6 DEF a
    <3> QED
      BY <1>1, <2>1, <3>1, LeadingBits
  <2> QED
    BY <1>3, <1>8, <2>2, Zenon DEF z
<1>10. g[n] = from_be_bytes(y) \div 2^0
  <2>1. n * LOG_W <= 8 * Len(y)
    BY <1>3, <1>8, Zenon DEF z
  <2>2. g[n] = from_be_bytes(y) \div 2^(8 * Len(y) - n * LOG_W)
    <3> HIDE DEF b
    <3>1. g[0] = 0 /\ \A i \in 1 .. n : g[i] = g[i - 1] * 2^LOG_W + base_2b(y, n, LOG_W)[i]
      BY <1>6, <1>7 DEF b
    <3> QED
      BY <1>1, <2>1, <3>1, LeadingBits
  <2> QED
    BY <1>3, <1>8, <2>2, Zenon DEF z
<1>11. from_be_bytes(x) = from_be_bytes(y)
  <2> DEFINE p == from_be_bytes(x)
             q == from_be_bytes(y)
  <2>1. p \in Nat /\ q \in Nat
    BY FromBytesType
  <2>2. 2^0 = 1 /\ \A k \in Nat : k \div 1 = k
    OBVIOUS
  <2> QED
    BY <1>9, <1>10, <2>1, <2>2
<1> QED
  BY <1>11, BytesNumber

\* Two messages are the same if no digit of the first is above the other's.
LEMMA NoneBelow ==
  ASSUME NEW x \in Seq(Byte), Len(x) = P.N, NEW y \in Seq(Byte), Len(y) = P.N,
         \A i \in Chains : ~(msg_csum(y)[i] < msg_csum(x)[i])
  PROVE  x = y
<1> DEFINE n == P.WotsMsgLen
           a == base_2b(x, n, LOG_W)
           b == base_2b(y, n, LOG_W)
           o == msg_csum(x)
           p == msg_csum(y)
           s == steps_left(a)
           r == steps_left(b)
<1>1. /\ a \in Seq(Nibble) /\ Len(a) = n /\ \A i \in 1 .. n : o[i] = a[i]
      /\ o[n + 1] \in Nat /\ o[n + 2] \in Nat /\ o[n + 3] \in Nat
      /\ 16 * s = 4096 * o[n + 1] + 256 * o[n + 2] + 16 * o[n + 3]
  BY ChecksumDigits
<1>2. /\ b \in Seq(Nibble) /\ Len(b) = n /\ \A i \in 1 .. n : p[i] = b[i]
      /\ p[n + 1] \in Nat /\ p[n + 2] \in Nat /\ p[n + 3] \in Nat
      /\ 16 * r = 4096 * p[n + 1] + 256 * p[n + 2] + 16 * p[n + 3]
  BY ChecksumDigits
<1>3. n \in Nat /\ Chains = 1 .. (n + 3)
  BY Numbers, WotsNumbers DEF Chains
<1>4. \A i \in 1 .. (n + 3) : ~(p[i] < o[i])
  BY <1>3
<1>5. s \in Nat /\ r \in Nat
  BY <1>1, <1>2, StepsLeftBound
<1> HIDE DEF n, o, p, a, b
<1>6. \A i \in 1 .. n : a[i] \in Nat /\ b[i] \in Nat
  <2>1. \A i \in 1 .. n : a[i] \in Nibble /\ b[i] \in Nibble
    BY <1>1, <1>2, SeqElement
  <2>2. \A k \in Nibble : k \in Nat
    BY DEF Nibble
  <2> QED
    BY <2>1, <2>2, Zenon
<1>7. ASSUME NEW i \in 1 .. n
      PROVE  a[i] <= b[i]
  <2>1. i \in 1 .. (n + 3)
    BY <1>3
  <2>2. ~(p[i] < o[i])
    BY <1>4, <2>1
  <2>3. o[i] = a[i] /\ p[i] = b[i]
    BY <1>1, <1>2
  <2>4. ~(b[i] < a[i])
    BY <2>2, <2>3, Zenon
  <2>5. a[i] \in Nat /\ b[i] \in Nat
    BY <1>6
  <2> DEFINE c == a[i]
             d == b[i]
  <2>6. c \in Nat /\ d \in Nat /\ ~(d < c)
    BY <2>4, <2>5
  <2> HIDE DEF c, d
  <2>7. c <= d
    BY <2>6
  <2> QED
    BY <2>7 DEF c, d
<1>8. r <= s /\ (r = s => \A i \in 1 .. n : a[i] = b[i])
  <2>1. /\ a \in Seq(Nibble) /\ b \in Seq(Nibble) /\ Len(a) = Len(b) /\ Len(a) = n
    BY <1>1, <1>2
  <2>2. \A i \in 1 .. Len(a) : a[i] <= b[i]
    BY <1>7, <2>1
  <2> HIDE DEF s, r
  <2>3. /\ steps_left(b) <= steps_left(a)
        /\ steps_left(b) = steps_left(a) => \A i \in 1 .. Len(a) : a[i] = b[i]
    BY <2>1, <2>2, StepsLeftOrder
  <2> QED
    BY <2>1, <2>3 DEF s, r
<1> HIDE DEF s, r
<1>9. r = s
  <2>1. n + 1 \in 1 .. (n + 3) /\ n + 2 \in 1 .. (n + 3) /\ n + 3 \in 1 .. (n + 3)
    BY <1>3
  <2> DEFINE o1 == o[n + 1]
             o2 == o[n + 2]
             o3 == o[n + 3]
             p1 == p[n + 1]
             p2 == p[n + 2]
             p3 == p[n + 3]
  <2>2. ~(p1 < o1) /\ ~(p2 < o2) /\ ~(p3 < o3)
    BY <1>4, <2>1, Zenon
  <2>3. /\ o1 \in Nat /\ o2 \in Nat /\ o3 \in Nat /\ 16 * s = 4096 * o1 + 256 * o2 + 16 * o3
        /\ p1 \in Nat /\ p2 \in Nat /\ p3 \in Nat /\ 16 * r = 4096 * p1 + 256 * p2 + 16 * p3
    BY <1>1, <1>2
  <2> HIDE DEF o1, o2, o3, p1, p2, p3
  <2> QED
    BY <1>5, <1>8, <2>2, <2>3
<1>10. \A i \in 1 .. n : a[i] = b[i]
  BY <1>8, <1>9
<1> QED
  BY <1>10, MessageDigits DEF a, b, n

\* Of two different messages of a one-time key, neither signature holds all that is
\* needed for the other.
THEOREM ChecksumHolds == Spec => []ChecksumGuards
<1>1. ASSUME NEW d \in Digests
      PROVE  LET m == SubSeq(d, 1, P.N) IN m \in Seq(Byte) /\ Len(m) = P.N
  <2> DEFINE m == SubSeq(d, 0 + 1, 0 + P.N)
  <2>1. d \in Seq(Byte) /\ Len(d) = P.M /\ P.N <= P.M /\ P.N \in Nat
    BY SlhDsaAssumption DEF Byte
  <2>2. 0 \in Nat /\ 0 + P.N <= Len(d)
    BY <2>1
  <2>3. m \in Seq(Byte) /\ Len(m) = P.N
    BY <2>1, <2>2, PieceOf
  <2>4. SubSeq(d, 1, P.N) = m
    BY <2>1
  <2> QED
    BY <2>3, <2>4
<1>2. ASSUME SignedInv, presented # None
      PROVE  LET m1 == SubSeq(digest, 1, P.N)
                 m2 == SubSeq(presented, 1, P.N)
             IN  m1 # m2 => \E i \in Chains : msg_csum(m2)[i] < msg_csum(m1)[i]
  <2> DEFINE m1 == SubSeq(digest, 1, P.N)
             m2 == SubSeq(presented, 1, P.N)
  <2>1. digest \in Digests /\ presented \in Digests
    BY <1>2 DEF SignedInv
  <2>2. m1 \in Seq(Byte) /\ Len(m1) = P.N /\ m2 \in Seq(Byte) /\ Len(m2) = P.N
    BY <1>1, <2>1
  <2> HIDE DEF m1, m2
  <2>3. (\A i \in Chains : ~(msg_csum(m2)[i] < msg_csum(m1)[i])) => m1 = m2
    BY <2>2, NoneBelow
  <2>4. m1 # m2 => \E i \in Chains : msg_csum(m2)[i] < msg_csum(m1)[i]
    BY <2>3, Zenon
  <2> QED
    BY <2>4 DEF m1, m2
<1>3. SignedInv => ChecksumGuards
  BY <1>2 DEF ChecksumGuards
<1> QED
  BY <1>3, SignedAlways, PTL

-----------------------------------------------------------------------------
(* The parameter sets (hashes/sha2.rs, hashes/shake.rs).                    *)

\* A set whose numbers fit, and the length of its signatures.
LEMMA SetFits ==
  ASSUME NEW p, p.N \in Nat, p.WotsMsgLen \in Nat,
         p.WotsMsgLen * 4 = 8 * p.N, p.WotsSigLen = p.WotsMsgLen + 3,
         p.WotsMsgLen * 15 < 4096, p.H = p.D * p.HPrime, p.HPrime < 32,
         p.H - p.HPrime <= 64, p.D <= 256, p.A <= 16, p.MD = DivCeil(p.K * p.A, 8),
         p.M = p.MD + DivCeil(p.H - p.HPrime, 8) + DivCeil(p.HPrime, 8)
  PROVE  /\ Fits(p)
         /\ SignatureSize(p) = p.N + p.K * (p.A + 1) * p.N
                                 + (p.N * p.WotsSigLen + p.HPrime * p.N) * p.D
<1>1. LOG_W = 4 /\ CK_LEN = 3 /\ W - 1 = 15 /\ 2^(CK_LEN * LOG_W) = 4096
  <2>1. LOG_W = 4 /\ CK_LEN = 3 /\ W = 16
    BY DEF LOG_W, CK_LEN, W
  <2>2. 2^12 = 4096 /\ 3 * 4 = 12 /\ 16 - 1 = 15
    OBVIOUS
  <2> QED
    BY <2>1, <2>2
<1>2. Fits(p)
  <2>1. p.WotsMsgLen * LOG_W = 8 * p.N /\ p.WotsSigLen = p.WotsMsgLen + CK_LEN
    BY <1>1
  <2>2. p.WotsMsgLen * (W - 1) < 2^(CK_LEN * LOG_W)
    BY <1>1
  <2> QED
    BY <2>1, <2>2 DEF Fits
<1> QED
  BY <1>2 DEF SignatureSize, ForsSize, HypertreeSize, XmssSize, WotsSize

\* What ParametersFit says of a set.
SetGood(name, p) ==
  /\ SignatureSize(p) = SigLen(name)
  /\ SigLen(name) = Token!signature_len_for[name]
  /\ VkLen(p.N) = Token!public_key_len[name]
  /\ VkLen(p.N) = Len(vk_to_bytes(VerifyingKey)) * p.N
  /\ SkLen(p.N) = Len(sk_to_bytes(SigningKey)) * p.N
  /\ Fits(p)

\* Keys are two and four chunks.
LEMMA KeyChunks == Len(vk_to_bytes(VerifyingKey)) = 2 /\ Len(sk_to_bytes(SigningKey)) = 4
<1>1. \A v, w : Len(<<v, w>>) = 2
  OBVIOUS
<1>2. \A v, w, x, y : Len(<<v, w>> \o <<x, y>>) = 4
  <2> TAKE v, w, x, y
  <2> DEFINE S == {v, w, x, y}
             a == <<v, w>>
             b == <<x, y>>
  <2>1. a \in Seq(S) /\ b \in Seq(S)
    OBVIOUS
  <2>2. Len(a) = 2 /\ Len(b) = 2
    BY <1>1
  <2> HIDE DEF S, a, b
  <2>3. Len(a \o b) = Len(a) + Len(b)
    BY <2>1, ConcatInto
  <2>4. Len(a \o b) = 4
    BY <2>2, <2>3
  <2> QED
    BY <2>4 DEF a, b
<1>3. Len(vk_to_bytes(VerifyingKey)) = 2
  BY <1>1 DEF vk_to_bytes
<1>4. Len(sk_to_bytes(SigningKey)) = 4
  BY <1>2 DEF sk_to_bytes, vk_to_bytes
<1> QED
  BY <1>3, <1>4

\* The numbers of every set fit, and its lengths are those the other files state.
THEOREM ParametersDoFit == Spec => []ParametersFit
<1>1. ASSUME NEW p \in ParameterSet("128s")
      PROVE  SetGood("128s", p)
  <2>1. DivCeil(14 * 12, 8) = 21 /\ DivCeil(63 - 9, 8) = 7 /\ DivCeil(9, 8) = 2
        /\ 12 * 14 = 14 * 12 /\ 24 * 2 = 48 /\ 24 * 2 + 3 = 51 /\ 32 * 2 = 64 /\ 32 * 2 + 3 = 67
    BY DEF DivCeil
  <2>2. p = Set(16, 30, 32, 35, 9, 7, 63, 14, 12, 21)
    BY <2>1 DEF ParameterSet, Sha2, Sha2L1, Sha2L35, Shake
  <2>3. p.N = 16 /\ Fits(p) /\ SignatureSize(p) = 7856
    <3>1. /\ p.N = 16 /\ p.M = 30 /\ p.WotsMsgLen = 32 /\ p.WotsSigLen = 35 /\ p.HPrime = 9
          /\ p.D = 7 /\ p.H = 63 /\ p.K = 14 /\ p.A = 12 /\ p.MD = 21
      BY <2>2 DEF Set
    <3> QED
      BY <2>1, <3>1, SetFits
  <2>4. /\ SigLen("128s") = 7856 /\ Token!signature_len_for["128s"] = 7856
        /\ Token!public_key_len["128s"] = 32
    BY DEF SigLen, Token!signature_len_for, Token!public_key_len, Token!ParamSets
  <2>5. VkLen(16) = 32 /\ SkLen(16) = 64
    BY DEF VkLen, SkLen
  <2> QED
    BY <2>3, <2>4, <2>5, KeyChunks DEF SetGood
<1>2. ASSUME NEW p \in ParameterSet("128f")
      PROVE  SetGood("128f", p)
  <2>1. DivCeil(33 * 6, 8) = 25 /\ DivCeil(66 - 3, 8) = 8 /\ DivCeil(3, 8) = 1
        /\ 6 * 33 = 33 * 6 /\ 24 * 2 = 48 /\ 24 * 2 + 3 = 51 /\ 32 * 2 = 64 /\ 32 * 2 + 3 = 67
    BY DEF DivCeil
  <2>2. p = Set(16, 34, 32, 35, 3, 22, 66, 33, 6, 25)
    BY <2>1 DEF ParameterSet, Sha2, Sha2L1, Sha2L35, Shake
  <2>3. p.N = 16 /\ Fits(p) /\ SignatureSize(p) = 17088
    <3>1. /\ p.N = 16 /\ p.M = 34 /\ p.WotsMsgLen = 32 /\ p.WotsSigLen = 35 /\ p.HPrime = 3
          /\ p.D = 22 /\ p.H = 66 /\ p.K = 33 /\ p.A = 6 /\ p.MD = 25
      BY <2>2 DEF Set
    <3> QED
      BY <2>1, <3>1, SetFits
  <2>4. /\ SigLen("128f") = 17088 /\ Token!signature_len_for["128f"] = 17088
        /\ Token!public_key_len["128f"] = 32
    BY DEF SigLen, Token!signature_len_for, Token!public_key_len, Token!ParamSets
  <2>5. VkLen(16) = 32 /\ SkLen(16) = 64
    BY DEF VkLen, SkLen
  <2> QED
    BY <2>3, <2>4, <2>5, KeyChunks DEF SetGood
<1>3. ASSUME NEW p \in ParameterSet("192s")
      PROVE  SetGood("192s", p)
  <2>1. DivCeil(17 * 14, 8) = 30 /\ DivCeil(63 - 9, 8) = 7 /\ DivCeil(9, 8) = 2
        /\ 14 * 17 = 17 * 14 /\ 24 * 2 = 48 /\ 24 * 2 + 3 = 51 /\ 32 * 2 = 64 /\ 32 * 2 + 3 = 67
    BY DEF DivCeil
  <2>2. p = Set(24, 39, 48, 51, 9, 7, 63, 17, 14, 30)
    BY <2>1 DEF ParameterSet, Sha2, Sha2L1, Sha2L35, Shake
  <2>3. p.N = 24 /\ Fits(p) /\ SignatureSize(p) = 16224
    <3>1. /\ p.N = 24 /\ p.M = 39 /\ p.WotsMsgLen = 48 /\ p.WotsSigLen = 51 /\ p.HPrime = 9
          /\ p.D = 7 /\ p.H = 63 /\ p.K = 17 /\ p.A = 14 /\ p.MD = 30
      BY <2>2 DEF Set
    <3> QED
      BY <2>1, <3>1, SetFits
  <2>4. /\ SigLen("192s") = 16224 /\ Token!signature_len_for["192s"] = 16224
        /\ Token!public_key_len["192s"] = 48
    BY DEF SigLen, Token!signature_len_for, Token!public_key_len, Token!ParamSets
  <2>5. VkLen(24) = 48 /\ SkLen(24) = 96
    BY DEF VkLen, SkLen
  <2> QED
    BY <2>3, <2>4, <2>5, KeyChunks DEF SetGood
<1>4. ASSUME NEW p \in ParameterSet("192f")
      PROVE  SetGood("192f", p)
  <2>1. DivCeil(33 * 8, 8) = 33 /\ DivCeil(66 - 3, 8) = 8 /\ DivCeil(3, 8) = 1
        /\ 8 * 33 = 33 * 8 /\ 24 * 2 = 48 /\ 24 * 2 + 3 = 51 /\ 32 * 2 = 64 /\ 32 * 2 + 3 = 67
    BY DEF DivCeil
  <2>2. p = Set(24, 42, 48, 51, 3, 22, 66, 33, 8, 33)
    BY <2>1 DEF ParameterSet, Sha2, Sha2L1, Sha2L35, Shake
  <2>3. p.N = 24 /\ Fits(p) /\ SignatureSize(p) = 35664
    <3>1. /\ p.N = 24 /\ p.M = 42 /\ p.WotsMsgLen = 48 /\ p.WotsSigLen = 51 /\ p.HPrime = 3
          /\ p.D = 22 /\ p.H = 66 /\ p.K = 33 /\ p.A = 8 /\ p.MD = 33
      BY <2>2 DEF Set
    <3> QED
      BY <2>1, <3>1, SetFits
  <2>4. /\ SigLen("192f") = 35664 /\ Token!signature_len_for["192f"] = 35664
        /\ Token!public_key_len["192f"] = 48
    BY DEF SigLen, Token!signature_len_for, Token!public_key_len, Token!ParamSets
  <2>5. VkLen(24) = 48 /\ SkLen(24) = 96
    BY DEF VkLen, SkLen
  <2> QED
    BY <2>3, <2>4, <2>5, KeyChunks DEF SetGood
<1>5. ASSUME NEW p \in ParameterSet("256s")
      PROVE  SetGood("256s", p)
  <2>1. DivCeil(22 * 14, 8) = 39 /\ DivCeil(64 - 8, 8) = 7 /\ DivCeil(8, 8) = 1
        /\ 14 * 22 = 22 * 14 /\ 24 * 2 = 48 /\ 24 * 2 + 3 = 51 /\ 32 * 2 = 64 /\ 32 * 2 + 3 = 67
    BY DEF DivCeil
  <2>2. p = Set(32, 47, 64, 67, 8, 8, 64, 22, 14, 39)
    BY <2>1 DEF ParameterSet, Sha2, Sha2L1, Sha2L35, Shake
  <2>3. p.N = 32 /\ Fits(p) /\ SignatureSize(p) = 29792
    <3>1. /\ p.N = 32 /\ p.M = 47 /\ p.WotsMsgLen = 64 /\ p.WotsSigLen = 67 /\ p.HPrime = 8
          /\ p.D = 8 /\ p.H = 64 /\ p.K = 22 /\ p.A = 14 /\ p.MD = 39
      BY <2>2 DEF Set
    <3> QED
      BY <2>1, <3>1, SetFits
  <2>4. /\ SigLen("256s") = 29792 /\ Token!signature_len_for["256s"] = 29792
        /\ Token!public_key_len["256s"] = 64
    BY DEF SigLen, Token!signature_len_for, Token!public_key_len, Token!ParamSets
  <2>5. VkLen(32) = 64 /\ SkLen(32) = 128
    BY DEF VkLen, SkLen
  <2> QED
    BY <2>3, <2>4, <2>5, KeyChunks DEF SetGood
<1>6. ASSUME NEW p \in ParameterSet("256f")
      PROVE  SetGood("256f", p)
  <2>1. DivCeil(35 * 9, 8) = 40 /\ DivCeil(68 - 4, 8) = 8 /\ DivCeil(4, 8) = 1
        /\ 9 * 35 = 35 * 9 /\ 24 * 2 = 48 /\ 24 * 2 + 3 = 51 /\ 32 * 2 = 64 /\ 32 * 2 + 3 = 67
    BY DEF DivCeil
  <2>2. p = Set(32, 49, 64, 67, 4, 17, 68, 35, 9, 40)
    BY <2>1 DEF ParameterSet, Sha2, Sha2L1, Sha2L35, Shake
  <2>3. p.N = 32 /\ Fits(p) /\ SignatureSize(p) = 49856
    <3>1. /\ p.N = 32 /\ p.M = 49 /\ p.WotsMsgLen = 64 /\ p.WotsSigLen = 67 /\ p.HPrime = 4
          /\ p.D = 17 /\ p.H = 68 /\ p.K = 35 /\ p.A = 9 /\ p.MD = 40
      BY <2>2 DEF Set
    <3> QED
      BY <2>1, <3>1, SetFits
  <2>4. /\ SigLen("256f") = 49856 /\ Token!signature_len_for["256f"] = 49856
        /\ Token!public_key_len["256f"] = 64
    BY DEF SigLen, Token!signature_len_for, Token!public_key_len, Token!ParamSets
  <2>5. VkLen(32) = 64 /\ SkLen(32) = 128
    BY DEF VkLen, SkLen
  <2> QED
    BY <2>3, <2>4, <2>5, KeyChunks DEF SetGood
<1>7. \A name \in Names : \A p \in ParameterSet(name) : SetGood(name, p)
  BY <1>1, <1>2, <1>3, <1>4, <1>5, <1>6 DEF Names
<1>8. ParametersFit
  BY <1>7 DEF ParametersFit, SetGood
<1> QED
  BY <1>8, PTL

-----------------------------------------------------------------------------
(* Context strings (signing_key.rs:190, verifying_key.rs:108).              *)

\* There are finitely many strings of a length.
LEMMA StringsOfLength ==
  ASSUME NEW n \in Nat
  PROVE  IsFiniteSet([1 .. n -> {0, 1}])
<1> DEFINE I == 1 .. n
           T == [I -> {0, 1}]
           bits == [A \in SUBSET I |-> [i \in I |-> IF i \in A THEN 1 ELSE 0]]
<1>1. IsFiniteSet(SUBSET I)
  <2>1. 1 \in Int /\ n \in Int
    OBVIOUS
  <2>2. IsFiniteSet(I)
    BY <2>1, FS_Interval
  <2> QED
    BY <2>2, FS_SUBSET
<1> HIDE DEF I
<1>2. bits \in [SUBSET I -> T]
  OBVIOUS
<1>3. ASSUME NEW e \in T
      PROVE  \E A \in SUBSET I : bits[A] = e
  <2> DEFINE A == {i \in I : e[i] = 1}
  <2>1. A \in SUBSET I
    OBVIOUS
  <2>2. bits[A] = [i \in I |-> IF i \in A THEN 1 ELSE 0]
    BY <2>1
  <2>3. ASSUME NEW i \in I
        PROVE  (IF i \in A THEN 1 ELSE 0) = e[i]
    BY <1>3
  <2>4. e = [i \in I |-> e[i]]
    BY <1>3
  <2>5. bits[A] = e
    BY <2>2, <2>3, <2>4
  <2> QED
    BY <2>1, <2>5
<1>4. bits \in Surjection(SUBSET I, T)
  <2> HIDE DEF bits, T
  <2> QED
    BY <1>2, <1>3 DEF Surjection
<1>5. IsFiniteSet(T)
  <2> HIDE DEF bits, T
  <2> QED
    BY <1>1, <1>4, FS_Surjection
<1> QED
  BY <1>5 DEF I

\* So there are finitely many in all.
LEMMA StringsFinite == IsFiniteSet(Strings)
<1> DEFINE N == 0 .. (CtxBound + 1)
           Family == {[1 .. n -> {0, 1}] : n \in N}
           ofLength == [n \in N |-> [1 .. n -> {0, 1}]]
<1>1. CtxBound \in Nat
  BY SlhDsaAssumption
<1>2. IsFiniteSet(N)
  <2>1. 0 \in Int /\ CtxBound + 1 \in Int
    BY <1>1
  <2> QED
    BY <2>1, FS_Interval
<1>3. \A n \in N : n \in Nat
  BY <1>1
<1>4. \A T \in Family : IsFiniteSet(T)
  <2> HIDE DEF N
  <2> QED
    BY <1>3, StringsOfLength
<1>5. ofLength \in Surjection(N, Family)
  <2> HIDE DEF N
  <2> QED
    BY DEF Surjection
<1>6. IsFiniteSet(Family)
  <2> HIDE DEF N, Family, ofLength
  <2> QED
    BY <1>2, <1>5, FS_Surjection
<1>7. IsFiniteSet(UNION Family)
  <2> HIDE DEF N, Family, ofLength
  <2> QED
    BY <1>4, <1>6, FS_UNION
<1> QED
  BY <1>7, Zenon DEF Strings

\* A string is a sequence.
LEMMA StringIs ==
  ASSUME NEW c \in Strings
  PROVE  c \in Seq({0, 1}) /\ Len(c) \in Nat
<1>1. CtxBound \in Nat
  BY SlhDsaAssumption
<1>2. PICK n \in 0 .. (CtxBound + 1) : c \in [1 .. n -> {0, 1}]
  BY Zenon DEF Strings
<1>3. n \in Nat
  BY <1>1
<1> QED
  BY <1>2, <1>3, SeqOfFunction

\* The context string and the message can be read off what is signed.
LEMMA ContextRead ==
  ASSUME NEW c \in Seq({0, 1}), NEW m \in Seq({0, 1}),
         NEW b \in Seq({0, 1}), NEW n \in Seq({0, 1}),
         <<0, Len(c)>> \o c \o m = <<0, Len(b)>> \o b \o n
  PROVE  c = b /\ m = n
<1> DEFINE s == <<0, Len(c)>> \o c
           u == <<0, Len(b)>> \o b
<1>1. /\ <<0, Len(c)>> \in Seq(Nat) /\ Len(<<0, Len(c)>>) = 2
      /\ <<0, Len(b)>> \in Seq(Nat) /\ Len(<<0, Len(b)>>) = 2
  OBVIOUS
<1>2. c \in Seq(Nat) /\ m \in Seq(Nat) /\ b \in Seq(Nat) /\ n \in Seq(Nat)
  OBVIOUS
<1>3. /\ s \in Seq(Nat) /\ Len(s) = 2 + Len(c) /\ s[2] = Len(c)
      /\ \A i \in 1 .. Len(c) : s[2 + i] = c[i]
  <2>1. /\ s \in Seq(Nat) /\ Len(s) = 2 + Len(c)
        /\ \A i \in 1 .. 2 : s[i] = <<0, Len(c)>>[i]
        /\ \A i \in 1 .. Len(c) : s[2 + i] = c[i]
    BY <1>1, <1>2, ConcatInto
  <2>2. <<0, Len(c)>>[2] = Len(c)
    OBVIOUS
  <2> QED
    BY <2>1, <2>2
<1>4. /\ u \in Seq(Nat) /\ Len(u) = 2 + Len(b) /\ u[2] = Len(b)
      /\ \A i \in 1 .. Len(b) : u[2 + i] = b[i]
  <2>1. /\ u \in Seq(Nat) /\ Len(u) = 2 + Len(b)
        /\ \A i \in 1 .. 2 : u[i] = <<0, Len(b)>>[i]
        /\ \A i \in 1 .. Len(b) : u[2 + i] = b[i]
    BY <1>1, <1>2, ConcatInto
  <2>2. <<0, Len(b)>>[2] = Len(b)
    OBVIOUS
  <2> QED
    BY <2>1, <2>2
<1>5. s \o m = u \o n
  OBVIOUS
<1>6. Len(c) \in Nat /\ Len(b) \in Nat /\ Len(m) \in Nat /\ Len(n) \in Nat
  OBVIOUS
<1> HIDE DEF s, u
<1>7. s \in Seq(Nat) /\ u \in Seq(Nat)
  BY <1>3, <1>4, Zenon
<1>8. /\ Len(s \o m) = Len(s) + Len(m)
      /\ \A i \in 1 .. Len(s) : (s \o m)[i] = s[i]
      /\ \A i \in 1 .. Len(m) : (s \o m)[Len(s) + i] = m[i]
  BY <1>2, <1>7, ConcatInto
<1>9. /\ Len(u \o n) = Len(u) + Len(n)
      /\ \A i \in 1 .. Len(u) : (u \o n)[i] = u[i]
      /\ \A i \in 1 .. Len(n) : (u \o n)[Len(u) + i] = n[i]
  BY <1>2, <1>7, ConcatInto
<1>10. Len(c) = Len(b)
  <2>1. (s \o m)[2] = s[2] /\ (u \o n)[2] = u[2]
    <3>1. 2 \in 1 .. Len(s) /\ 2 \in 1 .. Len(u)
      BY <1>3, <1>4, <1>6
    <3> QED
      BY <3>1, <1>8, <1>9, Zenon
  <2> QED
    BY <2>1, <1>3, <1>4, <1>5
<1>11. Len(s) = Len(u) /\ Len(m) = Len(n)
  BY <1>3, <1>4, <1>5, <1>6, <1>8, <1>9, <1>10
<1>12. ASSUME NEW i \in 1 .. Len(c)
       PROVE  c[i] = b[i]
  <2>1. 2 + i \in 1 .. Len(s) /\ 2 + i \in 1 .. Len(u) /\ i \in 1 .. Len(b)
    BY <1>3, <1>4, <1>6, <1>10
  <2>2. s[2 + i] = u[2 + i]
    BY <2>1, <1>5, <1>8, <1>9
  <2> QED
    BY <2>1, <2>2, <1>3, <1>4
<1>13. ASSUME NEW i \in 1 .. Len(m)
       PROVE  m[i] = n[i]
  <2>1. i \in 1 .. Len(n)
    BY <1>11
  <2>2. (s \o m)[Len(s) + i] = m[i] /\ (u \o n)[Len(u) + i] = n[i]
    BY <2>1, <1>8, <1>9
  <2> QED
    BY <2>2, <1>5, <1>11
<1>14. c = b
  BY <1>10, <1>12, SeqEqual
<1>15. m = n
  BY <1>11, <1>13, SeqEqual
<1> QED
  BY <1>14, <1>15

\* A message under a context string that is not too long is signed as no other
\* message under any other context string is, and one that is too long is refused
\* (signing_key.rs:190-201, verifying_key.rs:108-119).
THEOREM ContextsAreSeparate == Spec => []ContextsSeparate
<1> DEFINE allowed == {c \in Strings : Len(c) < CtxBound}
           pairs == allowed \X Strings
           signed == {with_context(c, m) : c \in allowed, m \in Strings}
           sign == [p \in pairs |-> with_context(p[1], p[2])]
<1>1. CtxBound \in Nat
  BY SlhDsaAssumption
<1>2. \A c \in Strings \ allowed : with_context(c, <<>>) = None
  <2> TAKE c \in Strings \ allowed
  <2>1. Len(c) \in Nat /\ ~(Len(c) < CtxBound)
    BY StringIs
  <2>2. Len(c) >= CtxBound
    BY <2>1, <1>1
  <2> QED
    BY <2>2, Zenon DEF with_context
<1>3. ASSUME NEW c \in allowed, NEW m \in Strings
      PROVE  with_context(c, m) = <<0, Len(c)>> \o c \o m
  <2>1. Len(c) \in Nat /\ Len(c) < CtxBound
    BY StringIs
  <2>2. ~(Len(c) >= CtxBound)
    BY <2>1, <1>1
  <2> QED
    BY <2>2, Zenon DEF with_context
<1>4. IsFiniteSet(pairs) /\ Cardinality(pairs) = Cardinality(allowed) * Cardinality(Strings)
  <2>1. allowed \in SUBSET Strings
    OBVIOUS
  <2> HIDE DEF allowed
  <2>2. IsFiniteSet(allowed)
    BY <2>1, StringsFinite, FS_Subset
  <2> QED
    BY <2>2, StringsFinite, FS_Product
<1>5. \A c \in allowed : c \in Seq({0, 1})
  BY StringIs
<1>6. \A m \in Strings : m \in Seq({0, 1})
  BY StringIs
<1> HIDE DEF allowed
<1>7. sign \in Surjection(pairs, signed)
  <2>1. sign \in [pairs -> signed]
    <3>1. ASSUME NEW p \in pairs
          PROVE  with_context(p[1], p[2]) \in signed
      <4>1. p[1] \in allowed /\ p[2] \in Strings
        OBVIOUS
      <4> DEFINE c == p[1]
                 m == p[2]
      <4>2. c \in allowed /\ m \in Strings
        BY <4>1
      <4> HIDE DEF c, m
      <4>3. with_context(c, m) \in signed
        BY <4>2, SMT
      <4> QED
        BY <4>3 DEF c, m
    <3> HIDE DEF signed, pairs
    <3> QED
      BY <3>1, Zenon
  <2>2. ASSUME NEW e \in signed
        PROVE  \E p \in pairs : sign[p] = e
    <3>1. \E c \in allowed, m \in Strings : e = with_context(c, m)
      BY SMT
    <3> HIDE DEF sign, pairs, signed
    <3>2. PICK c \in allowed, m \in Strings : e = with_context(c, m)
      BY <3>1, SMT
    <3> USE DEF sign, pairs
    <3>3. <<c, m>> \in pairs /\ <<c, m>>[1] = c /\ <<c, m>>[2] = m
      OBVIOUS
    <3>4. sign[<<c, m>>] = with_context(c, m)
      BY <3>3
    <3> QED
      BY <3>2, <3>3, <3>4, Zenon
  <2> HIDE DEF sign, pairs, signed
  <2> QED
    BY <2>1, <2>2, Zenon DEF Surjection
<1>8. sign \in Injection(pairs, signed)
  <2>1. ASSUME NEW p \in pairs, NEW q \in pairs, sign[p] = sign[q]
        PROVE  p = q
    <3>1. PICK c \in allowed, m \in Strings : p = <<c, m>>
      OBVIOUS
    <3>2. PICK b \in allowed, n \in Strings : q = <<b, n>>
      OBVIOUS
    <3>3. sign[p] = <<0, Len(c)>> \o c \o m
      BY <3>1, <1>3
    <3>4. sign[q] = <<0, Len(b)>> \o b \o n
      BY <3>2, <1>3
    <3>5. <<0, Len(c)>> \o c \o m = <<0, Len(b)>> \o b \o n
      BY <3>3, <3>4, <2>1, Zenon
    <3>6. c = b /\ m = n
      <4>1. c \in Seq({0, 1}) /\ m \in Seq({0, 1}) /\ b \in Seq({0, 1}) /\ n \in Seq({0, 1})
        BY <1>5, <1>6
      <4> QED
        BY <4>1, <3>5, ContextRead
    <3> QED
      BY <3>1, <3>2, <3>6, Zenon
  <2>2. sign \in [pairs -> signed]
    <3> HIDE DEF sign, pairs, signed
    <3> QED
      BY <1>7, Zenon DEF Surjection
  <2>3. IsInjective(sign)
    BY <2>1, Zenon DEF IsInjective
  <2> HIDE DEF sign, pairs, signed
  <2> QED
    BY <2>2, <2>3, Zenon DEF Injection
<1>9. Cardinality(signed) = Cardinality(allowed) * Cardinality(Strings)
  <2> HIDE DEF sign, pairs, signed
  <2>1. Cardinality(signed) = Cardinality(pairs)
    BY <1>4, <1>7, <1>8, FS_Surjection
  <2> QED
    BY <2>1, <1>4
<1>10. ContextsSeparate
  BY <1>2, <1>9 DEF ContextsSeparate, allowed
<1> QED
  BY <1>10, PTL

-----------------------------------------------------------------------------
(* Addresses (address.rs:3-8).                                              *)

\* What is hashed for one-time keys, trees and FORS trees, by its place: layer l,
\* tree n, key pair k, and in them chain c and step s, or height z and index i.
KeyAt(l, n, k) == [AtLayer(l, n) EXCEPT !.key_pair_adrs = k]
Link(l, n, k, c, s) == wots_chain(wots_sk(KeyAt(l, n, k), c), 0, s, OnChain(KeyAt(l, n, k), c))
Node(l, n, z, i) == xmss_node(i, z, AtLayer(l, n))
Secret(n, k, i) == fors_sk_gen(NewForsTree(n, k), i)
ForsNodeAt(n, k, z, i) == fors_node(i, z, NewForsTree(n, k))
ForsKey(n, k) == t(fors_roots(NewForsTree(n, k)), [i \in 1 .. P.K |-> ForsNodeAt(n, k, P.A, i - 1)])

\* The words of an address, and what a hash is made of: nothing, one value or two.
Words(a, b, c, d, e, g) == <<a, b, c, d, e, g>>
Alone == <<>>
One(x) == <<x>>
Two(x, y) == <<x, y>>

\* A layer is kept in a byte.
Layers == {l \in Nat : l < 256}

\* The address of a hash.
LEMMA HashAt ==
  ASSUME NEW a, NEW parts
  PROVE  /\ Hash(a, parts).adrs = compressed(a) /\ Hash(a, parts).of = parts
  BY DEF Hash

\* Three words and three more.
LEMMA SixWords ==
  ASSUME NEW a, NEW b, NEW c, NEW d, NEW e, NEW g
  PROVE  <<a, b, c>> \o <<d, e, g>> = Words(a, b, c, d, e, g)
<1> DEFINE S == {a, b, c, d, e, g}
           s == <<a, b, c>>
           u == <<d, e, g>>
           r == <<a, b, c, d, e, g>>
<1>1. /\ s \in Seq(S) /\ Len(s) = 3 /\ u \in Seq(S) /\ Len(u) = 3
      /\ r \in Seq(S) /\ Len(r) = 6
  OBVIOUS
<1>2. /\ r[1] = s[1] /\ r[2] = s[2] /\ r[3] = s[3]
      /\ r[4] = u[1] /\ r[5] = u[2] /\ r[6] = u[3]
  OBVIOUS
<1> HIDE DEF s, u, r, S
<1>3. s \in Seq(S) /\ u \in Seq(S)
  BY <1>1
<1>4. /\ s \o u \in Seq(S) /\ Len(s \o u) = Len(s) + Len(u)
      /\ \A i \in 1 .. Len(s) : (s \o u)[i] = s[i]
      /\ \A i \in 1 .. Len(u) : (s \o u)[Len(s) + i] = u[i]
  BY <1>3, ConcatInto
<1> DEFINE v == s \o u
<1>5. v \in Seq(S) /\ Len(v) = 6
  BY <1>1, <1>4
<1>6. v[1] = s[1] /\ v[2] = s[2] /\ v[3] = s[3] /\ v[4] = u[1] /\ v[5] = u[2] /\ v[6] = u[3]
  <2>1. (\A i \in 1 .. 3 : v[i] = s[i]) /\ (\A i \in 1 .. 3 : v[3 + i] = u[i])
    BY <1>1, <1>4
  <2> HIDE DEF v
  <2> QED
    BY <2>1
<1> HIDE DEF v
<1>7. ASSUME NEW i \in 1 .. Len(v)
      PROVE  v[i] = r[i]
  <2>1. i = 1 \/ i = 2 \/ i = 3 \/ i = 4 \/ i = 5 \/ i = 6
    BY <1>5
  <2> QED
    BY <2>1, <1>2, <1>6, Zenon
<1>8. v = r
  BY <1>1, <1>5, <1>7, SeqEqual
<1> QED
  BY <1>8 DEF v, s, u, r, Words

\* The compressed address, by its type.
LEMMA CompressedIs ==
  ASSUME NEW a, a.layer_adrs \in Layers
  PROVE  /\ a.type_const \in {WotsHash, WotsPrf} =>
              compressed(a) = Words(a.layer_adrs, a.tree_adrs_low, a.type_const,
                                a.key_pair_adrs, a.chain_adrs, a.hash_adrs)
         /\ a.type_const = WotsPk =>
              compressed(a) = Words(a.layer_adrs, a.tree_adrs_low, WotsPk, a.key_pair_adrs, 0, 0)
         /\ a.type_const = ForsRoots =>
              compressed(a) = Words(a.layer_adrs, a.tree_adrs_low, ForsRoots, a.key_pair_adrs, 0, 0)
         /\ a.type_const = HashTree =>
              compressed(a) = Words(a.layer_adrs, a.tree_adrs_low, HashTree, 0,
                                a.tree_height, a.tree_index)
         /\ a.type_const \in {ForsTree, ForsPrf} =>
              compressed(a) = Words(a.layer_adrs, a.tree_adrs_low, a.type_const,
                                a.key_pair_adrs, a.tree_height, a.tree_index)
<1> DEFINE first == <<a.layer_adrs, a.tree_adrs_low, a.type_const>>
<1>1. a.layer_adrs % 256 = a.layer_adrs
  BY DEF Layers
<1>2. a.type_const \in {WotsHash, WotsPrf, WotsPk, HashTree, ForsTree, ForsPrf, ForsRoots}
        => compressed(a) = first \o LastWords(a)
  <2>1. a.type_const \in {WotsHash, WotsPrf, WotsPk, HashTree, ForsTree, ForsPrf, ForsRoots}
          => a.type_const % 256 = a.type_const
    BY DEF WotsHash, WotsPrf, WotsPk, HashTree, ForsTree, ForsPrf, ForsRoots
  <2> QED
    BY <1>1, <2>1, Zenon DEF compressed
<1>3. /\ a.type_const \in {WotsHash, WotsPrf} =>
           LastWords(a) = <<a.key_pair_adrs, a.chain_adrs, a.hash_adrs>>
      /\ a.type_const \in {WotsPk, ForsRoots} => LastWords(a) = <<a.key_pair_adrs, 0, 0>>
      /\ a.type_const = HashTree => LastWords(a) = <<0, a.tree_height, a.tree_index>>
      /\ a.type_const \in {ForsTree, ForsPrf} =>
           LastWords(a) = <<a.key_pair_adrs, a.tree_height, a.tree_index>>
  BY DEF LastWords, WotsHash, WotsPrf, WotsPk, HashTree, ForsTree, ForsPrf, ForsRoots
<1>4. \A d, e, g : first \o <<d, e, g>>
        = Words(a.layer_adrs, a.tree_adrs_low, a.type_const, d, e, g)
  BY SixWords
<1> HIDE DEF first
<1> QED
  BY <1>2, <1>3, <1>4

\* The addresses of the key pairs of a layer, and of the chains of one.
LEMMA KeyAtIs ==
  ASSUME NEW l \in Nat, NEW n \in Nat, NEW k \in Nat
  PROVE  LET key == KeyAt(l, n, k)
         IN  /\ key \in WotsAdrs
             /\ key.layer_adrs = l /\ key.tree_adrs_low = n /\ key.type_const = WotsHash
             /\ key.key_pair_adrs = k
<1> DEFINE key == KeyAt(l, n, k)
           at == AtLayer(l, n)
<1>1. at \in WotsAdrs
  BY AtLayerType
<1>2. at.layer_adrs = l /\ at.tree_adrs_low = n /\ at.type_const = WotsHash
  BY DEF AtLayer, DefaultWotsHash
<1>3. key = [at EXCEPT !.key_pair_adrs = k]
  BY DEF KeyAt
<1> HIDE DEF key, at
<1>4. key \in WotsAdrs
  BY <1>1, <1>3, WotsAdrsSteps
<1>5. /\ key.layer_adrs = at.layer_adrs /\ key.tree_adrs_low = at.tree_adrs_low
      /\ key.type_const = at.type_const /\ key.key_pair_adrs = k
  BY <1>1, <1>3 DEF WotsAdrs
<1> QED
  BY <1>2, <1>4, <1>5 DEF key

\* A chain that is one step longer.
LEMMA ChainLonger ==
  ASSUME NEW x, NEW s \in Nat, NEW adrs
  PROVE  /\ wots_chain(x, 0, 0, adrs) = x
         /\ wots_chain(x, 0, s + 1, adrs)
              = f([adrs EXCEPT !.hash_adrs = s], wots_chain(x, 0, s, adrs))
<1> DEFINE y == wots_chain(x, 0, s, adrs)
           n == s + 1
<1>1. wots_chain(x, 0, 0, adrs) = x
  <2>1. PICK g : Chain!Solves(g, adrs, x, 0, 0 + 0) /\ wots_chain(x, 0, 0, adrs) = g[0 + 0]
    <3>1. 0 \in Nat
      OBVIOUS
    <3> QED
      BY <3>1, ChainFollows
  <2>2. g[0] = x
    BY <2>1 DEF Chain!Solves
  <2> QED
    BY <2>1, <2>2
<1>2. n \in Nat /\ s \in 0 .. n /\ n - s = 1
  OBVIOUS
<1>3. wots_chain(y, s, 1, adrs) = f([adrs EXCEPT !.hash_adrs = s], y)
  <2>1. PICK g : Chain!Solves(g, adrs, y, s, s + 1) /\ wots_chain(y, s, 1, adrs) = g[s + 1]
    <3>1. s \in Nat /\ 1 \in Nat
      OBVIOUS
    <3> HIDE DEF y
    <3> QED
      BY <3>1, ChainFollows
  <2> HIDE DEF y
  <2>2. g = [j \in s .. n |-> IF j = s THEN y ELSE ChainStep(adrs, j, g[j - 1])]
    BY <2>1 DEF Chain!Solves, n
  <2> HIDE DEF n
  <2>3. s \in s .. n /\ n \in s .. n /\ n # s /\ n - 1 = s /\ n = s + 1
    BY <1>2
  <2>4. g[s] = y /\ g[n] = ChainStep(adrs, n, g[n - 1])
    BY <2>2, <2>3
  <2>5. g[n] = ChainStep(adrs, n, y)
    BY <2>3, <2>4, Zenon
  <2>6. ChainStep(adrs, n, y) = f([adrs EXCEPT !.hash_adrs = s], y)
    BY <2>3 DEF ChainStep
  <2> QED
    BY <2>1, <2>3, <2>5, <2>6
<1> HIDE DEF n
<1>4. wots_chain(y, s, n - s, adrs) = wots_chain(x, 0, n, adrs)
  BY <1>2, ChainComposes
<1> HIDE DEF y
<1>5. wots_chain(x, 0, n, adrs) = f([adrs EXCEPT !.hash_adrs = s], y)
  BY <1>2, <1>3, <1>4
<1> QED
  BY <1>1, <1>5 DEF n, y

\* The address of the links of a chain, and that of its secret.
LEMMA ChainAt ==
  ASSUME NEW l \in Layers, NEW n \in Nat, NEW k \in Nat, NEW c \in Chains
  PROVE  LET on == OnChain(KeyAt(l, n, k), c)
             a  == OnChain(prf_adrs(KeyAt(l, n, k)), c)
         IN  /\ on \in WotsAdrs /\ on.layer_adrs = l /\ on.tree_adrs_low = n
             /\ on.type_const = WotsHash /\ on.key_pair_adrs = k /\ on.chain_adrs = c - 1
             /\ compressed(a) = Words(l, n, WotsPrf, k, c - 1, 0)
<1> DEFINE key == KeyAt(l, n, k)
           on == OnChain(key, c)
           prf == prf_adrs(key)
           a == OnChain(prf, c)
<1>1. l \in Nat /\ c - 1 \in Nat
  BY Numbers DEF Layers, Chains
<1>2. /\ key \in WotsAdrs
      /\ key.layer_adrs = l /\ key.tree_adrs_low = n /\ key.type_const = WotsHash
      /\ key.key_pair_adrs = k
  BY <1>1, KeyAtIs
<1> HIDE DEF key
<1>3. /\ on \in WotsAdrs /\ on.layer_adrs = l /\ on.tree_adrs_low = n /\ on.type_const = WotsHash
      /\ on.key_pair_adrs = k /\ on.chain_adrs = c - 1
  BY <1>1, <1>2 DEF OnChain, WotsAdrs
<1>4. /\ prf \in WotsAdrs /\ prf.layer_adrs = l /\ prf.tree_adrs_low = n
      /\ prf.type_const = WotsPrf /\ prf.key_pair_adrs = k /\ prf.hash_adrs = 0
  BY <1>2 DEF prf_adrs, WotsAdrs
<1> HIDE DEF prf
<1>5. /\ a.layer_adrs = l /\ a.tree_adrs_low = n /\ a.type_const = WotsPrf
      /\ a.key_pair_adrs = k /\ a.chain_adrs = c - 1 /\ a.hash_adrs = 0
  BY <1>1, <1>4 DEF OnChain, WotsAdrs
<1> HIDE DEF on, a
<1>6. compressed(a) = Words(l, n, WotsPrf, k, c - 1, 0)
  BY <1>5, CompressedIs
<1> QED
  BY <1>3, <1>6 DEF on, a, prf, key

\* The first link of a chain is its secret.
LEMMA LinkFirst ==
  ASSUME NEW l \in Layers, NEW n \in Nat, NEW k \in Nat, NEW c \in Chains
  PROVE  Link(l, n, k, c, 0).adrs = Words(l, n, WotsPrf, k, c - 1, 0) /\ Link(l, n, k, c, 0).of = Alone
<1> DEFINE a == OnChain(prf_adrs(KeyAt(l, n, k)), c)
           x == Link(l, n, k, c, 0)
<1>1. compressed(a) = Words(l, n, WotsPrf, k, c - 1, 0)
  BY ChainAt
<1>2. x = wots_chain(Hash(a, Alone), 0, 0, OnChain(KeyAt(l, n, k), c))
  BY DEF Link, wots_sk, prf_sk, Alone
<1> HIDE DEF a, x
<1>3. x = Hash(a, Alone)
  <2>1. 0 \in Nat
    OBVIOUS
  <2> QED
    BY <1>2, <2>1, ChainLonger
<1>4. x.adrs = compressed(a) /\ x.of = Alone
  BY <1>3, HashAt
<1> QED
  BY <1>1, <1>4 DEF x

\* Each later one hashes the one before.
LEMMA LinkNext ==
  ASSUME NEW l \in Layers, NEW n \in Nat, NEW k \in Nat, NEW c \in Chains, NEW s \in Nat \ {0}
  PROVE  /\ Link(l, n, k, c, s).adrs = Words(l, n, WotsHash, k, c - 1, s - 1)
         /\ Link(l, n, k, c, s).of = One(Link(l, n, k, c, s - 1))
<1> DEFINE on == OnChain(KeyAt(l, n, k), c)
           sk == wots_sk(KeyAt(l, n, k), c)
           y == s - 1
           x == Link(l, n, k, c, s)
           z == Link(l, n, k, c, y)
           at == [on EXCEPT !.hash_adrs = y]
<1>1. /\ on \in WotsAdrs /\ on.layer_adrs = l /\ on.tree_adrs_low = n /\ on.type_const = WotsHash
      /\ on.key_pair_adrs = k /\ on.chain_adrs = c - 1
  BY ChainAt
<1>2. x = wots_chain(sk, 0, s, on) /\ z = wots_chain(sk, 0, y, on)
  BY DEF Link
<1>3. y \in Nat /\ s = y + 1
  OBVIOUS
<1> HIDE DEF on, sk, x, z, y
<1>4. wots_chain(sk, 0, y + 1, on) = f(at, wots_chain(sk, 0, y, on))
  BY <1>3, ChainLonger
<1>5. x = Hash(at, One(z))
  BY <1>2, <1>3, <1>4 DEF f, One
<1>6. /\ at.layer_adrs = l /\ at.tree_adrs_low = n /\ at.type_const = WotsHash
      /\ at.key_pair_adrs = k /\ at.chain_adrs = c - 1 /\ at.hash_adrs = y
  BY <1>1, <1>3 DEF WotsAdrs
<1> HIDE DEF at
<1>7. compressed(at) = Words(l, n, WotsHash, k, c - 1, y)
  BY <1>6, CompressedIs
<1>8. x.adrs = compressed(at) /\ x.of = One(z)
  BY <1>5, HashAt
<1> QED
  BY <1>7, <1>8 DEF x, z, y

\* A leaf is the hash of the last links of its chains.
LEMMA NodeFirst ==
  ASSUME NEW l \in Layers, NEW n \in Nat, NEW i \in Nat
  PROVE  /\ Node(l, n, 0, i).adrs = Words(l, n, WotsPk, i, 0, 0)
         /\ Node(l, n, 0, i).of = [c \in Chains |-> Link(l, n, i, c, W - 1)]
<1> DEFINE key == KeyAt(l, n, i)
           pk == pk_adrs(key)
           ends == [c \in Chains |-> Link(l, n, i, c, W - 1)]
           x == Node(l, n, 0, i)
<1>1. l \in Nat
  BY DEF Layers
<1>2. x = wots_pk_gen(key)
  BY XmssNode DEF Node, KeyAt
<1>3. wots_pk_gen(key) = Hash(pk, ends)
  BY DEF wots_pk_gen, t, Link
<1>4. key.layer_adrs = l /\ key.tree_adrs_low = n /\ key.key_pair_adrs = i
  BY <1>1, KeyAtIs
<1> HIDE DEF key, ends, x
<1>5. /\ pk.layer_adrs = l /\ pk.tree_adrs_low = n /\ pk.type_const = WotsPk
      /\ pk.key_pair_adrs = i
  BY <1>4 DEF pk_adrs
<1> HIDE DEF pk
<1>6. compressed(pk) = Words(l, n, WotsPk, i, 0, 0)
  BY <1>5, CompressedIs
<1>7. x.adrs = compressed(pk) /\ x.of = ends
  BY <1>2, <1>3, HashAt
<1> QED
  BY <1>6, <1>7 DEF x, ends

\* An inner node is the hash of two.
LEMMA NodeNext ==
  ASSUME NEW l \in Layers, NEW n \in Nat, NEW i \in Nat, NEW z \in Nat \ {0}
  PROVE  /\ Node(l, n, z, i).adrs = Words(l, n, HashTree, 0, z, i)
         /\ Node(l, n, z, i).of = Two(Node(l, n, z - 1, 2 * i), Node(l, n, z - 1, 2 * i + 1))
<1> DEFINE adrs == AtLayer(l, n)
           two == Two(Node(l, n, z - 1, 2 * i), Node(l, n, z - 1, 2 * i + 1))
           up == tree_adrs(adrs)
           a == [up EXCEPT !.tree_height = z, !.tree_index = i]
           x == Node(l, n, z, i)
<1>1. l \in Nat
  BY DEF Layers
<1>2. xmss_node(i, z, adrs) = h(a, xmss_node(2 * i, z - 1, adrs), xmss_node(2 * i + 1, z - 1, adrs))
  BY XmssNode
<1>3. x = Hash(a, two)
  BY <1>2 DEF Node, h, Two
<1>4. up \in TreeAdrs /\ up.layer_adrs = l /\ up.tree_adrs_low = n /\ up.type_const = HashTree
  <2>1. adrs \in WotsAdrs /\ adrs.layer_adrs = l /\ adrs.tree_adrs_low = n
    BY <1>1, AtLayerType DEF AtLayer, DefaultWotsHash
  <2> HIDE DEF adrs
  <2> QED
    BY <2>1, WotsAdrsSteps DEF tree_adrs
<1> HIDE DEF up, two, x
<1>5. /\ a.layer_adrs = l /\ a.tree_adrs_low = n /\ a.type_const = HashTree
      /\ a.tree_height = z /\ a.tree_index = i
  BY <1>4 DEF TreeAdrs
<1> HIDE DEF a
<1>6. compressed(a) = Words(l, n, HashTree, 0, z, i)
  BY <1>5, CompressedIs
<1>7. x.adrs = compressed(a) /\ x.of = two
  BY <1>3, HashAt
<1> QED
  BY <1>6, <1>7 DEF two, x

\* The address of a node of a FORS tree.
LEMMA ForsTreeAt ==
  ASSUME NEW n \in Nat, NEW k \in Nat, NEW i \in Nat, NEW z \in Nat
  PROVE  compressed(AtNode(NewForsTree(n, k), z, i)) = Words(0, n, ForsTree, k, z, i)
<1> DEFINE adrs == NewForsTree(n, k)
           a == AtNode(adrs, z, i)
<1>1. 0 \in Layers
  BY DEF Layers
<1>2. /\ adrs \in ForsAdrs /\ adrs.layer_adrs = 0 /\ adrs.tree_adrs_low = n
      /\ adrs.type_const = ForsTree /\ adrs.key_pair_adrs = k
  BY DEF NewForsTree, ForsAdrs
<1> HIDE DEF adrs
<1>3. /\ a.layer_adrs = 0 /\ a.tree_adrs_low = n /\ a.type_const = ForsTree
      /\ a.key_pair_adrs = k /\ a.tree_height = z /\ a.tree_index = i
  BY <1>2 DEF AtNode, ForsAdrs
<1> HIDE DEF a
<1>4. compressed(a) = Words(0, n, ForsTree, k, z, i)
  BY <1>1, <1>3, CompressedIs
<1> QED
  BY <1>4 DEF a, adrs

\* A secret is a hash of nothing.
LEMMA SecretIs ==
  ASSUME NEW n \in Nat, NEW k \in Nat, NEW i \in Nat
  PROVE  Secret(n, k, i).adrs = Words(0, n, ForsPrf, k, 0, i) /\ Secret(n, k, i).of = Alone
<1> DEFINE adrs == NewForsTree(n, k)
           own == fors_prf_adrs(adrs)
           prf == [own EXCEPT !.tree_index = i]
           x == Secret(n, k, i)
<1>1. 0 \in Layers
  BY DEF Layers
<1>2. x = Hash(prf, Alone)
  BY DEF Secret, fors_sk_gen, prf_sk, Alone
<1>3. /\ adrs \in ForsAdrs /\ adrs.layer_adrs = 0 /\ adrs.tree_adrs_low = n
      /\ adrs.type_const = ForsTree /\ adrs.key_pair_adrs = k
  BY DEF NewForsTree, ForsAdrs
<1> HIDE DEF adrs
<1>4. /\ own \in ForsAdrs /\ own.layer_adrs = 0 /\ own.tree_adrs_low = n
      /\ own.type_const = ForsPrf /\ own.key_pair_adrs = k /\ own.tree_height = 0
  BY <1>3 DEF fors_prf_adrs, ForsAdrs
<1> HIDE DEF own
<1>5. /\ prf.layer_adrs = 0 /\ prf.tree_adrs_low = n /\ prf.type_const = ForsPrf
      /\ prf.key_pair_adrs = k /\ prf.tree_height = 0 /\ prf.tree_index = i
  BY <1>4 DEF ForsAdrs
<1> HIDE DEF x, prf
<1>6. compressed(prf) = Words(0, n, ForsPrf, k, 0, i)
  BY <1>1, <1>5, CompressedIs
<1>7. x.adrs = compressed(prf) /\ x.of = Alone
  BY <1>2, HashAt
<1> QED
  BY <1>6, <1>7 DEF x

\* A leaf of a FORS tree is the hash of a secret.
LEMMA ForsFirst ==
  ASSUME NEW n \in Nat, NEW k \in Nat, NEW i \in Nat
  PROVE  /\ ForsNodeAt(n, k, 0, i).adrs = Words(0, n, ForsTree, k, 0, i)
         /\ ForsNodeAt(n, k, 0, i).of = One(Secret(n, k, i))
<1> DEFINE a == AtNode(NewForsTree(n, k), 0, i)
           x == ForsNodeAt(n, k, 0, i)
           y == One(Secret(n, k, i))
<1>1. compressed(a) = Words(0, n, ForsTree, k, 0, i)
  <2>1. 0 \in Nat
    OBVIOUS
  <2> QED
    BY <2>1, ForsTreeAt
<1>2. x = Hash(a, y)
  BY ForsNode DEF ForsNodeAt, Secret, f, One
<1> HIDE DEF x, y, a
<1>3. x.adrs = compressed(a) /\ x.of = y
  BY <1>2, HashAt
<1> QED
  BY <1>1, <1>3 DEF x, y

\* An inner node of one is the hash of two.
LEMMA ForsNext ==
  ASSUME NEW n \in Nat, NEW k \in Nat, NEW i \in Nat, NEW z \in Nat \ {0}
  PROVE  /\ ForsNodeAt(n, k, z, i).adrs = Words(0, n, ForsTree, k, z, i)
         /\ ForsNodeAt(n, k, z, i).of
              = Two(ForsNodeAt(n, k, z - 1, 2 * i), ForsNodeAt(n, k, z - 1, 2 * i + 1))
<1> DEFINE adrs == NewForsTree(n, k)
           a == AtNode(adrs, z, i)
           x == ForsNodeAt(n, k, z, i)
           two == Two(ForsNodeAt(n, k, z - 1, 2 * i), ForsNodeAt(n, k, z - 1, 2 * i + 1))
<1>1. compressed(a) = Words(0, n, ForsTree, k, z, i)
  BY ForsTreeAt
<1>2. fors_node(i, z, adrs) = h(a, fors_node(2 * i, z - 1, adrs), fors_node(2 * i + 1, z - 1, adrs))
  BY ForsNode
<1>3. x = Hash(a, two)
  BY <1>2 DEF ForsNodeAt, h, Two
<1> HIDE DEF x, two, a
<1>4. x.adrs = compressed(a) /\ x.of = two
  BY <1>3, HashAt
<1> QED
  BY <1>1, <1>4 DEF x, two

\* A FORS public key is the hash of the roots of its trees.
LEMMA ForsKeyIs ==
  ASSUME NEW n \in Nat, NEW k \in Nat
  PROVE  /\ ForsKey(n, k).adrs = Words(0, n, ForsRoots, k, 0, 0)
         /\ ForsKey(n, k).of = [i \in 1 .. P.K |-> ForsNodeAt(n, k, P.A, i - 1)]
<1> DEFINE adrs == NewForsTree(n, k)
           own == fors_roots(adrs)
           roots == [i \in 1 .. P.K |-> ForsNodeAt(n, k, P.A, i - 1)]
           x == ForsKey(n, k)
<1>1. 0 \in Layers
  BY DEF Layers
<1>2. x = Hash(own, roots)
  BY DEF ForsKey, t
<1>3. adrs.tree_adrs_low = n /\ adrs.key_pair_adrs = k
  BY DEF NewForsTree
<1> HIDE DEF adrs
<1>4. /\ own.layer_adrs = 0 /\ own.tree_adrs_low = n /\ own.type_const = ForsRoots
      /\ own.key_pair_adrs = k
  BY <1>3 DEF fors_roots
<1> HIDE DEF x, own, roots
<1>5. compressed(own) = Words(0, n, ForsRoots, k, 0, 0)
  BY <1>1, <1>4, CompressedIs
<1>6. x.adrs = compressed(own) /\ x.of = roots
  BY <1>2, HashAt
<1> QED
  BY <1>5, <1>6 DEF x, roots

\* A value with a place.
IsLink(v) == \E l \in Layers, n \in Nat, k \in Nat, c \in Chains, s \in Nat : v = Link(l, n, k, c, s)
IsNode(v) == \E l \in Layers, n \in Nat, z \in Nat, i \in Nat : v = Node(l, n, z, i)
IsSecret(v) == \E n \in Nat, k \in Nat, i \in Nat : v = Secret(n, k, i)
IsForsNode(v) == \E n \in Nat, k \in Nat, z \in Nat, i \in Nat : v = ForsNodeAt(n, k, z, i)
IsForsKey(v) == \E n \in Nat, k \in Nat : v = ForsKey(n, k)
Placed(v) == IsLink(v) \/ IsNode(v) \/ IsSecret(v) \/ IsForsNode(v) \/ IsForsKey(v)

\* The value that belongs to an address.
At(a) ==
  IF a[3] = WotsPrf THEN Link(a[1], a[2], a[4], a[5] + 1, 0)
  ELSE IF a[3] = WotsHash THEN Link(a[1], a[2], a[4], a[5] + 1, a[6] + 1)
  ELSE IF a[3] = WotsPk THEN Node(a[1], a[2], 0, a[4])
  ELSE IF a[3] = HashTree THEN Node(a[1], a[2], a[5], a[6])
  ELSE IF a[3] = ForsPrf THEN Secret(a[2], a[4], a[6])
  ELSE IF a[3] = ForsRoots THEN ForsKey(a[2], a[4])
  ELSE ForsNodeAt(a[2], a[4], a[5], a[6])

\* The words of an address.
LEMMA WordsOf ==
  ASSUME NEW a, NEW b, NEW c, NEW d, NEW e, NEW g, NEW r, r = Words(a, b, c, d, e, g)
  PROVE  r[1] = a /\ r[2] = b /\ r[3] = c /\ r[4] = d /\ r[5] = e /\ r[6] = g
  BY DEF Words

\* A value with a place is the one that belongs to its address: the address tells
\* the type, and with it which of the words are which.
LEMMA PlacedAt ==
  ASSUME NEW v, Placed(v)
  PROVE  v = At(v.adrs)
<1> DEFINE r == v.adrs
<1>1. /\ WotsHash # WotsPrf /\ WotsPk # WotsPrf /\ WotsPk # WotsHash
      /\ HashTree # WotsPrf /\ HashTree # WotsHash /\ HashTree # WotsPk
      /\ ForsPrf # WotsPrf /\ ForsPrf # WotsHash /\ ForsPrf # WotsPk /\ ForsPrf # HashTree
      /\ ForsTree # WotsPrf /\ ForsTree # WotsHash /\ ForsTree # WotsPk /\ ForsTree # HashTree
      /\ ForsTree # ForsPrf
      /\ ForsRoots # WotsPrf /\ ForsRoots # WotsHash /\ ForsRoots # WotsPk /\ ForsRoots # HashTree
      /\ ForsRoots # ForsPrf /\ ForsTree # ForsRoots
  BY DEF WotsHash, WotsPrf, WotsPk, HashTree, ForsTree, ForsPrf, ForsRoots
<1>2. CASE IsLink(v)
  <2>1. PICK l \in Layers, n \in Nat, k \in Nat, c \in Chains, s \in Nat : v = Link(l, n, k, c, s)
    BY <1>2 DEF IsLink
  <2>2. (c - 1) + 1 = c /\ (s - 1) + 1 = s
    BY Numbers DEF Chains
  <2>3. CASE s = 0
    <3>1. r = Words(l, n, WotsPrf, k, c - 1, 0) /\ v = Link(l, n, k, c, 0)
      BY <2>1, <2>3, LinkFirst
    <3>2. r[1] = l /\ r[2] = n /\ r[3] = WotsPrf /\ r[4] = k /\ r[5] = c - 1
      BY <3>1, WordsOf
    <3> HIDE DEF r
    <3>3. At(r) = Link(l, n, k, c, 0)
      BY <2>2, <3>2, Zenon DEF At
    <3> QED
      BY <3>1, <3>3 DEF r
  <2>4. CASE s # 0
    <3>1. s \in Nat \ {0}
      BY <2>4
    <3>2. Link(l, n, k, c, s).adrs = Words(l, n, WotsHash, k, c - 1, s - 1)
      BY <3>1, LinkNext
    <3>3. r = Words(l, n, WotsHash, k, c - 1, s - 1)
      BY <2>1, <3>2, Zenon
    <3>4. r[1] = l /\ r[2] = n /\ r[3] = WotsHash /\ r[4] = k /\ r[5] = c - 1 /\ r[6] = s - 1
      BY <3>3, WordsOf
    <3> HIDE DEF r
    <3>5. At(r) = Link(l, n, k, c, s)
      BY <1>1, <2>2, <3>4, Zenon DEF At
    <3> QED
      BY <2>1, <3>5 DEF r
  <2> QED
    BY <2>3, <2>4
<1>3. CASE IsNode(v)
  <2>1. PICK l \in Layers, n \in Nat, z \in Nat, i \in Nat : v = Node(l, n, z, i)
    BY <1>3 DEF IsNode
  <2>2. CASE z = 0
    <3>1. r = Words(l, n, WotsPk, i, 0, 0) /\ v = Node(l, n, 0, i)
      BY <2>1, <2>2, NodeFirst
    <3>2. r[1] = l /\ r[2] = n /\ r[3] = WotsPk /\ r[4] = i
      BY <3>1, WordsOf
    <3> HIDE DEF r
    <3>3. At(r) = Node(l, n, 0, i)
      BY <1>1, <3>2, Zenon DEF At
    <3> QED
      BY <3>1, <3>3 DEF r
  <2>3. CASE z # 0
    <3>1. z \in Nat \ {0}
      BY <2>3
    <3>2. Node(l, n, z, i).adrs = Words(l, n, HashTree, 0, z, i)
      BY <3>1, NodeNext
    <3>3. r = Words(l, n, HashTree, 0, z, i)
      BY <2>1, <3>2, Zenon
    <3>4. r[1] = l /\ r[2] = n /\ r[3] = HashTree /\ r[5] = z /\ r[6] = i
      BY <3>3, WordsOf
    <3> HIDE DEF r
    <3>5. At(r) = Node(l, n, z, i)
      BY <1>1, <3>4, Zenon DEF At
    <3> QED
      BY <2>1, <3>5 DEF r
  <2> QED
    BY <2>2, <2>3
<1>4. CASE IsSecret(v)
  <2>1. PICK n \in Nat, k \in Nat, i \in Nat : v = Secret(n, k, i)
    BY <1>4 DEF IsSecret
  <2>2. r = Words(0, n, ForsPrf, k, 0, i)
    BY <2>1, SecretIs
  <2>3. r[2] = n /\ r[3] = ForsPrf /\ r[4] = k /\ r[6] = i
    BY <2>2, WordsOf
  <2> HIDE DEF r
  <2>4. At(r) = Secret(n, k, i)
    BY <1>1, <2>3, Zenon DEF At
  <2> QED
    BY <2>1, <2>4 DEF r
<1>5. CASE IsForsNode(v)
  <2>1. PICK n \in Nat, k \in Nat, z \in Nat, i \in Nat : v = ForsNodeAt(n, k, z, i)
    BY <1>5 DEF IsForsNode
  <2>2. r = Words(0, n, ForsTree, k, z, i)
    <3>1. ForsNodeAt(n, k, z, i).adrs = Words(0, n, ForsTree, k, z, i)
      <4>1. z = 0 \/ z \in Nat \ {0}
        OBVIOUS
      <4> QED
        BY <4>1, ForsFirst, ForsNext
    <3> QED
      BY <2>1, <3>1, Zenon
  <2>3. r[2] = n /\ r[3] = ForsTree /\ r[4] = k /\ r[5] = z /\ r[6] = i
    BY <2>2, WordsOf
  <2> HIDE DEF r
  <2>4. At(r) = ForsNodeAt(n, k, z, i)
    BY <1>1, <2>3, Zenon DEF At
  <2> QED
    BY <2>1, <2>4 DEF r
<1>6. CASE IsForsKey(v)
  <2>1. PICK n \in Nat, k \in Nat : v = ForsKey(n, k)
    BY <1>6 DEF IsForsKey
  <2>2. r = Words(0, n, ForsRoots, k, 0, 0)
    BY <2>1, ForsKeyIs
  <2>3. r[2] = n /\ r[3] = ForsRoots /\ r[4] = k
    BY <2>2, WordsOf
  <2> HIDE DEF r
  <2>4. At(r) = ForsKey(n, k)
    BY <1>1, <2>3, Zenon DEF At
  <2> QED
    BY <2>1, <2>4 DEF r
<1> QED
  BY <1>2, <1>3, <1>4, <1>5, <1>6 DEF Placed

\* The values a set of values was computed from.
PartsOf(S) == UNION {{v.of[i] : i \in DOMAIN v.of} : v \in S}

\* What a value with a place was computed from are finitely many with a place.
LEMMA PlacedBelow ==
  ASSUME NEW v, Placed(v)
  PROVE  \E n \in Nat : DOMAIN v.of = 1 .. n /\ \A i \in 1 .. n : Placed(v.of[i])
<1> DEFINE Good(o) == \E n \in Nat : DOMAIN o = 1 .. n /\ \A i \in 1 .. n : Placed(o[i])
<1>1. Good(Alone)
  <2>1. 0 \in Nat /\ DOMAIN Alone = 1 .. 0 /\ \A i \in 1 .. 0 : FALSE
    BY DEF Alone
  <2> QED
    BY <2>1
<1>2. \A x : Placed(x) => Good(One(x))
  <2>1. ASSUME NEW x, Placed(x)
        PROVE  Good(One(x))
    <3>1. 1 \in Nat /\ DOMAIN One(x) = 1 .. 1 /\ \A i \in 1 .. 1 : One(x)[i] = x
      BY DEF One
    <3> QED
      BY <2>1, <3>1
  <2> QED
    BY <2>1
<1>3. \A x, y : Placed(x) /\ Placed(y) => Good(Two(x, y))
  <2>1. ASSUME NEW x, NEW y, Placed(x), Placed(y)
        PROVE  Good(Two(x, y))
    <3>1. 2 \in Nat /\ DOMAIN Two(x, y) = 1 .. 2
          /\ \A i \in 1 .. 2 : Two(x, y)[i] = x \/ Two(x, y)[i] = y
      BY DEF Two
    <3> QED
      BY <2>1, <3>1
  <2> QED
    BY <2>1
<1> SUFFICES Good(v.of)
  OBVIOUS
<1> HIDE DEF Good
<1>4. CASE IsLink(v)
  <2>1. PICK l \in Layers, n \in Nat, k \in Nat, c \in Chains, s \in Nat : v = Link(l, n, k, c, s)
    BY <1>4 DEF IsLink
  <2>2. CASE s = 0
    BY <1>1, <2>1, <2>2, LinkFirst
  <2>3. CASE s # 0
    <3> DEFINE y == s - 1
    <3>1. y \in Nat /\ s \in Nat \ {0}
      BY <2>3
    <3>2. v.of = One(Link(l, n, k, c, y))
      <4>1. Link(l, n, k, c, s).of = One(Link(l, n, k, c, s - 1))
        BY <3>1, LinkNext
      <4> QED
        BY <2>1, <4>1, Zenon
    <3> HIDE DEF y
    <3>3. Placed(Link(l, n, k, c, y))
      BY <3>1, Zenon DEF Placed, IsLink
    <3> QED
      BY <1>2, <3>2, <3>3
  <2> QED
    BY <2>2, <2>3
<1>5. CASE IsNode(v)
  <2>1. PICK l \in Layers, n \in Nat, z \in Nat, i \in Nat : v = Node(l, n, z, i)
    BY <1>5 DEF IsNode
  <2>2. CASE z = 0
    <3>1. v.of = [c \in Chains |-> Link(l, n, i, c, W - 1)]
      BY <2>1, <2>2, NodeFirst
    <3>2. W - 1 \in Nat /\ P.WotsSigLen \in Nat
      BY Numbers DEF W
    <3>3. DOMAIN v.of = 1 .. P.WotsSigLen
      BY <3>1 DEF Chains
    <3>4. ASSUME NEW c \in 1 .. P.WotsSigLen
          PROVE  Placed(v.of[c])
      <4>1. c \in Chains
        BY DEF Chains
      <4>2. v.of[c] = Link(l, n, i, c, W - 1)
        BY <3>1, <4>1
      <4> QED
        BY <3>2, <4>1, <4>2, Zenon DEF Placed, IsLink
    <3> QED
      BY <3>2, <3>3, <3>4 DEF Good
  <2>3. CASE z # 0
    <3> DEFINE y == z - 1
               a == 2 * i
               b == 2 * i + 1
    <3>1. y \in Nat /\ z \in Nat \ {0} /\ a \in Nat /\ b \in Nat
      BY <2>3
    <3>2. v.of = Two(Node(l, n, y, a), Node(l, n, y, b))
      <4>1. Node(l, n, z, i).of = Two(Node(l, n, z - 1, 2 * i), Node(l, n, z - 1, 2 * i + 1))
        BY <3>1, NodeNext
      <4> QED
        BY <2>1, <4>1, Zenon
    <3> HIDE DEF y, a, b
    <3>3. Placed(Node(l, n, y, a)) /\ Placed(Node(l, n, y, b))
      BY <3>1, Zenon DEF Placed, IsNode
    <3> QED
      BY <1>3, <3>2, <3>3
  <2> QED
    BY <2>2, <2>3
<1>6. CASE IsSecret(v)
  <2>1. PICK n \in Nat, k \in Nat, i \in Nat : v = Secret(n, k, i)
    BY <1>6 DEF IsSecret
  <2>2. Secret(n, k, i).of = Alone
    BY SecretIs
  <2> QED
    BY <1>1, <2>1, <2>2, Zenon
<1>7. CASE IsForsNode(v)
  <2>1. PICK n \in Nat, k \in Nat, z \in Nat, i \in Nat : v = ForsNodeAt(n, k, z, i)
    BY <1>7 DEF IsForsNode
  <2>2. CASE z = 0
    <3>1. v.of = One(Secret(n, k, i))
      <4>1. ForsNodeAt(n, k, 0, i).of = One(Secret(n, k, i))
        BY ForsFirst
      <4> QED
        BY <2>1, <2>2, <4>1, Zenon
    <3>2. Placed(Secret(n, k, i))
      BY Zenon DEF Placed, IsSecret
    <3> QED
      BY <1>2, <3>1, <3>2
  <2>3. CASE z # 0
    <3> DEFINE y == z - 1
               a == 2 * i
               b == 2 * i + 1
    <3>1. y \in Nat /\ z \in Nat \ {0} /\ a \in Nat /\ b \in Nat
      BY <2>3
    <3>2. v.of = Two(ForsNodeAt(n, k, y, a), ForsNodeAt(n, k, y, b))
      <4>1. ForsNodeAt(n, k, z, i).of
              = Two(ForsNodeAt(n, k, z - 1, 2 * i), ForsNodeAt(n, k, z - 1, 2 * i + 1))
        BY <3>1, ForsNext
      <4> QED
        BY <2>1, <4>1, Zenon
    <3> HIDE DEF y, a, b
    <3>3. Placed(ForsNodeAt(n, k, y, a)) /\ Placed(ForsNodeAt(n, k, y, b))
      BY <3>1, Zenon DEF Placed, IsForsNode
    <3> QED
      BY <1>3, <3>2, <3>3
  <2> QED
    BY <2>2, <2>3
<1>8. CASE IsForsKey(v)
  <2>1. PICK n \in Nat, k \in Nat : v = ForsKey(n, k)
    BY <1>8 DEF IsForsKey
  <2>2. v.of = [i \in 1 .. P.K |-> ForsNodeAt(n, k, P.A, i - 1)]
    BY <2>1, ForsKeyIs
  <2>3. P.K \in Nat /\ P.A \in Nat
    BY Numbers
  <2>4. DOMAIN v.of = 1 .. P.K
    BY <2>2
  <2>5. ASSUME NEW i \in 1 .. P.K
        PROVE  Placed(v.of[i])
    <3> DEFINE y == i - 1
    <3>1. y \in Nat
      BY <2>3
    <3>2. v.of[i] = ForsNodeAt(n, k, P.A, y)
      BY <2>2
    <3> HIDE DEF y
    <3> QED
      BY <2>3, <3>1, <3>2, Zenon DEF Placed, IsForsNode
  <2> QED
    BY <2>3, <2>4, <2>5 DEF Good
<1> QED
  BY <1>4, <1>5, <1>6, <1>7, <1>8 DEF Placed

\* The values of a function on a finite set are finitely many.
LEMMA ImageFinite ==
  ASSUME NEW S, IsFiniteSet(S), NEW e, DOMAIN e = S
  PROVE  IsFiniteSet({e[x] : x \in S})
<1> DEFINE T == {e[x] : x \in S}
           g == [x \in S |-> e[x]]
<1>1. g \in Surjection(S, T)
  BY DEF Surjection
<1> HIDE DEF g, T
<1>2. IsFiniteSet(T)
  BY <1>1, FS_Surjection
<1> QED
  BY <1>2 DEF T

\* Values with places were computed from finitely many with places.
LEMMA PartsPlaced ==
  ASSUME NEW S, IsFiniteSet(S), \A v \in S : Placed(v)
  PROVE  IsFiniteSet(PartsOf(S)) /\ \A v \in PartsOf(S) : Placed(v)
<1> DEFINE parts == [v \in S |-> {v.of[i] : i \in DOMAIN v.of}]
           Family == {parts[v] : v \in S}
<1>1. PartsOf(S) = UNION Family
  BY DEF PartsOf
<1>2. DOMAIN parts = S
  OBVIOUS
<1>3. \A v \in S : parts[v] = {v.of[i] : i \in DOMAIN v.of}
  OBVIOUS
<1> HIDE DEF parts
<1>4. IsFiniteSet(Family)
  <2> HIDE DEF Family
  <2> QED
    BY <1>2, ImageFinite DEF Family
<1>5. ASSUME NEW v \in S
      PROVE  IsFiniteSet(parts[v]) /\ \A x \in parts[v] : Placed(x)
  <2> DEFINE e == v.of
  <2>1. PICK n \in Nat : DOMAIN e = 1 .. n /\ \A i \in 1 .. n : Placed(e[i])
    BY PlacedBelow
  <2>2. parts[v] = {e[i] : i \in DOMAIN e}
    BY <1>3
  <2> HIDE DEF e
  <2>3. IsFiniteSet(1 .. n)
    <3>1. 1 \in Int /\ n \in Int
      OBVIOUS
    <3> QED
      BY <3>1, FS_Interval
  <2> DEFINE I == 1 .. n
  <2>4. IsFiniteSet(I) /\ DOMAIN e = I /\ \A i \in I : Placed(e[i])
    BY <2>1, <2>3
  <2> HIDE DEF I
  <2>5. parts[v] = {e[i] : i \in I}
    BY <2>2, <2>4
  <2>6. IsFiniteSet(parts[v])
    BY <2>4, <2>5, ImageFinite
  <2>7. \A x \in parts[v] : Placed(x)
    BY <2>4, <2>5, Zenon
  <2> QED
    BY <2>6, <2>7
<1>6. \A T \in Family : IsFiniteSet(T)
  BY <1>5, Zenon
<1>7. \A x \in UNION Family : Placed(x)
  BY <1>5, Zenon
<1> HIDE DEF Family
<1>8. IsFiniteSet(UNION Family)
  BY <1>4, <1>6, FS_UNION
<1> QED
  BY <1>1, <1>7, <1>8, Zenon

PartsStep(e, n, v) == PartsOf(v)

Rest == INSTANCE Recursion WITH Step <- PartsStep

\* And so are all the values they rest on.
LEMMA RestPlaced ==
  ASSUME NEW values, IsFiniteSet(values), \A v \in values : Placed(v)
  PROVE  IsFiniteSet(RestsOn(values)) /\ \A v \in RestsOn(values) : Placed(v)
<1> DEFINE N == W + P.HPrime + P.A + 2
           I == 0 .. N
<1>1. N \in Nat /\ 0 \in Nat /\ 0 <= N
  BY Numbers DEF W
<1>2. PICK g : Rest!Solves(g, 0, values, 0, N)
  <2> HIDE DEF N
  <2> QED
    BY <1>1, Rest!RecursionExists
<1>3. g = [n \in 0 .. N |->
            IF n = 0 THEN values ELSE UNION {{v.of[i] : i \in DOMAIN v.of} : v \in g[n - 1]}]
  BY <1>2 DEF Rest!Solves, PartsStep, PartsOf
<1> DEFINE deep == CHOOSE deep : deep =
             [n \in 0 .. N |->
               IF n = 0 THEN values ELSE UNION {{v.of[i] : i \in DOMAIN v.of} : v \in deep[n - 1]}]
<1>4. deep = [n \in 0 .. N |->
               IF n = 0 THEN values
               ELSE UNION {{v.of[i] : i \in DOMAIN v.of} : v \in deep[n - 1]}]
  BY <1>3
<1>5. RestsOn(values) = UNION {deep[n] : n \in DOMAIN deep}
  BY DEF RestsOn
<1> HIDE DEF deep
<1>6. Rest!Solves(deep, 0, values, 0, N)
  BY <1>4 DEF Rest!Solves, PartsStep, PartsOf
<1> HIDE DEF N
<1>7. /\ DOMAIN deep = I /\ deep[0] = values
      /\ \A n \in (0 + 1) .. N : deep[n] = PartsOf(deep[n - 1])
  BY <1>1, <1>6 DEF Rest!Solves, PartsStep
<1> DEFINE T == {n \in Nat : IsFiniteSet(deep[n]) /\ \A v \in deep[n] : Placed(v)}
<1>8. 0 \in T
  BY <1>7
<1>9. ASSUME NEW n \in (0 + 1) .. N, n - 1 \in T
      PROVE  n \in T
  <2>1. IsFiniteSet(deep[n - 1]) /\ \A v \in deep[n - 1] : Placed(v)
    BY <1>9
  <2>2. IsFiniteSet(PartsOf(deep[n - 1])) /\ \A v \in PartsOf(deep[n - 1]) : Placed(v)
    BY <2>1, PartsPlaced
  <2>3. n \in Nat
    OBVIOUS
  <2> QED
    BY <1>7, <2>2, <2>3
<1> HIDE DEF T
<1>10. \A n \in 0 .. N : n \in T
  BY <1>1, <1>8, <1>9, Rest!IntervalInduction
<1>11. \A n \in I : IsFiniteSet(deep[n]) /\ \A v \in deep[n] : Placed(v)
  BY <1>10 DEF T
<1> DEFINE Family == {deep[n] : n \in I}
<1>12. IsFiniteSet(I)
  <2>1. 0 \in Int /\ N \in Int
    BY <1>1
  <2> QED
    BY <2>1, FS_Interval
<1> HIDE DEF I
<1>13. IsFiniteSet(Family)
  BY <1>7, <1>12, ImageFinite
<1>14. (\A S \in Family : IsFiniteSet(S)) /\ \A v \in UNION Family : Placed(v)
  BY <1>11, Zenon
<1>15. RestsOn(values) = UNION Family
  BY <1>5, <1>7, Zenon
<1> HIDE DEF Family
<1>16. IsFiniteSet(UNION Family)
  BY <1>13, <1>14, FS_UNION
<1> QED
  BY <1>14, <1>15, <1>16, Zenon

\* All the values with a place.
PlacedValues ==
  {Link(l, n, k, c, s) : l \in Layers, n \in Nat, k \in Nat, c \in Chains, s \in Nat}
    \cup {Node(l, n, z, i) : l \in Layers, n \in Nat, z \in Nat, i \in Nat}
    \cup {Secret(n, k, i) : n \in Nat, k \in Nat, i \in Nat}
    \cup {ForsNodeAt(n, k, z, i) : n \in Nat, k \in Nat, z \in Nat, i \in Nat}
    \cup {ForsKey(n, k) : n \in Nat, k \in Nat}

\* They are a set.
LEMMA PlacedIn == \A v : Placed(v) <=> v \in PlacedValues
  BY DEF Placed, IsLink, IsNode, IsSecret, IsForsNode, IsForsKey, PlacedValues

\* What a signature opens of the FORS trees has a place.
LEMMA ForsPlaced ==
  ASSUME NEW md \in Seq(Byte), P.K * P.A <= 8 * Len(md), NEW n \in Nat, NEW k \in Nat
  PROVE  fors_sign(md, NewForsTree(n, k)) \in [1 .. P.K -> ForsParts(PlacedValues)]
<1> DEFINE indices == base_2b(md, P.K, P.A)
           adrs == NewForsTree(n, k)
           leaf(i) == (i - 1) * 2^P.A + indices[i]
           side(i, j) == (i - 1) * 2^(P.A - j + 1) + Sibling(indices[i] \div 2^(j - 1))
           sk == [i \in 1 .. P.K |-> fors_sk_gen(adrs, leaf(i))]
           auth == [i \in 1 .. P.K |-> [j \in 1 .. P.A |-> fors_node(side(i, j), j - 1, adrs)]]
           F == fors_sign(md, adrs)
<1>1. P.K \in Nat /\ P.A \in Nat \ {0} /\ 2^P.A \in Nat
  BY Numbers, PowerType
<1>2. ASSUME NEW i \in 1 .. P.K
      PROVE  indices[i] \in Nat
  <2>1. indices \in Seq(0 .. (2^P.A - 1)) /\ Len(indices) = P.K
    BY <1>1, DigitsType
  <2> HIDE DEF indices
  <2> QED
    BY <1>1, <2>1
<1> HIDE DEF indices
<1>3. ASSUME NEW i \in 1 .. P.K
      PROVE  leaf(i) \in Nat
  <2> DEFINE q == 2^P.A
  <2>1. i - 1 \in Nat /\ q \in Nat /\ indices[i] \in Nat
    BY <1>1, <1>2
  <2> HIDE DEF q
  <2>2. (i - 1) * q \in Nat
    BY <2>1
  <2>3. (i - 1) * q + indices[i] \in Nat
    BY <2>1, <2>2
  <2> QED
    BY <2>3 DEF q
<1>4. ASSUME NEW i \in 1 .. P.K, NEW j \in 1 .. P.A
      PROVE  side(i, j) \in Nat
  <2> DEFINE q == 2^(P.A - j + 1)
             x == Sibling(indices[i] \div 2^(j - 1))
  <2>1. i - 1 \in Nat /\ P.A - j + 1 \in Nat /\ j \in Nat \ {0} /\ indices[i] \in Nat
    BY <1>1, <1>2
  <2>2. q \in Nat
    BY <2>1, PowerType
  <2>3. x \in Nat
    BY <2>1, Siblings
  <2> HIDE DEF q, x
  <2>4. (i - 1) * q \in Nat
    BY <2>1, <2>2
  <2>5. (i - 1) * q + x \in Nat
    BY <2>3, <2>4
  <2> QED
    BY <2>5 DEF q, x
<1>5. F = [i \in 1 .. P.K |-> [sk |-> fors_sk_gen(adrs, leaf(i)),
                               auth |-> [j \in 1 .. P.A |-> fors_node(side(i, j), j - 1, adrs)]]]
  BY DEF fors_sign, indices
<1> HIDE DEF F, leaf, side
<1>6. ASSUME NEW i \in 1 .. P.K
      PROVE  fors_sk_gen(adrs, leaf(i)) \in PlacedValues
  <2>1. fors_sk_gen(adrs, leaf(i)) = Secret(n, k, leaf(i))
    BY DEF Secret
  <2>2. Placed(Secret(n, k, leaf(i)))
    BY <1>3, Zenon DEF Placed, IsSecret
  <2> QED
    BY <2>1, <2>2, PlacedIn
<1>7. ASSUME NEW i \in 1 .. P.K, NEW j \in 1 .. P.A
      PROVE  fors_node(side(i, j), j - 1, adrs) \in PlacedValues
  <2> DEFINE z == j - 1
  <2>1. z \in Nat
    BY <1>1
  <2> HIDE DEF z
  <2>2. fors_node(side(i, j), z, adrs) = ForsNodeAt(n, k, z, side(i, j))
    BY DEF ForsNodeAt
  <2>3. Placed(ForsNodeAt(n, k, z, side(i, j)))
    BY <1>4, <2>1, Zenon DEF Placed, IsForsNode
  <2>4. fors_node(side(i, j), z, adrs) \in PlacedValues
    BY <2>2, <2>3, PlacedIn
  <2> QED
    BY <2>4 DEF z
<1>8. ASSUME NEW i \in 1 .. P.K
      PROVE  [sk |-> fors_sk_gen(adrs, leaf(i)),
              auth |-> [j \in 1 .. P.A |-> fors_node(side(i, j), j - 1, adrs)]]
                \in ForsParts(PlacedValues)
  <2>1. [j \in 1 .. P.A |-> fors_node(side(i, j), j - 1, adrs)] \in [1 .. P.A -> PlacedValues]
    BY <1>7
  <2> QED
    BY <1>6, <2>1 DEF ForsParts
<1> HIDE DEF adrs
<1>9. F \in [1 .. P.K -> ForsParts(PlacedValues)]
  BY <1>5, <1>8
<1> QED
  BY <1>9 DEF F, adrs

\* And what it opens of the tree of a layer.
LEMMA LayerPlaced ==
  ASSUME NEW j \in 1 .. P.D, NEW l, GoodLayer(l, j)
  PROVE  l.sig \in XmssParts(PlacedValues)
<1> DEFINE y == j - 1
           n == l.tree
           k == l.leaf
           m == l.m
           at == AtLayer(y, n)
           own == KeyAt(y, n, k)
           digits == msg_csum(as_slice(m))
           side(i) == Sibling(k \div 2^(i - 1))
<1>1. y \in Nat /\ y \in Layers
  <2>1. P.D \in Nat /\ P.D <= 256
    BY Numbers, SlhDsaAssumption DEF Fits
  <2> QED
    BY <2>1 DEF Layers
<1>2. /\ l = SignedLayer(y, n, k, m) /\ IsValue(m) /\ k \in Nat /\ n \in Nat
  BY DEF GoodLayer
<1>3. l.sig = xmss_sign(m, k, at)
  <2>1. SignedLayer(y, n, k, m).sig = xmss_sign(m, k, at)
    BY LayerParts
  <2> HIDE DEF y, at, n, k, m
  <2> QED
    BY <1>2, <2>1
<1> HIDE DEF y, n, k, m
<1>4. own = [at EXCEPT !.key_pair_adrs = k]
  BY DEF KeyAt
<1>5. at \in WotsAdrs
  BY <1>1, <1>2, AtLayerType
<1>6. l.sig = [sig  |-> wots_sign(m, own),
               auth |-> [i \in 1 .. P.HPrime |-> xmss_node(side(i), i - 1, own)]]
  BY <1>3, <1>4 DEF xmss_sign
<1>7. wots_sign(m, own) = [c \in Chains |-> Link(y, n, k, c, digits[c])]
  BY DEF wots_sign, Link
<1>8. ASSUME NEW c \in Chains
      PROVE  Link(y, n, k, c, digits[c]) \in PlacedValues
  <2>1. digits[c] \in Nat
    <3>1. digits \in Seq(0 .. (W - 1)) /\ Len(digits) = P.WotsSigLen
      BY <1>2, WotsDigits
    <3>2. W - 1 \in Nat
      BY DEF W
    <3> HIDE DEF digits
    <3> QED
      BY <3>1, <3>2 DEF Chains
  <2> HIDE DEF digits
  <2>2. Placed(Link(y, n, k, c, digits[c]))
    BY <1>1, <1>2, <2>1, Zenon DEF Placed, IsLink
  <2> QED
    BY <2>2, PlacedIn
<1>9. ASSUME NEW i \in 1 .. P.HPrime
      PROVE  xmss_node(side(i), i - 1, own) \in PlacedValues
  <2> DEFINE z == i - 1
             x == side(i)
  <2>1. z \in Nat /\ i \in Nat \ {0}
    BY Numbers
  <2>2. x \in Nat
    BY <1>2, <2>1, Siblings
  <2> HIDE DEF z, x
  <2>3. xmss_node(x, z, [at EXCEPT !.key_pair_adrs = k]) = xmss_node(x, z, at)
    BY <1>2, <1>5, <2>1, <2>2, XmssOwn
  <2>4. xmss_node(x, z, own) = Node(y, n, z, x)
    BY <1>4, <2>3 DEF Node
  <2>5. Placed(Node(y, n, z, x))
    BY <1>1, <1>2, <2>1, <2>2, Zenon DEF Placed, IsNode
  <2>6. xmss_node(x, z, own) \in PlacedValues
    BY <2>4, <2>5, PlacedIn
  <2> QED
    BY <2>6 DEF z, x
<1> HIDE DEF own, digits, side
<1>10. wots_sign(m, own) \in [1 .. P.WotsSigLen -> PlacedValues]
  BY <1>7, <1>8 DEF Chains
<1>11. [i \in 1 .. P.HPrime |-> xmss_node(side(i), i - 1, own)] \in [1 .. P.HPrime -> PlacedValues]
  BY <1>9
<1> QED
  BY <1>6, <1>10, <1>11 DEF XmssParts

\* Whatever is sent after the randomizer has a place.
LEMMA SentPlaced ==
  ASSUME NEW d \in Digests
  PROVE  LET chunks == to_bytes(slh_sign(d))
         IN  Len(chunks) \in Nat /\ \A i \in 2 .. Len(chunks) : Placed(chunks[i])
<1> DEFINE s == split_digest(P, d)
           tree == s.idx_tree
           leaf == s.idx_leaf
           adrs == NewForsTree(tree, leaf)
           fors == fors_sign(s.md, adrs)
           pk == fors_pk_from_sig(fors, s.md, adrs)
           L == ht_layers(pk, tree, leaf)
           hyper == ht_sign(pk, tree, leaf)
           r == prf_msg(d)
           A == Flattened([i \in 1 .. P.K |-> ForsMTChunks(fors[i])])
           B == Flattened([j \in 1 .. P.D |-> XmssChunks(hyper[j])])
           chunks == to_bytes(slh_sign(d))
           V == PlacedValues
           T == V \cup {r}
           first == <<r>>
<1>1. /\ s.md \in Seq(Byte) /\ P.K * P.A <= 8 * Len(s.md)
      /\ tree \in Nat /\ tree < 2^(P.H - P.HPrime) /\ leaf \in Nat /\ leaf < 2^P.HPrime
  BY SplitDigest
<1>2. IsValue(pk)
  BY ForsSigned
<1>3. slh_sign(d) = [randomizer |-> r, fors_sig |-> fors, ht_sig |-> hyper]
  BY DEF slh_sign
<1>4. chunks = (first \o A) \o B
  <2> HIDE DEF r, fors, hyper
  <2> QED
    BY <1>3 DEF to_bytes
<1>5. hyper = [j \in 1 .. P.D |-> L[j].sig]
  BY DEF ht_sign
<1> HIDE DEF pk, r, s, L, hyper, chunks
<1>6. fors \in [1 .. P.K -> ForsParts(V)]
  <2> HIDE DEF tree, leaf
  <2> QED
    BY <1>1, ForsPlaced
<1> HIDE DEF fors, tree, leaf, V
<1>7. hyper \in [1 .. P.D -> XmssParts(V)]
  <2>1. \A j \in 1 .. P.D : GoodLayer(L[j], j)
    BY <1>1, <1>2, LayersOpen DEF L
  <2>2. \A j \in 1 .. P.D : L[j].sig \in XmssParts(V)
    BY <2>1, LayerPlaced DEF V
  <2> QED
    BY <1>5, <2>2
<1>8. A \in Seq(V)
  BY <1>6, ForsBytes
<1>9. B \in Seq(V)
  BY <1>7, HypertreeBytes
<1> HIDE DEF A, B
<1>10. A \in Seq(T) /\ B \in Seq(T) /\ first \in Seq(T) /\ Len(first) = 1
  <2>1. \A S \in {A, B} : S \in Seq(T)
    <3>1. \A S \in {A, B} : \A i \in 1 .. Len(S) : S[i] \in T
      <4>1. \A i \in 1 .. Len(A) : A[i] \in V
        BY <1>8
      <4>2. \A i \in 1 .. Len(B) : B[i] \in V
        BY <1>9
      <4> QED
        BY <4>1, <4>2
    <3> HIDE DEF T
    <3> QED
      BY <1>8, <1>9, <3>1, SeqInto
  <2>2. first \in Seq(T) /\ Len(first) = 1
    OBVIOUS
  <2> QED
    BY <2>1, <2>2
<1> DEFINE m == Len(A)
           n == Len(B)
           front == first \o A
<1>11. m \in Nat /\ n \in Nat /\ (\A i \in 1 .. m : A[i] \in V) /\ (\A i \in 1 .. n : B[i] \in V)
  BY <1>8, <1>9
<1> HIDE DEF first, T
<1>12. /\ front \in Seq(T) /\ Len(front) = 1 + m
       /\ \A i \in 1 .. m : front[1 + i] = A[i]
  <2>1. first \in Seq(T) /\ A \in Seq(T)
    BY <1>10
  <2>2. /\ first \o A \in Seq(T) /\ Len(first \o A) = Len(first) + Len(A)
        /\ \A i \in 1 .. Len(A) : (first \o A)[Len(first) + i] = A[i]
    BY <2>1, ConcatInto
  <2> QED
    BY <1>10, <2>2
<1> HIDE DEF front
<1>13. /\ Len(chunks) = 1 + m + n
       /\ \A i \in 1 .. (1 + m) : chunks[i] = front[i]
       /\ \A i \in 1 .. n : chunks[1 + m + i] = B[i]
  <2>1. front \in Seq(T) /\ B \in Seq(T)
    BY <1>10, <1>12
  <2>2. /\ front \o B \in Seq(T) /\ Len(front \o B) = Len(front) + Len(B)
        /\ \A i \in 1 .. Len(front) : (front \o B)[i] = front[i]
        /\ \A i \in 1 .. Len(B) : (front \o B)[Len(front) + i] = B[i]
    BY <2>1, ConcatInto
  <2>3. chunks = front \o B
    BY <1>4 DEF front
  <2> QED
    BY <1>12, <2>2, <2>3
<1> HIDE DEF m, n
<1>14. ASSUME NEW i \in 2 .. Len(chunks)
       PROVE  chunks[i] \in V
  <2>1. CASE i <= 1 + m
    <3>1. i - 1 \in 1 .. m /\ 1 + (i - 1) = i /\ i \in 1 .. (1 + m)
      BY <1>11, <1>13, <2>1
    <3>2. front[1 + (i - 1)] = A[i - 1]
      BY <1>12, <3>1
    <3> QED
      BY <1>11, <1>13, <3>1, <3>2
  <2>2. CASE i > 1 + m
    <3> DEFINE k == i - 1 - m
    <3>1. k \in 1 .. n /\ 1 + m + k = i
      BY <1>11, <1>13, <2>2
    <3> HIDE DEF k
    <3>2. chunks[1 + m + k] = B[k]
      BY <1>13, <3>1
    <3> QED
      BY <1>11, <3>1, <3>2
  <2> QED
    BY <1>11, <1>13, <2>1, <2>2
<1>15. Len(chunks) \in Nat
  BY <1>11, <1>13
<1>16. \A i \in 2 .. Len(chunks) : Placed(chunks[i])
  BY <1>14, PlacedIn DEF V
<1> QED
  BY <1>15, <1>16 DEF chunks

\* So has what the layers sign: the FORS public key, and the roots below the top.
LEMMA SignedPlaced ==
  ASSUME NEW d \in Digests
  PROVE  IsFiniteSet(SignedValues(d)) /\ \A v \in SignedValues(d) : Placed(v)
<1> DEFINE s == split_digest(P, d)
           n == s.idx_tree
           k == s.idx_leaf
           adrs == NewForsTree(n, k)
           pk == fors_pk_from_sig(fors_sign(s.md, adrs), s.md, adrs)
           L == ht_layers(pk, n, k)
           signed == [j \in 1 .. P.D |-> L[j].m]
<1>1. n \in Nat /\ n < 2^(P.H - P.HPrime) /\ k \in Nat /\ k < 2^P.HPrime
  BY SplitDigest
<1>2. IsValue(pk) /\ pk = t(fors_roots(adrs), [i \in 1 .. P.K |-> fors_node(i - 1, P.A, adrs)])
  BY ForsSigned
<1>3. pk = ForsKey(n, k)
  BY <1>2 DEF ForsKey, ForsNodeAt
<1>4. SignedValues(d) = {L[j].m : j \in 1 .. P.D}
  BY DEF SignedValues, LayersOf
<1> HIDE DEF s, pk, n, k
<1>5. /\ L[1] = SignedLayer(0, n, k, pk)
      /\ \A j \in 2 .. P.D : L[j] = LayerStep(0, j - 1, L[j - 1])
  BY LayersFollow
<1>6. \A j \in 1 .. P.D : GoodLayer(L[j], j)
  BY <1>1, <1>2, LayersOpen
<1> HIDE DEF L
<1>7. ASSUME NEW j \in 1 .. P.D
      PROVE  Placed(L[j].m)
  <2>1. CASE j = 1
    <3>1. L[j].m = ForsKey(n, k)
      BY <1>3, <1>5, <2>1, LayerParts
    <3> QED
      BY <1>1, <3>1, Zenon DEF Placed, IsForsKey
  <2>2. CASE j # 1
    <3> DEFINE i == j - 1
               l == i - 1
               below == L[i]
    <3>1. i \in 1 .. P.D /\ j \in 2 .. P.D /\ l \in Layers
      <4>1. P.D \in Nat /\ P.D <= 256
        BY Numbers, SlhDsaAssumption DEF Fits
      <4> QED
        BY <2>2, <4>1 DEF Layers
    <3>2. L[j] = LayerStep(0, i, below)
      BY <1>5, <3>1
    <3>3. GoodLayer(below, i)
      BY <1>6, <3>1
    <3> HIDE DEF i, below
    <3>4. L[j].m = xmss_pk_from_sig(below.leaf, below.sig, below.m, AtLayer(i - 1, below.tree))
      BY <3>2, LayerParts DEF LayerStep
    <3>5. L[j].m = xmss_node(0, P.HPrime, AtLayer(i - 1, below.tree))
      BY <3>1, <3>3, <3>4, GoodLayerOpens
    <3>6. L[j].m = Node(l, below.tree, P.HPrime, 0)
      BY <3>5 DEF Node
    <3>7. below.tree \in Nat /\ P.HPrime \in Nat /\ 0 \in Nat
      BY <3>3, Numbers DEF GoodLayer
    <3> HIDE DEF l
    <3> QED
      BY <3>1, <3>6, <3>7, Zenon DEF Placed, IsNode
  <2> QED
    BY <2>1, <2>2
<1>8. IsFiniteSet({L[j].m : j \in 1 .. P.D})
  <2> DEFINE I == 1 .. P.D
  <2>1. IsFiniteSet(I)
    <3>1. 1 \in Int /\ P.D \in Int
      BY Numbers
    <3> QED
      BY <3>1, FS_Interval
  <2>2. DOMAIN signed = I /\ \A j \in I : signed[j] = L[j].m
    OBVIOUS
  <2> HIDE DEF I, signed
  <2>3. IsFiniteSet({signed[j] : j \in I})
    BY <2>1, <2>2, ImageFinite
  <2>4. {signed[j] : j \in I} = {L[j].m : j \in I}
    BY <2>2, Zenon
  <2> QED
    BY <2>3, <2>4 DEF I
<1> QED
  BY <1>4, <1>7, <1>8

\* So has the public key.
LEMMA RootPlaced == Placed(pk_root)
<1> DEFINE n == P.D - 1
<1>1. n \in Layers
  <2>1. P.D \in Nat \ {0} /\ P.D <= 256
    BY Numbers, SlhDsaAssumption DEF Fits
  <2> QED
    BY <2>1 DEF Layers
<1>2. pk_root = xmss_node(0, P.HPrime, AtLayer(n, 0))
  BY TopTree DEF pk_root
<1> HIDE DEF n
<1>3. pk_root = Node(n, 0, P.HPrime, 0)
  BY <1>2 DEF Node
<1>4. 0 \in Nat /\ P.HPrime \in Nat
  BY Numbers
<1> QED
  BY <1>1, <1>3, <1>4, Zenon DEF Placed, IsNode

\* No two different values among what a signature and the public key rest on have
\* the same address (address.rs:3-8): the chunks sent, the FORS public key and the roots
\* that the layers sign, and all that these were hashed from.
THEOREM AddressesAreSeparate == Spec => []AddressesSeparate
<1>1. ASSUME NEW d \in Digests
      PROVE  LET chunks   == to_bytes(slh_sign(d))
                 computed == RestsOn({pk_root} \cup SignedValues(d)
                                       \cup {chunks[i] : i \in 2 .. Len(chunks)})
             IN  Cardinality({v.adrs : v \in computed}) = Cardinality(computed)
  <2> DEFINE chunks == to_bytes(slh_sign(d))
             I == 2 .. Len(chunks)
             Parts == {chunks[i] : i \in I}
             values == {pk_root} \cup SignedValues(d) \cup Parts
             computed == RestsOn(values)
             addresses == {v.adrs : v \in computed}
             address == [v \in computed |-> v.adrs]
  <2>1. Len(chunks) \in Nat /\ \A i \in I : Placed(chunks[i])
    BY SentPlaced
  <2> HIDE DEF chunks
  <2>2. IsFiniteSet(I)
    <3>1. 2 \in Int /\ Len(chunks) \in Int
      BY <2>1
    <3> QED
      BY <3>1, FS_Interval
  <2> HIDE DEF I
  <2>3. IsFiniteSet(Parts)
    <3> DEFINE e == [i \in I |-> chunks[i]]
    <3>1. DOMAIN e = I /\ \A i \in I : e[i] = chunks[i]
      OBVIOUS
    <3> HIDE DEF e
    <3>2. IsFiniteSet({e[i] : i \in I})
      BY <2>2, <3>1, ImageFinite
    <3>3. {e[i] : i \in I} = Parts
      BY <3>1, Zenon
    <3> QED
      BY <3>2, <3>3
  <2>4. \A v \in values : Placed(v)
    BY <2>1, RootPlaced, SignedPlaced
  <2> HIDE DEF Parts
  <2>5. IsFiniteSet(values)
    <3>1. IsFiniteSet((SignedValues(d) \cup Parts) \cup {pk_root})
      BY <2>3, SignedPlaced, FS_Union, FS_AddElement
    <3>2. values = (SignedValues(d) \cup Parts) \cup {pk_root}
      OBVIOUS
    <3> HIDE DEF values
    <3> QED
      BY <3>1, <3>2
  <2> HIDE DEF values
  <2>6. IsFiniteSet(computed) /\ \A v \in computed : Placed(v)
    BY <2>4, <2>5, RestPlaced
  <2> HIDE DEF computed
  <2>7. address \in Surjection(computed, addresses)
    BY DEF Surjection
  <2>8. \A a, b \in computed : address[a] = address[b] => a = b
    <3>1. ASSUME NEW a \in computed, NEW b \in computed, address[a] = address[b]
          PROVE  a = b
      <4>1. a.adrs = b.adrs
        BY <3>1
      <4>2. a = At(a.adrs)
        BY <2>6, PlacedAt
      <4>3. b = At(b.adrs)
        BY <2>6, PlacedAt
      <4> QED
        BY <4>1, <4>2, <4>3, Zenon
    <3> QED
      BY <3>1
  <2>9. address \in [computed -> addresses]
    OBVIOUS
  <2>10. DOMAIN address = computed
    OBVIOUS
  <2> HIDE DEF address, addresses
  <2>11. address \in Injection(computed, addresses)
    BY <2>8, <2>9, <2>10 DEF Injection, IsInjective
  <2>12. Cardinality(addresses) = Cardinality(computed)
    BY <2>6, <2>7, <2>11, FS_Surjection
  <2> QED
    BY <2>12 DEF addresses, computed, values, Parts, I, chunks
<1>2. SignedInv => AddressesSeparate
  <2>1. ASSUME SignedInv, sent # None
        PROVE  LET chunks   == {sent[i] : i \in 2 .. Len(sent)}
                   computed == RestsOn({pk_root} \cup SignedValues(digest) \cup chunks)
               IN  Cardinality({v.adrs : v \in computed}) = Cardinality(computed)
    <3>1. digest \in Digests /\ sent = to_bytes(slh_sign(digest))
      BY <2>1 DEF SignedInv
    <3> DEFINE All(chunks) == RestsOn({pk_root} \cup SignedValues(digest)
                                        \cup {chunks[i] : i \in 2 .. Len(chunks)})
               Counted(chunks) == Cardinality({v.adrs : v \in All(chunks)}) = Cardinality(All(chunks))
    <3>2. Counted(to_bytes(slh_sign(digest)))
      BY <1>1, <3>1
    <3> HIDE DEF Counted
    <3>3. Counted(sent)
      BY <3>1, <3>2
    <3> QED
      BY <3>3 DEF Counted
  <2> QED
    BY <2>1 DEF AddressesSeparate
<1> QED
  BY <1>2, SignedAlways, PTL

=============================================================================
