---------------------------- MODULE FramingProofs ---------------------------
(***************************************************************************)
(* Proofs about Framing: what is read is what was written, whole frames in *)
(* the order they were sent, for frames, buffers and lengths of any size.  *)
(* The digits of a length and the bytes of a row of frames are recursive   *)
(* definitions; the first section gives them their meaning.                *)
(***************************************************************************)
EXTENDS Framing, SequenceTheorems, WellFoundedInduction, TLAPS

-----------------------------------------------------------------------------
(* Recursion and induction on the natural numbers.                         *)

LEMMA LessIsRelated == \A m, n \in Nat : m < n => <<m, n>> \in OpToRel(<, Nat)
  BY DEF OpToRel

\* A set of natural numbers that is not empty has a least one.
LEMMA LeastNatural ==
  ASSUME NEW S \in SUBSET Nat, S # {}
  PROVE  \E n \in S : \A m \in S : n <= m
<1>1. PICK n \in S : \A m \in S : <<m, n>> \notin OpToRel(<, Nat)
  BY NatLessThanWellFounded, WFMin
<1>2. \A m \in S : ~(m < n)
  BY <1>1, LessIsRelated
<1> QED
  BY <1>2

\* F tells the value at i from the one at i - 1.
Follows(f, F, a, b) == \A i \in (a + 1) .. b : f[i] = F[i][f[i - 1]]

\* It never leads out of S.
Stays(F, S, a, b) == \A i \in (a + 1) .. b : \A v \in S : F[i][v] \in S

\* f begins with c and goes on as F says.
Iterates(f, F, S, a, b, c) == f \in [a .. b -> S] /\ f[a] = c /\ Follows(f, F, a, b)

\* There is such a function.
LEMMA RecursionExists ==
  ASSUME NEW S, NEW a \in Nat, NEW b \in Nat, a <= b, NEW c \in S,
         NEW F, Stays(F, S, a, b)
  PROVE  \E f : Iterates(f, F, S, a, b, c)
<1> DEFINE Upto(n) == \E f \in [a .. n -> S] : f[a] = c /\ Follows(f, F, a, n)
           T == {n \in a .. b : ~Upto(n)}
<1>0. T \in SUBSET Nat
  OBVIOUS
<1>1. SUFFICES ASSUME T # {} PROVE FALSE
  <2>1. T = {} => Upto(b)
    OBVIOUS
  <2> QED
    BY <2>1 DEF Iterates
<1>2. PICK n \in T : \A m \in T : n <= m
  <2> HIDE DEF T
  <2> QED
    BY <1>0, <1>1, LeastNatural
<1>3. n # a
  <2> DEFINE f == [i \in a .. a |-> c]
  <2>1. f \in [a .. a -> S] /\ f[a] = c /\ Follows(f, F, a, a)
    BY DEF Follows
  <2> QED
    BY <1>2, <2>1
<1>4. n - 1 \in a .. b /\ Upto(n - 1)
  BY <1>2, <1>3
<1>5. PICK f \in [a .. (n - 1) -> S] : f[a] = c /\ Follows(f, F, a, n - 1)
  BY <1>4
<1> DEFINE g == [i \in a .. n |-> IF i = n THEN F[n][f[n - 1]] ELSE f[i]]
<1>6. f[n - 1] \in S /\ F[n][f[n - 1]] \in S
  <2>1. f[n - 1] \in S /\ n \in (a + 1) .. b
    BY <1>2, <1>3
  <2> QED
    BY <2>1 DEF Stays
<1>7. g \in [a .. n -> S] /\ g[a] = c
  BY <1>2, <1>3, <1>5, <1>6
<1>8. ASSUME NEW i \in (a + 1) .. n
      PROVE  g[i] = F[i][g[i - 1]]
  <2>1. CASE i = n
    BY <1>2, <1>3, <2>1
  <2>2. CASE i # n
    <3>1. i \in (a + 1) .. (n - 1)
      BY <1>2, <2>2
    <3>2. f[i] = F[i][f[i - 1]]
      BY <1>5, <3>1 DEF Follows
    <3>3. g[i] = f[i] /\ g[i - 1] = f[i - 1]
      BY <1>2, <3>1
    <3> QED
      BY <3>2, <3>3
  <2> QED
    BY <2>1, <2>2
<1> QED
  BY <1>2, <1>7, <1>8 DEF Follows

\* Induction on an interval, with the set of the numbers that have a property.
LEMMA IntervalInduction ==
  ASSUME NEW a \in Nat, NEW b \in Nat, NEW T, a \in T,
         \A i \in (a + 1) .. b : i - 1 \in T => i \in T
  PROVE  \A i \in a .. b : i \in T
<1> DEFINE U == (a .. b) \ T
<1>1. U \in SUBSET Nat
  OBVIOUS
<1>2. SUFFICES ASSUME U # {} PROVE FALSE
  OBVIOUS
<1>3. PICK n \in U : \A m \in U : n <= m
  <2> HIDE DEF U
  <2> QED
    BY <1>1, <1>2, LeastNatural
<1>4. n \in (a + 1) .. b /\ n - 1 \in a .. b /\ n - 1 \notin U
  BY <1>3
<1> QED
  BY <1>3, <1>4

\* A recursion has no more than one solution.
LEMMA RecursionUnique ==
  ASSUME NEW a \in Nat, NEW b \in Nat, NEW F, NEW f, NEW g, f[a] = g[a],
         Follows(f, F, a, b), Follows(g, F, a, b)
  PROVE  \A i \in a .. b : f[i] = g[i]
<1> DEFINE T == {i \in Int : f[i] = g[i]}
<1>1. a \in T /\ \A i \in (a + 1) .. b : i - 1 \in T => i \in T
  BY DEF Follows
<1> HIDE DEF T
<1>2. \A i \in a .. b : i \in T
  BY <1>1, IntervalInduction
<1> QED
  BY <1>2 DEF T

-----------------------------------------------------------------------------
(* The bytes of a length.                                                  *)

LEMMA ConstantTypes ==
  /\ Base \in Nat /\ Base > 1 /\ 0 \in Byte
  /\ LenBytes \in Nat /\ LenBytes > 0 /\ BufLen \in Nat /\ BufLen > 0
  /\ MaxWire \in Nat /\ MaxWire > 0 /\ Frames \subseteq FrameType
  /\ \A f \in Frames : 1 + Len(f.payload) < Weight[LenBytes]
  BY FramingAssumption DEF Byte

LEMMA WeightIs ==
  /\ Weight \in [0 .. LenBytes -> Nat] /\ Weight[0] = 1
  /\ \A i \in 1 .. LenBytes : Weight[i] = Base * Weight[i - 1]
<1> DEFINE F == [i \in (0 + 1) .. LenBytes |-> [v \in Nat |-> Base * v]]
<1>1. \A i \in (0 + 1) .. LenBytes : \A v \in Nat : F[i][v] \in Nat
  BY ConstantTypes
<1>2. \A i \in (0 + 1) .. LenBytes : \A v \in Nat : F[i][v] = Base * v
  BY ConstantTypes
<1> HIDE DEF F
<1>3. 0 \in Nat /\ 1 \in Nat /\ LenBytes \in Nat /\ 0 <= LenBytes
  BY ConstantTypes
<1>4. PICK f : Iterates(f, F, Nat, 0, LenBytes, 1)
  <2>1. Stays(F, Nat, 0, LenBytes)
    BY <1>1 DEF Stays
  <2> QED
    BY <2>1, <1>3, RecursionExists
<1>14. f \in [0 .. LenBytes -> Nat] /\ f[0] = 1 /\ Follows(f, F, 0, LenBytes)
  BY <1>4 DEF Iterates
<1>9. \A i \in 1 .. LenBytes : f[i] = Base * f[i - 1]
  <2> TAKE i \in 1 .. LenBytes
  <2>1. i \in (0 + 1) .. LenBytes /\ i - 1 \in 0 .. LenBytes
    BY <1>3
  <2>2. f[i - 1] \in Nat
    BY <1>14, <2>1
  <2>3. f[i] = F[i][f[i - 1]]
    BY <1>14, <2>1, Zenon DEF Follows
  <2> QED
    BY <1>2, <2>1, <2>2, <2>3
<1>5. f = [i \in 0 .. LenBytes |-> IF i = 0 THEN 1 ELSE Base * f[i - 1]]
  BY <1>3, <1>14, <1>9
<1>6. Weight = [i \in 0 .. LenBytes |-> IF i = 0 THEN 1 ELSE Base * Weight[i - 1]]
  BY <1>5 DEF Weight
<1>7. Weight[0] = 1 /\ \A i \in 1 .. LenBytes : Weight[i] = Base * Weight[i - 1]
  BY <1>6, ConstantTypes
<1> DEFINE T == {i \in 0 .. LenBytes : Weight[i] \in Nat}
<1>8. 0 \in T /\ \A i \in (0 + 1) .. LenBytes : i - 1 \in T => i \in T
  BY <1>7, ConstantTypes
<1> HIDE DEF T
<1>10. \A i \in 0 .. LenBytes : i \in T
  BY <1>3, <1>8, IntervalInduction
<1>11. \A i \in 0 .. LenBytes : Weight[i] \in Nat
  BY <1>10 DEF T
<1> HIDE DEF F
<1> QED
  BY <1>6, <1>7, <1>11

LEMMA WeightTypes ==
  /\ Weight[LenBytes] \in Nat
  /\ \A i \in 0 .. LenBytes : Weight[i] \in Nat /\ Weight[i] > 0
<1> DEFINE T == {i \in 0 .. LenBytes : Weight[i] > 0}
<1>1. ASSUME NEW i \in (0 + 1) .. LenBytes, i - 1 \in T
      PROVE  i \in T
  <2>1. Weight[i - 1] \in Nat /\ Weight[i - 1] > 0 /\ Weight[i] = Base * Weight[i - 1]
    BY <1>1, WeightIs, ConstantTypes
  <2>2. \A w \in Nat : w > 0 => Base * w > 0
    BY ConstantTypes
  <2> QED
    BY <2>1, <2>2, ConstantTypes
<1>2. 0 \in T /\ 0 \in Nat /\ LenBytes \in Nat
  BY WeightIs, ConstantTypes
<1>3. \A i \in (0 + 1) .. LenBytes : i - 1 \in T => i \in T
  BY <1>1
<1> HIDE DEF T
<1>4. \A i \in 0 .. LenBytes : i \in T
  BY <1>2, <1>3, IntervalInduction
<1> QED
  BY <1>4, WeightIs, ConstantTypes DEF T

\* What the bytes before the i-th add up to.
LEMMA SumExists ==
  ASSUME NEW bytes \in [1 .. LenBytes -> Byte]
  PROVE  \E sum : /\ sum = [i \in 0 .. LenBytes |->
                             IF i = 0 THEN 0 ELSE sum[i - 1] + bytes[i] * Weight[i - 1]]
                  /\ from_le_bytes(bytes) = sum[LenBytes]
<1> DEFINE F == [i \in (0 + 1) .. LenBytes |-> [v \in Nat |-> v + bytes[i] * Weight[i - 1]]]
<1>1. \A i \in 1 .. LenBytes : bytes[i] \in Nat /\ Weight[i - 1] \in Nat
  BY WeightTypes, ConstantTypes DEF Byte
<1>3. \A i \in (0 + 1) .. LenBytes : \A v \in Nat : F[i][v] = v + bytes[i] * Weight[i - 1]
  OBVIOUS
<1>2. \A i \in (0 + 1) .. LenBytes : \A v \in Nat : F[i][v] \in Nat
  <2> HIDE DEF F
  <2> TAKE i \in (0 + 1) .. LenBytes
  <2> TAKE v \in Nat
  <2>1. \A w, x \in Nat : x * w \in Nat
    OBVIOUS
  <2>2. bytes[i] * Weight[i - 1] \in Nat
    BY <1>1, <2>1
  <2>3. F[i][v] = v + bytes[i] * Weight[i - 1]
    BY <1>3, Zenon
  <2> DEFINE x == bytes[i] * Weight[i - 1]
  <2>4. x \in Nat /\ F[i][v] = v + x
    BY <2>2, <2>3
  <2> HIDE DEF x
  <2> QED
    BY <2>4
<1> HIDE DEF F
<1>4. 0 \in Nat /\ 1 \in Nat /\ LenBytes \in Nat /\ 0 <= LenBytes
  BY ConstantTypes
<1>5. PICK f : Iterates(f, F, Nat, 0, LenBytes, 0)
  <2>1. Stays(F, Nat, 0, LenBytes)
    BY <1>2 DEF Stays
  <2> QED
    BY <2>1, <1>4, RecursionExists
<1>10. f \in [0 .. LenBytes -> Nat] /\ f[0] = 0 /\ Follows(f, F, 0, LenBytes)
  BY <1>5 DEF Iterates
<1>6. \A i \in 1 .. LenBytes : f[i] = f[i - 1] + bytes[i] * Weight[i - 1]
  <2> TAKE i \in 1 .. LenBytes
  <2>1. i \in (0 + 1) .. LenBytes /\ i - 1 \in 0 .. LenBytes
    BY <1>4
  <2>2. f[i - 1] \in Nat
    BY <1>10, <2>1
  <2>3. f[i] = F[i][f[i - 1]]
    BY <1>10, <2>1, Zenon DEF Follows
  <2>4. F[i][f[i - 1]] = f[i - 1] + bytes[i] * Weight[i - 1]
    BY <1>3, <2>1, <2>2, Zenon
  <2> QED
    BY <2>3, <2>4, Zenon
<1>7. f = [i \in 0 .. LenBytes |-> IF i = 0 THEN 0 ELSE f[i - 1] + bytes[i] * Weight[i - 1]]
  BY <1>4, <1>10, <1>6
<1> DEFINE s == CHOOSE sum : sum = [i \in 0 .. LenBytes |->
                             IF i = 0 THEN 0 ELSE sum[i - 1] + bytes[i] * Weight[i - 1]]
<1>8. s = [i \in 0 .. LenBytes |-> IF i = 0 THEN 0 ELSE s[i - 1] + bytes[i] * Weight[i - 1]]
  BY <1>7
<1>9. from_le_bytes(bytes) = s[LenBytes]
  BY DEF from_le_bytes
<1> QED
  BY <1>8, <1>9

\* A length read is a natural number.
LEMMA FromBytesType ==
  ASSUME NEW bytes \in [1 .. LenBytes -> Byte]
  PROVE  from_le_bytes(bytes) \in Nat
<1>1. PICK sum : /\ sum = [i \in 0 .. LenBytes |->
                            IF i = 0 THEN 0 ELSE sum[i - 1] + bytes[i] * Weight[i - 1]]
                 /\ from_le_bytes(bytes) = sum[LenBytes]
  BY SumExists
<1> DEFINE T == {i \in 0 .. LenBytes : sum[i] \in Nat}
<1>2. ASSUME NEW i \in (0 + 1) .. LenBytes, i - 1 \in T
      PROVE  i \in T
  <2>1. sum[i] = sum[i - 1] + bytes[i] * Weight[i - 1]
    BY <1>1, ConstantTypes
  <2>2. sum[i - 1] \in Nat /\ bytes[i] \in Nat /\ Weight[i - 1] \in Nat
    BY <1>2, WeightTypes, ConstantTypes DEF Byte
  <2>3. \A w, x, v \in Nat : v + x * w \in Nat
    OBVIOUS
  <2>4. sum[i] \in Nat
    BY <2>1, <2>2, <2>3
  <2> QED
    BY <2>4
<1>3. 0 \in T /\ 0 \in Nat /\ LenBytes \in Nat
  BY <1>1, ConstantTypes
<1>4. \A i \in (0 + 1) .. LenBytes : i - 1 \in T => i \in T
  BY <1>2
<1> HIDE DEF T
<1>5. \A i \in 0 .. LenBytes : i \in T
  BY <1>3, <1>4, IntervalInduction
<1> QED
  BY <1>1, <1>5, ConstantTypes DEF T

\* Cutting off one more byte of a number.
LEMMA NextDigit ==
  ASSUME NEW n \in Nat, NEW w \in Nat, w > 0, NEW b \in Nat, b > 0
  PROVE  n % (b * w) = (n % w) + ((n \div w) % b) * w
<1> DEFINE q == n \div w
           r == n % w
           q2 == q \div b
           r2 == q % b
<1>1. n = w * q + r /\ q \in Nat /\ r \in 0 .. (w - 1)
  OBVIOUS
<1>2. q = b * q2 + r2 /\ q2 \in Nat /\ r2 \in 0 .. (b - 1)
  BY <1>1
<1> HIDE DEF q, r, q2, r2
<1> DEFINE m == b * w
           x == r2 * w + r
<1>3. n = m * q2 + x
  BY <1>1, <1>2
<1>4. x \in 0 .. (m - 1)
  <2>1. r2 * w <= (b - 1) * w
    BY <1>2
  <2> QED
    BY <1>1, <1>2, <2>1
<1>5. m \in Nat \ {0}
  OBVIOUS
<1>6. x = (n % w) + ((n \div w) % b) * w
  BY DEF q, r, r2
<1> HIDE DEF m, x
<1>7. \A k \in Nat : (m * k + x) % m = x
  BY <1>4, <1>5
<1>8. n % m = x
  BY <1>2, <1>3, <1>7
<1> QED
  BY <1>6, <1>8 DEF m

\* A length that fits its field survives the trip through its bytes.
LEMMA LengthRoundTrip ==
  ASSUME NEW n \in Nat, n < Weight[LenBytes]
  PROVE  /\ to_le_bytes(n) \in [1 .. LenBytes -> Byte]
         /\ from_le_bytes(to_le_bytes(n)) = n
<1> DEFINE bytes == to_le_bytes(n)
<1>1. bytes \in [1 .. LenBytes -> Byte]
  <2>1. ASSUME NEW i \in 1 .. LenBytes
        PROVE  (n \div Weight[i - 1]) % Base \in Byte
    <3>1. Weight[i - 1] \in Nat /\ Weight[i - 1] > 0
      BY WeightTypes, ConstantTypes
    <3>2. \A w \in Nat : w > 0 => n \div w \in Nat
      OBVIOUS
    <3>3. \A k \in Nat : k % Base \in Byte
      BY ConstantTypes DEF Byte
    <3> QED
      BY <3>1, <3>2, <3>3
  <2> QED
    BY <2>1 DEF to_le_bytes
<1>2. \A i \in 1 .. LenBytes : bytes[i] = (n \div Weight[i - 1]) % Base
  BY DEF to_le_bytes
<1> HIDE DEF bytes
<1>3. PICK sum : /\ sum = [i \in 0 .. LenBytes |->
                            IF i = 0 THEN 0 ELSE sum[i - 1] + bytes[i] * Weight[i - 1]]
                 /\ from_le_bytes(bytes) = sum[LenBytes]
  BY <1>1, SumExists
<1> DEFINE T == {i \in 0 .. LenBytes : sum[i] = n % Weight[i]}
<1>4. ASSUME NEW i \in (0 + 1) .. LenBytes, i - 1 \in T
      PROVE  i \in T
  <2> DEFINE w == Weight[i - 1]
  <2>1. w \in Nat /\ w > 0 /\ Weight[i] = Base * w
    BY WeightTypes, WeightIs, ConstantTypes
  <2>2. sum[i] = sum[i - 1] + bytes[i] * w
    BY <1>3, ConstantTypes
  <2>3. bytes[i] = (n \div w) % Base
    BY <1>2
  <2>4. sum[i - 1] = n % w
    BY <1>4
  <2> HIDE DEF w
  <2>5. n % (Base * w) = (n % w) + ((n \div w) % Base) * w
    <3>1. Base \in Nat /\ Base > 0
      BY ConstantTypes
    <3> QED
      BY <2>1, <3>1, NextDigit, Zenon
  <2>6. sum[i] = n % Weight[i]
    BY <2>1, <2>2, <2>3, <2>4, <2>5
  <2> QED
    BY <2>6
<1>5. 0 \in T /\ 0 \in Nat /\ LenBytes \in Nat
  BY <1>3, WeightIs, ConstantTypes
<1>6. \A i \in (0 + 1) .. LenBytes : i - 1 \in T => i \in T
  BY <1>4
<1> HIDE DEF T
<1>7. \A i \in 0 .. LenBytes : i \in T
  BY <1>5, <1>6, IntervalInduction
<1>8. sum[LenBytes] = n % Weight[LenBytes]
  BY <1>7, ConstantTypes DEF T
<1>9. n % Weight[LenBytes] = n
  BY WeightTypes
<1> QED
  BY <1>1, <1>3, <1>8, <1>9 DEF bytes

-----------------------------------------------------------------------------
(* Sequences one after the other.  Cat hides \o from the provers, which    *)
(* would go down to the elements of both sequences.                        *)

Cat(s, t) == s \o t

LEMMA CatType ==
  ASSUME NEW S, NEW s \in Seq(S), NEW t \in Seq(S)
  PROVE  Cat(s, t) \in Seq(S) /\ Len(Cat(s, t)) = Len(s) + Len(t)
  BY ConcatProperties DEF Cat

LEMMA CatEmpty ==
  ASSUME NEW S, NEW s \in Seq(S)
  PROVE  Cat(s, <<>>) = s /\ Cat(<<>>, s) = s
  BY ConcatEmptySeq DEF Cat

LEMMA CatAssociative ==
  ASSUME NEW S, NEW s \in Seq(S), NEW t \in Seq(S), NEW u \in Seq(S)
  PROVE  Cat(Cat(s, t), u) = Cat(s, Cat(t, u))
  BY ConcatAssociative DEF Cat

LEMMA CatFirst ==
  ASSUME NEW S, NEW s \in Seq(S), NEW t \in Seq(S), NEW i \in 1 .. Len(s)
  PROVE  Cat(s, t)[i] = s[i]
  BY DEF Cat

LEMMA CatSecond ==
  ASSUME NEW S, NEW s \in Seq(S), NEW t \in Seq(S), NEW i \in 1 .. Len(t)
  PROVE  Cat(s, t)[Len(s) + i] = t[i]
  BY DEF Cat

\* Where the first parts are equally long, the parts of equal sequences are equal.
LEMMA CatSplit ==
  ASSUME NEW S, NEW s \in Seq(S), NEW t \in Seq(S), NEW u \in Seq(S), NEW v \in Seq(S)
  PROVE  Cat(s, t) = Cat(u, v) /\ Len(s) = Len(u) => s = u /\ t = v
<1>1. /\ \A i \in 1 .. Len(s) : Cat(s, t)[i] = s[i]
      /\ \A i \in 1 .. Len(t) : Cat(s, t)[Len(s) + i] = t[i]
      /\ Len(Cat(s, t)) = Len(s) + Len(t)
  <2>1. \A i \in 1 .. Len(s) : Cat(s, t)[i] = s[i]
    BY CatFirst
  <2>2. \A i \in 1 .. Len(t) : Cat(s, t)[Len(s) + i] = t[i]
    BY CatSecond
  <2> QED
    BY <2>1, <2>2, CatType
<1>2. /\ \A i \in 1 .. Len(u) : Cat(u, v)[i] = u[i]
      /\ \A i \in 1 .. Len(v) : Cat(u, v)[Len(u) + i] = v[i]
      /\ Len(Cat(u, v)) = Len(u) + Len(v)
  <2>1. \A i \in 1 .. Len(u) : Cat(u, v)[i] = u[i]
    BY CatFirst
  <2>2. \A i \in 1 .. Len(v) : Cat(u, v)[Len(u) + i] = v[i]
    BY CatSecond
  <2> QED
    BY <2>1, <2>2, CatType
<1>3. Len(s) \in Nat /\ Len(t) \in Nat /\ Len(u) \in Nat /\ Len(v) \in Nat
  BY LenProperties
<1>4. SUFFICES ASSUME Cat(s, t) = Cat(u, v), Len(s) = Len(u)
               PROVE  s = u /\ t = v
  OBVIOUS
<1>5. Len(t) = Len(v)
  BY <1>1, <1>2, <1>3, <1>4
<1>6. s = u
  BY <1>1, <1>2, <1>4, SeqEqual
<1>7. t = v
  BY <1>1, <1>2, <1>4, <1>5, SeqEqual
<1> QED
  BY <1>6, <1>7

LEMMA NoLength ==
  ASSUME NEW S, NEW s \in Seq(S)
  PROVE  s = <<>> <=> Len(s) = 0
  BY EmptySeq

\* What FlattenSeq goes through: the first i sequences, one after the other.
Flattens(flat, seqs) ==
  /\ flat[1] = seqs[1]
  /\ \A i \in 2 .. Len(seqs) : flat[i] = Cat(flat[i - 1], seqs[i])

LEMMA FlattenExists ==
  ASSUME NEW S, NEW seqs \in Seq(Seq(S)), seqs # <<>>
  PROVE  \E flat \in [1 .. Len(seqs) -> Seq(S)] :
           Flattens(flat, seqs) /\ FlattenSeq(seqs) = flat[Len(seqs)]
<1> DEFINE n == Len(seqs)
           F == [i \in (1 + 1) .. n |-> [v \in Seq(S) |-> Cat(v, seqs[i])]]
<1>1. /\ n \in Nat /\ 1 \in Nat /\ 1 <= n /\ n # 0
      /\ \A i \in 1 .. n : seqs[i] \in Seq(S)
  OBVIOUS
<1> HIDE DEF n
<1>2. \A i \in (1 + 1) .. n : \A v \in Seq(S) : Cat(v, seqs[i]) \in Seq(S)
  <2>1. ASSUME NEW i \in (1 + 1) .. n, NEW v \in Seq(S)
        PROVE  Cat(v, seqs[i]) \in Seq(S)
    <3>1. seqs[i] \in Seq(S)
      BY <1>1
    <3> QED
      BY <3>1, CatType
  <2> QED
    BY <2>1
<1>3. \A i \in (1 + 1) .. n : \A v \in Seq(S) : F[i][v] = Cat(v, seqs[i])
  OBVIOUS
<1>4. seqs[1] \in Seq(S)
  BY <1>1
<1> HIDE DEF F
<1> DEFINE X == Seq(S)
<1>14. PICK f : Iterates(f, F, X, 1, n, seqs[1])
  <2>1. seqs[1] \in X /\ Stays(F, X, 1, n)
    BY <1>2, <1>3, <1>4 DEF Stays
  <2>2. 1 \in Nat /\ n \in Nat /\ 1 <= n
    BY <1>1
  <2> HIDE DEF X
  <2> QED
    BY <2>1, <2>2, RecursionExists
<1>5. f \in [1 .. n -> X] /\ f[1] = seqs[1] /\ Follows(f, F, 1, n)
  BY <1>14 DEF Iterates
<1>6. \A i \in 2 .. n : f[i] = Cat(f[i - 1], seqs[i])
  <2>1. \A i \in (1 + 1) .. n : \A v \in X : F[i][v] = Cat(v, seqs[i])
    BY <1>3
  <2> HIDE DEF X
  <2>2. \A i \in 2 .. n : i \in (1 + 1) .. n /\ f[i - 1] \in X
    BY <1>1, <1>5
  <2>3. \A i \in (1 + 1) .. n : f[i] = F[i][f[i - 1]]
    BY <1>5 DEF Follows
  <2> QED
    BY <2>1, <2>2, <2>3
<1>7. f = [i \in 1 .. n |-> IF i = 1 THEN seqs[i] ELSE Cat(f[i - 1], seqs[i])]
  BY <1>1, <1>5, <1>6
<1> DEFINE c == CHOOSE flatten : flatten = [i \in 1 .. n |-> IF i = 1 THEN seqs[i]
                                              ELSE Cat(flatten[i - 1], seqs[i])]
<1>8. c = [i \in 1 .. n |-> IF i = 1 THEN seqs[i] ELSE Cat(c[i - 1], seqs[i])]
  BY <1>7
<1>9. FlattenSeq(seqs) = c[n]
  BY <1>1, Zenon DEF FlattenSeq, Cat, n
<1> HIDE DEF c
<1>10. c[1] = seqs[1] /\ \A i \in 2 .. n : c[i] = Cat(c[i - 1], seqs[i])
  BY <1>1, <1>8
<1> DEFINE T == {i \in 1 .. n : c[i] = f[i]}
<1>11. 1 \in T /\ \A i \in (1 + 1) .. n : i - 1 \in T => i \in T
  BY <1>1, <1>5, <1>6, <1>10
<1> HIDE DEF T
<1>12. \A i \in 1 .. n : i \in T
  BY <1>1, <1>11, IntervalInduction
<1>13. c[n] = f[n]
  BY <1>1, <1>12 DEF T
<1> QED
  BY <1>5, <1>6, <1>9, <1>13 DEF Flattens, n

LEMMA FlattenIs ==
  ASSUME NEW S, NEW seqs \in Seq(Seq(S)), seqs # <<>>, NEW g, Flattens(g, seqs)
  PROVE  FlattenSeq(seqs) = g[Len(seqs)]
<1> DEFINE n == Len(seqs)
<1>1. PICK flat : Flattens(flat, seqs) /\ FlattenSeq(seqs) = flat[n]
  BY FlattenExists
<1>2. n \in Nat /\ 1 \in Nat /\ 1 <= n
  OBVIOUS
<1>3. /\ g[1] = flat[1]
      /\ \A i \in 2 .. n : g[i] = Cat(g[i - 1], seqs[i]) /\ flat[i] = Cat(flat[i - 1], seqs[i])
  BY <1>1 DEF Flattens
<1> HIDE DEF n
<1> DEFINE T == {i \in 1 .. n : g[i] = flat[i]}
<1>4. 1 \in T /\ \A i \in (1 + 1) .. n : i - 1 \in T => i \in T
  BY <1>2, <1>3
<1> HIDE DEF T
<1>5. \A i \in 1 .. n : i \in T
  BY <1>2, <1>4, IntervalInduction
<1> QED
  BY <1>1, <1>2, <1>5 DEF T, n

LEMMA FlattenType ==
  ASSUME NEW S, NEW seqs \in Seq(Seq(S))
  PROVE  FlattenSeq(seqs) \in Seq(S)
<1>1. CASE seqs = <<>>
  BY <1>1 DEF FlattenSeq
<1>2. CASE seqs # <<>>
  <2>1. PICK flat \in [1 .. Len(seqs) -> Seq(S)] : FlattenSeq(seqs) = flat[Len(seqs)]
    BY <1>2, FlattenExists
  <2>2. Len(seqs) \in 1 .. Len(seqs)
    BY <1>2
  <2> QED
    BY <2>1, <2>2
<1> QED
  BY <1>1, <1>2

\* One more sequence at the end.
LEMMA FlattenAppend ==
  ASSUME NEW S, NEW seqs \in Seq(Seq(S)), NEW e \in Seq(S)
  PROVE  FlattenSeq(Append(seqs, e)) = Cat(FlattenSeq(seqs), e)
<1> DEFINE more == Append(seqs, e)
           n == Len(seqs)
<1>1. /\ more \in Seq(Seq(S)) /\ more # <<>> /\ Len(more) = n + 1
      /\ more[n + 1] = e /\ \A i \in 1 .. n : more[i] = seqs[i]
      /\ n \in Nat
  BY AppendProperties, LenProperties
<1> HIDE DEF more
<1>2. CASE seqs = <<>>
  <2> DEFINE g == [i \in {1} |-> e]
  <2>1. n = 0 /\ g[1] = e
    BY <1>2
  <2> HIDE DEF g, n
  <2>2. Flattens(g, more)
    BY <1>1, <2>1 DEF Flattens
  <2>3. FlattenSeq(more) = g[Len(more)]
    BY <1>1, <2>2, FlattenIs
  <2>4. FlattenSeq(seqs) = <<>>
    BY <1>2 DEF FlattenSeq
  <2>5. Cat(<<>>, e) = e
    BY CatEmpty
  <2> QED
    BY <1>1, <2>1, <2>3, <2>4, <2>5 DEF more
<1>3. CASE seqs # <<>>
  <2>1. PICK flat : Flattens(flat, seqs) /\ FlattenSeq(seqs) = flat[n]
    BY <1>3, FlattenExists
  <2>2. n >= 1
    BY <1>3
  <2>3. flat[1] = seqs[1] /\ \A i \in 2 .. n : flat[i] = Cat(flat[i - 1], seqs[i])
    BY <2>1 DEF Flattens
  <2> HIDE DEF n
  <2> DEFINE g == [i \in 1 .. (n + 1) |-> IF i = n + 1 THEN Cat(flat[n], e) ELSE flat[i]]
  <2>4. g[1] = more[1]
    BY <1>1, <2>2, <2>3
  <2>5. ASSUME NEW i \in 2 .. (n + 1)
        PROVE  g[i] = Cat(g[i - 1], more[i])
    <3>1. CASE i = n + 1
      BY <1>1, <2>2, <3>1
    <3>2. CASE i # n + 1
      <4>1. i \in 2 .. n /\ more[i] = seqs[i] /\ g[i] = flat[i] /\ g[i - 1] = flat[i - 1]
        BY <1>1, <3>2
      <4> QED
        BY <2>3, <4>1
    <3> QED
      BY <3>1, <3>2
  <2>6. g[n + 1] = Cat(flat[n], e)
    BY <1>1
  <2> HIDE DEF g
  <2>7. Flattens(g, more)
    BY <1>1, <2>4, <2>5 DEF Flattens
  <2>8. FlattenSeq(more) = g[Len(more)]
    BY <1>1, <2>7, FlattenIs
  <2> QED
    BY <1>1, <2>1, <2>6, <2>8 DEF more
<1> QED
  BY <1>2, <1>3

\* The first sequence, then the others.
LEMMA FlattenFirst ==
  ASSUME NEW S, NEW seqs \in Seq(Seq(S)), seqs # <<>>
  PROVE  FlattenSeq(seqs) = Cat(seqs[1], FlattenSeq(Tail(seqs)))
<1> DEFINE t == Tail(seqs)
           n == Len(seqs)
<1>1. /\ t \in Seq(Seq(S)) /\ n \in Nat /\ n >= 1 /\ Len(t) = n - 1
      /\ \A i \in 1 .. (n - 1) : t[i] = seqs[i + 1] /\ t[i] \in Seq(S)
      /\ seqs[1] \in Seq(S)
  OBVIOUS
<1> HIDE DEF t
<1>2. Len(seqs) = n /\ (n = 1 => t = <<>>) /\ (n # 1 => t # <<>>)
  <2>1. t = <<>> <=> Len(t) = 0
    BY <1>1, NoLength, Zenon
  <2> QED
    BY <1>1, <2>1
<1> HIDE DEF n
<1>3. CASE n = 1
  <2> DEFINE g == [i \in {1} |-> seqs[1]]
  <2>1. g[1] = seqs[1]
    OBVIOUS
  <2> HIDE DEF g
  <2>2. Flattens(g, seqs)
    BY <1>1, <1>2, <1>3, <2>1 DEF Flattens
  <2>3. FlattenSeq(seqs) = seqs[1]
    BY <1>2, <1>3, <2>1, <2>2, FlattenIs
  <2>4. FlattenSeq(t) = <<>>
    BY <1>2, <1>3 DEF FlattenSeq
  <2>5. Cat(seqs[1], <<>>) = seqs[1]
    BY <1>1, CatEmpty
  <2> QED
    BY <2>3, <2>4, <2>5 DEF t
<1>4. CASE n # 1
  <2>1. PICK flat \in [1 .. Len(t) -> Seq(S)] : Flattens(flat, t) /\ FlattenSeq(t) = flat[Len(t)]
    BY <1>1, <1>2, <1>4, FlattenExists
  <2>2. flat[1] = t[1] /\ \A i \in 2 .. (n - 1) : flat[i] = Cat(flat[i - 1], t[i])
    BY <1>1, <2>1 DEF Flattens
  <2> DEFINE g == [i \in 1 .. n |-> IF i = 1 THEN seqs[1] ELSE Cat(seqs[1], flat[i - 1])]
  <2>3. /\ g[1] = seqs[1] /\ g[n] = Cat(seqs[1], flat[n - 1])
        /\ \A i \in 2 .. n : g[i] = Cat(seqs[1], flat[i - 1])
    BY <1>1, <1>4
  <2> HIDE DEF g
  <2>4. ASSUME NEW i \in 2 .. n
        PROVE  g[i] = Cat(g[i - 1], seqs[i])
    <3>1. CASE i = 2
      BY <1>1, <1>4, <2>2, <2>3, <3>1
    <3>2. CASE i # 2
      <4>1. i - 1 \in 2 .. (n - 1) /\ i - 2 \in 1 .. Len(t) /\ t[i - 1] = seqs[i]
        BY <1>1, <3>2
      <4>2. flat[i - 1] = Cat(flat[i - 2], seqs[i])
        <5>1. (i - 1) - 1 = i - 2
          OBVIOUS
        <5> QED
          BY <2>2, <4>1, <5>1
      <4>3. flat[i - 2] \in Seq(S) /\ seqs[i] \in Seq(S)
        <5>1. i - 1 \in 1 .. (n - 1)
          BY <1>1, <4>1
        <5>2. t[i - 1] \in Seq(S)
          BY <1>1, <5>1
        <5> QED
          BY <2>1, <4>1, <5>2
      <4>4. Cat(seqs[1], Cat(flat[i - 2], seqs[i])) = Cat(Cat(seqs[1], flat[i - 2]), seqs[i])
        <5>1. seqs[1] \in Seq(S)
          BY <1>1
        <5> DEFINE x == seqs[1]
                   y == flat[i - 2]
                   z == seqs[i]
        <5>2. x \in Seq(S) /\ y \in Seq(S) /\ z \in Seq(S)
          BY <4>3, <5>1
        <5> HIDE DEF x, y, z
        <5>3. Cat(Cat(x, y), z) = Cat(x, Cat(y, z))
          BY <5>2, CatAssociative
        <5> QED
          BY <5>3 DEF x, y, z
      <4>5. g[i] = Cat(seqs[1], flat[i - 1]) /\ g[i - 1] = Cat(seqs[1], flat[i - 2])
        <5>1. i - 1 \in 2 .. n /\ (i - 1) - 1 = i - 2
          BY <1>1, <3>2
        <5> QED
          BY <2>3, <5>1
      <4> QED
        BY <4>2, <4>4, <4>5
    <3> QED
      BY <3>1, <3>2
  <2>5. Flattens(g, seqs)
    BY <1>2, <2>3, <2>4 DEF Flattens
  <2>6. FlattenSeq(seqs) = g[n]
    BY <1>1, <1>2, <2>5, FlattenIs
  <2> QED
    BY <1>1, <2>1, <2>3, <2>6 DEF t
<1> QED
  BY <1>3, <1>4

\* Of two equal sequences, a shorter first part is the beginning of a longer one.
LEMMA CatPrefix ==
  ASSUME NEW S, NEW p \in Seq(S), NEW y \in Seq(S), NEW e \in Seq(S), NEW z \in Seq(S)
  PROVE  Cat(p, y) = Cat(e, z) /\ Len(p) <= Len(e) => p = SubSeq(e, 1, Len(p))
<1>1. \A i \in 1 .. Len(p) : Cat(p, y)[i] = p[i]
  BY CatFirst
<1>2. \A i \in 1 .. Len(e) : Cat(e, z)[i] = e[i]
  BY CatFirst
<1>3. Len(p) \in Nat /\ Len(e) \in Nat
  BY LenProperties
<1>4. SUFFICES ASSUME Cat(p, y) = Cat(e, z), Len(p) <= Len(e)
               PROVE  p = SubSeq(e, 1, Len(p))
  OBVIOUS
<1>5. \A i \in 1 .. Len(p) : p[i] = e[i] /\ e[i] \in S
  BY <1>1, <1>2, <1>3, <1>4, ElementOfSeq
<1> DEFINE x == SubSeq(e, 1, Len(p))
           n == Len(p)
<1>6. x \in Seq(S) /\ Len(x) = n /\ \A i \in 1 .. n : x[i] = e[i]
  BY <1>3, <1>4
<1> HIDE DEF x
<1>7. p = x
  BY <1>5, <1>6, SeqEqual
<1> QED
  BY <1>7 DEF x

\* A sequence cut in two.
LEMMA CatCut ==
  ASSUME NEW S, NEW s \in Seq(S), NEW k \in 0 .. Len(s)
  PROVE  /\ SubSeq(s, 1, k) \in Seq(S) /\ SubSeq(s, k + 1, Len(s)) \in Seq(S)
         /\ Len(SubSeq(s, 1, k)) = k /\ Len(SubSeq(s, k + 1, Len(s))) = Len(s) - k
         /\ Cat(SubSeq(s, 1, k), SubSeq(s, k + 1, Len(s))) = s
<1>1. Len(s) \in Nat /\ k \in Nat /\ k <= Len(s) /\ \A i \in 1 .. Len(s) : s[i] \in S
  BY LenProperties, ElementOfSeq
<1>2. /\ SubSeq(s, 1, k) \in Seq(S) /\ SubSeq(s, k + 1, Len(s)) \in Seq(S)
      /\ Len(SubSeq(s, 1, k)) = k /\ Len(SubSeq(s, k + 1, Len(s))) = Len(s) - k
  BY <1>1
<1>3. SubSeq(s, 1, k) \o SubSeq(s, k + 1, Len(s)) = SubSeq(s, 1, Len(s))
  <2>1. 1 \in 1 .. (Len(s) + 1) /\ k \in (1 - 1) .. Len(s) /\ Len(s) \in k .. Len(s)
    BY <1>1
  <2> QED
    BY <2>1, ConcatAdjacentSubSeq
<1>4. SubSeq(s, 1, Len(s)) = s
  BY SubSeqFull
<1> QED
  BY <1>2, <1>3, <1>4 DEF Cat

-----------------------------------------------------------------------------
(* The bytes of frames.                                                    *)

Body(f) == Cat(<<f.kind>>, f.payload)

LEMMA FrameFields ==
  ASSUME NEW f \in Frames
  PROVE  /\ f.kind \in Byte /\ f.payload \in Seq(Byte) /\ Len(f.payload) \in Nat
         /\ f = [kind |-> f.kind, payload |-> f.payload]
         /\ 1 + Len(f.payload) < Weight[LenBytes]
  BY ConstantTypes, LenProperties DEF FrameType

LEMMA LengthType ==
  ASSUME NEW n \in Nat, n < Weight[LenBytes]
  PROVE  to_le_bytes(n) \in Seq(Byte) /\ Len(to_le_bytes(n)) = LenBytes
  BY LengthRoundTrip, ConstantTypes

LEMMA BodyIs ==
  ASSUME NEW f \in Frames
  PROVE  /\ Body(f) \in Seq(Byte) /\ Len(Body(f)) = 1 + Len(f.payload)
         /\ Body(f)[1] = f.kind /\ Tail(Body(f)) = f.payload
<1>1. f.kind \in Byte /\ f.payload \in Seq(Byte)
  BY FrameFields
<1> DEFINE k == <<f.kind>>
           x == f.payload
           b == Cat(k, x)
<1>2. k \in Seq(Byte) /\ Len(k) = 1 /\ k[1] = f.kind
  BY <1>1
<1>3. x \in Seq(Byte)
  BY <1>1
<1> HIDE DEF k, x
<1>4. b \in Seq(Byte) /\ Len(b) = Len(k) + Len(x)
  BY <1>2, <1>3, CatType
<1>5. \A i \in 1 .. Len(k) : Cat(k, x)[i] = k[i]
  BY <1>2, <1>3, CatFirst, Zenon
<1>6. \A i \in 1 .. Len(x) : Cat(k, x)[Len(k) + i] = x[i]
  <2>1. k \in Seq(Byte) /\ x \in Seq(Byte)
    BY <1>2, <1>3
  <2> QED
    BY <2>1, CatSecond, Zenon
<1>7. Len(x) \in Nat /\ b[1] = k[1] /\ \A i \in 1 .. Len(x) : b[1 + i] = x[i]
  BY <1>2, <1>3, <1>5, <1>6, LenProperties
<1> HIDE DEF b
<1>8. b # <<>>
  BY <1>2, <1>4, <1>7
<1>9. Tail(b) \in Seq(Byte) /\ Len(Tail(b)) = Len(b) - 1
      /\ \A i \in 1 .. Len(Tail(b)) : Tail(b)[i] = b[i + 1]
  BY <1>4, <1>8, HeadTailProperties
<1>10. Len(Tail(b)) = Len(x) /\ \A i \in 1 .. Len(x) : Tail(b)[i] = x[i]
  BY <1>2, <1>4, <1>7, <1>9
<1>11. Tail(b) = x
  BY <1>3, <1>9, <1>10, SeqEqual
<1> QED
  BY <1>2, <1>4, <1>7, <1>11 DEF b, k, x, Body

LEMMA EncodedIs ==
  ASSUME NEW f \in Frames
  PROVE  /\ Encoded(f) = Cat(to_le_bytes(1 + Len(f.payload)), Body(f))
         /\ Encoded(f) \in Seq(Byte) /\ Len(Encoded(f)) = LenBytes + 1 + Len(f.payload)
<1> DEFINE n == 1 + Len(f.payload)
           l == to_le_bytes(n)
           k == <<f.kind>>
<1>1. n \in Nat /\ n < Weight[LenBytes] /\ n % Weight[LenBytes] = n
  BY FrameFields, WeightTypes, SMTT(60)
<1>2. k \in Seq(Byte) /\ f.payload \in Seq(Byte)
  BY FrameFields
<1>3. l \in Seq(Byte) /\ Len(l) = LenBytes
  <2> HIDE DEF n
  <2> QED
    BY <1>1, LengthType
<1>4. Encoded(f) = Cat(Cat(l, k), f.payload)
  BY <1>1 DEF Encoded, Cat
<1> HIDE DEF l, k
<1>5. Encoded(f) = Cat(l, Cat(k, f.payload))
  BY <1>2, <1>3, <1>4, CatAssociative
<1>6. Encoded(f) = Cat(l, Body(f))
  BY <1>5 DEF Body, k
<1>7. Body(f) \in Seq(Byte) /\ Len(Body(f)) = n
  BY BodyIs
<1>8. Cat(l, Body(f)) \in Seq(Byte) /\ Len(Cat(l, Body(f))) = Len(l) + Len(Body(f))
  BY <1>3, <1>7, CatType
<1> QED
  <2>1. Len(f.payload) \in Nat /\ LenBytes \in Nat
    BY FrameFields, ConstantTypes
  <2>2. Len(Encoded(f)) = LenBytes + 1 + Len(f.payload)
    <3>1. LenBytes + n = LenBytes + 1 + Len(f.payload)
      <4>1. \A x, y \in Nat : x + (1 + y) = x + 1 + y
        OBVIOUS
      <4> QED
        BY <2>1, <4>1, Zenon
    <3>2. Len(Encoded(f)) = Len(l) + Len(Body(f))
      BY <1>6, <1>8
    <3> QED
      BY <1>1, <1>3, <1>7, <2>1, <3>1, <3>2
  <2> QED
    BY <1>6, <1>8, <2>2 DEF l

\* Frames one after the other.
EncodedAll(frames) == [i \in 1 .. Len(frames) |-> Encoded(frames[i])]
Stream(frames) == FlattenSeq(EncodedAll(frames))

LEMMA EncodedAllType ==
  ASSUME NEW frames \in Seq(Frames)
  PROVE  EncodedAll(frames) \in Seq(Seq(Byte)) /\ Len(EncodedAll(frames)) = Len(frames)
<1>1. \A i \in 1 .. Len(frames) : Encoded(frames[i]) \in Seq(Byte)
  BY EncodedIs, ElementOfSeq
<1> DEFINE X == Seq(Byte)
<1> HIDE DEF X
<1>2. \A i \in 1 .. Len(frames) : Encoded(frames[i]) \in X
  BY <1>1 DEF X
<1>3. Len(frames) \in Nat
  BY LenProperties
<1>4. EncodedAll(frames) \in Seq(X) /\ Len(EncodedAll(frames)) = Len(frames)
  BY <1>2, <1>3 DEF EncodedAll
<1> QED
  BY <1>4 DEF X

LEMMA StreamType ==
  ASSUME NEW frames \in Seq(Frames)
  PROVE  Stream(frames) \in Seq(Byte)
  BY EncodedAllType, FlattenType DEF Stream

LEMMA StreamOfNone == Stream(<<>>) = <<>>
  BY DEF Stream, EncodedAll, FlattenSeq

LEMMA StreamAppend ==
  ASSUME NEW frames \in Seq(Frames), NEW f \in Frames
  PROVE  Stream(Append(frames, f)) = Cat(Stream(frames), Encoded(f))
<1>1. EncodedAll(Append(frames, f)) = Append(EncodedAll(frames), Encoded(f))
  <2> DEFINE X == Seq(Byte)
             m == Append(frames, f)
             e == EncodedAll(frames)
             g == EncodedAll(m)
             h == Append(e, Encoded(f))
             n == Len(frames)
  <2>1. /\ m \in Seq(Frames) /\ n \in Nat /\ Len(m) = n + 1 /\ m[n + 1] = f
        /\ \A i \in 1 .. n : m[i] = frames[i]
    BY AppendProperties, LenProperties
  <2> HIDE DEF m
  <2>2. g \in Seq(X) /\ Len(g) = n + 1
    BY <2>1, EncodedAllType
  <2>3. e \in Seq(X) /\ Len(e) = n /\ Encoded(f) \in X
    BY EncodedAllType, EncodedIs
  <2>4. \A i \in 1 .. n : e[i] = Encoded(frames[i])
    BY DEF EncodedAll
  <2>5. \A i \in 1 .. (n + 1) : g[i] = Encoded(m[i])
    BY <2>1 DEF EncodedAll
  <2> HIDE DEF X, e, g
  <2>6. /\ h \in Seq(X) /\ Len(h) = n + 1 /\ h[n + 1] = Encoded(f)
        /\ \A i \in 1 .. n : h[i] = e[i]
    BY <2>3, AppendProperties
  <2> HIDE DEF h
  <2>7. \A i \in 1 .. (n + 1) : g[i] = h[i]
    BY <2>1, <2>4, <2>5, <2>6
  <2>8. g = h
    BY <2>2, <2>6, <2>7, SeqEqual
  <2> QED
    BY <2>8 DEF g, h, e, m
<1>2. EncodedAll(frames) \in Seq(Seq(Byte)) /\ Encoded(f) \in Seq(Byte)
  BY EncodedAllType, EncodedIs
<1> QED
  BY <1>1, <1>2, FlattenAppend DEF Stream

LEMMA StreamFirst ==
  ASSUME NEW frames \in Seq(Frames), frames # <<>>
  PROVE  /\ Stream(frames) = Cat(Encoded(frames[1]), Stream(Tail(frames)))
         /\ frames[1] \in Frames /\ Tail(frames) \in Seq(Frames)
<1>1. /\ Tail(frames) \in Seq(Frames) /\ Len(Tail(frames)) = Len(frames) - 1
      /\ \A i \in 1 .. Len(Tail(frames)) : Tail(frames)[i] = frames[i + 1]
      /\ Len(frames) \in Nat \ {0}
  BY HeadTailProperties, EmptySeq
<1>2. frames[1] \in Frames
  BY <1>1, ElementOfSeq
<1> DEFINE e == EncodedAll(frames)
<1>3. e \in Seq(Seq(Byte)) /\ Len(e) = Len(frames)
  BY EncodedAllType
<1>4. e # <<>> /\ e[1] = Encoded(frames[1])
  BY <1>1, <1>3 DEF EncodedAll
<1>5. Tail(e) = EncodedAll(Tail(frames))
  <2> DEFINE X == Seq(Byte)
             t == Tail(frames)
             g == EncodedAll(t)
             n == Len(frames)
  <2>1. g \in Seq(X) /\ Len(g) = n - 1
    BY <1>1, EncodedAllType
  <2>2. \A i \in 1 .. (n - 1) : g[i] = Encoded(frames[i + 1])
    BY <1>1 DEF EncodedAll
  <2>3. \A i \in 1 .. n : e[i] = Encoded(frames[i])
    BY DEF EncodedAll
  <2>4. e \in Seq(X) /\ Len(e) = n /\ n \in Nat
    BY <1>1, <1>3
  <2> HIDE DEF X, g, n, e
  <2>5. /\ Tail(e) \in Seq(X) /\ Len(Tail(e)) = n - 1
        /\ \A i \in 1 .. (n - 1) : Tail(e)[i] = e[i + 1]
    BY <1>4, <2>4, HeadTailProperties
  <2>6. \A i \in 1 .. (n - 1) : Tail(e)[i] = g[i]
    BY <2>2, <2>3, <2>4, <2>5
  <2>7. Tail(e) = g
    BY <2>1, <2>5, <2>6, SeqEqual
  <2> QED
    BY <2>7 DEF g
<1> HIDE DEF e
<1>6. FlattenSeq(e) = Cat(e[1], FlattenSeq(Tail(e)))
  BY <1>3, <1>4, FlattenFirst
<1> QED
  BY <1>1, <1>2, <1>4, <1>5, <1>6 DEF Stream, e

-----------------------------------------------------------------------------
(* The inductive invariant: in step, what read_frame has of the first      *)
(* frame due, what is under way and what is still to be written are        *)
(* together the bytes of the frames due.                                   *)

Readers == [at : {"length", "body", "drain"}, need : Nat, bytes : Seq(Byte)]

\* What a reader waits for in each place, and has less of.
Waits(rd) ==
  /\ rd.at = "length" => rd.need = LenBytes /\ Len(rd.bytes) < LenBytes
  /\ rd.at = "body"   => rd.need \in 1 .. BufLen /\ Len(rd.bytes) < rd.need
  /\ rd.at = "drain"  => rd.need > 0 /\ rd.bytes = <<>>

\* After the length, a reader in step knows the size of the first frame due.
Knows(rd, frames) ==
  /\ rd.at # "length" => frames # <<>>
  /\ rd.at = "body"  => rd.need = 1 + Len(frames[1].payload)
  /\ rd.at = "drain" => /\ rd.need <= 1 + Len(frames[1].payload)
                        /\ BufLen < 1 + Len(frames[1].payload)

\* The bytes of the first frame due that are read.
ReadOf(rd, frames) ==
  IF rd.at = "length" THEN rd.bytes
  ELSE IF rd.at = "body" THEN Cat(to_le_bytes(rd.need), rd.bytes)
  ELSE SubSeq(Encoded(frames[1]), 1, Len(Encoded(frames[1])) - rd.need)

\* `lost` is what a writer that has closed the stream did not write.
Completes(rd, frames, w, r, lost) ==
  Cat(ReadOf(rd, frames), Cat(w, Cat(r, lost))) = Stream(frames)

Aligned(rd, frames, w, r, o) ==
  /\ Knows(rd, frames)
  /\ \E lost \in Seq(Byte) :
       /\ Completes(rd, frames, w, r, lost)
       /\ o => lost = <<>>
       /\ frames # <<>> => Len(r) + Len(lost) <= Len(Encoded(frames[Len(frames)]))

IndInv ==
  /\ TypeOK
  /\ Waits(reader)
  /\ inStep => Aligned(reader, due, wire, rest, open)
  /\ ~inStep => due = <<>>
  /\ ~open => medium = "tcp" /\ rest = <<>>

-----------------------------------------------------------------------------
(* Readers in step.                                                        *)

\* What is read of a frame is less than the frame.
LEMMA ReadType ==
  ASSUME NEW rd \in Readers, NEW frames \in Seq(Frames), Waits(rd), Knows(rd, frames)
  PROVE  /\ ReadOf(rd, frames) \in Seq(Byte)
         /\ Len(ReadOf(rd, frames)) = IF rd.at = "length" THEN Len(rd.bytes)
                                      ELSE IF rd.at = "body" THEN LenBytes + Len(rd.bytes)
                                      ELSE Len(Encoded(frames[1])) - rd.need
         /\ frames # <<>> => Len(ReadOf(rd, frames)) < Len(Encoded(frames[1]))
<1> DEFINE e == Encoded(frames[1])
           p == Len(frames[1].payload)
           b == rd.bytes
           read == ReadOf(rd, frames)
<1>1. b \in Seq(Byte) /\ Len(b) \in Nat /\ rd.need \in Nat
  BY LenProperties DEF Readers
<1>2. ASSUME frames # <<>>
      PROVE  /\ e \in Seq(Byte) /\ p \in Nat
             /\ Len(e) = LenBytes + 1 + p
             /\ 1 + p < Weight[LenBytes]
  BY <1>2, StreamFirst, EncodedIs, FrameFields
<1>3. LenBytes \in Nat /\ LenBytes > 0
  BY ConstantTypes
<1>4. /\ rd.at = "length" => read = b
      /\ rd.at = "body" => read = Cat(to_le_bytes(rd.need), b)
      /\ rd.at = "drain" => read = SubSeq(e, 1, Len(e) - rd.need)
  BY DEF ReadOf
<1>5. /\ rd.at = "length" => Len(b) < LenBytes
      /\ rd.at = "body" => frames # <<>> /\ rd.need = 1 + p /\ Len(b) < rd.need
      /\ rd.at = "drain" => frames # <<>> /\ rd.need <= 1 + p /\ rd.need > 0
  BY DEF Waits, Knows
<1> HIDE DEF e, p, b, read
<1>6. CASE rd.at = "length"
  BY <1>1, <1>2, <1>3, <1>4, <1>5, <1>6 DEF e, b, read
<1>7. CASE rd.at = "body"
  <2>1. to_le_bytes(rd.need) \in Seq(Byte) /\ Len(to_le_bytes(rd.need)) = LenBytes
    BY <1>1, <1>2, <1>5, <1>7, LengthType
  <2>2. read \in Seq(Byte) /\ Len(read) = LenBytes + Len(b)
    BY <1>1, <1>4, <1>7, <2>1, CatType
  <2>3. Len(read) < Len(e)
    BY <1>1, <1>2, <1>3, <1>5, <1>7, <2>2
  <2> QED
    BY <1>7, <2>2, <2>3 DEF e, b, read
<1>8. CASE rd.at = "drain"
  <2> DEFINE k == Len(e) - rd.need
  <2>1. k \in 0 .. Len(e) /\ k < Len(e)
    BY <1>1, <1>2, <1>3, <1>5, <1>8
  <2>2. read = SubSeq(e, 1, k)
    BY <1>4, <1>8
  <2> HIDE DEF k
  <2>3. SubSeq(e, 1, k) \in Seq(Byte) /\ Len(SubSeq(e, 1, k)) = k
    BY <1>2, <1>5, <1>8, <2>1, CatCut
  <2> QED
    BY <1>8, <2>1, <2>2, <2>3 DEF k, e, read
<1> QED
  BY <1>6, <1>7, <1>8 DEF Readers

\* Bytes that are taken from the wire and added to what is read.
LEMMA Consumed ==
  ASSUME NEW read \in Seq(Byte), NEW w \in Seq(Byte), NEW z \in Seq(Byte),
         NEW n \in 1 .. Len(w)
  PROVE  /\ SubSeq(w, 1, n) \in Seq(Byte) /\ SubSeq(w, n + 1, Len(w)) \in Seq(Byte)
         /\ Len(SubSeq(w, 1, n)) = n /\ Len(SubSeq(w, n + 1, Len(w))) = Len(w) - n
         /\ Cat(read, Cat(w, z))
              = Cat(Cat(read, SubSeq(w, 1, n)), Cat(SubSeq(w, n + 1, Len(w)), z))
<1> DEFINE x == SubSeq(w, 1, n)
           y == SubSeq(w, n + 1, Len(w))
<1>1. /\ x \in Seq(Byte) /\ y \in Seq(Byte) /\ Cat(x, y) = w
      /\ Len(x) = n /\ Len(y) = Len(w) - n
  BY CatCut
<1> HIDE DEF x, y
<1>2. Cat(y, z) \in Seq(Byte)
  BY <1>1, CatType
<1>3. Cat(Cat(x, y), z) = Cat(x, Cat(y, z))
  BY <1>1, CatAssociative
<1>4. Cat(Cat(read, x), Cat(y, z)) = Cat(read, Cat(x, Cat(y, z)))
  BY <1>1, <1>2, CatAssociative
<1> QED
  BY <1>1, <1>3, <1>4 DEF x, y

\* The next n bytes of a reader in step are bytes of the frames due.
LEMMA NextBytes ==
  ASSUME NEW rd \in Readers, NEW frames \in Seq(Frames), NEW w \in Seq(Byte),
         NEW r \in Seq(Byte), NEW o, Waits(rd), Aligned(rd, frames, w, r, o),
         NEW n \in 1 .. Len(w)
  PROVE  /\ frames # <<>>
         /\ Cat(ReadOf(rd, frames), SubSeq(w, 1, n)) \in Seq(Byte)
         /\ Len(Cat(ReadOf(rd, frames), SubSeq(w, 1, n))) = Len(ReadOf(rd, frames)) + n
         /\ SubSeq(w, n + 1, Len(w)) \in Seq(Byte)
         /\ \E lost \in Seq(Byte) :
              /\ Cat(Cat(ReadOf(rd, frames), SubSeq(w, 1, n)),
                     Cat(SubSeq(w, n + 1, Len(w)), Cat(r, lost)))
                   = Cat(Encoded(frames[1]), Stream(Tail(frames)))
              /\ o => lost = <<>>
              /\ Len(r) + Len(lost) <= Len(Encoded(frames[Len(frames)]))
<1> DEFINE read == ReadOf(rd, frames)
           x == SubSeq(w, 1, n)
           y == SubSeq(w, n + 1, Len(w))
<1>1. PICK lost \in Seq(Byte) :
        /\ Cat(read, Cat(w, Cat(r, lost))) = Stream(frames)
        /\ o => lost = <<>>
        /\ frames # <<>> => Len(r) + Len(lost) <= Len(Encoded(frames[Len(frames)]))
  BY DEF Aligned, Completes
<1>2. read \in Seq(Byte) /\ Len(read) \in Nat
  BY ReadType, LenProperties DEF Aligned
<1> DEFINE z == Cat(r, lost)
<1>3. z \in Seq(Byte)
  BY CatType
<1> HIDE DEF read, x, y, z
<1>4. /\ x \in Seq(Byte) /\ y \in Seq(Byte) /\ Len(x) = n
      /\ Cat(read, Cat(w, z)) = Cat(Cat(read, x), Cat(y, z))
  BY <1>2, <1>3, Consumed DEF x, y
<1>5. Cat(read, x) \in Seq(Byte) /\ Len(Cat(read, x)) = Len(read) + n
  BY <1>2, <1>4, CatType
<1>6. Cat(Cat(read, x), Cat(y, z)) = Stream(frames)
  BY <1>1, <1>4 DEF z
<1>7. frames # <<>>
  <2>1. Cat(y, z) \in Seq(Byte)
    BY <1>3, <1>4, CatType
  <2>2. Len(Cat(Cat(read, x), Cat(y, z))) = Len(Cat(read, x)) + Len(Cat(y, z))
    BY <1>5, <2>1, CatType
  <2>3. Len(Cat(y, z)) \in Nat
    BY <2>1, LenProperties
  <2>4. Len(Stream(frames)) # 0
    BY <1>2, <1>5, <1>6, <2>2, <2>3
  <2>5. Len(<<>>) = 0
    OBVIOUS
  <2> QED
    BY <2>4, <2>5, StreamOfNone
<1>8. Stream(frames) = Cat(Encoded(frames[1]), Stream(Tail(frames)))
  BY <1>7, StreamFirst
<1> QED
  BY <1>1, <1>4, <1>5, <1>6, <1>7, <1>8 DEF read, x, y, z

\* A reader that has read on but not to the end of the frame is in step.
LEMMA ReadsOn ==
  ASSUME NEW rd \in Readers, NEW frames \in Seq(Frames), NEW w \in Seq(Byte),
         NEW r \in Seq(Byte), NEW o, Waits(rd), Aligned(rd, frames, w, r, o),
         NEW n \in 1 .. Len(w), NEW rd2, Knows(rd2, frames),
         ReadOf(rd2, frames) = Cat(ReadOf(rd, frames), SubSeq(w, 1, n))
  PROVE  Aligned(rd2, frames, SubSeq(w, n + 1, Len(w)), r, o)
<1>1. frames # <<>>
  BY NextBytes
<1>2. Stream(frames) = Cat(Encoded(frames[1]), Stream(Tail(frames)))
  BY <1>1, StreamFirst
<1>3. PICK lost \in Seq(Byte) :
        /\ Cat(Cat(ReadOf(rd, frames), SubSeq(w, 1, n)),
               Cat(SubSeq(w, n + 1, Len(w)), Cat(r, lost)))
             = Cat(Encoded(frames[1]), Stream(Tail(frames)))
        /\ o => lost = <<>>
        /\ Len(r) + Len(lost) <= Len(Encoded(frames[Len(frames)]))
  BY NextBytes
<1>4. Completes(rd2, frames, SubSeq(w, n + 1, Len(w)), r, lost)
  BY <1>2, <1>3 DEF Completes
<1> QED
  BY <1>3, <1>4 DEF Aligned

\* One that has read to the end has read the frame, and is in step for the next one.
LEMMA Finished ==
  ASSUME NEW rd \in Readers, NEW frames \in Seq(Frames), NEW w \in Seq(Byte),
         NEW r \in Seq(Byte), NEW o, Waits(rd), Aligned(rd, frames, w, r, o),
         NEW n \in 1 .. Len(w), frames # <<>>,
         Len(ReadOf(rd, frames)) + n = Len(Encoded(frames[1]))
  PROVE  /\ Cat(ReadOf(rd, frames), SubSeq(w, 1, n)) = Encoded(frames[1])
         /\ Aligned(AtLength, Tail(frames), SubSeq(w, n + 1, Len(w)), r, o)
<1> DEFINE x == Cat(ReadOf(rd, frames), SubSeq(w, 1, n))
           y == SubSeq(w, n + 1, Len(w))
           e == Encoded(frames[1])
           t == Stream(Tail(frames))
<1>1. frames[1] \in Frames /\ Tail(frames) \in Seq(Frames)
  BY StreamFirst
<1>2. e \in Seq(Byte) /\ t \in Seq(Byte)
  BY <1>1, EncodedIs, StreamType
<1>3. x \in Seq(Byte) /\ Len(x) = Len(e) /\ y \in Seq(Byte)
  BY NextBytes
<1>4. PICK lost \in Seq(Byte) :
        /\ Cat(x, Cat(y, Cat(r, lost))) = Cat(e, t)
        /\ o => lost = <<>>
        /\ Len(r) + Len(lost) <= Len(Encoded(frames[Len(frames)]))
  BY NextBytes
<1> DEFINE z == Cat(y, Cat(r, lost))
<1>5. z \in Seq(Byte)
  <2> HIDE DEF y
  <2>1. Cat(r, lost) \in Seq(Byte)
    BY CatType
  <2> QED
    BY <1>3, <2>1, CatType
<1> HIDE DEF x, y, e, t, z
<1>6. x = e /\ z = t
  <2>1. Cat(x, z) = Cat(e, t)
    BY <1>4 DEF z
  <2> QED
    BY <1>2, <1>3, <1>5, <2>1, CatSplit
<1>7. Knows(AtLength, Tail(frames)) /\ ReadOf(AtLength, Tail(frames)) = <<>>
  BY DEF Knows, AtLength, Reading, ReadOf
<1>8. Completes(AtLength, Tail(frames), y, r, lost)
  <2>1. Cat(<<>>, z) = z
    BY <1>5, CatEmpty
  <2> QED
    BY <1>6, <1>7, <2>1 DEF Completes, z, t
<1>9. Tail(frames) # <<>> => Tail(frames)[Len(Tail(frames))] = frames[Len(frames)]
  <2>1. /\ Len(frames) \in Nat \ {0} /\ Tail(frames) \in Seq(Frames)
        /\ Len(Tail(frames)) = Len(frames) - 1
        /\ \A i \in 1 .. Len(Tail(frames)) : Tail(frames)[i] = frames[i + 1]
    BY HeadTailProperties, EmptySeq
  <2>2. Tail(frames) # <<>> => Len(Tail(frames)) \in Nat \ {0}
    BY <2>1, EmptySeq
  <2> QED
    BY <2>1, <2>2
<1>10. Aligned(AtLength, Tail(frames), y, r, o)
  BY <1>4, <1>7, <1>8, <1>9 DEF Aligned
<1> QED
  BY <1>6, <1>10 DEF x, y, e

\* The length that a reader in step reads is the one of the first frame due.
LEMMA LengthRead ==
  ASSUME NEW rd \in Readers, NEW frames \in Seq(Frames), NEW w \in Seq(Byte),
         NEW r \in Seq(Byte), NEW o, Waits(rd), Aligned(rd, frames, w, r, o),
         NEW n \in 1 .. Len(w), rd.at = "length", Len(rd.bytes) + n = LenBytes
  PROVE  /\ frames # <<>> /\ frames[1] \in Frames
         /\ Cat(rd.bytes, SubSeq(w, 1, n)) = to_le_bytes(1 + Len(frames[1].payload))
<1> DEFINE x == Cat(rd.bytes, SubSeq(w, 1, n))
           y == SubSeq(w, n + 1, Len(w))
           p == 1 + Len(frames[1].payload)
           l == to_le_bytes(p)
           b == Body(frames[1])
           t == Stream(Tail(frames))
<1>0. ReadOf(rd, frames) = rd.bytes
  BY DEF ReadOf
<1>1. frames # <<>> /\ x \in Seq(Byte) /\ Len(x) = LenBytes /\ y \in Seq(Byte)
  BY <1>0, NextBytes
<1>2. frames[1] \in Frames /\ Tail(frames) \in Seq(Frames)
  BY <1>1, StreamFirst
<1>3. PICK lost \in Seq(Byte) : Cat(x, Cat(y, Cat(r, lost))) = Cat(Encoded(frames[1]), t)
  BY <1>0, NextBytes
<1>4. p \in Nat /\ p < Weight[LenBytes]
  BY <1>2, FrameFields
<1>5. l \in Seq(Byte) /\ Len(l) = LenBytes
  <2> HIDE DEF p
  <2> QED
    BY <1>4, LengthType
<1>6. Encoded(frames[1]) = Cat(l, b) /\ b \in Seq(Byte) /\ t \in Seq(Byte)
  BY <1>2, EncodedIs, BodyIs, StreamType
<1> DEFINE z == Cat(y, Cat(r, lost))
<1> HIDE DEF x, y, l, b, t
<1>7. z \in Seq(Byte)
  <2>1. Cat(r, lost) \in Seq(Byte)
    BY CatType
  <2> QED
    BY <1>1, <2>1, CatType
<1>8. Cat(Cat(l, b), t) = Cat(l, Cat(b, t)) /\ Cat(b, t) \in Seq(Byte)
  BY <1>5, <1>6, CatAssociative, CatType
<1>9. Cat(x, z) = Cat(l, Cat(b, t))
  BY <1>3, <1>6, <1>8
<1> HIDE DEF z
<1>10. x = l
  BY <1>1, <1>5, <1>7, <1>8, <1>9, CatSplit
<1> QED
  BY <1>1, <1>2, <1>10 DEF x, l

\* What is skipped are bytes of the first frame due.
LEMMA DrainRead ==
  ASSUME NEW rd \in Readers, NEW frames \in Seq(Frames), NEW w \in Seq(Byte),
         NEW r \in Seq(Byte), NEW o, Waits(rd), Aligned(rd, frames, w, r, o),
         NEW n \in 1 .. Len(w), rd.at = "drain", n < rd.need
  PROVE  Cat(ReadOf(rd, frames), SubSeq(w, 1, n))
           = SubSeq(Encoded(frames[1]), 1, Len(Encoded(frames[1])) - (rd.need - n))
<1> DEFINE read == ReadOf(rd, frames)
           x == Cat(read, SubSeq(w, 1, n))
           y == SubSeq(w, n + 1, Len(w))
           e == Encoded(frames[1])
           t == Stream(Tail(frames))
<1>1. frames # <<>> /\ x \in Seq(Byte) /\ Len(x) = Len(read) + n /\ y \in Seq(Byte)
  BY NextBytes
<1>2. e \in Seq(Byte) /\ t \in Seq(Byte) /\ Len(e) \in Nat
  BY <1>1, StreamFirst, EncodedIs, StreamType, LenProperties
<1>3. PICK lost \in Seq(Byte) : Cat(x, Cat(y, Cat(r, lost))) = Cat(e, t)
  BY NextBytes
<1> DEFINE z == Cat(y, Cat(r, lost))
<1>4. z \in Seq(Byte)
  <2> HIDE DEF y
  <2>1. Cat(r, lost) \in Seq(Byte)
    BY CatType
  <2> QED
    BY <1>1, <2>1, CatType
<1>5. Len(read) = Len(e) - rd.need /\ rd.need \in Nat
  <2>1. Knows(rd, frames)
    BY DEF Aligned
  <2>2. rd.at = "drain" /\ rd.need \in Nat
    BY DEF Readers
  <2>3. Len(read) = IF rd.at = "length" THEN Len(rd.bytes)
                    ELSE IF rd.at = "body" THEN LenBytes + Len(rd.bytes) ELSE Len(e) - rd.need
    BY <2>1, ReadType, Zenon
  <2> QED
    BY <2>2, <2>3
<1>6. Len(x) <= Len(e) /\ Len(x) = Len(e) - (rd.need - n)
  <2> HIDE DEF read, x, y, e, t
  <2> QED
    BY <1>1, <1>2, <1>5, SMTT(60)
<1>7. Cat(x, z) = Cat(e, t)
  BY <1>3
<1> HIDE DEF x, e, t, z
<1>8. x = SubSeq(e, 1, Len(x))
  BY <1>1, <1>2, <1>4, <1>6, <1>7, CatPrefix
<1> QED
  BY <1>6, <1>8 DEF x, e

-----------------------------------------------------------------------------
(* The steps of the reader.                                                *)

LEMMA AtLengthIs ==
  /\ AtLength \in Readers /\ Waits(AtLength)
  /\ AtLength.at = "length" /\ AtLength.bytes = <<>>
<1>1. AtLength = [at |-> "length", need |-> LenBytes, bytes |-> <<>>]
  BY DEF AtLength, Reading
<1>2. <<>> \in Seq(Byte) /\ Len(<<>>) = 0
  OBVIOUS
<1>3. LenBytes \in Nat /\ LenBytes > 0
  BY ConstantTypes
<1> QED
  BY <1>1, <1>2, <1>3 DEF Readers, Waits

\* A connection without bytes is in step.
LEMMA AlignedAtPause ==
  ASSUME NEW o
  PROVE  Aligned(AtLength, <<>>, <<>>, <<>>, o)
<1>1. Knows(AtLength, <<>>) /\ ReadOf(AtLength, <<>>) = <<>>
  BY AtLengthIs DEF Knows, ReadOf
<1>2. <<>> \in Seq(Byte) /\ Cat(<<>>, <<>>) = <<>>
  <2> DEFINE e == <<>>
  <2>1. e \in Seq(Byte)
    OBVIOUS
  <2> HIDE DEF e
  <2>2. Cat(<<>>, e) = e
    BY <2>1, CatEmpty
  <2> QED
    BY <2>1, <2>2 DEF e
<1>3. Completes(AtLength, <<>>, <<>>, <<>>, <<>>)
  BY <1>1, <1>2, StreamOfNone DEF Completes
<1> QED
  BY <1>1, <1>2, <1>3 DEF Aligned

\* What a read takes from the wire.
LEMMA Taken ==
  ASSUME TypeOK, NEW at, NEW some \in Arriving(at), Takes(some)
  PROVE  \E n \in 1 .. Len(wire) :
           /\ reader.at = at /\ Len(reader.bytes) + n <= reader.need
           /\ some = SubSeq(wire, 1, n) /\ some \in Seq(Byte) /\ Len(some) = n
           /\ wire' = SubSeq(wire, n + 1, Len(wire))
           /\ wire' \in Seq(Byte) /\ Len(wire') <= MaxWire
           /\ UNCHANGED <<medium, rest, open>>
<1>1. PICK n \in 1 .. Len(wire) : /\ reader.at = at /\ Len(reader.bytes) + n <= reader.need
                                  /\ some = SubSeq(wire, 1, n)
  BY DEF Arriving
<1>2. wire \in Seq(Byte) /\ Len(wire) \in Nat /\ Len(wire) <= MaxWire
  BY LenProperties DEF TypeOK
<1>3. n \in 0 .. Len(wire)
  BY <1>1, <1>2
<1>4. /\ SubSeq(wire, 1, n) \in Seq(Byte) /\ SubSeq(wire, n + 1, Len(wire)) \in Seq(Byte)
      /\ Len(SubSeq(wire, 1, n)) = n /\ Len(SubSeq(wire, n + 1, Len(wire))) = Len(wire) - n
  BY <1>2, <1>3, CatCut
<1>5. wire' = SubSeq(wire, n + 1, Len(wire)) /\ UNCHANGED <<medium, rest, open>>
  BY <1>1, <1>4 DEF Takes
<1>6. Len(wire) - n <= MaxWire
  BY <1>2, <1>3, ConstantTypes
<1> QED
  BY <1>1, <1>4, <1>5, <1>6

\* Out of step, whatever happens leaves no frames due.
LEMMA OutOfStep ==
  ASSUME TypeOK, ~inStep, inStep' \in BOOLEAN, due' = due, open' = open
  PROVE  Whole!Next
<1>1. inStep \in BOOLEAN
  BY DEF TypeOK
<1>2. CASE inStep'
  BY <1>2 DEF Whole!Next, Whole!Realign
<1>3. CASE ~inStep'
  BY <1>1, <1>3 DEF Whole!Next, Whole!Stray
<1> QED
  BY <1>2, <1>3

\* read_frame goes on with the frame it is in.
LEMMA GoesOnStep ==
  ASSUME IndInv, NEW n \in 1 .. Len(wire), NEW place \in Readers, Waits(place),
         wire' = SubSeq(wire, n + 1, Len(wire)),
         wire' \in Seq(Byte), Len(wire') <= MaxWire, UNCHANGED <<medium, rest, open>>,
         inStep => /\ Knows(place, due)
                   /\ ReadOf(place, due) = Cat(ReadOf(reader, due), SubSeq(wire, 1, n)),
         GoesOn(place)
  PROVE  IndInv' /\ Whole!Next
<1>1. got' = None /\ reader' = place /\ Regain(FALSE) /\ Account(due)
  BY DEF GoesOn
<1>2. due' = due
  BY <1>1 DEF Account, Regain, IndInv
<1>3. inStep' \in BOOLEAN
  BY <1>1 DEF Regain, IndInv, TypeOK
<1>4. TypeOK'
  BY <1>1, <1>2, <1>3 DEF IndInv, TypeOK, Readers
<1>5. Waits(reader)' /\ (~open' => medium' = "tcp" /\ rest' = <<>>)
  BY <1>1 DEF IndInv
<1>6. CASE inStep
  <2>1. inStep'
    BY <1>1, <1>6 DEF Regain
  <2>2. Aligned(place, due, wire', rest, open)
    BY <1>6, ReadsOn DEF IndInv, TypeOK, Readers
  <2> QED
    BY <1>1, <1>2, <1>4, <1>5, <1>6, <2>1, <2>2
    DEF IndInv, Whole!Next, Whole!Wait
<1>7. CASE ~inStep
  <2>1. due = <<>>
    BY <1>7 DEF IndInv
  <2>2. inStep' => rest' = <<>> /\ wire' = <<>> /\ reader' = AtLength
    BY <1>1, <1>7 DEF Regain
  <2>3. inStep' => Aligned(reader', due', wire', rest', open')
    BY <1>2, <2>1, <2>2, AlignedAtPause
  <2>4. Whole!Next
    BY <1>2, <1>3, <1>7, OutOfStep DEF IndInv
  <2> QED
    BY <1>2, <1>4, <1>5, <2>1, <2>3, <2>4 DEF IndInv
<1> QED
  BY <1>6, <1>7

\* read_frame returns.
LEMMA ReturnsStep ==
  ASSUME IndInv, NEW n \in 1 .. Len(wire), NEW result,
         wire' = SubSeq(wire, n + 1, Len(wire)),
         wire' \in Seq(Byte), Len(wire') <= MaxWire, UNCHANGED <<medium, rest, open>>,
         inStep => /\ due # <<>>
                   /\ Len(ReadOf(reader, due)) + n = Len(Encoded(due[1]))
                   /\ result = IF Head(due) \in Fitting THEN [ok |-> Head(due)] ELSE TooLarge,
         Returns(result)
  PROVE  IndInv' /\ Whole!Next
<1>1. /\ got' = result /\ reader' = AtLength /\ Regain(FALSE)
      /\ Account(IF inStep THEN Tail(due) ELSE due)
  BY DEF Returns
<1>2. inStep' \in BOOLEAN /\ (inStep => inStep')
  BY <1>1 DEF Regain, IndInv, TypeOK
<1>3. due' = IF inStep THEN Tail(due) ELSE due
  BY <1>1, <1>2 DEF Account, Regain, IndInv
<1>4. due' \in Seq(Frames)
  BY <1>3, HeadTailProperties DEF IndInv, TypeOK
<1>5. TypeOK'
  BY <1>1, <1>2, <1>4, AtLengthIs DEF IndInv, TypeOK, Readers
<1>6. Waits(reader)' /\ (~open' => medium' = "tcp" /\ rest' = <<>>)
  BY <1>1, AtLengthIs DEF IndInv
<1>7. CASE inStep
  <2>1. Aligned(AtLength, Tail(due), wire', rest, open)
    BY <1>7, Finished DEF IndInv, TypeOK, Readers
  <2>2. Whole!Next
    BY <1>1, <1>2, <1>3, <1>7 DEF Whole!Next, Whole!Receive, TooLarge, Whole!TooLarge
  <2> QED
    BY <1>1, <1>2, <1>3, <1>5, <1>6, <1>7, <2>1, <2>2 DEF IndInv
<1>8. CASE ~inStep
  <2>1. due = <<>>
    BY <1>8 DEF IndInv
  <2>2. inStep' => rest' = <<>> /\ wire' = <<>> /\ reader' = AtLength
    BY <1>1, <1>8 DEF Regain
  <2>3. inStep' => Aligned(reader', due', wire', rest', open')
    BY <1>3, <1>8, <2>1, <2>2, AlignedAtPause
  <2>4. Whole!Next
    BY <1>2, <1>3, <1>8, OutOfStep DEF IndInv
  <2> QED
    BY <1>3, <1>5, <1>6, <1>8, <2>1, <2>3, <2>4 DEF IndInv
<1> QED
  BY <1>7, <1>8

\* read_frame begins to wait for the frame of this length.
LEMMA ReadingIs ==
  ASSUME NEW at \in {"body", "drain"}, NEW m \in Nat, m > 0, at = "body" => m <= BufLen
  PROVE  /\ Reading(at, m) \in Readers /\ Waits(Reading(at, m))
         /\ Reading(at, m).at = at /\ Reading(at, m).need = m /\ Reading(at, m).bytes = <<>>
<1> DEFINE place == Reading(at, m)
           e == <<>>
<1>1. e \in Seq(Byte) /\ Len(e) = 0
  OBVIOUS
<1>2. place = [at |-> at, need |-> m, bytes |-> e]
  BY DEF Reading
<1>3. BufLen \in Nat
  BY ConstantTypes
<1> HIDE DEF place, e
<1>4. place \in Readers /\ place.at = at /\ place.need = m /\ place.bytes = e
  BY <1>1, <1>2 DEF Readers
<1>5. Waits(place)
  BY <1>1, <1>3, <1>4 DEF Waits, e
<1> QED
  BY <1>4, <1>5 DEF place, e

LEMMA ReadLengthStep ==
  ASSUME IndInv, ReadLength
  PROVE  IndInv' /\ Whole!Next
<1>1. PICK some \in Arriving("length") :
        /\ Takes(some)
        /\ LET bytes == reader.bytes \o some
               len == from_le_bytes(bytes)
           IN CASE Len(bytes) < LenBytes -> GoesOn([reader EXCEPT !.bytes = bytes])
                [] Len(bytes) = LenBytes /\ len = 0 -> Returns(TooLarge)
                [] Len(bytes) = LenBytes /\ len > BufLen -> GoesOn(Reading("drain", len))
                [] Len(bytes) = LenBytes /\ len \in 1 .. BufLen -> GoesOn(Reading("body", len))
  BY DEF ReadLength
<1>2. PICK n \in 1 .. Len(wire) :
        /\ reader.at = "length" /\ Len(reader.bytes) + n <= reader.need
        /\ some = SubSeq(wire, 1, n) /\ some \in Seq(Byte) /\ Len(some) = n
        /\ wire' = SubSeq(wire, n + 1, Len(wire))
        /\ wire' \in Seq(Byte) /\ Len(wire') <= MaxWire
        /\ UNCHANGED <<medium, rest, open>>
  BY <1>1, Taken DEF IndInv
<1>3. reader \in Readers /\ reader.bytes \in Seq(Byte) /\ reader.need = LenBytes
  BY <1>2 DEF IndInv, TypeOK, Waits, Readers
<1>4. LenBytes \in Nat /\ BufLen \in Nat /\ n \in Nat /\ Len(reader.bytes) \in Nat
  <2>1. LenBytes \in Nat /\ BufLen \in Nat
    BY ConstantTypes
  <2>2. n \in Nat
    OBVIOUS
  <2> QED
    BY <1>3, <2>1, <2>2, LenProperties
<1> DEFINE b == reader.bytes \o some
           m == from_le_bytes(b)
<1>5. b = Cat(reader.bytes, some)
  BY DEF Cat
<1>6. b \in Seq(Byte) /\ Len(b) \in Nat /\ Len(b) <= LenBytes
  <2> HIDE DEF b
  <2>1. b \in Seq(Byte) /\ Len(b) = Len(reader.bytes) + Len(some)
    BY <1>2, <1>3, <1>5, CatType
  <2> QED
    BY <1>2, <1>3, <1>4, <2>1
<1>7. Len(b) = LenBytes => m \in Nat
  <2> HIDE DEF b
  <2>1. Len(b) = LenBytes => b \in [1 .. LenBytes -> Byte]
    BY <1>6, LenProperties
  <2> QED
    BY <2>1, FromBytesType
<1>8. /\ Len(b) < LenBytes => GoesOn([reader EXCEPT !.bytes = b])
      /\ Len(b) = LenBytes /\ m = 0 => Returns(TooLarge)
      /\ Len(b) = LenBytes /\ m > BufLen => GoesOn(Reading("drain", m))
      /\ Len(b) = LenBytes /\ m \in 1 .. BufLen => GoesOn(Reading("body", m))
  <2>1. ~(Len(b) < LenBytes) \/ Len(b) # LenBytes
    BY <1>4, <1>6
  <2>2. Len(b) < LenBytes => GoesOn([reader EXCEPT !.bytes = b])
    BY <1>1, <2>1
  <2>3. m = 0 => ~(m > BufLen) /\ m \notin 1 .. BufLen
    BY <1>4
  <2>4. Len(b) = LenBytes /\ m = 0 => Returns(TooLarge)
    BY <1>1, <2>1, <2>3
  <2>5. Len(b) = LenBytes /\ m > BufLen => m # 0 /\ m \notin 1 .. BufLen
    BY <1>4, <1>7
  <2>6. Len(b) = LenBytes /\ m > BufLen => GoesOn(Reading("drain", m))
    BY <1>1, <2>1, <2>5
  <2>7. m \in 1 .. BufLen => m # 0 /\ ~(m > BufLen)
    BY <1>4
  <2>8. Len(b) = LenBytes /\ m \in 1 .. BufLen => GoesOn(Reading("body", m))
    BY <1>1, <2>1, <2>7
  <2> QED
    BY <2>2, <2>4, <2>6, <2>8
<1> HIDE DEF b, m
<1>9. ReadOf(reader, due) = reader.bytes
  BY <1>2 DEF ReadOf
<1>10. CASE Len(b) < LenBytes
  <2> DEFINE place == [reader EXCEPT !.bytes = b]
  <2>1. GoesOn(place)
    BY <1>8, <1>10
  <2>2. place \in Readers /\ place.at = "length" /\ place.bytes = b /\ place.need = LenBytes
    BY <1>2, <1>3, <1>6 DEF Readers
  <2> HIDE DEF place
  <2>3. Waits(place) /\ Knows(place, due) /\ ReadOf(place, due) = b
    BY <1>10, <2>2 DEF Waits, Knows, ReadOf
  <2> QED
    BY <1>2, <1>5, <1>9, <2>1, <2>2, <2>3, GoesOnStep
<1>11. CASE Len(b) = LenBytes
  <2>1. ASSUME inStep
        PROVE  /\ due # <<>> /\ due[1] \in Frames /\ m = 1 + Len(due[1].payload)
               /\ Len(due[1].payload) \in Nat /\ m < Weight[LenBytes] /\ b = to_le_bytes(m)
    <3>1. Len(reader.bytes) + n = LenBytes
      <4>1. Len(b) = Len(reader.bytes) + Len(some)
        BY <1>2, <1>3, <1>5, CatType
      <4> QED
        BY <1>2, <1>11, <4>1
    <3>2. /\ due # <<>> /\ due[1] \in Frames
          /\ b = to_le_bytes(1 + Len(due[1].payload))
      BY <1>2, <1>3, <1>5, <2>1, <3>1, LengthRead DEF IndInv, TypeOK
    <3>3. 1 + Len(due[1].payload) \in Nat /\ 1 + Len(due[1].payload) < Weight[LenBytes]
      BY <3>2, FrameFields
    <3>4. m = 1 + Len(due[1].payload)
      BY <3>2, <3>3, LengthRoundTrip DEF m
    <3> QED
      BY <3>2, <3>3, <3>4, FrameFields
  <2>2. m \in Nat
    BY <1>7, <1>11
  <2>3. CASE m = 0
    <3>1. Returns(TooLarge)
      BY <1>8, <1>11, <2>3
    <3>2. ~inStep
      BY <2>1, <2>3
    <3> QED
      BY <1>2, <3>1, <3>2, ReturnsStep
  <2>4. CASE m > BufLen
    <3> DEFINE place == Reading("drain", m)
    <3>1. GoesOn(place)
      BY <1>8, <1>11, <2>4
    <3>2. /\ place \in Readers /\ Waits(place)
          /\ place.at = "drain" /\ place.need = m /\ place.bytes = <<>>
      BY <1>4, <2>2, <2>4, ReadingIs
    <3> HIDE DEF place
    <3>3. ASSUME inStep
          PROVE  Knows(place, due) /\ ReadOf(place, due) = b
      <4> DEFINE e == Encoded(due[1])
                 y == Body(due[1])
                 z == <<>>
      <4>1. y \in Seq(Byte) /\ Len(y) = m /\ e \in Seq(Byte) /\ e = Cat(b, y)
        BY <2>1, <3>3, BodyIs, EncodedIs
      <4> HIDE DEF e, y
      <4>2. z \in Seq(Byte)
        OBVIOUS
      <4> HIDE DEF z
      <4>3. Len(e) = Len(b) + Len(y)
        BY <1>6, <4>1, CatType
      <4>4. Len(b) <= Len(e) /\ Len(e) - m = Len(b)
        BY <1>6, <2>2, <4>1, <4>3
      <4>5. Cat(b, y) = Cat(e, z)
        BY <4>1, CatEmpty DEF z
      <4>6. b = SubSeq(e, 1, Len(b))
        BY <1>6, <4>1, <4>2, <4>4, <4>5, CatPrefix
      <4>7. ReadOf(place, due) = b
        BY <3>2, <4>4, <4>6 DEF ReadOf, e
      <4>8. Knows(place, due)
        BY <2>1, <2>2, <2>4, <3>2, <3>3 DEF Knows
      <4> QED
        BY <4>7, <4>8
    <3> QED
      BY <1>2, <1>5, <1>9, <3>1, <3>2, <3>3, GoesOnStep
  <2>5. CASE m \in 1 .. BufLen
    <3> DEFINE place == Reading("body", m)
    <3>1. GoesOn(place)
      BY <1>8, <1>11, <2>5
    <3>2. /\ place \in Readers /\ Waits(place)
          /\ place.at = "body" /\ place.need = m /\ place.bytes = <<>>
      BY <1>4, <2>2, <2>5, ReadingIs
    <3> HIDE DEF place
    <3>3. ASSUME inStep
          PROVE  Knows(place, due) /\ ReadOf(place, due) = b
      <4>1. ReadOf(place, due) = Cat(b, <<>>)
        BY <2>1, <3>2, <3>3 DEF ReadOf
      <4>2. Cat(b, <<>>) = b
        BY <1>6, CatEmpty
      <4>3. Knows(place, due)
        BY <2>1, <3>2, <3>3 DEF Knows
      <4> QED
        BY <4>1, <4>2, <4>3
    <3> QED
      BY <1>2, <1>5, <1>9, <3>1, <3>2, <3>3, GoesOnStep
  <2> QED
    BY <1>4, <2>2, <2>3, <2>4, <2>5
<1> QED
  BY <1>4, <1>6, <1>10, <1>11

LEMMA ReadBodyStep ==
  ASSUME IndInv, ReadBody
  PROVE  IndInv' /\ Whole!Next
<1>1. PICK some \in Arriving("body") :
        /\ Takes(some)
        /\ LET bytes == reader.bytes \o some
           IN IF Len(bytes) < reader.need
              THEN GoesOn([reader EXCEPT !.bytes = bytes])
              ELSE Returns([ok |-> [kind |-> bytes[1], payload |-> Tail(bytes)]])
  BY DEF ReadBody
<1>2. PICK n \in 1 .. Len(wire) :
        /\ reader.at = "body" /\ Len(reader.bytes) + n <= reader.need
        /\ some = SubSeq(wire, 1, n) /\ some \in Seq(Byte) /\ Len(some) = n
        /\ wire' = SubSeq(wire, n + 1, Len(wire))
        /\ wire' \in Seq(Byte) /\ Len(wire') <= MaxWire
        /\ UNCHANGED <<medium, rest, open>>
  BY <1>1, Taken DEF IndInv
<1>3. /\ reader \in Readers /\ reader.bytes \in Seq(Byte)
      /\ reader.need \in Nat /\ reader.need \in 1 .. BufLen
  BY <1>2 DEF IndInv, TypeOK, Waits, Readers
<1>4. LenBytes \in Nat /\ BufLen \in Nat /\ n \in Nat /\ Len(reader.bytes) \in Nat
  <2>1. LenBytes \in Nat /\ BufLen \in Nat
    BY ConstantTypes
  <2>2. n \in Nat
    OBVIOUS
  <2> QED
    BY <1>3, <2>1, <2>2, LenProperties
<1> DEFINE b == reader.bytes \o some
           l == to_le_bytes(reader.need)
<1>5. b = Cat(reader.bytes, some)
  BY DEF Cat
<1>6. /\ Len(b) < reader.need => GoesOn([reader EXCEPT !.bytes = b])
      /\ ~(Len(b) < reader.need) => Returns([ok |-> [kind |-> b[1], payload |-> Tail(b)]])
  BY <1>1
<1> HIDE DEF b
<1>7. /\ b \in Seq(Byte) /\ Len(b) = Len(reader.bytes) + n
      /\ Len(b) \in Nat /\ Len(b) <= reader.need
  <2>1. b \in Seq(Byte) /\ Len(b) = Len(reader.bytes) + Len(some)
    BY <1>2, <1>3, <1>5, CatType
  <2> QED
    BY <1>2, <1>3, <1>4, <2>1
<1>8. ASSUME inStep
      PROVE  /\ due # <<>> /\ due[1] \in Frames /\ reader.need = 1 + Len(due[1].payload)
             /\ Len(due[1].payload) \in Nat
             /\ l \in Seq(Byte) /\ Len(l) = LenBytes
             /\ Cat(ReadOf(reader, due), SubSeq(wire, 1, n)) = Cat(l, b)
  <2>1. due # <<>> /\ reader.need = 1 + Len(due[1].payload)
    BY <1>2, <1>8 DEF IndInv, Aligned, Knows
  <2>2. due[1] \in Frames
    BY <2>1, StreamFirst DEF IndInv, TypeOK
  <2>3. reader.need < Weight[LenBytes] /\ Len(due[1].payload) \in Nat
    BY <2>1, <2>2, FrameFields
  <2>4. l \in Seq(Byte) /\ Len(l) = LenBytes
    BY <1>3, <2>3, LengthType
  <2>5. ReadOf(reader, due) = Cat(l, reader.bytes)
    BY <1>2 DEF ReadOf
  <2> HIDE DEF l
  <2>6. Cat(Cat(l, reader.bytes), some) = Cat(l, b)
    <3> DEFINE x == reader.bytes
    <3>1. x \in Seq(Byte) /\ some \in Seq(Byte)
      BY <1>2, <1>3
    <3> HIDE DEF x
    <3>2. Cat(Cat(l, x), some) = Cat(l, Cat(x, some))
      BY <2>4, <3>1, CatAssociative
    <3> QED
      BY <1>5, <3>2 DEF x
  <2> QED
    BY <1>2, <2>1, <2>2, <2>3, <2>4, <2>5, <2>6
<1>9. CASE Len(b) < reader.need
  <2> DEFINE place == [reader EXCEPT !.bytes = b]
  <2>1. GoesOn(place)
    BY <1>6, <1>9
  <2>2. /\ place \in Readers /\ place.at = "body"
        /\ place.bytes = b /\ place.need = reader.need
    BY <1>2, <1>3, <1>7 DEF Readers
  <2> HIDE DEF place
  <2>3. Waits(place)
    BY <1>3, <1>9, <2>2 DEF Waits
  <2>4. ASSUME inStep
        PROVE  Knows(place, due) /\ ReadOf(place, due) = Cat(l, b)
    BY <1>8, <2>2, <2>4 DEF Knows, ReadOf
  <2> QED
    BY <1>2, <1>8, <2>1, <2>2, <2>3, <2>4, GoesOnStep
<1>10. CASE ~(Len(b) < reader.need)
  <2> DEFINE result == [ok |-> [kind |-> b[1], payload |-> Tail(b)]]
  <2>1. Returns(result)
    BY <1>6, <1>10
  <2>2. Len(b) = reader.need
    BY <1>3, <1>7, <1>10
  <2>3. ASSUME inStep
        PROVE  /\ due # <<>>
               /\ Len(ReadOf(reader, due)) + n = Len(Encoded(due[1]))
               /\ result = IF Head(due) \in Fitting THEN [ok |-> Head(due)] ELSE TooLarge
    <3> DEFINE e == Encoded(due[1])
               y == Body(due[1])
    <3>1. /\ y \in Seq(Byte) /\ Len(y) = reader.need /\ e = Cat(l, y) /\ e \in Seq(Byte)
          /\ Len(e) = LenBytes + 1 + Len(due[1].payload)
          /\ y[1] = due[1].kind /\ Tail(y) = due[1].payload
      BY <1>8, <2>3, BodyIs, EncodedIs
    <3>2. Len(ReadOf(reader, due)) = LenBytes + Len(reader.bytes)
      BY <1>2, <1>3, <2>3, ReadType DEF IndInv, Aligned, TypeOK
    <3>3. Len(ReadOf(reader, due)) + n = Len(e)
      <4> DEFINE u == Len(reader.bytes)
                 v == Len(due[1].payload)
      <4>1. u + n = 1 + v /\ u \in Nat /\ v \in Nat
        BY <1>4, <1>7, <1>8, <2>2, <2>3
      <4>2. Len(ReadOf(reader, due)) = LenBytes + u /\ Len(e) = LenBytes + 1 + v
        BY <3>1, <3>2
      <4> HIDE DEF u, v, e
      <4>3. (LenBytes + u) + n = LenBytes + 1 + v
        BY <1>4, <4>1
      <4> QED
        BY <4>2, <4>3
    <3>4. Cat(ReadOf(reader, due), SubSeq(wire, 1, n)) = e
      <4>1. reader \in Readers /\ due # <<>>
        BY <1>3, <1>8, <2>3
      <4>2. /\ Waits(reader) /\ Aligned(reader, due, wire, rest, open)
            /\ due \in Seq(Frames) /\ wire \in Seq(Byte) /\ rest \in Seq(Byte)
        BY <2>3 DEF IndInv, TypeOK
      <4> QED
        BY <3>3, <4>1, <4>2, Finished
    <3> HIDE DEF e, y, l
    <3>5. b = y
      <4>1. Cat(l, b) = Cat(l, y)
        BY <1>8, <2>3, <3>1, <3>4
      <4> QED
        BY <1>7, <1>8, <2>3, <3>1, <4>1, CatSplit
    <3>6. result = [ok |-> due[1]]
      BY <1>8, <2>3, <3>1, <3>5, FrameFields
    <3>7. Head(due) = due[1] /\ due[1] \in Fitting
      BY <1>3, <1>8, <2>3 DEF Fitting
    <3> QED
      BY <1>8, <2>3, <3>3, <3>6, <3>7 DEF e
  <2> HIDE DEF result
  <2> QED
    BY <1>2, <2>1, <2>3, ReturnsStep
<1> QED
  BY <1>9, <1>10

LEMMA DrainStep ==
  ASSUME IndInv, Drain
  PROVE  IndInv' /\ Whole!Next
<1>1. PICK some \in Arriving("drain") :
        /\ Takes(some)
        /\ IF reader.need - Len(some) > 0
           THEN GoesOn(Reading("drain", reader.need - Len(some)))
           ELSE Returns(TooLarge)
  BY DEF Drain
<1>2. PICK n \in 1 .. Len(wire) :
        /\ reader.at = "drain" /\ Len(reader.bytes) + n <= reader.need
        /\ some = SubSeq(wire, 1, n) /\ some \in Seq(Byte) /\ Len(some) = n
        /\ wire' = SubSeq(wire, n + 1, Len(wire))
        /\ wire' \in Seq(Byte) /\ Len(wire') <= MaxWire
        /\ UNCHANGED <<medium, rest, open>>
  BY <1>1, Taken DEF IndInv
<1>3. reader \in Readers /\ reader.need \in Nat /\ reader.need > 0 /\ reader.bytes = <<>>
  BY <1>2 DEF IndInv, TypeOK, Waits, Readers
<1> DEFINE m == reader.need - n
<1>4. n \in Nat /\ m \in Nat
  <2>1. Len(reader.bytes) = 0
    BY <1>3
  <2>2. n \in Nat
    OBVIOUS
  <2> QED
    BY <1>2, <1>3, <2>1, <2>2
<1>5. /\ m > 0 => GoesOn(Reading("drain", m))
      /\ ~(m > 0) => Returns(TooLarge)
  BY <1>1, <1>2
<1>6. ASSUME inStep
      PROVE  /\ due # <<>> /\ due[1] \in Frames /\ Len(due[1].payload) \in Nat
             /\ reader.need <= 1 + Len(due[1].payload) /\ BufLen < 1 + Len(due[1].payload)
  <2>1. /\ due # <<>> /\ reader.need <= 1 + Len(due[1].payload)
        /\ BufLen < 1 + Len(due[1].payload)
    BY <1>2, <1>6 DEF IndInv, Aligned, Knows
  <2>2. due[1] \in Frames
    BY <2>1, StreamFirst DEF IndInv, TypeOK
  <2> QED
    BY <2>1, <2>2, FrameFields
<1>7. CASE m > 0
  <2> DEFINE place == Reading("drain", m)
  <2>1. GoesOn(place)
    BY <1>5, <1>7
  <2>2. /\ place \in Readers /\ Waits(place)
        /\ place.at = "drain" /\ place.need = m /\ place.bytes = <<>>
    BY <1>4, <1>7, ReadingIs
  <2> HIDE DEF place
  <2>3. ASSUME inStep
        PROVE  /\ Knows(place, due)
               /\ ReadOf(place, due) = Cat(ReadOf(reader, due), SubSeq(wire, 1, n))
    <3>1. Cat(ReadOf(reader, due), SubSeq(wire, 1, n))
            = SubSeq(Encoded(due[1]), 1, Len(Encoded(due[1])) - m)
      <4>1. n < reader.need
        BY <1>3, <1>4, <1>7
      <4>2. /\ reader \in Readers /\ due \in Seq(Frames) /\ wire \in Seq(Byte)
            /\ rest \in Seq(Byte) /\ Waits(reader) /\ Aligned(reader, due, wire, rest, open)
        BY <2>3 DEF IndInv, TypeOK, Readers
      <4>3. n \in 1 .. Len(wire) /\ reader.at = "drain"
        BY <1>2
      <4> QED
        BY <4>1, <4>2, <4>3, DrainRead
    <3>2. ReadOf(place, due) = SubSeq(Encoded(due[1]), 1, Len(Encoded(due[1])) - m)
      BY <2>2 DEF ReadOf
    <3>3. m <= 1 + Len(due[1].payload)
      BY <1>3, <1>4, <1>6, <2>3
    <3>4. Knows(place, due)
      BY <1>6, <2>2, <2>3, <3>3 DEF Knows
    <3> QED
      BY <3>1, <3>2, <3>4
  <2> HIDE DEF m
  <2> QED
    BY <1>2, <2>1, <2>2, <2>3, GoesOnStep
<1>8. CASE ~(m > 0)
  <2>1. Returns(TooLarge)
    BY <1>5, <1>8
  <2>2. ASSUME inStep
        PROVE  /\ Len(ReadOf(reader, due)) + n = Len(Encoded(due[1]))
               /\ Head(due) \notin Fitting
    <3>1. Len(ReadOf(reader, due)) = Len(Encoded(due[1])) - reader.need
      BY <1>2, <1>3, <2>2, ReadType DEF IndInv, Aligned, TypeOK
    <3>2. Len(Encoded(due[1])) \in Nat
      BY <1>6, <2>2, EncodedIs, LenProperties
    <3>3. Len(ReadOf(reader, due)) + n = Len(Encoded(due[1]))
      BY <1>3, <1>4, <1>8, <3>1, <3>2
    <3>4. Head(due) = due[1] /\ due[1] \notin Fitting
      <4>1. BufLen \in Nat
        BY ConstantTypes
      <4> QED
        BY <1>6, <2>2, <4>1 DEF Fitting
    <3> QED
      BY <3>3, <3>4
  <2> QED
    BY <1>2, <1>6, <2>1, <2>2, ReturnsStep
<1> QED
  BY <1>7, <1>8

-----------------------------------------------------------------------------
(* The steps of the writer, and the failures.                              *)

\* One frame, or more than one: the first and the last are different bytes.
LEMMA StreamEnds ==
  ASSUME NEW frames \in Seq(Frames), frames # <<>>
  PROVE  /\ frames[1] \in Frames /\ Len(frames) \in Nat \ {0}
         /\ Stream(frames) \in Seq(Byte)
         /\ Encoded(frames[1]) \in Seq(Byte)
         /\ Len(Encoded(frames[Len(frames)])) \in Nat
         /\ Len(Stream(frames)) \in Nat /\ Len(Encoded(frames[1])) \in Nat
         /\ Len(Encoded(frames[1])) <= Len(Stream(frames))
         /\ Len(frames) = 1 => Stream(frames) = Encoded(frames[1])
         /\ Len(frames) # 1 => Len(Encoded(frames[1])) + Len(Encoded(frames[Len(frames)]))
                                 <= Len(Stream(frames))
<1> DEFINE t == Tail(frames)
           n == Len(frames)
           e == Encoded(frames[1])
           last == Encoded(frames[n])
<1>1. n \in Nat \ {0}
  BY EmptySeq
<1>2. /\ t \in Seq(Frames) /\ Len(t) = n - 1 /\ frames[1] \in Frames
      /\ \A i \in 1 .. (n - 1) : t[i] = frames[i + 1]
  BY HeadTailProperties, StreamFirst
<1>3. frames[n] \in Frames
  BY <1>1, ElementOfSeq
<1>4. /\ e \in Seq(Byte) /\ Len(e) \in Nat /\ last \in Seq(Byte) /\ Len(last) \in Nat
  BY <1>2, <1>3, EncodedIs, LenProperties
<1>5. /\ Stream(frames) = Cat(e, Stream(t)) /\ Stream(t) \in Seq(Byte)
      /\ Len(Stream(t)) \in Nat
  BY <1>2, StreamFirst, StreamType, LenProperties
<1> HIDE DEF e, last, t
<1>6. Stream(frames) \in Seq(Byte) /\ Len(Stream(frames)) = Len(e) + Len(Stream(t))
  BY <1>4, <1>5, CatType
<1>7. ASSUME n = 1
      PROVE  Stream(frames) = e
  <2>1. t = <<>>
    BY <1>2, <1>7, EmptySeq
  <2>2. Cat(e, <<>>) = e
    BY <1>4, CatEmpty
  <2> QED
    BY <1>5, <2>1, <2>2, StreamOfNone
<1>8. ASSUME n # 1
      PROVE  Len(last) <= Len(Stream(t))
  <2> DEFINE front == SubSeq(t, 1, n - 2)
             k == n - 1
  <2>1. /\ k \in Nat \ {0} /\ t[k] = frames[n] /\ Len(t) = k
    BY <1>1, <1>2, <1>8
  <2>2. front \in Seq(Frames) /\ Append(front, t[k]) = t
    <3>1. t # <<>>
      BY <1>2, <2>1, EmptySeq
    <3>2. k - 1 \in 0 .. Len(t) /\ k - 1 = n - 2
      BY <1>1, <2>1
    <3>3. front \in Seq(Frames) /\ Len(front) = k - 1 /\ \A i \in 1 .. (k - 1) : front[i] = t[i]
      BY <1>2, <2>1, <3>2, SubSeqProperties
    <3> HIDE DEF front
    <3>4. t[k] \in Frames
      BY <1>3, <2>1
    <3> DEFINE a == Append(front, t[k])
    <3>5. a \in Seq(Frames) /\ Len(a) = k /\ a[k] = t[k] /\ \A i \in 1 .. (k - 1) : a[i] = front[i]
      BY <2>1, <3>3, <3>4, AppendProperties
    <3> HIDE DEF a
    <3>6. \A i \in 1 .. k : a[i] = t[i]
      <4> HIDE DEF k
      <4>1. k \in Nat
        BY <2>1
      <4>2. \A i \in 1 .. k : i = k \/ i \in 1 .. (k - 1)
        BY <4>1
      <4> QED
        BY <3>3, <3>5, <4>2
    <3>7. a = t
      BY <1>2, <2>1, <3>5, <3>6, SeqEqual
    <3> QED
      BY <3>3, <3>7 DEF a
  <2> HIDE DEF front
  <2>3. Stream(t) = Cat(Stream(front), last)
    BY <1>3, <2>1, <2>2, StreamAppend DEF last
  <2>4. Stream(front) \in Seq(Byte) /\ Len(Stream(front)) \in Nat
    BY <2>2, StreamType, LenProperties
  <2>5. Len(Stream(t)) = Len(Stream(front)) + Len(last)
    BY <1>4, <2>3, <2>4, CatType
  <2> QED
    BY <1>4, <2>4, <2>5
<1>9. Len(Stream(frames)) \in Nat /\ Len(e) <= Len(Stream(frames))
  BY <1>4, <1>5, <1>6
<1>10. n # 1 => Len(e) + Len(last) <= Len(Stream(frames))
  BY <1>4, <1>5, <1>6, <1>8
<1> QED
  BY <1>1, <1>2, <1>4, <1>6, <1>7, <1>9, <1>10 DEF e, last

\* Without a byte under way, a reader in step is in the last frame due, and what
\* is lacking of it is still to be written or lost.
LEMMA NothingUnderWay ==
  ASSUME NEW rd \in Readers, NEW frames \in Seq(Frames), NEW r \in Seq(Byte), NEW o,
         Waits(rd), Aligned(rd, frames, <<>>, r, o), r = <<>>
  PROVE  /\ frames = <<>> \/ Len(frames) = 1
         /\ o => frames = <<>>
<1> DEFINE read == ReadOf(rd, frames)
           e == <<>>
<1>1. PICK lost \in Seq(Byte) :
        /\ Cat(read, Cat(e, Cat(r, lost))) = Stream(frames)
        /\ o => lost = <<>>
        /\ frames # <<>> => Len(r) + Len(lost) <= Len(Encoded(frames[Len(frames)]))
  BY DEF Aligned, Completes
<1>2. read \in Seq(Byte) /\ Len(read) \in Nat /\ Len(lost) \in Nat
      /\ (frames # <<>> => Len(read) < Len(Encoded(frames[1])))
  BY ReadType, LenProperties DEF Aligned
<1>3. Cat(e, Cat(e, lost)) = lost /\ Len(e) = 0
  BY CatEmpty
<1> HIDE DEF read, e
<1>4. Cat(read, lost) = Stream(frames)
  BY <1>1, <1>3 DEF e
<1>5. Len(read) + Len(lost) = Len(Stream(frames))
  BY <1>2, <1>4, CatType
<1>6. frames # <<>> => Len(lost) <= Len(Encoded(frames[Len(frames)]))
  BY <1>1, <1>2, <1>3 DEF e
<1>7. ASSUME frames # <<>>
      PROVE  Len(frames) = 1
  BY <1>2, <1>5, <1>6, <1>7, StreamEnds
<1>8. ASSUME frames # <<>>, o
      PROVE  FALSE
  <2>1. Len(lost) = 0
    BY <1>1, <1>3, <1>8 DEF e
  <2> QED
    BY <1>2, <1>5, <1>8, <2>1, StreamEnds
<1> QED
  BY <1>7, <1>8

\* In step without a frame due, nothing is under way.
LEMMA NoneDue ==
  ASSUME NEW rd \in Readers, NEW w \in Seq(Byte), NEW r \in Seq(Byte), NEW o,
         Waits(rd), Aligned(rd, <<>>, w, r, o)
  PROVE  rd = AtLength /\ w = <<>> /\ r = <<>>
<1> DEFINE read == ReadOf(rd, <<>>)
<1>1. rd.at = "length" /\ rd.need = LenBytes /\ read = rd.bytes
  BY DEF Aligned, Knows, Waits, Readers, ReadOf
<1>2. PICK lost \in Seq(Byte) : Cat(read, Cat(w, Cat(r, lost))) = <<>>
  BY StreamOfNone DEF Aligned, Completes
<1>3. read \in Seq(Byte)
  BY <1>1 DEF Readers
<1> DEFINE y == Cat(r, lost)
           z == Cat(w, y)
           e == <<>>
<1> HIDE DEF read
<1>4. Len(e) = 0 /\ Cat(read, z) = e
  BY <1>2
<1>5. y \in Seq(Byte) /\ Len(y) = Len(r) + Len(lost)
  BY CatType
<1> HIDE DEF y
<1>6. z \in Seq(Byte) /\ Len(z) = Len(w) + Len(y)
  BY <1>5, CatType
<1> HIDE DEF z
<1>7. Len(Cat(read, z)) = Len(read) + Len(z)
  BY <1>3, <1>6, CatType
<1> HIDE DEF e
<1>8. /\ Len(read) \in Nat /\ Len(w) \in Nat /\ Len(r) \in Nat /\ Len(lost) \in Nat
      /\ Len(y) \in Nat /\ Len(z) \in Nat
  BY <1>3, <1>5, <1>6, LenProperties
<1>9. Len(read) = 0 /\ Len(w) = 0 /\ Len(r) = 0
  <2>1. Len(read) + Len(z) = 0
    BY <1>4, <1>7
  <2>2. Len(read) = 0 /\ Len(z) = 0
    BY <1>8, <2>1
  <2>3. Len(w) + Len(y) = 0
    BY <1>6, <2>2
  <2>4. Len(w) = 0 /\ Len(y) = 0
    BY <1>8, <2>3
  <2>5. Len(r) + Len(lost) = 0
    BY <1>5, <2>4
  <2>6. Len(r) = 0
    BY <1>8, <2>5
  <2> QED
    BY <2>2, <2>4, <2>6
<1>10. read = <<>> /\ w = <<>> /\ r = <<>>
  BY <1>3, <1>9, EmptySeq
<1>11. rd = AtLength
  <2>1. rd.bytes = <<>>
    BY <1>1, <1>10
  <2> QED
    BY <1>1, <2>1 DEF Readers, AtLength, Reading
<1> QED
  BY <1>10, <1>11

\* Between two frames with nothing under way, a writer in step that has something
\* left to write has not begun with it.
LEMMA NotBegun ==
  ASSUME NEW frames \in Seq(Frames), NEW r \in Seq(Byte),
         Aligned(AtLength, frames, <<>>, r, TRUE), frames # <<>>
  PROVE  r = Encoded(frames[Len(frames)])
<1> DEFINE e == <<>>
<1>1. PICK lost \in Seq(Byte) :
        /\ Cat(ReadOf(AtLength, frames), Cat(e, Cat(r, lost))) = Stream(frames)
        /\ lost = <<>>
        /\ Len(r) + Len(lost) <= Len(Encoded(frames[Len(frames)]))
  BY DEF Aligned, Completes
<1>2. ReadOf(AtLength, frames) = e /\ Len(e) = 0
  BY AtLengthIs DEF ReadOf
<1>3. Cat(e, Cat(e, r)) = r /\ Cat(r, e) = r
  BY CatEmpty
<1> HIDE DEF e
<1>4. r = Stream(frames)
  BY <1>1, <1>2, <1>3 DEF e
<1>5. Len(r) \in Nat /\ Len(lost) = 0
  BY <1>1, <1>2, LenProperties DEF e
<1>6. Len(r) <= Len(Encoded(frames[Len(frames)]))
  BY <1>1, <1>5
<1>7. frames[1] \in Frames
  BY StreamEnds
<1>8. Len(Encoded(frames[1])) # 0
  <2> DEFINE p == Len(frames[1].payload)
  <2>1. Len(Encoded(frames[1])) = LenBytes + 1 + p /\ p \in Nat
    BY <1>7, EncodedIs, FrameFields
  <2>2. LenBytes \in Nat
    BY ConstantTypes
  <2> HIDE DEF p
  <2>3. LenBytes + 1 + p # 0
    BY <2>1, <2>2
  <2> QED
    BY <2>1, <2>3
<1>9. Len(frames) = 1
  BY <1>4, <1>6, <1>8, StreamEnds
<1> QED
  BY <1>4, <1>9, StreamEnds

LEMMA ReadEndsStep ==
  ASSUME IndInv, ReadEnds
  PROVE  IndInv' /\ Whole!Next
<1>1. /\ ~open /\ wire = <<>> /\ rest = <<>>
      /\ got' = Failure /\ reader' = AtLength /\ due' = <<>>
      /\ UNCHANGED <<medium, rest, wire, open, inStep>>
  BY DEF ReadEnds, IndInv
<1>2. TypeOK'
  <2>1. <<>> \in Seq(Frames)
    OBVIOUS
  <2> QED
    BY <1>1, <2>1, AtLengthIs DEF IndInv, TypeOK, Readers
<1>3. IndInv'
  BY <1>1, <1>2, AtLengthIs, AlignedAtPause DEF IndInv
<1>4. CASE ~inStep
  <2>1. due = <<>> /\ due' = due /\ open' = open /\ inStep' \in BOOLEAN
    BY <1>1, <1>4 DEF IndInv, TypeOK
  <2> QED
    BY <1>3, <1>4, <2>1, OutOfStep DEF IndInv
<1>5. CASE inStep
  <2>1. /\ reader \in Readers /\ due \in Seq(Frames) /\ rest \in Seq(Byte) /\ Waits(reader)
        /\ Aligned(reader, due, <<>>, rest, open)
    BY <1>1, <1>5 DEF IndInv, TypeOK, Readers
  <2>2. due = <<>> \/ Len(due) = 1
    BY <1>1, <2>1, NothingUnderWay
  <2>3. CASE due = <<>>
    <3>1. reader.at = "length"
      BY <2>1, <2>3 DEF Aligned, Knows, Readers
    <3> QED
      BY <1>1, <1>3, <1>5, <2>3, <3>1
      DEF Whole!Next, Whole!Fail, Failure, Io, Whole!Io
  <2>4. CASE due # <<>>
    <3>1. Len(due) = 1 /\ due[1] \in Frames /\ Tail(due) = <<>> /\ Head(due) = due[1]
      BY <2>1, <2>2, <2>4, StreamEnds, HeadTailProperties, EmptySeq
    <3>2. CASE reader.at = "drain"
      <4>1. BufLen < 1 + Len(due[1].payload)
        BY <2>1, <3>2 DEF Aligned, Knows
      <4>2. Head(due) \notin Fitting
        BY <3>1, <4>1, FrameFields, ConstantTypes DEF Fitting
      <4> QED
        BY <1>1, <1>3, <1>5, <2>4, <3>1, <3>2, <4>2
        DEF Whole!Next, Whole!Receive, Failure, TooLarge, Whole!TooLarge
    <3>3. CASE reader.at # "drain"
      BY <1>1, <1>3, <2>4, <3>1, <3>3 DEF Whole!Next, Whole!Lose, Failure, Io, Whole!Io
    <3> QED
      BY <3>2, <3>3
  <2> QED
    BY <2>3, <2>4
<1> QED
  BY <1>3, <1>4, <1>5

LEMMA ReadTimesOutStep ==
  ASSUME IndInv, ReadTimesOut
  PROVE  IndInv' /\ Whole!Next
<1>1. /\ medium = "to_host" /\ wire = <<>> /\ open
      /\ got' = Failure /\ reader' = AtLength
      /\ UNCHANGED <<medium, rest, wire, open>>
      /\ Regain(reader # AtLength) /\ Account(due)
  BY DEF ReadTimesOut, IndInv
<1>2. inStep \in BOOLEAN /\ inStep' \in BOOLEAN
  BY <1>1 DEF IndInv, TypeOK, Regain
<1>3. TypeOK'
  <2>1. due' \in Seq(Frames)
    BY <1>1 DEF Account, IndInv, TypeOK
  <2> QED
    BY <1>1, <1>2, <2>1, AtLengthIs DEF IndInv, TypeOK, Readers
<1>4. CASE ~inStep
  <2>1. due = <<>> /\ due' = <<>>
    BY <1>1, <1>4 DEF IndInv, Account
  <2>2. inStep' => rest' = <<>> /\ wire' = <<>>
    BY <1>1, <1>4 DEF Regain
  <2>3. Whole!Next
    BY <1>1, <1>2, <1>4, <2>1, OutOfStep DEF IndInv
  <2>4. inStep' => Aligned(reader', due', wire', rest', open')
    BY <1>1, <2>1, <2>2, AlignedAtPause
  <2> QED
    BY <1>1, <1>3, <2>1, <2>3, <2>4, AtLengthIs DEF IndInv
<1>5. CASE inStep
  <2>1. /\ reader \in Readers /\ due \in Seq(Frames) /\ rest \in Seq(Byte) /\ Waits(reader)
        /\ wire \in Seq(Byte) /\ Aligned(reader, due, wire, rest, open)
    BY <1>5 DEF IndInv, TypeOK, Readers
  <2>2. CASE reader = AtLength
    <3>1. inStep' /\ due' = due
      BY <1>1, <1>5, <2>2 DEF Regain, Account
    <3>2. got' = Io
      BY <1>1, <2>2, AtLengthIs DEF Failure
    <3>3. Aligned(reader', due', wire', rest', open')
      BY <1>1, <2>1, <2>2, <3>1
    <3> QED
      BY <1>1, <1>3, <1>5, <3>1, <3>2, <3>3, AtLengthIs
      DEF IndInv, Whole!Next, Whole!Fail, Io, Whole!Io
  <2>3. CASE reader # AtLength
    <3>1. due # <<>>
      BY <2>1, <2>3, NoneDue
    <3>2. rest # <<>>
      BY <1>1, <2>1, <3>1, NothingUnderWay
    <3>3. ~inStep' /\ due' = <<>>
      BY <1>1, <2>3, <3>2 DEF Regain, Account
    <3> QED
      BY <1>1, <1>2, <1>3, <1>5, <3>1, <3>3, AtLengthIs
      DEF IndInv, Whole!Next, Whole!Derail
  <2> QED
    BY <2>2, <2>3
<1> QED
  BY <1>4, <1>5

LEMMA CutOffStep ==
  ASSUME IndInv, CutOff
  PROVE  IndInv' /\ Whole!Next
<1>1. /\ medium # "tcp" /\ rest # <<>> /\ open
      /\ inStep => rest # Encoded(due[Len(due)])
      /\ rest' = <<>> /\ got' = None
      /\ UNCHANGED <<medium, wire, open, reader>>
      /\ Regain(TRUE) /\ Account(due)
  BY DEF CutOff, IndInv
<1>2. inStep \in BOOLEAN /\ inStep' \in BOOLEAN
  BY <1>1 DEF IndInv, TypeOK, Regain
<1>3. TypeOK'
  <2>1. due' \in Seq(Frames) /\ rest' \in Seq(Byte)
    BY <1>1 DEF Account, IndInv, TypeOK
  <2> QED
    BY <1>1, <1>2, <2>1 DEF IndInv, TypeOK
<1>4. inStep' => rest' = <<>> /\ wire' = <<>> /\ reader' = AtLength
  BY <1>1 DEF Regain
<1>5. CASE ~inStep
  <2>1. due = <<>> /\ due' = <<>>
    BY <1>1, <1>5 DEF IndInv, Account
  <2>2. Whole!Next
    BY <1>1, <1>2, <1>5, <2>1, OutOfStep DEF IndInv
  <2>3. inStep' => Aligned(reader', due', wire', rest', open')
    BY <1>4, <2>1, AlignedAtPause
  <2> QED
    BY <1>1, <1>3, <2>1, <2>2, <2>3 DEF IndInv
<1>6. CASE inStep
  <2>1. /\ reader \in Readers /\ due \in Seq(Frames) /\ rest \in Seq(Byte) /\ Waits(reader)
        /\ wire \in Seq(Byte) /\ Aligned(reader, due, wire, rest, open)
    BY <1>6 DEF IndInv, TypeOK, Readers
  <2>2. due # <<>>
    BY <1>1, <2>1, NoneDue
  <2>3. ~inStep'
    <3>1. SUFFICES ASSUME reader = AtLength, wire = <<>>
                   PROVE  FALSE
      BY <1>1, <1>4
    <3>2. open = TRUE
      BY <1>1 DEF IndInv, TypeOK
    <3> QED
      BY <1>1, <1>6, <2>1, <2>2, <3>1, <3>2, NotBegun
  <2>4. due' = <<>>
    BY <1>1, <2>3 DEF Account
  <2> QED
    BY <1>1, <1>2, <1>3, <1>6, <2>2, <2>3, <2>4 DEF IndInv, Whole!Next, Whole!Derail
<1> QED
  BY <1>5, <1>6

LEMMA WriteFrameStep ==
  ASSUME IndInv, WriteFrame
  PROVE  IndInv' /\ Whole!Next
<1>1. PICK f \in Frames : rest' = Encoded(f) /\ Account(Append(due, f))
  BY DEF WriteFrame
<1>2. /\ open /\ rest = <<>> /\ got' = None
      /\ UNCHANGED <<medium, wire, open, reader, inStep>>
  BY DEF WriteFrame
<1> DEFINE more == Append(due, f)
           n == Len(due)
           e == Encoded(f)
<1>3. /\ due \in Seq(Frames) /\ n \in Nat /\ more \in Seq(Frames) /\ more # <<>>
      /\ Len(more) = n + 1 /\ more[n + 1] = f /\ \A i \in 1 .. n : more[i] = due[i]
  <2>1. due \in Seq(Frames)
    BY DEF IndInv, TypeOK
  <2>2. n \in Nat /\ more \in Seq(Frames) /\ Len(more) = n + 1
        /\ more[n + 1] = f /\ \A i \in 1 .. n : more[i] = due[i]
    BY <2>1, AppendProperties, LenProperties
  <2>3. more # <<>>
    <3> HIDE DEF more
    <3> QED
      BY <2>2, EmptySeq
  <2> QED
    BY <2>1, <2>2, <2>3
<1>4. e \in Seq(Byte) /\ Len(e) \in Nat
  BY EncodedIs, LenProperties
<1>5. due' = IF inStep THEN more ELSE <<>>
  BY <1>1, <1>2 DEF Account
<1> HIDE DEF more
<1>6. TypeOK'
  <2>1. due' \in Seq(Frames)
    BY <1>3, <1>5
  <2> QED
    BY <1>1, <1>2, <1>4, <2>1 DEF IndInv, TypeOK
<1>7. CASE ~inStep
  <2>1. due = <<>> /\ due' = <<>>
    BY <1>5, <1>7 DEF IndInv
  <2> QED
    BY <1>2, <1>6, <1>7, <2>1 DEF IndInv, Whole!Next, Whole!Stray
<1>8. CASE inStep
  <2>1. /\ reader \in Readers /\ wire \in Seq(Byte) /\ Waits(reader)
        /\ Aligned(reader, due, wire, rest, open)
    BY <1>8 DEF IndInv, TypeOK, Readers
  <2> DEFINE read == ReadOf(reader, due)
             none == <<>>
  <2>2. Cat(read, Cat(wire, Cat(none, none))) = Stream(due)
    BY <1>2, <2>1 DEF Aligned, Completes
  <2>3. read \in Seq(Byte)
    BY <1>3, <2>1, ReadType DEF Aligned
  <2>4. due # <<>> => more[1] = due[1]
    BY <1>3, EmptySeq
  <2>5. Knows(reader, more) /\ ReadOf(reader, more) = read
    BY <1>3, <2>1, <2>4 DEF Aligned, Knows, ReadOf, Readers
  <2>6. Stream(more) = Cat(Stream(due), e) /\ Stream(due) \in Seq(Byte)
    BY <1>3, StreamAppend, StreamType DEF more
  <2>7. none \in Seq(Byte) /\ Len(none) = 0
    OBVIOUS
  <2> HIDE DEF read, none, e
  <2>8. /\ Cat(none, none) = none /\ Cat(wire, none) = wire /\ Cat(e, none) = e
    BY <1>4, <2>1, <2>7, CatEmpty DEF none
  <2>9. Cat(read, Cat(wire, Cat(e, none))) = Stream(more)
    <3>1. Cat(Cat(read, wire), e) = Cat(read, Cat(wire, e))
      BY <1>4, <2>1, <2>3, CatAssociative
    <3> QED
      BY <2>2, <2>6, <2>8, <3>1
  <2>10. Aligned(reader, more, wire, e, open)
    <3>1. Completes(reader, more, wire, e, none)
      BY <2>5, <2>9 DEF Completes
    <3>2. Len(e) + Len(none) <= Len(Encoded(more[Len(more)]))
      BY <1>3, <1>4, <2>7 DEF e
    <3> QED
      BY <2>5, <2>7, <3>1, <3>2 DEF Aligned, none
  <2>11. Aligned(reader', due', wire', rest', open')
    BY <1>1, <1>2, <1>5, <1>8, <2>10 DEF e
  <2>12. IndInv'
    BY <1>2, <1>6, <1>8, <2>11 DEF IndInv
  <2>13. Whole!Send
    BY <1>2, <1>5, <1>8 DEF Whole!Send, more
  <2> QED
    BY <2>12, <2>13 DEF Whole!Next
<1> QED
  BY <1>7, <1>8

LEMMA WriteAllStep ==
  ASSUME IndInv, WriteAll
  PROVE  IndInv' /\ Whole!Next
<1>1. PICK n \in 1 .. Len(rest) :
        /\ Len(wire) + n <= MaxWire
        /\ wire' = wire \o SubSeq(rest, 1, n)
        /\ rest' = SubSeq(rest, n + 1, Len(rest))
  BY DEF WriteAll
<1>2. got' = None /\ UNCHANGED <<medium, open, reader, due, inStep>>
  BY DEF WriteAll
<1> DEFINE x == SubSeq(rest, 1, n)
           y == SubSeq(rest, n + 1, Len(rest))
<1>3. /\ wire \in Seq(Byte) /\ rest \in Seq(Byte) /\ Len(rest) \in Nat
      /\ n \in 0 .. Len(rest)
  <2>1. wire \in Seq(Byte) /\ rest \in Seq(Byte)
    BY DEF IndInv, TypeOK
  <2> QED
    BY <2>1, LenProperties
<1>4. /\ x \in Seq(Byte) /\ y \in Seq(Byte) /\ Len(x) = n /\ Len(y) = Len(rest) - n
      /\ Cat(x, y) = rest
  BY <1>3, CatCut
<1>5. wire' = Cat(wire, x) /\ rest' = y
  BY <1>1 DEF Cat
<1> HIDE DEF x, y
<1>6. Cat(wire, x) \in Seq(Byte) /\ Len(Cat(wire, x)) = Len(wire) + n
  BY <1>3, <1>4, CatType
<1>7. TypeOK'
  <2>1. wire' \in Seq(Byte) /\ Len(wire') <= MaxWire /\ rest' \in Seq(Byte)
    BY <1>1, <1>4, <1>5, <1>6
  <2> QED
    BY <1>2, <2>1 DEF IndInv, TypeOK
<1>8. ~open => rest' = <<>>
  <2>1. rest # <<>>
    BY <1>1, <1>3
  <2> QED
    BY <2>1 DEF IndInv
<1>9. ASSUME inStep
      PROVE  Aligned(reader, due, wire', rest', open)
  <2>1. PICK lost \in Seq(Byte) :
          /\ Cat(ReadOf(reader, due), Cat(wire, Cat(rest, lost))) = Stream(due)
          /\ open => lost = <<>>
          /\ due # <<>> => Len(rest) + Len(lost) <= Len(Encoded(due[Len(due)]))
    BY <1>9 DEF IndInv, Aligned, Completes
  <2>2. Cat(wire, Cat(rest, lost)) = Cat(wire', Cat(rest', lost))
    <3>1. Cat(Cat(x, y), lost) = Cat(x, Cat(y, lost)) /\ Cat(y, lost) \in Seq(Byte)
      BY <1>4, CatAssociative, CatType
    <3>2. Cat(Cat(wire, x), Cat(y, lost)) = Cat(wire, Cat(x, Cat(y, lost)))
      BY <1>3, <1>4, <3>1, CatAssociative
    <3> QED
      BY <1>4, <1>5, <3>1, <3>2
  <2>3. ASSUME due # <<>>
        PROVE  Len(rest') + Len(lost) <= Len(Encoded(due[Len(due)]))
    <3>1. Len(Encoded(due[Len(due)])) \in Nat
      BY <2>3, StreamEnds DEF IndInv, TypeOK
    <3>2. Len(rest') = Len(rest) - n /\ Len(lost) \in Nat
      BY <1>4, <1>5, LenProperties
    <3> QED
      BY <1>3, <2>1, <2>3, <3>1, <3>2
  <2>4. Completes(reader, due, wire', rest', lost)
    BY <2>1, <2>2 DEF Completes
  <2> QED
    BY <1>9, <2>1, <2>3, <2>4 DEF IndInv, Aligned
<1> QED
  BY <1>2, <1>7, <1>8, <1>9 DEF IndInv, Whole!Next, Whole!Wait

LEMMA CloseStep ==
  ASSUME IndInv, Close
  PROVE  IndInv' /\ Whole!Next
<1>1. /\ medium = "tcp" /\ open
      /\ open' = FALSE /\ rest' = <<>> /\ got' = None
      /\ UNCHANGED <<medium, wire, reader, due, inStep>>
  BY DEF Close
<1>2. TypeOK'
  <2>1. rest' \in Seq(Byte)
    BY <1>1
  <2> QED
    BY <1>1, <2>1 DEF IndInv, TypeOK
<1>3. ASSUME inStep
      PROVE  Aligned(reader, due, wire, <<>>, FALSE)
  <2> DEFINE none == <<>>
  <2>1. /\ Cat(ReadOf(reader, due), Cat(wire, Cat(rest, none))) = Stream(due)
        /\ due # <<>> => Len(rest) + Len(none) <= Len(Encoded(due[Len(due)]))
    BY <1>1, <1>3 DEF IndInv, Aligned, Completes
  <2>2. rest \in Seq(Byte) /\ none \in Seq(Byte) /\ Len(none) = 0 /\ Len(rest) \in Nat
    <3>1. rest \in Seq(Byte)
      BY DEF IndInv, TypeOK
    <3> QED
      BY <3>1, LenProperties
  <2>3. Cat(rest, none) = Cat(none, rest)
    BY <2>2, CatEmpty
  <2> HIDE DEF none
  <2>4. Len(rest) + Len(none) = Len(none) + Len(rest)
    BY <2>2
  <2>5. Completes(reader, due, wire, none, rest)
    BY <2>1, <2>3 DEF Completes
  <2> QED
    BY <1>3, <2>1, <2>2, <2>4, <2>5 DEF IndInv, Aligned, none
<1>4. IndInv'
  BY <1>1, <1>2, <1>3 DEF IndInv
<1> QED
  BY <1>1, <1>4 DEF Whole!Next, Whole!Close

-----------------------------------------------------------------------------
(* The theorems.                                                           *)

LEMMA FramingStart == Init => IndInv /\ Whole!Init
<1> SUFFICES ASSUME Init PROVE IndInv /\ Whole!Init
  OBVIOUS
<1>1. /\ medium \in Media /\ rest = <<>> /\ wire = <<>> /\ open = TRUE
      /\ reader = AtLength /\ got = None /\ due = <<>> /\ inStep = TRUE
  BY DEF Init
<1>2. TypeOK
  <2>1. rest \in Seq(Byte) /\ wire \in Seq(Byte) /\ due \in Seq(Frames) /\ Len(wire) = 0
    BY <1>1
  <2>2. MaxWire \in Nat
    BY ConstantTypes
  <2> QED
    BY <1>1, <2>1, <2>2, AtLengthIs DEF TypeOK, Readers
<1>3. IndInv
  BY <1>1, <1>2, AtLengthIs, AlignedAtPause DEF IndInv
<1> QED
  BY <1>1, <1>3 DEF Whole!Init

LEMMA FramingNext == IndInv /\ [Next]_framingVars => IndInv' /\ [Whole!Next]_(Whole!queueVars)
<1>1. ASSUME IndInv, Next
      PROVE  IndInv' /\ Whole!Next
  BY <1>1, ReadLengthStep, ReadBodyStep, DrainStep, ReadEndsStep, ReadTimesOutStep,
     WriteFrameStep, WriteAllStep, CloseStep, CutOffStep
  DEF Next, ReadFrame
<1>2. ASSUME IndInv, UNCHANGED framingVars
      PROVE  IndInv' /\ UNCHANGED Whole!queueVars
  <2>1. UNCHANGED <<medium, rest, wire, open, reader, got, due, inStep>>
    BY <1>2 DEF framingVars
  <2>2. TypeOK'
    BY <1>2, <2>1 DEF IndInv, TypeOK
  <2> QED
    BY <1>2, <2>1, <2>2 DEF IndInv, Whole!queueVars
<1> QED
  BY <1>1, <1>2

\* What the invariant says of a reader that has begun with the first frame due: the
\* bytes left of it come first, then the other frames.
LEMMA InStepFollows == IndInv => InStep
<1> SUFFICES ASSUME IndInv, inStep PROVE InStep
  BY DEF InStep
<1>1. /\ reader \in Readers /\ due \in Seq(Frames) /\ rest \in Seq(Byte) /\ Waits(reader)
      /\ wire \in Seq(Byte) /\ Aligned(reader, due, wire, rest, open)
  BY DEF IndInv, TypeOK, Readers
<1>2. CASE due = <<>>
  BY <1>1, <1>2, NoneDue DEF InStep
<1>3. CASE due # <<>>
  <2> DEFINE e == Encoded(due[1])
             read == ReadOf(reader, due)
             k == Len(read)
             l == SubSeq(e, k + 1, Len(e))
             t == Stream(Tail(due))
             left == LeftOfFirst
                       \o FlattenSeq([i \in 1 .. Len(due) - 1 |-> Encoded(due[i + 1])])
  <2>1. /\ Stream(due) = Cat(e, t) /\ due[1] \in Frames /\ Tail(due) \in Seq(Frames)
    BY <1>1, <1>3, StreamFirst
  <2>2. e \in Seq(Byte) /\ t \in Seq(Byte)
    BY <2>1, EncodedIs, StreamType
  <2>3. /\ read \in Seq(Byte) /\ k < Len(e)
        /\ k = IF reader.at = "length" THEN Len(reader.bytes)
               ELSE IF reader.at = "body" THEN LenBytes + Len(reader.bytes)
               ELSE Len(e) - reader.need
    BY <1>1, <1>3, ReadType DEF Aligned
  <2>4. k \in 0 .. Len(e)
    BY <2>2, <2>3, LenProperties
  <2>5. LeftOfFirst = l
    <3>1. reader.at \in {"length", "body", "drain"}
      BY <1>1 DEF Readers
    <3>2. k = CASE reader.at = "length" -> Len(reader.bytes)
                [] reader.at = "body"   -> LenBytes + Len(reader.bytes)
                [] reader.at = "drain"  -> Len(e) - reader.need
      BY <2>3, <3>1
    <3> QED
      BY <3>2 DEF LeftOfFirst
  <2>6. FlattenSeq([i \in 1 .. Len(due) - 1 |-> Encoded(due[i + 1])]) = t
    <3>1. /\ Len(Tail(due)) = Len(due) - 1
          /\ \A i \in 1 .. Len(Tail(due)) : Tail(due)[i] = due[i + 1]
      BY <1>1, <1>3, HeadTailProperties
    <3>2. EncodedAll(Tail(due)) = [i \in 1 .. Len(due) - 1 |-> Encoded(due[i + 1])]
      BY <3>1 DEF EncodedAll
    <3> QED
      BY <3>2 DEF Stream
  <2>7. left = Cat(l, t)
    BY <2>5, <2>6 DEF Cat
  <2>8. SubSeq(e, 1, k) \in Seq(Byte) /\ l \in Seq(Byte) /\ Cat(SubSeq(e, 1, k), l) = e
    BY <2>2, <2>4, CatCut
  <2>9. PICK lost \in Seq(Byte) :
          /\ Cat(read, Cat(wire, Cat(rest, lost))) = Cat(e, t)
          /\ open => lost = <<>>
    BY <1>1, <2>1 DEF Aligned, Completes
  <2> DEFINE z == Cat(wire, Cat(rest, lost))
  <2>10. z \in Seq(Byte)
    <3>1. Cat(rest, lost) \in Seq(Byte)
      BY <1>1, CatType
    <3> QED
      BY <1>1, <3>1, CatType
  <2> HIDE DEF e, read, l, t, left
  <2>11. z = Cat(l, t)
    <3>1. Cat(read, z) = Cat(e, t)
      BY <2>9
    <3> HIDE DEF z
    <3>2. read = SubSeq(e, 1, k)
      <4>1. k <= Len(e)
        BY <2>2, <2>4, LenProperties
      <4>2. read \in Seq(Byte)
        BY <2>3
      <4> QED
        BY <2>2, <2>10, <3>1, <4>1, <4>2, CatPrefix
    <3>3. Cat(read, l) = e
      BY <2>8, <3>2
    <3>4. Cat(Cat(read, l), t) = Cat(read, Cat(l, t)) /\ Cat(l, t) \in Seq(Byte)
      BY <2>2, <2>3, <2>8, CatAssociative, CatType
    <3> QED
      BY <2>3, <2>10, <3>1, <3>3, <3>4, CatSplit
  <2>12. left = z
    BY <2>7, <2>11
  <2>13. CASE open
    <3>1. Cat(rest, <<>>) = rest
      BY <1>1, CatEmpty
    <3>2. wire \o rest = left
      BY <2>9, <2>12, <2>13, <3>1 DEF Cat
    <3> QED
      BY <1>3, <2>13, <3>2 DEF InStep, left
  <2>14. CASE ~open
    <3> DEFINE none == <<>>
    <3>1. Cat(none, lost) = lost /\ rest = none
      BY <2>14, CatEmpty DEF IndInv
    <3>2. none \in Seq(Byte) /\ left \in Seq(Byte)
      BY <2>10, <2>12
    <3>3. left = Cat(wire, lost) /\ Cat(left, none) = left
      BY <2>12, <3>1, <3>2, CatEmpty
    <3> HIDE DEF none, z
    <3>4. Len(left) = Len(wire) + Len(lost) /\ Len(wire) \in Nat /\ Len(lost) \in Nat
      BY <1>1, <3>3, CatType, LenProperties
    <3>5. Len(wire) <= Len(left)
      BY <3>4
    <3>6. wire = SubSeq(left, 1, Len(wire))
      <4>1. Cat(wire, lost) = Cat(left, none)
        BY <3>3
      <4> QED
        BY <1>1, <3>2, <3>5, <4>1, CatPrefix
    <3>7. SubSeq(wire, 1, Len(wire)) = wire
      BY <1>1, SubSeqFull
    <3>8. IsPrefix(wire, left)
      BY <3>5, <3>6, <3>7 DEF IsPrefix
    <3> QED
      BY <1>3, <2>14, <3>8 DEF InStep, left
  <2> QED
    BY <2>13, <2>14
<1> QED
  BY <1>2, <1>3

\* Every state has its type (token-core/src/lib.rs, write_frame and read_frame).
THEOREM FramesTypeCorrect == Spec => []TypeOK
<1>1. Init => IndInv
  BY FramingStart
<1>2. IndInv /\ [Next]_framingVars => IndInv'
  BY FramingNext
<1>3. IndInv => TypeOK
  BY DEF IndInv
<1> QED
  BY <1>1, <1>2, <1>3, PTL DEF Spec

\* What is read next in step begins where a frame begins, for frames, buffers and
\* pieces of any size (read_frame and its loop that skips a frame that is too large).
THEOREM ReaderInStep == Spec => []InStep
<1>1. Init => IndInv
  BY FramingStart
<1>2. IndInv /\ [Next]_framingVars => IndInv'
  BY FramingNext
<1> QED
  BY <1>1, <1>2, InStepFollows, PTL DEF Spec

\* Bytes in pieces carry whole frames: what read_frame returns is the oldest frame that
\* write_frame was given, or that it was too large, and no failure loses another frame
\* than one that was cut off.
THEOREM FramesArriveWhole == Spec => ImplementsFrameQueue
<1>1. Init => IndInv /\ Whole!Init
  BY FramingStart
<1>2. IndInv /\ [Next]_framingVars => IndInv' /\ [Whole!Next]_(Whole!queueVars)
  BY FramingNext
<1> QED
  BY <1>1, <1>2, PTL DEF Spec, ImplementsFrameQueue, Whole!Spec
=============================================================================
