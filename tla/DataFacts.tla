------------------------------ MODULE DataFacts ------------------------------
(***************************************************************************)
(* Facts about numbers and sequences that the proofs of several components *)
(* use: quotients and remainders, products, induction as a fact about sets *)
(* of numbers, the parts of a sequence, and what is computed step by step. *)
(***************************************************************************)
EXTENDS Integers, WellFoundedInduction, SequenceTheorems, TLAPS

-----------------------------------------------------------------------------
(* Quotients and remainders. *)

LEMMA DivMod ==
  ASSUME NEW i \in Nat, NEW n \in Nat \ {0}
  PROVE  /\ i \div n \in Nat
         /\ i % n \in 0 .. n - 1
         /\ i = (i \div n) * n + (i % n)
  BY SMT

LEMMA DivModUnique ==
  ASSUME NEW w \in Nat, NEW n \in Nat \ {0}, NEW s \in 0 .. n - 1
  PROVE  /\ (w * n + s) \div n = w
         /\ (w * n + s) % n = s
  BY SMT

LEMMA MulMonotone ==
  ASSUME NEW a \in Nat, NEW b \in Nat, NEW n \in Nat \ {0}, a * n < b * n
  PROVE  (a + 1) * n <= b * n
  BY SMT

LEMMA ModOfSmall ==
  ASSUME NEW n \in Nat \ {0}, NEW s \in 0 .. n - 1
  PROVE  s % n = s
  BY SMT

LEMMA PartAtMostSum ==
  ASSUME NEW x \in Nat, NEW s \in Nat
  PROVE  s <= x + s
  BY SMT

-----------------------------------------------------------------------------
(* Products. *)

LEMMA Products ==
  ASSUME NEW a \in Nat, NEW n \in Nat
  PROVE  /\ a * n \in Nat
         /\ n * a = a * n
         /\ \A b \in Nat : a <= b => a * n <= b * n
         /\ \A b \in Nat : a < b => (a * n) + n <= b * n
         /\ \A b \in Nat : (a + b) * n = (a * n) + (b * n)
         /\ \A b \in Nat : a * (b * n) = (a * b) * n
  <1>1. a * n \in Nat /\ n * a = a * n
    BY SMT
  <1>2. \A b \in Nat : (a + b) * n = (a * n) + (b * n)
    BY SMT
  <1>3. ASSUME NEW b \in Nat, a <= b
        PROVE  a * n <= b * n
    <2>1. PICK d \in Nat : b = a + d
      <3>1. b - a \in Nat /\ b = a + (b - a)
        BY <1>3
      <3> QED  BY <3>1
    <2>2. b * n = (a * n) + (d * n) /\ d * n \in Nat
      BY <1>2, <2>1, SMT
    <2> QED  BY <1>1, <2>2
  <1>4. ASSUME NEW b \in Nat, a < b
        PROVE  (a * n) + n <= b * n
    <2>1. PICK d \in Nat : b = (a + 1) + d
      <3>1. b - (a + 1) \in Nat /\ b = (a + 1) + (b - (a + 1))
        BY <1>4
      <3> QED  BY <3>1
    <2>2. b * n = ((a * n) + n) + (d * n) /\ d * n \in Nat
      BY <2>1, SMT
    <2> QED  BY <1>1, <2>2
  <1>5. \A b \in Nat : a * (b * n) = (a * b) * n
    BY SMT
  <1> QED  BY <1>1, <1>2, <1>3, <1>4, <1>5

LEMMA NextMultiple ==
  ASSUME NEW a \in Nat, NEW n \in Nat
  PROVE  (a + 1) * n = (a * n) + n /\ a * n \in Nat
  BY SMT

LEMMA MultipleFacts ==
  ASSUME NEW a \in Nat, NEW n \in Nat \ {0}
  PROVE  (a * n) \div n = a /\ (a * n) % n = 0
  <1>1. a * n \in Nat
    BY Products
  <1>2. /\ (a * n) \div n \in Nat /\ (a * n) % n \in 0 .. n - 1
        /\ a * n = ((a * n) \div n) * n + ((a * n) % n)
    BY <1>1, DivMod
  <1> DEFINE q == (a * n) \div n
             r == (a * n) % n
  <1> HIDE DEF q, r
  <1>3. q \in Nat /\ r \in 0 .. n - 1 /\ a * n = (q * n) + r
    BY <1>2 DEF q, r
  <1>4. q = a
    <2>1. CASE q < a
      <3>1. (q * n) + n <= a * n /\ q * n \in Nat
        BY <1>3, <2>1, Products
      <3> QED  BY <1>1, <1>3, <3>1
    <2>2. CASE a < q
      <3>1. (a * n) + n <= q * n /\ q * n \in Nat
        BY <1>3, <2>2, Products
      <3> QED  BY <1>1, <1>3, <3>1
    <2> QED  BY <1>3, <2>1, <2>2
  <1>5. r = 0
    BY <1>1, <1>3, <1>4
  <1> QED  BY <1>4, <1>5 DEF q, r

(* Dividing twice is dividing by the product. *)
LEMMA DivideTwice ==
  ASSUME NEW a \in Nat, NEW n \in Nat \ {0}, NEW k \in Nat \ {0}
  PROVE  a \div (n * k) = (a \div n) \div k
  OBVIOUS

-----------------------------------------------------------------------------
(* A set of numbers has a least one, so one that has 0 and with each       *)
(* number the next has them all.                                           *)

LEMMA LeastElement ==
  ASSUME NEW S, S \subseteq Nat, S # {}
  PROVE  \E n \in S : \A m \in S : n <= m
  <1> DEFINE Less == {p \in Nat \X Nat : p[1] < p[2]}
  <1>1. IsWellFoundedOn(Less, Nat)
    BY NatLessThanWellFounded DEF OpToRel
  <1>2. \E n \in S : \A m \in S : ~(<<m, n>> \in Less)
    <2> HIDE DEF Less
    <2> QED
      BY <1>1, WFMin
  <1>3. PICK n \in S : \A m \in S : ~(<<m, n>> \in Less)
    BY <1>2
  <1>4. ASSUME NEW m \in S PROVE n <= m
    <2>1. m \in Nat /\ n \in Nat /\ ~(<<m, n>> \in Less)
      BY <1>3
    <2> QED
      BY <2>1
  <1> QED
    BY <1>4

LEMMA SetInduction ==
  ASSUME NEW S, 0 \in S, \A n \in Nat : n \in S => n + 1 \in S
  PROVE  \A n \in Nat : n \in S
  <1> DEFINE T == {n \in Nat : n \notin S}
  <1>1. ASSUME T # {} PROVE FALSE
    <2>1. PICK n \in T : \A m \in T : n <= m
      BY <1>1, LeastElement
    <2>2. n # 0 /\ n \in Nat
      BY <2>1
    <2>3. n - 1 \in Nat /\ n - 1 \notin T
      BY <2>1, <2>2
    <2>4. (n - 1) + 1 \in S
      BY <2>3
    <2> QED
      BY <2>1, <2>2, <2>4
  <1> QED
    BY <1>1


-----------------------------------------------------------------------------
(* Parts of a sequence. *)

(* x is the first a elements of s, y is s without its first a elements,    *)
(* and z is x, of length m, followed by y, of length n.                    *)
FirstPart(x, S, s, a) ==
  x \in Seq(S) /\ Len(x) = a /\ \A i \in 1 .. a : x[i] = s[i]
RestOf(y, S, s, n, a) ==
  y \in Seq(S) /\ Len(y) = n - a /\ \A i \in 1 .. n - a : y[i] = s[i + a]
Joined(z, S, x, m, y, n) ==
  /\ z \in Seq(S) /\ Len(z) = m + n
  /\ \A i \in 1 .. m : z[i] = x[i]
  /\ \A i \in m + 1 .. m + n : z[i] = y[i - m]

LEMMA PrefixFacts ==
  ASSUME NEW S, NEW s \in Seq(S), NEW n, Len(s) = n, NEW a \in 0 .. n
  PROVE  FirstPart(SubSeq(s, 1, a), S, s, a)
  <1> DEFINE t == SubSeq(s, 1, a)
  <1>1. n \in Nat
    BY LenProperties, Zenon
  <1>2. a \in Nat /\ a <= n
    BY <1>1
  <1>3. \A i \in 1 .. n : s[i] \in S
    BY ElementOfSeq, Zenon
  <1>4. \A i \in 1 .. a : s[i] \in S
    BY <1>1, <1>2, <1>3
  <1>5. 1 \in Int /\ a \in Int
    BY <1>2
  <1>6. /\ t \in Seq(S)
        /\ Len(t) = IF 1 <= a THEN a - 1 + 1 ELSE 0
        /\ \A i \in 1 .. a - 1 + 1 : t[i] = s[1 + i - 1]
    BY <1>4, <1>5, SubSeqProperties, SMTT(30)
  <1> HIDE DEF t
  <1>7. a - 1 + 1 = a /\ (IF 1 <= a THEN a - 1 + 1 ELSE 0) = a
    BY <1>2
  <1>8. ASSUME NEW i \in 1 .. a PROVE t[i] = s[i]
    <2>1. i \in 1 .. a - 1 + 1
      BY <1>7, Zenon
    <2>2. i \in Int
      BY <1>2
    <2>3. 1 + i - 1 = i
      BY <2>2
    <2> QED  BY <1>6, <2>1, <2>3, Zenon
  <1> QED  BY <1>6, <1>7, <1>8, Zenon DEF t, FirstPart

LEMMA SuffixFacts ==
  ASSUME NEW S, NEW s \in Seq(S), NEW n, Len(s) = n, NEW a \in 0 .. n
  PROVE  RestOf(SubSeq(s, a + 1, n), S, s, n, a)
  <1> DEFINE m == a + 1
             t == SubSeq(s, m, n)
  <1>1. n \in Nat
    BY LenProperties, Zenon
  <1>2. a \in Nat /\ a <= n /\ m \in Int /\ n \in Int
    BY <1>1
  <1>3. \A i \in 1 .. n : s[i] \in S
    BY ElementOfSeq, Zenon
  <1>4. \A i \in m .. n : s[i] \in S
    BY <1>1, <1>2, <1>3
  <1>5. m = a + 1
    OBVIOUS
  <1> HIDE DEF m
  <1>6. /\ t \in Seq(S)
        /\ Len(t) = IF m <= n THEN n - m + 1 ELSE 0
        /\ \A i \in 1 .. n - m + 1 : t[i] = s[m + i - 1]
    BY <1>2, <1>4, SubSeqProperties, SMTT(30)
  <1> HIDE DEF t
  <1>7. n - m + 1 = n - a
    BY <1>2, <1>5
  <1>8. (IF m <= n THEN n - m + 1 ELSE 0) = n - a
    BY <1>2, <1>5
  <1>9. ASSUME NEW i \in 1 .. n - a PROVE t[i] = s[i + a]
    <2>1. i \in 1 .. n - m + 1
      BY <1>7, Zenon
    <2>2. i \in Int
      BY <1>2
    <2>3. m + i - 1 = i + a
      BY <1>2, <1>5, <2>2
    <2> QED  BY <1>6, <2>1, <2>3, Zenon
  <1>10. Len(t) = n - a
    BY <1>6, <1>8, Zenon
  <1> QED  BY <1>6, <1>9, <1>10, Zenon DEF t, m, RestOf

LEMMA ConcatFacts ==
  ASSUME NEW S, NEW x \in Seq(S), NEW y \in Seq(S), NEW m, Len(x) = m, NEW n, Len(y) = n
  PROVE  Joined(x \o y, S, x, m, y, n)
  <1> DEFINE z == x \o y
  <1>1. /\ z \in Seq(S) /\ Len(z) = m + n
        /\ \A i \in 1 .. m + n : z[i] = IF i <= m THEN x[i] ELSE y[i - m]
    BY ConcatProperties, Zenon
  <1>2. m \in Nat /\ n \in Nat
    BY LenProperties, Zenon
  <1> HIDE DEF z
  <1>3. ASSUME NEW i \in 1 .. m PROVE z[i] = x[i]
    <2>1. i \in 1 .. m + n /\ i <= m
      BY <1>2
    <2> QED  BY <1>1, <2>1, Zenon
  <1>4. ASSUME NEW i \in m + 1 .. m + n PROVE z[i] = y[i - m]
    <2>1. i \in 1 .. m + n /\ ~(i <= m)
      BY <1>2
    <2> QED  BY <1>1, <2>1, Zenon
  <1> QED  BY <1>1, <1>3, <1>4, Zenon DEF z, Joined

-----------------------------------------------------------------------------
(* Iteration: f starts with a and is led by the i-th of the steps g from   *)
(* i - 1 to i.                                                             *)
Iterates(f, n, T, a, g) ==
  f \in [0 .. n -> T] /\ f[0] = a /\ \A i \in 1 .. n : f[i] = g[i][f[i - 1]]

LEMMA IterationExists ==
  ASSUME NEW T, NEW a \in T, NEW g \in [Nat -> [T -> T]], NEW n \in Nat
  PROVE  \E f : Iterates(f, n, T, a, g)
  <1> DEFINE S == {m \in Nat : \E f : Iterates(f, m, T, a, g)}
  <1>1. 0 \in S
    <2> DEFINE f == [i \in 0 .. 0 |-> a]
    <2>1. Iterates(f, 0, T, a, g)
      BY DEF Iterates
    <2> QED  BY <2>1, Zenon
  <1>2. ASSUME NEW m \in Nat, m \in S PROVE m + 1 \in S
    <2>1. PICK f : Iterates(f, m, T, a, g)
      BY <1>2
    <2> DEFINE last == g[m + 1][f[m]]
               h == [i \in 0 .. m + 1 |-> IF i <= m THEN f[i] ELSE last]
    <2>2. f \in [0 .. m -> T] /\ f[0] = a /\ \A i \in 1 .. m : f[i] = g[i][f[i - 1]]
      BY <2>1 DEF Iterates
    <2>3. last \in T
      <3>1. f[m] \in T /\ g[m + 1] \in [T -> T]
        BY <2>2
      <3> QED  BY <3>1
    <2>4. h \in [0 .. m + 1 -> T] /\ h[0] = a
      BY <2>2, <2>3
    <2>5. ASSUME NEW i \in 1 .. m + 1 PROVE h[i] = g[i][h[i - 1]]
      <3>1. CASE i <= m
        <4>1. i \in 1 .. m /\ i - 1 \in 0 .. m /\ i \in 0 .. m + 1 /\ i - 1 \in 0 .. m + 1
          BY <3>1
        <4>2. h[i] = f[i] /\ h[i - 1] = f[i - 1]
          BY <4>1
        <4> QED  BY <2>2, <4>1, <4>2
      <3>2. CASE ~(i <= m)
        <4>1. i = m + 1 /\ i - 1 = m /\ m \in 0 .. m + 1 /\ m <= m /\ i \in 0 .. m + 1
          BY <3>2
        <4>2. h[i] = last /\ h[i - 1] = f[m]
          BY <3>2, <4>1
        <4> QED  BY <4>1, <4>2
      <3> QED  BY <3>1, <3>2
    <2>6. Iterates(h, m + 1, T, a, g)
      <3> HIDE DEF h
      <3> QED  BY <2>4, <2>5 DEF Iterates
    <2>7. \E k : Iterates(k, m + 1, T, a, g)
      <3> HIDE DEF h
      <3> QED  BY <2>6, Zenon
    <2>8. m + 1 \in Nat
      OBVIOUS
    <2> QED  BY <2>7, <2>8, Zenon
  <1> HIDE DEF S
  <1>3. \A m \in Nat : m \in S
    BY <1>1, <1>2, SetInduction
  <1> QED  BY <1>3 DEF S

LEMMA IterationTyped ==
  ASSUME NEW T, NEW a \in T, NEW g \in [Nat -> [T -> T]], NEW n \in Nat,
         NEW f, f = [i \in 0 .. n |-> f[i]], f[0] = a,
         \A i \in 1 .. n : f[i - 1] \in T => f[i] = g[i][f[i - 1]]
  PROVE  Iterates(f, n, T, a, g)
  <1> DEFINE S == {i \in Nat : i <= n => f[i] \in T}
  <1>1. 0 \in S
    OBVIOUS
  <1>2. ASSUME NEW i \in Nat, i \in S PROVE i + 1 \in S
    <2> SUFFICES ASSUME i + 1 <= n PROVE f[i + 1] \in T
      OBVIOUS
    <2>1. i + 1 \in 1 .. n /\ (i + 1) - 1 = i /\ i <= n
      OBVIOUS
    <2>2. f[i] \in T /\ g[i + 1] \in [T -> T]
      BY <1>2, <2>1
    <2>3. f[i + 1] = g[i + 1][f[i]]
      BY <2>1, <2>2
    <2> QED  BY <2>2, <2>3
  <1> HIDE DEF S
  <1>3. \A i \in Nat : i \in S
    BY <1>1, <1>2, SetInduction
  <1>4. \A i \in 0 .. n : f[i] \in T
    BY <1>3 DEF S
  <1>5. f \in [0 .. n -> T]
    BY <1>4
  <1>6. \A i \in 1 .. n : i - 1 \in 0 .. n
    OBVIOUS
  <1> QED  BY <1>4, <1>5, <1>6 DEF Iterates

LEMMA IterationUnique ==
  ASSUME NEW T, NEW a, NEW n \in Nat, NEW m \in 0 .. n,
         NEW g, NEW k, \A i \in 1 .. m : g[i] = k[i],
         NEW f, Iterates(f, n, T, a, g), NEW h, Iterates(h, m, T, a, k)
  PROVE  f[m] = h[m]
  <1> DEFINE S == {i \in Nat : i <= m => f[i] = h[i]}
  <1>1. 0 \in S
    BY DEF Iterates
  <1>2. ASSUME NEW i \in Nat, i \in S PROVE i + 1 \in S
    <2> SUFFICES ASSUME i + 1 <= m PROVE f[i + 1] = h[i + 1]
      OBVIOUS
    <2>1. i + 1 \in 1 .. n /\ i + 1 \in 1 .. m /\ (i + 1) - 1 = i /\ i <= m
      OBVIOUS
    <2>2. f[i] = h[i]
      BY <1>2, <2>1
    <2>3. f[i + 1] = g[i + 1][f[i]] /\ h[i + 1] = k[i + 1][h[i]] /\ g[i + 1] = k[i + 1]
      BY <2>1 DEF Iterates
    <2> QED  BY <2>2, <2>3
  <1> HIDE DEF S
  <1>3. \A i \in Nat : i \in S
    BY <1>1, <1>2, SetInduction
  <1>4. m \in Nat /\ m <= m
    OBVIOUS
  <1> QED  BY <1>3, <1>4 DEF S
=============================================================================
