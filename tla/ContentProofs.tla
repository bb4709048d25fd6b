---------------------------- MODULE ContentProofs ----------------------------
(***************************************************************************)
(* What module Content promises, for all texts, transactions and blocks of *)
(* any size: documents that can be read back and checked, hashes that bind *)
(* what is signed, and a Merkle root no other list of transactions has.    *)
(* The recursive functions (Span, FlattenSeq, the levels of the tree) are  *)
(* followed with Induct, which is about sets of numbers.                   *)
(***************************************************************************)
EXTENDS Content, TLAPS, FiniteSetTheorems, SequenceTheorems, WellFoundedInduction

----------------------------------------------------------------------------
(* Induction, and what follows from it about recursive functions. *)

(* Induction over the numbers, for a set instead of an operator. *)
LEMMA Induct ==
    ASSUME NEW S \in SUBSET Nat, 0 \in S, \A n \in S : n + 1 \in S
    PROVE  S = Nat
<1> DEFINE less == OpToRel(<, Nat)
           others == Nat \ S
<1>1. \A t, u \in Nat : t < u => <<t, u>> \in less
  BY Zenon DEF OpToRel
<1>2. IsWellFoundedOn(less, Nat)
  BY NatLessThanWellFounded, Zenon
<1>3. SUFFICES ASSUME others # {} PROVE FALSE
  BY Zenon
<1>4. others \in SUBSET Nat
  OBVIOUS
<1> HIDE DEF less, others
<1>5. PICK first \in others : \A t \in others : ~ (<<t, first>> \in less)
  BY <1>2, <1>3, <1>4, WFMin, Zenon
<1>6. \A t \in others : ~ (t < first)
  BY <1>1, <1>4, <1>5, Zenon
<1>7. first \in Nat /\ first # 0 /\ first - 1 \in Nat
  BY <1>5 DEF others
<1>8. first - 1 \in others
  BY <1>5, <1>7 DEF others
<1> QED
  BY <1>6, <1>7, <1>8

(* A function of the numbers can be defined step by step in a set. *)
LEMMA Recursion ==
    ASSUME NEW A, NEW a \in A, NEW R, \A x \in A : \E y \in A : <<x, y>> \in R
    PROVE  \E f : f \in [Nat -> A] /\ f[0] = a /\ \A n \in Nat : <<f[n], f[n + 1]>> \in R
<1> DEFINE step == [x \in A |-> CHOOSE y \in A : <<x, y>> \in R]
           Approx(n, f) == f[0] = a /\ \A m \in 0 .. n - 1 : f[m + 1] = step[f[m]]
           good == {n \in Nat : \E f \in [Nat -> A] : Approx(n, f)}
           made == [n \in Nat |-> CHOOSE f \in [Nat -> A] : Approx(n, f)]
           result == [n \in Nat |-> made[n][n]]
<1>0. step \in [A -> A] /\ \A x \in A : <<x, step[x]>> \in R
  OBVIOUS
<1> HIDE DEF step
<1>1. good = Nat
  <2>1. 0 \in good
    <3>1. [n \in Nat |-> a] \in [Nat -> A] /\ Approx(0, [n \in Nat |-> a])
      OBVIOUS
    <3> QED
      BY <3>1
  <2>2. ASSUME NEW n \in good PROVE n + 1 \in good
    <3>1. PICK f \in [Nat -> A] : Approx(n, f)
      OBVIOUS
    <3> DEFINE g == [f EXCEPT ![n + 1] = step[f[n]]]
    <3>2. g \in [Nat -> A] /\ Approx(n + 1, g)
      BY <1>0, <3>1
    <3>3. \E h \in [Nat -> A] : Approx(n + 1, h)
      BY <3>2, Zenon
    <3> QED
      BY <3>3
  <2> HIDE DEF good
  <2>3. good \in SUBSET Nat
    BY DEF good
  <2> QED
    BY <2>1, <2>2, <2>3, Induct
<1>2. \A n \in Nat : made[n] \in [Nat -> A] /\ Approx(n, made[n])
  BY <1>1
<1> HIDE DEF made, good
<1>3. ASSUME NEW n \in Nat PROVE made[n + 1][n] = made[n][n]
  <2> DEFINE same == {m \in Nat : m <= n => made[n + 1][m] = made[n][m]}
  <2>1. 0 \in same
    BY <1>2
  <2>2. ASSUME NEW m \in same PROVE m + 1 \in same
    <3>1. CASE m + 1 <= n
      <4>1. made[n][m + 1] = step[made[n][m]]
        BY <1>2, <3>1
      <4>2. made[n + 1][m + 1] = step[made[n + 1][m]]
        BY <1>2, <3>1
      <4> QED
        BY <3>1, <4>1, <4>2
    <3> QED
      BY <3>1
  <2> HIDE DEF same
  <2>3. same \in SUBSET Nat
    BY DEF same
  <2>4. same = Nat
    BY <2>1, <2>2, <2>3, Induct
  <2> QED
    BY <2>4 DEF same
<1>4. result \in [Nat -> A]
  BY <1>2
<1>5. result[0] = a
  BY <1>2
<1>6. ASSUME NEW n \in Nat PROVE result[n + 1] = step[result[n]]
  <2>1. made[n + 1][n + 1] = step[made[n + 1][n]]
    BY <1>2
  <2> QED
    BY <1>3, <2>1
<1>7. \A n \in Nat : <<result[n], result[n + 1]>> \in R
  BY <1>0, <1>4, <1>6
<1> QED
  BY <1>4, <1>5, <1>7, Zenon

(* Span is the function its recursive definition says. *)
LEMMA SpanFacts ==
    /\ Span \in [Nat -> Nat]
    /\ Span[0] = 1
    /\ \A n \in Nat : Span[n + 1] = Byte * Span[n]
<1> DEFINE A == Nat
           a == 1
           R == {pair \in Nat \X Nat : pair[2] = Byte * pair[1]}
<1>1. a \in A /\ \A x \in A : \E y \in A : <<x, y>> \in R
  <2>1. \A x \in Nat : <<x, Byte * x>> \in R
    BY SerializationAssumption
  <2> QED
    BY <2>1, SerializationAssumption
<1> HIDE DEF A, a, R
<1>2. PICK f : f \in [Nat -> A] /\ f[0] = a /\ \A n \in Nat : <<f[n], f[n + 1]>> \in R
  BY <1>1, Recursion, Zenon
<1>3. f \in [Nat -> Nat] /\ f[0] = 1
  BY <1>2 DEF A, a
<1>4. \A n \in Nat : f[n + 1] = Byte * f[n]
  BY <1>2 DEF R
<1>5. ASSUME NEW n \in Nat PROVE f[n] = IF n = 0 THEN 1 ELSE Byte * f[n - 1]
  <2>1. CASE n = 0
    BY <1>3, <2>1
  <2>2. CASE n # 0
    <3>1. n - 1 \in Nat /\ (n - 1) + 1 = n
      BY <2>2
    <3> QED
      BY <1>4, <2>2, <3>1
  <2> QED
    BY <2>1, <2>2
<1>6. f = [n \in Nat |-> IF n = 0 THEN 1 ELSE Byte * f[n - 1]]
  BY <1>3, <1>5
<1>7. Span = [n \in Nat |-> IF n = 0 THEN 1 ELSE Byte * Span[n - 1]]
  BY <1>6, Zenon DEF Span
<1>8. \A n \in Nat : Span[n] = IF n = 0 THEN 1 ELSE Byte * Span[n - 1]
  BY <1>7, Zenon
<1>9. Span[0] = 1 /\ \A n \in Nat : Span[n + 1] = Byte * Span[n]
  BY <1>8
<1>10. \A n \in Nat : Span[n] \in Nat
  <2> DEFINE good == {n \in Nat : Span[n] \in Nat}
  <2>1. 0 \in good
    BY <1>9
  <2>2. ASSUME NEW n \in good PROVE n + 1 \in good
    <3>1. Byte \in Nat /\ Span[n] \in Nat
      BY SerializationAssumption
    <3>2. Byte * Span[n] \in Nat
      BY <3>1
    <3> QED
      BY <1>9, <3>2
  <2> HIDE DEF good
  <2>3. good \in SUBSET Nat
    BY DEF good
  <2>4. good = Nat
    BY <2>1, <2>2, <2>3, Induct
  <2> QED
    BY <2>4 DEF good
<1> QED
  BY <1>7, <1>9, <1>10

(* A set of numbers that is not empty has a least one. *)
LEMMA Least ==
    ASSUME NEW S \in SUBSET Nat, S # {}
    PROVE  \E n \in S : \A m \in S : n <= m
<1> DEFINE below == {n \in Nat : \A m \in S : n <= m}
<1>1. SUFFICES ASSUME \A n \in below : n \notin S PROVE FALSE
  OBVIOUS
<1>2. 0 \in below
  OBVIOUS
<1>3. ASSUME NEW n \in below PROVE n + 1 \in below
  BY <1>1
<1>4. below \in SUBSET Nat
  OBVIOUS
<1> HIDE DEF below
<1>5. below = Nat
  BY <1>2, <1>3, <1>4, Induct
<1>6. PICK m \in S : TRUE
  OBVIOUS
<1>7. m + 1 \in below
  BY <1>5
<1> QED
  BY <1>6, <1>7 DEF below

(* No number of bytes has no values. *)
LEMMA SpanPositive == \A n \in Nat : Span[n] > 0
<1> DEFINE good == {n \in Nat : Span[n] > 0}
<1>1. 0 \in good
  BY SpanFacts
<1>2. ASSUME NEW n \in good PROVE n + 1 \in good
  <2>1. Byte \in Nat /\ Byte > 4 /\ Span[n] \in Nat /\ Span[n] > 0
    BY SpanFacts, SerializationAssumption
  <2>2. Byte * Span[n] > 0
    BY <2>1
  <2> QED
    BY <2>2, SpanFacts
<1>3. good \in SUBSET Nat
  OBVIOUS
<1> HIDE DEF good
<1>4. good = Nat
  BY <1>1, <1>2, <1>3, Induct
<1> QED
  BY <1>4 DEF good

(* Quotient and remainder. *)
LEMMA Division ==
    ASSUME NEW v \in Nat, NEW d \in Nat, d > 0
    PROVE  /\ v \div d \in Nat /\ v % d \in 0 .. d - 1
           /\ v = d * (v \div d) + (v % d)
  OBVIOUS

(* There is only one quotient. *)
LEMMA OneQuotient ==
    ASSUME NEW v \in Nat, NEW d \in Nat, d > 0, NEW p \in Nat, NEW r \in 0 .. d - 1, v = d * p + r
    PROVE  v \div d = p
  OBVIOUS

(* Dividing in two steps is dividing by the product. *)
LEMMA DivisionTwice ==
    ASSUME NEW v \in Nat, NEW a \in Nat, NEW b \in Nat, a > 0, b > 0
    PROVE  v \div (b * a) = (v \div a) \div b
<1> DEFINE q == v \div a
           r == v % a
           p == q \div b
           s == q % b
<1>1. q \in Nat /\ r \in 0 .. a - 1 /\ v = a * q + r
  BY Division
<1>2. p \in Nat /\ s \in 0 .. b - 1 /\ q = b * p + s
  BY <1>1, Division
<1> HIDE DEF q, r, p, s
<1>3. v = (b * a) * p + (a * s + r)
  BY <1>1, <1>2
<1>4. a * s + r \in 0 .. b * a - 1 /\ b * a > 0 /\ b * a \in Nat
  <2>1. a * s <= a * (b - 1)
    BY <1>2
  <2>2. a * (b - 1) = b * a - a /\ a * s >= 0 /\ a * s \in Nat
    BY <1>2
  <2>3. b * a \in Nat /\ b * a > 0
    OBVIOUS
  <2> QED
    BY <1>1, <2>1, <2>2, <2>3
<1>5. v \div (b * a) = p
  BY <1>2, <1>3, <1>4, OneQuotient
<1> QED
  BY <1>5 DEF p, q

----------------------------------------------------------------------------
(* Numbers and texts in bytes (Serialization). *)

(* What hashes are computed of. *)
Bytes == Seq(0 .. Byte - 1)

(* A number is determined by its digits. *)
LEMMA DigitsDetermine ==
    ASSUME NEW n \in Nat, NEW v \in 0 .. Span[n] - 1, NEW w \in 0 .. Span[n] - 1,
           \A k \in 0 .. n - 1 : (v \div Span[k]) % Byte = (w \div Span[k]) % Byte
    PROVE  v = w
<1> DEFINE same == {m \in Nat : m <= n => v \div Span[n - m] = w \div Span[n - m]}
<1>0. /\ Byte \in Nat /\ Byte > 4 /\ v \in Nat /\ w \in Nat
      /\ \A k \in Nat : Span[k] \in Nat /\ Span[k] > 0 /\ Span[k + 1] = Byte * Span[k]
  <2>1. Byte \in Nat /\ Byte > 4
    BY SerializationAssumption
  <2>2. v \in Nat /\ w \in Nat
    BY SpanFacts
  <2> QED
    BY <2>1, <2>2, SpanFacts, SpanPositive
<1>1. 0 \in same
  <2>1. v \div Span[n] = 0 /\ w \div Span[n] = 0
    <3>1. Span[n] \in Nat /\ Span[n] > 0 /\ v = Span[n] * 0 + v /\ w = Span[n] * 0 + w
      BY <1>0
    <3> QED
      BY <1>0, <3>1, OneQuotient
  <2> QED
    BY <2>1
<1>2. ASSUME NEW m \in same PROVE m + 1 \in same
  <2>1. SUFFICES ASSUME m + 1 <= n PROVE v \div Span[n - (m + 1)] = w \div Span[n - (m + 1)]
    OBVIOUS
  <2> DEFINE k == n - (m + 1)
             q == v \div Span[k]
             r == w \div Span[k]
  <2>2. k \in Nat /\ k + 1 = n - m /\ k \in 0 .. n - 1
    BY <2>1
  <2>3. q \in Nat /\ r \in Nat
    BY <1>0, <2>2, Division
  <2>4. q \div Byte = v \div Span[n - m] /\ r \div Byte = w \div Span[n - m]
    <3> DEFINE a == Span[k]
    <3>1. Span[n - m] = Byte * a /\ a \in Nat /\ a > 0 /\ Byte \in Nat /\ Byte > 0
      BY <1>0, <2>2
    <3>0. v \in Nat /\ w \in Nat
      BY <1>0
    <3> HIDE DEF a
    <3>2. v \div (Byte * a) = (v \div a) \div Byte
      BY <3>0, <3>1, DivisionTwice
    <3>3. w \div (Byte * a) = (w \div a) \div Byte
      BY <3>0, <3>1, DivisionTwice
    <3> QED
      BY <3>1, <3>2, <3>3 DEF a
  <2>5. q % Byte = r % Byte
    BY <2>2
  <2>6. q \div Byte = r \div Byte
    BY <2>1, <2>4
  <2> HIDE DEF q, r
  <2>7. q = r
    <3>1. q = Byte * (q \div Byte) + (q % Byte) /\ r = Byte * (r \div Byte) + (r % Byte)
      BY <1>0, <2>3, Division
    <3> QED
      BY <2>5, <2>6, <3>1
  <2> QED
    BY <2>7 DEF q, r, k
<1>3. same \in SUBSET Nat
  OBVIOUS
<1> HIDE DEF same
<1>4. same = Nat
  BY <1>1, <1>2, <1>3, Induct
<1>5. v \div Span[0] = w \div Span[0]
  <2>1. n \in same /\ n - n = 0 /\ n <= n
    BY <1>4
  <2> QED
    BY <2>1 DEF same
<1> QED
  BY <1>0, <1>5, SpanFacts

(* The bytes of a number, the lowest first. *)
LEMMA LittleEndianFacts ==
    ASSUME NEW n \in Nat, NEW v \in Nat
    PROVE  LittleEndian(v, n) \in Bytes /\ Len(LittleEndian(v, n)) = n
<1>1. ASSUME NEW i \in 1 .. n PROVE (v \div Span[i - 1]) % Byte \in 0 .. Byte - 1
  <2>1. i - 1 \in Nat /\ Span[i - 1] \in Nat /\ Span[i - 1] > 0
    BY SpanFacts, SpanPositive
  <2>2. v \div Span[i - 1] \in Nat
    BY <2>1, Division
  <2> QED
    BY <2>2, Division, SerializationAssumption
<1> QED
  BY <1>1 DEF LittleEndian, Bytes

(* The bytes of a number, the highest first. *)
LEMMA BigEndianFacts ==
    ASSUME NEW n \in Nat, NEW v \in Nat
    PROVE  BigEndian(v, n) \in Bytes /\ Len(BigEndian(v, n)) = n
<1>1. ASSUME NEW i \in 1 .. n PROVE (v \div Span[n - i]) % Byte \in 0 .. Byte - 1
  <2>1. n - i \in Nat /\ Span[n - i] \in Nat /\ Span[n - i] > 0
    BY SpanFacts, SpanPositive
  <2>2. v \div Span[n - i] \in Nat
    BY <2>1, Division
  <2> QED
    BY <2>2, Division, SerializationAssumption
<1> QED
  BY <1>1 DEF BigEndian, Bytes

(* Different numbers in as many bytes have different bytes. *)
LEMMA LittleEndianInjective ==
    ASSUME NEW n \in Nat, NEW v \in 0 .. Span[n] - 1, NEW w \in 0 .. Span[n] - 1,
           LittleEndian(v, n) = LittleEndian(w, n)
    PROVE  v = w
<1>1. ASSUME NEW k \in 0 .. n - 1
      PROVE  (v \div Span[k]) % Byte = (w \div Span[k]) % Byte
  <2>1. LittleEndian(v, n)[k + 1] = LittleEndian(w, n)[k + 1]
    OBVIOUS
  <2>2. k + 1 \in 1 .. n /\ (k + 1) - 1 = k
    OBVIOUS
  <2> QED
    BY <2>1, <2>2 DEF LittleEndian
<1> QED
  BY <1>1, DigitsDetermine

(* The same for the other order. *)
LEMMA BigEndianInjective ==
    ASSUME NEW n \in Nat, NEW v \in 0 .. Span[n] - 1, NEW w \in 0 .. Span[n] - 1,
           BigEndian(v, n) = BigEndian(w, n)
    PROVE  v = w
<1>1. ASSUME NEW k \in 0 .. n - 1
      PROVE  (v \div Span[k]) % Byte = (w \div Span[k]) % Byte
  <2>1. BigEndian(v, n)[n - k] = BigEndian(w, n)[n - k]
    OBVIOUS
  <2>2. n - k \in 1 .. n /\ n - (n - k) = k
    OBVIOUS
  <2> QED
    BY <2>1, <2>2 DEF BigEndian
<1> QED
  BY <1>1, DigitsDetermine

(* A BigNumber that is not negative fits the bytes it is given. *)
LEMMA BigNumberFacts ==
    ASSUME NEW v \in BigNumber, v >= 0
    PROVE  \E n \in 1 .. MaxBytes : v \in 0 .. Span[n] - 1 /\ hashBigNumber(v) = BigEndian(v, n)
<1> DEFINE enough == {n \in 1 .. MaxBytes : v < Span[n]}
<1>1. MaxBytes \in enough /\ enough \in SUBSET Nat
  BY SerializationAssumption DEF BigNumber
<1>2. PICK n \in enough : \A m \in enough : n <= m
  BY <1>1, Least
<1>3. n = 1 \/ v >= Span[n - 1]
  <2>1. SUFFICES ASSUME n # 1, v < Span[n - 1] PROVE FALSE
    BY SpanFacts DEF BigNumber
  <2>2. n - 1 \in enough
    BY <2>1, SerializationAssumption
  <2> QED
    BY <1>2, <2>2, SerializationAssumption
<1>4. \E least \in 1 .. MaxBytes : v < Span[least] /\ (least = 1 \/ v >= Span[least - 1])
  BY <1>2, <1>3
<1> DEFINE least == CHOOSE l \in 1 .. MaxBytes : v < Span[l] /\ (l = 1 \/ v >= Span[l - 1])
<1>5. least \in 1 .. MaxBytes /\ v < Span[least]
  BY <1>4
<1>6. hashBigNumber(v) = BigEndian(v, least)
  BY DEF hashBigNumber, BigNumber
<1> HIDE DEF least
<1> QED
  BY <1>5, <1>6, SpanFacts, SerializationAssumption DEF BigNumber

----------------------------------------------------------------------------
(* Joining parts. *)

(* f joins the sequences one after the other, as FlattenSeq does. *)
Steps(seqs, f) ==
    /\ f[1] = seqs[1]
    /\ \A i \in 1 .. Len(seqs) - 1 : f[i + 1] = f[i] \o seqs[i + 1]
    /\ FlattenSeq(seqs) = f[Len(seqs)]

(* FlattenSeq can be followed step by step. *)
LEMMA FlattenSteps ==
    ASSUME NEW X, NEW seqs \in Seq(Seq(X)), Len(seqs) > 0
    PROVE  \E f : f \in [1 .. Len(seqs) -> Seq(X)] /\ Steps(seqs, f)
<1> DEFINE n == Len(seqs)
           A == Nat \X Seq(X)
           a == <<1, seqs[1]>>
           next(p) == <<p[1] + 1, IF p[1] < n THEN p[2] \o seqs[p[1] + 1] ELSE p[2]>>
           R == {pair \in A \X A : pair[2] = next(pair[1])}
<1>1. n \in Nat /\ n > 0 /\ \A i \in 1 .. n : seqs[i] \in Seq(X)
  BY LenProperties, ElementOfSeq
<1>2. a \in A /\ \A x \in A : \E y \in A : <<x, y>> \in R
  <2>1. a \in A
    BY <1>1
  <2>2. ASSUME NEW x \in A PROVE next(x) \in A
    <3>1. x[1] \in Nat /\ x[2] \in Seq(X)
      OBVIOUS
    <3>2. ASSUME x[1] < n PROVE x[2] \o seqs[x[1] + 1] \in Seq(X)
      <4>1. seqs[x[1] + 1] \in Seq(X)
        BY <1>1, <3>1, <3>2
      <4> QED
        BY <3>1, <4>1
    <3> DEFINE second == IF x[1] < n THEN x[2] \o seqs[x[1] + 1] ELSE x[2]
    <3>3. second \in Seq(X)
      BY <3>1, <3>2
    <3>4. next(x) = <<x[1] + 1, second>>
      BY Zenon
    <3> HIDE DEF second, next
    <3> QED
      BY <3>1, <3>3, <3>4
  <2>3. \A x \in A : <<x, next(x)>> \in R
    BY <2>2
  <2> HIDE DEF next, R, A, a
  <2> QED
    BY <2>1, <2>2, <2>3
<1> HIDE DEF A, a, R
<1>3. PICK g : g \in [Nat -> A] /\ g[0] = a /\ \A k \in Nat : <<g[k], g[k + 1]>> \in R
  BY <1>2, Recursion, Zenon
<1> HIDE DEF next
<1>4. ASSUME NEW k \in Nat
      PROVE  /\ g[k + 1][1] = g[k][1] + 1
             /\ g[k][1] < n => g[k + 1][2] = g[k][2] \o seqs[g[k][1] + 1]
  <2>1. g[k + 1] = next(g[k])
    BY <1>3 DEF R
  <2> DEFINE p == g[k]
             longer == p[2] \o seqs[p[1] + 1]
  <2>2. g[k + 1] = <<p[1] + 1, IF p[1] < n THEN longer ELSE p[2]>>
    BY <2>1, Zenon DEF next
  <2> HIDE DEF longer
  <2>3. g[k + 1][1] = p[1] + 1 /\ g[k + 1][2] = IF p[1] < n THEN longer ELSE p[2]
    BY <2>2
  <2> QED
    BY <2>3 DEF longer
<1>5. \A k \in Nat : g[k][1] = k + 1
  <2> DEFINE counts == {k \in Nat : g[k][1] = k + 1}
  <2>1. 0 \in counts
    BY <1>3 DEF a
  <2>2. ASSUME NEW k \in counts PROVE k + 1 \in counts
    <3>1. k \in Nat /\ g[k][1] = k + 1
      OBVIOUS
    <3>2. g[k + 1][1] = g[k][1] + 1
      BY <1>4, <3>1
    <3> QED
      BY <3>1, <3>2
  <2>3. counts \in SUBSET Nat
    OBVIOUS
  <2> HIDE DEF counts
  <2>4. counts = Nat
    BY <2>1, <2>2, <2>3, Induct
  <2> QED
    BY <2>4 DEF counts
<1> DEFINE f == [i \in 1 .. n |-> g[i - 1][2]]
<1>6. f \in [1 .. n -> Seq(X)]
  <2>1. ASSUME NEW i \in 1 .. n PROVE g[i - 1][2] \in Seq(X)
    <3>1. i - 1 \in Nat
      BY <1>1
    <3>2. g[i - 1] \in Nat \X Seq(X)
      BY <1>3, <3>1 DEF A
    <3> HIDE DEF n
    <3> QED
      BY <3>2
  <2> HIDE DEF n
  <2> QED
    BY <2>1
<1>7. f[1] = seqs[1]
  BY <1>1, <1>3 DEF a
<1>8. ASSUME NEW i \in 1 .. n - 1 PROVE f[i + 1] = f[i] \o seqs[i + 1]
  <2>1. i - 1 \in Nat /\ (i - 1) + 1 = i /\ i < n /\ i \in 1 .. n /\ i + 1 \in 1 .. n
    BY <1>1
  <2>2. g[i - 1][1] = i
    BY <1>5, <2>1
  <2>3. g[i][2] = g[i - 1][2] \o seqs[i + 1]
    BY <1>4, <2>1, <2>2
  <2>4. f[i + 1] = g[i][2] /\ f[i] = g[i - 1][2]
    BY <2>1
  <2> QED
    BY <2>3, <2>4
<1> HIDE DEF f
<1>9. f = [i \in 1 .. n |-> IF i = 1 THEN seqs[i] ELSE f[i - 1] \o seqs[i]]
  <2>1. ASSUME NEW i \in 1 .. n PROVE f[i] = IF i = 1 THEN seqs[i] ELSE f[i - 1] \o seqs[i]
    <3>1. CASE i = 1
      BY <1>7, <3>1
    <3>2. CASE i # 1
      <4>1. i - 1 \in 1 .. n - 1 /\ (i - 1) + 1 = i
        BY <1>1, <3>2
      <4> QED
        BY <1>8, <3>2, <4>1
    <3> QED
      BY <3>1, <3>2
  <2> QED
    BY <1>6, <2>1
<1> DEFINE flatten == CHOOSE h : h = [i \in 1 .. n |->
                                        IF i = 1 THEN seqs[i] ELSE h[i - 1] \o seqs[i]]
<1>10. flatten = [i \in 1 .. n |-> IF i = 1 THEN seqs[i] ELSE flatten[i - 1] \o seqs[i]]
  BY <1>9, Zenon
<1>11. FlattenSeq(seqs) = flatten[n]
  BY <1>1 DEF FlattenSeq
<1> HIDE DEF flatten
<1>12. \A i \in 1 .. n : flatten[i] = IF i = 1 THEN seqs[i] ELSE flatten[i - 1] \o seqs[i]
  BY <1>10, Zenon
<1> DEFINE same == {k \in Nat : k + 1 <= n => flatten[k + 1] = f[k + 1]}
<1>13. same = Nat
  <2>1. 0 \in same
    BY <1>1, <1>7, <1>12
  <2>2. ASSUME NEW k \in same PROVE k + 1 \in same
    <3>1. SUFFICES ASSUME (k + 1) + 1 <= n PROVE flatten[(k + 1) + 1] = f[(k + 1) + 1]
      OBVIOUS
    <3>2. k + 1 \in 1 .. n - 1 /\ (k + 1) + 1 \in 1 .. n /\ (k + 1) + 1 # 1
          /\ ((k + 1) + 1) - 1 = k + 1
      BY <1>1, <3>1
    <3>3. flatten[k + 1] = f[k + 1]
      BY <3>2
    <3> QED
      BY <1>8, <1>12, <3>2, <3>3
  <2>3. same \in SUBSET Nat
    OBVIOUS
  <2> HIDE DEF same
  <2> QED
    BY <2>1, <2>2, <2>3, Induct
<1>14. flatten[n] = f[n]
  <2> HIDE DEF same, n
  <2>1. n - 1 \in same /\ (n - 1) + 1 = n
    BY <1>1, <1>13
  <2> USE DEF same
  <2> QED
    BY <1>1, <2>1
<1> HIDE DEF same
<1>15. Steps(seqs, f)
  BY <1>7, <1>8, <1>11, <1>14 DEF Steps
<1> QED
  BY <1>6, <1>15

(* If two lists of parts differ in one part at most, and are the same when flattened, they are *)
(* the same.                                                                                   *)
LEMMA OnePart ==
    ASSUME NEW X, NEW p \in Seq(Seq(X)), NEW q \in Seq(Seq(X)), Len(p) = Len(q),
           NEW k \in 1 .. Len(p), \A i \in 1 .. Len(p) : i # k => p[i] = q[i],
           FlattenSeq(p) = FlattenSeq(q)
    PROVE  p[k] = q[k]
<1> DEFINE n == Len(p)
<1>1. n \in Nat /\ n > 0 /\ \A i \in 1 .. n : p[i] \in Seq(X) /\ q[i] \in Seq(X)
  BY LenProperties, ElementOfSeq
<1>2. PICK f : f \in [1 .. n -> Seq(X)] /\ Steps(p, f)
  BY <1>1, FlattenSteps, Zenon
<1>3. PICK g : g \in [1 .. n -> Seq(X)] /\ Steps(q, g)
  <2>1. \E g : g \in [1 .. Len(q) -> Seq(X)] /\ Steps(q, g)
    BY <1>1, FlattenSteps, Zenon
  <2> QED
    BY <2>1, Zenon
<1> HIDE DEF n
<1>4. /\ f[1] = p[1] /\ \A i \in 1 .. n - 1 : f[i + 1] = f[i] \o p[i + 1]
      /\ g[1] = q[1] /\ \A i \in 1 .. n - 1 : g[i + 1] = g[i] \o q[i + 1]
      /\ f[n] = g[n]
  BY <1>2, <1>3 DEF Steps, n
<1>5. ASSUME NEW i \in 1 .. n - 1 PROVE i \in 1 .. n /\ i + 1 \in 1 .. n
  BY <1>1
<1> DEFINE before == {m \in Nat : m + 1 < k => f[m + 1] = g[m + 1]}
           behind == {m \in Nat : m <= n - k => f[n - m] = g[n - m]}
<1>6. before = Nat
  <2>1. 0 \in before
    BY <1>1, <1>4 DEF n
  <2>2. ASSUME NEW m \in before PROVE m + 1 \in before
    <3>1. SUFFICES ASSUME (m + 1) + 1 < k PROVE f[(m + 1) + 1] = g[(m + 1) + 1]
      OBVIOUS
    <3>2. m + 1 \in 1 .. n - 1 /\ (m + 1) + 1 # k /\ f[m + 1] = g[m + 1]
      BY <1>1, <3>1 DEF n
    <3> QED
      BY <1>4, <1>5, <3>2 DEF n
  <2>3. before \in SUBSET Nat
    OBVIOUS
  <2> HIDE DEF before
  <2> QED
    BY <2>1, <2>2, <2>3, Induct
<1>7. behind = Nat
  <2>1. 0 \in behind
    BY <1>1, <1>4
  <2>2. ASSUME NEW m \in behind PROVE m + 1 \in behind
    <3>1. SUFFICES ASSUME m + 1 <= n - k PROVE f[n - (m + 1)] = g[n - (m + 1)]
      OBVIOUS
    <3> DEFINE i == n - (m + 1)
    <3>2. i \in 1 .. n - 1 /\ i + 1 = n - m /\ i + 1 # k /\ f[i + 1] = g[i + 1]
      BY <1>1, <3>1 DEF n
    <3>3. f[i] \o p[i + 1] = g[i] \o p[i + 1]
      BY <1>4, <1>5, <3>2 DEF n
    <3>4. f[i] \in Seq(X) /\ g[i] \in Seq(X) /\ p[i + 1] \in Seq(X)
      BY <1>1, <1>2, <1>3, <1>5, <3>2
    <3> DEFINE part == p[i + 1]
    <3>5. f[i] \o part = g[i] \o part /\ part \in Seq(X)
      BY <3>3, <3>4
    <3> HIDE DEF part, i
    <3>6. \A s, t, v \in Seq(X) : s \o v = t \o v => s = t
      BY ConcatSimplifications, Zenon
    <3>7. f[i] = g[i]
      BY <3>4, <3>5, <3>6, Zenon
    <3> QED
      BY <3>7 DEF i
  <2>3. behind \in SUBSET Nat
    OBVIOUS
  <2> HIDE DEF behind
  <2> QED
    BY <2>1, <2>2, <2>3, Induct
<1> HIDE DEF before, behind
<1>8. f[k] = g[k]
  <2>1. n - k \in Nat /\ n - (n - k) = k /\ n - k <= n - k
    BY <1>1 DEF n
  <2>2. n - k \in behind
    BY <1>7, <2>1, Zenon
  <2> QED
    BY <2>1, <2>2 DEF behind
<1>9. CASE k = 1
  BY <1>4, <1>8, <1>9
<1>10. CASE k # 1
  <2> DEFINE i == k - 1
  <2>1. i \in 1 .. n - 1 /\ i + 1 = k /\ f[i] = g[i]
    <3>1. k - 2 \in Nat /\ (k - 2) + 1 = k - 1 /\ k - 1 < k
      BY <1>10
    <3>2. k - 2 \in before
      BY <1>6, <3>1, Zenon
    <3>3. f[(k - 2) + 1] = g[(k - 2) + 1]
      BY <3>1, <3>2 DEF before
    <3> QED
      BY <1>1, <1>10, <3>1, <3>3 DEF n
  <2>2. f[i] \o p[k] = f[i] \o q[k]
    BY <1>4, <1>8, <2>1
  <2>3. f[i] \in Seq(X) /\ p[k] \in Seq(X) /\ q[k] \in Seq(X)
    BY <1>1, <1>2, <1>5, <2>1 DEF n
  <2> HIDE DEF i
  <2> QED
    BY <2>2, <2>3, ConcatSimplifications, Zenon
<1> QED
  BY <1>9, <1>10

(* The bytes in front of a text: how many they are. *)
LEMMA VarIntFacts ==
    ASSUME NEW v \in Nat
    PROVE  /\ hashVarInt(v) \in Bytes
           /\ Len(hashVarInt(v)) = IF v <= Byte - 4 THEN 1 ELSE IF v < Span[2] THEN 3
                                   ELSE IF v < Span[4] - 1 THEN 5 ELSE 1 + Wide
<1>1. ASSUME NEW tag \in 0 .. Byte - 1, NEW n \in Nat
      PROVE  /\ <<tag>> \o LittleEndian(v, n) \in Bytes
             /\ Len(<<tag>> \o LittleEndian(v, n)) = 1 + n
  <2>1. <<tag>> \in Bytes /\ Len(<<tag>>) = 1
    BY DEF Bytes
  <2>2. LittleEndian(v, n) \in Bytes /\ Len(LittleEndian(v, n)) = n
    BY LittleEndianFacts
  <2> QED
    BY <2>1, <2>2, ConcatProperties DEF Bytes
<1>2. LittleEndian(v, 1) \in Bytes /\ Len(LittleEndian(v, 1)) = 1
  BY LittleEndianFacts
<1>3. Byte - 3 \in 0 .. Byte - 1 /\ Byte - 2 \in 0 .. Byte - 1 /\ Byte - 1 \in 0 .. Byte - 1
  BY SerializationAssumption
<1>4. Wide \in Nat
  BY SerializationAssumption
<1>5. CASE v <= Byte - 4
  BY <1>2, <1>5 DEF hashVarInt
<1>6. CASE ~ (v <= Byte - 4) /\ v < Span[2]
  <2>1. hashVarInt(v) = <<Byte - 3>> \o LittleEndian(v, 2)
    BY <1>6 DEF hashVarInt
  <2> QED
    BY <1>1, <1>3, <1>6, <2>1
<1>7. CASE ~ (v <= Byte - 4) /\ ~ (v < Span[2]) /\ v < Span[4] - 1
  <2>1. hashVarInt(v) = <<Byte - 2>> \o LittleEndian(v, 4)
    BY <1>7 DEF hashVarInt
  <2> QED
    BY <1>1, <1>3, <1>7, <2>1
<1>8. CASE ~ (v <= Byte - 4) /\ ~ (v < Span[2]) /\ ~ (v < Span[4] - 1)
  <2>1. hashVarInt(v) = <<Byte - 1>> \o LittleEndian(v, Wide)
    BY <1>8 DEF hashVarInt
  <2> QED
    BY <1>1, <1>3, <1>4, <1>8, <2>1
<1> QED
  BY <1>5, <1>6, <1>7, <1>8

(* The bytes of a text and of its length. *)
LEMMA TextFacts ==
    ASSUME NEW text \in Texts
    PROVE  /\ Utf8[text] \in Bytes /\ Len(Utf8[text]) \in Nat
           /\ hashText(text) \in Bytes
           /\ Len(hashText(text)) = Len(hashVarInt(Len(Utf8[text]))) + Len(Utf8[text])
<1>1. Utf8[text] \in Bytes /\ Len(Utf8[text]) \in Nat
  BY SerializationAssumption, LenProperties DEF Bytes
<1>2. hashVarInt(Len(Utf8[text])) \in Bytes
  BY <1>1, VarIntFacts
<1> QED
  BY <1>1, <1>2, ConcatProperties DEF hashText, Bytes

(* Different texts are hashed differently. *)
LEMMA TextInjective ==
    ASSUME NEW t \in Texts, NEW u \in Texts, hashText(t) = hashText(u)
    PROVE  t = u
<1> DEFINE m == Len(Utf8[t])
           n == Len(Utf8[u])
           lead(k) == IF k <= Byte - 4 THEN 1 ELSE IF k < Span[2] THEN 3
                      ELSE IF k < Span[4] - 1 THEN 5 ELSE 1 + Wide
<1>1. m \in Nat /\ n \in Nat /\ Utf8[t] \in Bytes /\ Utf8[u] \in Bytes
  BY TextFacts
<1>2. hashVarInt(m) \in Bytes /\ Len(hashVarInt(m)) = lead(m) /\ Len(hashVarInt(n)) = lead(n)
  BY <1>1, VarIntFacts
<1>3. lead(m) + m = lead(n) + n
  BY <1>2, TextFacts
<1>4. Byte \in Nat /\ Wide \in Nat /\ Wide >= 4 /\ Span[2] \in Nat /\ Span[4] \in Nat
  BY SerializationAssumption, SpanFacts
<1> HIDE DEF m, n
<1>5. m = n
  BY <1>1, <1>3, <1>4
<1>6. hashVarInt(m) \o Utf8[t] = hashVarInt(m) \o Utf8[u]
  BY <1>5 DEF hashText, m, n
<1>7. \A a, b, c \in Bytes : a \o b = a \o c => b = c
  BY ConcatSimplifications, Zenon DEF Bytes
<1>8. Utf8[t] = Utf8[u]
  BY <1>1, <1>2, <1>6, <1>7, Zenon
<1> QED
  BY <1>8, SerializationAssumption

(* What hashPart needs of a field's value. *)
Fits(field, value) ==
    IF field \in NumberFields \cup {"type"} THEN Writes(value)
    ELSE IF field \in AmountFields THEN value \in BigNumber
    ELSE value \in Texts \/ (field = "productId" /\ value \in DOMAIN Raw)

(* hashPart writes bytes. *)
LEMMA PartFacts ==
    ASSUME NEW object, NEW field, Fits(field, object[field])
    PROVE  hashPart(object, field) \in Bytes
<1>1. CASE field \in NumberFields \cup {"type"}
  <2>1. object[field] \in Nat /\ Wide \in Nat
    BY <1>1, SpanFacts, SerializationAssumption DEF Fits, Writes
  <2> QED
    BY <1>1, <2>1, LittleEndianFacts DEF hashPart, hashNumber
<1>2. CASE field \notin NumberFields \cup {"type"} /\ field \in AmountFields
  <2>1. hashPart(object, field) = hashBigNumber(object[field]) /\ object[field] \in BigNumber
    BY <1>2 DEF hashPart, Fits
  <2>2. CASE object[field] < 0
    BY <2>1, <2>2, EmptySeq DEF hashBigNumber, Bytes
  <2>3. CASE object[field] >= 0
    <3>1. PICK n \in 1 .. MaxBytes : hashBigNumber(object[field]) = BigEndian(object[field], n)
      BY <2>1, <2>3, BigNumberFacts
    <3>2. n \in Nat /\ object[field] \in Nat
      BY <2>1, <2>3, SerializationAssumption DEF BigNumber
    <3> QED
      BY <2>1, <3>1, <3>2, BigEndianFacts
  <2> QED
    BY <2>1, <2>2, <2>3 DEF BigNumber
<1>3. CASE field \notin NumberFields \cup {"type"} /\ field \notin AmountFields
  <2> DEFINE value == object[field]
  <2>1. hashPart(object, field) = IF value \in OtherIds THEN Raw[value] ELSE hashText(value)
    BY <1>3 DEF hashPart
  <2>2. value \in Texts \/ value \in DOMAIN Raw
    BY <1>3 DEF Fits
  <2> HIDE DEF value
  <2>3. CASE value \in OtherIds
    BY <2>1, <2>2, <2>3, SerializationAssumption DEF Bytes
  <2>4. CASE value \notin OtherIds
    <3>1. value \in Texts
      BY <2>2, <2>4, SerializationAssumption
    <3> QED
      BY <2>1, <2>4, <3>1, TextFacts
  <2> QED
    BY <2>3, <2>4
<1> QED
  BY <1>1, <1>2, <1>3

(* Different values of a field are hashed differently, unless both are     *)
(* below 0 or one is a product id that is no text.                         *)
LEMMA PartInjective ==
    ASSUME NEW a, NEW b, NEW field, Fits(field, a[field]), Fits(field, b[field]),
           field \in AmountFields => a[field] >= 0 \/ b[field] >= 0,
           field = "productId" => a[field] \in Texts /\ b[field] \in Texts,
           hashPart(a, field) = hashPart(b, field)
    PROVE  a[field] = b[field]
<1>1. CASE field \in NumberFields \cup {"type"}
  <2>1. /\ a[field] \in 0 .. Span[Wide] - 1 /\ b[field] \in 0 .. Span[Wide] - 1 /\ Wide \in Nat
        /\ LittleEndian(a[field], Wide) = LittleEndian(b[field], Wide)
    BY <1>1, SerializationAssumption DEF Fits, Writes, hashPart, hashNumber
  <2> QED
    BY <2>1, LittleEndianInjective
<1>2. CASE field \notin NumberFields \cup {"type"} /\ field \in AmountFields
  <2> DEFINE v == a[field]
             w == b[field]
  <2>1. /\ v \in BigNumber /\ w \in BigNumber /\ hashBigNumber(v) = hashBigNumber(w)
        /\ v >= 0 \/ w >= 0
    BY <1>2 DEF hashPart, Fits
  <2> HIDE DEF v, w
  <2>2. ASSUME NEW x \in BigNumber, x >= 0
        PROVE  \E n \in 1 .. MaxBytes : /\ x \in 0 .. Span[n] - 1
                                        /\ hashBigNumber(x) = BigEndian(x, n)
                                        /\ n \in Nat /\ n > 0 /\ Len(hashBigNumber(x)) = n
    <3>1. PICK n \in 1 .. MaxBytes : x \in 0 .. Span[n] - 1 /\ hashBigNumber(x) = BigEndian(x, n)
      BY <2>2, BigNumberFacts
    <3>2. n \in Nat /\ n > 0 /\ x \in Nat
      BY <2>2, SerializationAssumption DEF BigNumber
    <3>3. Len(hashBigNumber(x)) = n
      BY <3>1, <3>2, BigEndianFacts
    <3> QED
      BY <3>1, <3>2, <3>3
  <2>3. ASSUME NEW x \in BigNumber, x < 0 PROVE Len(hashBigNumber(x)) = 0
    BY <2>3, EmptySeq DEF hashBigNumber
  <2>4. v >= 0 /\ w >= 0
    BY <2>1, <2>2, <2>3 DEF BigNumber
  <2>5. PICK m \in 1 .. MaxBytes : /\ v \in 0 .. Span[m] - 1
                                   /\ hashBigNumber(v) = BigEndian(v, m)
                                   /\ m \in Nat /\ m > 0 /\ Len(hashBigNumber(v)) = m
    BY <2>1, <2>2, <2>4
  <2>6. PICK n \in 1 .. MaxBytes : /\ w \in 0 .. Span[n] - 1
                                   /\ hashBigNumber(w) = BigEndian(w, n)
                                   /\ n \in Nat /\ n > 0 /\ Len(hashBigNumber(w)) = n
    BY <2>1, <2>2, <2>4
  <2>7. m = n
    BY <2>1, <2>5, <2>6
  <2>8. v = w
    BY <2>1, <2>5, <2>6, <2>7, BigEndianInjective
  <2> QED
    BY <2>8 DEF v, w
<1>3. CASE field \notin NumberFields \cup {"type"} /\ field \notin AmountFields
  <2>1. a[field] \in Texts /\ b[field] \in Texts
    BY <1>3 DEF Fits
  <2>2. hashText(a[field]) = hashText(b[field])
    BY <1>3, <2>1, SerializationAssumption DEF hashPart
  <2> QED
    BY <2>1, <2>2, TextInjective
<1> QED
  BY <1>1, <1>2, <1>3

----------------------------------------------------------------------------
(* The hashes of objects and transactions (Transaction). *)

(* FlattenSeq of sequences over X is a sequence over X. *)
LEMMA FlattenType ==
    ASSUME NEW X, NEW seqs \in Seq(Seq(X))
    PROVE  FlattenSeq(seqs) \in Seq(X)
<1>1. Len(seqs) \in Nat
  BY LenProperties
<1>2. CASE Len(seqs) = 0
  <2>1. seqs = <<>>
    BY <1>2
  <2> QED
    BY <1>2, <2>1 DEF FlattenSeq
<1>3. CASE Len(seqs) > 0
  <2>1. PICK f : f \in [1 .. Len(seqs) -> Seq(X)] /\ Steps(seqs, f)
    BY <1>3, FlattenSteps, Zenon
  <2>2. Len(seqs) \in 1 .. Len(seqs)
    BY <1>1, <1>3
  <2>3. f[Len(seqs)] \in Seq(X)
    BY <2>1, <2>2
  <2> QED
    BY <2>1, <2>3 DEF Steps
<1> QED
  BY <1>1, <1>2, <1>3

(* The fields of an object, in a given order, each hashable.               *)
Fields(names, object) ==
    /\ Len(names) \in Nat /\ DOMAIN names = 1 .. Len(names)
    /\ \A i \in 1 .. Len(names) : Fits(names[i], object[names[i]])

(* What is hashed of the fields of an object. *)
Parts(object, names) == [i \in DOMAIN names |-> hashPart(object, names[i])]

(* hashParts joins the parts and writes bytes. *)
LEMMA PartsFacts ==
    ASSUME NEW object, NEW names, Fields(names, object)
    PROVE  /\ Parts(object, names) \in Seq(Bytes) /\ Len(Parts(object, names)) = Len(names)
           /\ hashParts(object, names) = FlattenSeq(Parts(object, names))
           /\ hashParts(object, names) \in Bytes
<1> DEFINE n == Len(names)
           parts == [i \in 1 .. n |-> hashPart(object, names[i])]
<1>1. n \in Nat /\ DOMAIN names = 1 .. n
  BY DEF Fields
<1>2. \A i \in 1 .. n : hashPart(object, names[i]) \in Bytes
  BY PartFacts DEF Fields
<1> HIDE DEF n
<1>3. parts \in Seq(Bytes) /\ Len(parts) = n
  BY <1>1, <1>2
<1>4. Parts(object, names) = parts
  BY <1>1, Zenon DEF Parts
<1>5. FlattenSeq(Parts(object, names)) \in Bytes
  <2>1. Parts(object, names) \in Seq(Seq(0 .. Byte - 1))
    BY <1>3, <1>4 DEF Bytes
  <2> QED
    BY <2>1, FlattenType DEF Bytes
<1>6. hashParts(object, names) = FlattenSeq(Parts(object, names))
  BY Zenon DEF hashParts, Parts
<1> QED
  BY <1>3, <1>4, <1>5, <1>6 DEF n

(* The part where two lists differ is where their bytes differ. *)
LEMMA OneOfBytes ==
    ASSUME NEW p \in Seq(Bytes), NEW q \in Seq(Bytes), NEW k \in 1 .. Len(p),
           Len(p) = Len(q), \A i \in 1 .. Len(p) : i # k => p[i] = q[i],
           FlattenSeq(p) = FlattenSeq(q)
    PROVE  p[k] = q[k]
  BY OnePart DEF Bytes

(* If objects differ in one field only, so do their hashes. *)
LEMMA OneField ==
    ASSUME NEW a, NEW b, NEW names, Fields(names, a), Fields(names, b),
           NEW k \in 1 .. Len(names),
           \A i \in 1 .. Len(names) : i # k => a[names[i]] = b[names[i]],
           names[k] \in AmountFields => a[names[k]] >= 0 \/ b[names[k]] >= 0,
           names[k] = "productId" => a[names[k]] \in Texts /\ b[names[k]] \in Texts,
           hashParts(a, names) = hashParts(b, names)
    PROVE  a[names[k]] = b[names[k]]
<1> DEFINE p == Parts(a, names)
           q == Parts(b, names)
<1>1. /\ p \in Seq(Bytes) /\ q \in Seq(Bytes) /\ Len(p) = Len(names) /\ Len(q) = Len(names)
      /\ FlattenSeq(p) = FlattenSeq(q)
  BY PartsFacts
<1>2. \A i \in 1 .. Len(names) : /\ p[i] = hashPart(a, names[i])
                                 /\ q[i] = hashPart(b, names[i])
  BY DEF Fields, Parts
<1>3. ASSUME NEW i \in 1 .. Len(names), i # k PROVE p[i] = q[i]
  BY <1>2, <1>3 DEF hashPart
<1> HIDE DEF p, q
<1>4. p[k] = q[k]
  <2>1. p \in Seq(Bytes) /\ q \in Seq(Bytes)
    BY <1>1
  <2>2. k \in 1 .. Len(p) /\ \A i \in 1 .. Len(p) : i # k => p[i] = q[i]
    BY <1>1, <1>3
  <2>3. Len(p) = Len(q) /\ FlattenSeq(p) = FlattenSeq(q)
    BY <1>1
  <2> QED
    BY <2>1, <2>2, <2>3, OneOfBytes, Zenon
<1> QED
  BY <1>2, <1>4, PartInjective DEF Fields

(* Two lists of parts whose first two parts have the same lengths.         *)
LEMMA SecondPart ==
    ASSUME NEW X, NEW p \in Seq(Seq(X)), NEW q \in Seq(Seq(X)), Len(p) > 1, Len(q) > 1,
           Len(p[1]) = Len(q[1]), Len(p[2]) = Len(q[2]),
           NEW r \in Seq(X), NEW s \in Seq(X),
           FlattenSeq(p) \o r = FlattenSeq(q) \o s
    PROVE  p[2] = q[2]
<1>1. ASSUME NEW u \in Seq(Seq(X)), Len(u) > 1, NEW t \in Seq(X)
      PROVE  \A j \in 1 .. Len(u[2]) : (FlattenSeq(u) \o t)[Len(u[1]) + j] = u[2][j]
  <2> DEFINE n == Len(u)
             a == Len(u[1])
             b == Len(u[2])
  <2>1. PICK f : f \in [1 .. n -> Seq(X)] /\ Steps(u, f)
    <3>1. Len(u) > 0
      BY <1>1, LenProperties
    <3> QED
      BY <3>1, FlattenSteps, Zenon
  <2>2. n \in Nat /\ n > 1 /\ \A i \in 1 .. n : u[i] \in Seq(X)
    BY <1>1, LenProperties, ElementOfSeq
  <2>3. u[1] \in Seq(X) /\ u[2] \in Seq(X) /\ a \in Nat /\ b \in Nat
    <3>1. u[1] \in Seq(X) /\ u[2] \in Seq(X)
      BY <2>2
    <3> QED
      BY <3>1, LenProperties
  <2>4. /\ \A i \in 1 .. n : f[i] \in Seq(X)
        /\ f[2] = u[1] \o u[2]
        /\ \A i \in 1 .. n - 1 : f[i + 1] = f[i] \o u[i + 1]
        /\ FlattenSeq(u) = f[n]
    <3>1. 1 \in 1 .. n - 1 /\ 1 + 1 = 2
      BY <2>2
    <3>2. f[1 + 1] = f[1] \o u[1 + 1]
      BY <2>1, <3>1 DEF Steps
    <3> QED
      BY <2>1, <3>1, <3>2 DEF Steps
  <2> HIDE DEF n, a, b
  <2> DEFINE Holds(l) == Len(l) >= a + b /\ \A j \in 1 .. b : l[a + j] = u[2][j]
  <2>5. ASSUME NEW l \in Seq(X), NEW m \in Seq(X), Holds(l)
        PROVE  Holds(l \o m)
    <3>1. Len(l) \in Nat /\ Len(m) \in Nat /\ Len(l \o m) = Len(l) + Len(m)
      BY LenProperties, ConcatProperties
    <3>0. Len(l) >= a + b /\ a \in Nat /\ b \in Nat
      BY <2>3, <2>5
    <3>2. ASSUME NEW j \in 1 .. b PROVE (l \o m)[a + j] = l[a + j]
      <4>1. a + j \in 1 .. Len(l) + Len(m) /\ a + j <= Len(l)
        BY <3>0, <3>1
      <4> QED
        BY <4>1, ConcatProperties
    <3>3. \A j \in 1 .. b : (l \o m)[a + j] = u[2][j]
      BY <2>5, <3>2
    <3>4. Len(l \o m) >= a + b
      BY <3>0, <3>1
    <3> QED
      BY <3>3, <3>4
  <2>6. Holds(f[2])
    <3>1. Len(f[2]) = a + b
      BY <2>3, <2>4, ConcatProperties DEF a, b
    <3>2. ASSUME NEW j \in 1 .. b PROVE f[2][a + j] = u[2][j]
      <4> DEFINE v == u[1]
                 w == u[2]
      <4>1. /\ v \in Seq(X) /\ w \in Seq(X) /\ a = Len(v) /\ b = Len(w)
            /\ f[2] = v \o w /\ a \in Nat /\ b \in Nat
        BY <2>3, <2>4 DEF a, b
      <4> HIDE DEF v, w
      <4>2. a + j \in 1 .. Len(v) + Len(w) /\ ~ (a + j <= Len(v)) /\ (a + j) - Len(v) = j
        <5>1. a \in Nat /\ b \in Nat /\ j \in 1 .. b
          BY <4>1
        <5>2. a + j \in 1 .. a + b /\ ~ (a + j <= a) /\ (a + j) - a = j
          BY <5>1
        <5> QED
          BY <4>1, <5>2
      <4>3. (v \o w)[a + j] = w[j]
        BY <4>1, <4>2, ConcatProperties
      <4> QED
        BY <4>1, <4>3 DEF w
    <3> QED
      BY <2>3, <3>1, <3>2
  <2> HIDE DEF Holds
  <2> DEFINE good == {m \in Nat : 2 + m <= n => Holds(f[2 + m])}
  <2>7. 0 \in good
    BY <2>6
  <2>8. ASSUME NEW m \in good PROVE m + 1 \in good
    <3>1. SUFFICES ASSUME 2 + (m + 1) <= n PROVE Holds(f[2 + (m + 1)])
      OBVIOUS
    <3>2. 2 + m \in 1 .. n - 1 /\ 2 + m \in 1 .. n /\ (2 + m) + 1 = 2 + (m + 1)
          /\ (2 + m) + 1 \in 1 .. n /\ Holds(f[2 + m])
      BY <2>2, <3>1
    <3>3. f[(2 + m) + 1] = f[2 + m] \o u[(2 + m) + 1]
      BY <2>4, <3>2
    <3> DEFINE l == f[2 + m]
               part == u[(2 + m) + 1]
    <3>4. l \in Seq(X) /\ part \in Seq(X) /\ Holds(l)
      BY <2>2, <2>4, <3>2
    <3> HIDE DEF l, part
    <3>5. Holds(l \o part)
      BY <2>5, <3>4
    <3> QED
      BY <3>2, <3>3, <3>5 DEF l, part
  <2>9. good \in SUBSET Nat
    OBVIOUS
  <2> HIDE DEF good
  <2>10. good = Nat
    BY <2>7, <2>8, <2>9, Induct
  <2>11. Holds(f[n])
    <3>1. n - 2 \in good /\ 2 + (n - 2) = n /\ n <= n
      BY <2>2, <2>10
    <3> QED
      BY <3>1 DEF good
  <2>12. f[n] \in Seq(X)
    BY <2>2, <2>4
  <2>13. Holds(FlattenSeq(u) \o t)
    BY <2>4, <2>5, <2>11, <2>12
  <2> QED
    BY <2>13 DEF Holds, a, b
<1>2. p[2] \in Seq(X) /\ q[2] \in Seq(X)
  BY LenProperties, ElementOfSeq
<1>3. \A j \in 1 .. Len(p[2]) : p[2][j] = q[2][j]
  <2> DEFINE left == FlattenSeq(p) \o r
             right == FlattenSeq(q) \o s
  <2>1. \A j \in 1 .. Len(p[2]) : left[Len(p[1]) + j] = p[2][j]
    BY <1>1
  <2>2. \A j \in 1 .. Len(q[2]) : right[Len(q[1]) + j] = q[2][j]
    BY <1>1
  <2>3. left = right
    OBVIOUS
  <2> HIDE DEF left, right
  <2> QED
    BY <2>1, <2>2, <2>3
<1> QED
  BY <1>2, <1>3, SeqEqual

(* The names in HashedNew, HashedCancel and HashedDetail. *)
NewNames ==
    {"type", "sequence", "purchaseId", "timestamp", "waiting", "totalAmount", "cashAmount",
     "loyalty", "currency", "shopId", "userAccount", "userPhoneHash", "sender", "signer"}

CancelNames == {"type", "sequence", "purchaseId", "timestamp", "waiting", "sender", "signer"}

DetailNames == {"productId", "amount", "providePercent"}

(* HashedNew has these names, none of them twice. *)
LEMMA NamesFacts ==
    /\ DOMAIN HashedNew = 1 .. 14 /\ Len(HashedNew) = 14
    /\ {HashedNew[i] : i \in DOMAIN HashedNew} = NewNames
    /\ HashedNew[1] = "type" /\ HashedNew[2] = "sequence"
    /\ \A i, j \in 1 .. 14 : HashedNew[i] = HashedNew[j] => i = j
<1>1. /\ DOMAIN HashedNew = 1 .. 14 /\ Len(HashedNew) = 14
      /\ HashedNew[1] = "type" /\ HashedNew[2] = "sequence"
  BY DEF HashedNew
<1>2. /\ HashedNew[3] = "purchaseId" /\ HashedNew[4] = "timestamp" /\ HashedNew[5] = "waiting"
      /\ HashedNew[6] = "totalAmount" /\ HashedNew[7] = "cashAmount"
      /\ HashedNew[8] = "loyalty" /\ HashedNew[9] = "currency" /\ HashedNew[10] = "shopId"
      /\ HashedNew[11] = "userAccount" /\ HashedNew[12] = "userPhoneHash"
      /\ HashedNew[13] = "sender" /\ HashedNew[14] = "signer"
  BY DEF HashedNew
<1>3. \A i \in 1 .. 14 : i \in {1, 2, 3, 4, 5, 6, 7, 8, 9, 10, 11, 12, 13, 14}
  OBVIOUS
<1>4. \A i \in 1 .. 14 : HashedNew[i] \in NewNames
  BY <1>1, <1>2, <1>3 DEF NewNames
<1>5. \A name \in NewNames : \E i \in 1 .. 14 : HashedNew[i] = name
  BY <1>1, <1>2 DEF NewNames
<1>6. \A i, j \in 1 .. 14 : HashedNew[i] = HashedNew[j] => i = j
  BY <1>1, <1>2, <1>3
<1> QED
  BY <1>1, <1>4, <1>5, <1>6

(* The same for HashedCancel, *)
LEMMA CancelNamesFacts ==
    /\ DOMAIN HashedCancel = 1 .. 7 /\ Len(HashedCancel) = 7
    /\ {HashedCancel[i] : i \in DOMAIN HashedCancel} = CancelNames
    /\ HashedCancel[1] = "type" /\ HashedCancel[2] = "sequence"
    /\ \A i, j \in 1 .. 7 : HashedCancel[i] = HashedCancel[j] => i = j
<1>1. /\ DOMAIN HashedCancel = 1 .. 7 /\ Len(HashedCancel) = 7
      /\ HashedCancel[1] = "type" /\ HashedCancel[2] = "sequence"
      /\ HashedCancel[3] = "purchaseId" /\ HashedCancel[4] = "timestamp"
      /\ HashedCancel[5] = "waiting" /\ HashedCancel[6] = "sender" /\ HashedCancel[7] = "signer"
  BY DEF HashedCancel
<1>2. \A i \in 1 .. 7 : i \in {1, 2, 3, 4, 5, 6, 7}
  OBVIOUS
<1>3. \A i \in 1 .. 7 : HashedCancel[i] \in CancelNames
  BY <1>1, <1>2 DEF CancelNames
<1>4. \A name \in CancelNames : \E i \in 1 .. 7 : HashedCancel[i] = name
  BY <1>1 DEF CancelNames
<1>5. \A i, j \in 1 .. 7 : HashedCancel[i] = HashedCancel[j] => i = j
  BY <1>1, <1>2
<1> QED
  BY <1>1, <1>3, <1>4, <1>5

(* and for HashedDetail. *)
LEMMA DetailNamesFacts ==
    /\ DOMAIN HashedDetail = 1 .. 3 /\ Len(HashedDetail) = 3
    /\ {HashedDetail[i] : i \in DOMAIN HashedDetail} = DetailNames
    /\ \A i, j \in 1 .. 3 : HashedDetail[i] = HashedDetail[j] => i = j
<1>1. /\ DOMAIN HashedDetail = 1 .. 3 /\ Len(HashedDetail) = 3
      /\ HashedDetail[1] = "productId" /\ HashedDetail[2] = "amount"
      /\ HashedDetail[3] = "providePercent"
  BY DEF HashedDetail
<1>2. \A i \in 1 .. 3 : i \in {1, 2, 3}
  OBVIOUS
<1> QED
  BY <1>1, <1>2 DEF DetailNames

(* A detail that has been hashed. *)
HashedDetails ==
    [productId : Texts \cup DOMAIN Raw, amount : BigNumber, providePercent : BigNumber]

(* A transaction that has been hashed. *)
Typed(tx) ==
    /\ tx = [f \in DOMAIN tx |-> tx[f]]
    /\ \/ DOMAIN tx = NewNames \cup {"details"} \cup SignatureFields
          /\ tx.type = TypeNew /\ tx.details \in Seq(HashedDetails)
       \/ DOMAIN tx = CancelNames \cup {"signature"} /\ tx.type = TypeCancel
    /\ \A f \in DOMAIN tx \ ({"details"} \cup SignatureFields) : Fits(f, tx[f])

(* The fields of a transaction fit what hashParts takes. *)
LEMMA TypedFields ==
    ASSUME NEW tx, Typed(tx)
    PROVE  /\ tx.type = TypeNew => /\ DOMAIN tx = NewNames \cup {"details"} \cup SignatureFields
                                   /\ tx.details \in Seq(HashedDetails)
                                   /\ Fields(HashedNew, tx)
           /\ tx.type # TypeNew => /\ DOMAIN tx = CancelNames \cup {"signature"}
                                   /\ tx.type = TypeCancel
                                   /\ Fields(HashedCancel, tx)
<1>1. TypeNew # TypeCancel
  BY DEF TypeNew, TypeCancel
<1>2. CASE tx.type = TypeNew
  <2>1. /\ DOMAIN tx = NewNames \cup {"details"} \cup SignatureFields
        /\ tx.details \in Seq(HashedDetails)
    BY <1>1, <1>2 DEF Typed
  <2>2. \A f \in NewNames : f \in DOMAIN tx \ ({"details"} \cup SignatureFields)
    BY <2>1 DEF NewNames, SignatureFields
  <2>3. \A f \in NewNames : Fits(f, tx[f])
    BY <2>2 DEF Typed
  <2>4. \A i \in 1 .. Len(HashedNew) : HashedNew[i] \in NewNames
    BY NamesFacts
  <2> QED
    BY <1>2, <2>1, <2>3, <2>4, NamesFacts DEF Fields
<1>3. CASE tx.type # TypeNew
  <2>1. DOMAIN tx = CancelNames \cup {"signature"} /\ tx.type = TypeCancel
    BY <1>1, <1>3 DEF Typed
  <2>2. \A f \in CancelNames : f \in DOMAIN tx \ ({"details"} \cup SignatureFields)
    BY <2>1 DEF CancelNames, SignatureFields
  <2>3. \A f \in CancelNames : Fits(f, tx[f])
    BY <2>2 DEF Typed
  <2>4. \A i \in 1 .. Len(HashedCancel) : HashedCancel[i] \in CancelNames
    BY CancelNamesFacts
  <2> QED
    BY <1>3, <2>1, <2>3, <2>4, CancelNamesFacts DEF Fields
<1> QED
  BY <1>2, <1>3

(* What is hashed of each detail. *)
DetailParts(details) == [i \in DOMAIN details |-> hashParts(details[i], HashedDetail)]

(* The fields of a detail fit what hashParts takes. *)
LEMMA DetailFields ==
    ASSUME NEW detail \in HashedDetails
    PROVE  Fields(HashedDetail, detail)
<1>1. \A f \in DetailNames : Fits(f, detail[f])
  BY DEF HashedDetails, DetailNames, Fits, NumberFields, AmountFields
<1>2. \A i \in 1 .. Len(HashedDetail) : HashedDetail[i] \in DetailNames
  BY DetailNamesFacts
<1> QED
  BY <1>1, <1>2, DetailNamesFacts DEF Fields

(* hashDetails writes the number of details and their parts. *)
LEMMA DetailsFacts ==
    ASSUME NEW details \in Seq(HashedDetails)
    PROVE  /\ DetailParts(details) \in Seq(Bytes) /\ Len(DetailParts(details)) = Len(details)
           /\ hashNumber(Len(details)) \in Bytes
           /\ hashDetails(details) = hashNumber(Len(details)) \o FlattenSeq(DetailParts(details))
           /\ FlattenSeq(DetailParts(details)) \in Bytes
           /\ hashDetails(details) \in Bytes
<1> DEFINE n == Len(details)
           parts == [i \in 1 .. n |-> hashParts(details[i], HashedDetail)]
<1>1. n \in Nat /\ DOMAIN details = 1 .. n /\ \A i \in 1 .. n : details[i] \in HashedDetails
  BY LenProperties, ElementOfSeq
<1>2. \A i \in 1 .. n : hashParts(details[i], HashedDetail) \in Bytes
  BY <1>1, DetailFields, PartsFacts
<1> HIDE DEF n
<1>3. parts \in Seq(Bytes) /\ Len(parts) = n
  BY <1>1, <1>2
<1>4. DetailParts(details) = parts
  BY <1>1, Zenon DEF DetailParts
<1>5. FlattenSeq(DetailParts(details)) \in Bytes
  <2>1. DetailParts(details) \in Seq(Seq(0 .. Byte - 1))
    BY <1>3, <1>4 DEF Bytes
  <2> QED
    BY <2>1, FlattenType DEF Bytes
<1>6. hashNumber(n) \in Bytes
  BY <1>1, LittleEndianFacts, SerializationAssumption DEF hashNumber
<1>7. hashDetails(details) = hashNumber(n) \o FlattenSeq(DetailParts(details))
  BY Zenon DEF hashDetails, DetailParts, n
<1>8. hashNumber(n) \o FlattenSeq(DetailParts(details)) \in Bytes
  BY <1>5, <1>6, ConcatProperties DEF Bytes
<1> HIDE DEF parts
<1> QED
  BY <1>3, <1>4, <1>5, <1>6, <1>7, <1>8 DEF n

(* computeHash writes bytes. *)
LEMMA HashFacts ==
    ASSUME NEW tx, Typed(tx)
    PROVE  computeHash(tx) \in Bytes
<1>1. CASE tx.type = TypeNew
  <2>1. hashParts(tx, HashedNew) \in Bytes /\ hashDetails(tx.details) \in Bytes
    BY <1>1, TypedFields, PartsFacts, DetailsFacts
  <2>2. hashParts(tx, HashedNew) \o hashDetails(tx.details) \in Bytes
    BY <2>1, ConcatProperties DEF Bytes
  <2> QED
    BY <1>1, <2>2 DEF computeHash
<1>2. CASE tx.type # TypeNew
  BY <1>2, TypedFields, PartsFacts DEF computeHash
<1> QED
  BY <1>1, <1>2

(* The fields computeHash writes first, and what follows them. *)
Leading(tx) == IF tx.type = TypeNew THEN HashedNew ELSE HashedCancel

Trailing(tx) == IF tx.type = TypeNew THEN hashDetails(tx.details) ELSE <<>>

(* computeHash writes the fields and what follows. *)
LEMMA HashSplit ==
    ASSUME NEW tx, Typed(tx)
    PROVE  /\ computeHash(tx) = hashParts(tx, Leading(tx)) \o Trailing(tx)
           /\ Fields(Leading(tx), tx) /\ Trailing(tx) \in Bytes
           /\ Len(Leading(tx)) \in Nat /\ Len(Leading(tx)) > 1
           /\ Leading(tx)[1] = "type" /\ Leading(tx)[2] = "sequence"
<1>1. CASE tx.type = TypeNew
  <2>1. Leading(tx) = HashedNew /\ Trailing(tx) = hashDetails(tx.details)
    BY <1>1, Zenon DEF Leading, Trailing
  <2>2. computeHash(tx) = hashParts(tx, HashedNew) \o hashDetails(tx.details)
    BY <1>1, Zenon DEF computeHash
  <2>3. Fields(HashedNew, tx) /\ hashDetails(tx.details) \in Bytes
    BY <1>1, TypedFields, DetailsFacts
  <2> QED
    BY <2>1, <2>2, <2>3, NamesFacts
<1>2. CASE tx.type # TypeNew
  <2>1. Fields(HashedCancel, tx) /\ hashParts(tx, HashedCancel) \in Bytes
    BY <1>2, TypedFields, PartsFacts
  <2>2. hashParts(tx, HashedCancel) \o <<>> = hashParts(tx, HashedCancel) /\ <<>> \in Bytes
    BY <2>1, ConcatEmptySeq, EmptySeq DEF Bytes
  <2>3. Leading(tx) = HashedCancel /\ Trailing(tx) = <<>>
    BY <1>2, Zenon DEF Leading, Trailing
  <2>4. computeHash(tx) = hashParts(tx, HashedCancel)
    BY <1>2, Zenon DEF computeHash
  <2> QED
    BY <2>1, <2>2, <2>3, <2>4, CancelNamesFacts
<1> QED
  BY <1>1, <1>2

(* Transactions with one hash have one sequence, also of different types. *)
LEMMA SequenceHashed ==
    ASSUME NEW a, NEW b, Typed(a), Typed(b), computeHash(a) = computeHash(b)
    PROVE  a.sequence = b.sequence
<1> DEFINE p == Parts(a, Leading(a))
           q == Parts(b, Leading(b))
<1>1. ASSUME NEW tx, Typed(tx)
      PROVE  LET u == Parts(tx, Leading(tx))
             IN /\ u \in Seq(Bytes) /\ Len(u) > 1
                /\ u[1] = hashNumber(tx.type) /\ u[2] = hashNumber(tx.sequence)
                /\ Len(u[1]) = Wide /\ Len(u[2]) = Wide
                /\ tx.sequence \in 0 .. Span[Wide] - 1
                /\ computeHash(tx) = FlattenSeq(u) \o Trailing(tx)
  <2> DEFINE names == Leading(tx)
             u == Parts(tx, names)
  <2>1. /\ computeHash(tx) = hashParts(tx, names) \o Trailing(tx)
        /\ Fields(names, tx) /\ Len(names) \in Nat /\ Len(names) > 1
        /\ names[1] = "type" /\ names[2] = "sequence"
    BY <1>1, HashSplit
  <2> HIDE DEF names
  <2>2. u \in Seq(Bytes) /\ Len(u) > 1 /\ computeHash(tx) = FlattenSeq(u) \o Trailing(tx)
    BY <2>1, PartsFacts
  <2>3. 1 \in DOMAIN names /\ 2 \in DOMAIN names
    BY <2>1 DEF Fields
  <2>4. u[1] = hashNumber(tx.type) /\ u[2] = hashNumber(tx.sequence)
    BY <2>1, <2>3 DEF Parts, hashPart, NumberFields
  <2>5. Writes(tx.type) /\ Writes(tx.sequence)
    BY <2>1 DEF Fields, Fits, NumberFields
  <2>6. tx.type \in Nat /\ tx.sequence \in Nat /\ Wide \in Nat
    BY <2>5, SerializationAssumption, SpanFacts DEF Writes
  <2>7. Len(u[1]) = Wide /\ Len(u[2]) = Wide
    BY <2>4, <2>6, LittleEndianFacts DEF hashNumber
  <2> QED
    BY <2>2, <2>4, <2>5, <2>7 DEF names, Writes
<1>2. /\ p \in Seq(Bytes) /\ Len(p) > 1 /\ p[2] = hashNumber(a.sequence)
      /\ Len(p[1]) = Wide /\ Len(p[2]) = Wide /\ a.sequence \in 0 .. Span[Wide] - 1
      /\ computeHash(a) = FlattenSeq(p) \o Trailing(a)
  BY <1>1
<1>3. /\ q \in Seq(Bytes) /\ Len(q) > 1 /\ q[2] = hashNumber(b.sequence)
      /\ Len(q[1]) = Wide /\ Len(q[2]) = Wide /\ b.sequence \in 0 .. Span[Wide] - 1
      /\ computeHash(b) = FlattenSeq(q) \o Trailing(b)
  BY <1>1
<1>4. Trailing(a) \in Bytes /\ Trailing(b) \in Bytes
  BY HashSplit
<1> HIDE DEF p, q
<1>5. p[2] = q[2]
  <2> DEFINE X == 0 .. Byte - 1
             r == Trailing(a)
             s == Trailing(b)
  <2>1. /\ p \in Seq(Seq(X)) /\ q \in Seq(Seq(X)) /\ r \in Seq(X) /\ s \in Seq(X)
        /\ Len(p) > 1 /\ Len(q) > 1 /\ Len(p[1]) = Len(q[1]) /\ Len(p[2]) = Len(q[2])
        /\ FlattenSeq(p) \o r = FlattenSeq(q) \o s
    BY <1>2, <1>3, <1>4 DEF Bytes
  <2> HIDE DEF X, r, s
  <2> QED
    BY <2>1, SecondPart
<1> QED
  BY <1>2, <1>3, <1>5, LittleEndianInjective, SerializationAssumption DEF hashNumber

(* Two transactions that differ in one field at most and have the same hash.                   *)
LEMMA FieldHashed ==
    ASSUME NEW a, NEW b, Typed(a), Typed(b), a.type = b.type,
           a.type = TypeNew => a.details = b.details,
           NEW field \in {Leading(a)[i] : i \in DOMAIN Leading(a)},
           \A f \in {Leading(a)[i] : i \in DOMAIN Leading(a)} : f # field => a[f] = b[f],
           field \in AmountFields => a[field] >= 0 \/ b[field] >= 0,
           computeHash(a) = computeHash(b)
    PROVE  a[field] = b[field]
<1> DEFINE names == Leading(a)
<1>1. names = Leading(b) /\ Trailing(a) = Trailing(b)
  BY DEF Leading, Trailing
<1>2. /\ computeHash(a) = hashParts(a, names) \o Trailing(a)
      /\ computeHash(b) = hashParts(b, names) \o Trailing(a)
      /\ Fields(names, a) /\ Fields(names, b) /\ Trailing(a) \in Bytes
  BY <1>1, HashSplit
<1>3. hashParts(a, names) \in Bytes /\ hashParts(b, names) \in Bytes
  BY <1>2, PartsFacts
<1>4. \A i, j \in DOMAIN names : names[i] = names[j] => i = j
  BY NamesFacts, CancelNamesFacts DEF Leading
<1>5. PICK k \in DOMAIN names : names[k] = field
  OBVIOUS
<1>6. \A i \in 1 .. Len(names) : i # k => a[names[i]] = b[names[i]]
  BY <1>2, <1>4, <1>5 DEF Fields
<1> HIDE DEF names
<1>7. \A x, y, z \in Bytes : x \o z = y \o z => x = y
  BY ConcatSimplifications, Zenon DEF Bytes
<1>8. hashParts(a, names) = hashParts(b, names)
  BY <1>2, <1>3, <1>7, Zenon
<1>9. k \in 1 .. Len(names)
  BY <1>2 DEF Fields
<1>10. names[k] \in AmountFields => a[names[k]] >= 0 \/ b[names[k]] >= 0
  BY <1>5
<1>11. names[k] # "productId"
  <2>1. "productId" \notin NewNames /\ "productId" \notin CancelNames
    BY DEF NewNames, CancelNames
  <2> QED
    BY <1>5, <2>1, NamesFacts, CancelNamesFacts DEF names, Leading
<1>12. a[names[k]] = b[names[k]]
  BY <1>2, <1>6, <1>8, <1>9, <1>10, <1>11, OneField
<1> QED
  BY <1>5, <1>12

(* Lists of details that differ in one place are hashed differently there. *)
LEMMA DetailsHashed ==
    ASSUME NEW c \in Seq(HashedDetails), NEW d \in Seq(HashedDetails), Len(c) = Len(d),
           NEW k \in 1 .. Len(c),
           \A i \in 1 .. Len(c) : i # k => c[i] = d[i], hashDetails(c) = hashDetails(d)
    PROVE  hashParts(c[k], HashedDetail) = hashParts(d[k], HashedDetail)
<1> DEFINE n == Len(c)
           p == DetailParts(c)
           q == DetailParts(d)
<1>1. n \in Nat /\ DOMAIN c = 1 .. n /\ DOMAIN d = 1 .. n
  BY LenProperties
<1>2. /\ p \in Seq(Bytes) /\ q \in Seq(Bytes) /\ Len(p) = n /\ Len(q) = n
      /\ hashNumber(n) \in Bytes /\ FlattenSeq(p) \in Bytes /\ FlattenSeq(q) \in Bytes
      /\ hashNumber(n) \o FlattenSeq(p) = hashNumber(n) \o FlattenSeq(q)
  BY DetailsFacts
<1>3. \A x, y, z \in Bytes : x \o y = x \o z => y = z
  BY ConcatSimplifications, Zenon DEF Bytes
<1> HIDE DEF n
<1>4. FlattenSeq(p) = FlattenSeq(q)
  <2> HIDE DEF p, q
  <2> QED
    BY <1>2, <1>3, Zenon
<1>5. \A i \in 1 .. n : /\ p[i] = hashParts(c[i], HashedDetail)
                        /\ q[i] = hashParts(d[i], HashedDetail)
  BY <1>1 DEF DetailParts
<1> HIDE DEF p, q
<1>6. p[k] = q[k]
  <2>1. k \in 1 .. Len(p) /\ \A i \in 1 .. Len(p) : i # k => p[i] = q[i]
    BY <1>2, <1>5 DEF n
  <2>2. p \in Seq(Seq(0 .. Byte - 1)) /\ q \in Seq(Seq(0 .. Byte - 1)) /\ Len(p) = Len(q)
    BY <1>2 DEF Bytes
  <2> QED
    BY <1>4, <2>1, <2>2, OnePart
<1> QED
  BY <1>5, <1>6 DEF n

(* The same for one field of one detail. *)
LEMMA DetailHashed ==
    ASSUME NEW a, NEW b, Typed(a), Typed(b), a.type = TypeNew, b.type = TypeNew,
           \A f \in NewNames : a[f] = b[f],
           Len(a.details) = Len(b.details), NEW k \in DOMAIN a.details,
           \A i \in DOMAIN a.details : i # k => a.details[i] = b.details[i],
           NEW field \in DetailNames,
           \A f \in DetailNames : f # field => a.details[k][f] = b.details[k][f],
           field \in AmountFields => a.details[k][field] >= 0 \/ b.details[k][field] >= 0,
           a.details[k].productId \in Texts, b.details[k].productId \in Texts,
           computeHash(a) = computeHash(b)
    PROVE  a.details[k][field] = b.details[k][field]
<1> DEFINE n == Len(a.details)
<1>1. /\ a.details \in Seq(HashedDetails) /\ b.details \in Seq(HashedDetails)
      /\ Fields(HashedNew, a) /\ Fields(HashedNew, b)
  BY TypedFields
<1>2. n \in Nat /\ DOMAIN a.details = 1 .. n /\ DOMAIN b.details = 1 .. n
  BY <1>1, LenProperties
<1>3. hashParts(a, HashedNew) = hashParts(b, HashedNew) /\ hashParts(a, HashedNew) \in Bytes
  <2>1. Parts(a, HashedNew) = Parts(b, HashedNew)
    <3>1. \A i \in DOMAIN HashedNew : a[HashedNew[i]] = b[HashedNew[i]]
      BY NamesFacts
    <3>2. \A i \in DOMAIN HashedNew : hashPart(a, HashedNew[i]) = hashPart(b, HashedNew[i])
      BY <3>1 DEF hashPart
    <3> QED
      BY <3>2 DEF Parts
  <2> QED
    BY <1>1, <2>1, PartsFacts
<1>4. hashDetails(a.details) \in Bytes /\ hashDetails(b.details) \in Bytes
  BY <1>1, DetailsFacts
<1>5. \A x, y, z \in Bytes : x \o y = x \o z => y = z
  BY ConcatSimplifications, Zenon DEF Bytes
<1>6. hashDetails(a.details) = hashDetails(b.details)
  <2>1. /\ computeHash(a) = hashParts(a, HashedNew) \o hashDetails(a.details)
        /\ computeHash(b) = hashParts(a, HashedNew) \o hashDetails(b.details)
    BY <1>3, Zenon DEF computeHash
  <2> QED
    BY <1>3, <1>4, <1>5, <2>1, Zenon
<1>10. hashParts(a.details[k], HashedDetail) = hashParts(b.details[k], HashedDetail)
  BY <1>1, <1>2, <1>6, DetailsHashed
<1> DEFINE c == a.details[k]
           d == b.details[k]
<1>11. c \in HashedDetails /\ d \in HashedDetails
  BY <1>1, <1>2, ElementOfSeq
<1>12. hashParts(c, HashedDetail) = hashParts(d, HashedDetail)
  BY <1>10
<1>13. field \in AmountFields => c[field] >= 0 \/ d[field] >= 0
  OBVIOUS
<1>14. (\A f \in DetailNames : f # field => c[f] = d[f])
       /\ c["productId"] \in Texts /\ d["productId"] \in Texts
  OBVIOUS
<1> HIDE DEF c, d
<1>15. PICK l \in 1 .. 3 : HashedDetail[l] = field
  BY DetailNamesFacts
<1>16. \A i \in 1 .. 3 : i # l => c[HashedDetail[i]] = d[HashedDetail[i]]
  BY <1>14, <1>15, DetailNamesFacts
<1>17. c[HashedDetail[l]] = d[HashedDetail[l]]
  <2>1. l \in 1 .. Len(HashedDetail) /\ Len(HashedDetail) = 3
    BY DetailNamesFacts
  <2>2. Fields(HashedDetail, c) /\ Fields(HashedDetail, d)
    BY <1>11, DetailFields
  <2> DEFINE name == HashedDetail[l]
  <2>3. /\ name \in AmountFields => c[name] >= 0 \/ d[name] >= 0
        /\ name = "productId" => c[name] \in Texts /\ d[name] \in Texts
    BY <1>13, <1>14, <1>15
  <2>4. \A i \in 1 .. Len(HashedDetail) : i # l => c[HashedDetail[i]] = d[HashedDetail[i]]
    BY <1>16, <2>1
  <2> QED
    BY <1>12, <2>1, <2>2, <2>3, <2>4, OneField
<1> QED
  BY <1>15, <1>17 DEF c, d

----------------------------------------------------------------------------
(* JSON and back. *)

(* What is written as a text. *)
IsText(f, v) ==
    f \notin NumberFields \cup AmountFields \cup SignatureFields \cup {"type"} /\ v \notin OtherIds

(* A field of a JSON object can be read back. *)
LEMMA FieldFacts ==
    ASSUME NEW f, NEW v
    PROVE  /\ FieldValue(FieldJSON(f, v)) = v
           /\ DOMAIN FieldJSON(f, v) = {"text"} <=> IsText(f, v)
           /\ IsText(f, v) => FieldJSON(f, v) = [text |-> v] /\ FieldJSON(f, v).text = v
<1>1. CASE f \in NumberFields \cup AmountFields
  <2>1. FieldJSON(f, v) = [digits |-> v] /\ ~ IsText(f, v)
    BY <1>1 DEF FieldJSON, IsText
  <2>2. DOMAIN [digits |-> v] = {"digits"} /\ [digits |-> v]["digits"] = v
    OBVIOUS
  <2> QED
    BY <2>1, <2>2 DEF FieldValue
<1>2. CASE f \notin NumberFields \cup AmountFields /\ f \in SignatureFields
  <2>1. FieldJSON(f, v) = [hex |-> v] /\ ~ IsText(f, v)
    BY <1>2 DEF FieldJSON, IsText
  <2>2. DOMAIN [hex |-> v] = {"hex"} /\ [hex |-> v]["hex"] = v
    OBVIOUS
  <2> QED
    BY <2>1, <2>2 DEF FieldValue
<1>3. CASE f \notin NumberFields \cup AmountFields \cup SignatureFields /\ f = "type"
  <2>1. FieldJSON(f, v) = [number |-> v] /\ ~ IsText(f, v)
    BY <1>3 DEF FieldJSON, IsText
  <2>2. DOMAIN [number |-> v] = {"number"} /\ [number |-> v]["number"] = v
    OBVIOUS
  <2> QED
    BY <2>1, <2>2 DEF FieldValue
<1>4. CASE f \notin NumberFields \cup AmountFields \cup SignatureFields \cup {"type"}
           /\ v \in OtherIds
  <2>1. FieldJSON(f, v) = [other |-> v] /\ ~ IsText(f, v)
    BY <1>4 DEF FieldJSON, IsText
  <2>2. DOMAIN [other |-> v] = {"other"} /\ [other |-> v]["other"] = v
    OBVIOUS
  <2> QED
    BY <2>1, <2>2 DEF FieldValue
<1>5. CASE IsText(f, v)
  <2>1. FieldJSON(f, v) = [text |-> v]
    BY <1>5 DEF FieldJSON, IsText
  <2>2. DOMAIN [text |-> v] = {"text"} /\ [text |-> v]["text"] = v
    OBVIOUS
  <2> QED
    BY <1>5, <2>1, <2>2 DEF FieldValue
<1> QED
  BY <1>1, <1>2, <1>3, <1>4, <1>5 DEF IsText

(* What is left of a detail that selectTxByLength has read. *)
CleanedDetail(detail) ==
    [f \in DOMAIN detail |-> IF IsText(f, detail[f]) THEN Reread[detail[f]] ELSE detail[f]]

(* What is left of a transaction that selectTxByLength has read. *)
Cleaned(tx) ==
    [f \in DOMAIN tx |->
        IF f = "details" THEN [i \in DOMAIN tx.details |-> CleanedDetail(tx.details[i])]
        ELSE IF IsText(f, tx[f]) THEN Reread[tx[f]] ELSE tx[f]]

(* A text that has been read is a text. *)
LEMMA RereadIsText ==
    ASSUME NEW f, NEW v, IsText(f, v), Fits(f, v)
    PROVE  v \in Texts /\ Reread[v] \in Texts /\ IsText(f, Reread[v])
<1>1. v \in Texts
  BY SerializationAssumption DEF IsText, Fits
<1>2. Reread[v] \in Texts
  BY <1>1, ContentAssumption
<1> QED
  BY <1>1, <1>2, SerializationAssumption DEF IsText

(* The members of the JSON object of a transaction. *)
LEMMA MembersFacts ==
    ASSUME NEW tx
    PROVE  /\ DOMAIN toJSON(tx).members = DOMAIN tx
           /\ \A f \in DOMAIN tx : f # "details" => toJSON(tx).members[f] = FieldJSON(f, tx[f])
           /\ "details" \in DOMAIN tx =>
                  /\ toJSON(tx).members.details =
                         [elements |-> [i \in DOMAIN tx.details |-> detailJSON(tx.details[i])]]
                  /\ DOMAIN toJSON(tx).members.details.elements = DOMAIN tx.details
                  /\ \A i \in DOMAIN tx.details :
                         toJSON(tx).members.details.elements[i] = detailJSON(tx.details[i])
<1> DEFINE members ==
            [field \in DOMAIN tx |->
                IF field = "details"
                THEN [elements |-> [i \in DOMAIN tx.details |-> detailJSON(tx.details[i])]]
                ELSE FieldJSON(field, tx[field])]
<1>1. toJSON(tx) = [members |-> members]
  BY Zenon DEF toJSON
<1> HIDE DEF members
<1>2. toJSON(tx).members = members
  BY <1>1
<1> QED
  BY <1>2 DEF members

(* A detail can be read back from its JSON object, *)
LEMMA ReviveDetailFacts ==
    ASSUME NEW detail, detail = [f \in DOMAIN detail |-> detail[f]]
    PROVE  reviveDetail(detailJSON(detail)) = detail
<1> DEFINE members == [field \in DOMAIN detail |-> FieldJSON(field, detail[field])]
<1>1. detailJSON(detail) = [members |-> members]
  BY Zenon DEF detailJSON
<1> HIDE DEF members
<1>2. detailJSON(detail).members = members
  BY <1>1
<1>3. DOMAIN members = DOMAIN detail
      /\ \A f \in DOMAIN detail : FieldValue(members[f]) = detail[f]
  BY FieldFacts DEF members
<1>4. reviveDetail(detailJSON(detail)) = [f \in DOMAIN members |-> FieldValue(members[f])]
  BY <1>2 DEF reviveDetail
<1> QED
  BY <1>3, <1>4

(* and so can a transaction. *)
LEMMA RoundTrip ==
    ASSUME NEW tx, Typed(tx)
    PROVE  reviver(toJSON(tx)) = tx
<1> DEFINE json == toJSON(tx)
           back == [field \in DOMAIN json.members |->
                       IF field = "details"
                       THEN [i \in DOMAIN json.members.details.elements |->
                                reviveDetail(json.members.details.elements[i])]
                       ELSE FieldValue(json.members[field])]
<1>1. reviver(json) = back
  BY Zenon DEF reviver
<1>2. DOMAIN json.members = DOMAIN tx
  BY MembersFacts
<1>3. ASSUME NEW f \in DOMAIN tx, f # "details" PROVE back[f] = tx[f]
  <2>1. json.members[f] = FieldJSON(f, tx[f])
    BY <1>3, MembersFacts
  <2>2. FieldValue(json.members[f]) = tx[f]
    BY <2>1, FieldFacts
  <2> HIDE DEF json
  <2>3. back[f] = FieldValue(json.members[f])
    BY <1>2, <1>3
  <2> QED
    BY <2>2, <2>3, Zenon
<1>4. ASSUME "details" \in DOMAIN tx PROVE back["details"] = tx.details
  <2>1. tx.details \in Seq(HashedDetails)
    BY <1>4 DEF Typed, CancelNames
  <2>2. ASSUME NEW i \in DOMAIN tx.details
        PROVE  reviveDetail(json.members.details.elements[i]) = tx.details[i]
    <3>1. tx.details[i] \in HashedDetails
      BY <2>1, LenProperties, ElementOfSeq
    <3>2. tx.details[i] = [f \in DOMAIN tx.details[i] |-> tx.details[i][f]]
      BY <3>1 DEF HashedDetails
    <3>3. json.members.details.elements[i] = detailJSON(tx.details[i])
      BY <1>4, MembersFacts
    <3> QED
      BY <3>2, <3>3, ReviveDetailFacts
  <2>3. DOMAIN json.members.details.elements = DOMAIN tx.details
    BY <1>4, MembersFacts
  <2>4. back["details"] = [i \in DOMAIN tx.details |->
                              reviveDetail(json.members.details.elements[i])]
    BY <1>2, <1>4, <2>3
  <2>5. tx.details = [i \in DOMAIN tx.details |-> tx.details[i]]
    BY <2>1, LenProperties
  <2> HIDE DEF json, back
  <2> QED
    BY <2>2, <2>4, <2>5
<1>5. tx = [f \in DOMAIN tx |-> tx[f]]
  BY DEF Typed
<1>6. back = [f \in DOMAIN tx |-> back[f]]
  BY <1>2
<1> HIDE DEF back, json
<1> QED
  BY <1>1, <1>3, <1>4, <1>5, <1>6 DEF json

(* Taking the backslashes out of the JSON text of a detail or of a         *)
(* transaction takes them out of the texts.                                *)
LEMMA StrippedDetail ==
    ASSUME NEW detail \in HashedDetails
    PROVE  [members |-> StripTexts(detailJSON(detail).members)] = detailJSON(CleanedDetail(detail))
<1> DEFINE members == [field \in DOMAIN detail |-> FieldJSON(field, detail[field])]
           clean == CleanedDetail(detail)
           cleaned == [field \in DOMAIN clean |-> FieldJSON(field, clean[field])]
<1>1. detailJSON(detail) = [members |-> members] /\ detailJSON(clean) = [members |-> cleaned]
  BY Zenon DEF detailJSON
<1>2. DOMAIN clean = DOMAIN detail
  BY DEF CleanedDetail
<1>0. \A f \in DOMAIN detail : Fits(f, detail[f])
  BY DEF HashedDetails, Fits, NumberFields, AmountFields
<1>3. ASSUME NEW f \in DOMAIN detail
      PROVE  (IF DOMAIN members[f] = {"text"} THEN [text |-> Reread[members[f].text]]
              ELSE members[f]) = FieldJSON(f, clean[f])
  <2>1. members[f] = FieldJSON(f, detail[f])
    OBVIOUS
  <2>2. clean[f] = IF IsText(f, detail[f]) THEN Reread[detail[f]] ELSE detail[f]
    BY DEF CleanedDetail
  <2> HIDE DEF members, clean
  <2>3. CASE IsText(f, detail[f])
    <3>1. DOMAIN members[f] = {"text"} /\ members[f].text = detail[f]
      BY <2>1, <2>3, FieldFacts
    <3>2. FieldJSON(f, clean[f]) = [text |-> Reread[detail[f]]]
      BY <1>0, <2>2, <2>3, RereadIsText, FieldFacts
    <3> QED
      BY <3>1, <3>2
  <2>4. CASE ~ IsText(f, detail[f])
    BY <2>1, <2>2, <2>4, FieldFacts
  <2> QED
    BY <2>3, <2>4
<1> HIDE DEF clean
<1>4. StripTexts(members) = cleaned
  BY <1>2, <1>3 DEF StripTexts
<1> HIDE DEF members, cleaned
<1>5. detailJSON(detail).members = members
  BY <1>1
<1> QED
  BY <1>1, <1>4, <1>5 DEF clean

(* The same for a transaction. *)
LEMMA StrippedIsCleaned ==
    ASSUME NEW tx, Typed(tx)
    PROVE  Stripped(toJSON(tx)) = toJSON(Cleaned(tx))
<1> DEFINE M == toJSON(tx).members
           members == StripTexts(M)
           clean == Cleaned(tx)
           N == toJSON(clean).members
<1>1. DOMAIN clean = DOMAIN tx /\ DOMAIN N = DOMAIN tx /\ DOMAIN members = DOMAIN tx
  BY MembersFacts DEF Cleaned, StripTexts
<1>2. ASSUME NEW f \in DOMAIN tx, f # "details" PROVE members[f] = N[f]
  <2>1. M[f] = FieldJSON(f, tx[f]) /\ N[f] = FieldJSON(f, clean[f])
    BY <1>1, <1>2, MembersFacts
  <2>2. clean[f] = IF IsText(f, tx[f]) THEN Reread[tx[f]] ELSE tx[f]
    BY <1>2 DEF Cleaned
  <2>3. members[f] = IF DOMAIN M[f] = {"text"} THEN [text |-> Reread[M[f].text]] ELSE M[f]
    BY <1>1, MembersFacts DEF StripTexts
  <2> HIDE DEF members, clean, M, N
  <2>4. CASE IsText(f, tx[f])
    <3>0. f \in DOMAIN tx \ ({"details"} \cup SignatureFields)
      BY <1>2, <2>4 DEF IsText
    <3>1. DOMAIN M[f] = {"text"} /\ M[f].text = tx[f]
      BY <2>1, <2>4, FieldFacts
    <3>2. N[f] = [text |-> Reread[tx[f]]]
      BY <2>1, <2>2, <2>4, <3>0, RereadIsText, FieldFacts DEF Typed
    <3> QED
      BY <2>3, <3>1, <3>2
  <2>5. CASE ~ IsText(f, tx[f])
    BY <2>1, <2>2, <2>3, <2>5, FieldFacts
  <2> QED
    BY <2>4, <2>5
<1>3. toJSON(clean) = [members |-> N] /\ N = [f \in DOMAIN tx |-> N[f]]
  <2> DEFINE all ==
            [field \in DOMAIN clean |->
                IF field = "details"
                THEN [elements |-> [i \in DOMAIN clean.details |-> detailJSON(clean.details[i])]]
                ELSE FieldJSON(field, clean[field])]
  <2>1. toJSON(clean) = [members |-> all]
    BY Zenon DEF toJSON
  <2>2. all = [f \in DOMAIN clean |-> all[f]]
    OBVIOUS
  <2> HIDE DEF all, clean
  <2>3. N = all
    BY <2>1
  <2> QED
    BY <1>1, <2>1, <2>2, <2>3
<1>4. members = [f \in DOMAIN tx |-> members[f]]
  BY <1>1 DEF StripTexts
<1>5. CASE "details" \notin DOMAIN tx
  <2>1. Stripped(toJSON(tx)) = [members |-> members]
    BY <1>1, <1>5 DEF Stripped
  <2>2. members = N
    <3> HIDE DEF members, N
    <3> QED
      BY <1>2, <1>3, <1>4, <1>5
  <2> QED
    BY <1>3, <2>1, <2>2
<1>6. CASE "details" \in DOMAIN tx
  <2> DEFINE elements == [i \in DOMAIN tx.details |-> detailJSON(tx.details[i])]
             stripped == [i \in DOMAIN elements |->
                             [members |-> StripTexts(elements[i].members)]]
  <2>1. M["details"] = [elements |-> elements]
    BY <1>6, MembersFacts
  <2>2. members["details"] = [elements |-> elements]
    <3>1. DOMAIN M["details"] # {"text"}
      <4> HIDE DEF elements, M
      <4> QED
        BY <2>1
    <3>2. members["details"] = M["details"]
      BY <1>1, <1>6, <3>1, MembersFacts DEF StripTexts
    <3> QED
      BY <2>1, <3>2
  <2>3. members.details.elements = elements
    <3> HIDE DEF members, elements
    <3> QED
      BY <2>2
  <2>4. Stripped(toJSON(tx)) =
            [members |-> [members EXCEPT !["details"] = [members["details"] EXCEPT !["elements"] =
                [i \in DOMAIN members.details.elements |->
                    [members |-> StripTexts(members.details.elements[i].members)]]]]]
    BY <1>1, <1>6, Zenon DEF Stripped
  <2>5. Stripped(toJSON(tx)) =
            [members |-> [members EXCEPT !["details"] = [elements |-> stripped]]]
    <3>1. [members["details"] EXCEPT !["elements"] = stripped] = [elements |-> stripped]
      <4> HIDE DEF members, elements, stripped
      <4> QED
        BY <2>2
    <3>2. [i \in DOMAIN members.details.elements |->
                    [members |-> StripTexts(members.details.elements[i].members)]] = stripped
      BY <2>3, Zenon
    <3> HIDE DEF members, stripped
    <3> QED
      BY <2>4, <3>1, <3>2
  <2>6. N["details"] = [elements |-> stripped]
    <3>1. clean.details = [i \in DOMAIN tx.details |-> CleanedDetail(tx.details[i])]
      BY <1>6 DEF Cleaned
    <3>2. N["details"] = [elements |-> [i \in DOMAIN clean.details |->
                                           detailJSON(clean.details[i])]]
      BY <1>1, <1>6, MembersFacts
    <3>3. [i \in DOMAIN clean.details |-> detailJSON(clean.details[i])] =
              [i \in DOMAIN tx.details |-> detailJSON(CleanedDetail(tx.details[i]))]
      <4> HIDE DEF clean
      <4> QED
        BY <3>1
    <3>4. stripped = [i \in DOMAIN tx.details |-> detailJSON(CleanedDetail(tx.details[i]))]
      <4>1. ASSUME NEW i \in DOMAIN tx.details PROVE tx.details[i] \in HashedDetails
        <5>1. tx.details \in Seq(HashedDetails)
          BY <1>6 DEF Typed, CancelNames
        <5> QED
          BY <5>1, LenProperties, ElementOfSeq
      <4>2. \A i \in DOMAIN tx.details :
                [members |-> StripTexts(detailJSON(tx.details[i]).members)]
                    = detailJSON(CleanedDetail(tx.details[i]))
        BY <4>1, StrippedDetail, Zenon
      <4>3. DOMAIN elements = DOMAIN tx.details
            /\ \A i \in DOMAIN tx.details : elements[i] = detailJSON(tx.details[i])
        OBVIOUS
      <4> HIDE DEF elements
      <4> QED
        BY <4>2, <4>3
    <3> QED
      BY <3>2, <3>3, <3>4, Zenon
  <2> HIDE DEF members, N, stripped
  <2>7. [members EXCEPT !["details"] = [elements |-> stripped]] = N
    BY <1>1, <1>2, <1>3, <1>4, <1>6, <2>6
  <2> QED
    BY <1>3, <2>5, <2>7
<1> QED
  BY <1>5, <1>6

(* What is left is a transaction of the same type and sequence. *)
LEMMA CleanedTyped ==
    ASSUME NEW tx, Typed(tx)
    PROVE  /\ Typed(Cleaned(tx)) /\ Cleaned(tx).sequence = tx.sequence
           /\ Cleaned(tx).type = tx.type
<1> DEFINE clean == Cleaned(tx)
<1>1. DOMAIN clean = DOMAIN tx /\ clean = [f \in DOMAIN clean |-> clean[f]]
  BY DEF Cleaned
<1>2. ASSUME NEW f \in DOMAIN tx, f # "details"
      PROVE  clean[f] = IF IsText(f, tx[f]) THEN Reread[tx[f]] ELSE tx[f]
  BY <1>2 DEF Cleaned
<1>3. "type" \in DOMAIN tx /\ "sequence" \in DOMAIN tx
  BY DEF Typed, NewNames, CancelNames
<1>4. \A v : ~ IsText("type", v) /\ ~ IsText("sequence", v)
  BY DEF IsText, NumberFields
<1>5. clean.type = tx.type /\ clean.sequence = tx.sequence
  BY <1>2, <1>3, <1>4
<1>6. ASSUME NEW f \in DOMAIN clean \ ({"details"} \cup SignatureFields) PROVE Fits(f, clean[f])
  <2>1. Fits(f, tx[f]) /\ clean[f] = IF IsText(f, tx[f]) THEN Reread[tx[f]] ELSE tx[f]
    BY <1>1, <1>2, <1>6 DEF Typed
  <2>2. CASE IsText(f, tx[f])
    <3>1. Reread[tx[f]] \in Texts
      BY <2>1, <2>2, RereadIsText
    <3> QED
      BY <2>1, <2>2, <3>1 DEF Fits, IsText
  <2>3. CASE ~ IsText(f, tx[f])
    BY <2>1, <2>3
  <2> QED
    BY <2>2, <2>3
<1>7. ASSUME "details" \in DOMAIN tx, tx.details \in Seq(HashedDetails)
      PROVE  clean.details \in Seq(HashedDetails)
  <2> DEFINE n == Len(tx.details)
  <2>1. n \in Nat /\ DOMAIN tx.details = 1 .. n /\ \A i \in 1 .. n : tx.details[i] \in HashedDetails
    BY <1>7, LenProperties, ElementOfSeq
  <2>2. ASSUME NEW detail \in HashedDetails PROVE CleanedDetail(detail) \in HashedDetails
    <3>1. DOMAIN detail = DetailNames /\ detail.productId \in Texts \cup DOMAIN Raw
          /\ detail.amount \in BigNumber /\ detail.providePercent \in BigNumber
      BY DEF HashedDetails, DetailNames
    <3>2. /\ IsText("productId", detail.productId) <=> detail.productId \in Texts
          /\ \A v : ~ IsText("amount", v) /\ ~ IsText("providePercent", v)
      BY <3>1, SerializationAssumption DEF IsText, NumberFields, AmountFields, SignatureFields
    <3> DEFINE new == CleanedDetail(detail)
    <3>3. DOMAIN new = DetailNames /\ new = [f \in DetailNames |-> new[f]]
      BY <3>1 DEF CleanedDetail
    <3>4. /\ new["productId"] = IF detail.productId \in Texts THEN Reread[detail.productId]
                                ELSE detail.productId
          /\ new["amount"] = detail.amount
          /\ new["providePercent"] = detail.providePercent
      BY <3>1, <3>2 DEF CleanedDetail, DetailNames
    <3>5. new["productId"] \in Texts \cup DOMAIN Raw
      BY <3>1, <3>4, ContentAssumption
    <3> HIDE DEF new
    <3>6. new \in HashedDetails
      BY <3>1, <3>3, <3>4, <3>5 DEF HashedDetails, DetailNames
    <3> QED
      BY <3>6 DEF new
  <2>3. clean.details = [i \in 1 .. n |-> CleanedDetail(tx.details[i])]
    BY <1>7, <2>1 DEF Cleaned
  <2> HIDE DEF n, clean
  <2> QED
    BY <2>1, <2>2, <2>3
<1> HIDE DEF clean
<1>8. Typed(clean)
  BY <1>1, <1>5, <1>6, <1>7 DEF Typed
<1> QED
  BY <1>5, <1>8 DEF clean

----------------------------------------------------------------------------
(* Lists of transactions and blocks. *)

(* InOrder lists the numbers of a set, each once. *)
LEMMA InOrderFacts ==
    ASSUME NEW S \in SUBSET Nat, IsFiniteSet(S)
    PROVE  /\ Cardinality(S) \in Nat /\ InOrder(S) \in [1 .. Cardinality(S) -> S]
           /\ \A i, j \in 1 .. Cardinality(S) : InOrder(S)[i] = InOrder(S)[j] => i = j
           /\ \A i \in 1 .. Cardinality(S) :
                  Cardinality({m \in S : m < InOrder(S)[i]}) = i - 1
<1> DEFINE Below(n) == {m \in S : m < n}
           c == Cardinality(S)
           rank == [n \in S |-> Cardinality(Below(n))]
<1>1. c \in Nat /\ S \subseteq Nat
  BY FS_CardinalityType
<1>2. ASSUME NEW n \in S
      PROVE  IsFiniteSet(Below(n)) /\ Cardinality(Below(n)) \in 0 .. c - 1
  <2>1. Below(n) \in SUBSET S /\ n \notin Below(n)
    BY <1>1
  <2> HIDE DEF Below
  <2>2. IsFiniteSet(Below(n)) /\ Cardinality(Below(n)) \in Nat
    BY <2>1, FS_Subset, FS_CardinalityType
  <2>3. Cardinality(Below(n)) <= c /\ Cardinality(Below(n)) # c
    BY <2>1, FS_Subset
  <2> QED
    BY <1>1, <2>2, <2>3
<1>3. ASSUME NEW a \in S, NEW b \in S, a < b
      PROVE  Cardinality(Below(a)) # Cardinality(Below(b))
  <2>1. Below(a) \in SUBSET Below(b) /\ Below(a) # Below(b)
    <3>1. a \in Nat /\ b \in Nat
      BY <1>1
    <3>2. \A m \in Below(a) : m \in Below(b)
      BY <1>1, <1>3, <3>1
    <3>3. a \in Below(b) /\ a \notin Below(a)
      BY <1>3, <3>1
    <3> QED
      BY <3>2, <3>3
  <2> QED
    BY <1>2, <2>1, FS_Subset
<1>4. rank \in Injection(S, 0 .. c - 1)
  <2> HIDE DEF Below
  <2>1. rank \in [S -> 0 .. c - 1]
    BY <1>2
  <2>2. ASSUME NEW a \in S, NEW b \in S, rank[a] = rank[b] PROVE a = b
    <3>1. a \in Nat /\ b \in Nat /\ Cardinality(Below(a)) = Cardinality(Below(b))
      BY <1>1, <2>2
    <3> QED
      BY <1>3, <3>1
  <2> QED
    BY <2>1, <2>2 DEF Injection, IsInjective
<1>5. rank \in Surjection(S, 0 .. c - 1)
  <2>1. IsFiniteSet(0 .. c - 1) /\ Cardinality(0 .. c - 1) = c
    <3> HIDE DEF c
    <3>1. 0 \in Int /\ c - 1 \in Int
      BY <1>1
    <3>2. /\ IsFiniteSet(0 .. c - 1)
          /\ Cardinality(0 .. c - 1) = IF 0 > c - 1 THEN 0 ELSE (c - 1) - 0 + 1
      BY <3>1, FS_Interval, Zenon
    <3> QED
      BY <1>1, <3>2
  <2> HIDE DEF rank
  <2> QED
    BY <1>4, <2>1, FS_Injection
<1>6. ASSUME NEW i \in 1 .. c
      PROVE  InOrder(S)[i] \in S /\ Cardinality(Below(InOrder(S)[i])) = i - 1
  <2>1. i - 1 \in 0 .. c - 1
    BY <1>1
  <2>2. \E n \in S : rank[n] = i - 1
    BY <1>5, <2>1 DEF Surjection
  <2>3. \E n \in S : Cardinality(Below(n)) = i - 1
    BY <2>2
  <2>4. InOrder(S)[i] = CHOOSE n \in S : Cardinality(Below(n)) = i - 1
    BY DEF InOrder
  <2> HIDE DEF Below
  <2> QED
    BY <2>3, <2>4
<1>7. InOrder(S) \in [1 .. c -> S]
  <2> DEFINE at(i) == CHOOSE n \in S : Cardinality({m \in S : m < n}) = i - 1
             list == [i \in 1 .. c |-> at(i)]
  <2>2. InOrder(S) = list
    BY Zenon DEF InOrder
  <2> HIDE DEF at
  <2>3. list = [i \in 1 .. c |-> list[i]]
    OBVIOUS
  <2> HIDE DEF list
  <2>1. InOrder(S) = [i \in 1 .. c |-> InOrder(S)[i]]
    BY <2>2, <2>3
  <2> HIDE DEF c
  <2> QED
    BY <1>6, <2>1
<1>8. ASSUME NEW i \in 1 .. c, NEW j \in 1 .. c, InOrder(S)[i] = InOrder(S)[j] PROVE i = j
  <2>1. i - 1 = j - 1
    BY <1>6, <1>8
  <2> QED
    BY <1>1, <2>1
<1> QED
  BY <1>1, <1>6, <1>7, <1>8

(* InOrder of the numbers from 1 to n. *)
LEMMA AllInOrder ==
    ASSUME NEW n \in Nat
    PROVE  InOrder(1 .. n) = [i \in 1 .. n |-> i]
<1> DEFINE S == 1 .. n
<1>1. IsFiniteSet(S) /\ Cardinality(S) = n /\ S \in SUBSET Nat
  BY FS_Interval
<1>2. /\ InOrder(S) \in [1 .. n -> S]
      /\ \A i \in 1 .. n : Cardinality({m \in S : m < InOrder(S)[i]}) = i - 1
  <2> HIDE DEF S
  <2> QED
    BY <1>1, InOrderFacts
<1>3. ASSUME NEW i \in 1 .. n PROVE InOrder(S)[i] = i
  <2> DEFINE k == InOrder(S)[i]
  <2>1. k \in 1 .. n
    BY <1>2
  <2> HIDE DEF k
  <2>2. {m \in S : m < k} = 1 .. k - 1
    BY <2>1
  <2>3. Cardinality(1 .. k - 1) = k - 1
    BY <2>1, FS_Interval
  <2>4. Cardinality({m \in S : m < k}) = i - 1
    BY <1>2 DEF k
  <2>5. k = i
    <3>1. k - 1 = i - 1
      BY <2>2, <2>3, <2>4, Zenon
    <3> QED
      BY <2>1, <3>1
  <2> QED
    BY <2>5 DEF k
<1> QED
  BY <1>2, <1>3

(* All elements are transactions: converterTxArray passes none over. *)
LEMMA Converted ==
    ASSUME NEW n \in Nat, NEW txs, DOMAIN txs = 1 .. n, \A i \in 1 .. n : Typed(txs[i]),
           txs = [i \in 1 .. n |-> txs[i]],
           NEW contents, contents = [i \in 1 .. n |-> toJSON(txs[i])]
    PROVE  converterTxArray(contents) = txs /\ \A i \in 1 .. n : Known(contents[i])
<1>1. ASSUME NEW i \in 1 .. n PROVE Known(contents[i]) /\ reviver(contents[i]) = txs[i]
  <2>1. Typed(txs[i]) /\ contents[i] = toJSON(txs[i])
    OBVIOUS
  <2> DEFINE tx == txs[i]
  <2> HIDE DEF tx
  <2>2. ASSUME Typed(tx) PROVE Known(toJSON(tx))
    <3>1. "type" \in DOMAIN tx /\ tx.type \in {TypeNew, TypeCancel}
      BY <2>2 DEF Typed, NewNames, CancelNames
    <3>2. toJSON(tx).members["type"] = FieldJSON("type", tx.type)
      BY <3>1, MembersFacts
    <3>3. FieldJSON("type", tx.type) = [number |-> tx.type]
      BY DEF FieldJSON, NumberFields, AmountFields, SignatureFields
    <3> QED
      BY <3>1, <3>2, <3>3 DEF Known
  <2> QED
    BY <2>1, <2>2, RoundTrip DEF tx
<1>2. {i \in DOMAIN contents : Known(contents[i])} = 1 .. n
  BY <1>1
<1> DEFINE known == InOrder({i \in DOMAIN contents : Known(contents[i])})
<1>3. known = [i \in 1 .. n |-> i]
  BY <1>2, AllInOrder
<1>4. converterTxArray(contents) = [i \in DOMAIN known |-> reviver(contents[known[i]])]
  BY Zenon DEF converterTxArray
<1> HIDE DEF known
<1>5. converterTxArray(contents) = [i \in 1 .. n |-> reviver(contents[i])]
  BY <1>3, <1>4
<1> QED
  BY <1>1, <1>5

(* A list of transactions that have been hashed. *)
TypedList(txs) ==
    /\ Len(txs) \in Nat /\ txs = [i \in 1 .. Len(txs) |-> txs[i]]
    /\ \A i \in 1 .. Len(txs) : Typed(txs[i])

(* The leaves of the tree over them. *)
Hashes(txs) == [i \in DOMAIN txs |-> hashFull(txs[i])]

(* A block can be read back from its JSON text. *)
LEMMA BlockRoundTrip ==
    ASSUME NEW txs, TypedList(txs), NEW prevHash, NEW prevHeight, NEW now,
           NEW json, json = BlockJSON(createBlock(prevHash, prevHeight, txs, now))
    PROVE  LET block == reviveBlock(json)
           IN /\ block.txs = txs
              /\ block.header = createBlock(prevHash, prevHeight, txs, now).header
              /\ block.header.prevBlock = prevHash
              /\ block.header.merkleRoot = Last(buildMerkleTree(Hashes(txs)))
              /\ json.members.txs.elements = [i \in 1 .. Len(txs) |-> toJSON(txs[i])]
              /\ (\A i \in 1 .. Len(txs) : Revives(toJSON(txs[i]))) => RevivesBlock(json)
<1> DEFINE n == Len(txs)
           tree == buildMerkleTree(Hashes(txs))
           root == Last(tree)
           height == prevHeight + 1
           header == [prevBlock |-> prevHash, merkleRoot |-> root,
                      height |-> height, timestamp |-> now]
           made == createBlock(prevHash, prevHeight, txs, now)
           headerMembers == [prevBlock |-> [hex |-> prevHash], merkleRoot |-> [hex |-> root],
                             height |-> [digits |-> height], timestamp |-> [digits |-> now]]
           elements == [i \in DOMAIN txs |-> toJSON(txs[i])]
           treeElements == [i \in DOMAIN tree |-> [hex |-> tree[i]]]
           members == [header |-> [members |-> headerMembers], txs |-> [elements |-> elements],
                       merkleTree |-> [elements |-> treeElements]]
<1>1. made = [header |-> header, txs |-> txs, merkleTree |-> tree]
  BY Zenon DEF createBlock, Hashes
<1> HIDE DEF made
<1>2. made.header = header /\ made.txs = txs /\ made.merkleTree = tree
  <2> HIDE DEF header, tree
  <2> QED
    BY <1>1
<1>3. /\ header.prevBlock = prevHash /\ header.merkleRoot = root
      /\ header.height = height /\ header.timestamp = now
  <2> HIDE DEF root, height
  <2> QED
    OBVIOUS
<1>4. json = [members |-> members]
  <2> HIDE DEF header, tree, root, height
  <2>1. json = BlockJSON(made)
    BY DEF made
  <2> QED
    BY <1>2, <1>3, <2>1 DEF BlockJSON
<1> HIDE DEF members
<1>5. json.members = members
  BY <1>4
<1>6. /\ json.members.header = [members |-> headerMembers]
      /\ json.members.txs = [elements |-> elements]
      /\ json.members.merkleTree = [elements |-> treeElements]
      /\ DOMAIN json.members = {"header", "txs", "merkleTree"}
  <2> HIDE DEF headerMembers, elements, treeElements
  <2> QED
    BY <1>5 DEF members
<1>7. json.members.header.members = headerMembers /\ json.members.txs.elements = elements
  <2> HIDE DEF headerMembers, elements
  <2> QED
    BY <1>6
<1>8. elements = [i \in 1 .. n |-> toJSON(txs[i])] /\ DOMAIN txs = 1 .. n /\ n \in Nat
  <2>1. DOMAIN txs = 1 .. n /\ n \in Nat
    BY DEF TypedList
  <2> QED
    BY <2>1
<1>9. reviveHeader(json.members.header) = header
  <2> HIDE DEF root, height
  <2>1. \A x : FieldValue([hex |-> x]) = x /\ FieldValue([digits |-> x]) = x
    <3>1. ASSUME NEW x PROVE FieldValue([hex |-> x]) = x
      <4>1. DOMAIN [hex |-> x] = {"hex"} /\ [hex |-> x]["hex"] = x
        OBVIOUS
      <4> QED
        BY <4>1 DEF FieldValue
    <3>2. ASSUME NEW x PROVE FieldValue([digits |-> x]) = x
      <4>1. DOMAIN [digits |-> x] = {"digits"} /\ [digits |-> x]["digits"] = x
        OBVIOUS
      <4> QED
        BY <4>1 DEF FieldValue
    <3> QED
      BY <3>1, <3>2
  <2>2. reviveHeader(json.members.header) =
            [field \in DOMAIN headerMembers |-> FieldValue(headerMembers[field])]
    BY <1>7, Zenon DEF reviveHeader
  <2>3. /\ DOMAIN headerMembers = {"prevBlock", "merkleRoot", "height", "timestamp"}
        /\ headerMembers["prevBlock"] = [hex |-> prevHash]
        /\ headerMembers["merkleRoot"] = [hex |-> root]
        /\ headerMembers["height"] = [digits |-> height]
        /\ headerMembers["timestamp"] = [digits |-> now]
    OBVIOUS
  <2> HIDE DEF headerMembers
  <2>4. /\ FieldValue(headerMembers["prevBlock"]) = prevHash
        /\ FieldValue(headerMembers["merkleRoot"]) = root
        /\ FieldValue(headerMembers["height"]) = height
        /\ FieldValue(headerMembers["timestamp"]) = now
    BY <2>1, <2>3
  <2>5. header = [field \in DOMAIN headerMembers |-> FieldValue(headerMembers[field])]
    BY <2>3, <2>4
  <2> QED
    BY <2>2, <2>5
<1>10. converterTxArray(elements) = txs /\ \A i \in 1 .. n : Known(elements[i])
  <2>1. \A i \in 1 .. n : Typed(txs[i])
    BY DEF TypedList
  <2>2. txs = [i \in 1 .. n |-> txs[i]]
    BY DEF TypedList
  <2> HIDE DEF elements, n
  <2> QED
    BY <1>8, <2>1, <2>2, Converted
<1>11. reviveBlock(json).header = header /\ reviveBlock(json).txs = txs
  <2> HIDE DEF header, elements
  <2> QED
    BY <1>7, <1>9, <1>10 DEF reviveBlock
<1>12. (\A i \in 1 .. n : Revives(toJSON(txs[i]))) => RevivesBlock(json)
  <2>1. isValid(BlockSchema, json)
    <3> HIDE DEF headerMembers, elements, treeElements
    <3>1. /\ Kind(json.members.header) = "object" /\ Kind(json.members.txs) = "array"
          /\ Kind(json.members.merkleTree) = "array"
      BY <1>6 DEF Kind
    <3>2. /\ DOMAIN BlockSchema.properties = {"header", "txs", "merkleTree"}
          /\ BlockSchema.required = {"header", "txs", "merkleTree"}
          /\ BlockSchema.properties["header"] = "object"
          /\ BlockSchema.properties["txs"] = "array"
          /\ BlockSchema.properties["merkleTree"] = "array"
      BY DEF BlockSchema
    <3> QED
      BY <1>6, <3>1, <3>2 DEF isValid
  <2>2. isValid(HeaderSchema, json.members.header)
    <3> DEFINE names == {"prevBlock", "merkleRoot", "height", "timestamp"}
    <3>1. HeaderSchema.properties = Properties(names) /\ HeaderSchema.required = names
      BY DEF HeaderSchema
    <3>2. DOMAIN Properties(names) = names /\ \A f \in names : Properties(names)[f] = "string"
      BY DEF Properties
    <3>3. DOMAIN headerMembers = names
      OBVIOUS
    <3>4. \A f \in names : Kind(headerMembers[f]) = "string"
      <4> HIDE DEF root, height
      <4>1. ASSUME NEW x PROVE Kind([hex |-> x]) = "string" /\ Kind([digits |-> x]) = "string"
        <5>1. DOMAIN [hex |-> x] = {"hex"} /\ DOMAIN [digits |-> x] = {"digits"}
          OBVIOUS
        <5> QED
          BY <5>1 DEF Kind
      <4>2. /\ headerMembers["prevBlock"] = [hex |-> prevHash]
            /\ headerMembers["merkleRoot"] = [hex |-> root]
            /\ headerMembers["height"] = [digits |-> height]
            /\ headerMembers["timestamp"] = [digits |-> now]
        OBVIOUS
      <4> HIDE DEF headerMembers
      <4> QED
        BY <4>1, <4>2
    <3> HIDE DEF names, headerMembers
    <3> QED
      BY <1>7, <3>1, <3>2, <3>3, <3>4 DEF isValid
  <2>3. \A i \in DOMAIN elements : elements[i] = toJSON(txs[i]) /\ i \in 1 .. n
    BY <1>8
  <2> HIDE DEF elements, n
  <2> QED
    BY <1>7, <2>1, <2>2, <2>3 DEF RevivesBlock
<1> HIDE DEF header, elements, n, root, tree
<1> QED
  BY <1>2, <1>3, <1>7, <1>8, <1>11, <1>12 DEF made, n, root, tree

----------------------------------------------------------------------------
(* Signing, and the inductive invariant. *)

(* The hash does not depend on what it does not cover. *)
LEMMA SameHash ==
    ASSUME NEW a, NEW b, a.type = b.type,
           \A f \in IF a.type = TypeNew THEN NewNames ELSE CancelNames : a[f] = b[f],
           a.type = TypeNew => a.details = b.details
    PROVE  computeHash(a) = computeHash(b)
<1>1. ASSUME NEW names, \A i \in DOMAIN names : a[names[i]] = b[names[i]]
      PROVE  hashParts(a, names) = hashParts(b, names)
  <2>1. \A i \in DOMAIN names : hashPart(a, names[i]) = hashPart(b, names[i])
    BY <1>1 DEF hashPart
  <2>2. [i \in DOMAIN names |-> hashPart(a, names[i])] =
            [i \in DOMAIN names |-> hashPart(b, names[i])]
    BY <2>1
  <2> QED
    BY <2>2, Zenon DEF hashParts
<1>2. CASE a.type = TypeNew
  <2>1. \A i \in DOMAIN HashedNew : a[HashedNew[i]] = b[HashedNew[i]]
    BY <1>2, NamesFacts
  <2>2. hashParts(a, HashedNew) = hashParts(b, HashedNew)
    BY <1>1, <2>1
  <2> QED
    BY <1>2, <2>2 DEF computeHash
<1>3. CASE a.type # TypeNew
  <2>1. \A i \in DOMAIN HashedCancel : a[HashedCancel[i]] = b[HashedCancel[i]]
    BY <1>3, CancelNamesFacts
  <2>2. hashParts(a, HashedCancel) = hashParts(b, HashedCancel)
    BY <1>1, <2>1
  <2> QED
    BY <1>3, <2>2 DEF computeHash
<1> QED
  BY <1>2, <1>3

(* A transaction as the server signs it. *)
Signed(tx) ==
    /\ tx.signer = publisher
    /\ tx.signature = [by |-> publisher, over |-> computeHash(tx)]
    /\ tx.type = TypeNew => tx.purchaseSignature.over = getPurchaseData(tx)

(* postNewPurchase stores what is signed, *)
LEMMA NewSigned ==
    ASSUME NEW sequence \in Nat, NEW order \in PurchaseOrder, NEW unsigned, NEW tx,
           unsigned = NewTransaction(sequence, order, NotSigned, publisher),
           tx = [unsigned EXCEPT !.purchaseSignature =
                    [by |-> publisher, over |-> getPurchaseData(unsigned)]],
           Hashable(tx)
    PROVE  LET signed == sign(tx, publisher)
           IN Typed(signed) /\ Signed(signed) /\ signed.sequence = sequence
<1> DEFINE names == NewNames \cup {"details"} \cup SignatureFields
           named == [tx EXCEPT !.signer = publisher]
           signed == sign(tx, publisher)
<1>1. /\ unsigned = [f \in DOMAIN unsigned |-> unsigned[f]]
      /\ DOMAIN unsigned = names
  <2> HIDE DEF NotSigned
  <2> QED
    BY DEF NewTransaction, NewNames, SignatureFields
<1>2. /\ unsigned.type = TypeNew /\ unsigned.sequence = sequence
      /\ unsigned.purchaseId \in Texts /\ unsigned.currency \in Texts
      /\ unsigned.shopId \in Texts /\ unsigned.userAccount \in Texts
      /\ unsigned.userPhoneHash \in Texts /\ unsigned.sender \in Texts
      /\ unsigned.signer = publisher /\ unsigned.details \in Seq(Detail)
      /\ unsigned.totalAmount \in BigNumber /\ unsigned.cashAmount \in BigNumber
      /\ unsigned.loyalty \in BigNumber
  <2>1. /\ unsigned.type = TypeNew /\ unsigned.sequence = sequence
        /\ unsigned.purchaseId = order.purchaseId /\ unsigned.currency = order.currency
        /\ unsigned.shopId = order.shopId /\ unsigned.userAccount = order.userAccount
        /\ unsigned.userPhoneHash = order.userPhoneHash /\ unsigned.sender = order.sender
        /\ unsigned.signer = publisher /\ unsigned.details = order.details
        /\ unsigned.totalAmount = order.totalAmount /\ unsigned.cashAmount = order.cashAmount
        /\ unsigned.loyalty = order.loyalty
    <3> HIDE DEF NotSigned
    <3> QED
      BY DEF NewTransaction
  <2>2. /\ order.purchaseId \in Texts /\ order.currency \in Texts
        /\ order.shopId \in Texts /\ order.userAccount \in Texts
        /\ order.userPhoneHash \in Texts /\ order.sender \in Texts
        /\ order.details \in Seq(Detail)
        /\ order.totalAmount \in BigNumber /\ order.cashAmount \in BigNumber
        /\ order.loyalty \in BigNumber
    BY DEF PurchaseOrder
  <2> QED
    BY <2>1, <2>2
<1>3. /\ DOMAIN tx = names /\ tx = [f \in names |-> tx[f]]
      /\ \A f \in names \ {"purchaseSignature"} : tx[f] = unsigned[f]
      /\ tx.purchaseSignature = [by |-> publisher, over |-> getPurchaseData(unsigned)]
  BY <1>1 DEF SignatureFields
<1>4. /\ DOMAIN named = names /\ named = [f \in names |-> named[f]]
      /\ \A f \in names \ {"signer"} : named[f] = tx[f]
      /\ named.signer = publisher
  BY <1>3 DEF NewNames
<1>5. /\ DOMAIN signed = names /\ signed = [f \in names |-> signed[f]]
      /\ \A f \in names \ {"signature"} : signed[f] = named[f]
      /\ signed.signature = [by |-> publisher, over |-> computeHash(named)]
  <2> DEFINE signature == [by |-> publisher, over |-> computeHash(named)]
  <2>1. signed = [named EXCEPT !.signature = signature]
    BY Zenon DEF sign
  <2> HIDE DEF named, signature, signed
  <2>2. "signature" \in names
    BY DEF SignatureFields
  <2> QED
    BY <1>4, <2>1, <2>2 DEF signature
<1> HIDE DEF signed, named
<1>6. \A f \in NewNames \cup {"details"} : f \in names /\ f \notin SignatureFields
  BY DEF NewNames, SignatureFields
<1>7. \A f \in NewNames \cup {"details"} : f # "signer" => signed[f] = unsigned[f]
  BY <1>3, <1>4, <1>5, <1>6 DEF SignatureFields
<1>8. signed.signer = publisher
  BY <1>4, <1>5 DEF NewNames, SignatureFields
<1>9. computeHash(signed) = computeHash(named)
  <2>1. "type" \in NewNames /\ "details" \in names \ {"signature"}
    BY DEF NewNames, SignatureFields
  <2>2. \A f \in NewNames : signed[f] = named[f]
    BY <1>5, <1>6 DEF SignatureFields
  <2>3. signed.type = named.type /\ signed.details = named.details
    BY <1>5, <2>1, <2>2
  <2>4. signed.type = TypeNew
    BY <1>2, <1>7, <2>1
  <2> QED
    BY <2>2, <2>3, <2>4, SameHash
<1>10. getPurchaseData(unsigned) = getPurchaseData(signed)
  <2>1. /\ signed.purchaseId = unsigned.purchaseId /\ signed.cashAmount = unsigned.cashAmount
        /\ signed.loyalty = unsigned.loyalty /\ signed.currency = unsigned.currency
        /\ signed.shopId = unsigned.shopId /\ signed.userAccount = unsigned.userAccount
        /\ signed.userPhoneHash = unsigned.userPhoneHash /\ signed.sender = unsigned.sender
    BY <1>7 DEF NewNames
  <2> QED
    BY <2>1 DEF getPurchaseData
<1>11. signed.purchaseSignature.over = getPurchaseData(signed)
  <2>1. signed.purchaseSignature = [by |-> publisher, over |-> getPurchaseData(unsigned)]
    BY <1>3, <1>4, <1>5 DEF SignatureFields
  <2> QED
    BY <1>10, <2>1
<1>12. Signed(signed)
  BY <1>5, <1>8, <1>9, <1>11 DEF Signed
<1>13. \A f \in NumberFields : Writes(tx[f]) /\ tx[f] = signed[f]
  <2>1. \A f \in NumberFields : f \in NewNames /\ f # "signer"
    BY DEF NumberFields, NewNames
  <2> QED
    BY <1>3, <1>6, <1>7, <2>1 DEF Hashable, SignatureFields
<1>14. Writes(TypeNew)
  <2>1. Span[Wide] > 0 /\ Span[Wide] \in Nat
    BY SpanPositive, SpanFacts, SerializationAssumption
  <2> QED
    BY <2>1 DEF Writes, TypeNew
<1>15. ASSUME NEW f \in NewNames PROVE Fits(f, signed[f])
  <2>1. CASE f \in NumberFields
    BY <1>13, <2>1 DEF Fits
  <2>2. CASE f = "type"
    <3>1. signed["type"] = TypeNew
      BY <1>2, <1>7 DEF NewNames
    <3> QED
      BY <1>14, <2>2, <3>1 DEF Fits
  <2>3. CASE f \in AmountFields
    <3>1. f \in {"totalAmount", "cashAmount", "loyalty"} /\ signed[f] = unsigned[f]
      BY <1>7, <2>3 DEF NewNames, AmountFields
    <3>2. unsigned[f] \in BigNumber
      BY <1>2, <3>1
    <3> QED
      BY <2>3, <3>1, <3>2 DEF Fits, AmountFields, NumberFields
  <2>4. CASE f \notin NumberFields \cup {"type"} \cup AmountFields
    <3>1. f \in {"purchaseId", "currency", "shopId", "userAccount", "userPhoneHash", "sender",
                 "signer"}
      BY <2>4 DEF NewNames, NumberFields, AmountFields
    <3>2. signed[f] \in Texts
      BY <1>2, <1>7, <1>8, <3>1, ContentAssumption DEF NewNames
    <3> QED
      BY <2>4, <3>2 DEF Fits
  <2> QED
    BY <2>1, <2>2, <2>3, <2>4
<1>16. /\ signed.type = TypeNew /\ signed.sequence = sequence
       /\ signed.details \in Seq(HashedDetails)
  <2> DEFINE details == signed.details
             n == Len(details)
  <2>1. signed.type = TypeNew /\ signed.sequence = sequence /\ details \in Seq(Detail)
    BY <1>2, <1>7 DEF NewNames
  <2>2. tx.type = TypeNew /\ tx.details = details
    BY <1>2, <1>3, <1>7 DEF NewNames, SignatureFields
  <2> HIDE DEF details
  <2>3. n \in Nat /\ DOMAIN details = 1 .. n /\ \A i \in 1 .. n : details[i] \in Detail
    BY <2>1, LenProperties, ElementOfSeq
  <2>4. \A i \in 1 .. n : details[i].productId \in Texts \cup DOMAIN Raw
    BY <2>2, <2>3 DEF Hashable
  <2>5. \A i \in 1 .. n : details[i] \in HashedDetails
    BY <2>3, <2>4 DEF Detail, HashedDetails
  <2>6. details = [i \in 1 .. n |-> details[i]]
    BY <2>1, LenProperties
  <2> HIDE DEF n
  <2>7. details \in Seq(HashedDetails)
    BY <2>3, <2>5, <2>6
  <2> QED
    BY <2>1, <2>7 DEF details
<1>17. \A f \in DOMAIN signed \ ({"details"} \cup SignatureFields) : Fits(f, signed[f])
  BY <1>5, <1>15
<1>18. Typed(signed)
  BY <1>5, <1>16, <1>17 DEF Typed
<1> QED
  BY <1>12, <1>16, <1>18 DEF signed

(* and so does postCancelPurchase. *)
LEMMA CancelSigned ==
    ASSUME NEW sequence \in Nat, NEW order \in CancelOrder, NEW signer, NEW tx,
           tx = CancelTransaction(sequence, [order EXCEPT !.sender = publisher], signer),
           Hashable(tx)
    PROVE  LET signed == sign(tx, publisher)
           IN Typed(signed) /\ Signed(signed) /\ signed.sequence = sequence
<1> DEFINE names == CancelNames \cup {"signature"}
           named == [tx EXCEPT !.signer = publisher]
           signed == sign(tx, publisher)
           given == [order EXCEPT !.sender = publisher]
<1>1. /\ given.purchaseId \in Texts /\ given.sender = publisher
  BY DEF CancelOrder
<1> HIDE DEF given
<1>2. /\ DOMAIN tx = names /\ tx = [f \in names |-> tx[f]]
      /\ tx.type = TypeCancel /\ tx.sequence = sequence /\ tx.purchaseId \in Texts
      /\ tx.sender = publisher
  <2>1. tx = CancelTransaction(sequence, given, signer)
    BY DEF given
  <2> HIDE DEF NotSigned
  <2> QED
    BY <1>1, <2>1 DEF CancelTransaction, CancelNames
<1>3. /\ DOMAIN named = names /\ named = [f \in names |-> named[f]]
      /\ \A f \in names \ {"signer"} : named[f] = tx[f]
      /\ named.signer = publisher
  BY <1>2 DEF CancelNames
<1>4. /\ DOMAIN signed = names /\ signed = [f \in names |-> signed[f]]
      /\ \A f \in names \ {"signature"} : signed[f] = named[f]
      /\ signed.signature = [by |-> publisher, over |-> computeHash(named)]
  <2> DEFINE signature == [by |-> publisher, over |-> computeHash(named)]
  <2>1. signed = [named EXCEPT !.signature = signature]
    BY Zenon DEF sign
  <2> HIDE DEF named, signature, signed
  <2> QED
    BY <1>3, <2>1 DEF signature
<1> HIDE DEF signed, named
<1>5. \A f \in CancelNames : f # "signature" /\ signed[f] = named[f]
  BY <1>4 DEF CancelNames
<1>6. \A f \in CancelNames : f # "signer" => signed[f] = tx[f]
  BY <1>3, <1>5 DEF CancelNames
<1>7. signed.signer = publisher
  BY <1>3, <1>5 DEF CancelNames
<1>8. /\ signed.type = TypeCancel /\ signed.sequence = sequence
      /\ signed.purchaseId \in Texts /\ signed.sender = publisher
  BY <1>2, <1>6 DEF CancelNames
<1>9. TypeCancel # TypeNew /\ Writes(TypeCancel)
  <2>1. Span[Wide] \in Nat /\ Span[Wide] > 1
    <3>1. Wide - 1 \in Nat /\ (Wide - 1) + 1 = Wide
      BY SerializationAssumption
    <3>2. Span[(Wide - 1) + 1] = Byte * Span[Wide - 1]
      BY <3>1, SpanFacts
    <3>3. Span[Wide - 1] \in Nat /\ Span[Wide - 1] > 0 /\ Byte \in Nat /\ Byte > 4
      BY <3>1, SpanFacts, SpanPositive, SerializationAssumption
    <3>4. Byte * Span[Wide - 1] > 1
      BY <3>3
    <3> QED
      BY <3>1, <3>2, <3>4, SpanFacts, SerializationAssumption
  <2> QED
    BY <2>1 DEF Writes, TypeCancel, TypeNew
<1>10. computeHash(signed) = computeHash(named)
  <2>1. signed.type = named.type /\ signed.type # TypeNew
    BY <1>5, <1>8, <1>9 DEF CancelNames
  <2> QED
    BY <1>5, <2>1, SameHash
<1>11. Signed(signed)
  BY <1>4, <1>7, <1>8, <1>9, <1>10 DEF Signed
<1>12. \A f \in NumberFields : Writes(signed[f])
  <2>1. \A f \in NumberFields : f \in CancelNames /\ f # "signer"
    BY DEF NumberFields, CancelNames
  <2> QED
    BY <1>6, <2>1 DEF Hashable
<1>13. ASSUME NEW f \in CancelNames PROVE Fits(f, signed[f])
  <2>1. CASE f \in NumberFields
    BY <1>12, <2>1 DEF Fits
  <2>2. CASE f = "type"
    BY <1>8, <1>9, <2>2 DEF Fits
  <2>3. CASE f \notin NumberFields \cup {"type"}
    <3>1. f \in {"purchaseId", "sender", "signer"}
      BY <2>3 DEF CancelNames, NumberFields
    <3>2. signed[f] \in Texts /\ f \notin AmountFields
      BY <1>7, <1>8, <3>1, ContentAssumption DEF AmountFields
    <3> QED
      BY <2>3, <3>2 DEF Fits
  <2> QED
    BY <2>1, <2>2, <2>3
<1>14. \A f \in DOMAIN signed \ ({"details"} \cup SignatureFields) : Fits(f, signed[f])
  BY <1>4, <1>13 DEF SignatureFields
<1>15. Typed(signed)
  BY <1>4, <1>8, <1>14 DEF Typed
<1> QED
  BY <1>8, <1>11, <1>15 DEF signed

(* Every row is what was made of the accepted transaction. *)
RowsInv ==
    /\ txs_sequence \in Nat
    /\ DOMAIN accepted \subseteq 1 .. txs_sequence /\ DOMAIN rows \subseteq DOMAIN accepted
    /\ \A s \in DOMAIN accepted :
           Typed(accepted[s]) /\ Signed(accepted[s]) /\ accepted[s].sequence = s
    /\ \A s \in DOMAIN rows : rows[s] = make(accepted[s])

(* The block a reader revives from document i. *)
BlockAt(i) == reviveBlock(documents[i])

(* The hash of the header of block n. *)
Newest(n) == IF n = 0 THEN NullHash ELSE HeaderHash(BlockAt(n).header)

(* The sequence of transaction j of block i. *)
SealedAt(i, j) == BlockAt(i).txs[j].sequence

(* The sequences that were accepted and are no longer in table txs. *)
Gone == DOMAIN accepted \ DOMAIN rows

(* All product ids are texts. *)
TextIds(tx) ==
    tx.type = TypeNew => \A k \in DOMAIN tx.details : tx.details[k].productId \in Texts

(* A reader can revive document i, its header follows that of the block    *)
(* before and has the root of its transactions, which are those accepted.  *)
BlockInv(i) ==
    LET block == BlockAt(i)
    IN /\ RevivesBlock(documents[i])
       /\ documents[i].members.txs.elements = [j \in 1 .. Len(block.txs) |-> toJSON(block.txs[j])]
       /\ block.header.prevBlock = Newest(i - 1)
       /\ block.header.merkleRoot = Last(buildMerkleTree(Hashes(block.txs)))
       /\ TypedList(block.txs) /\ Len(block.txs) \in 1 .. max_txs
       /\ \A j \in 1 .. Len(block.txs) :
              /\ SealedAt(i, j) \in Gone
              /\ block.txs[j] = Cleaned(accepted[SealedAt(i, j)])
              /\ TextIds(block.txs[j])

(* The documents are a sequence. *)
ListInv == Len(documents) \in Nat /\ documents = [i \in 1 .. Len(documents) |-> documents[i]]

(* What has left table txs is in one document, in one place. *)
SealedInv ==
    /\ \A s \in Gone : \E i \in 1 .. Len(documents) : \E j \in 1 .. Len(BlockAt(i).txs) :
                           SealedAt(i, j) = s
    /\ \A i, k \in 1 .. Len(documents) :
           \A j \in 1 .. Len(BlockAt(i).txs), l \in 1 .. Len(BlockAt(k).txs) :
               SealedAt(i, j) = SealedAt(k, l) => i = k /\ j = l

(* The inductive invariant. *)
IInv ==
    /\ RowsInv
    /\ ListInv
    /\ prev_hash = Newest(Len(documents))
    /\ \A i \in 1 .. Len(documents) : BlockInv(i)
    /\ SealedInv

(* It holds at the start. *)
LEMMA InitInv == Init => IInv
<1> SUFFICES ASSUME Init PROVE IInv
  OBVIOUS
<1>1. DOMAIN rows = {} /\ DOMAIN accepted = {} /\ documents = <<>> /\ prev_hash = NullHash
      /\ txs_sequence = 0
  BY DEF Init, Nothing
<1>2. Len(documents) = 0 /\ ListInv
  BY <1>1 DEF ListInv
<1>3. RowsInv
  BY <1>1 DEF RowsInv
<1>4. prev_hash = Newest(Len(documents))
  BY <1>1, <1>2 DEF Newest
<1>5. 1 .. Len(documents) = {} /\ Gone = {}
  BY <1>1, <1>2 DEF Gone
<1> QED
  BY <1>2, <1>3, <1>4, <1>5 DEF IInv, SealedInv

(* Storing adds a row and leaves what is published alone. *)
LEMMA StoreInv ==
    ASSUME IInv, NEW tx, Store(tx), tx.sequence = txs_sequence + 1,
           Hashable(tx) => LET signed == sign(tx, publisher)
                           IN Typed(signed) /\ Signed(signed) /\ signed.sequence = tx.sequence
    PROVE  IInv'
<1> DEFINE s == tx.sequence
           signed == sign(tx, publisher)
<1>1. /\ txs_sequence' = s /\ UNCHANGED <<prev_hash, prev_height, documents>>
      /\ RowsInv /\ s \in Nat /\ s = txs_sequence + 1
  BY DEF Store, IInv, RowsInv
<1>2. s \notin DOMAIN accepted
  BY <1>1 DEF RowsInv
<1>3. /\ RowsInv' /\ Gone' = Gone /\ \A t \in DOMAIN accepted : accepted'[t] = accepted[t]
  <2>1. CASE ~ Hashable(tx)
    <3>1. UNCHANGED <<accepted, rows>>
      BY <2>1 DEF Store
    <3> QED
      BY <1>1, <3>1 DEF RowsInv, Gone
  <2>2. CASE Hashable(tx)
    <3>1. /\ accepted' = With(accepted, s, signed) /\ rows' = With(rows, s, make(signed))
          /\ Typed(signed) /\ Signed(signed) /\ signed.sequence = s
      BY <2>2 DEF Store
    <3> HIDE DEF signed, s
    <3>2. /\ DOMAIN accepted' = DOMAIN accepted \cup {s} /\ accepted'[s] = signed
          /\ \A t \in DOMAIN accepted : accepted'[t] = accepted[t]
      BY <1>2, <3>1 DEF With
    <3>3. /\ DOMAIN rows' = DOMAIN rows \cup {s} /\ rows'[s] = make(signed)
          /\ \A t \in DOMAIN rows : t # s => rows'[t] = rows[t]
      BY <3>1 DEF With
    <3>4. DOMAIN rows \subseteq DOMAIN accepted
      BY <1>1 DEF RowsInv
    <3>5. Gone' = Gone
      BY <1>2, <3>2, <3>3, <3>4 DEF Gone
    <3>6. txs_sequence' \in Nat /\ DOMAIN accepted' \subseteq 1 .. txs_sequence'
      BY <1>1, <3>2 DEF RowsInv
    <3>7. ASSUME NEW t \in DOMAIN accepted'
          PROVE  Typed(accepted'[t]) /\ Signed(accepted'[t]) /\ accepted'[t].sequence = t
      BY <1>1, <3>1, <3>2, <3>7 DEF RowsInv
    <3>8. ASSUME NEW t \in DOMAIN rows' PROVE rows'[t] = make(accepted'[t])
      <4>1. CASE t = s
        BY <3>2, <3>3, <4>1
      <4>2. CASE t # s
        BY <1>1, <3>2, <3>3, <3>4, <4>2 DEF RowsInv
      <4> QED
        BY <4>1, <4>2
    <3>9. DOMAIN rows' \subseteq DOMAIN accepted'
      BY <3>2, <3>3, <3>4
    <3>10. RowsInv'
      BY <3>6, <3>7, <3>8, <3>9 DEF RowsInv, Typed, Signed
    <3> QED
      BY <3>2, <3>5, <3>10
  <2> QED
    BY <2>1, <2>2
<1>4. /\ \A i : BlockAt(i)' = BlockAt(i) /\ Newest(i)' = Newest(i)
      /\ \A i, j : SealedAt(i, j)' = SealedAt(i, j)
  BY <1>1 DEF BlockAt, Newest, SealedAt
<1>5. ListInv' /\ (prev_hash = Newest(Len(documents)))'
  BY <1>1, <1>4 DEF ListInv, IInv
<1>6. ASSUME NEW i \in 1 .. Len(documents) PROVE BlockInv(i)'
  BY <1>1, <1>3, <1>4, <1>6 DEF IInv, BlockInv, Gone
<1>7. SealedInv'
  BY <1>1, <1>3, <1>4 DEF IInv, SealedInv
<1>8. documents' = documents
  BY <1>1
<1> QED
  BY <1>3, <1>5, <1>6, <1>7, <1>8 DEF IInv

----------------------------------------------------------------------------
(* The steps preserve it. *)

(* What Append does to a list of any elements. *)
LEMMA Appended ==
    ASSUME NEW list, NEW x, Len(list) \in Nat, list = [i \in 1 .. Len(list) |-> list[i]]
    PROVE  LET longer == Append(list, x)
           IN /\ Len(longer) = Len(list) + 1
              /\ longer = [i \in 1 .. Len(longer) |-> longer[i]]
              /\ \A i \in 1 .. Len(list) : longer[i] = list[i]
              /\ longer[Len(list) + 1] = x
<1> DEFINE n == Len(list)
           S == {list[i] : i \in 1 .. n} \cup {x}
           longer == Append(list, x)
<1>1. list \in Seq(S)
  <2>1. list \in [1 .. n -> S]
    <3> HIDE DEF n
    <3>1. \A i \in 1 .. n : list[i] \in S
      OBVIOUS
    <3>2. list = [i \in 1 .. n |-> list[i]]
      BY DEF n
    <3> HIDE DEF S
    <3> QED
      BY <3>1, <3>2
  <2> HIDE DEF S
  <2> QED
    BY <2>1
<1>2. x \in S
  OBVIOUS
<1> HIDE DEF S
<1>3. /\ longer \in Seq(S) /\ Len(longer) = Len(list) + 1
      /\ \A i \in 1 .. Len(list) : longer[i] = list[i]
      /\ longer[Len(list) + 1] = x
  BY <1>1, <1>2, AppendProperties
<1>4. longer = [i \in 1 .. Len(longer) |-> longer[i]]
  <2> HIDE DEF longer
  <2> QED
    BY <1>3, LenProperties
<1> QED
  BY <1>3, <1>4

(* selectTxByLength reads at least one row if there is one, none of them twice. *)
LEMMA SelectFacts ==
    ASSUME RowsInv, selectTxByLength(max_txs) # <<>>
    PROVE  LET sequences == selectTxByLength(max_txs)
           IN /\ Len(sequences) \in 1 .. max_txs
              /\ sequences \in [1 .. Len(sequences) -> DOMAIN rows]
              /\ \A i, j \in 1 .. Len(sequences) : sequences[i] = sequences[j] => i = j
<1> DEFINE all == InOrder(DOMAIN rows)
           sequences == selectTxByLength(max_txs)
           n == IF Len(all) < max_txs THEN Len(all) ELSE max_txs
<1>1. IsFiniteSet(DOMAIN rows) /\ DOMAIN rows \in SUBSET Nat
  <2>1. DOMAIN rows \in SUBSET (1 .. txs_sequence) /\ txs_sequence \in Nat
    BY DEF RowsInv
  <2>2. IsFiniteSet(1 .. txs_sequence)
    BY <2>1, FS_Interval
  <2> QED
    BY <2>1, <2>2, FS_Subset
<1> DEFINE c == Cardinality(DOMAIN rows)
<1>2. /\ c \in Nat /\ all \in [1 .. c -> DOMAIN rows]
      /\ \A i, j \in 1 .. c : all[i] = all[j] => i = j
  BY <1>1, InOrderFacts
<1> HIDE DEF c, all
<1>3. all \in Seq(DOMAIN rows) /\ Len(all) = c
  BY <1>2
<1>4. sequences = SubSeq(all, 1, n)
  BY DEF selectTxByLength, all
<1>5. max_txs \in Nat /\ max_txs > 0
  BY ContentAssumption
<1>6. n \in Nat /\ n <= c /\ n <= max_txs
  BY <1>2, <1>3, <1>5
<1> HIDE DEF n
<1>7. \A i \in 1 .. n : all[i] \in DOMAIN rows
  BY <1>2, <1>6
<1>8. /\ sequences \in Seq(DOMAIN rows) /\ Len(sequences) = n
      /\ \A i \in 1 .. n : sequences[i] = all[i]
  <2>1. /\ SubSeq(all, 1, n) \in Seq(DOMAIN rows)
        /\ Len(SubSeq(all, 1, n)) = IF 1 <= n THEN n - 1 + 1 ELSE 0
        /\ \A i \in 1 .. n - 1 + 1 : SubSeq(all, 1, n)[i] = all[1 + i - 1]
    BY <1>6, <1>7, SubSeqProperties
  <2>2. n - 1 + 1 = n /\ \A i \in 1 .. n : 1 + i - 1 = i
    BY <1>6
  <2> QED
    BY <1>4, <1>6, <2>1, <2>2
<1> HIDE DEF sequences
<1>9. n # 0
  BY <1>8 DEF sequences
<1>10. \A i, j \in 1 .. n : sequences[i] = sequences[j] => i = j
  BY <1>2, <1>6, <1>8
<1> QED
  BY <1>6, <1>8, <1>9, <1>10, LenProperties DEF sequences

(* Deleting by hash deletes what was read and nothing else. *)
LEMMA RemoveFacts ==
    ASSUME RowsInv, NEW n \in Nat, NEW sequences \in [1 .. n -> DOMAIN rows], remove(sequences)
    PROVE  /\ DOMAIN rows' = DOMAIN rows \ {sequences[i] : i \in 1 .. n}
           /\ \A s \in DOMAIN rows' : rows'[s] = rows[s]
<1>1. ASSUME NEW s \in DOMAIN rows, NEW t \in DOMAIN rows, rows[s].hash = rows[t].hash
      PROVE  s = t
  <2>1. /\ s \in DOMAIN accepted /\ t \in DOMAIN accepted
        /\ rows[s] = make(accepted[s]) /\ rows[t] = make(accepted[t])
    BY DEF RowsInv
  <2>2. \A tx : make(tx).hash.sha = computeHash(tx)
    BY DEF make, hashFull
  <2>3. computeHash(accepted[s]) = computeHash(accepted[t])
    BY <1>1, <2>1, <2>2
  <2>4. /\ Typed(accepted[s]) /\ accepted[s].sequence = s
        /\ Typed(accepted[t]) /\ accepted[t].sequence = t
    BY <2>1 DEF RowsInv
  <2>5. accepted[s].sequence = accepted[t].sequence
    BY <2>3, <2>4, SequenceHashed
  <2> QED
    BY <2>4, <2>5
<1> DEFINE hashes == {rows[sequences[i]].hash : i \in DOMAIN sequences}
           kept == {t \in DOMAIN rows : rows[t].hash \notin hashes}
<1>2. rows' = [s \in kept |-> rows[s]]
  BY Zenon DEF remove
<1>3. kept = DOMAIN rows \ {sequences[i] : i \in 1 .. n}
  <2>1. ASSUME NEW t \in DOMAIN rows
        PROVE  rows[t].hash \in hashes <=> t \in {sequences[i] : i \in 1 .. n}
    BY <1>1
  <2> HIDE DEF hashes
  <2> QED
    BY <2>1
<1> HIDE DEF kept
<1> QED
  BY <1>2, <1>3

(* The schema of a detail takes no product id but a text.                  *)
LEMMA RevivedTexts ==
    ASSUME NEW tx, Typed(tx), Revives(toJSON(tx))
    PROVE  TextIds(tx)
<1> SUFFICES ASSUME tx.type = TypeNew, NEW k \in DOMAIN tx.details
             PROVE  tx.details[k].productId \in Texts
  BY DEF TextIds
<1> DEFINE json == toJSON(tx)
           detail == tx.details[k]
           members == [field \in DOMAIN detail |-> FieldJSON(field, detail[field])]
           id == detail.productId
<1>1. /\ DOMAIN tx = NewNames \cup {"details"} \cup SignatureFields
      /\ tx.details \in Seq(HashedDetails)
  BY TypedFields
<1>2. detail \in HashedDetails
  BY <1>1, LenProperties, ElementOfSeq
<1>3. json.members.type.number = TypeNew
  <2>1. json.members["type"] = FieldJSON("type", tx.type)
    BY <1>1, MembersFacts DEF NewNames
  <2>2. FieldJSON("type", tx.type) = [number |-> tx.type]
    BY DEF FieldJSON, NumberFields, AmountFields, SignatureFields
  <2> HIDE DEF json
  <2> QED
    BY <2>1, <2>2
<1>4. /\ k \in DOMAIN json.members.details.elements
      /\ json.members.details.elements[k] = detailJSON(detail)
  BY <1>1, MembersFacts
<1>5. isValid(DetailSchema, detailJSON(detail))
  <2>1. Revives(json)
    OBVIOUS
  <2> HIDE DEF json, detail
  <2> QED
    BY <1>3, <1>4, <2>1 DEF Revives, RevivesDetail
<1>6. detailJSON(detail).members = members
  <2>1. detailJSON(detail) = [members |-> members]
    BY Zenon DEF detailJSON
  <2> HIDE DEF members
  <2> QED
    BY <2>1
<1>7. "productId" \in DOMAIN detail /\ id \in Texts \cup DOMAIN Raw
  <2> HIDE DEF detail
  <2> QED
    BY <1>2 DEF HashedDetails
<1> HIDE DEF json, detail
<1>8. members["productId"] = FieldJSON("productId", id) /\ "productId" \in DOMAIN members
  BY <1>7
<1> HIDE DEF members
<1>9. Kind(FieldJSON("productId", id)) = "string"
  <2>1. DetailSchema.properties["productId"] = "string"
    BY DEF DetailSchema, Properties
  <2>2. Kind(members["productId"]) = DetailSchema.properties["productId"]
    BY <1>5, <1>6, <1>8 DEF isValid
  <2> QED
    BY <1>8, <2>1, <2>2
<1>10. id \notin OtherIds
  <2> SUFFICES ASSUME id \in OtherIds PROVE FALSE
    OBVIOUS
  <2> HIDE DEF id
  <2>1. FieldJSON("productId", id) = [other |-> id]
    BY DEF FieldJSON, NumberFields, AmountFields, SignatureFields
  <2>2. Kind([other |-> id]) = "other"
    BY DEF Kind
  <2> QED
    BY <1>9, <2>1, <2>2
<1> QED
  BY <1>7, <1>10, SerializationAssumption DEF id, detail

(* A new block seals what was read from table txs, and this is what is     *)
(* deleted.                                                                *)
LEMMA WorkInv ==
    ASSUME IInv, work
    PROVE  IInv'
<1> DEFINE sequences == selectTxByLength(max_txs)
           n == Len(sequences)
           contents == [i \in DOMAIN sequences |-> Stripped(rows[sequences[i]].contents)]
           txs == converterTxArray(contents)
           clean == [i \in 1 .. n |-> Cleaned(accepted[sequences[i]])]
           taken == {sequences[i] : i \in 1 .. n}
<1>0. PICK last \in Nat : last = Len(documents)
  BY DEF IInv, ListInv
<1>1. RowsInv /\ ListInv /\ SealedInv /\ prev_hash = Newest(last)
      /\ \A i \in 1 .. last : BlockInv(i)
  BY <1>0 DEF IInv
<1>2. /\ sequences # <<>> /\ remove(sequences) /\ UNCHANGED <<txs_sequence, accepted>>
      /\ \A i \in DOMAIN contents : Known(contents[i]) => Revives(contents[i])
  BY Zenon DEF work
<1>3. PICK now \in Times :
          LET block == createBlock(prev_hash, prev_height, txs, now)
          IN documents' = Append(documents, BlockJSON(block))
             /\ prev_hash' = HeaderHash(block.header)
  BY Zenon DEF work
<1> DEFINE made == createBlock(prev_hash, prev_height, clean, now)
           json == BlockJSON(made)
<1> HIDE DEF sequences
<1>4. /\ n \in 1 .. max_txs /\ n \in Nat /\ sequences \in [1 .. n -> DOMAIN rows]
      /\ \A i, j \in 1 .. n : sequences[i] = sequences[j] => i = j
  BY <1>1, <1>2, SelectFacts, ContentAssumption DEF sequences
<1>5. DOMAIN rows' = DOMAIN rows \ taken /\ \A s \in DOMAIN rows' : rows'[s] = rows[s]
  <2> HIDE DEF n
  <2> QED
    BY <1>1, <1>2, <1>4, RemoveFacts
<1>6. ASSUME NEW i \in 1 .. n
      PROVE  /\ sequences[i] \in DOMAIN rows /\ sequences[i] \in DOMAIN accepted
             /\ Typed(accepted[sequences[i]])
             /\ Typed(clean[i]) /\ clean[i].sequence = sequences[i]
             /\ contents[i] = toJSON(clean[i])
  <2> DEFINE s == sequences[i]
             tx == accepted[s]
  <2>1. s \in DOMAIN rows /\ s \in DOMAIN accepted /\ Typed(tx) /\ tx.sequence = s
        /\ rows[s] = make(tx)
    BY <1>1, <1>4 DEF RowsInv
  <2>2. contents[i] = Stripped(rows[s].contents) /\ clean[i] = Cleaned(tx)
    BY <1>4
  <2> HIDE DEF s, tx, contents, clean
  <2>3. rows[s].contents = toJSON(tx)
    BY <2>1 DEF make
  <2>4. Stripped(toJSON(tx)) = toJSON(Cleaned(tx)) /\ Typed(Cleaned(tx))
        /\ Cleaned(tx).sequence = tx.sequence
    BY <2>1, StrippedIsCleaned, CleanedTyped
  <2> QED
    BY <2>1, <2>2, <2>3, <2>4 DEF s, tx
<1>7. TypedList(clean) /\ Len(clean) = n /\ DOMAIN clean = 1 .. n
  <2>1. clean = [i \in 1 .. n |-> clean[i]] /\ Len(clean) = n /\ DOMAIN clean = 1 .. n
    BY <1>4
  <2> HIDE DEF clean, n
  <2> QED
    BY <1>4, <1>6, <2>1 DEF TypedList
<1>8. contents = [i \in 1 .. n |-> toJSON(clean[i])]
  <2>1. contents = [i \in 1 .. n |-> contents[i]]
    BY <1>4
  <2> HIDE DEF contents, clean, n
  <2> QED
    BY <1>6, <2>1
<1>9. txs = clean /\ \A i \in 1 .. n : Known(contents[i])
  <2> HIDE DEF contents, clean, n
  <2> QED
    BY <1>4, <1>7, <1>8, Converted DEF TypedList
<1>10. documents' = Append(documents, json) /\ prev_hash' = HeaderHash(made.header)
  <2> HIDE DEF txs, clean
  <2> QED
    BY <1>3, <1>9
<1>11. \A i \in 1 .. n : Revives(toJSON(clean[i]))
  <2> HIDE DEF clean, n
  <2>1. DOMAIN contents = 1 .. n
    BY <1>8
  <2> HIDE DEF contents
  <2> QED
    BY <1>2, <1>6, <1>9, <2>1
<1>27. \A i \in 1 .. n : TextIds(clean[i])
  <2> HIDE DEF clean, n
  <2> QED
    BY <1>6, <1>11, RevivedTexts
<1> HIDE DEF contents, txs, clean, n, json, made
<1> DEFINE block == reviveBlock(json)
<1>12. /\ block.txs = clean /\ block.header = made.header
       /\ block.header.prevBlock = prev_hash
       /\ block.header.merkleRoot = Last(buildMerkleTree(Hashes(clean)))
       /\ json.members.txs.elements = [i \in 1 .. Len(clean) |-> toJSON(clean[i])]
       /\ RevivesBlock(json)
  BY <1>7, <1>11, BlockRoundTrip DEF json, made
<1> HIDE DEF block
<1>13. /\ Len(documents') = last + 1 /\ last \in Nat
       /\ documents' = [i \in 1 .. Len(documents') |-> documents'[i]]
       /\ \A i \in 1 .. last : documents'[i] = documents[i]
       /\ documents'[last + 1] = json
  BY <1>0, <1>1, <1>10, Appended DEF ListInv
<1>14. \A i \in 1 .. last : BlockAt(i)' = BlockAt(i)
  BY <1>13 DEF BlockAt
<1>15. BlockAt(last + 1)' = block
  BY <1>13 DEF BlockAt, block
<1>16. \A i \in 1 .. last : Newest(i - 1)' = Newest(i - 1)
  <2>1. ASSUME NEW i \in 1 .. last PROVE Newest(i - 1)' = Newest(i - 1)
    <3>1. i - 1 = 0 \/ i - 1 \in 1 .. last
      BY <1>13
    <3> QED
      BY <1>14, <3>1 DEF Newest
  <2> QED
    BY <2>1
<1>17. Newest(last)' = prev_hash
  <2>1. last = 0 \/ last \in 1 .. last
    BY <1>13
  <2> QED
    BY <1>1, <1>14, <2>1 DEF Newest
<1>18. (prev_hash = Newest(Len(documents)))'
  BY <1>10, <1>12, <1>13, <1>15 DEF Newest
<1>19. RowsInv'
  <2>1. /\ accepted' = accepted /\ txs_sequence' = txs_sequence
        /\ DOMAIN rows' \subseteq DOMAIN rows
    BY <1>2, <1>5
  <2>2. ASSUME NEW s \in DOMAIN rows' PROVE rows'[s] = make(accepted'[s])
    BY <1>1, <1>5, <2>1 DEF RowsInv
  <2>3. ASSUME NEW s \in DOMAIN accepted'
        PROVE  Typed(accepted'[s]) /\ Signed(accepted'[s]) /\ accepted'[s].sequence = s
    BY <1>1, <2>1 DEF RowsInv
  <2> QED
    BY <1>1, <2>1, <2>2, <2>3 DEF RowsInv, Typed, Signed
<1>20. Gone' = Gone \cup taken /\ taken \cap Gone = {}
  BY <1>1, <1>2, <1>5, <1>6 DEF Gone
<1>21. ListInv'
  BY <1>13 DEF ListInv
<1>22. ASSUME NEW i \in 1 .. last PROVE BlockInv(i)'
  <2>1. BlockInv(i)
    BY <1>1
  <2>2. Gone \subseteq Gone' /\ accepted' = accepted
    BY <1>2, <1>20
  <2> QED
    BY <1>13, <1>14, <1>16, <2>1, <2>2 DEF BlockInv, SealedAt
<1>23. \A j \in 1 .. n : SealedAt(last + 1, j)' = sequences[j]
  BY <1>6, <1>12, <1>15 DEF SealedAt
<1>24. BlockInv(last + 1)'
  <2>1. /\ RevivesBlock(json)
        /\ json.members.txs.elements = [j \in 1 .. Len(block.txs) |-> toJSON(block.txs[j])]
        /\ block.header.prevBlock = Newest(last)'
        /\ block.header.merkleRoot = Last(buildMerkleTree(Hashes(block.txs)))
        /\ TypedList(block.txs) /\ Len(block.txs) \in 1 .. max_txs
    BY <1>4, <1>7, <1>12, <1>17
  <2>2. ASSUME NEW j \in 1 .. Len(block.txs)
        PROVE  /\ SealedAt(last + 1, j)' \in Gone'
               /\ block.txs[j] = Cleaned(accepted'[SealedAt(last + 1, j)'])
               /\ TextIds(block.txs[j])
    <3>1. j \in 1 .. n /\ SealedAt(last + 1, j)' = sequences[j]
      BY <1>7, <1>12, <1>23
    <3>2. sequences[j] \in taken /\ clean[j] = Cleaned(accepted[sequences[j]])
      BY <3>1 DEF clean
    <3> QED
      BY <1>2, <1>12, <1>20, <1>27, <3>1, <3>2
  <2>3. (last + 1) - 1 = last /\ documents'[last + 1] = json
    BY <1>13
  <2> QED
    BY <1>15, <2>1, <2>2, <2>3 DEF BlockInv
<1> DEFINE at(i) == reviveBlock(documents'[i])
           of(i, j) == at(i).txs[j].sequence
<1>25. SealedInv'
  <2>1. /\ \A i \in 1 .. last : at(i) = BlockAt(i)
        /\ \A i \in 1 .. last : \A j \in 1 .. Len(BlockAt(i).txs) :
               of(i, j) = SealedAt(i, j) /\ SealedAt(i, j) \in Gone
    <3>1. \A i \in 1 .. last : \A j \in 1 .. Len(BlockAt(i).txs) : SealedAt(i, j) \in Gone
      BY <1>1 DEF BlockInv
    <3> QED
      BY <1>13, <3>1 DEF SealedAt, BlockAt
  <2>2. /\ Len(at(last + 1).txs) = n
        /\ \A j \in 1 .. n : of(last + 1, j) = sequences[j] /\ sequences[j] \in taken
    BY <1>6, <1>7, <1>12, <1>13 DEF block
  <2>3. \A i \in 1 .. last + 1 : i \in 1 .. last \/ i = last + 1
    BY <1>13
  <2>4. 1 .. Len(documents') = 1 .. last + 1
    BY <1>13
  <2>5. SealedInv' =
          (/\ \A s \in Gone' : \E i \in 1 .. Len(documents') : \E j \in 1 .. Len(at(i).txs) :
                   of(i, j) = s
           /\ \A i, k \in 1 .. Len(documents') :
                  \A j \in 1 .. Len(at(i).txs), l \in 1 .. Len(at(k).txs) :
                      of(i, j) = of(k, l) => i = k /\ j = l)
    BY DEF SealedInv, SealedAt, BlockAt
  <2> HIDE DEF at, of
  <2>6. ASSUME NEW s \in Gone'
        PROVE  \E i \in 1 .. last + 1 : \E j \in 1 .. Len(at(i).txs) : of(i, j) = s
    <3>1. CASE s \in Gone
      <4>1. PICK i \in 1 .. last : \E j \in 1 .. Len(BlockAt(i).txs) : SealedAt(i, j) = s
        BY <1>0, <1>1, <3>1 DEF SealedInv
      <4>2. i \in 1 .. last + 1
        BY <1>13
      <4> QED
        BY <2>1, <4>1, <4>2
    <3>2. CASE s \in taken
      <4>1. PICK j \in 1 .. n : s = sequences[j]
        BY <3>2
      <4>2. last + 1 \in 1 .. last + 1
        BY <1>13
      <4> QED
        BY <2>2, <4>1, <4>2
    <3> QED
      BY <1>20, <3>1, <3>2
  <2>7. ASSUME NEW i \in 1 .. last + 1, NEW k \in 1 .. last + 1,
               NEW j \in 1 .. Len(at(i).txs), NEW l \in 1 .. Len(at(k).txs),
               of(i, j) = of(k, l)
        PROVE  i = k /\ j = l
    <3>1. CASE i \in 1 .. last /\ k \in 1 .. last
      <4>1. /\ j \in 1 .. Len(BlockAt(i).txs) /\ l \in 1 .. Len(BlockAt(k).txs)
            /\ SealedAt(i, j) = SealedAt(k, l)
        BY <2>1, <2>7, <3>1
      <4> QED
        BY <1>0, <1>1, <3>1, <4>1 DEF SealedInv
    <3>2. CASE i \in 1 .. last /\ k = last + 1
      BY <1>20, <2>1, <2>2, <2>7, <3>2
    <3>3. CASE i = last + 1 /\ k \in 1 .. last
      BY <1>20, <2>1, <2>2, <2>7, <3>3
    <3>4. CASE i = last + 1 /\ k = last + 1
      BY <1>4, <2>2, <2>7, <3>4
    <3> QED
      BY <2>3, <3>1, <3>2, <3>3, <3>4
  <2> QED
    BY <2>4, <2>5, <2>6, <2>7
<1>26. \A i \in 1 .. Len(documents') : BlockInv(i)'
  <2>1. \A i \in 1 .. Len(documents') : i \in 1 .. last \/ i = last + 1
    BY <1>13
  <2> QED
    BY <1>22, <1>24, <2>1
<1> QED
  BY <1>18, <1>19, <1>21, <1>25, <1>26 DEF IInv

(* Every step preserves the invariant. *)
LEMMA NextInv == IInv /\ [Next]_vars => IInv'
<1> SUFFICES ASSUME IInv, [Next]_vars PROVE IInv'
  OBVIOUS
<1>1. txs_sequence \in Nat /\ txs_sequence + 1 \in Nat
  BY DEF IInv, RowsInv
<1>2. CASE postNewPurchase
  <2>1. PICK order \in Purchases :
            LET unsigned == NewTransaction(txs_sequence + 1, order, NotSigned, publisher)
            IN Store([unsigned EXCEPT !.purchaseSignature =
                         [by |-> publisher, over |-> getPurchaseData(unsigned)]])
    BY <1>2, Zenon DEF postNewPurchase
  <2> DEFINE unsigned == NewTransaction(txs_sequence + 1, order, NotSigned, publisher)
             tx == [unsigned EXCEPT !.purchaseSignature =
                       [by |-> publisher, over |-> getPurchaseData(unsigned)]]
  <2>2. order \in PurchaseOrder
    BY ContentAssumption
  <2>3. tx.sequence = txs_sequence + 1
    <3> HIDE DEF NotSigned
    <3> QED
      BY DEF NewTransaction
  <2> HIDE DEF tx
  <2>4. Hashable(tx) => LET signed == sign(tx, publisher)
                        IN Typed(signed) /\ Signed(signed) /\ signed.sequence = txs_sequence + 1
    BY <1>1, <2>2, NewSigned, Zenon DEF tx
  <2>5. Store(tx)
    BY <2>1, Zenon DEF tx
  <2> QED
    BY <2>3, <2>4, <2>5, StoreInv
<1>3. CASE postCancelPurchase
  <2>1. PICK order \in Cancellations :
            Store(CancelTransaction(txs_sequence + 1,
                                    [order EXCEPT !.sender = publisher], order.sender))
    BY <1>3, Zenon DEF postCancelPurchase
  <2> DEFINE tx == CancelTransaction(txs_sequence + 1,
                                     [order EXCEPT !.sender = publisher], order.sender)
  <2>2. order \in CancelOrder
    BY ContentAssumption
  <2>3. tx.sequence = txs_sequence + 1
    <3> HIDE DEF NotSigned
    <3> QED
      BY DEF CancelTransaction
  <2> HIDE DEF tx
  <2>4. Hashable(tx) => LET signed == sign(tx, publisher)
                        IN Typed(signed) /\ Signed(signed) /\ signed.sequence = txs_sequence + 1
    <3> DEFINE received == [order EXCEPT !.sender = publisher]
               from == order.sender
    <3>1. tx = CancelTransaction(txs_sequence + 1, received, from)
      BY Zenon DEF tx
    <3>2. \A signer : tx = CancelTransaction(txs_sequence + 1, received, signer)
                      /\ Hashable(tx) =>
             LET signed == sign(tx, publisher)
             IN Typed(signed) /\ Signed(signed) /\ signed.sequence = txs_sequence + 1
      BY <1>1, <2>2, CancelSigned, Zenon
    <3> HIDE DEF received, from
    <3> QED
      BY <3>1, <3>2
  <2>5. Store(tx)
    BY <2>1, Zenon DEF tx
  <2> QED
    BY <2>3, <2>4, <2>5, StoreInv
<1>4. CASE work
  BY <1>4, WorkInv
<1>5. CASE UNCHANGED vars
  <2>1. /\ \A i : BlockAt(i)' = BlockAt(i) /\ Newest(i)' = Newest(i)
        /\ \A i, j : SealedAt(i, j)' = SealedAt(i, j) /\ Gone' = Gone
    BY <1>5 DEF vars, BlockAt, Newest, SealedAt, Gone
  <2>2. \A i : BlockInv(i)' = BlockInv(i)
    BY <1>5, <2>1 DEF vars, BlockInv
  <2>3. RowsInv' = RowsInv /\ ListInv' = ListInv /\ SealedInv' = SealedInv
    BY <1>5, <2>1 DEF vars, RowsInv, ListInv, SealedInv
  <2> QED
    BY <1>5, <2>1, <2>2, <2>3 DEF vars, IInv
<1> QED
  BY <1>2, <1>3, <1>4, <1>5 DEF Next

(* The invariant of Content: rows, documents and headers fit the accepted  *)
(* transactions.                                                           *)
THEOREM Invariant == Spec => []IInv
  BY InitInv, NextInv, PTL DEF Spec

----------------------------------------------------------------------------
(* What follows from the invariant. *)

(* A transaction whose texts are written without backslashes is read as    *)
(* it is.                                                                  *)
LEMMA ReadBackAsIs ==
    ASSUME NEW tx, Typed(tx), Plain(tx)
    PROVE  Cleaned(tx) = tx
<1> DEFINE M == toJSON(tx).members
<1>1. \A text \in AllTexts(toJSON(tx)) : Reread[text] = text
  BY DEF Plain
<1>2. ASSUME NEW f \in DOMAIN tx, f # "details", IsText(f, tx[f]) PROVE Reread[tx[f]] = tx[f]
  <2>1. DOMAIN M = DOMAIN tx /\ M[f] = FieldJSON(f, tx[f])
    BY <1>2, MembersFacts
  <2>2. DOMAIN M[f] = {"text"} /\ M[f].text = tx[f]
    BY <1>2, <2>1, FieldFacts
  <2> HIDE DEF M
  <2>3. tx[f] \in TextsIn(M)
    BY <2>1, <2>2 DEF TextsIn
  <2>4. TextsIn(M) \subseteq AllTexts(toJSON(tx))
    BY Zenon DEF AllTexts, M
  <2> QED
    BY <1>1, <2>3, <2>4
<1>3. ASSUME "details" \in DOMAIN tx, NEW i \in DOMAIN tx.details
      PROVE  CleanedDetail(tx.details[i]) = tx.details[i]
  <2> DEFINE detail == tx.details[i]
             members == [field \in DOMAIN detail |-> FieldJSON(field, detail[field])]
             E == M.details.elements
  <2>1. detail \in HashedDetails
    BY <1>3, ElementOfSeq DEF Typed, NewNames, CancelNames
  <2>2. detail = [f \in DOMAIN detail |-> detail[f]]
    BY <2>1 DEF HashedDetails
  <2>3. /\ "details" \in DOMAIN M /\ i \in DOMAIN E /\ E[i] = detailJSON(detail)
    BY <1>3, MembersFacts
  <2>4. E[i].members = members
    <3>1. detailJSON(detail) = [members |-> members]
      BY Zenon DEF detailJSON
    <3> HIDE DEF members
    <3> QED
      BY <2>3, <3>1
  <2> HIDE DEF detail
  <2>5. ASSUME NEW f \in DOMAIN detail, IsText(f, detail[f])
        PROVE  Reread[detail[f]] = detail[f]
    <3>1. f \in DOMAIN members /\ DOMAIN members[f] = {"text"} /\ members[f].text = detail[f]
      BY <2>5, FieldFacts
    <3> HIDE DEF members
    <3>2. detail[f] \in TextsIn(members)
      BY <3>1 DEF TextsIn
    <3> HIDE DEF E
    <3>3. TextsIn(members) \in {TextsIn(E[j].members) : j \in DOMAIN E}
      BY <2>3, <2>4
    <3>4. {TextsIn(E[j].members) : j \in DOMAIN E} =
              {TextsIn(M.details.elements[j].members) : j \in DOMAIN M.details.elements}
      BY DEF E
    <3>5. UNION {TextsIn(M.details.elements[j].members) : j \in DOMAIN M.details.elements}
              \subseteq AllTexts(toJSON(tx))
      <4> HIDE DEF members
      <4> QED
        BY <2>3, Zenon DEF AllTexts
    <3> HIDE DEF M
    <3> QED
      BY <1>1, <3>2, <3>3, <3>4, <3>5
  <2>6. \A f \in DOMAIN detail :
            (IF IsText(f, detail[f]) THEN Reread[detail[f]] ELSE detail[f]) = detail[f]
    BY <2>5
  <2> HIDE DEF members, E
  <2>7. CleanedDetail(detail) = detail
    BY <2>2, <2>6 DEF CleanedDetail
  <2> QED
    BY <2>7 DEF detail
<1>4. "details" \in DOMAIN tx =>
          [i \in DOMAIN tx.details |-> CleanedDetail(tx.details[i])] = tx.details
  <2> SUFFICES ASSUME "details" \in DOMAIN tx
               PROVE  [i \in DOMAIN tx.details |-> CleanedDetail(tx.details[i])] = tx.details
    OBVIOUS
  <2>1. tx.details = [i \in DOMAIN tx.details |-> tx.details[i]]
    <3>1. tx.details \in Seq(HashedDetails)
      BY DEF Typed, NewNames, CancelNames
    <3> QED
      BY <3>1
  <2> QED
    BY <1>3, <2>1
<1>5. \A f \in DOMAIN tx : Cleaned(tx)[f] = tx[f]
  <2> HIDE DEF M
  <2>1. ASSUME NEW f \in DOMAIN tx PROVE Cleaned(tx)[f] = tx[f]
    <3>1. CASE f = "details"
      BY <1>4, <3>1 DEF Cleaned
    <3>2. CASE f # "details"
      BY <1>2, <3>2 DEF Cleaned
    <3> QED
      BY <3>1, <3>2
  <2> QED
    BY <2>1
<1>6. DOMAIN Cleaned(tx) = DOMAIN tx /\ Cleaned(tx) = [f \in DOMAIN tx |-> Cleaned(tx)[f]]
  BY DEF Cleaned
<1> DEFINE clean == Cleaned(tx)
<1> HIDE DEF clean, M
<1>7. clean = [f \in DOMAIN tx |-> clean[f]] /\ \A f \in DOMAIN tx : clean[f] = tx[f]
  BY <1>5, <1>6 DEF clean
<1>8. tx = [f \in DOMAIN tx |-> tx[f]]
  BY DEF Typed
<1>9. clean = tx
  BY <1>7, <1>8
<1> QED
  BY <1>9 DEF clean

(* The invariant gives the property. *)
LEMMA PublishedLemma == IInv => PublishedIsAccepted
<1> SUFFICES ASSUME IInv PROVE PublishedIsAccepted
  OBVIOUS
<1>1. DOMAIN documents = 1 .. Len(documents) /\ Len(documents) \in Nat
  BY DEF IInv, ListInv
<1>2. ASSUME NEW i \in DOMAIN documents
      PROVE  /\ RevivesBlock(documents[i])
             /\ BlockAt(i).header.prevBlock =
                    IF i = 1 THEN NullHash ELSE HeaderHash(BlockAt(i - 1).header)
  <2>1. BlockInv(i)
    BY <1>1, <1>2 DEF IInv
  <2>2. i - 1 = 0 <=> i = 1
    BY <1>1, <1>2
  <2> QED
    BY <2>1, <2>2 DEF BlockInv, Newest
<1>3. ASSUME NEW i \in DOMAIN documents, NEW j \in DOMAIN BlockAt(i).txs,
             Plain(accepted[BlockAt(i).txs[j].sequence])
      PROVE  LET tx == BlockAt(i).txs[j]
             IN /\ tx = accepted[tx.sequence]
                /\ verify(tx)
                /\ tx.type = TypeNew => tx.purchaseSignature.over = getPurchaseData(tx)
  <2> DEFINE txs == BlockAt(i).txs
             s == SealedAt(i, j)
             tx == accepted[s]
  <2>1. j \in 1 .. Len(txs) /\ s \in DOMAIN accepted /\ txs[j] = Cleaned(tx)
    <3>1. BlockInv(i) /\ TypedList(txs)
      BY <1>1, <1>3 DEF IInv, BlockInv
    <3> HIDE DEF txs
    <3>2. DOMAIN txs = 1 .. Len(txs)
      BY <3>1 DEF TypedList
    <3> QED
      BY <1>3, <3>1, <3>2 DEF BlockInv, Gone, txs
  <2>2. Typed(tx) /\ Signed(tx) /\ tx.sequence = s
    BY <2>1 DEF IInv, RowsInv
  <2>3. Plain(tx)
    BY <1>3 DEF SealedAt
  <2> HIDE DEF tx
  <2>4. txs[j] = tx
    BY <2>1, <2>2, <2>3, ReadBackAsIs
  <2>5. verify(tx)
    <3>1. hashFull(tx).sha = computeHash(tx)
      BY DEF hashFull
    <3>2. tx.signature.over = computeHash(tx) /\ tx.signature.by = tx.signer
      BY <2>2 DEF Signed
    <3> QED
      BY <3>1, <3>2 DEF verify, verifyMessage
  <2>6. tx.type = TypeNew => tx.purchaseSignature.over = getPurchaseData(tx)
    BY <2>2 DEF Signed
  <2> QED
    BY <2>4, <2>5, <2>6 DEF SealedAt, tx
<1> QED
  BY <1>2, <1>3, Zenon DEF PublishedIsAccepted, BlockAt

(* A reader can revive every document, follow the chain of headers, and    *)
(* finds the transactions whose texts JSON.stringify writes without a      *)
(* backslash as they were signed (Node.work, Block.reviver).               *)
THEOREM PublishedIsAcceptedAlways == Spec => []PublishedIsAccepted
  BY Invariant, PublishedLemma, PTL

(* The invariant gives the property. *)
LEMMA SealedLemma == IInv => SealedByHash
<1> SUFFICES ASSUME IInv, NEW sequence \in DOMAIN accepted
             PROVE  LET holding == {i \in DOMAIN documents :
                           \E j \in DOMAIN documents[i].members.txs.elements :
                               documents[i].members.txs.elements[j].members.sequence.digits
                                   = sequence}
                    IN IF sequence \in DOMAIN rows THEN holding = {} ELSE Cardinality(holding) = 1
  BY Zenon DEF SealedByHash
<1> DEFINE E(i) == documents[i].members.txs.elements
           holds(i) == \E j \in DOMAIN E(i) : E(i)[j].members.sequence.digits = sequence
           holding == {i \in DOMAIN documents : holds(i)}
<1>1. DOMAIN documents = 1 .. Len(documents) /\ Len(documents) \in Nat
  BY DEF IInv, ListInv
<1>2. ASSUME NEW i \in 1 .. Len(documents)
      PROVE  holds(i) <=> \E j \in 1 .. Len(BlockAt(i).txs) : SealedAt(i, j) = sequence
  <2> DEFINE txs == BlockAt(i).txs
             n == Len(txs)
  <2>1. /\ E(i) = [j \in 1 .. n |-> toJSON(txs[j])] /\ TypedList(txs)
        /\ \A j \in 1 .. n : SealedAt(i, j) = txs[j].sequence
    BY <1>2 DEF IInv, BlockInv, SealedAt
  <2> HIDE DEF n, txs
  <2>2. ASSUME NEW j \in 1 .. n PROVE toJSON(txs[j]).members.sequence.digits = txs[j].sequence
    <3>1. Typed(txs[j])
      BY <2>1 DEF TypedList, n
    <3>2. "sequence" \in DOMAIN txs[j] /\ "sequence" # "details"
      BY <3>1 DEF Typed, NewNames, CancelNames
    <3>3. toJSON(txs[j]).members["sequence"] = FieldJSON("sequence", txs[j]["sequence"])
      BY <3>2, MembersFacts, Zenon
    <3> QED
      BY <3>3 DEF FieldJSON, NumberFields
  <2>3. DOMAIN E(i) = 1 .. n /\ \A j \in 1 .. n : E(i)[j] = toJSON(txs[j])
    BY <2>1
  <2> HIDE DEF E
  <2>4. (\E j \in DOMAIN E(i) : E(i)[j].members.sequence.digits = sequence)
            <=> \E j \in 1 .. n : SealedAt(i, j) = sequence
    BY <2>1, <2>2, <2>3
  <2> QED
    BY <2>4 DEF n, txs
<1> HIDE DEF holds
<1>3. CASE sequence \in DOMAIN rows
  <2>1. ASSUME NEW i \in 1 .. Len(documents), holds(i) PROVE FALSE
    <3>1. PICK j \in 1 .. Len(BlockAt(i).txs) : SealedAt(i, j) = sequence
      BY <1>2, <2>1
    <3>2. SealedAt(i, j) \in Gone
      BY DEF IInv, BlockInv
    <3> QED
      BY <1>3, <3>1, <3>2 DEF Gone
  <2>2. holding = {}
    BY <1>1, <2>1
  <2> QED
    BY <1>3, <2>2 DEF holds
<1>4. CASE sequence \notin DOMAIN rows
  <2>1. sequence \in Gone
    BY <1>4 DEF Gone
  <2>2. PICK i \in 1 .. Len(documents) : \E j \in 1 .. Len(BlockAt(i).txs) :
                                             SealedAt(i, j) = sequence
    BY <2>1 DEF IInv, SealedInv
  <2>3. ASSUME NEW k \in 1 .. Len(documents), holds(k) PROVE k = i
    <3>1. PICK l \in 1 .. Len(BlockAt(k).txs) : SealedAt(k, l) = sequence
      BY <1>2, <2>3
    <3>2. PICK j \in 1 .. Len(BlockAt(i).txs) : SealedAt(i, j) = sequence
      BY <2>2
    <3> QED
      BY <3>1, <3>2 DEF IInv, SealedInv
  <2>4. holds(i)
    BY <1>2, <2>2
  <2>5. holding = {i}
    BY <1>1, <2>2, <2>3, <2>4
  <2>6. Cardinality({i}) = 1
    BY FS_Singleton
  <2> QED
    BY <1>4, <2>5, <2>6 DEF holds
<1> QED
  BY <1>3, <1>4

(* Each accepted transaction is either in table txs or in exactly one      *)
(* document, though rows are deleted by hash                               *)
(* (StorePurchaseStorage.remove).                                          *)
THEOREM SealedByHashAlways == Spec => []SealedByHash
  BY Invariant, SealedLemma, PTL

(* The values SignatureBinds tries are ones the field can have. *)
LEMMA AlternativesFit ==
    ASSUME NEW field, field # "type", NEW value \in Alternatives(field)
    PROVE  /\ Fits(field, value) /\ (field \in AmountFields => value >= 0)
           /\ field = "productId" => value \in Texts
<1>1. CASE field \in NumberFields
  BY <1>1, ContentAssumption
     DEF Alternatives, Fits, Writes, NumberFields, AmountFields
<1>2. CASE field \in AmountFields
  <2>1. value \in BigNumber \cap Nat
    BY <1>2, ContentAssumption DEF Alternatives, NumberFields, AmountFields
  <2> QED
    BY <1>2, <2>1 DEF Fits, NumberFields, AmountFields
<1>3. CASE field \notin NumberFields \cup AmountFields
  BY <1>3 DEF Alternatives, Fits
<1> QED
  BY <1>1, <1>2, <1>3

(* A good signature is over the hash of what it is checked with. *)
LEMMA VerifiedHash ==
    ASSUME NEW tx, Typed(tx), verify(tx)
    PROVE  tx.signature.over = computeHash(tx)
<1>1. "signer" \in DOMAIN tx /\ Fits("signer", tx.signer)
  BY DEF Typed, NewNames, CancelNames, SignatureFields
<1>2. tx.signer \in Texts
  BY <1>1 DEF Fits, NumberFields, AmountFields
<1>3. tx.signer # "nobody"
  BY <1>2, ContentAssumption
<1>4. hashFull(tx).sha = computeHash(tx)
  BY DEF hashFull
<1> QED
  BY <1>3, <1>4 DEF verify, verifyMessage

(* Changing one field breaks the signature, *)
LEMMA FieldBound ==
    ASSUME NEW tx, Typed(tx), verify(tx),
           NEW field \in DOMAIN tx \ ({"type", "details"} \cup SignatureFields),
           NEW value \in Alternatives(field) \ {tx[field]}
    PROVE  ~ verify([tx EXCEPT ![field] = value])
<1> DEFINE other == [tx EXCEPT ![field] = value]
<1>1. /\ DOMAIN other = DOMAIN tx /\ other[field] = value
      /\ \A f \in DOMAIN tx : f # field => other[f] = tx[f]
      /\ other = [f \in DOMAIN tx |-> other[f]]
  <2>1. tx = [f \in DOMAIN tx |-> tx[f]]
    BY DEF Typed
  <2> QED
    BY <2>1
<1> HIDE DEF other
<1>2. /\ "type" \in DOMAIN tx /\ "signature" \in DOMAIN tx
      /\ field # "type" /\ field # "signature" /\ field # "details"
  BY DEF Typed, NewNames, CancelNames, SignatureFields
<1>3. Fits(field, value) /\ (field \in AmountFields => value >= 0)
  BY <1>2, AlternativesFit
<1>4. other.type = tx.type /\ other.signature = tx.signature
      /\ ("details" \in DOMAIN tx => other.details = tx.details)
  BY <1>1, <1>2
<1>5. \A f \in DOMAIN tx \ ({"details"} \cup SignatureFields) : Fits(f, other[f])
  <2>1. ASSUME NEW f \in DOMAIN tx \ ({"details"} \cup SignatureFields) PROVE Fits(f, other[f])
    <3>1. CASE f = field
      BY <1>1, <1>3, <3>1
    <3>2. CASE f # field
      BY <1>1, <3>2 DEF Typed
    <3> QED
      BY <3>1, <3>2
  <2> QED
    BY <2>1
<1>6. Typed(other)
  BY <1>1, <1>4, <1>5 DEF Typed, NewNames, CancelNames
<1>7. field \in {Leading(tx)[i] : i \in DOMAIN Leading(tx)}
      /\ {Leading(tx)[i] : i \in DOMAIN Leading(tx)} \subseteq DOMAIN tx
  <2>1. CASE tx.type = TypeNew
    <3>1. DOMAIN tx = NewNames \cup {"details"} \cup SignatureFields
      BY <2>1, TypedFields
    <3>2. {Leading(tx)[i] : i \in DOMAIN Leading(tx)} = NewNames
      BY <2>1, NamesFacts DEF Leading
    <3> QED
      BY <3>1, <3>2
  <2>2. CASE tx.type # TypeNew
    <3>1. DOMAIN tx = CancelNames \cup {"signature"}
      BY <2>2, TypedFields
    <3>2. {Leading(tx)[i] : i \in DOMAIN Leading(tx)} = CancelNames
      BY <2>2, CancelNamesFacts DEF Leading
    <3> QED
      BY <3>1, <3>2 DEF SignatureFields
  <2> QED
    BY <2>1, <2>2
<1>8. tx.type = TypeNew => tx.details = other.details
  BY <1>4, TypedFields
<1>9. ASSUME verify(other) PROVE FALSE
  <2>1. computeHash(tx) = computeHash(other)
    BY <1>4, <1>6, <1>9, VerifiedHash
  <2>2. \A f \in {Leading(tx)[i] : i \in DOMAIN Leading(tx)} : f # field => tx[f] = other[f]
    BY <1>1, <1>7
  <2>3. tx[field] = other[field]
    BY <1>1, <1>3, <1>4, <1>6, <1>7, <1>8, <2>1, <2>2, FieldHashed
  <2> QED
    BY <1>1, <2>3
<1> QED
  BY <1>9 DEF other

(* and so does changing one field of one detail. *)
LEMMA DetailBound ==
    ASSUME NEW tx, Typed(tx), verify(tx), tx.type = TypeNew, NEW k \in DOMAIN tx.details,
           NEW field \in DOMAIN tx.details[k], TextIds(tx),
           NEW value \in Alternatives(field) \ {tx.details[k][field]}
    PROVE  ~ verify([tx EXCEPT !.details[k][field] = value])
<1> DEFINE other == [tx EXCEPT !.details[k][field] = value]
           old == tx.details[k]
           new == [old EXCEPT ![field] = value]
           list == [tx.details EXCEPT ![k] = new]
<1>1. /\ DOMAIN tx = NewNames \cup {"details"} \cup SignatureFields
      /\ tx.details \in Seq(HashedDetails)
  BY TypedFields
<1>2. old \in HashedDetails /\ DOMAIN old = DetailNames /\ old.productId \in Texts
  <2>1. old \in HashedDetails /\ old.productId \in Texts
    BY <1>1, ElementOfSeq DEF TextIds
  <2> HIDE DEF old
  <2> QED
    BY <2>1 DEF HashedDetails, DetailNames
<1>3. /\ DOMAIN other = DOMAIN tx /\ other.details = list
      /\ \A f \in DOMAIN tx : f # "details" => other[f] = tx[f]
      /\ other = [f \in DOMAIN tx |-> other[f]]
  <2>1. tx = [f \in DOMAIN tx |-> tx[f]]
    BY DEF Typed
  <2>2. other = [tx EXCEPT !["details"] = list]
    OBVIOUS
  <2> HIDE DEF other, list
  <2> QED
    BY <1>1, <2>1, <2>2
<1> HIDE DEF other
<1>4. field \in DetailNames /\ field # "type"
  BY <1>2 DEF DetailNames
<1>5. /\ Fits(field, value) /\ (field \in AmountFields => value >= 0)
      /\ field = "productId" => value \in Texts
  BY <1>4, AlternativesFit
<1>6. /\ DOMAIN new = DetailNames /\ new[field] = value
      /\ \A f \in DetailNames : f # field => new[f] = old[f]
      /\ new = [f \in DetailNames |-> new[f]]
  <2>1. old = [f \in DetailNames |-> old[f]]
    BY <1>2 DEF HashedDetails, DetailNames
  <2> HIDE DEF old
  <2> QED
    BY <1>4, <2>1
<1> HIDE DEF new
<1>7. new \in HashedDetails /\ new.productId \in Texts
  <2>1. old.productId \in Texts /\ old.amount \in BigNumber /\ old.providePercent \in BigNumber
    BY <1>2 DEF HashedDetails
  <2>2. /\ field = "productId" => value \in Texts
        /\ field = "amount" => value \in BigNumber
        /\ field = "providePercent" => value \in BigNumber
    BY <1>5 DEF Fits, NumberFields, AmountFields
  <2> HIDE DEF old
  <2>3. new.productId \in Texts /\ new.amount \in BigNumber /\ new.providePercent \in BigNumber
    BY <1>4, <1>6, <2>1, <2>2 DEF DetailNames
  <2> QED
    BY <1>6, <2>3 DEF HashedDetails, DetailNames
<1>8. /\ list \in Seq(HashedDetails) /\ Len(list) = Len(tx.details) /\ list[k] = new
      /\ \A i \in DOMAIN tx.details : i # k => tx.details[i] = list[i]
  BY <1>1, <1>7, ExceptSeq
<1> HIDE DEF list
<1>9. other.type = tx.type /\ other.signature = tx.signature
      /\ \A f \in NewNames : tx[f] = other[f]
  BY <1>1, <1>3 DEF NewNames, SignatureFields
<1>10. Typed(other)
  <2>1. \A f \in DOMAIN tx \ ({"details"} \cup SignatureFields) : Fits(f, other[f])
    BY <1>3 DEF Typed
  <2> QED
    BY <1>1, <1>3, <1>8, <1>9, <2>1 DEF Typed
<1>11. ASSUME verify(other) PROVE FALSE
  <2>1. computeHash(tx) = computeHash(other)
    BY <1>9, <1>10, <1>11, VerifiedHash
  <2>2. /\ \A f \in DetailNames : f # field => tx.details[k][f] = other.details[k][f]
        /\ Len(tx.details) = Len(other.details) /\ other.details[k][field] = value
        /\ \A i \in DOMAIN tx.details : i # k => tx.details[i] = other.details[i]
    BY <1>3, <1>4, <1>6, <1>8 DEF old
  <2>3. tx.details[k][field] = other.details[k][field]
    <3>1. tx.details[k].productId \in Texts /\ other.details[k].productId \in Texts
      BY <1>2, <1>3, <1>7, <1>8 DEF old
    <3> QED
      BY <1>4, <1>5, <1>9, <1>10, <2>1, <2>2, <3>1, DetailHashed
  <2> QED
    BY <2>2, <2>3
<1> QED
  BY <1>11 DEF other

(* All published transactions are typed. *)
LEMMA SignatureLemma == IInv => SignatureBinds
<1> SUFFICES ASSUME IInv PROVE SignatureBinds
  OBVIOUS
<1>1. ASSUME NEW i \in DOMAIN documents, NEW j \in DOMAIN BlockAt(i).txs
      PROVE  Typed(BlockAt(i).txs[j]) /\ TextIds(BlockAt(i).txs[j])
  <2> DEFINE txs == BlockAt(i).txs
  <2>1. TypedList(txs) /\ \A l \in 1 .. Len(txs) : TextIds(txs[l])
    BY <1>1 DEF IInv, ListInv, BlockInv
  <2> HIDE DEF txs
  <2>2. DOMAIN txs = 1 .. Len(txs)
    BY <2>1 DEF TypedList
  <2> QED
    BY <1>1, <2>1, <2>2 DEF TypedList, txs
<1>2. ASSUME NEW block \in Published, NEW j \in DOMAIN block.txs
      PROVE  Typed(block.txs[j]) /\ TextIds(block.txs[j])
  BY <1>1, <1>2 DEF Published, BlockAt
<1> QED
  BY <1>2, FieldBound, DetailBound DEF SignatureBinds

(* Changing one signed field of a published transaction breaks its         *)
(* signature, for every number that can be hashed, every amount that is    *)
(* not negative and every text (Transaction.computeHash, Hash.hashPart):   *)
(* OtherNumbers and OtherAmounts may be all of them.                       *)
THEOREM SignatureBindsAlways == Spec => []SignatureBinds
  BY Invariant, SignatureLemma, PTL

----------------------------------------------------------------------------
(* The Merkle tree. *)

(* A sequence of known length, of whatever elements.                       *)
Listing(list) == Len(list) \in Nat /\ list = [i \in 1 .. Len(list) |-> list[i]]

(* What \o does to listings. *)
LEMMA Concatenated ==
    ASSUME NEW list, NEW more, Listing(list), Listing(more)
    PROVE  /\ Listing(list \o more) /\ Len(list \o more) = Len(list) + Len(more)
           /\ \A i \in 1 .. Len(more) : (list \o more)[Len(list) + i] = more[i]
<1> DEFINE S == {list[i] : i \in 1 .. Len(list)} \cup {more[i] : i \in 1 .. Len(more)}
           whole == list \o more
<1>1. list \in Seq(S) /\ more \in Seq(S)
  <2>1. ASSUME NEW part, Listing(part), \A i \in 1 .. Len(part) : part[i] \in S
        PROVE  part \in Seq(S)
    <3> HIDE DEF S
    <3> DEFINE n == Len(part)
    <3>1. n \in Nat /\ part = [i \in 1 .. n |-> part[i]] /\ \A i \in 1 .. n : part[i] \in S
      BY <2>1 DEF Listing
    <3> HIDE DEF n
    <3>2. part \in [1 .. n -> S]
      BY <3>1
    <3> QED
      BY <3>1, <3>2
  <2>2. /\ \A i \in 1 .. Len(list) : list[i] \in S
        /\ \A i \in 1 .. Len(more) : more[i] \in S
    OBVIOUS
  <2> HIDE DEF S
  <2> QED
    BY <2>1, <2>2
<1> HIDE DEF S
<1>2. /\ whole \in Seq(S) /\ Len(whole) = Len(list) + Len(more)
      /\ \A i \in 1 .. Len(whole) :
             whole[i] = IF i <= Len(list) THEN list[i] ELSE more[i - Len(list)]
  BY <1>1, ConcatProperties
<1> HIDE DEF whole
<1>3. Listing(whole)
  BY <1>2, LenProperties DEF Listing
<1>4. \A i \in 1 .. Len(more) : whole[Len(list) + i] = more[i]
  <2>1. Len(list) \in Nat /\ Len(more) \in Nat
    BY <1>1, LenProperties
  <2> QED
    BY <1>2, <2>1
<1> QED
  BY <1>2, <1>3, <1>4 DEF whole

(* How many nodes are above n nodes. *)
LEMMA HalfFacts ==
    ASSUME NEW n \in Nat, n > 0
    PROVE  /\ Half(n) \in Nat /\ Half(n) > 0 /\ (n > 1 => Half(n) < n)
           /\ 2 * Half(n) = n \/ 2 * Half(n) = n + 1
  BY DEF Half

(* One level of the tree above another. *)
LEMMA AboveFacts ==
    ASSUME NEW level, Listing(level), Len(level) > 0
    PROVE  /\ Listing(Above(level)) /\ Len(Above(level)) = Half(Len(level))
           /\ \A i \in 1 .. Half(Len(level)) :
                  /\ Above(level)[i] =
                         hashMulti(level[2 * i - 1],
                                   level[IF 2 * i <= Len(level) THEN 2 * i ELSE Len(level)])
                  /\ 2 * i - 1 \in 1 .. Len(level)
<1> DEFINE n == Len(level)
           h == Half(n)
           node(i) == hashMulti(level[2 * i - 1], level[IF 2 * i <= n THEN 2 * i ELSE n])
<1>1. n \in Nat /\ n > 0
  BY DEF Listing
<1>2. h \in Nat /\ \A i \in 1 .. h : 2 * i - 1 \in 1 .. n
  <2>1. h \in Nat /\ (2 * h = n \/ 2 * h = n + 1)
    BY <1>1, HalfFacts
  <2> HIDE DEF h, n
  <2> QED
    BY <1>1, <2>1
<1>3. Above(level) = [i \in 1 .. h |-> node(i)]
  BY Zenon DEF Above
<1> HIDE DEF node, h
<1>4. Len(Above(level)) = h /\ \A i \in 1 .. h : Above(level)[i] = node(i)
  BY <1>2, <1>3
<1>5. Above(level) = [i \in 1 .. h |-> Above(level)[i]]
  BY <1>3, <1>4
<1> QED
  BY <1>2, <1>4, <1>5 DEF Listing, node, h

(* The levels above a sequence, as the two recursive functions have them. *)
Levels(list, level) ==
    level = [k \in 0 .. Len(list) |-> IF k = 0 THEN list ELSE Above(level[k - 1])]

(* The rounds of buildMerkleTree, as its recursive function has them. *)
Rounds(list, loop) ==
    loop = [k \in 0 .. Len(list) |->
               IF k = 0 THEN [tree |-> list, offset |-> 0, length |-> Len(list)]
               ELSE Round(loop[k - 1])]

(* There are such levels, *)
LEMMA LevelsExist ==
    ASSUME NEW list, Len(list) \in Nat
    PROVE  \E level : Levels(list, level)
<1> DEFINE good == {n \in Nat : \E f : f = [k \in 0 .. n |-> IF k = 0 THEN list
                                                            ELSE Above(f[k - 1])]}
<1>1. 0 \in good
  <2> DEFINE f == [k \in 0 .. 0 |-> list]
  <2>1. f = [k \in 0 .. 0 |-> IF k = 0 THEN list ELSE Above(f[k - 1])]
    OBVIOUS
  <2> HIDE DEF f
  <2> QED
    BY <2>1
<1>2. ASSUME NEW n \in Nat, n \in good PROVE n + 1 \in good
  <2>1. PICK f : f = [k \in 0 .. n |-> IF k = 0 THEN list ELSE Above(f[k - 1])]
    BY <1>2
  <2> DEFINE g == [k \in 0 .. n + 1 |-> IF k <= n THEN f[k] ELSE Above(f[n])]
  <2>2. \A k \in 0 .. n : f[k] = IF k = 0 THEN list ELSE Above(f[k - 1])
    BY <2>1
  <2>3. ASSUME NEW k \in 0 .. n + 1 PROVE g[k] = IF k = 0 THEN list ELSE Above(g[k - 1])
    <3>1. CASE k = 0
      BY <2>2, <3>1
    <3>2. CASE k # 0 /\ k <= n
      <4>1. k - 1 \in 0 .. n + 1 /\ k - 1 <= n /\ k \in 0 .. n
        BY <3>2
      <4> QED
        BY <2>2, <3>2, <4>1
    <3>3. CASE k = n + 1
      <4>1. k - 1 = n /\ n \in 0 .. n + 1 /\ ~ (k <= n) /\ k # 0
        BY <3>3
      <4> QED
        BY <3>3, <4>1
    <3> QED
      BY <3>1, <3>2, <3>3
  <2>4. g = [k \in 0 .. n + 1 |-> g[k]]
    OBVIOUS
  <2> HIDE DEF g
  <2>5. g = [k \in 0 .. n + 1 |-> IF k = 0 THEN list ELSE Above(g[k - 1])]
    BY <2>3, <2>4
  <2>6. n + 1 \in Nat
    OBVIOUS
  <2> QED
    BY <2>5, <2>6
<1>3. good \in SUBSET Nat
  OBVIOUS
<1> HIDE DEF good
<1>4. Len(list) \in good
  <2>1. \A n \in good : n \in Nat /\ n + 1 \in good
    BY <1>2, <1>3
  <2> QED
    BY <1>1, <1>3, <2>1, Induct
<1> QED
  BY <1>4, Zenon DEF good, Levels

(* and such rounds. *)
LEMMA RoundsExist ==
    ASSUME NEW list, Len(list) \in Nat
    PROVE  \E loop : Rounds(list, loop)
<1> DEFINE start == [tree |-> list, offset |-> 0, length |-> Len(list)]
           good == {n \in Nat : \E f : f = [k \in 0 .. n |-> IF k = 0 THEN start
                                                            ELSE Round(f[k - 1])]}
<1> HIDE DEF start
<1>1. 0 \in good
  <2> DEFINE f == [k \in 0 .. 0 |-> start]
  <2>1. f = [k \in 0 .. 0 |-> IF k = 0 THEN start ELSE Round(f[k - 1])]
    OBVIOUS
  <2> HIDE DEF f
  <2> QED
    BY <2>1
<1>2. ASSUME NEW n \in Nat, n \in good PROVE n + 1 \in good
  <2>1. PICK f : f = [k \in 0 .. n |-> IF k = 0 THEN start ELSE Round(f[k - 1])]
    BY <1>2
  <2> DEFINE g == [k \in 0 .. n + 1 |-> IF k <= n THEN f[k] ELSE Round(f[n])]
  <2>2. \A k \in 0 .. n : f[k] = IF k = 0 THEN start ELSE Round(f[k - 1])
    BY <2>1
  <2>3. ASSUME NEW k \in 0 .. n + 1 PROVE g[k] = IF k = 0 THEN start ELSE Round(g[k - 1])
    <3>1. CASE k = 0
      BY <2>2, <3>1
    <3>2. CASE k # 0 /\ k <= n
      <4>1. k - 1 \in 0 .. n + 1 /\ k - 1 <= n /\ k \in 0 .. n
        BY <3>2
      <4> QED
        BY <2>2, <3>2, <4>1
    <3>3. CASE k = n + 1
      <4>1. k - 1 = n /\ n \in 0 .. n + 1 /\ ~ (k <= n) /\ k # 0
        BY <3>3
      <4> QED
        BY <3>3, <4>1
    <3> QED
      BY <3>1, <3>2, <3>3
  <2>4. g = [k \in 0 .. n + 1 |-> g[k]]
    OBVIOUS
  <2> HIDE DEF g
  <2>5. g = [k \in 0 .. n + 1 |-> IF k = 0 THEN start ELSE Round(g[k - 1])]
    BY <2>3, <2>4
  <2>6. n + 1 \in Nat
    OBVIOUS
  <2> QED
    BY <2>5, <2>6
<1>3. good \in SUBSET Nat
  OBVIOUS
<1> HIDE DEF good
<1>4. Len(list) \in good
  <2>1. \A n \in good : n \in Nat /\ n + 1 \in good
    BY <1>2, <1>3
  <2> QED
    BY <1>1, <1>3, <2>1, Induct
<1> QED
  BY <1>4, Zenon DEF good, start, Rounds

(* The levels of the tree over list, up to the root.                       *)
Tower(list, level, top) ==
    /\ top \in 1 .. Len(list)
    /\ level[0] = list /\ \A k \in 1 .. top : level[k] = Above(level[k - 1])
    /\ \A k \in 0 .. top : Listing(level[k]) /\ Len(level[k]) > 0
    /\ \A k \in 1 .. top - 1 : Len(level[k]) > 1
    /\ Len(level[top]) = 1

(* The levels get shorter until there is a root. *)
LEMMA TowerFacts ==
    ASSUME NEW list, Listing(list), Len(list) > 0, NEW level, Levels(list, level)
    PROVE  /\ \E top \in 1 .. Len(list) :
                  Len(level[top]) = 1 /\ \A j \in 1 .. top - 1 : Len(level[j]) > 1
           /\ \A top \in 1 .. Len(list) :
                  Len(level[top]) = 1 /\ (\A j \in 1 .. top - 1 : Len(level[j]) > 1)
                      => Tower(list, level, top)
<1> DEFINE n == Len(list)
           size(k) == Len(level[k])
           good == {k \in Nat : k <= n => Listing(level[k]) /\ size(k) > 0
                                          /\ (size(k) = 1 \/ size(k) <= n - k)}
<1>1. n \in Nat /\ n > 0
  BY DEF Listing
<1>2. level[0] = list /\ \A k \in 1 .. n : level[k] = Above(level[k - 1])
  <2>1. level = [k \in 0 .. n |-> IF k = 0 THEN list ELSE Above(level[k - 1])]
    BY Zenon DEF Levels
  <2> HIDE DEF n
  <2>2. \A k \in 0 .. n : level[k] = IF k = 0 THEN list ELSE Above(level[k - 1])
    BY <2>1
  <2>3. 0 \in 0 .. n /\ \A k \in 1 .. n : k \in 0 .. n /\ k # 0
    BY <1>1
  <2> QED
    BY <2>2, <2>3
<1>3. 0 \in good
  <2>1. level[0] = list /\ size(0) = n
    BY <1>2
  <2> HIDE DEF n
  <2> QED
    BY <1>1, <2>1
<1>4. ASSUME NEW k \in good PROVE k + 1 \in good
  <2> HIDE DEF n
  <2> SUFFICES ASSUME k + 1 <= n
               PROVE  Listing(level[k + 1]) /\ size(k + 1) > 0
                      /\ (size(k + 1) = 1 \/ size(k + 1) <= n - (k + 1))
    OBVIOUS
  <2>1. k \in Nat /\ Listing(level[k]) /\ size(k) > 0 /\ (size(k) = 1 \/ size(k) <= n - k)
    BY <1>1
  <2>2. level[k + 1] = Above(level[k])
    <3>1. k + 1 \in 1 .. n /\ (k + 1) - 1 = k
      BY <1>1, <2>1
    <3> QED
      BY <1>2, <3>1
  <2>3. Listing(level[k + 1]) /\ size(k + 1) = Half(size(k)) /\ size(k) \in Nat
    BY <2>1, <2>2, AboveFacts DEF Listing
  <2> HIDE DEF size, good
  <2>4. Half(size(k)) \in Nat /\ Half(size(k)) > 0 /\ (size(k) > 1 => Half(size(k)) < size(k))
        /\ (2 * Half(size(k)) = size(k) \/ 2 * Half(size(k)) = size(k) + 1)
    BY <2>1, <2>3, HalfFacts
  <2> QED
    BY <1>1, <2>1, <2>3, <2>4
<1>5. \A k \in 0 .. n : Listing(level[k]) /\ size(k) \in Nat /\ size(k) > 0
                        /\ (size(k) = 1 \/ size(k) <= n - k)
  <2>1. good \in SUBSET Nat
    OBVIOUS
  <2> HIDE DEF good
  <2>2. good = Nat
    BY <1>3, <1>4, <2>1, Induct
  <2> HIDE DEF n, size
  <2>3. ASSUME NEW k \in 0 .. n
        PROVE  Listing(level[k]) /\ size(k) > 0 /\ (size(k) = 1 \/ size(k) <= n - k)
    <3>1. k \in good /\ k <= n
      BY <1>1, <2>2
    <3> QED
      BY <3>1 DEF good
  <2>4. \A k \in 0 .. n : size(k) \in Nat
    BY <2>3 DEF size, Listing
  <2> QED
    BY <2>3, <2>4
<1> HIDE DEF good
<1>6. \E top \in 1 .. n : size(top) = 1 /\ \A j \in 1 .. top - 1 : size(j) > 1
  <2> HIDE DEF n, size
  <2> DEFINE single == {k \in 1 .. n : size(k) = 1}
  <2>1. n \in single /\ single \in SUBSET Nat
    BY <1>1, <1>5
  <2>2. PICK top \in single : \A k \in single : top <= k
    BY <2>1, Least
  <2>3. ASSUME NEW j \in 1 .. top - 1 PROVE size(j) > 1
    <3>1. j \in 1 .. n /\ j \notin single /\ j \in 0 .. n
      BY <1>1, <2>2
    <3> QED
      BY <1>5, <3>1
  <2> QED
    BY <2>2, <2>3
<1>7. ASSUME NEW top \in 1 .. n, size(top) = 1, \A j \in 1 .. top - 1 : size(j) > 1
      PROVE  Tower(list, level, top)
  <2> HIDE DEF n
  <2>1. /\ \A k \in 1 .. top : k \in 1 .. n
        /\ \A k \in 0 .. top : k \in 0 .. n
    BY <1>1
  <2>2. top \in 1 .. Len(list)
    BY DEF n
  <2> QED
    BY <1>2, <1>5, <1>7, <2>1, <2>2 DEF Tower
<1> QED
  BY <1>6, <1>7

(* Root is the last node of a tower. *)
LEMMA RootFacts ==
    ASSUME NEW list, Listing(list), Len(list) > 0
    PROVE  \E level, top : Tower(list, level, top) /\ Root(list) = level[top][1]
<1> DEFINE level[k \in 0 .. Len(list)] == IF k = 0 THEN list ELSE Above(level[k - 1])
           Single(k) == Len(level[k]) = 1 /\ \A j \in 1 .. k - 1 : Len(level[j]) > 1
           top == CHOOSE k \in 1 .. Len(list) : Single(k)
<1>1. Root(list) = level[top][1]
  BY Zenon DEF Root
<1>2. Levels(list, level)
  <2>1. Len(list) \in Nat
    BY DEF Listing
  <2>2. \E f : f = [k \in 0 .. Len(list) |-> IF k = 0 THEN list ELSE Above(f[k - 1])]
    BY <2>1, LevelsExist, Zenon DEF Levels
  <2> QED
    BY <2>2, Zenon DEF Levels
<1> HIDE DEF level
<1>3. \E k \in 1 .. Len(list) : Single(k)
  BY <1>2, TowerFacts
<1>4. top \in 1 .. Len(list) /\ Single(top)
  BY <1>3, Zenon
<1> HIDE DEF top
<1>5. Tower(list, level, top)
  BY <1>2, <1>4, TowerFacts
<1> QED
  BY <1>1, <1>5

(* After k rounds the tree ends with level k, or with the root. *)
LEMMA LastLevel ==
    ASSUME NEW list, Listing(list), Len(list) > 1, NEW level, NEW top, Tower(list, level, top),
           NEW loop, Rounds(list, loop)
    PROVE  Last(loop[Len(list)].tree) = level[top][1]
<1> DEFINE n == Len(list)
           Ends(k, m) ==
               /\ loop[k].length = Len(level[m]) /\ loop[k].offset \in Nat
               /\ Listing(loop[k].tree)
               /\ Len(loop[k].tree) = loop[k].offset + loop[k].length
               /\ \A i \in 1 .. Len(level[m]) : loop[k].tree[loop[k].offset + i] = level[m][i]
           good == {k \in Nat : k <= n => Ends(k, IF k <= top THEN k ELSE top)}
<1>1. n \in Nat /\ n > 1 /\ top \in 1 .. n /\ level[0] = list
  BY DEF Listing, Tower
<1>2. /\ loop[0] = [tree |-> list, offset |-> 0, length |-> n]
      /\ \A k \in 1 .. n : loop[k] = Round(loop[k - 1])
  <2> DEFINE start == [tree |-> list, offset |-> 0, length |-> n]
  <2>1. loop = [k \in 0 .. n |-> IF k = 0 THEN start ELSE Round(loop[k - 1])]
    BY Zenon DEF Rounds
  <2> HIDE DEF n, start
  <2>2. \A k \in 0 .. n : loop[k] = IF k = 0 THEN start ELSE Round(loop[k - 1])
    BY <2>1
  <2>3. 0 \in 0 .. n /\ \A k \in 1 .. n : k \in 0 .. n /\ k # 0
    BY <1>1
  <2>4. loop[0] = start /\ \A k \in 1 .. n : loop[k] = Round(loop[k - 1])
    BY <2>2, <2>3
  <2> QED
    BY <2>4 DEF start, n
<1>3. \A k \in 0 .. top : Listing(level[k]) /\ Len(level[k]) > 0
  BY DEF Tower
<1>4. 0 \in good
  <2>1. Ends(0, 0)
    BY <1>1, <1>2
  <2>2. 0 <= top
    BY <1>1
  <2> HIDE DEF Ends, n
  <2> QED
    BY <2>1, <2>2
<1>5. ASSUME NEW k \in good PROVE k + 1 \in good
  <2> SUFFICES ASSUME k + 1 <= n PROVE Ends(k + 1, IF k + 1 <= top THEN k + 1 ELSE top)
    OBVIOUS
  <2> HIDE DEF n
  <2>1. k \in Nat /\ Ends(k, IF k <= top THEN k ELSE top)
    <3> HIDE DEF Ends
    <3> QED
      BY <1>1
  <2>2. loop[k + 1] = Round(loop[k])
    <3>1. k + 1 \in 1 .. n /\ (k + 1) - 1 = k
      BY <1>1, <2>1
    <3> QED
      BY <1>2, <3>1
  <2>3. CASE k >= top
    <3>1. Ends(k, top)
      <4> HIDE DEF Ends
      <4>1. k <= top => k = top
        BY <1>1, <2>1, <2>3
      <4> QED
        BY <2>1, <4>1
    <3>2. loop[k].length = 1
      BY <3>1 DEF Tower
    <3>3. loop[k + 1] = loop[k]
      BY <2>2, <3>2 DEF Round
    <3>4. ~ (k + 1 <= top)
      BY <1>1, <2>1, <2>3
    <3> QED
      BY <3>1, <3>3, <3>4
  <2>4. CASE k < top
    <3> DEFINE old == level[k]
               h == Half(Len(old))
               tree == loop[k].tree
               offset == loop[k].offset
    <3>1. Ends(k, k) /\ k \in 0 .. top /\ k + 1 \in 1 .. top /\ (k + 1) - 1 = k
      <4> HIDE DEF Ends
      <4> QED
        BY <1>1, <2>1, <2>4
    <3>2. /\ Listing(old) /\ Len(old) > 0 /\ level[k + 1] = Above(old)
          /\ Len(old) \in Nat
      BY <1>3, <3>1 DEF Tower, Listing
    <3>3. Len(old) > 1
      <4>1. CASE k = 0
        BY <1>1, <4>1 DEF n
      <4>2. CASE k # 0
        <5>1. k \in 1 .. top - 1
          BY <1>1, <2>1, <2>4, <4>2
        <5> QED
          BY <5>1 DEF Tower
      <4> QED
        BY <4>1, <4>2
    <3> DEFINE length == Len(old)
               new(i) == hashMulti(tree[offset + 2 * (i - 1) + 1],
                                   tree[offset + RightOf(2 * (i - 1), length) + 1])
               more == [i \in 1 .. h |-> new(i)]
    <3>4. /\ loop[k].length = length /\ offset \in Nat /\ Listing(tree)
          /\ Len(tree) = offset + length
          /\ \A i \in 1 .. length : tree[offset + i] = old[i]
      BY <3>1
    <3>5. loop[k + 1] = [tree |-> PushLevel(tree, offset, length),
                         offset |-> offset + length, length |-> h]
      <4>1. ~ (loop[k].length <= 1)
        BY <3>2, <3>3, <3>4
      <4> QED
        BY <2>2, <3>4, <4>1, Zenon DEF Round
    <3>6. PushLevel(tree, offset, length) = tree \o more
      BY Zenon DEF PushLevel
    <3> HIDE DEF old, tree, offset
    <3>7. /\ Listing(Above(old)) /\ Len(Above(old)) = h
          /\ \A i \in 1 .. h :
                 /\ Above(old)[i] =
                        hashMulti(old[2 * i - 1], old[IF 2 * i <= length THEN 2 * i ELSE length])
                 /\ 2 * i - 1 \in 1 .. length
      BY <3>2, AboveFacts
    <3> HIDE DEF length, h
    <3>8. length \in Nat /\ length > 1 /\ h \in Nat
      BY <3>2, <3>3, <3>7 DEF length, Listing
    <3>9. ASSUME NEW i \in 1 .. h PROVE new(i) = Above(old)[i]
      <4> DEFINE r == IF 2 * i <= length THEN 2 * i ELSE length
      <4>1. /\ 2 * i - 1 \in 1 .. length /\ r \in 1 .. length
            /\ offset + 2 * (i - 1) + 1 = offset + (2 * i - 1)
            /\ offset + RightOf(2 * (i - 1), length) + 1 = offset + r
        BY <3>4, <3>7, <3>8 DEF RightOf
      <4> HIDE DEF r
      <4>2. tree[offset + (2 * i - 1)] = old[2 * i - 1] /\ tree[offset + r] = old[r]
        BY <3>4, <4>1
      <4>3. Above(old)[i] = hashMulti(old[2 * i - 1], old[r])
        BY <3>7 DEF r
      <4> QED
        BY <4>1, <4>2, <4>3
    <3> HIDE DEF new
    <3>10. Listing(more) /\ Len(more) = h /\ \A i \in 1 .. h : more[i] = Above(old)[i]
      <4>1. Len(more) = h /\ \A i \in 1 .. h : more[i] = new(i)
        BY <3>8
      <4>2. more = [i \in 1 .. h |-> more[i]]
        OBVIOUS
      <4> QED
        BY <3>8, <3>9, <4>1, <4>2 DEF Listing
    <3> HIDE DEF more
    <3>11. /\ Listing(tree \o more) /\ Len(tree \o more) = Len(tree) + h
           /\ \A i \in 1 .. h : (tree \o more)[Len(tree) + i] = more[i]
      BY <3>4, <3>10, Concatenated
    <3>12. /\ loop[k + 1].tree = tree \o more /\ loop[k + 1].length = h
           /\ loop[k + 1].offset = offset + length
      BY <3>5, <3>6
    <3>13. offset + length \in Nat /\ Len(tree \o more) = (offset + length) + h
      BY <3>4, <3>8, <3>11
    <3>14. Ends(k + 1, k + 1)
      <4>1. level[k + 1] = Above(old) /\ Len(level[k + 1]) = h
        BY <3>2, <3>7 DEF old
      <4>2. \A i \in 1 .. h : (tree \o more)[(offset + length) + i] = Above(old)[i]
        BY <3>4, <3>10, <3>11
      <4> QED
        BY <3>11, <3>12, <3>13, <4>1, <4>2
    <3> HIDE DEF Ends
    <3> QED
      BY <2>4, <3>1, <3>14
  <2> QED
    BY <1>1, <2>1, <2>3, <2>4
<1>6. Ends(n, top)
  <2>1. good \in SUBSET Nat
    OBVIOUS
  <2> HIDE DEF good
  <2>2. good = Nat
    BY <1>4, <1>5, <2>1, Induct
  <2> HIDE DEF Ends, n
  <2>3. n \in good
    BY <1>1, <2>2
  <2>4. n <= top => n = top
    BY <1>1
  <2> QED
    BY <1>1, <2>3, <2>4 DEF good
<1>7. Len(level[top]) = 1
  BY DEF Tower
<1>8. loop[n].tree[loop[n].offset + 1] = level[top][1] /\ Len(loop[n].tree) = loop[n].offset + 1
  BY <1>6, <1>7
<1> QED
  BY <1>8 DEF Last

(* The flat tree ends with the root of the tree built level by level. *)
LEMMA RootOfTree ==
    ASSUME NEW list, Listing(list), Len(list) > 0
    PROVE  Last(buildMerkleTree(list)) = Root(list)
<1>1. PICK level, top : Tower(list, level, top) /\ Root(list) = level[top][1]
  BY RootFacts
<1>2. CASE Len(list) = 1
  <2>1. top = 1 /\ level[1] = Above(list)
    <3>1. top = 1
      BY <1>1, <1>2 DEF Tower
    <3> QED
      BY <1>1, <3>1 DEF Tower
  <2>2. Half(1) = 1
    BY DEF Half
  <2>3. Above(list)[1] = hashMulti(list[1], list[1])
    BY <1>2, <2>2, AboveFacts
  <2>4. buildMerkleTree(list) = <<list[1], hashMulti(list[1], list[1])>>
    BY <1>2 DEF buildMerkleTree
  <2> QED
    BY <1>1, <2>1, <2>3, <2>4 DEF Last
<1>3. CASE Len(list) # 1
  <2> DEFINE loop[k \in 0 .. Len(list)] ==
                 IF k = 0 THEN [tree |-> list, offset |-> 0, length |-> Len(list)]
                 ELSE Round(loop[k - 1])
  <2>1. Len(list) \in Nat /\ Len(list) > 1
    BY <1>3 DEF Listing
  <2>2. buildMerkleTree(list) = PushLevels(list)
    <3>1. ~ (Len(list) < 1)
      BY <2>1
    <3> QED
      BY <1>3, <3>1, Zenon DEF buildMerkleTree
  <2>3. PushLevels(list) = loop[Len(list)].tree
    BY Zenon DEF PushLevels
  <2>4. Rounds(list, loop)
    <3>1. \E f : f = [k \in 0 .. Len(list) |->
                        IF k = 0 THEN [tree |-> list, offset |-> 0, length |-> Len(list)]
                        ELSE Round(f[k - 1])]
      BY <2>1, RoundsExist, Zenon DEF Rounds
    <3> QED
      BY <3>1, Zenon DEF Rounds
  <2> HIDE DEF loop
  <2>5. Last(loop[Len(list)].tree) = level[top][1]
    BY <1>1, <2>1, <2>4, LastLevel
  <2> QED
    BY <1>1, <2>2, <2>3, <2>5
<1> QED
  BY <1>2, <1>3

(* No two elements are the same. *)
Distinct(list) == \A i, j \in 1 .. Len(list) : list[i] = list[j] => i = j

(* What is below a node. *)
LEMMA AboveSides ==
    ASSUME NEW level, Listing(level), Len(level) > 0
    PROVE  \A i \in 1 .. Half(Len(level)) :
               /\ Above(level)[i].left = level[2 * i - 1]
               /\ Above(level)[i].right =
                      level[IF 2 * i <= Len(level) THEN 2 * i ELSE Len(level)]
               /\ 2 * i - 1 \in 1 .. Len(level)
<1>1. \A x, y : hashMulti(x, y).left = x /\ hashMulti(x, y).right = y
  BY DEF hashMulti
<1>2. ASSUME NEW i \in 1 .. Half(Len(level))
      PROVE  /\ Above(level)[i] =
                    hashMulti(level[2 * i - 1],
                              level[IF 2 * i <= Len(level) THEN 2 * i ELSE Len(level)])
             /\ 2 * i - 1 \in 1 .. Len(level)
  BY AboveFacts, Zenon
<1>3. ASSUME NEW i \in 1 .. Half(Len(level))
      PROVE  /\ Above(level)[i].left = level[2 * i - 1]
             /\ Above(level)[i].right =
                    level[IF 2 * i <= Len(level) THEN 2 * i ELSE Len(level)]
  <2> DEFINE r == level[IF 2 * i <= Len(level) THEN 2 * i ELSE Len(level)]
             l == level[2 * i - 1]
  <2>1. Above(level)[i] = hashMulti(l, r)
    BY <1>2, <1>3, Zenon
  <2> HIDE DEF l, r
  <2>2. Above(level)[i].left = l /\ Above(level)[i].right = r
    BY <1>1, <2>1
  <2> QED
    BY <2>2, Zenon DEF l, r
<1> QED
  BY <1>2, <1>3, Zenon

(* The nodes above different nodes are different. *)
LEMMA AboveDistinct ==
    ASSUME NEW level, Listing(level), Len(level) > 0, Distinct(level)
    PROVE  Distinct(Above(level))
<1> DEFINE h == Half(Len(level))
<1>1. /\ Len(Above(level)) = h
      /\ \A i \in 1 .. h : /\ Above(level)[i].left = level[2 * i - 1]
                           /\ 2 * i - 1 \in 1 .. Len(level)
  BY AboveFacts, AboveSides
<1>2. h \in Nat
  BY HalfFacts DEF Listing
<1> HIDE DEF h
<1>3. ASSUME NEW i \in 1 .. h, NEW j \in 1 .. h, Above(level)[i] = Above(level)[j]
      PROVE  i = j
  <2>1. 2 * i - 1 = 2 * j - 1
    BY <1>1, <1>3 DEF Distinct
  <2> QED
    BY <1>2, <2>1
<1> QED
  BY <1>1, <1>3 DEF Distinct

(* Two levels without repetitions under the same level are the same: an    *)
(* odd one repeats its last node, an even one has two nodes there.         *)
LEMMA AboveInjective ==
    ASSUME NEW a, NEW b, Listing(a), Listing(b), Len(a) > 0, Len(b) > 0,
           Distinct(a), Distinct(b), Above(a) = Above(b)
    PROVE  a = b
<1> DEFINE m == Len(a)
           n == Len(b)
           h == Half(m)
           right(i, k) == IF 2 * i <= k THEN 2 * i ELSE k
<1>1. m \in Nat /\ n \in Nat /\ m > 0 /\ n > 0 /\ h = Half(n)
  BY AboveFacts DEF Listing
<1>2. \A i \in 1 .. h : /\ a[2 * i - 1] = b[2 * i - 1] /\ a[right(i, m)] = b[right(i, n)]
                        /\ 2 * i - 1 \in 1 .. m /\ 2 * i - 1 \in 1 .. n
  <2>1. \A i \in 1 .. h : /\ Above(a)[i].left = a[2 * i - 1]
                          /\ Above(a)[i].right = a[right(i, m)] /\ 2 * i - 1 \in 1 .. m
    BY AboveSides, Zenon
  <2>2. \A i \in 1 .. h : /\ Above(b)[i].left = b[2 * i - 1]
                          /\ Above(b)[i].right = b[right(i, n)] /\ 2 * i - 1 \in 1 .. n
    BY <1>1, AboveSides, Zenon
  <2> HIDE DEF right, h, m, n
  <2> QED
    BY <2>1, <2>2
<1>3. /\ h \in Nat /\ h > 0 /\ (2 * h = m \/ 2 * h = m + 1) /\ (2 * h = n \/ 2 * h = n + 1)
  <2>1. /\ Half(m) \in Nat /\ Half(m) > 0 /\ (2 * Half(m) = m \/ 2 * Half(m) = m + 1)
        /\ (2 * Half(n) = n \/ 2 * Half(n) = n + 1)
    BY <1>1, HalfFacts
  <2> QED
    BY <1>1, <2>1
<1>4. /\ \A i, j \in 1 .. m : a[i] = a[j] => i = j
      /\ \A i, j \in 1 .. n : b[i] = b[j] => i = j
      /\ a = [i \in 1 .. m |-> a[i]] /\ b = [i \in 1 .. n |-> b[i]]
  BY DEF Distinct, Listing
<1> HIDE DEF h, m, n
<1>5. m = n
  <2>1. h \in 1 .. h /\ a[2 * h - 1] = b[2 * h - 1] /\ a[right(h, m)] = b[right(h, n)]
    BY <1>2, <1>3
  <2>2. CASE 2 * h = m /\ 2 * h = n + 1
    <3>1. right(h, m) = m /\ right(h, n) = n /\ 2 * h - 1 = m - 1 /\ 2 * h - 1 = n
      BY <1>1, <2>2
    <3>2. a[m] = a[m - 1]
      BY <2>1, <3>1
    <3> QED
      BY <1>1, <1>3, <1>4, <2>2, <3>2
  <2>3. CASE 2 * h = m + 1 /\ 2 * h = n
    <3>1. right(h, m) = m /\ right(h, n) = n /\ 2 * h - 1 = n - 1 /\ 2 * h - 1 = m
      BY <1>1, <2>3
    <3>2. b[n] = b[n - 1]
      BY <2>1, <3>1
    <3> QED
      BY <1>1, <1>3, <1>4, <2>3, <3>2
  <2> QED
    BY <1>1, <1>3, <2>2, <2>3
<1>6. \A i \in 1 .. m : a[i] = b[i]
  <2>1. ASSUME NEW i \in 1 .. m PROVE a[i] = b[i]
    <3>1. PICK k \in 1 .. h : i = 2 * k - 1 \/ i = 2 * k
      <4>1. i = 2 * ((i + 1) \div 2) - 1 \/ i = 2 * ((i + 1) \div 2)
        BY <1>1
      <4>2. (i + 1) \div 2 \in 1 .. h
        BY <1>1, <1>3
      <4> QED
        BY <4>1, <4>2
    <3>2. i = 2 * k => right(k, m) = i /\ right(k, n) = i
      BY <1>1, <1>5
    <3> HIDE DEF right
    <3> QED
      BY <1>2, <3>1, <3>2
  <2> QED
    BY <2>1
<1> QED
  BY <1>4, <1>5, <1>6

(* Going down from a common root, the levels of two trees are the same;    *)
(* one tree cannot end before the other, as its leaves are no inner nodes. *)
LEMMA TowersAgree ==
    ASSUME NEW a, NEW L, NEW m, Tower(a, L, m), NEW b, NEW K, NEW p, Tower(b, K, p),
           \A k \in 0 .. m : Distinct(L[k]), \A k \in 0 .. p : Distinct(K[k]),
           \A i \in 1 .. Len(a) : \A x, y : a[i] # hashMulti(x, y),
           L[m][1] = K[p][1], m <= p
    PROVE  a = b
<1> DEFINE good == {d \in Nat : d <= m => L[m - d] = K[p - d]}
<1>1. m \in Nat /\ p \in Nat /\ Listing(a) /\ Len(a) > 0 /\ L[0] = a /\ K[0] = b
  <2>1. m \in Nat /\ p \in Nat /\ L[0] = a /\ K[0] = b
    BY DEF Tower
  <2>2. 0 \in 0 .. m
    BY <2>1
  <2> QED
    BY <2>1, <2>2 DEF Tower
<1>2. /\ \A k \in 0 .. m : Listing(L[k]) /\ Len(L[k]) > 0
      /\ \A k \in 0 .. p : Listing(K[k]) /\ Len(K[k]) > 0
      /\ \A k \in 1 .. m : L[k] = Above(L[k - 1])
      /\ \A k \in 1 .. p : K[k] = Above(K[k - 1])
      /\ Len(L[m]) = 1 /\ Len(K[p]) = 1
  BY DEF Tower
<1>3. 0 \in good
  <2>1. L[m] = [i \in 1 .. 1 |-> L[m][i]] /\ K[p] = [i \in 1 .. 1 |-> K[p][i]]
    BY <1>1, <1>2 DEF Listing
  <2>2. \A i \in 1 .. 1 : L[m][i] = K[p][i]
    <3>1. \A i \in 1 .. 1 : i = 1
      OBVIOUS
    <3> QED
      BY <3>1
  <2>3. L[m] = K[p]
    BY <2>1, <2>2
  <2>4. m - 0 = m /\ p - 0 = p
    BY <1>1
  <2> QED
    BY <2>3, <2>4
<1>4. ASSUME NEW d \in good PROVE d + 1 \in good
  <2> SUFFICES ASSUME d + 1 <= m PROVE L[m - (d + 1)] = K[p - (d + 1)]
    OBVIOUS
  <2>1. d \in Nat /\ L[m - d] = K[p - d]
    BY <1>1
  <2> DEFINE i == m - (d + 1)
             j == p - (d + 1)
  <2>2. /\ m - d \in 1 .. m /\ p - d \in 1 .. p /\ i \in 0 .. m /\ j \in 0 .. p
        /\ (m - d) - 1 = i /\ (p - d) - 1 = j
    BY <1>1, <2>1
  <2> HIDE DEF i, j
  <2>3. Above(L[i]) = Above(K[j])
    BY <1>2, <2>1, <2>2
  <2>4. L[i] = K[j]
    BY <1>2, <2>2, <2>3, AboveInjective
  <2> QED
    BY <2>4 DEF i, j
<1>5. a = K[p - m]
  <2>1. good \in SUBSET Nat
    OBVIOUS
  <2> HIDE DEF good
  <2>2. good = Nat
    BY <1>3, <1>4, <2>1, Induct
  <2>3. L[m - m] = K[p - m]
    BY <1>1, <2>2 DEF good
  <2>4. m - m = 0
    BY <1>1
  <2> QED
    BY <1>1, <2>3, <2>4
<1>6. p = m
  <2> SUFFICES ASSUME p # m PROVE FALSE
    OBVIOUS
  <2>1. p - m \in 1 .. p /\ (p - m) - 1 \in 0 .. p
    BY <1>1
  <2> DEFINE below == K[(p - m) - 1]
  <2>2. a = Above(below) /\ Listing(below) /\ Len(below) > 0
    BY <1>2, <1>5, <2>1
  <2> HIDE DEF below
  <2>3. Half(Len(below)) \in Nat /\ Half(Len(below)) > 0
    BY <2>2, HalfFacts DEF Listing
  <2>4. 1 \in 1 .. Half(Len(below)) /\ Len(a) = Half(Len(below))
    BY <2>2, <2>3, AboveFacts
  <2>5. \E x, y : a[1] = hashMulti(x, y)
    BY <2>2, <2>4, AboveFacts
  <2> QED
    BY <2>4, <2>5
<1> QED
  BY <1>1, <1>5, <1>6

(* No two lists of different leaves have the same root. *)
LEMMA RootInjective ==
    ASSUME NEW a, NEW b, Listing(a), Listing(b), Len(a) > 0, Len(b) > 0,
           Distinct(a), Distinct(b),
           \A i \in 1 .. Len(a) : \A x, y : a[i] # hashMulti(x, y),
           \A i \in 1 .. Len(b) : \A x, y : b[i] # hashMulti(x, y),
           Root(a) = Root(b)
    PROVE  a = b
<1>1. PICK L, m : Tower(a, L, m) /\ Root(a) = L[m][1]
  BY RootFacts
<1>2. PICK K, p : Tower(b, K, p) /\ Root(b) = K[p][1]
  BY RootFacts
<1>3. ASSUME NEW list, NEW level, NEW top, Tower(list, level, top), Distinct(list)
      PROVE  \A k \in 0 .. top : Distinct(level[k])
  <2> DEFINE good == {k \in Nat : k <= top => Distinct(level[k])}
  <2>1. top \in Nat /\ level[0] = list
    BY <1>3 DEF Tower
  <2>2. 0 \in good
    BY <1>3, <2>1
  <2>3. ASSUME NEW k \in good PROVE k + 1 \in good
    <3> SUFFICES ASSUME k + 1 <= top PROVE Distinct(level[k + 1])
      OBVIOUS
    <3>1. k \in 0 .. top /\ k + 1 \in 1 .. top /\ (k + 1) - 1 = k /\ Distinct(level[k])
      BY <2>1
    <3>2. Listing(level[k]) /\ Len(level[k]) > 0 /\ level[k + 1] = Above(level[k])
      BY <1>3, <3>1 DEF Tower
    <3> QED
      BY <3>1, <3>2, AboveDistinct
  <2>4. good \in SUBSET Nat
    OBVIOUS
  <2> HIDE DEF good
  <2>5. good = Nat
    BY <2>2, <2>3, <2>4, Induct
  <2> QED
    BY <2>1, <2>5 DEF good
<1>4. /\ \A k \in 0 .. m : Distinct(L[k])
      /\ \A k \in 0 .. p : Distinct(K[k])
  BY <1>1, <1>2, <1>3
<1>5. m \in Nat /\ p \in Nat /\ L[m][1] = K[p][1]
  <2>1. Len(a) \in Nat /\ Len(b) \in Nat /\ m \in 1 .. Len(a) /\ p \in 1 .. Len(b)
    BY <1>1, <1>2 DEF Tower, Listing
  <2>2. m \in Nat /\ p \in Nat
    BY <2>1
  <2>3. L[m][1] = K[p][1]
    BY <1>1, <1>2, Zenon
  <2> QED
    BY <2>2, <2>3
<1>6. CASE m <= p
  BY <1>1, <1>2, <1>4, <1>5, <1>6, TowersAgree
<1>7. CASE p <= m
  BY <1>1, <1>2, <1>4, <1>5, <1>7, TowersAgree
<1> QED
  BY <1>5, <1>6, <1>7

----------------------------------------------------------------------------
(* Its root. *)

(* buildMerkleTree gives the root of the tree built level by level. *)
LEMMA ReferenceTrees == TreeIsReference
<1> SUFFICES ASSUME NEW n \in 1 .. 3 * max_txs
             PROVE  LET list == [i \in 1 .. n |-> [leaf |-> i]]
                    IN Last(buildMerkleTree(list)) = Root(list)
  BY Zenon DEF TreeIsReference
<1> DEFINE leaf(i) == [leaf |-> i]
           list == [i \in 1 .. n |-> leaf(i)]
<1>1. n \in Nat /\ n > 0
  BY ContentAssumption
<1> HIDE DEF leaf
<1>2. Len(list) = n /\ list = [i \in 1 .. n |-> list[i]]
  BY <1>1
<1> HIDE DEF list
<1>3. Listing(list) /\ Len(list) > 0
  BY <1>1, <1>2 DEF Listing
<1>4. Last(buildMerkleTree(list)) = Root(list)
  BY <1>3, RootOfTree
<1> QED
  BY <1>4 DEF list, leaf

(* The hashes of a block's transactions are the leaves of its tree. *)
LEMMA HashesFacts ==
    ASSUME IInv, NEW i \in 1 .. Len(documents)
    PROVE  LET hashes == Hashes(BlockAt(i).txs)
           IN Listing(hashes) /\ Len(hashes) > 0 /\ Distinct(hashes)
<1> DEFINE txs == BlockAt(i).txs
           n == Len(txs)
           hashes == Hashes(txs)
<1>1. TypedList(txs) /\ n \in 1 .. max_txs
  BY DEF IInv, BlockInv
<1>2. \A j, l \in 1 .. n : txs[j].sequence = txs[l].sequence => j = l
  BY DEF IInv, SealedInv, SealedAt
<1> HIDE DEF txs
<1>3. n \in Nat /\ n > 0 /\ DOMAIN txs = 1 .. n
  BY <1>1, ContentAssumption DEF TypedList
<1>4. hashes = [j \in 1 .. n |-> hashFull(txs[j])]
  BY <1>3 DEF Hashes
<1>5. ASSUME NEW j \in 1 .. n, NEW l \in 1 .. n, hashFull(txs[j]) = hashFull(txs[l])
      PROVE  j = l
  <2>1. \A tx : hashFull(tx).sha = computeHash(tx)
    BY DEF hashFull
  <2>2. Typed(txs[j]) /\ Typed(txs[l]) /\ computeHash(txs[j]) = computeHash(txs[l])
    BY <1>1, <1>5, <2>1 DEF TypedList
  <2>3. txs[j].sequence = txs[l].sequence
    BY <2>2, SequenceHashed
  <2> QED
    BY <1>2, <2>3
<1> HIDE DEF n, hashes
<1>6. Len(hashes) = n /\ \A j \in 1 .. n : hashes[j] = hashFull(txs[j])
  BY <1>3, <1>4
<1>7. hashes = [j \in 1 .. n |-> hashes[j]]
  BY <1>4
<1>8. Listing(hashes) /\ Distinct(hashes)
  BY <1>3, <1>5, <1>6, <1>7 DEF Listing, Distinct
<1> QED
  BY <1>3, <1>6, <1>8 DEF hashes, txs

(* A leaf is no inner node. *)
LEMMA NoNode == \A tx, x, y : hashFull(tx) # hashMulti(x, y)
<1> SUFFICES ASSUME NEW tx, NEW x, NEW y, hashFull(tx) = hashMulti(x, y) PROVE FALSE
  OBVIOUS
<1>1. DOMAIN hashFull(tx) = {"sha"} /\ DOMAIN hashMulti(x, y) = {"left", "right"}
  BY DEF hashFull, hashMulti
<1> QED
  BY <1>1

(* The invariant gives the property. *)
LEMMA RootLemma == IInv => RootCommits
<1> SUFFICES ASSUME IInv PROVE RootCommits
  OBVIOUS
<1> DEFINE leaves == UNION {{hashFull(block.txs[j]) : j \in DOMAIN block.txs} : block \in Published}
           lists == UNION {{list \in [1 .. n -> leaves] : IsInjective(list)} : n \in 1 .. max_txs}
           Committed(block) ==
               LET hashes == [j \in DOMAIN block.txs |-> hashFull(block.txs[j])]
               IN /\ TreeIsReference
                  /\ block.header.merkleRoot = Root(hashes)
                  /\ \A list \in lists :
                         Last(buildMerkleTree(list)) = block.header.merkleRoot => list = hashes
<1>1. SUFFICES ASSUME NEW block \in Published PROVE Committed(block)
  BY <1>1, Zenon DEF RootCommits
<1>2. PICK i \in 1 .. Len(documents) : block = BlockAt(i)
  <2>1. DOMAIN documents = 1 .. Len(documents)
    BY DEF IInv, ListInv
  <2> QED
    BY <2>1, Zenon DEF Published, BlockAt
<1> DEFINE hashes == Hashes(block.txs)
<1>3. Listing(hashes) /\ Len(hashes) > 0 /\ Distinct(hashes)
  BY <1>2, HashesFacts
<1>4. block.header.merkleRoot = Last(buildMerkleTree(hashes))
  BY <1>2 DEF IInv, BlockInv
<1>5. ASSUME NEW j \in 1 .. Len(hashes)
      PROVE  hashes[j] \in {hashFull(block.txs[l]) : l \in DOMAIN block.txs}
  <2>1. DOMAIN hashes = DOMAIN block.txs
    BY DEF Hashes
  <2>2. DOMAIN hashes = 1 .. Len(hashes)
    <3> HIDE DEF hashes
    <3> QED
      BY <1>3 DEF Listing
  <2> QED
    BY <1>5, <2>1, <2>2 DEF Hashes
<1>6. \A leaf \in leaves : \A x, y : leaf # hashMulti(x, y)
  BY NoNode
<1>7. \A j \in 1 .. Len(hashes) : \A x, y : hashes[j] # hashMulti(x, y)
  BY <1>5, NoNode
<1> HIDE DEF hashes, leaves
<1>8. Last(buildMerkleTree(hashes)) = Root(hashes)
  BY <1>3, RootOfTree
<1>9. ASSUME NEW list \in lists, Last(buildMerkleTree(list)) = block.header.merkleRoot
      PROVE  list = hashes
  <2>1. PICK n \in 1 .. max_txs : list \in [1 .. n -> leaves] /\ IsInjective(list)
    OBVIOUS
  <2>2. n \in Nat /\ n > 0
    BY ContentAssumption
  <2>3. Len(list) = n /\ list = [j \in 1 .. n |-> list[j]] /\ DOMAIN list = 1 .. n
        /\ \A j \in 1 .. n : list[j] \in leaves
    BY <2>1, <2>2
  <2>4. Listing(list) /\ Len(list) > 0 /\ Distinct(list)
    BY <2>1, <2>2, <2>3 DEF Listing, Distinct, IsInjective
  <2>5. \A j \in 1 .. Len(list) : \A x, y : list[j] # hashMulti(x, y)
    BY <1>6, <2>3
  <2>6. Root(list) = Root(hashes)
    BY <1>4, <1>8, <1>9, <2>4, RootOfTree
  <2> QED
    BY <1>3, <1>7, <2>4, <2>5, <2>6, RootInjective
<1>10. hashes = [j \in DOMAIN block.txs |-> hashFull(block.txs[j])]
  BY Zenon DEF hashes, Hashes
<1> HIDE DEF lists
<1> QED
  BY <1>4, <1>8, <1>9, <1>10, ReferenceTrees

(* The root in a header is that of the transactions a reader finds and of  *)
(* no other list of hashes (Block.buildMerkleTree, Block.createBlock).     *)
THEOREM RootCommitsAlways == Spec => []RootCommits
  BY Invariant, RootLemma, PTL
=============================================================================
