--------------------------- MODULE SequenceLemmas ---------------------------
(***************************************************************************)
(* Facts about sequences that the proofs about streams of bytes rest on:   *)
(* what FlattenSeq returns, by induction over the number of sequences, and *)
(* what it means that a sequence occurs at some place of another one.      *)
(***************************************************************************)
EXTENDS Integers, SequencesExt, SequenceTheorems, WellFoundedInduction, TLAPS

\* A nonempty set of naturals has a least element.
LEMMA LeastElement ==
  ASSUME NEW T \in SUBSET Nat, T # {}
  PROVE  \E x \in T : \A y \in T : x <= y
<1> DEFINE R == OpToRel(<, Nat)
<1>1. IsWellFoundedOn(R, Nat)
  BY NatLessThanWellFounded, Zenon
<1>2. \A x, y \in Nat : y < x => <<y, x>> \in R
  BY DEF OpToRel
<1> HIDE DEF R
<1>3. PICK x \in T : \A y \in T : <<y, x>> \notin R
  BY <1>1, WFMin
<1>4. \A y \in T : ~(y < x)
  BY <1>2, <1>3
<1> QED
  BY <1>4

\* What holds of 0 and passes on from each number to the next holds of all.
LEMMA Induction ==
  ASSUME NEW T \in SUBSET Nat, 0 \in T, \A n \in T : n + 1 \in T
  PROVE  T = Nat
<1> SUFFICES ASSUME Nat \ T # {} PROVE FALSE
  OBVIOUS
<1>1. PICK x \in Nat \ T : \A y \in Nat \ T : x <= y
  BY LeastElement
<1>2. x # 0 /\ x - 1 \in Nat
  BY <1>1
<1>3. x - 1 \in T
  BY <1>1, <1>2
<1> QED
  BY <1>2, <1>3

\* The recursive function in FlattenSeq exists.
Flattens(f, seqs, n) ==
  f = [i \in 1..n |-> IF i = 1 THEN seqs[i] ELSE f[i - 1] \o seqs[i]]

\* Such a function for n sequences gives one for the next.
LEMMA FlattensNext ==
  ASSUME NEW seqs, NEW n \in Nat, NEW f, Flattens(f, seqs, n)
  PROVE  \E g : Flattens(g, seqs, n + 1)
<1> DEFINE new == IF n = 0 THEN seqs[1] ELSE f[n] \o seqs[n + 1]
           g == [i \in 1..n + 1 |-> IF i = n + 1 THEN new ELSE f[i]]
           body(i) == IF i = 1 THEN seqs[i] ELSE g[i - 1] \o seqs[i]
<1>1. ASSUME NEW i \in 1..n PROVE g[i] = body(i)
  <2>1. f[i] = IF i = 1 THEN seqs[i] ELSE f[i - 1] \o seqs[i]
    BY DEF Flattens
  <2>2. g[i] = f[i]
    OBVIOUS
  <2>3. i # 1 => g[i - 1] = f[i - 1]
    OBVIOUS
  <2> QED
    BY <2>1, <2>2, <2>3
<1>2. g[n + 1] = body(n + 1)
  OBVIOUS
<1>3. \A i \in 1..n + 1 : i \in 1..n \/ i = n + 1
  OBVIOUS
<1>4. \A i \in 1..n + 1 : g[i] = body(i)
  BY <1>1, <1>2, <1>3, Zenon
<1>5. g = [i \in 1..n + 1 |-> g[i]]
  OBVIOUS
<1> HIDE DEF g
<1>6. g = [i \in 1..n + 1 |-> body(i)]
  BY <1>4, <1>5
<1> QED
  BY <1>6 DEF Flattens

\* There is one for any number of sequences, by induction.
LEMMA FlattensExists ==
  ASSUME NEW seqs, NEW n \in Nat
  PROVE  \E f : Flattens(f, seqs, n)
<1> DEFINE T == {m \in Nat : \E f : Flattens(f, seqs, m)}
<1>1. \E f : Flattens(f, seqs, 0)
  <2>1. Flattens([i \in {} |-> 0], seqs, 0)
    BY DEF Flattens
  <2> QED
    BY <2>1
<1>2. \A m \in T : m + 1 \in T
  BY FlattensNext
<1>3. T = Nat
  BY <1>1, <1>2, Induction
<1> QED
  BY <1>3

\* FlattenSeq returns what that function gives for the last sequence.
LEMMA FlattenIs ==
  ASSUME NEW seqs, Len(seqs) \in Nat \ {0}
  PROVE  \E f : Flattens(f, seqs, Len(seqs)) /\ FlattenSeq(seqs) = f[Len(seqs)]
<1> DEFINE f == CHOOSE g : Flattens(g, seqs, Len(seqs))
<1>1. Flattens(f, seqs, Len(seqs))
  BY FlattensExists
<1>2. FlattenSeq(seqs) = f[Len(seqs)]
  BY DEF FlattenSeq, Flattens
<1> QED
  BY <1>1, <1>2

\* What FlattenSeq returns is built up from the first sequence to the last: sums[i] is what
\* the first i of them make.
Sums(sums, seqs) ==
  /\ sums[0] = <<>>
  /\ \A i \in 1..Len(seqs) : sums[i] = sums[i - 1] \o seqs[i]
  /\ FlattenSeq(seqs) = sums[Len(seqs)]

\* That function gives the sums.
LEMMA SumsExist ==
  ASSUME NEW S, NEW seqs \in Seq(Seq(S))
  PROVE  \E sums : Sums(sums, seqs)
<1>1. CASE Len(seqs) = 0
  <2>1. FlattenSeq(seqs) = <<>>
    BY <1>1 DEF FlattenSeq
  <2>2. Sums([i \in {0} |-> <<>>], seqs)
    BY <1>1, <2>1 DEF Sums
  <2> QED
    BY <2>2
<1>2. CASE Len(seqs) # 0
  <2>1. PICK f : Flattens(f, seqs, Len(seqs)) /\ FlattenSeq(seqs) = f[Len(seqs)]
    BY <1>2, FlattenIs
  <2> DEFINE sums == [i \in 0..Len(seqs) |-> IF i = 0 THEN <<>> ELSE f[i]]
  <2>2. ASSUME NEW i \in 1..Len(seqs) PROVE sums[i] = sums[i - 1] \o seqs[i]
    <3>1. f[i] = IF i = 1 THEN seqs[i] ELSE f[i - 1] \o seqs[i]
      BY <2>1 DEF Flattens
    <3>2. <<>> \o seqs[i] = seqs[i]
      OBVIOUS
    <3>3. sums[i] = f[i]
      OBVIOUS
    <3>4. sums[i - 1] = IF i = 1 THEN <<>> ELSE f[i - 1]
      OBVIOUS
    <3> HIDE DEF sums
    <3>5. CASE i = 1
      BY <3>1, <3>2, <3>3, <3>4, <3>5
    <3>6. CASE i # 1
      BY <3>1, <3>3, <3>4, <3>6
    <3> QED
      BY <3>5, <3>6
  <2>3. FlattenSeq(seqs) = sums[Len(seqs)]
    BY <1>2, <2>1
  <2> QED
    BY <2>2, <2>3 DEF Sums
<1> QED
  BY <1>1, <1>2

\* The sums of sequences over S are sequences over S, by induction.
LEMMA FlattenSums ==
  ASSUME NEW S, NEW seqs \in Seq(Seq(S))
  PROVE  \E sums \in [0..Len(seqs) -> Seq(S)] : Sums(sums, seqs)
<1>1. PICK s : Sums(s, seqs)
  BY SumsExist
<1>2. Len(seqs) \in Nat /\ \A i \in 1..Len(seqs) : seqs[i] \in Seq(S)
  OBVIOUS
<1>3. \A i \in 0..Len(seqs) : s[i] \in Seq(S)
  <2> DEFINE T == {i \in Nat : i <= Len(seqs) => s[i] \in Seq(S)}
  <2>1. 0 \in T
    <3>1. s[0] = <<>> /\ <<>> \in Seq(S)
      BY <1>1 DEF Sums
    <3> QED
      BY <3>1, Zenon
  <2>2. ASSUME NEW i \in T PROVE i + 1 \in T
    <3> SUFFICES ASSUME i + 1 <= Len(seqs) PROVE s[i + 1] \in Seq(S)
      OBVIOUS
    <3>1. s[i] \in Seq(S) /\ i + 1 \in 1..Len(seqs) /\ (i + 1) - 1 = i
      BY <1>2
    <3>2. s[i + 1] = s[i] \o seqs[i + 1]
      BY <1>1, <3>1 DEF Sums
    <3> QED
      BY <1>2, <3>1, <3>2
  <2>3. T = Nat
    <3>1. T \in SUBSET Nat
      OBVIOUS
    <3> HIDE DEF T
    <3> QED
      BY <2>1, <2>2, <3>1, Induction
  <2> QED
    BY <1>2, <2>3
<1> DEFINE sums == [i \in 0..Len(seqs) |-> s[i]]
<1>4. sums \in [0..Len(seqs) -> Seq(S)]
  BY <1>3
<1>5. Sums(sums, seqs)
  <2>1. \A i \in 1..Len(seqs) : i \in 0..Len(seqs) /\ i - 1 \in 0..Len(seqs)
    BY <1>2
  <2>2. \A i \in 0..Len(seqs) : sums[i] = s[i]
    OBVIOUS
  <2> HIDE DEF sums
  <2>3. sums[0] = <<>> /\ FlattenSeq(seqs) = sums[Len(seqs)]
    BY <1>1, <1>2, <2>2 DEF Sums
  <2>4. \A i \in 1..Len(seqs) : sums[i] = sums[i - 1] \o seqs[i]
    BY <1>1, <2>1, <2>2 DEF Sums
  <2> QED
    BY <2>3, <2>4 DEF Sums
<1> QED
  BY <1>4, <1>5
-----------------------------------------------------------------------------
\* s stands in w after its first p elements.
Stands(s, w, p) ==
  /\ p \in Nat /\ p + Len(s) <= Len(w)
  /\ \A k \in 1..Len(s) : s[k] = w[p + k]

\* c is the m elements of s and then the n elements of t.
Joins(c, s, m, t, n) ==
  /\ Len(c) = m + n
  /\ \A k \in 1..m : c[k] = s[k]
  /\ \A k \in 1..n : c[m + k] = t[k]

\* What a concatenation consists of.
LEMMA ConcatIs ==
  ASSUME NEW S, NEW s \in Seq(S), NEW t \in Seq(S)
  PROVE  /\ s \o t \in Seq(S)
         /\ Len(s \o t) = Len(s) + Len(t)
         /\ \A k \in 1..Len(s) : (s \o t)[k] = s[k]
         /\ \A k \in 1..Len(t) : (s \o t)[Len(s) + k] = t[k]
OBVIOUS

\* Concatenation is associative.  It is named, since provers that see the equation use it for ever.
Associates(s, t, u) == (s \o t) \o u = s \o (t \o u)

\* So it is, for any sequences.
LEMMA ConcatAssociates ==
  ASSUME NEW S, NEW s \in Seq(S), NEW t \in Seq(S), NEW u \in Seq(S)
  PROVE  Associates(s, t, u)
<1>1. (s \o t) \o u = s \o (t \o u)
  OBVIOUS
<1> QED
  BY <1>1, Zenon DEF Associates

\* A concatenation is the elements of the first sequence and then those of the second.
LEMMA ConcatJoins ==
  ASSUME NEW S, NEW s \in Seq(S), NEW t \in Seq(S)
  PROVE  s \o t \in Seq(S) /\ Joins(s \o t, s, Len(s), t, Len(t))
<1>1. s \o t \in Seq(S) /\ Len(s \o t) = Len(s) + Len(t)
  BY ConcatIs
<1>2. /\ \A k \in 1..Len(s) : (s \o t)[k] = s[k]
      /\ \A k \in 1..Len(t) : (s \o t)[Len(s) + k] = t[k]
  BY ConcatIs
<1> QED
  BY <1>1, <1>2, Zenon DEF Joins

\* Two sequences that follow each other stand where their concatenation does.
LEMMA StandsConcat ==
  ASSUME NEW S, NEW s \in Seq(S), NEW t \in Seq(S), NEW w \in Seq(S), NEW p \in Nat
  PROVE  Stands(s \o t, w, p) <=> Stands(s, w, p) /\ Stands(t, w, p + Len(s))
<1>1. Len(s \o t) = Len(s) + Len(t) /\ Len(s) \in Nat /\ Len(t) \in Nat
  OBVIOUS
<1>2. /\ \A k \in 1..Len(s) : (s \o t)[k] = s[k]
      /\ \A k \in 1..Len(t) : (s \o t)[Len(s) + k] = t[k]
  OBVIOUS
<1>3. ASSUME Stands(s \o t, w, p) PROVE Stands(s, w, p) /\ Stands(t, w, p + Len(s))
  <2>1. \A k \in 1..Len(s) + Len(t) : (s \o t)[k] = w[p + k]
    BY <1>1, <1>3 DEF Stands
  <2>2. \A k \in 1..Len(s) : s[k] = w[p + k]
    BY <1>1, <1>2, <2>1
  <2>3. \A k \in 1..Len(t) : t[k] = w[(p + Len(s)) + k]
    <3> TAKE k \in 1..Len(t)
    <3>1. Len(s) + k \in 1..Len(s) + Len(t) /\ p + (Len(s) + k) = (p + Len(s)) + k
      BY <1>1
    <3> QED
      BY <1>2, <2>1, <3>1
  <2> QED
    BY <1>1, <1>3, <2>2, <2>3 DEF Stands
<1>4. ASSUME Stands(s, w, p), Stands(t, w, p + Len(s)) PROVE Stands(s \o t, w, p)
  <2>1. \A k \in 1..Len(s) : s[k] = w[p + k]
    BY <1>4 DEF Stands
  <2>2. \A k \in 1..Len(t) : t[k] = w[(p + Len(s)) + k]
    BY <1>4 DEF Stands
  <2>3. ASSUME NEW k \in 1..Len(s) + Len(t) PROVE (s \o t)[k] = w[p + k]
    <3>1. CASE k <= Len(s)
      BY <1>1, <1>2, <2>1, <3>1
    <3>2. CASE k > Len(s)
      <4>1. k - Len(s) \in 1..Len(t) /\ (p + Len(s)) + (k - Len(s)) = p + k
            /\ Len(s) + (k - Len(s)) = k
        BY <1>1, <3>2
      <4> QED
        BY <1>2, <2>2, <4>1
    <3> QED
      BY <1>1, <3>1, <3>2
  <2>4. p + (Len(s) + Len(t)) <= Len(w)
    BY <1>1, <1>4 DEF Stands
  <2> QED
    BY <1>1, <2>3, <2>4 DEF Stands
<1> QED
  BY <1>3, <1>4

\* What stands at the same place and is as long is the same.
LEMMA StandsSame ==
  ASSUME NEW S, NEW s \in Seq(S), NEW t \in Seq(S), NEW w, NEW p,
         Len(s) = Len(t), Stands(s, w, p), Stands(t, w, p)
  PROVE  s = t
<1>1. \A k \in 1..Len(s) : s[k] = t[k]
  BY DEF Stands
<1> QED
  BY <1>1

\* A sequence that stands in another one is cut into two that do.
LEMMA StandsCut ==
  ASSUME NEW S, NEW s \in Seq(S), NEW w \in Seq(S), NEW p \in Nat, NEW k \in 0..Len(s),
         Stands(s, w, p)
  PROVE  /\ Stands(SubSeq(s, 1, k), w, p)
         /\ Stands(SubSeq(s, k + 1, Len(s)), w, p + k)
         /\ SubSeq(s, 1, k) \in Seq(S) /\ Len(SubSeq(s, 1, k)) = k
         /\ SubSeq(s, k + 1, Len(s)) \in Seq(S) /\ Len(SubSeq(s, k + 1, Len(s))) = Len(s) - k
<1> DEFINE a == SubSeq(s, 1, k)
           b == SubSeq(s, k + 1, Len(s))
<1>1. a \in Seq(S) /\ Len(a) = k /\ b \in Seq(S) /\ Len(b) = Len(s) - k
  OBVIOUS
<1>2. \A j \in 1..k : a[j] = s[j]
  OBVIOUS
<1>3. \A j \in 1..Len(s) - k : b[j] = s[k + j]
  OBVIOUS
<1> HIDE DEF a, b
<1>4. \A j \in 1..Len(s) : s[j] = w[p + j]
  BY DEF Stands
<1>5. Len(s) \in Nat /\ p + Len(s) <= Len(w) /\ Len(w) \in Nat /\ k \in Nat /\ k <= Len(s)
  BY DEF Stands
<1>6. \A j \in 1..Len(s) - k : s[k + j] = w[(p + k) + j]
  <2> TAKE j \in 1..Len(s) - k
  <2>1. PICK m \in Nat : m = Len(s)
    BY <1>5
  <2>2. k + j \in 1..m /\ p + (k + j) = (p + k) + j
    BY <1>5, <2>1
  <2> QED
    BY <1>4, <2>1, <2>2
<1>7. Stands(a, w, p)
  <2>1. \A j \in 1..k : j \in 1..Len(s)
    BY <1>5
  <2>2. \A j \in 1..Len(a) : a[j] = w[p + j]
    BY <1>1, <1>2, <1>4, <2>1
  <2>3. p + Len(a) <= Len(w)
    BY <1>1, <1>5
  <2> QED
    BY <2>2, <2>3 DEF Stands
<1>8. Stands(b, w, p + k)
  BY <1>1, <1>3, <1>5, <1>6 DEF Stands
<1> QED
  BY <1>1, <1>7, <1>8 DEF a, b

\* The sums of FlattenSeq stand at the beginning of each other, and each sequence stands in
\* what FlattenSeq returns, after the sum of those before it.
LEMMA SumsStand ==
  ASSUME NEW S, NEW seqs \in Seq(Seq(S)), NEW sums \in [0..Len(seqs) -> Seq(S)], Sums(sums, seqs),
         NEW i \in 0..Len(seqs)
  PROVE  /\ FlattenSeq(seqs) \in Seq(S)
         /\ Stands(sums[i], FlattenSeq(seqs), 0)
         /\ i > 0 => /\ Stands(seqs[i], FlattenSeq(seqs), Len(sums[i - 1]))
                     /\ Len(sums[i]) = Len(sums[i - 1]) + Len(seqs[i])
<1> SUFFICES ASSUME NEW w, w = FlattenSeq(seqs)
             PROVE  /\ w \in Seq(S)
                    /\ Stands(sums[i], w, 0)
                    /\ i > 0 => /\ Stands(seqs[i], w, Len(sums[i - 1]))
                                /\ Len(sums[i]) = Len(sums[i - 1]) + Len(seqs[i])
  BY Zenon
<1> DEFINE n == Len(seqs)
           T == {k \in Nat : k <= n => Stands(sums[n - k], w, 0)}
<1>1. n \in Nat /\ w = sums[n] /\ \A j \in 0..n : sums[j] \in Seq(S)
  <2>1. n \in Nat
    OBVIOUS
  <2> QED
    BY <2>1 DEF Sums
<1>2. \A j \in 1..n : /\ j \in 0..n /\ j - 1 \in 0..n /\ seqs[j] \in Seq(S)
                      /\ sums[j] = sums[j - 1] \o seqs[j]
  <2>1. \A j \in 1..n : j \in 0..n /\ j - 1 \in 0..n /\ seqs[j] \in Seq(S)
    BY <1>1
  <2> QED
    BY <2>1 DEF Sums
<1>0. i \in 0..n
  OBVIOUS
<1> HIDE DEF n
<1>3. 0 \in T
  BY <1>1 DEF Stands
<1>4. ASSUME NEW k \in T PROVE k + 1 \in T
  <2> SUFFICES ASSUME k + 1 <= n PROVE Stands(sums[n - (k + 1)], w, 0)
    OBVIOUS
  <2>1. Stands(sums[n - k], w, 0) /\ n - k \in 1..n /\ (n - k) - 1 = n - (k + 1)
    BY <1>1
  <2> DEFINE j == n - k
  <2> HIDE DEF j
  <2>2. Stands(sums[j - 1] \o seqs[j], w, 0)
    BY <1>2, <2>1 DEF j
  <2>3. sums[j - 1] \in Seq(S) /\ seqs[j] \in Seq(S) /\ w \in Seq(S)
    <3>1. n \in 0..n
      BY <1>1
    <3> QED
      BY <1>1, <1>2, <2>1, <3>1 DEF j
  <2>4. Stands(sums[j - 1], w, 0)
    BY <2>2, <2>3, StandsConcat
  <2> QED
    BY <2>1, <2>4 DEF j
<1>5. T = Nat
  <2>1. T \in SUBSET Nat
    OBVIOUS
  <2> HIDE DEF T
  <2> QED
    BY <1>3, <1>4, <2>1, Induction
<1>6. ASSUME NEW j \in 0..n PROVE Stands(sums[j], w, 0)
  <2>1. n - j \in Nat /\ n - (n - j) = j /\ n - j <= n
    BY <1>1
  <2>2. n - j \in T
    BY <1>5, <2>1
  <2> QED
    BY <2>1, <2>2
<1> HIDE DEF T
<1>7. ASSUME i > 0
      PROVE  Stands(seqs[i], w, Len(sums[i - 1])) /\ Len(sums[i]) = Len(sums[i - 1]) + Len(seqs[i])
  <2>1. i \in 1..n
    BY <1>1, <1>0, <1>7
  <2>2. sums[i] = sums[i - 1] \o seqs[i] /\ Stands(sums[i], w, 0)
    BY <1>2, <1>6, <2>1
  <2>3. seqs[i] \in Seq(S) /\ sums[i - 1] \in Seq(S) /\ w \in Seq(S)
    BY <1>1, <1>2, <2>1
  <2>4. Stands(seqs[i], w, 0 + Len(sums[i - 1]))
    BY <2>2, <2>3, StandsConcat
  <2>5. 0 + Len(sums[i - 1]) = Len(sums[i - 1])
    BY <2>3
  <2>6. Len(sums[i - 1] \o seqs[i]) = Len(sums[i - 1]) + Len(seqs[i])
    BY <2>3
  <2> QED
    BY <2>2, <2>4, <2>5, <2>6
<1>8. w \in Seq(S)
  <2>1. n \in 0..n
    BY <1>1
  <2> QED
    BY <1>1, <2>1
<1> QED
  BY <1>0, <1>6, <1>7, <1>8

\* What a sequence has after the first elements of it.
LEMMA RestStands ==
  ASSUME NEW S, NEW v \in Seq(S), NEW g \in Seq(S), Stands(g, v, 0)
  PROVE  /\ SubSeq(v, Len(g) + 1, Len(v)) \in Seq(S)
         /\ Len(SubSeq(v, Len(g) + 1, Len(v))) = Len(v) - Len(g)
         /\ Len(g) \in 0..Len(v)
         /\ Stands(SubSeq(v, Len(g) + 1, Len(v)), v, Len(g))
         /\ Len(g) = Len(v) => SubSeq(v, Len(g) + 1, Len(v)) = <<>>
<1>1. PICK k, l : k = Len(g) /\ l = Len(v)
  OBVIOUS
<1>2. k \in 0..l /\ k \in Nat /\ l \in Nat
  BY <1>1 DEF Stands
<1>3. Stands(v, v, 0) /\ 0 \in Nat /\ k \in 0..Len(v) /\ 0 + k = k
  BY <1>1, <1>2 DEF Stands
<1>4. PICK x : x = SubSeq(v, k + 1, Len(v))
  OBVIOUS
<1>5. x \in Seq(S) /\ Len(x) = l - k /\ Stands(x, v, 0 + k)
  BY <1>1, <1>3, <1>4, StandsCut
<1>6. k = l => x = <<>>
  BY <1>2, <1>5
<1>7. Stands(x, v, k)
  BY <1>3, <1>5
<1> QED
  BY <1>1, <1>2, <1>4, <1>5, <1>6, <1>7, Zenon

\* The elements d of v that follow g, and those after them.
LEMMA PieceStands ==
  ASSUME NEW S, NEW v \in Seq(S), NEW g \in Seq(S), NEW d \in Seq(S), Stands(g \o d, v, 0)
  PROVE  /\ Len(d) <= Len(SubSeq(v, Len(g) + 1, Len(v)))
         /\ d = SubSeq(SubSeq(v, Len(g) + 1, Len(v)), 1, Len(d))
         /\ SubSeq(v, Len(g \o d) + 1, Len(v)) =
              SubSeq(SubSeq(v, Len(g) + 1, Len(v)), Len(d) + 1, Len(SubSeq(v, Len(g) + 1, Len(v))))
<1>1. PICK h, x, z, k, n, l :
        /\ h = g \o d /\ x = SubSeq(v, Len(g) + 1, Len(v)) /\ z = SubSeq(v, Len(h) + 1, Len(v))
        /\ k = Len(g) /\ n = Len(d) /\ l = Len(v)
  OBVIOUS
<1>2. h \in Seq(S) /\ Len(h) = k + n /\ k \in Nat /\ n \in Nat /\ l \in Nat
  BY <1>1, ConcatIs
<1>3. Stands(g, v, 0) /\ Stands(d, v, k)
  <2>1. Stands(g, v, 0) /\ Stands(d, v, 0 + Len(g)) /\ 0 + k = k
    BY <1>2, StandsConcat
  <2> QED
    BY <1>1, <2>1
<1>4. x \in Seq(S) /\ Len(x) = l - k /\ Stands(x, v, k)
  BY <1>1, <1>3, RestStands
<1>5. z \in Seq(S) /\ Len(z) = l - (k + n) /\ k + n \in 0..l /\ Stands(z, v, k + n)
  <2>1. Stands(h, v, 0)
    BY <1>1
  <2>2. /\ z \in Seq(S) /\ Len(z) = Len(v) - Len(h) /\ Len(h) \in 0..Len(v) /\ Stands(z, v, Len(h))
    BY <1>1, <1>2, <2>1, RestStands, Zenon
  <2> QED
    BY <1>1, <1>2, <2>2, Zenon
<1>6. n \in 0..Len(x) /\ Len(x) - n = l - (k + n) /\ n <= Len(x)
  BY <1>2, <1>4, <1>5
<1>7. PICK a, b : a = SubSeq(x, 1, n) /\ b = SubSeq(x, n + 1, Len(x))
  OBVIOUS
<1>8. /\ a \in Seq(S) /\ Len(a) = n /\ Stands(a, v, k)
      /\ b \in Seq(S) /\ Len(b) = Len(x) - n /\ Stands(b, v, k + n)
  <2>1. x \in Seq(S) /\ v \in Seq(S) /\ n \in 0..Len(x) /\ Stands(x, v, k) /\ k \in Nat
    BY <1>2, <1>4, <1>6
  <2>2. Stands(SubSeq(x, 1, n), v, k)
    BY <2>1, StandsCut
  <2>3. Stands(SubSeq(x, n + 1, Len(x)), v, k + n)
    BY <2>1, StandsCut
  <2>4. /\ SubSeq(x, 1, n) \in Seq(S) /\ Len(SubSeq(x, 1, n)) = n
        /\ SubSeq(x, n + 1, Len(x)) \in Seq(S) /\ Len(SubSeq(x, n + 1, Len(x))) = Len(x) - n
    BY <2>1
  <2> QED
    BY <1>7, <2>2, <2>3, <2>4, Zenon
<1>9. d = a
  BY <1>1, <1>3, <1>8, StandsSame
<1>10. Len(z) = Len(b)
  BY <1>5, <1>6, <1>8
<1>11. z = b
  BY <1>5, <1>8, <1>10, StandsSame
<1> QED
  BY <1>1, <1>6, <1>7, <1>9, <1>11, Zenon
-----------------------------------------------------------------------------
\* What FlattenSeq makes of two sequences of sequences, one after the other.
LEMMA FlattenConcat ==
  ASSUME NEW S, NEW a \in Seq(Seq(S)), NEW b \in Seq(Seq(S))
  PROVE  /\ FlattenSeq(a) \in Seq(S) /\ FlattenSeq(b) \in Seq(S)
         /\ FlattenSeq(a \o b) = FlattenSeq(a) \o FlattenSeq(b)
<1>1. PICK c, m, n : c = a \o b /\ m = Len(a) /\ n = Len(b)
  OBVIOUS
<1>2. /\ c \in Seq(Seq(S)) /\ m \in Nat /\ n \in Nat /\ Len(c) = m + n
      /\ \A k \in 1..m : c[k] = a[k]
      /\ \A k \in 1..n : c[m + k] = b[k]
  BY <1>1, ConcatIs
<1>3. PICK sa \in [0..m -> Seq(S)] : Sums(sa, a)
  BY <1>1, FlattenSums
<1>4. PICK sb \in [0..n -> Seq(S)] : Sums(sb, b)
  BY <1>1, FlattenSums
<1>5. PICK sc \in [0..m + n -> Seq(S)] : Sums(sc, c)
  BY <1>2, FlattenSums
<1>6. /\ sa[0] = <<>> /\ sb[0] = <<>> /\ sc[0] = <<>>
      /\ FlattenSeq(a) = sa[m] /\ FlattenSeq(b) = sb[n] /\ FlattenSeq(c) = sc[m + n]
      /\ \A i \in 1..m : sa[i] = sa[i - 1] \o a[i]
      /\ \A i \in 1..n : sb[i] = sb[i - 1] \o b[i]
      /\ \A i \in 1..m + n : sc[i] = sc[i - 1] \o c[i]
  BY <1>1, <1>2, <1>3, <1>4, <1>5 DEF Sums
<1>7. \A i \in 0..m : sa[i] \in Seq(S)
  BY <1>3
<1>8. \A i \in 0..n : sb[i] \in Seq(S)
  BY <1>4
<1>9. \A i \in 1..n : b[i] \in Seq(S)
  BY <1>1
<1> DEFINE T == {i \in Nat : i <= m => sc[i] = sa[i]}
           U == {j \in Nat : j <= n => sc[m + j] = sa[m] \o sb[j]}
<1>0. m \in Nat /\ n \in Nat
  BY <1>2
<1>10. T = Nat
  <2>1. 0 \in T
    BY <1>6
  <2>2. ASSUME NEW i \in Nat, i <= m => sc[i] = sa[i], i + 1 <= m PROVE sc[i + 1] = sa[i + 1]
    <3>1. sc[i] = sa[i] /\ i + 1 \in 1..m /\ i + 1 \in 1..m + n /\ (i + 1) - 1 = i
      BY <1>0, <2>2
    <3>2. sc[i + 1] = sc[i] \o c[i + 1] /\ sa[i + 1] = sa[i] \o a[i + 1] /\ c[i + 1] = a[i + 1]
      BY <1>2, <1>6, <3>1
    <3> QED
      BY <3>1, <3>2
  <2>3. T \in SUBSET Nat /\ \A i \in T : i + 1 \in T
    BY <2>2
  <2> HIDE DEF T
  <2> QED
    BY <2>1, <2>3, Induction
<1>11. sc[m] = sa[m] /\ sa[m] \in Seq(S)
  <2>1. m \in T
    BY <1>0, <1>10, Zenon
  <2>2. sc[m] = sa[m]
    BY <1>0, <2>1
  <2> QED
    BY <1>0, <1>7, <2>2
<1>12. U = Nat
  <2>1. 0 \in U
    <3>1. sa[m] \o <<>> = sa[m] /\ m + 0 = m
      BY <1>2, <1>11
    <3> QED
      BY <1>6, <1>11, <3>1
  <2>2. ASSUME NEW j \in Nat, j <= n => sc[m + j] = sa[m] \o sb[j], j + 1 <= n
        PROVE  sc[m + (j + 1)] = sa[m] \o sb[j + 1]
    <3>0. /\ j + 1 \in 1..n /\ (j + 1) - 1 = j /\ j \in 0..n /\ j <= n
          /\ m + (j + 1) \in 1..m + n /\ (m + (j + 1)) - 1 = m + j
      BY <1>0, <2>2
    <3>1. /\ sc[m + j] = sa[m] \o sb[j] /\ j + 1 \in 1..n /\ (j + 1) - 1 = j /\ j \in 0..n
          /\ m + (j + 1) \in 1..m + n /\ (m + (j + 1)) - 1 = m + j
      BY <2>2, <3>0
    <3>2. sc[m + (j + 1)] = sc[m + j] \o b[j + 1] /\ sb[j + 1] = sb[j] \o b[j + 1]
      BY <1>2, <1>6, <3>1
    <3>3. sb[j] \in Seq(S) /\ b[j + 1] \in Seq(S)
      BY <1>8, <1>9, <3>1
    <3>4. (sa[m] \o sb[j]) \o b[j + 1] = sa[m] \o (sb[j] \o b[j + 1])
      <4>1. Associates(sa[m], sb[j], b[j + 1])
        BY <1>11, <3>3, ConcatAssociates, Zenon
      <4> QED
        BY <4>1, Zenon DEF Associates
    <3> QED
      BY <3>1, <3>2, <3>4
  <2>3. U \in SUBSET Nat /\ \A j \in U : j + 1 \in U
    <3>1. \A j \in Nat : j + 1 \in Nat
      OBVIOUS
    <3> QED
      BY <2>2, <3>1, Zenon
  <2> HIDE DEF U
  <2> QED
    BY <2>1, <2>3, Induction
<1>13. sc[m + n] = sa[m] \o sb[n]
  <2>1. n \in U
    BY <1>0, <1>12, Zenon
  <2>2. n <= n
    BY <1>0
  <2> QED
    BY <2>1, <2>2, Zenon
<1>14. sa[m] \in Seq(S) /\ sb[n] \in Seq(S)
  BY <1>2, <1>8, <1>11
<1> QED
  BY <1>1, <1>6, <1>13, <1>14

\* FlattenSeq of sequences of which each has its place in a sequence t: the i-th ends at ends[i].
LEMMA FlattenPieces ==
  ASSUME NEW S, NEW t \in Seq(S), NEW seqs \in Seq(Seq(S)), NEW ends,
         ends[0] = 0, \A i \in 0..Len(seqs) : ends[i] \in 0..Len(t),
         \A i \in 1..Len(seqs) : seqs[i] = SubSeq(t, ends[i - 1] + 1, ends[i]) /\ ends[i - 1] <= ends[i]
  PROVE  FlattenSeq(seqs) = SubSeq(t, 1, ends[Len(seqs)])
<1>1. PICK n : n = Len(seqs) /\ n \in Nat
  OBVIOUS
<1>2. PICK s \in [0..n -> Seq(S)] : Sums(s, seqs)
  BY <1>1, FlattenSums
<1>3. s[0] = <<>> /\ FlattenSeq(seqs) = s[n] /\ \A i \in 1..n : s[i] = s[i - 1] \o seqs[i]
  BY <1>1, <1>2 DEF Sums
<1> DEFINE T == {i \in Nat : i <= n => s[i] = SubSeq(t, 1, ends[i])}
<1>4. 0 \in T
  <2>1. SubSeq(t, 1, 0) = <<>>
    OBVIOUS
  <2> QED
    BY <1>3, <2>1
<1>5. ASSUME NEW i \in T PROVE i + 1 \in T
  <2> SUFFICES ASSUME i + 1 <= n PROVE s[i + 1] = SubSeq(t, 1, ends[i + 1])
    OBVIOUS
  <2>1. s[i] = SubSeq(t, 1, ends[i]) /\ i + 1 \in 1..n /\ (i + 1) - 1 = i /\ i \in 0..n /\ i + 1 \in 0..n
    BY <1>1
  <2>2. PICK p, q : p = ends[i] /\ q = ends[i + 1]
    OBVIOUS
  <2>3. p \in 0..Len(t) /\ q \in 0..Len(t) /\ p <= q
    BY <1>1, <2>1, <2>2
  <2>4. seqs[i + 1] = SubSeq(t, p + 1, q) /\ s[i + 1] = SubSeq(t, 1, p) \o SubSeq(t, p + 1, q)
    BY <1>1, <1>3, <2>1, <2>2
  <2>5. SubSeq(t, 1, p) \o SubSeq(t, p + 1, q) = SubSeq(t, 1, q)
    <3>1. 1 \in 1..Len(t) + 1 /\ p \in 1 - 1..Len(t) /\ q \in p..Len(t)
      BY <2>3
    <3> QED
      BY <3>1, ConcatAdjacentSubSeq
  <2> QED
    BY <2>2, <2>4, <2>5
<1>6. T = Nat
  <2>1. T \in SUBSET Nat
    OBVIOUS
  <2> HIDE DEF T
  <2> QED
    BY <1>4, <1>5, <2>1, Induction
<1>7. n <= n => s[n] = SubSeq(t, 1, ends[n])
  <2>1. n \in T
    BY <1>1, <1>6, Zenon
  <2> QED
    BY <2>1
<1>8. n <= n
  BY <1>1
<1> QED
  BY <1>1, <1>3, <1>7, <1>8

\* A sequence is cut in two.
LEMMA CutIs ==
  ASSUME NEW S, NEW s \in Seq(S), NEW k \in 0..Len(s)
  PROVE  /\ SubSeq(s, 1, k) \in Seq(S) /\ SubSeq(s, k + 1, Len(s)) \in Seq(S)
         /\ Len(SubSeq(s, 1, k)) = k /\ Len(SubSeq(s, k + 1, Len(s))) = Len(s) - k
         /\ SubSeq(s, 1, k) \o SubSeq(s, k + 1, Len(s)) = s
<1>1. /\ SubSeq(s, 1, k) \in Seq(S) /\ SubSeq(s, k + 1, Len(s)) \in Seq(S)
      /\ Len(SubSeq(s, 1, k)) = k /\ Len(SubSeq(s, k + 1, Len(s))) = Len(s) - k
  OBVIOUS
<1>2. SubSeq(s, 1, k) \o SubSeq(s, k + 1, Len(s)) = SubSeq(s, 1, Len(s))
  <2>1. 1 \in 1..Len(s) + 1 /\ k \in 1 - 1..Len(s) /\ Len(s) \in k..Len(s)
    OBVIOUS
  <2> QED
    BY <2>1, ConcatAdjacentSubSeq
<1>3. SubSeq(s, 1, Len(s)) = s
  BY SubSeqFull
<1> QED
  BY <1>1, <1>2, <1>3
\* The sums get no shorter.
LEMMA SumsGrow ==
  ASSUME NEW S, NEW seqs \in Seq(Seq(S)), NEW sums \in [0..Len(seqs) -> Seq(S)], Sums(sums, seqs),
         NEW i \in 0..Len(seqs), NEW j \in i..Len(seqs)
  PROVE  Len(sums[i]) <= Len(sums[j])
<1>1. PICK n : n = Len(seqs) /\ n \in Nat
  OBVIOUS
<1>2. \A k \in 0..n : sums[k] \in Seq(S)
  BY <1>1
<1>3. \A k \in 1..n : Len(sums[k]) = Len(sums[k - 1]) + Len(seqs[k]) /\ Len(seqs[k]) \in Nat
  <2>1. TAKE k \in 1..n
  <2>2. k \in 0..Len(seqs) /\ k > 0 /\ seqs[k] \in Seq(S)
    BY <1>1
  <2>3. Len(sums[k]) = Len(sums[k - 1]) + Len(seqs[k])
    BY <2>2, SumsStand
  <2> QED
    BY <2>2, <2>3
<1> DEFINE T == {k \in Nat : i + k <= n => Len(sums[i]) <= Len(sums[i + k])}
<1>4. 0 \in T
  <2>1. i \in 0..n /\ i + 0 = i
    BY <1>1
  <2>2. Len(sums[i]) \in Nat
    BY <1>2, <2>1
  <2> QED
    BY <2>1, <2>2
<1>5. ASSUME NEW k \in T PROVE k + 1 \in T
  <2> SUFFICES ASSUME i + (k + 1) <= n PROVE Len(sums[i]) <= Len(sums[i + (k + 1)])
    OBVIOUS
  <2>1. PICK m : m = i + (k + 1)
    OBVIOUS
  <2>2. m \in 1..n /\ m - 1 = i + k /\ m - 1 \in 0..n /\ i \in 0..n
    BY <1>1, <2>1
  <2>3. Len(sums[i]) <= Len(sums[m - 1])
    BY <2>2
  <2>4. Len(sums[m]) = Len(sums[m - 1]) + Len(seqs[m]) /\ Len(seqs[m]) \in Nat
    BY <1>3, <2>2
  <2>5. PICK a \in Nat, b \in Nat, c \in Nat : a = Len(sums[i]) /\ b = Len(sums[m - 1]) /\ c = Len(seqs[m])
    <3>1. Len(sums[i]) \in Nat /\ Len(sums[m - 1]) \in Nat
      BY <1>2, <2>2
    <3> QED
      BY <2>4, <3>1
  <2>6. a <= b /\ Len(sums[m]) = b + c
    BY <2>3, <2>4, <2>5
  <2>7. a <= b + c
    BY <2>6
  <2> QED
    BY <2>1, <2>5, <2>6, <2>7
<1>6. T = Nat
  <2>1. T \in SUBSET Nat
    OBVIOUS
  <2> HIDE DEF T
  <2> QED
    BY <1>4, <1>5, <2>1, Induction
<1>7. i + (j - i) = j /\ j <= n /\ j - i \in Nat
  BY <1>1
<1>8. j - i \in T
  BY <1>6, <1>7, Zenon
<1> QED
  BY <1>7, <1>8

\* Only the first k of some sequences are kept, and nothing is left of the others.
KeepsFirst(kept, seqs, k) ==
  Len(kept) = Len(seqs) /\ \A i \in 1..Len(seqs) : kept[i] = IF i <= k THEN seqs[i] ELSE <<>>

\* FlattenSeq of them is the sum of those.
LEMMA FlattenKept ==
  ASSUME NEW S, NEW seqs \in Seq(Seq(S)), NEW sums \in [0..Len(seqs) -> Seq(S)], Sums(sums, seqs),
         NEW kept \in Seq(Seq(S)), NEW k \in 0..Len(seqs), KeepsFirst(kept, seqs, k)
  PROVE  FlattenSeq(kept) = sums[k]
<1>1. PICK n : n = Len(seqs) /\ n \in Nat
  OBVIOUS
<1>0. Len(kept) = n /\ \A i \in 1..n : kept[i] = IF i <= k THEN seqs[i] ELSE <<>>
  BY <1>1 DEF KeepsFirst
<1>2. PICK s \in [0..n -> Seq(S)] : Sums(s, kept)
  BY <1>0, FlattenSums
<1>3. s[0] = <<>> /\ FlattenSeq(kept) = s[n] /\ \A i \in 1..n : s[i] = s[i - 1] \o kept[i]
  BY <1>0, <1>2 DEF Sums
<1>4. sums[0] = <<>> /\ \A i \in 1..n : sums[i] = sums[i - 1] \o seqs[i]
  BY <1>1 DEF Sums
<1>5. \A i \in 0..n : sums[i] \in Seq(S)
  BY <1>1
<1>6. \A x \in Seq(S) : x \o <<>> = x
  OBVIOUS
<1> DEFINE T == {i \in Nat : i <= n => s[i] = sums[IF i <= k THEN i ELSE k]}
<1>7. 0 \in T
  BY <1>3, <1>4
<1>8. ASSUME NEW i \in T PROVE i + 1 \in T
  <2> SUFFICES ASSUME i + 1 <= n PROVE s[i + 1] = sums[IF i + 1 <= k THEN i + 1 ELSE k]
    OBVIOUS
  <2>1. i + 1 \in 1..n /\ (i + 1) - 1 = i /\ k \in 0..n /\ s[i] = sums[IF i <= k THEN i ELSE k]
    BY <1>1
  <2>2. s[i + 1] = s[i] \o kept[i + 1]
    BY <1>3, <2>1
  <2>3. CASE i + 1 <= k
    <3>1. kept[i + 1] = seqs[i + 1] /\ s[i] = sums[i]
      BY <1>0, <2>1, <2>3
    <3>2. sums[i + 1] = sums[i] \o seqs[i + 1]
      BY <1>4, <2>1
    <3> QED
      BY <2>2, <2>3, <3>1, <3>2
  <2>4. CASE ~(i + 1 <= k)
    <3>1. kept[i + 1] = <<>>
      BY <1>0, <2>1, <2>4
    <3>2. s[i] = sums[k]
      <4>1. i <= k => i = k
        BY <2>4
      <4> QED
        BY <2>1, <4>1
    <3>3. sums[k] \in Seq(S)
      BY <1>5, <2>1
    <3> QED
      BY <1>6, <2>2, <2>4, <3>1, <3>2, <3>3
  <2> QED
    BY <2>3, <2>4
<1>9. T = Nat
  <2>1. T \in SUBSET Nat
    OBVIOUS
  <2> HIDE DEF T
  <2> QED
    BY <1>7, <1>8, <2>1, Induction
<1>10. s[n] = sums[IF n <= k THEN n ELSE k]
  <2>1. n \in T
    BY <1>1, <1>9, Zenon
  <2> QED
    BY <1>1, <2>1
<1>11. n <= k => n = k
  BY <1>1
<1> QED
  BY <1>3, <1>10, <1>11
=============================================================================
