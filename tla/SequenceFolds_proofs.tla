------------------------ MODULE SequenceFolds_proofs ------------------------
(***************************************************************************)
(* Folds over sequences, for proofs about their values: that the iteration *)
(* behind a fold over the positions of a sequence exists, what it is on    *)
(* one position more, and induction over a sequence.  The induction        *)
(* theorems of the library take an operator, which the provers cannot      *)
(* instantiate; here the induction is about membership in a set, and comes *)
(* from the well-foundedness of < on the numbers.                          *)
(***************************************************************************)
EXTENDS SequencesExt, WellFoundedInduction, TLAPS

\* A set that has 0 and, with a number, the next one, has all numbers.
LEMMA NatSetInduction ==
  ASSUME NEW S, 0 \in S, \A n \in Nat : n \in S => n + 1 \in S
  PROVE  Nat \subseteq S
  <1> DEFINE R == OpToRel(<, Nat)
  <1> DEFINE T == Nat \ S
  <1>1. SUFFICES ASSUME T # {} PROVE FALSE
    OBVIOUS
  <1>2. \A x, y \in Nat : x < y => <<x, y>> \in R
    BY Zenon DEF OpToRel
  <1>3. IsWellFoundedOn(R, Nat)
    BY Zenon, NatLessThanWellFounded
  <1>4. T \subseteq Nat
    OBVIOUS
  <1>5. \E x \in T : \A y \in T : <<y, x>> \notin R
    <2> HIDE DEF R, T
    <2> QED
      BY <1>1, <1>3, <1>4, WFMin
  <1> HIDE DEF R
  <1>6. PICK x \in T : \A y \in T : <<y, x>> \notin R
    BY <1>5
  <1>7. x \in Nat /\ x - 1 \in Nat /\ x - 1 < x /\ x - 1 \in T
    OBVIOUS
  <1>8. <<x - 1, x>> \in R
    BY <1>2, <1>7
  <1> QED
    BY <1>6, <1>7, <1>8

\* Every set of some of the first n numbers that is not empty has a largest one,
\* and Max chooses it.
LEMMA MaxExists ==
  ASSUME NEW n \in Nat, NEW t \in SUBSET (1..n), t # {}
  PROVE  Max(t) \in t /\ \A y \in t : y <= Max(t)
  <1> DEFINE S == {m \in Nat : \A u \in SUBSET (1..m) :
                                   u # {} => \E x \in u : \A y \in u : x >= y}
  <1>1. 0 \in S
    <2>1. ASSUME NEW u \in SUBSET (1..0), NEW x \in u PROVE FALSE
      <3>1. x \in 1..0
        OBVIOUS
      <3> QED
        BY <3>1
    <2> QED
      BY <2>1
  <1>2. ASSUME NEW m \in Nat, m \in S PROVE m + 1 \in S
    <2> SUFFICES ASSUME NEW u \in SUBSET (1..(m + 1)), u # {}
                 PROVE  \E x \in u : \A y \in u : x >= y
      OBVIOUS
    <2>1. CASE m + 1 \in u
      BY <2>1
    <2>2. CASE m + 1 \notin u
      <3>1. u \in SUBSET (1..m)
        BY <2>2
      <3> QED
        BY <1>2, <3>1
    <2> QED
      BY <2>1, <2>2
  <1>3. n \in S
    <2> HIDE DEF S
    <2> QED
      BY <1>1, <1>2, NatSetInduction
  <1>4. PICK x \in t : \A y \in t : x >= y
    BY <1>3
  <1>5. Max(t) \in t /\ \A y \in t : Max(t) >= y
    BY <1>4, Zenon DEF Max
  <1> QED
    BY <1>5

\* The positions of the empty sequence.
LEMMA EmptyPrefix == 1..0 = {}
  OBVIOUS

\* The last of the first k positions, and those before it.
LEMMA PrefixStep ==
  ASSUME NEW k \in Nat \ {0}
  PROVE  1..k # {} /\ Max(1..k) = k /\ (1..k) \ {Max(1..k)} = 1..(k - 1)
  <1> DEFINE t == 1..k
  <1>1. k \in Nat /\ k \in t /\ t \in SUBSET (1..k) /\ t # {}
    OBVIOUS
  <1>2. Max(t) \in t /\ \A y \in t : y <= Max(t)
    <2> HIDE DEF t
    <2> QED
      BY <1>1, MaxExists
  <1>3. Max(t) = k
    BY <1>1, <1>2
  <1>4. (1..k) \ {k} = 1..(k - 1)
    OBVIOUS
  <1> QED
    BY <1>1, <1>3, <1>4

\* iter is what a fold over the positions 1..n iterates: it takes the largest
\* position of a set last.
IsFold(iter, step, base, n) ==
    \A t \in SUBSET (1..n) :
        iter[t] = IF t = {} THEN base ELSE step[<<iter[t \ {Max(t)}], Max(t)>>]

\* There is such an iteration, whatever one step does: a fold is well defined.
LEMMA FoldExists ==
  ASSUME NEW V, NEW base \in V, NEW n \in Nat, NEW step \in [V \X (1..n) -> V]
  PROVE  \E iter \in [SUBSET (1..n) -> V] : IsFold(iter, step, base, n)
  <1> DEFINE Fold(iter, m) == IsFold(iter, step, base, m)
             S == {m \in Nat : m <= n => \E iter \in [SUBSET (1..m) -> V] : Fold(iter, m)}
  <1>1. 0 \in S
    <2> DEFINE first == [t \in SUBSET (1..0) |-> base]
    <2>1. \A t \in SUBSET (1..0) : t = {}
      BY EmptyPrefix
    <2>2. first \in [SUBSET (1..0) -> V] /\ Fold(first, 0)
      BY <2>1 DEF IsFold
    <2> HIDE DEF first, Fold
    <2> QED
      BY <2>2
  <1>2. ASSUME NEW m \in Nat, m \in S PROVE m + 1 \in S
    <2>1. CASE ~(m + 1 <= n)
      BY <2>1
    <2>2. CASE m + 1 <= n
      <3>1. PICK f \in [SUBSET (1..m) -> V] : Fold(f, m)
        <4>1. m <= n
          BY <2>2
        <4> HIDE DEF Fold
        <4> QED
          BY <1>2, <4>1
      <3> DEFINE g == [t \in SUBSET (1..(m + 1)) |->
                          IF m + 1 \in t THEN step[<<f[t \ {m + 1}], m + 1>>] ELSE f[t]]
      <3>2. ASSUME NEW t \in SUBSET (1..(m + 1)), m + 1 \notin t
            PROVE  t \in SUBSET (1..m) /\ g[t] = f[t] /\ f[t] \in V
        <4>1. t \in SUBSET (1..m)
          BY <3>2
        <4> QED
          BY <3>1, <3>2, <4>1
      <3>3. ASSUME NEW t \in SUBSET (1..(m + 1)), m + 1 \in t
            PROVE  /\ t \ {m + 1} \in SUBSET (1..m) /\ f[t \ {m + 1}] \in V
                   /\ Max(t) = m + 1 /\ g[t] = step[<<f[t \ {m + 1}], m + 1>>]
                   /\ g[t] \in V
        <4>1. t \ {m + 1} \in SUBSET (1..m)
          OBVIOUS
        <4>2. Max(t) = m + 1
          <5>1. Max(t) \in t /\ \A y \in t : y <= Max(t)
            <6>1. m + 1 \in Nat /\ t # {}
              BY <3>3
            <6> HIDE DEF Fold, S, g
            <6> QED
              BY <6>1, MaxExists
          <5>2. Max(t) \in 1..(m + 1) /\ m + 1 <= Max(t)
            BY <3>3, <5>1
          <5> HIDE DEF Fold, S, g
          <5> QED
            BY <5>2
        <4>3. f[t \ {m + 1}] \in V /\ m + 1 \in 1..n
          BY <2>2, <3>1, <4>1
        <4>4. step[<<f[t \ {m + 1}], m + 1>>] \in V
          BY <4>3
        <4> QED
          BY <3>3, <4>1, <4>2, <4>3, <4>4
      <3>4. g \in [SUBSET (1..(m + 1)) -> V]
        BY <3>2, <3>3
      <3>5. ASSUME NEW t \in SUBSET (1..(m + 1))
            PROVE  g[t] = IF t = {} THEN base ELSE step[<<g[t \ {Max(t)}], Max(t)>>]
        <4>1. CASE m + 1 \in t
          <5>1. g[t] = step[<<f[t \ {m + 1}], m + 1>>] /\ Max(t) = m + 1
            BY <3>3, <4>1
          <5>2. g[t \ {m + 1}] = f[t \ {m + 1}]
            BY <3>2
          <5> QED
            BY <4>1, <5>1, <5>2
        <4>2. CASE m + 1 \notin t
          <5>1. t \in SUBSET (1..m) /\ g[t] = f[t]
            BY <3>2, <4>2
          <5>2. t # {} => g[t \ {Max(t)}] = f[t \ {Max(t)}]
            BY <3>2, <4>2
          <5>3. f[t] = IF t = {} THEN base ELSE step[<<f[t \ {Max(t)}], Max(t)>>]
            BY <3>1, <5>1 DEF IsFold
          <5> QED
            BY <5>1, <5>2, <5>3
        <4> QED
          BY <4>1, <4>2
      <3>6. Fold(g, m + 1)
        BY <3>5 DEF IsFold
      <3> HIDE DEF g, Fold
      <3> QED
        BY <3>4, <3>6
    <2> QED
      BY <2>1, <2>2
  <1>3. n \in S
    <2> HIDE DEF S
    <2> QED
      BY <1>1, <1>2, NatSetInduction
  <1>4. \E iter \in [SUBSET (1..n) -> V] : Fold(iter, n)
    <2>1. n <= n
      OBVIOUS
    <2> HIDE DEF Fold
    <2> QED
      BY <1>3, <2>1
  <1> QED
    BY <1>4

\* Sequences by induction: from the empty one, one element at the end at a time.
LEMMA SequenceInduction ==
  ASSUME NEW E, NEW T, <<>> \in T,
         \A s \in Seq(E) : s \in T => \A e \in E : Append(s, e) \in T
  PROVE  Seq(E) \subseteq T
  <1> DEFINE S == {n \in Nat : \A s \in Seq(E) : Len(s) = n => s \in T}
  <1>1. 0 \in S
    <2>1. ASSUME NEW s \in Seq(E), Len(s) = 0 PROVE s = <<>>
      BY <2>1
    <2> QED
      BY <2>1
  <1>2. ASSUME NEW n \in Nat, n \in S PROVE n + 1 \in S
    <2> SUFFICES ASSUME NEW s \in Seq(E), Len(s) = n + 1 PROVE s \in T
      OBVIOUS
    <2> DEFINE f == SubSeq(s, 1, n)
    <2>1. f \in Seq(E) /\ Len(f) = n
      OBVIOUS
    <2>2. s[n + 1] \in E
      OBVIOUS
    <2>3. s = Append(f, s[n + 1])
      OBVIOUS
    <2>4. f \in T
      BY <1>2, <2>1
    <2> HIDE DEF f
    <2> QED
      BY <2>1, <2>2, <2>3, <2>4
  <1>3. Nat \subseteq S
    <2> HIDE DEF S
    <2> QED
      BY <1>1, <1>2, NatSetInduction
  <1>4. ASSUME NEW s \in Seq(E) PROVE s \in T
    <2>1. Len(s) \in S
      BY <1>3
    <2> QED
      BY <2>1
  <1> QED
    BY <1>4

\* Two iterations that agree where they begin, and in every step, agree.
LEMMA AgreeOnPrefixes ==
  ASSUME NEW n \in Nat, NEW f, NEW g, f[1..0] = g[1..0],
         \A k \in 1..n : f[1..(k - 1)] = g[1..(k - 1)] => f[1..k] = g[1..k]
  PROVE  f[1..n] = g[1..n]
  <1> DEFINE S == {k \in Nat : k <= n => f[1..k] = g[1..k]}
  <1>1. 0 \in S
    OBVIOUS
  <1>2. ASSUME NEW k \in Nat, k \in S PROVE k + 1 \in S
    <2>1. CASE k + 1 <= n
      <3>1. k + 1 \in 1..n /\ k <= n /\ (k + 1) - 1 = k
        BY <2>1
      <3>2. f[1..k] = g[1..k]
        BY <1>2, <3>1
      <3> QED
        BY <3>1, <3>2
    <2>2. CASE ~(k + 1 <= n)
      BY <2>2
    <2> QED
      BY <2>1, <2>2
  <1>3. n \in S
    <2> HIDE DEF S
    <2> QED
      BY <1>1, <1>2, NatSetInduction
  <1> QED
    BY <1>3

-----------------------------------------------------------------------------
(* FlattenSeq, one sequence after the other.                               *)

\* f[k] is the first k of the sequences one after the other.
IsFlattening(f, seqs) ==
    /\ f[0] = <<>>
    /\ \A k \in 1..Len(seqs) : f[k] = f[k - 1] \o seqs[k]

\* FlattenSeq is the last of such a function, which there is for every sequence
\* of sequences.
LEMMA FlattenSteps ==
  ASSUME NEW E, NEW seqs \in Seq(Seq(E))
  PROVE  \E f \in [0..Len(seqs) -> Seq(E)] :
             IsFlattening(f, seqs) /\ FlattenSeq(seqs) = f[Len(seqs)]
  <1> DEFINE n    == Len(seqs)
             step == [p \in Seq(E) \X (1..n) |-> p[1] \o seqs[p[2]]]
  <1>1. n \in Nat /\ <<>> \in Seq(E)
    OBVIOUS
  <1>2. step \in [Seq(E) \X (1..n) -> Seq(E)]
    <2>1. \A p \in Seq(E) \X (1..n) : p[1] \o seqs[p[2]] \in Seq(E)
      OBVIOUS
    <2> QED
      BY <2>1
  <1>3. \A s \in Seq(E), k \in 1..n : step[<<s, k>>] = s \o seqs[k]
    OBVIOUS
  <1>4. PICK iter \in [SUBSET (1..n) -> Seq(E)] : IsFold(iter, step, <<>>, n)
    <2> HIDE DEF n, step
    <2> QED
      BY <1>1, <1>2, FoldExists
  <1> DEFINE f == [k \in 0..n |-> iter[1..k]]
  <1>5. \A k \in 0..n : 1..k \in SUBSET (1..n)
    BY <1>1
  <1>6. f \in [0..n -> Seq(E)]
    BY <1>4, <1>5
  <1>7. f[0] = <<>>
    <2>1. 1..0 \in SUBSET (1..n) /\ 1..0 = {} /\ 0 \in 0..n
      BY <1>1, EmptyPrefix
    <2> QED
      BY <1>4, <2>1 DEF IsFold
  <1>8. ASSUME NEW k \in 1..n PROVE f[k] = f[k - 1] \o seqs[k]
    <2>1. k \in Nat \ {0} /\ k \in 0..n /\ k - 1 \in 0..n /\ 1..k \in SUBSET (1..n)
      BY <1>1
    <2>2. 1..k # {} /\ Max(1..k) = k /\ (1..k) \ {Max(1..k)} = 1..(k - 1)
      BY <2>1, PrefixStep
    <2>3. iter[1..k] = step[<<iter[1..(k - 1)], k>>]
      <3> HIDE DEF n, step
      <3> QED
        BY <1>4, <2>1, <2>2 DEF IsFold
    <2>4. iter[1..(k - 1)] \in Seq(E)
      BY <1>4, <1>5, <2>1
    <2> HIDE DEF step
    <2> QED
      BY <1>3, <2>1, <2>3, <2>4
  <1>9. FlattenSeq(seqs) = f[n]
    <2>1. CASE n = 0
      <3>1. seqs = <<>>
        BY <2>1
      <3>2. FlattenSeq(seqs) = seqs
        BY <2>1, Zenon DEF FlattenSeq
      <3> HIDE DEF f
      <3> QED
        BY <1>7, <2>1, <3>1, <3>2
    <2>2. CASE n # 0
      <3> DEFINE flatten[i \in 1..Len(seqs)] ==
                     IF i = 1 THEN seqs[i] ELSE flatten[i - 1] \o seqs[i]
                 g == [k \in 1..n |-> f[k]]
                 Flat(h) == h = [i \in 1..Len(seqs) |->
                                    IF i = 1 THEN seqs[i] ELSE h[i - 1] \o seqs[i]]
      <3>1. FlattenSeq(seqs) = flatten[Len(seqs)]
        BY <2>2, Zenon DEF FlattenSeq
      <3>2. Flat(g)
        <4>1. ASSUME NEW i \in 1..n
              PROVE  f[i] = IF i = 1 THEN seqs[i] ELSE g[i - 1] \o seqs[i]
          <5> HIDE DEF f
          <5>1. CASE i = 1
            <6>1. seqs[i] \in Seq(E) /\ i - 1 = 0
              BY <5>1
            <6>2. <<>> \o seqs[i] = seqs[i]
              BY <6>1
            <6> QED
              BY <1>7, <1>8, <5>1, <6>1, <6>2
          <5>2. CASE i # 1
            <6>1. i - 1 \in 1..n
              BY <1>1, <5>2
            <6> QED
              BY <1>8, <5>2, <6>1
          <5> QED
            BY <5>1, <5>2
        <4> HIDE DEF f
        <4> QED
          BY <4>1
      <3>3. Flat(flatten)
        <4>1. flatten = CHOOSE h : Flat(h)
          BY Zenon
        <4> HIDE DEF Flat, flatten, g
        <4> QED
          BY <3>2, <4>1
      <3>4. ASSUME NEW h, Flat(h) PROVE h[n] = f[n]
        <4> DEFINE S == {k \in Nat : k \in 1..n => h[k] = f[k]}
        <4>1. 0 \in S
          OBVIOUS
        <4>2. ASSUME NEW k \in Nat, k \in S PROVE k + 1 \in S
          <5> SUFFICES ASSUME k + 1 \in 1..n PROVE h[k + 1] = f[k + 1]
            BY <4>2
          <5>1. h[k + 1] = IF k + 1 = 1 THEN seqs[k + 1] ELSE h[k] \o seqs[k + 1]
            <6>1. \A i \in 1..n : h[i] = IF i = 1 THEN seqs[i] ELSE h[i - 1] \o seqs[i]
              <7> HIDE DEF f, g, flatten, S
              <7> QED
                BY <3>4, Zenon
            <6>2. (k + 1) - 1 = k
              OBVIOUS
            <6> HIDE DEF f, g, flatten, S, n
            <6> QED
              BY <6>1, <6>2
          <5>2. f[k + 1] = IF k + 1 = 1 THEN seqs[k + 1] ELSE g[k] \o seqs[k + 1]
            <6>1. g[k + 1] = f[k + 1] /\ (k + 1) - 1 = k
              OBVIOUS
            <6> HIDE DEF f, g
            <6> QED
              BY <3>2, <6>1
          <5>3. k + 1 # 1 => k \in 1..n /\ g[k] = f[k] /\ h[k] = f[k]
            BY <4>2
          <5> HIDE DEF f, g
          <5> QED
            BY <5>1, <5>2, <5>3
        <4>3. Nat \subseteq S
          <5> HIDE DEF S
          <5> QED
            BY <4>1, <4>2, NatSetInduction
        <4>4. n \in 1..n
          BY <1>1, <2>2
        <4> HIDE DEF f, Flat
        <4> QED
          BY <4>3, <4>4
      <3> HIDE DEF flatten, f, g, Flat
      <3> QED
        BY <3>1, <3>3, <3>4
    <2> QED
      BY <2>1, <2>2
  <1>10. IsFlattening(f, seqs)
    <2> HIDE DEF f
    <2> QED
      BY <1>7, <1>8 DEF IsFlattening
  <1> HIDE DEF f
  <1> QED
    BY <1>6, <1>9, <1>10

\* Where the elements of each sequence are in the last of such a function.
KeepsParts(f, seqs) ==
    \A k \in 1..Len(seqs) :
        /\ Len(f[k]) = Len(f[k - 1]) + Len(seqs[k])
        /\ Len(f[k]) <= Len(f[Len(seqs)])
        /\ \A j \in 1..Len(seqs[k]) : f[Len(seqs)][Len(f[k - 1]) + j] = seqs[k][j]

\* All the sequences are in it, each after those before it.
LEMMA FlatteningKeeps ==
  ASSUME NEW E, NEW seqs \in Seq(Seq(E)), NEW f \in [0..Len(seqs) -> Seq(E)],
         IsFlattening(f, seqs)
  PROVE  KeepsParts(f, seqs)
  <1> DEFINE n == Len(seqs)
             At(m, k) == /\ Len(f[k]) <= Len(f[m])
                         /\ \A j \in 1..Len(seqs[k]) : f[m][Len(f[k - 1]) + j] = seqs[k][j]
             S == {m \in Nat : m <= n => \A k \in 1..n : k <= m => At(m, k)}
  <1>1. n \in Nat /\ (\A k \in 0..n : f[k] \in Seq(E)) /\ (\A k \in 1..n : seqs[k] \in Seq(E))
    OBVIOUS
  <1>2. \A k \in 1..n : f[k] = f[k - 1] \o seqs[k]
    BY DEF IsFlattening
  <1> HIDE DEF n
  <1>3. ASSUME NEW k \in 1..n
        PROVE  /\ f[k - 1] \in Seq(E) /\ seqs[k] \in Seq(E) /\ f[k] \in Seq(E)
               /\ f[k] = f[k - 1] \o seqs[k]
    <2>1. k - 1 \in 0..n /\ k \in 0..n
      BY <1>1
    <2> QED
      BY <1>1, <1>2, <2>1
  <1>4. ASSUME NEW k \in 1..n PROVE Len(f[k]) = Len(f[k - 1]) + Len(seqs[k])
    <2> DEFINE a == f[k - 1]
               b == seqs[k]
    <2>1. a \in Seq(E) /\ b \in Seq(E) /\ f[k] = a \o b
      BY <1>3
    <2> HIDE DEF a, b
    <2>2. Len(f[k]) = Len(a) + Len(b)
      BY <2>1
    <2> QED
      BY <2>2 DEF a, b
  <1>5. 0 \in S
    OBVIOUS
  <1>6. ASSUME NEW m \in Nat, m \in S PROVE m + 1 \in S
    <2>1. SUFFICES ASSUME m + 1 <= n, NEW k \in 1..n, k <= m + 1 PROVE At(m + 1, k)
      <3> HIDE DEF At
      <3> QED
        BY <1>1
    <2>2. m + 1 \in 1..n /\ (m + 1) - 1 = m /\ m <= n
      BY <1>1, <2>1
    <2> DEFINE a == f[m]
               b == seqs[m + 1]
               c == f[m + 1]
    <2>3. c = a \o b /\ a \in Seq(E) /\ b \in Seq(E) /\ c \in Seq(E)
      BY <1>3, <2>2
    <2>4. f[k - 1] \in Seq(E) /\ seqs[k] \in Seq(E) /\ Len(f[k]) = Len(f[k - 1]) + Len(seqs[k])
      BY <1>3, <1>4
    <2>5. CASE k = m + 1
      <3>1. f[k - 1] = a /\ f[k] = c /\ seqs[k] = b
        BY <2>5, <2>2
      <3>2. Len(c) <= Len(c)
        BY <2>3
      <3>3. ASSUME NEW j \in 1..Len(b) PROVE c[Len(a) + j] = b[j]
        <4> HIDE DEF a, b, c, S, At
        <4> QED
          BY <2>3
      <3> HIDE DEF a, b, c, S
      <3> QED
        BY <3>1, <3>2, <3>3 DEF c
    <2>6. CASE k <= m
      <3>1. At(m, k)
        <4> HIDE DEF At
        <4> QED
          BY <1>6, <2>2, <2>6
      <3> DEFINE l == Len(f[k - 1])
                 e == seqs[k]
      <3>2. l + Len(e) <= Len(a) /\ l \in Nat /\ e \in Seq(E)
        <4>1. Len(f[k]) <= Len(a)
          BY <3>1
        <4>2. l \in Nat
          <5> DEFINE d == f[k - 1]
          <5>1. d \in Seq(E)
            BY <2>4
          <5> HIDE DEF d
          <5> QED
            BY <5>1 DEF d
        <4> HIDE DEF S, At, a, b, c
        <4> QED
          BY <2>4, <4>1, <4>2
      <3>3. \A j \in 1..Len(e) : a[l + j] = e[j]
        BY <3>1
      <3> HIDE DEF a, b, c, S, At, l, e
      <3>4. Len(c) = Len(a) + Len(b)
        BY <2>3
      <3>5. l + Len(e) <= Len(c)
        <4>1. Len(a) \in Nat /\ Len(b) \in Nat /\ Len(e) \in Nat
          BY <2>3, <3>2
        <4> QED
          BY <3>2, <3>4, <4>1
      <3>6. ASSUME NEW j \in 1..Len(e) PROVE c[l + j] = e[j]
        <4>1. l + j \in 1..Len(a)
          <5>1. Len(a) \in Nat /\ Len(e) \in Nat
            BY <2>3, <3>2
          <5> QED
            BY <3>2, <5>1
        <4>2. c[l + j] = a[l + j]
          BY <2>3, <4>1
        <4> QED
          BY <3>3, <4>2
      <3> QED
        BY <2>4, <3>5, <3>6 DEF At, l, e, c
    <2>7. k = m + 1 \/ k <= m
      BY <1>1, <2>1
    <2> QED
      BY <2>5, <2>6, <2>7
  <1>7. \A k \in 1..n : At(n, k)
    <2>1. Nat \subseteq S
      <3> HIDE DEF S
      <3> QED
        BY <1>5, <1>6, NatSetInduction
    <2>2. n <= n /\ \A k \in 1..n : k <= n
      BY <1>1
    <2> HIDE DEF At
    <2> QED
      BY <1>1, <2>1, <2>2
  <1> QED
    BY <1>4, <1>7 DEF n, KeepsParts
=============================================================================
