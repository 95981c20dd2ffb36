----------------------------- MODULE DataFacts -----------------------------
(***************************************************************************)
(* Facts about sets of numbers and about sequences that several proofs     *)
(* need. Induction over the natural numbers is without an operator         *)
(* parameter: on sets of numbers, by way of their least elements.          *)
(***************************************************************************)
EXTENDS Naturals, SequencesExt, TLAPS, WellFoundedInduction, SequenceTheorems

\* A nonempty set of positions has a first one.
LEMMA LeastExists ==
    ASSUME NEW S \in SUBSET Nat, S # {}
    PROVE  \E i \in S : \A j \in S : i <= j
<1> DEFINE R == {ss \in Nat \X Nat : ss[1] < ss[2]}
<1>1. IsWellFoundedOn(R, Nat)
    BY NatLessThanWellFounded DEF OpToRel
<1>2. S \subseteq Nat
    OBVIOUS
<1>3. \E i \in S : \A j \in S : ~(<<j, i>> \in R)
    <2> HIDE DEF R
    <2> QED  BY <1>1, <1>2, WFMin, Zenon
<1>4. PICK i \in S : \A j \in S : ~(<<j, i>> \in R)
    BY <1>3
<1>5. ASSUME NEW j \in S PROVE i <= j
    <2>1. i \in Nat /\ j \in Nat
        BY <1>2
    <2>2. ~(<<j, i>> \in Nat \X Nat /\ <<j, i>>[1] < <<j, i>>[2])
        BY <1>4
    <2> QED  BY <2>1, <2>2
<1> QED  BY <1>5

\* A nonempty set of numbers with a bound has a largest one.
LEMMA MaxIn ==
    ASSUME NEW n \in Nat, NEW S \in SUBSET (0..n), S # {}
    PROVE  Max(S) \in S /\ \A y \in S : Max(S) >= y
<1> DEFINE Far == {n - x : x \in S}
<1>1. Far \in SUBSET Nat /\ Far # {}
    <2>1. \A x \in S : n - x \in Nat
        OBVIOUS
    <2>2. Far \subseteq Nat
        BY <2>1
    <2>3. PICK x : x \in S
        OBVIOUS
    <2>4. n - x \in Far
        BY <2>3
    <2>5. QED
        BY <2>2, <2>4
<1>2. PICK d \in Far : \A e \in Far : d <= e
    <2> HIDE DEF Far
    <2> QED  BY <1>1, LeastExists
<1>3. PICK x \in S : d = n - x
    BY <1>2
<1>4. ASSUME NEW y \in S PROVE x >= y
    <2>1. d <= n - y
        BY <1>2
    <2>2. x \in 0..n /\ y \in 0..n
        OBVIOUS
    <2>3. QED
        BY <2>1, <2>2, <1>3
<1>5. \E z \in S : \A y \in S : z >= y
    BY <1>4
<1>6. QED
    BY <1>5 DEF Max

\* And a least one.
LEMMA MinIn ==
    ASSUME NEW S \in SUBSET Nat, S # {}
    PROVE  Min(S) \in S
<1>1. \E x \in S : \A y \in S : x <= y
    BY LeastExists
<1>2. \E x \in S : \A y \in S : x =< y
    BY <1>1
<1>3. QED
    BY <1>2 DEF Min

\* A set that holds 0 and, with each position up to n, the next one holds all
\* positions up to n.
LEMMA Induction ==
    ASSUME NEW n \in Nat, NEW S, 0 \in S, \A i \in 1..n : i - 1 \in S => i \in S
    PROVE  \A i \in 0..n : i \in S
<1> DEFINE missing == 0..n \ S
<1>1. SUFFICES ASSUME missing # {}
               PROVE  FALSE
    OBVIOUS
<1>2. missing \in SUBSET Nat
    OBVIOUS
<1>3. PICK i \in missing : \A j \in missing : i <= j
    <2> HIDE DEF missing
    <2> QED  BY <1>1, <1>2, LeastExists
<1>4. i \in 1..n /\ i - 1 \in 0..n
    BY <1>3
<1>5. i - 1 \notin missing
    <2>1. ~(i <= i - 1)
        BY <1>4
    <2> QED  BY <1>3, <2>1
<1>6. QED
    BY <1>3, <1>4, <1>5

-----------------------------------------------------------------------------
(* Sequences of anything *)

\* A sequence, of whatever there is in it.
IsSeq(p) == \E S : p \in Seq(S)

\* Tuples are sequences.
LEMMA Tuples ==
    /\ IsSeq(<<>>)
    /\ \A a : IsSeq(<<a>>)
    /\ \A a, b : IsSeq(<<a, b>>)
    /\ \A a, b, c : IsSeq(<<a, b, c>>)
    /\ \A a, b, c, d : IsSeq(<<a, b, c, d>>)
    /\ \A a, b, c, d, e : IsSeq(<<a, b, c, d, e>>)
    /\ \A a, b, c, d, e, f : IsSeq(<<a, b, c, d, e, f>>)
<1>1. <<>> \in Seq({})
    OBVIOUS
<1>2. \A a, b : <<a>> \in Seq({a}) /\ <<a, b>> \in Seq({a, b})
    OBVIOUS
<1>3. \A a, b, c : <<a, b, c>> \in Seq({a, b, c})
    OBVIOUS
<1>4. \A a, b, c, d : <<a, b, c, d>> \in Seq({a, b, c, d})
    OBVIOUS
<1>5. \A a, b, c, d, e : <<a, b, c, d, e>> \in Seq({a, b, c, d, e})
    OBVIOUS
<1>6. \A a, b, c, d, e, f : <<a, b, c, d, e, f>> \in Seq({a, b, c, d, e, f})
    OBVIOUS
<1>7. QED
    BY <1>1, <1>2, <1>3, <1>4, <1>5, <1>6 DEF IsSeq

\* The parts of a sequence.
LEMMA SeqFacts ==
    ASSUME NEW s, IsSeq(s)
    PROVE  /\ Len(s) \in Nat /\ DOMAIN s = 1..Len(s)
           /\ s = <<>> <=> Len(s) = 0
           /\ s # <<>> => /\ Head(s) = s[1] /\ IsSeq(Tail(s)) /\ Len(Tail(s)) = Len(s) - 1
                          /\ \A i \in 1..(Len(s) - 1) : Tail(s)[i] = s[i + 1]
<1>1. PICK S : s \in Seq(S)
    BY DEF IsSeq
<1>2. QED
    BY <1>1, EmptySeq, HeadTailProperties DEF IsSeq

\* Sequences with the same elements.
LEMMA SameSequences ==
    ASSUME NEW s, NEW t, IsSeq(s), IsSeq(t), Len(s) = Len(t), \A i \in 1..Len(s) : s[i] = t[i]
    PROVE  s = t
<1>1. PICK S, T : s \in Seq(S) /\ t \in Seq(T)
    BY DEF IsSeq
<1>2. s \in Seq(S \cup T) /\ t \in Seq(S \cup T)
    BY <1>1, SeqMonotonic
<1>3. QED
    BY <1>2, SeqEqual

\* One sequence after another.
LEMMA ConcatFacts ==
    ASSUME NEW s, NEW t, IsSeq(s), IsSeq(t)
    PROVE  /\ IsSeq(s \o t) /\ Len(s \o t) = Len(s) + Len(t)
           /\ \A i \in 1..Len(s) : (s \o t)[i] = s[i]
           /\ \A i \in 1..Len(t) : (s \o t)[Len(s) + i] = t[i]
<1>1. PICK S, T : s \in Seq(S) /\ t \in Seq(T)
    BY DEF IsSeq
<1>2. s \in Seq(S \cup T) /\ t \in Seq(S \cup T)
    BY <1>1, SeqMonotonic
<1>3. QED
    BY <1>2 DEF IsSeq

\* Nothing in front or behind.
LEMMA NothingJoins ==
    ASSUME NEW s, IsSeq(s)
    PROVE  <<>> \o s = s /\ s \o <<>> = s
BY ConcatEmptySeq DEF IsSeq

\* Joining associates.
LEMMA JoinsAssociate ==
    ASSUME NEW s, NEW t, NEW u, IsSeq(s), IsSeq(t), IsSeq(u)
    PROVE  (s \o t) \o u = s \o (t \o u)
<1>1. PICK S, T, U : s \in Seq(S) /\ t \in Seq(T) /\ u \in Seq(U)
    BY DEF IsSeq
<1>2. PICK V : V = S \cup T \cup U
    OBVIOUS
<1>3. s \in Seq(V) /\ t \in Seq(V) /\ u \in Seq(V)
    BY <1>1, <1>2, SeqMonotonic
<1>4. QED
    BY <1>3, ConcatAssociative

\* What is left of a sequence.
LEMMA SuffixFacts ==
    ASSUME NEW s, IsSeq(s), NEW n \in 0..Len(s)
    PROVE  /\ IsSeq(SubSeq(s, n + 1, Len(s))) /\ Len(SubSeq(s, n + 1, Len(s))) = Len(s) - n
           /\ \A i \in 1..(Len(s) - n) : SubSeq(s, n + 1, Len(s))[i] = s[n + i]
<1>1. PICK S : s \in Seq(S)
    BY DEF IsSeq
<1>2. /\ SubSeq(s, n + 1, Len(s)) \in Seq(S) /\ Len(SubSeq(s, n + 1, Len(s))) = Len(s) - n
      /\ \A i \in 1..(Len(s) - n) : SubSeq(s, n + 1, Len(s))[i] = s[n + i]
    BY <1>1, SubSeqProperties
<1>3. QED
    BY <1>2 DEF IsSeq

-----------------------------------------------------------------------------
(* Folds *)

\* The function over sets of places that a fold over a sequence computes, by
\* steps that take what there is and a place.
IsFold(n, base, step, w) ==
    w = [d \in SUBSET (1..n) |-> IF d = {} THEN base ELSE step[<<w[d \ {Max(d)}], Max(d)>>]]

\* It is defined.
LEMMA FoldExists ==
    ASSUME NEW n \in Nat, NEW V, NEW base \in V, NEW step \in [V \X (1..n) -> V]
    PROVE  \E w \in [SUBSET (1..n) -> V] : IsFold(n, base, step, w)
<1> DEFINE Part(i, w) == /\ w \in [SUBSET (1..i) -> V]
                         /\ IsFold(i, base, step, w)
           Some == {i \in 0..n : \E w : Part(i, w)}
<1>1. 0 \in Some
    <2>1. 1..0 = {}
        OBVIOUS
    <2>2. Part(0, [d \in SUBSET (1..0) |-> base])
        BY <2>1 DEF IsFold
    <2>3. 0 \in 0..n
        OBVIOUS
    <2>4. QED
        BY <2>2, <2>3
<1>2. ASSUME NEW i \in 1..n, i - 1 \in Some PROVE i \in Some
    <2>1. PICK w : Part(i - 1, w)
        BY <1>2
    <2> DEFINE v == [d \in SUBSET (1..i) |-> IF i \in d THEN step[<<w[d \ {i}], i>>] ELSE w[d]]
    <2>2. ASSUME NEW d \in SUBSET (1..i), i \in d PROVE d \ {i} \in SUBSET (1..(i - 1))
        <3>1. i \in Nat
            OBVIOUS
        <3>2. QED
            BY <3>1
    <2>3. ASSUME NEW d \in SUBSET (1..i), i \notin d PROVE d \in SUBSET (1..(i - 1))
        <3>1. i \in Nat
            OBVIOUS
        <3>2. QED
            BY <2>3, <3>1
    <2>4. v \in [SUBSET (1..i) -> V]
        <3>1. ASSUME NEW d \in SUBSET (1..i) PROVE v[d] \in V
            <4>1. CASE i \in d
                BY <2>1, <2>2, <4>1
            <4>2. CASE i \notin d
                BY <2>1, <2>3, <4>2
            <4>3. QED
                BY <4>1, <4>2
        <3>2. QED
            BY <3>1
    <2>5. ASSUME NEW d \in SUBSET (1..i)
          PROVE  v[d] = IF d = {} THEN base ELSE step[<<v[d \ {Max(d)}], Max(d)>>]
        <3>1. i \in Nat /\ d \in SUBSET (0..i)
            OBVIOUS
        <3>2. CASE i \in d
            <4>1. Max(d) \in d /\ Max(d) >= i
                BY <3>1, <3>2, MaxIn
            <4>2. Max(d) = i
                <5>1. Max(d) \in 1..i
                    BY <4>1
                <5>2. QED
                    BY <3>1, <4>1, <5>1
            <4>3. d \ {i} \in SUBSET (1..i) /\ i \notin d \ {i}
                OBVIOUS
            <4>4. v[d \ {i}] = w[d \ {i}]
                BY <4>3
            <4>5. QED
                BY <3>2, <4>2, <4>4
        <3>3. CASE i \notin d
            <4>1. d \in SUBSET (1..(i - 1))
                BY <2>3, <3>3
            <4>2. v[d] = w[d] /\ v[d \ {Max(d)}] = w[d \ {Max(d)}]
                BY <3>3
            <4>3. w[d] = IF d = {} THEN base ELSE step[<<w[d \ {Max(d)}], Max(d)>>]
                BY <2>1, <4>1 DEF IsFold
            <4>4. QED
                BY <4>2, <4>3
        <3>4. QED
            BY <3>2, <3>3
    <2>6. IsFold(i, base, step, v)
        BY <2>5 DEF IsFold
    <2>7. i \in 0..n
        OBVIOUS
    <2>8. QED
        BY <2>4, <2>6, <2>7
<1>3. \A i \in 0..n : i \in Some
    <2>1. \A i \in 1..n : i - 1 \in Some => i \in Some
        BY <1>2
    <2> HIDE DEF Some
    <2>2. QED
        BY <1>1, <2>1, Induction
<1>4. n \in Some
    <2> HIDE DEF Some
    <2> QED  BY <1>3
<1>5. QED
    BY <1>4

\* The last of the places up to one, and those before it.
LEMMA LastPlace ==
    ASSUME NEW n \in Nat, NEW i \in 1..n
    PROVE  /\ 1..i \in SUBSET (1..n) /\ 1..i # {}
           /\ Max(1..i) = i /\ (1..i) \ {i} = 1..(i - 1)
<1>1. i \in Nat /\ i >= 1 /\ i <= n
    OBVIOUS
<1>2. i \in 1..i /\ 1..i \in SUBSET (0..i)
    BY <1>1
<1>3. Max(1..i) \in 1..i /\ Max(1..i) >= i
    BY <1>1, <1>2, MaxIn
<1>4. Max(1..i) = i
    BY <1>1, <1>3
<1>5. (1..i) \ {i} = 1..(i - 1) /\ 1..i \in SUBSET (1..n)
    BY <1>1
<1>6. QED
    BY <1>2, <1>4, <1>5

-----------------------------------------------------------------------------
(* One sequence after another *)

\* The sequences up to each place, joined.
Joins(seqs, p) ==
    p[0] = <<>> /\ \A i \in 1..Len(seqs) : p[i] = p[i - 1] \o seqs[i]

\* FlattenSeq's function.
Flattens(seqs, f) ==
    f = [i \in 1..Len(seqs) |-> IF i = 1 THEN seqs[i] ELSE f[i - 1] \o seqs[i]]

\* It is defined.
LEMMA FlattenExists ==
    ASSUME NEW seqs, IsSeq(seqs)
    PROVE  \E f : Flattens(seqs, f)
<1> DEFINE n == Len(seqs)
           Part(i, f) == f = [k \in 1..i |-> IF k = 1 THEN seqs[k] ELSE f[k - 1] \o seqs[k]]
           Some == {i \in 0..n : \E f : Part(i, f)}
<1>1. n \in Nat
    BY SeqFacts
<1>2. 0 \in Some
    <2>1. 1..0 = {}
        OBVIOUS
    <2>2. Part(0, [k \in 1..0 |-> <<>>])
        BY <2>1
    <2>3. 0 \in 0..n
        BY <1>1
    <2>4. QED
        BY <2>2, <2>3
<1>3. ASSUME NEW i \in 1..n, i - 1 \in Some PROVE i \in Some
    <2>1. PICK f : Part(i - 1, f)
        BY <1>3
    <2> DEFINE g == [k \in 1..i |-> IF k = i THEN (IF k = 1 THEN seqs[k] ELSE f[k - 1] \o seqs[k])
                                     ELSE f[k]]
    <2>2. ASSUME NEW k \in 1..i
          PROVE  g[k] = IF k = 1 THEN seqs[k] ELSE g[k - 1] \o seqs[k]
        <3>1. i \in Nat /\ k \in Nat
            BY <1>1
        <3>2. k # 1 => k - 1 \in 1..i /\ k - 1 # i
            BY <3>1
        <3>3. k # 1 => g[k - 1] = f[k - 1]
            BY <3>2
        <3>4. CASE k = i
            BY <3>3, <3>4
        <3>5. CASE k # i
            <4>1. k \in 1..(i - 1)
                BY <3>1, <3>5
            <4>2. f[k] = IF k = 1 THEN seqs[k] ELSE f[k - 1] \o seqs[k]
                BY <2>1, <4>1
            <4>3. QED
                BY <3>3, <3>5, <4>2
        <3>6. QED
            BY <3>4, <3>5
    <2>3. Part(i, g)
        BY <2>2
    <2>4. i \in 0..n
        BY <1>1
    <2>5. QED
        BY <2>3, <2>4
<1>4. n \in Some
    <2>1. \A i \in 1..n : i - 1 \in Some => i \in Some
        BY <1>3
    <2> HIDE DEF Some, n
    <2>2. \A i \in 0..n : i \in Some
        BY <1>1, <1>2, <2>1, Induction
    <2>3. QED
        BY <1>1, <2>2
<1>5. QED
    BY <1>4 DEF Flattens

AllSeqs(seqs) == IsSeq(seqs) /\ \A i \in 1..Len(seqs) : IsSeq(seqs[i])

\* FlattenSeq joins: its parts up to a place are sequences, and the last is all.
LEMMA FlattenJoins ==
    ASSUME NEW seqs, AllSeqs(seqs)
    PROVE  \E p : /\ Joins(seqs, p) /\ FlattenSeq(seqs) = p[Len(seqs)]
                  /\ \A i \in 0..Len(seqs) : IsSeq(p[i])
<1> DEFINE n == Len(seqs)
<1>1. n \in Nat /\ IsSeq(seqs) /\ (seqs = <<>> <=> n = 0)
    BY SeqFacts DEF AllSeqs
<1> DEFINE f == CHOOSE g : Flattens(seqs, g)
<1>2. Flattens(seqs, f)
    BY <1>1, FlattenExists
<1>3. FlattenSeq(seqs) = IF n = 0 THEN seqs ELSE f[n]
    BY DEF FlattenSeq, Flattens
<1> HIDE DEF f
<1> DEFINE p == [i \in 0..n |-> IF i = 0 THEN <<>> ELSE f[i]]
<1>4. Joins(seqs, p)
    <2>1. p[0] = <<>>
        BY <1>1
    <2>2. ASSUME NEW i \in 1..n PROVE p[i] = p[i - 1] \o seqs[i]
        <3>1. i \in 0..n /\ i - 1 \in 0..n /\ i # 0 /\ (i = 1 <=> i - 1 = 0)
            BY <1>1
        <3>2. f[i] = IF i = 1 THEN seqs[i] ELSE f[i - 1] \o seqs[i]
            BY <1>2 DEF Flattens
        <3>3. IsSeq(seqs[i])
            BY DEF AllSeqs
        <3>4. CASE i = 1
            <4>1. p[i] = seqs[i] /\ p[i - 1] = <<>>
                BY <3>1, <3>2, <3>4
            <4>2. QED
                BY <3>3, <4>1, NothingJoins
        <3>5. CASE i # 1
            BY <3>1, <3>2, <3>5
        <3>6. QED
            BY <3>4, <3>5
    <2>3. QED
        BY <2>1, <2>2 DEF Joins
<1>5. FlattenSeq(seqs) = p[n]
    BY <1>1, <1>3
<1> HIDE DEF p
<1>6. \A i \in 0..n : IsSeq(p[i])
    <2> DEFINE Fine == {i \in 0..n : IsSeq(p[i])}
    <2>1. 0 \in Fine
        BY <1>1, <1>4, Tuples DEF Joins
    <2>2. ASSUME NEW i \in 1..n, i - 1 \in Fine PROVE i \in Fine
        <3>1. p[i] = p[i - 1] \o seqs[i] /\ i \in 0..n
            <4>1. i \in 0..n
                BY <1>1
            <4>2. QED
                BY <4>1, <1>4 DEF Joins
        <3>2. IsSeq(p[i - 1]) /\ IsSeq(seqs[i])
            BY <2>2 DEF AllSeqs
        <3>3. IsSeq(p[i])
            BY <3>1, <3>2, ConcatFacts
        <3>4. QED
            BY <3>1, <3>3
    <2>3. \A i \in 1..n : i - 1 \in Fine => i \in Fine
        BY <2>2
    <2>4. \A i \in 0..n : i \in Fine
        <3> HIDE DEF Fine, n
        <3>1. QED
            BY <1>1, <2>1, <2>3, Induction
    <2>5. QED
        BY <2>4
<1>7. QED
    BY <1>4, <1>5, <1>6

\* Joins determine.
LEMMA JoinsAreUnique ==
    ASSUME NEW seqs, IsSeq(seqs), NEW p, NEW q, Joins(seqs, p), Joins(seqs, q)
    PROVE  p[Len(seqs)] = q[Len(seqs)]
<1> DEFINE n == Len(seqs)
           Same == {i \in 0..n : p[i] = q[i]}
<1>1. n \in Nat
    BY SeqFacts
<1>2. 0 \in Same
    BY <1>1 DEF Joins
<1>3. ASSUME NEW i \in 1..n, i - 1 \in Same PROVE i \in Same
    <2>1. i \in 0..n
        BY <1>1
    <2>2. p[i] = p[i - 1] \o seqs[i] /\ q[i] = q[i - 1] \o seqs[i]
        BY DEF Joins
    <2>3. QED
        BY <2>1, <2>2, <1>3
<1>4. \A i \in 0..n : i \in Same
    <2>1. \A i \in 1..n : i - 1 \in Same => i \in Same
        BY <1>3
    <2> HIDE DEF Same, n
    <2>2. QED
        BY <1>1, <1>2, <2>1, Induction
<1>5. n \in Same
    BY <1>1, <1>4
<1>6. QED
    BY <1>5

\* One sequence more, joined behind,
LEMMA FlattenLonger ==
    ASSUME NEW a, NEW b, AllSeqs(a), AllSeqs(b), Len(b) = Len(a) + 1, \A i \in 1..Len(a) : b[i] = a[i]
    PROVE  FlattenSeq(b) = FlattenSeq(a) \o b[Len(b)]
<1>1. PICK p : Joins(b, p) /\ FlattenSeq(b) = p[Len(b)]
    BY FlattenJoins
<1>2. PICK q : Joins(a, q) /\ FlattenSeq(a) = q[Len(a)]
    BY FlattenJoins
<1>3. Len(a) \in Nat
    BY SeqFacts DEF AllSeqs
<1>4. Joins(a, p)
    <2>1. ASSUME NEW i \in 1..Len(a)
          PROVE  p[i] = p[i - 1] \o a[i]
        <3>1. i \in 1..Len(b)
            BY <1>3
        <3>2. p[i] = p[i - 1] \o b[i]
            BY <1>1, <3>1 DEF Joins
        <3>3. QED
            BY <3>2
    <2>2. QED
        BY <1>1, <2>1 DEF Joins
<1>5. FlattenSeq(a) = p[Len(a)]
    BY <1>2, <1>4, JoinsAreUnique DEF AllSeqs
<1>6. p[Len(b)] = p[Len(b) - 1] \o b[Len(b)] /\ Len(b) - 1 = Len(a)
    <2>1. Len(b) \in 1..Len(b) /\ Len(b) - 1 = Len(a)
        BY <1>3
    <2>2. QED
        BY <1>1, <2>1 DEF Joins
<1>7. QED
    BY <1>1, <1>5, <1>6

\* and one more in front.
LEMMA FlattenFront ==
    ASSUME NEW a, NEW b, AllSeqs(a), AllSeqs(b), Len(a) = Len(b) + 1, \A i \in 1..Len(b) : b[i] = a[i + 1]
    PROVE  FlattenSeq(a) = a[1] \o FlattenSeq(b) /\ IsSeq(FlattenSeq(b)) /\ IsSeq(a[1])
<1>1. PICK q : Joins(b, q) /\ FlattenSeq(b) = q[Len(b)] /\ \A i \in 0..Len(b) : IsSeq(q[i])
    BY FlattenJoins
<1>2. PICK r : Joins(a, r) /\ FlattenSeq(a) = r[Len(a)]
    BY FlattenJoins
<1>3. Len(b) \in Nat
    BY SeqFacts DEF AllSeqs
<1>4. \A i \in 1..Len(a) : IsSeq(a[i])
    BY DEF AllSeqs
<1>5. IsSeq(a[1])
    BY <1>3, <1>4
<1>6. PICK p : p = [i \in 0..Len(a) |-> IF i = 0 THEN <<>> ELSE a[1] \o q[i - 1]]
    OBVIOUS
<1>7. ASSUME NEW i \in 1..Len(a)
      PROVE  p[i] = p[i - 1] \o a[i]
    <2>1. i \in 0..Len(a) /\ i - 1 \in 0..Len(a) /\ i # 0
        BY <1>3
    <2>2. p[i] = a[1] \o q[i - 1]
        BY <1>6, <2>1
    <2>3. CASE i = 1
        <3>1. p[i - 1] = <<>> /\ q[i - 1] = <<>>
            BY <1>1, <1>6, <2>1, <2>3 DEF Joins
        <3>2. QED
            BY <1>5, <2>2, <2>3, <3>1, NothingJoins
    <2>4. CASE i # 1
        <3>1. i - 1 \in 1..Len(b) /\ (i - 1) + 1 = i /\ (i - 1) - 1 \in 0..Len(b) /\ i - 1 # 0
            BY <1>3, <2>1, <2>4
        <3>2. p[i - 1] = a[1] \o q[(i - 1) - 1]
            BY <1>6, <2>1, <3>1
        <3>3. q[i - 1] = q[(i - 1) - 1] \o b[i - 1] /\ b[i - 1] = a[i]
            BY <1>1, <3>1 DEF Joins
        <3>4. IsSeq(q[(i - 1) - 1]) /\ IsSeq(a[i])
            BY <1>1, <1>4, <3>1
        <3>5. (a[1] \o q[(i - 1) - 1]) \o a[i] = a[1] \o (q[(i - 1) - 1] \o a[i])
            <4>1. PICK x, y, z : x = a[1] /\ y = q[(i - 1) - 1] /\ z = a[i]
                OBVIOUS
            <4>2. IsSeq(x) /\ IsSeq(y) /\ IsSeq(z)
                BY <1>5, <3>4, <4>1
            <4>3. (x \o y) \o z = x \o (y \o z)
                BY <4>2, JoinsAssociate
            <4>4. QED
                BY <4>1, <4>3
        <3>6. QED
            BY <2>2, <3>2, <3>3, <3>5
    <2>5. QED
        BY <2>3, <2>4
<1>8. Joins(a, p)
    <2>1. p[0] = <<>>
        BY <1>3, <1>6
    <2>2. QED
        BY <1>7, <2>1 DEF Joins
<1>9. FlattenSeq(a) = p[Len(a)]
    BY <1>2, <1>8, JoinsAreUnique DEF AllSeqs
<1>10. p[Len(a)] = a[1] \o q[Len(b)]
    <2>1. Len(a) \in 0..Len(a) /\ Len(a) # 0 /\ Len(a) - 1 = Len(b)
        BY <1>3
    <2>2. QED
        BY <1>6, <2>1
<1>11. IsSeq(q[Len(b)])
    BY <1>1, <1>3
<1>12. QED
    BY <1>1, <1>5, <1>9, <1>10, <1>11

LEMMA FlattenNothing == FlattenSeq(<<>>) = <<>>
<1>1. Len(<<>>) = 0
    BY Tuples
<1>2. QED
    BY <1>1 DEF FlattenSeq
=============================================================================
