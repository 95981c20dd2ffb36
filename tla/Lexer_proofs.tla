---------------------------- MODULE Lexer_proofs ----------------------------
(***************************************************************************)
(* Proofs about Lexer and SemanticTokens, for every text: the tokens are   *)
(* the places of the text, whatever the lexer peeked at, put back or       *)
(* renamed, a rename that is let through changes one token and no other,   *)
(* the editor, the rope and the tree mean the same places, and the         *)
(* highlights colour the characters of the tokens.                         *)
(***************************************************************************)
EXTENDS SemanticTokens, DataFacts, FiniteSetTheorems

-----------------------------------------------------------------------------
(* Widths *)

\* What the numbers u sum up to, at each place.
Sums(u, p) == p[0] = 0 /\ \A i \in DOMAIN u : p[i] = p[i - 1] + u[i]

\* The same as a fold over sets of places, in which Width is defined.
Folded(u, w) ==
    w = [d \in SUBSET DOMAIN u |-> IF d = {} THEN 0 ELSE w[d \ {Max(d)}] + u[Max(d)]]

\* It is defined.
LEMMA FoldedExists ==
    ASSUME NEW n \in Nat, NEW u \in [1..n -> Nat]
    PROVE  \E w : Folded(u, w)
<1> DEFINE step == [x \in Nat \X (1..n) |-> x[1] + u[x[2]]]
<1>1. step \in [Nat \X (1..n) -> Nat]
    OBVIOUS
<1>2. PICK w \in [SUBSET (1..n) -> Nat] : IsFold(n, 0, step, w)
    <2> HIDE DEF step
    <2> QED  BY <1>1, FoldExists
<1>3. ASSUME NEW d \in SUBSET (1..n), d # {}
      PROVE  step[<<w[d \ {Max(d)}], Max(d)>>] = w[d \ {Max(d)}] + u[Max(d)]
    <2>1. d \in SUBSET (0..n)
        OBVIOUS
    <2>2. Max(d) \in 1..n
        BY <1>3, <2>1, MaxIn
    <2>3. w[d \ {Max(d)}] \in Nat
        OBVIOUS
    <2>4. QED
        BY <2>2, <2>3
<1> HIDE DEF step
<1>4. \A d \in SUBSET (1..n) :
          w[d] = IF d = {} THEN 0 ELSE w[d \ {Max(d)}] + u[Max(d)]
    BY <1>2, <1>3 DEF IsFold
<1>5. Folded(u, w)
    BY <1>4 DEF Folded
<1>6. QED
    BY <1>5

\* It sums up.
LEMMA FoldSums ==
    ASSUME NEW n \in Nat, NEW u, DOMAIN u = 1..n, NEW w, Folded(u, w)
    PROVE  \E p : Sums(u, p) /\ w[1..n] = p[n]
<1>1. w[{}] = 0
    BY DEF Folded
<1>2. ASSUME NEW i \in 1..n
      PROVE  w[1..i] = w[1..(i - 1)] + u[i]
    <2>1. 1..i \in SUBSET (1..n) /\ 1..i # {} /\ Max(1..i) = i /\ (1..i) \ {i} = 1..(i - 1)
        BY LastPlace
    <2>2. w[1..i] = w[(1..i) \ {Max(1..i)}] + u[Max(1..i)]
        BY <2>1 DEF Folded
    <2>3. QED
        BY <2>1, <2>2
<1>3. Sums(u, [i \in 0..n |-> w[1..i]])
    <2>1. 1..0 = {}
        OBVIOUS
    <2>2. QED
        BY <1>1, <1>2, <2>1 DEF Sums
<1>4. QED
    BY <1>3

LEMMA SumsType ==
    ASSUME NEW n \in Nat, NEW u \in [1..n -> Nat], NEW p, Sums(u, p)
    PROVE  \A i \in 0..n : p[i] \in Nat
<1> DEFINE Number == {i \in 0..n : p[i] \in Nat}
<1>1. 0 \in Number
    BY DEF Sums
<1>2. \A i \in 1..n : i - 1 \in Number => i \in Number
    BY DEF Sums
<1>3. \A i \in 0..n : i \in Number
    <2> HIDE DEF Number
    <2> QED  BY <1>1, <1>2, Induction
<1>4. QED
    BY <1>3

LEMMA SumsAreUnique ==
    ASSUME NEW n \in Nat, NEW u, DOMAIN u = 1..n, NEW p, NEW q, Sums(u, p), Sums(u, q)
    PROVE  p[n] = q[n]
<1> DEFINE Same == {i \in 0..n : p[i] = q[i]}
<1>1. 0 \in Same
    BY DEF Sums
<1>2. ASSUME NEW i \in 1..n, i - 1 \in Same PROVE i \in Same
    <2>1. p[i] = p[i - 1] + u[i] /\ q[i] = q[i - 1] + u[i] /\ i \in 0..n
        BY DEF Sums
    <2>2. QED
        BY <1>2, <2>1
<1>3. \A i \in 0..n : i \in Same
    <2>1. \A i \in 1..n : i - 1 \in Same => i \in Same
        BY <1>2
    <2> HIDE DEF Same
    <2>2. QED
        BY <1>1, <2>1, Induction
<1>4. QED
    BY <1>3

\* Numbers after numbers.
Follow(u, m, v, n, both) ==
    /\ u \in [1..m -> Nat] /\ v \in [1..n -> Nat] /\ DOMAIN both = 1..(m + n)
    /\ \A i \in 1..m : both[i] = u[i]
    /\ \A i \in 1..n : both[m + i] = v[i]

LEMMA SumsAdd ==
    ASSUME NEW m \in Nat, NEW n \in Nat, NEW u, NEW v, NEW both, Follow(u, m, v, n, both),
           NEW p, NEW q, Sums(u, p), Sums(v, q)
    PROVE  \E r : Sums(both, r) /\ r[m + n] = p[m] + q[n]
<1> USE DEF Follow
<1>1. p[m] \in Nat
    BY SumsType
<1> DEFINE r == [i \in 0..(m + n) |-> IF i <= m THEN p[i] ELSE p[m] + q[i - m]]
<1>2. r[0] = 0
    BY DEF Sums
<1>3. ASSUME NEW i \in 1..(m + n)
      PROVE  r[i] = r[i - 1] + both[i]
    <2>1. CASE i <= m
        <3>1. i \in 1..m
            BY <2>1
        <3>2. r[i] = p[i] /\ r[i - 1] = p[i - 1]
            BY <2>1
        <3>3. p[i] = p[i - 1] + u[i]
            BY <3>1 DEF Sums
        <3>4. QED
            BY <3>1, <3>2, <3>3
    <2>2. CASE i > m
        <3>1. PICK k : k = i - m
            OBVIOUS
        <3>2. k \in 1..n /\ i = m + k
            BY <2>2, <3>1
        <3>3. both[i] = v[k]
            BY <3>2
        <3>4. q[k] = q[k - 1] + v[k]
            BY <3>2 DEF Sums
        <3>5. r[i] = p[m] + q[k]
            BY <2>2, <3>1
        <3>6. r[i - 1] = p[m] + q[k - 1]
            <4>1. CASE k = 1
                <5>1. r[i - 1] = p[m]
                    BY <3>2, <4>1
                <5>2. q[k - 1] = 0
                    BY <4>1 DEF Sums
                <5>3. QED
                    BY <5>1, <5>2, <1>1
            <4>2. CASE k # 1
                <5>1. i - 1 > m /\ i - 1 - m = k - 1 /\ i - 1 \in 0..(m + n)
                    BY <3>2, <4>2
                <5>2. QED
                    BY <5>1
            <4>3. QED
                BY <4>1, <4>2
        <3>7. v[k] \in Nat /\ q[k - 1] \in Nat
            <4>1. k - 1 \in 0..n
                BY <3>2
            <4>2. QED
                BY <3>2, <4>1, SumsType
        <3>8. QED
            BY <3>3, <3>4, <3>5, <3>6, <3>7, <1>1
    <2>3. QED
        BY <2>1, <2>2
<1>4. r[m + n] = p[m] + q[n]
    <2>1. CASE n = 0
        <3>1. q[n] = 0
            BY <2>1 DEF Sums
        <3>2. QED
            BY <2>1, <3>1, <1>1
    <2>2. CASE n # 0
        BY <2>2
    <2>3. QED
        BY <2>1, <2>2
<1>5. QED
    BY <1>2, <1>3, <1>4 DEF Sums

\* The widths of the characters.
Utf8s(s) == [i \in DOMAIN s |-> Utf8(s[i])]

LEMMA Utf8sType ==
    ASSUME NEW s, IsSeq(s)
    PROVE  Len(s) \in Nat /\ DOMAIN s = 1..Len(s) /\ Utf8s(s) \in [1..Len(s) -> Nat]
<1>1. Len(s) \in Nat /\ DOMAIN s = 1..Len(s)
    BY SeqFacts
<1>2. \A c : Utf8(c) \in Nat
    BY DEF Utf8
<1>3. QED
    BY <1>1, <1>2 DEF Utf8s

\* The width of a text is what they sum up to.
LEMMA Utf8Sums ==
    ASSUME NEW s, IsSeq(s)
    PROVE  \E p : Sums(Utf8s(s), p) /\ Width(s, Utf8) = p[Len(s)]
<1>1. Len(s) \in Nat /\ DOMAIN s = 1..Len(s) /\ DOMAIN Utf8s(s) = 1..Len(s)
    BY Utf8sType
<1> DEFINE Is(w) == w = [d \in SUBSET DOMAIN s |->
                             IF d = {} THEN 0 ELSE w[d \ {Max(d)}] + Utf8(s[Max(d)])]
<1>2. ASSUME NEW w PROVE Is(w) <=> Folded(Utf8s(s), w)
    <2>1. ASSUME NEW d \in SUBSET DOMAIN s, d # {} PROVE Utf8s(s)[Max(d)] = Utf8(s[Max(d)])
        <3>1. d \in SUBSET (0..Len(s))
            BY <1>1
        <3>2. Max(d) \in d
            BY <1>1, <2>1, <3>1, MaxIn
        <3>3. QED
            BY <3>2 DEF Utf8s
    <2>2. [d \in SUBSET DOMAIN s |-> IF d = {} THEN 0 ELSE w[d \ {Max(d)}] + Utf8(s[Max(d)])]
              = [d \in SUBSET DOMAIN Utf8s(s) |->
                     IF d = {} THEN 0 ELSE w[d \ {Max(d)}] + Utf8s(s)[Max(d)]]
        BY <1>1, <2>1
    <2>3. QED
        BY <2>2 DEF Folded
<1> DEFINE w == CHOOSE iter : Is(iter)
<1>3. Is(w)
    <2>1. \E v : Folded(Utf8s(s), v)
        BY <1>1, Utf8sType, FoldedExists
    <2>2. \E v : Is(v)
        BY <1>2, <2>1
    <2>3. QED
        BY <2>2
<1>4. Width(s, Utf8) = w[DOMAIN s]
    BY DEF Width, FoldLeft, MapThenFoldSet
<1>5. Folded(Utf8s(s), w)
    BY <1>2, <1>3
<1> HIDE DEF w
<1>6. QED
    BY <1>1, <1>4, <1>5, FoldSums

LEMMA Utf8Width ==
    ASSUME NEW s, NEW t, IsSeq(s), IsSeq(t)
    PROVE  /\ Width(s, Utf8) \in Nat
           /\ Width(s \o t, Utf8) = Width(s, Utf8) + Width(t, Utf8)
<1> DEFINE m == Len(s)
           n == Len(t)
           both == s \o t
<1>1. /\ m \in Nat /\ n \in Nat /\ DOMAIN s = 1..m /\ DOMAIN t = 1..n
      /\ Utf8s(s) \in [1..m -> Nat] /\ Utf8s(t) \in [1..n -> Nat]
    BY Utf8sType
<1>2. /\ IsSeq(both) /\ Len(both) = m + n
      /\ \A i \in 1..m : both[i] = s[i]
      /\ \A i \in 1..n : both[m + i] = t[i]
    BY ConcatFacts
<1>3. DOMAIN both = 1..(m + n)
    BY <1>2, Utf8sType
<1>4. PICK p : Sums(Utf8s(s), p) /\ Width(s, Utf8) = p[m]
    BY Utf8Sums
<1>5. PICK q : Sums(Utf8s(t), q) /\ Width(t, Utf8) = q[n]
    BY Utf8Sums
<1>6. PICK a : Sums(Utf8s(both), a) /\ Width(both, Utf8) = a[m + n]
    BY <1>2, Utf8Sums
<1> HIDE DEF both, m, n
<1>7. DOMAIN Utf8s(both) = 1..(m + n)
    BY <1>3 DEF Utf8s
<1>8. \A i \in 1..m : Utf8s(both)[i] = Utf8s(s)[i]
    <2>1. \A i \in 1..m : i \in 1..(m + n)
        BY <1>1
    <2>2. QED
        BY <1>1, <1>2, <1>3, <2>1 DEF Utf8s
<1>9. \A i \in 1..n : Utf8s(both)[m + i] = Utf8s(t)[i]
    <2>1. \A i \in 1..n : m + i \in 1..(m + n)
        BY <1>1
    <2>2. QED
        BY <1>1, <1>2, <1>3, <2>1 DEF Utf8s
<1>10. PICK r : Sums(Utf8s(both), r) /\ r[m + n] = p[m] + q[n]
    <2>1. PICK u, v, uv : u = Utf8s(s) /\ v = Utf8s(t) /\ uv = Utf8s(both)
        OBVIOUS
    <2>2. Follow(u, m, v, n, uv) /\ Sums(u, p) /\ Sums(v, q)
        BY <1>1, <1>4, <1>5, <1>7, <1>8, <1>9, <2>1 DEF Follow
    <2>3. \E r : Sums(uv, r) /\ r[m + n] = p[m] + q[n]
        BY <1>1, <2>2, SumsAdd
    <2>4. QED
        BY <2>1, <2>3
<1>11. m + n \in Nat /\ m \in 0..m
    BY <1>1
<1>12. a[m + n] = r[m + n]
    BY <1>6, <1>7, <1>10, <1>11, SumsAreUnique
<1>13. p[m] \in Nat
    BY <1>1, <1>4, <1>11, SumsType
<1>14. QED
    BY <1>4, <1>5, <1>6, <1>10, <1>12, <1>13 DEF both

\* Nothing has no width, and a character some.
LEMMA Utf8Small ==
    /\ Width(<<>>, Utf8) = 0
    /\ \A s : IsSeq(s) /\ s # <<>> => Width(s, Utf8) >= 1
<1>1. Width(<<>>, Utf8) = 0
    <2>1. IsSeq(<<>>) /\ Len(<<>>) = 0
        BY Tuples
    <2>2. PICK p : Sums(Utf8s(<<>>), p) /\ Width(<<>>, Utf8) = p[Len(<<>>)]
        BY <2>1, Utf8Sums
    <2>3. QED
        BY <2>1, <2>2 DEF Sums
<1>2. ASSUME NEW s, IsSeq(s), s # <<>> PROVE Width(s, Utf8) >= 1
    <2>1. Len(s) \in 1..Len(s) /\ Len(s) \in Nat
        BY <1>2, SeqFacts
    <2>2. PICK p : Sums(Utf8s(s), p) /\ Width(s, Utf8) = p[Len(s)]
        BY <1>2, Utf8Sums
    <2>3. Utf8s(s) \in [1..Len(s) -> Nat] /\ DOMAIN s = 1..Len(s)
        BY <1>2, Utf8sType
    <2>4. p[Len(s)] = p[Len(s) - 1] + Utf8s(s)[Len(s)]
        BY <2>1, <2>2, <2>3 DEF Sums
    <2>5. Len(s) - 1 \in 0..Len(s)
        BY <2>1
    <2>6. p[Len(s) - 1] \in Nat
        BY <2>1, <2>2, <2>3, <2>5, SumsType
    <2>7. Utf8s(s)[Len(s)] \in Nat \ {0}
        BY <2>1, <2>3 DEF Utf8s, Utf8
    <2>8. QED
        BY <2>2, <2>4, <2>6, <2>7
<1>3. QED
    BY <1>1, <1>2

\* The widths of the characters.
Utf16s(s) == [i \in DOMAIN s |-> Utf16(s[i])]

LEMMA Utf16sType ==
    ASSUME NEW s, IsSeq(s)
    PROVE  Len(s) \in Nat /\ DOMAIN s = 1..Len(s) /\ Utf16s(s) \in [1..Len(s) -> Nat]
<1>1. Len(s) \in Nat /\ DOMAIN s = 1..Len(s)
    BY SeqFacts
<1>2. \A c : Utf16(c) \in Nat
    BY DEF Utf16
<1>3. QED
    BY <1>1, <1>2 DEF Utf16s

\* The width of a text is what they sum up to.
LEMMA Utf16Sums ==
    ASSUME NEW s, IsSeq(s)
    PROVE  \E p : Sums(Utf16s(s), p) /\ Width(s, Utf16) = p[Len(s)]
<1>1. Len(s) \in Nat /\ DOMAIN s = 1..Len(s) /\ DOMAIN Utf16s(s) = 1..Len(s)
    BY Utf16sType
<1> DEFINE Is(w) == w = [d \in SUBSET DOMAIN s |->
                             IF d = {} THEN 0 ELSE w[d \ {Max(d)}] + Utf16(s[Max(d)])]
<1>2. ASSUME NEW w PROVE Is(w) <=> Folded(Utf16s(s), w)
    <2>1. ASSUME NEW d \in SUBSET DOMAIN s, d # {} PROVE Utf16s(s)[Max(d)] = Utf16(s[Max(d)])
        <3>1. d \in SUBSET (0..Len(s))
            BY <1>1
        <3>2. Max(d) \in d
            BY <1>1, <2>1, <3>1, MaxIn
        <3>3. QED
            BY <3>2 DEF Utf16s
    <2>2. [d \in SUBSET DOMAIN s |-> IF d = {} THEN 0 ELSE w[d \ {Max(d)}] + Utf16(s[Max(d)])]
              = [d \in SUBSET DOMAIN Utf16s(s) |->
                     IF d = {} THEN 0 ELSE w[d \ {Max(d)}] + Utf16s(s)[Max(d)]]
        BY <1>1, <2>1
    <2>3. QED
        BY <2>2 DEF Folded
<1> DEFINE w == CHOOSE iter : Is(iter)
<1>3. Is(w)
    <2>1. \E v : Folded(Utf16s(s), v)
        BY <1>1, Utf16sType, FoldedExists
    <2>2. \E v : Is(v)
        BY <1>2, <2>1
    <2>3. QED
        BY <2>2
<1>4. Width(s, Utf16) = w[DOMAIN s]
    BY DEF Width, FoldLeft, MapThenFoldSet
<1>5. Folded(Utf16s(s), w)
    BY <1>2, <1>3
<1> HIDE DEF w
<1>6. QED
    BY <1>1, <1>4, <1>5, FoldSums

LEMMA Utf16Width ==
    ASSUME NEW s, NEW t, IsSeq(s), IsSeq(t)
    PROVE  /\ Width(s, Utf16) \in Nat
           /\ Width(s \o t, Utf16) = Width(s, Utf16) + Width(t, Utf16)
<1> DEFINE m == Len(s)
           n == Len(t)
           both == s \o t
<1>1. /\ m \in Nat /\ n \in Nat /\ DOMAIN s = 1..m /\ DOMAIN t = 1..n
      /\ Utf16s(s) \in [1..m -> Nat] /\ Utf16s(t) \in [1..n -> Nat]
    BY Utf16sType
<1>2. /\ IsSeq(both) /\ Len(both) = m + n
      /\ \A i \in 1..m : both[i] = s[i]
      /\ \A i \in 1..n : both[m + i] = t[i]
    BY ConcatFacts
<1>3. DOMAIN both = 1..(m + n)
    BY <1>2, Utf16sType
<1>4. PICK p : Sums(Utf16s(s), p) /\ Width(s, Utf16) = p[m]
    BY Utf16Sums
<1>5. PICK q : Sums(Utf16s(t), q) /\ Width(t, Utf16) = q[n]
    BY Utf16Sums
<1>6. PICK a : Sums(Utf16s(both), a) /\ Width(both, Utf16) = a[m + n]
    BY <1>2, Utf16Sums
<1> HIDE DEF both, m, n
<1>7. DOMAIN Utf16s(both) = 1..(m + n)
    BY <1>3 DEF Utf16s
<1>8. \A i \in 1..m : Utf16s(both)[i] = Utf16s(s)[i]
    <2>1. \A i \in 1..m : i \in 1..(m + n)
        BY <1>1
    <2>2. QED
        BY <1>1, <1>2, <1>3, <2>1 DEF Utf16s
<1>9. \A i \in 1..n : Utf16s(both)[m + i] = Utf16s(t)[i]
    <2>1. \A i \in 1..n : m + i \in 1..(m + n)
        BY <1>1
    <2>2. QED
        BY <1>1, <1>2, <1>3, <2>1 DEF Utf16s
<1>10. PICK r : Sums(Utf16s(both), r) /\ r[m + n] = p[m] + q[n]
    <2>1. PICK u, v, uv : u = Utf16s(s) /\ v = Utf16s(t) /\ uv = Utf16s(both)
        OBVIOUS
    <2>2. Follow(u, m, v, n, uv) /\ Sums(u, p) /\ Sums(v, q)
        BY <1>1, <1>4, <1>5, <1>7, <1>8, <1>9, <2>1 DEF Follow
    <2>3. \E r : Sums(uv, r) /\ r[m + n] = p[m] + q[n]
        BY <1>1, <2>2, SumsAdd
    <2>4. QED
        BY <2>1, <2>3
<1>11. m + n \in Nat /\ m \in 0..m
    BY <1>1
<1>12. a[m + n] = r[m + n]
    BY <1>6, <1>7, <1>10, <1>11, SumsAreUnique
<1>13. p[m] \in Nat
    BY <1>1, <1>4, <1>11, SumsType
<1>14. QED
    BY <1>4, <1>5, <1>6, <1>10, <1>12, <1>13 DEF both

\* Nothing has no width, and a character some.
LEMMA Utf16Small ==
    /\ Width(<<>>, Utf16) = 0
    /\ \A s : IsSeq(s) /\ s # <<>> => Width(s, Utf16) >= 1
<1>1. Width(<<>>, Utf16) = 0
    <2>1. IsSeq(<<>>) /\ Len(<<>>) = 0
        BY Tuples
    <2>2. PICK p : Sums(Utf16s(<<>>), p) /\ Width(<<>>, Utf16) = p[Len(<<>>)]
        BY <2>1, Utf16Sums
    <2>3. QED
        BY <2>1, <2>2 DEF Sums
<1>2. ASSUME NEW s, IsSeq(s), s # <<>> PROVE Width(s, Utf16) >= 1
    <2>1. Len(s) \in 1..Len(s) /\ Len(s) \in Nat
        BY <1>2, SeqFacts
    <2>2. PICK p : Sums(Utf16s(s), p) /\ Width(s, Utf16) = p[Len(s)]
        BY <1>2, Utf16Sums
    <2>3. Utf16s(s) \in [1..Len(s) -> Nat] /\ DOMAIN s = 1..Len(s)
        BY <1>2, Utf16sType
    <2>4. p[Len(s)] = p[Len(s) - 1] + Utf16s(s)[Len(s)]
        BY <2>1, <2>2, <2>3 DEF Sums
    <2>5. Len(s) - 1 \in 0..Len(s)
        BY <2>1
    <2>6. p[Len(s) - 1] \in Nat
        BY <2>1, <2>2, <2>3, <2>5, SumsType
    <2>7. Utf16s(s)[Len(s)] \in Nat \ {0}
        BY <2>1, <2>3 DEF Utf16s, Utf16
    <2>8. QED
        BY <2>2, <2>4, <2>6, <2>7
<1>3. QED
    BY <1>1, <1>2

-----------------------------------------------------------------------------
(* Texts *)

\* A text has characters only.
IsText(s) == IsSeq(s) /\ \A i \in 1..Len(s) : s[i] # None

LEMMA TextsAreTexts == \A s \in Texts \cup NewNames : IsText(s)
<1>1. TAKE s \in Texts \cup NewNames
<1>2. s \in Seq(STRING \ {None})
    BY LexerAssumption
<1>3. \A i \in 1..Len(s) : s[i] \in STRING \ {None}
    BY <1>2, ElementOfSeq
<1>4. QED
    BY <1>2, <1>3 DEF IsText, IsSeq

\* Nothing is a text, and so is a character.
LEMMA SmallTexts ==
    /\ IsText(<<>>)
    /\ \A c : c # None => IsText(<<c>>)
<1>1. IsSeq(<<>>) /\ Len(<<>>) = 0
    BY Tuples
<1>2. \A c : IsSeq(<<c>>) /\ Len(<<c>>) = 1 /\ <<c>>[1] = c
    BY Tuples
<1>3. QED
    BY <1>1, <1>2 DEF IsText

LEMMA TextsJoin ==
    ASSUME NEW s, NEW t, IsText(s), IsText(t)
    PROVE  IsText(s \o t)
<1>1. IsSeq(s) /\ IsSeq(t) /\ Len(s) \in Nat /\ Len(t) \in Nat
    BY SeqFacts DEF IsText
<1>2. IsSeq(s \o t) /\ Len(s \o t) = Len(s) + Len(t)
    BY <1>1, ConcatFacts
<1>3. ASSUME NEW i \in 1..(Len(s) + Len(t)) PROVE (s \o t)[i] # None
    <2>1. CASE i <= Len(s)
        <3>1. i \in 1..Len(s) /\ (s \o t)[i] = s[i]
            BY <1>1, <2>1, ConcatFacts
        <3>2. QED
            BY <3>1 DEF IsText
    <2>2. CASE i > Len(s)
        <3>1. PICK k : k = i - Len(s)
            OBVIOUS
        <3>2. k \in 1..Len(t) /\ i = Len(s) + k
            BY <1>1, <2>2, <3>1
        <3>3. (s \o t)[i] = t[k]
            BY <1>1, <3>2, ConcatFacts
        <3>4. QED
            BY <3>2, <3>3 DEF IsText
    <2>3. QED
        BY <1>1, <2>1, <2>2
<1>4. QED
    BY <1>2, <1>3 DEF IsText

\* A text with a character in front, cut off again.
LEMMA HeadJoins ==
    ASSUME NEW s, IsText(s), s # <<>>
    PROVE  s[1] # None /\ IsText(Tail(s)) /\ <<s[1]>> \o Tail(s) = s
<1>1. /\ IsSeq(s) /\ Len(s) \in Nat \ {0} /\ IsSeq(Tail(s)) /\ Len(Tail(s)) = Len(s) - 1
      /\ \A i \in 1..(Len(s) - 1) : Tail(s)[i] = s[i + 1]
    BY SeqFacts DEF IsText
<1>2. IsText(Tail(s)) /\ s[1] # None
    BY <1>1 DEF IsText
<1>3. PICK whole : whole = <<s[1]>> \o Tail(s)
    OBVIOUS
<1>4. IsSeq(<<s[1]>>) /\ Len(<<s[1]>>) = 1
    BY Tuples
<1>5. /\ IsSeq(whole) /\ Len(whole) = 1 + (Len(s) - 1) /\ whole[1] = s[1]
      /\ \A i \in 1..(Len(s) - 1) : whole[1 + i] = Tail(s)[i]
    BY <1>1, <1>3, <1>4, ConcatFacts
<1>6. ASSUME NEW i \in 1..Len(whole) PROVE whole[i] = s[i]
    <2>1. CASE i = 1
        BY <2>1, <1>5
    <2>2. CASE i # 1
        <3>1. i - 1 \in 1..(Len(s) - 1) /\ 1 + (i - 1) = i /\ (i - 1) + 1 = i
            BY <2>2, <1>1, <1>5
        <3>2. QED
            BY <3>1, <1>1, <1>5
    <2>3. QED
        BY <2>1, <2>2
<1>7. Len(whole) = Len(s)
    BY <1>1, <1>5
<1>8. whole = s
    BY <1>1, <1>5, <1>6, <1>7, SameSequences
<1>9. QED
    BY <1>2, <1>3, <1>8

\* A text is cut in two, with a character at the cut or nothing behind it.
LEMMA TextIsCut ==
    ASSUME NEW s, IsText(s), NEW n \in 0..Len(s)
    PROVE  /\ IsText(SubSeq(s, 1, n)) /\ IsText(SubSeq(s, n + 1, Len(s)))
           /\ SubSeq(s, 1, n) \o SubSeq(s, n + 1, Len(s)) = s
<1>1. PICK S : s \in Seq(S)
    BY DEF IsText, IsSeq
<1>2. Len(s) \in Nat /\ n \in Nat /\ IsSeq(s)
    BY SeqFacts DEF IsText
<1>3. IsText(SubSeq(s, n + 1, Len(s)))
    <2>1. /\ IsSeq(SubSeq(s, n + 1, Len(s))) /\ Len(SubSeq(s, n + 1, Len(s))) = Len(s) - n
          /\ \A i \in 1..(Len(s) - n) : SubSeq(s, n + 1, Len(s))[i] = s[n + i]
        BY <1>2, SuffixFacts
    <2>2. \A i \in 1..(Len(s) - n) : n + i \in 1..Len(s)
        BY <1>2
    <2>3. QED
        BY <2>1, <2>2 DEF IsText
<1>4. IsText(SubSeq(s, 1, n))
    <2>1. \A i \in 1..n : s[i] \in S
        BY <1>1, <1>2, ElementOfSeq
    <2>2. /\ SubSeq(s, 1, n) \in Seq(S) /\ Len(SubSeq(s, 1, n)) = n
          /\ \A i \in 1..n : SubSeq(s, 1, n)[i] = s[i]
        BY <1>2, <2>1, SubSeqProperties
    <2>3. QED
        BY <1>2, <2>2 DEF IsText, IsSeq
<1>5. SubSeq(s, 1, n) \o SubSeq(s, n + 1, Len(s)) = s
    <2>1. SubSeq(s, 1, n) \o SubSeq(s, n + 1, Len(s)) = SubSeq(s, 1, Len(s))
        <3>1. 1 \in 1..(Len(s) + 1) /\ n \in (1 - 1)..Len(s) /\ Len(s) \in n..Len(s)
            BY <1>2
        <3>2. QED
            BY <1>1, <3>1, ConcatAdjacentSubSeq
    <2>2. QED
        BY <1>1, <2>1, SubSeqFull
<1>6. QED
    BY <1>3, <1>4, <1>5

LEMMA CharIsCut ==
    ASSUME NEW s, IsText(s), NEW n \in 0..(Len(s) - 1)
    PROVE  /\ s[n + 1] # None /\ IsText(SubSeq(s, n + 2, Len(s)))
           /\ <<s[n + 1]>> \o SubSeq(s, n + 2, Len(s)) = SubSeq(s, n + 1, Len(s))
<1>1. PICK S : s \in Seq(S)
    BY DEF IsText, IsSeq
<1>2. Len(s) \in Nat /\ n \in Nat /\ n + 1 \in 0..Len(s) /\ n + 1 \in 1..Len(s) /\ n + 1 + 1 = n + 2
    BY SeqFacts DEF IsText
<1>3. IsText(SubSeq(s, n + 1 + 1, Len(s)))
    BY <1>2, TextIsCut
<1>4. SubSeq(s, n + 1, Len(s)) = <<s[n + 1]>> \o SubSeq(s, n + 1 + 1, Len(s))
    <2>1. Len(s) \in (n + 1)..Len(s)
        BY <1>2
    <2>2. QED
        BY <1>1, <1>2, <2>1, SubSeqRecursiveFirst
<1>5. QED
    BY <1>2, <1>3, <1>4 DEF IsText

LEMMA NothingIsCut ==
    ASSUME NEW s, IsText(s)
    PROVE  /\ SubSeq(s, Len(s) + 1, Len(s)) = <<>>
           /\ SubSeq(s, Len(s) + 2, Len(s)) = <<>>
           /\ SubSeq(s, 1, Len(s)) = s
<1>1. PICK S : s \in Seq(S)
    BY DEF IsText, IsSeq
<1>2. Len(s) \in Nat
    BY SeqFacts DEF IsText
<1>3. QED
    BY <1>1, <1>2, SubSeqEmpty, SubSeqFull
-----------------------------------------------------------------------------
(* Reading *)

\* What a lexer has still to read.
Rest(l) == (IF l.peek = None THEN <<>> ELSE <<l.peek>>) \o l.source

\* The lexer r has read a token off the text "before", from a place on.
Reads(r, before, offset) ==
    /\ IsText(r.source)
    /\ "text" \in DOMAIN r.token /\ IsText(r.token.text)
    /\ r.token.text \o Rest(r) = before
    /\ r.offset = offset + Width(r.token.text, Utf8)
    /\ r.token.start = offset
    /\ r.token.end = r.offset

\* A token is what was taken, when what was taken and is left is the text.
LEMMA FinishReads ==
    ASSUME NEW kind, NEW current, NEW source, NEW peek, NEW offset, NEW before,
           IsText(current), IsText(source),
           current \o ((IF peek = None THEN <<>> ELSE <<peek>>) \o source) = before
    PROVE  Reads(finish_token(kind, current, source, peek, offset), before, offset)
<1>1. PICK r : r = finish_token(kind, current, source, peek, offset)
    OBVIOUS
<1>2. /\ r.source = source /\ r.peek = peek /\ r.offset = offset + Width(current, Utf8)
      /\ "text" \in DOMAIN r.token /\ r.token.text = current /\ r.token.start = offset
      /\ r.token.end = offset + Width(current, Utf8)
    BY <1>1 DEF finish_token
<1>3. Reads(r, before, offset)
    BY <1>2 DEF Reads, Rest
<1>4. QED
    BY <1>1, <1>3

\* Taking up to a place reads.
LEMMA TakeReads ==
    ASSUME NEW current, NEW chars, NEW n \in 0..Len(chars), NEW kind, NEW offset,
           IsText(current), IsText(chars)
    PROVE  Reads(Take(current, chars, n, kind, offset), current \o chars, offset)
<1>1. PICK front, back : front = SubSeq(chars, 1, n) /\ back = SubSeq(chars, n + 1, Len(chars))
    OBVIOUS
<1>2. IsText(front) /\ IsText(back) /\ front \o back = chars
    BY <1>1, TextIsCut
<1>3. IsText(current \o front)
    BY <1>2, TextsJoin
<1>4. (current \o front) \o back = current \o chars
    <2>1. IsSeq(current) /\ IsSeq(front) /\ IsSeq(back)
        BY <1>2 DEF IsText
    <2>2. (current \o front) \o back = current \o (front \o back)
        BY <2>1, JoinsAssociate
    <2>3. QED
        BY <1>2, <2>2
<1>5. <<>> \o back = back
    BY <1>2, NothingJoins DEF IsText
<1>6. Reads(finish_token(kind, current \o front, back, None, offset), current \o chars, offset)
    BY <1>2, <1>3, <1>4, <1>5, FinishReads
<1>7. QED
    BY <1>1, <1>6 DEF Take

\* Taking up to a place and peeking at the next character reads.
LEMMA PeekReads ==
    ASSUME NEW current, NEW chars, NEW n \in 0..Len(chars), NEW kind, NEW offset,
           IsText(current), IsText(chars)
    PROVE  Reads(finish_token(kind, current \o SubSeq(chars, 1, n), SubSeq(chars, n + 2, Len(chars)),
                              IF n < Len(chars) THEN chars[n + 1] ELSE None, offset),
                 current \o chars, offset)
<1>1. PICK front, back : front = SubSeq(chars, 1, n) /\ back = SubSeq(chars, n + 1, Len(chars))
    OBVIOUS
<1>2. PICK peek, source : /\ peek = IF n < Len(chars) THEN chars[n + 1] ELSE None
                          /\ source = SubSeq(chars, n + 2, Len(chars))
    OBVIOUS
<1>3. IsText(front) /\ IsText(back) /\ front \o back = chars
    BY <1>1, TextIsCut
<1>4. Len(chars) \in Nat /\ n \in Nat
    BY SeqFacts DEF IsText
<1>5. IsText(source) /\ (IF peek = None THEN <<>> ELSE <<peek>>) \o source = back
    <2>1. CASE n < Len(chars)
        <3>1. n \in 0..(Len(chars) - 1)
            BY <1>4, <2>1
        <3>2. chars[n + 1] # None /\ IsText(source) /\ <<chars[n + 1]>> \o source = back
            BY <3>1, <1>1, <1>2, CharIsCut
        <3>3. QED
            BY <3>2, <2>1, <1>2
    <2>2. CASE ~(n < Len(chars))
        <3>1. n = Len(chars)
            BY <1>4, <2>2
        <3>2. source = <<>> /\ back = <<>> /\ peek = None
            BY <3>1, <2>2, <1>1, <1>2, NothingIsCut
        <3>3. <<>> \o <<>> = <<>>
            BY SmallTexts, NothingJoins DEF IsText
        <3>4. QED
            BY <3>2, <3>3, SmallTexts
    <2>3. QED
        BY <2>1, <2>2
<1>6. IsText(current \o front)
    BY <1>3, TextsJoin
<1>7. (current \o front) \o back = current \o chars
    <2>1. IsSeq(current) /\ IsSeq(front) /\ IsSeq(back)
        BY <1>3 DEF IsText
    <2>2. (current \o front) \o back = current \o (front \o back)
        BY <2>1, JoinsAssociate
    <2>3. QED
        BY <1>3, <2>2
<1>8. Reads(finish_token(kind, current \o front, source, peek, offset), current \o chars, offset)
    BY <1>5, <1>6, <1>7, FinishReads
<1>9. QED
    BY <1>1, <1>2, <1>8

\* A character that ends a line, and one that a word goes on with.
Breaks == {"newline", "return"}
InWord(c) == kind_by_char(c) \in {"Word", "Hash"}

\* How far a run of characters goes.
LEMMA RunFacts ==
    ASSUME NEW m \in Nat, NEW P, NEW n, n = Max({k \in 0..m : \A i \in 1..k : i \in P})
    PROVE  n \in 0..m /\ (\A i \in 1..n : i \in P) /\ (n < m => n + 1 \notin P)
<1>1. PICK S : S = {k \in 0..m : \A i \in 1..k : i \in P}
    OBVIOUS
<1>2. 1..0 = {}
    OBVIOUS
<1>3. S \in SUBSET (0..m) /\ 0 \in S
    BY <1>1, <1>2
<1>4. n \in S /\ \A y \in S : Max(S) >= y
    BY <1>1, <1>3, MaxIn
<1>5. ASSUME n < m, n + 1 \in P PROVE FALSE
    <2>1. n \in 0..m /\ n + 1 \in 0..m /\ \A i \in 1..(n + 1) : i \in 1..n \/ i = n + 1
        BY <1>1, <1>4, <1>5
    <2>2. n + 1 \in S
        BY <1>1, <1>4, <1>5, <2>1
    <2>3. n >= n + 1
        BY <1>1, <1>4, <2>2
    <2>4. QED
        BY <2>1, <2>3
<1>6. QED
    BY <1>1, <1>4, <1>5

LEMMA LeadingFacts ==
    ASSUME NEW chars, IsText(chars)
    PROVE  /\ LET n == Leading(chars, LAMBDA c : c \notin {"newline", "return"})
              IN  /\ n \in 0..Len(chars) /\ \A i \in 1..n : chars[i] \notin Breaks
                  /\ n < Len(chars) => chars[n + 1] \in Breaks
           /\ LET n == Leading(chars, LAMBDA c : kind_by_char(c) \in {"Word", "Hash"})
              IN  /\ n \in 0..Len(chars) /\ \A i \in 1..n : InWord(chars[i])
                  /\ n < Len(chars) => ~InWord(chars[n + 1])
           /\ LET n == Leading(chars, is_whitespace)
              IN  /\ n \in 0..Len(chars) /\ \A i \in 1..n : is_whitespace(chars[i])
                  /\ n < Len(chars) => ~is_whitespace(chars[n + 1])
           /\ LET n == Leading(chars, LAMBDA c : c \notin {".", ":"})
              IN  /\ n \in 0..Len(chars) /\ \A i \in 1..n : chars[i] \notin {".", ":"}
                  /\ n < Len(chars) => chars[n + 1] \in {".", ":"}
<1>1. PICK m : m = Len(chars)
    OBVIOUS
<1>2. m \in Nat
    BY <1>1, SeqFacts DEF IsText
<1>3. LET n == Leading(chars, LAMBDA c : c \notin {"newline", "return"})
      IN  /\ n \in 0..Len(chars) /\ \A i \in 1..n : chars[i] \notin Breaks
          /\ n < Len(chars) => chars[n + 1] \in Breaks
    <2>1. PICK P, n : /\ P = {i \in Nat : chars[i] \notin {"newline", "return"}}
                      /\ n = Leading(chars, LAMBDA c : c \notin {"newline", "return"})
        OBVIOUS
    <2>2. {k \in 0..m : \A i \in 1..k : chars[i] \notin {"newline", "return"}}
              = {k \in 0..m : \A i \in 1..k : i \in P}
        BY <1>2, <2>1
    <2>3. n = Max({k \in 0..m : \A i \in 1..k : i \in P})
        BY <1>1, <2>1, <2>2 DEF Leading
    <2>4. n \in 0..m /\ (\A i \in 1..n : i \in P) /\ (n < m => n + 1 \notin P)
        BY <1>2, <2>3, RunFacts
    <2>5. QED
        BY <1>1, <1>2, <2>1, <2>4 DEF Breaks
<1>4. LET n == Leading(chars, LAMBDA c : kind_by_char(c) \in {"Word", "Hash"})
      IN  /\ n \in 0..Len(chars) /\ \A i \in 1..n : InWord(chars[i])
          /\ n < Len(chars) => ~InWord(chars[n + 1])
    <2>1. PICK P, n : /\ P = {i \in Nat : kind_by_char(chars[i]) \in {"Word", "Hash"}}
                      /\ n = Leading(chars, LAMBDA c : kind_by_char(c) \in {"Word", "Hash"})
        OBVIOUS
    <2>2. {k \in 0..m : \A i \in 1..k : kind_by_char(chars[i]) \in {"Word", "Hash"}}
              = {k \in 0..m : \A i \in 1..k : i \in P}
        BY <1>2, <2>1
    <2>3. n = Max({k \in 0..m : \A i \in 1..k : i \in P})
        BY <1>1, <2>1, <2>2 DEF Leading
    <2>4. n \in 0..m /\ (\A i \in 1..n : i \in P) /\ (n < m => n + 1 \notin P)
        BY <1>2, <2>3, RunFacts
    <2>5. (\A i \in 1..n : i \in Nat) /\ n + 1 \in Nat
        BY <1>2, <2>4
    <2>6. (\A i \in 1..n : InWord(chars[i])) /\ (n < m => ~InWord(chars[n + 1]))
        BY <2>1, <2>4, <2>5 DEF InWord
    <2>7. QED
        BY <1>1, <2>1, <2>4, <2>6
<1>5. LET n == Leading(chars, is_whitespace)
      IN  /\ n \in 0..Len(chars) /\ \A i \in 1..n : is_whitespace(chars[i])
          /\ n < Len(chars) => ~is_whitespace(chars[n + 1])
    <2>1. PICK P, n : /\ P = {i \in Nat : is_whitespace(chars[i])}
                      /\ n = Leading(chars, is_whitespace)
        OBVIOUS
    <2>2. {k \in 0..m : \A i \in 1..k : is_whitespace(chars[i])}
              = {k \in 0..m : \A i \in 1..k : i \in P}
        BY <1>2, <2>1
    <2>3. n = Max({k \in 0..m : \A i \in 1..k : i \in P})
        BY <1>1, <2>1, <2>2 DEF Leading
    <2>4. n \in 0..m /\ (\A i \in 1..n : i \in P) /\ (n < m => n + 1 \notin P)
        BY <1>2, <2>3, RunFacts
    <2>5. (\A i \in 1..n : i \in Nat) /\ n + 1 \in Nat
        BY <1>2, <2>4
    <2>6. (\A i \in 1..n : is_whitespace(chars[i])) /\ (n < m => ~is_whitespace(chars[n + 1]))
        BY <2>1, <2>4, <2>5
    <2>7. QED
        BY <1>1, <2>1, <2>4, <2>6
<1>6. LET n == Leading(chars, LAMBDA c : c \notin {".", ":"})
      IN  /\ n \in 0..Len(chars) /\ \A i \in 1..n : chars[i] \notin {".", ":"}
          /\ n < Len(chars) => chars[n + 1] \in {".", ":"}
    <2>1. PICK P, n : /\ P = {i \in Nat : chars[i] \notin {".", ":"}}
                      /\ n = Leading(chars, LAMBDA c : c \notin {".", ":"})
        OBVIOUS
    <2>2. {k \in 0..m : \A i \in 1..k : chars[i] \notin {".", ":"}}
              = {k \in 0..m : \A i \in 1..k : i \in P}
        BY <1>2, <2>1
    <2>3. n = Max({k \in 0..m : \A i \in 1..k : i \in P})
        BY <1>1, <2>1, <2>2 DEF Leading
    <2>4. n \in 0..m /\ (\A i \in 1..n : i \in P) /\ (n < m => n + 1 \notin P)
        BY <1>2, <2>3, RunFacts
    <2>5. (\A i \in 1..n : i \in Nat) /\ n + 1 \in Nat
        BY <1>2, <2>4
    <2>6. (\A i \in 1..n : chars[i] \notin {".", ":"}) /\ (n < m => chars[n + 1] \in {".", ":"})
        BY <2>1, <2>4, <2>5
    <2>7. QED
        BY <1>1, <2>1, <2>4, <2>6
<1>7. QED
    BY <1>3, <1>4, <1>5, <1>6

\* The characters that pass end within the text.
LEMMA LeadingIn ==
    ASSUME NEW chars, IsText(chars)
    PROVE  /\ Leading(chars, LAMBDA c : c \notin {"newline", "return"}) \in 0..Len(chars)
           /\ Leading(chars, LAMBDA c : kind_by_char(c) \in {"Word", "Hash"}) \in 0..Len(chars)
           /\ Leading(chars, is_whitespace) \in 0..Len(chars)
           /\ Leading(chars, LAMBDA c : c \notin {".", ":"}) \in 0..Len(chars)
BY LeadingFacts

\* A word, a comment of two dashes, or what follows a dash and was put back.
LEMMA WordReads ==
    ASSUME NEW head, NEW source, NEW offset, head # None, IsText(source)
    PROVE  Reads(Word(head, source, offset), <<head>> \o source, offset)
<1>1. IsText(<<head>>)
    BY SmallTexts
<1>2. CASE head = "-" /\ source # <<>> /\ source[1] = "-"
    <2>1. PICK chars : chars = Tail(source)
        OBVIOUS
    <2>2. source[1] # None /\ IsText(chars) /\ <<source[1]>> \o chars = source
        BY <1>2, <2>1, HeadJoins
    <2>3. PICK n : n = Leading(chars, LAMBDA c : c \notin {"newline", "return"})
        OBVIOUS
    <2>4. n \in 0..Len(chars)
        BY <2>2, <2>3, LeadingIn
    <2>5. IsText(<<"-">>) /\ <<"-">> \o <<"-">> = <<"-", "-">>
        <3>1. IsText(<<"-">>)
            BY <1>1, <1>2
        <3>2. <<"-">> \o <<"-">> = <<"-", "-">>
            <4>1. /\ IsSeq(<<"-">>) /\ Len(<<"-">>) = 1 /\ <<"-">>[1] = "-"
                  /\ IsSeq(<<"-", "-">>) /\ Len(<<"-", "-">>) = 2
                  /\ <<"-", "-">>[1] = "-" /\ <<"-", "-">>[2] = "-"
                BY Tuples
            <4>2. PICK dash, both : dash = <<"-">> /\ both = <<"-">> \o <<"-">>
                OBVIOUS
            <4>3. /\ IsSeq(both) /\ Len(both) = Len(dash) + Len(dash)
                  /\ \A i \in 1..Len(dash) : both[i] = dash[i]
                  /\ \A i \in 1..Len(dash) : both[Len(dash) + i] = dash[i]
                BY <4>1, <4>2, ConcatFacts
            <4>4. Len(both) = 2 /\ both[1] = "-" /\ both[2] = "-"
                BY <4>1, <4>2, <4>3
            <4>5. \A i \in 1..Len(both) : both[i] = <<"-", "-">>[i]
                BY <4>1, <4>4
            <4>6. QED
                BY <4>1, <4>2, <4>3, <4>4, <4>5, SameSequences
        <3>3. QED
            BY <3>1, <3>2
    <2>6. IsText(<<"-", "-">>)
        BY <2>5, TextsJoin
    <2>7. <<"-", "-">> \o chars = <<head>> \o source
        <3>1. IsSeq(<<"-">>) /\ IsSeq(chars)
            BY <2>2, <2>5 DEF IsText
        <3>2. (<<"-">> \o <<"-">>) \o chars = <<"-">> \o (<<"-">> \o chars)
            BY <3>1, JoinsAssociate
        <3>3. QED
            BY <3>2, <2>2, <2>5, <1>2
    <2>8. Reads(finish_token("COMMENT", <<"-", "-">> \o SubSeq(chars, 1, n),
                             SubSeq(chars, n + 2, Len(chars)),
                             IF n < Len(chars) THEN chars[n + 1] ELSE None, offset),
                <<head>> \o source, offset)
        <3>1. PICK two : two = <<"-", "-">>
            OBVIOUS
        <3>2. QED
            BY <3>1, <2>2, <2>4, <2>6, <2>7, PeekReads
    <2>9. QED
        BY <1>2, <2>1, <2>3, <2>8 DEF Word, Scan
<1>3. CASE ~(head = "-" /\ source # <<>> /\ source[1] = "-")
    <2>1. PICK pending, rest : /\ pending = IF head = "-" /\ source # <<>> THEN <<source[1]>> ELSE <<>>
                               /\ rest = IF head = "-" /\ source # <<>> THEN Tail(source) ELSE source
        OBVIOUS
    <2>2. pending \o rest = source
        <3>1. CASE head = "-" /\ source # <<>>
            BY <2>1, <3>1, HeadJoins
        <3>2. CASE ~(head = "-" /\ source # <<>>)
            <4>1. pending = <<>> /\ rest = source
                BY <2>1, <3>2
            <4>2. QED
                BY <4>1, NothingJoins DEF IsText
        <3>3. QED
            BY <3>1, <3>2
    <2>3. PICK n : n = Leading(source, LAMBDA c : kind_by_char(c) \in {"Word", "Hash"})
        OBVIOUS
    <2>4. n \in 0..Len(source)
        BY <2>3, LeadingIn
    <2>5. PICK word : word = <<head>> \o SubSeq(source, 1, n)
        OBVIOUS
    <2>6. Reads(finish_token(WordKind(word), word, SubSeq(source, n + 2, Len(source)),
                             IF n < Len(source) THEN source[n + 1] ELSE None, offset),
                <<head>> \o source, offset)
        BY <1>1, <2>4, <2>5, PeekReads
    <2>7. Word(head, source, offset)
              = Scan(<<head>>, pending \o rest, LAMBDA c : kind_by_char(c) \in {"Word", "Hash"},
                     WordKind, offset)
        BY <1>3, <2>1 DEF Word
    <2>8. QED
        BY <2>2, <2>3, <2>5, <2>6, <2>7 DEF Scan
<1>4. QED
    BY <1>2, <1>3

\* A hash, with the next character peeked at.
LEMMA HashReads ==
    ASSUME NEW head, NEW source, NEW offset, head # None, IsText(source)
    PROVE  Reads(Hash(head, source, offset), <<head>> \o source, offset)
<1>1. IsText(<<head>>)
    BY SmallTexts
<1>2. PICK peek, rest : /\ peek = IF source = <<>> THEN None ELSE source[1]
                        /\ rest = IF source = <<>> THEN <<>> ELSE Tail(source)
    OBVIOUS
<1>3. IsText(rest) /\ (IF peek = None THEN <<>> ELSE <<peek>>) \o rest = source
    <2>1. CASE source = <<>>
        <3>1. <<>> \o <<>> = <<>>
            BY SmallTexts, NothingJoins DEF IsText
        <3>2. QED
            BY <2>1, <3>1, <1>2, SmallTexts
    <2>2. CASE source # <<>>
        BY <2>2, <1>2, HeadJoins
    <2>3. QED
        BY <2>1, <2>2
<1>4. \A kind : Reads(finish_token(kind, <<head>>, rest, peek, offset), <<head>> \o source, offset)
    BY <1>1, <1>3, FinishReads
<1>5. QED
    BY <1>2, <1>4 DEF Hash

\* A string, up to its closing quote or the end.
LEMMA QuoteStringReads ==
    ASSUME NEW head, NEW source, NEW offset, head # None, IsText(source)
    PROVE  Reads(QuoteString(head, source, offset), <<head>> \o source, offset)
<1>1. IsText(<<head>>)
    BY SmallTexts
<1>2. DOMAIN source = 1..Len(source) /\ Len(source) \in Nat
    BY SeqFacts DEF IsText
<1>3. \A kind : \A n \in 0..Len(source) :
          Reads(Take(<<head>>, source, n, kind, offset), <<head>> \o source, offset)
    BY <1>1, TakeReads
<1>4. \A ends \in SUBSET DOMAIN source : ends # {} => Min(ends) \in 0..Len(source)
    <2>1. TAKE ends \in SUBSET DOMAIN source
    <2>2. HAVE ends # {}
    <2>3. ends \in SUBSET Nat
        BY <1>2
    <2>4. Min(ends) \in ends
        BY <2>2, <2>3, MinIn
    <2>5. QED
        BY <1>2, <2>4
<1>5. Len(source) \in 0..Len(source)
    BY <1>2
<1>6. \E ends \in SUBSET DOMAIN source :
          QuoteString(head, source, offset)
              = IF ends = {} THEN Take(<<head>>, source, Len(source), "ERROR", offset)
                ELSE Take(<<head>>, source, Min(ends), "QUOTE_STRING", offset)
    BY DEF QuoteString
<1>7. QED
    BY <1>3, <1>4, <1>5, <1>6

\* A comment, with its line break.
LEMMA CommentReads ==
    ASSUME NEW head, NEW source, NEW offset, head # None, IsText(source)
    PROVE  Reads(Comment(head, source, offset), <<head>> \o source, offset)
<1>1. IsText(<<head>>)
    BY SmallTexts
<1>2. Len(source) \in Nat
    BY SeqFacts DEF IsText
<1>3. PICK n : n = Leading(source, LAMBDA c : c \notin {"newline", "return"})
    OBVIOUS
<1>4. n \in 0..Len(source)
    BY <1>3, LeadingIn
<1>5. \A kind : \A k \in 0..Len(source) :
          Reads(Take(<<head>>, source, k, kind, offset), <<head>> \o source, offset)
    BY <1>1, TakeReads
<1>6. CASE n = Len(source)
    BY <1>3, <1>4, <1>5, <1>6 DEF Comment
<1>7. CASE n < Len(source)
    <2>1. n + 1 \in 0..Len(source)
        BY <1>2, <1>4, <1>7
    <2>2. PICK next : next = IF n + 2 <= Len(source) THEN source[n + 2] ELSE None
        OBVIOUS
    <2>3. CASE source[n + 1] = "return" /\ next = "newline"
        <3>1. next # None => n + 2 <= Len(source)
            BY <2>2
        <3>2. CASE n + 2 <= Len(source)
            <4>1. n + 2 \in 0..Len(source)
                BY <1>2, <1>4, <3>2
            <4>2. Comment(head, source, offset) = Take(<<head>>, source, n + 2, "COMMENT", offset)
                BY <1>2, <1>3, <1>4, <1>7, <2>2, <2>3 DEF Comment
            <4>3. QED
                BY <1>5, <4>1, <4>2
        <3>3. "newline" # None
            BY LexerAssumption
        <3>4. QED
            BY <3>1, <3>2, <3>3, <2>3
    <2>4. CASE source[n + 1] = "return" /\ next # "newline"
        <3>1. PICK m : m = n + 1
            OBVIOUS
        <3>2. m \in 0..Len(source) /\ m + 2 = n + 3 /\ m + 1 = n + 2
              /\ (m < Len(source) <=> n + 2 <= Len(source))
            BY <3>1, <2>1, <1>2, <1>4
        <3>3. Reads(finish_token("COMMENT", <<head>> \o SubSeq(source, 1, m),
                                 SubSeq(source, m + 2, Len(source)),
                                 IF m < Len(source) THEN source[m + 1] ELSE None, offset),
                    <<head>> \o source, offset)
            BY <3>2, <1>1, PeekReads
        <3>4. next = IF m < Len(source) THEN source[m + 1] ELSE None
            BY <2>2, <3>2
        <3>5. Comment(head, source, offset)
                  = finish_token("COMMENT", <<head>> \o SubSeq(source, 1, n + 1),
                                 SubSeq(source, n + 3, Len(source)), next, offset)
            BY <1>2, <1>3, <1>4, <1>7, <2>2, <2>4 DEF Comment
        <3>6. QED
            BY <3>1, <3>2, <3>3, <3>4, <3>5
    <2>5. CASE source[n + 1] # "return"
        <3>1. Comment(head, source, offset) = Take(<<head>>, source, n + 1, "COMMENT", offset)
            BY <1>2, <1>3, <1>4, <1>7, <2>5 DEF Comment
        <3>2. QED
            BY <3>1, <2>1, <1>5
    <2>6. QED
        BY <2>3, <2>4, <2>5
<1>8. QED
    BY <1>2, <1>4, <1>6, <1>7

LEMMA WhitespaceReads ==
    ASSUME NEW head, NEW source, NEW offset, head # None, IsText(source)
    PROVE  Reads(Whitespace(head, source, offset), <<head>> \o source, offset)
<1>1. IsText(<<head>>)
    BY SmallTexts
<1>2. PICK n : n = Leading(source, is_whitespace)
    OBVIOUS
<1>3. n \in 0..Len(source)
    BY <1>2, LeadingIn
<1>4. Reads(finish_token("WHITESPACE", <<head>> \o SubSeq(source, 1, n),
                         SubSeq(source, n + 2, Len(source)),
                         IF n < Len(source) THEN source[n + 1] ELSE None, offset),
            <<head>> \o source, offset)
    BY <1>1, <1>3, PeekReads
<1>5. QED
    BY <1>2, <1>4 DEF Whitespace, Scan

LEMMA BoundReads ==
    ASSUME NEW head, NEW source, NEW offset, head # None, IsText(source)
    PROVE  Reads(Bound(head, source, offset), <<head>> \o source, offset)
<1>1. IsText(<<head>>)
    BY SmallTexts
<1>2. 0 \in 0..Len(source)
    BY SeqFacts DEF IsText
<1>3. \A kind : Reads(Take(<<head>>, source, 0, kind, offset), <<head>> \o source, offset)
    BY <1>1, <1>2, TakeReads
<1>4. QED
    BY <1>3 DEF Bound
\* A lexer between two tokens.
Ready(l) == IsText(l.source)

\* Each token is read off what the lexer has still to read.
LEMMA NextReads ==
    ASSUME NEW l, Ready(l), l.offset \in Nat
    PROVE  Reads(next_token(l), Rest(l), l.offset)
<1>1. CASE AtEnd(l)
    <2>1. Rest(l) = <<>>
        <3>1. <<>> \o <<>> = <<>>
            BY SmallTexts, NothingJoins DEF IsText
        <3>2. QED
            BY <1>1, <3>1 DEF AtEnd, Rest
    <2>2. <<>> \o ((IF None = None THEN <<>> ELSE <<None>>) \o <<>>) = <<>>
        BY SmallTexts, NothingJoins DEF IsText
    <2>3. Reads(finish_token("END", <<>>, <<>>, None, l.offset), <<>>, l.offset)
        BY <2>2, SmallTexts, FinishReads
    <2>4. QED
        BY <1>1, <2>1, <2>3 DEF next_token
<1>2. CASE ~AtEnd(l)
    <2>1. PICK head, source : /\ head = IF l.peek # None THEN l.peek ELSE l.source[1]
                              /\ source = IF l.peek # None THEN l.source ELSE Tail(l.source)
        OBVIOUS
    <2>2. head # None /\ IsText(source) /\ <<head>> \o source = Rest(l)
        <3>1. CASE l.peek # None
            BY <2>1, <3>1 DEF Ready, Rest
        <3>2. CASE l.peek = None
            <4>1. l.source # <<>>
                BY <1>2, <3>2 DEF AtEnd
            <4>2. l.source[1] # None /\ IsText(Tail(l.source))
                  /\ <<l.source[1]>> \o Tail(l.source) = l.source
                BY <4>1, HeadJoins DEF Ready
            <4>3. Rest(l) = l.source
                <5>1. Rest(l) = <<>> \o l.source
                    BY <3>2 DEF Rest
                <5>2. QED
                    BY <5>1, NothingJoins DEF Ready, IsText
            <4>4. QED
                BY <2>1, <3>2, <4>2, <4>3
        <3>3. QED
            BY <3>1, <3>2
    <2>3. /\ Reads(Word(head, source, l.offset), Rest(l), l.offset)
          /\ Reads(Hash(head, source, l.offset), Rest(l), l.offset)
          /\ Reads(QuoteString(head, source, l.offset), Rest(l), l.offset)
          /\ Reads(Comment(head, source, l.offset), Rest(l), l.offset)
          /\ Reads(Whitespace(head, source, l.offset), Rest(l), l.offset)
          /\ Reads(Bound(head, source, l.offset), Rest(l), l.offset)
        BY <2>2, WordReads, HashReads, QuoteStringReads, CommentReads, WhitespaceReads, BoundReads
    <2>4. next_token(l) \in {Word(head, source, l.offset), Hash(head, source, l.offset),
                             QuoteString(head, source, l.offset), Comment(head, source, l.offset),
                             Whitespace(head, source, l.offset), Bound(head, source, l.offset)}
        BY <1>2, <2>1 DEF next_token
    <2>5. QED
        BY <2>3, <2>4
<1>3. QED
    BY <1>1, <1>2

\* A new lexer has all of its text to read.
LEMMA NewReads ==
    ASSUME NEW source, IsText(source)
    PROVE  Ready(new(source)) /\ Rest(new(source)) = source /\ new(source).offset = 0
<1>1. PICK l : l = new(source)
    OBVIOUS
<1>2. /\ l.source = (IF source = <<>> THEN <<>> ELSE Tail(source))
      /\ l.peek = (IF source = <<>> THEN None ELSE source[1])
      /\ l.offset = 0
    BY <1>1 DEF new
<1>3. CASE source = <<>>
    <2>1. <<>> \o <<>> = <<>>
        BY SmallTexts, NothingJoins DEF IsText
    <2>2. QED
        BY <1>1, <1>2, <1>3, <2>1, SmallTexts DEF Ready, Rest
<1>4. CASE source # <<>>
    BY <1>1, <1>2, <1>4, HeadJoins DEF Ready, Rest
<1>5. QED
    BY <1>3, <1>4

-----------------------------------------------------------------------------
(* One text after another *)

AllTexts(seqs) == IsSeq(seqs) /\ \A i \in 1..Len(seqs) : IsText(seqs[i])

\* What FlattenSeq joins are texts.
LEMMA TextsFlatten ==
    ASSUME NEW seqs, AllTexts(seqs)
    PROVE  \E p : /\ Joins(seqs, p) /\ FlattenSeq(seqs) = p[Len(seqs)]
                  /\ \A i \in 0..Len(seqs) : IsText(p[i])
<1> DEFINE n == Len(seqs)
<1>1. n \in Nat /\ AllSeqs(seqs)
    BY SeqFacts DEF AllTexts, AllSeqs, IsText
<1>2. PICK p : Joins(seqs, p) /\ FlattenSeq(seqs) = p[n]
    BY <1>1, FlattenJoins
<1>3. \A i \in 0..n : IsText(p[i])
    <2> DEFINE Fine == {i \in 0..n : IsText(p[i])}
    <2>1. 0 \in Fine
        BY <1>1, <1>2, SmallTexts DEF Joins
    <2>2. ASSUME NEW i \in 1..n, i - 1 \in Fine PROVE i \in Fine
        <3>1. p[i] = p[i - 1] \o seqs[i] /\ i \in 0..n
            <4>1. i \in 0..n
                BY <1>1
            <4>2. QED
                BY <4>1, <1>2 DEF Joins
        <3>2. IsText(p[i - 1]) /\ IsText(seqs[i])
            BY <2>2 DEF AllTexts
        <3>3. IsText(p[i])
            BY <3>1, <3>2, TextsJoin
        <3>4. QED
            BY <3>1, <3>3
    <2>3. \A i \in 1..n : i - 1 \in Fine => i \in Fine
        BY <2>2
    <2>4. \A i \in 0..n : i \in Fine
        <3> HIDE DEF Fine, n
        <3>1. QED
            BY <1>1, <2>1, <2>3, Induction
    <2>5. QED
        BY <2>4
<1>4. QED
    BY <1>2, <1>3

\* One text more.
LEMMA FlattenOneMore ==
    ASSUME NEW seqs, NEW more, AllTexts(seqs), AllTexts(more), Len(more) = Len(seqs) + 1,
           \A i \in 1..Len(seqs) : more[i] = seqs[i]
    PROVE  FlattenSeq(more) = FlattenSeq(seqs) \o more[Len(more)]
<1>1. Len(seqs) \in Nat /\ IsSeq(seqs) /\ IsSeq(more)
    BY SeqFacts DEF AllTexts
<1>2. PICK p : Joins(seqs, p) /\ FlattenSeq(seqs) = p[Len(seqs)]
    BY TextsFlatten
<1>3. PICK q : Joins(more, q) /\ FlattenSeq(more) = q[Len(more)]
    BY TextsFlatten
<1>4. Joins(seqs, q)
    <2>1. ASSUME NEW i \in 1..Len(seqs) PROVE q[i] = q[i - 1] \o seqs[i]
        <3>1. i \in 1..Len(more) /\ more[i] = seqs[i]
            BY <1>1
        <3>2. q[i] = q[i - 1] \o more[i]
            BY <1>3, <3>1 DEF Joins
        <3>3. QED
            BY <3>1, <3>2
    <2>2. QED
        BY <1>3, <2>1 DEF Joins
<1>5. q[Len(seqs)] = p[Len(seqs)]
    BY <1>1, <1>2, <1>4, JoinsAreUnique
<1>6. q[Len(more)] = q[Len(more) - 1] \o more[Len(more)]
    <2>1. Len(more) \in 1..Len(more)
        BY <1>1
    <2>2. QED
        BY <1>3, <2>1 DEF Joins
<1>7. Len(more) - 1 = Len(seqs)
    BY <1>1
<1>8. QED
    BY <1>2, <1>3, <1>5, <1>6, <1>7
-----------------------------------------------------------------------------
(* Tokens *)

\* The texts of tokens.
TextsOf(toks) == [k \in DOMAIN toks |-> toks[k].text]

LEMMA TextsOfFacts ==
    ASSUME NEW toks, IsSeq(toks)
    PROVE  /\ IsSeq(TextsOf(toks)) /\ Len(TextsOf(toks)) = Len(toks)
           /\ \A i \in 1..Len(toks) : TextsOf(toks)[i] = toks[i].text
<1>1. Len(toks) \in Nat /\ DOMAIN toks = 1..Len(toks)
    BY SeqFacts
<1>2. PICK S : S = {toks[i].text : i \in 1..Len(toks)}
    OBVIOUS
<1>3. TextsOf(toks) \in [1..Len(toks) -> S]
    BY <1>1, <1>2 DEF TextsOf
<1>4. TextsOf(toks) \in Seq(S) /\ Len(TextsOf(toks)) = Len(toks)
    BY <1>1, <1>3
<1>5. \A i \in 1..Len(toks) : TextsOf(toks)[i] = toks[i].text
    BY <1>1 DEF TextsOf
<1>6. QED
    BY <1>4, <1>5 DEF IsSeq

\* A lexer that starts on a text has cut nothing off it.
LEMMA StartsCut ==
    ASSUME NEW source, IsText(source)
    PROVE  /\ Ready(new(source)) /\ new(source).offset = 0
           /\ AllTexts(TextsOf(<<>>)) /\ FlattenSeq(TextsOf(<<>>)) = <<>>
           /\ <<>> \o Rest(new(source)) = source
<1>1. TextsOf(<<>>) = <<>>
    BY Tuples, TextsOfFacts, SeqFacts
<1>2. Len(<<>>) = 0 /\ AllTexts(<<>>)
    BY Tuples DEF AllTexts
<1>3. QED
    BY <1>1, <1>2, NewReads, FlattenNothing, NothingJoins DEF IsText
-----------------------------------------------------------------------------
(* The invariant *)

\* The text is cut into the texts of the tokens and what the lexer has still to
\* read.
CutInv ==
    /\ IsText(text) /\ Ready(lexer)
    /\ IsSeq(tokens) /\ AllTexts(TextsOf(tokens))
    /\ \A k \in 1..Len(tokens) : "text" \in DOMAIN tokens[k]
    /\ FlattenSeq(TextsOf(tokens)) \o Rest(lexer) = text

\* Each token starts where the one before it ends, the lexer is behind the last,
\* and its place is the width of what was read.
PlaceInv ==
    /\ lexer.offset \in Nat
    /\ lexer.offset = Width(FlattenSeq(TextsOf(tokens)), Utf8)
    /\ lexer.offset = IF tokens = <<>> THEN 0 ELSE tokens[Len(tokens)].end
    /\ \A k \in 1..Len(tokens) :
          /\ tokens[k].start = IF k = 1 THEN 0 ELSE tokens[k - 1].end
          /\ tokens[k].end = tokens[k].start + Width(tokens[k].text, Utf8)

LexerInv == CutInv /\ PlaceInv

\* The invariant says where the tokens are.
LEMMA InvImpliesPlaces == LexerInv => TokensAreThePlaces
<1> SUFFICES ASSUME LexerInv PROVE TokensAreThePlaces
    OBVIOUS
<1> USE DEF LexerInv
<1>1. PICK read, peeked : /\ read = FlattenSeq(TextsOf(tokens))
                          /\ peeked = IF lexer.peek = None THEN <<>> ELSE <<lexer.peek>>
    OBVIOUS
<1>2. IsSeq(read) /\ IsSeq(peeked) /\ IsSeq(lexer.source)
    <2>1. IsText(read)
        <3>1. PICK p : /\ FlattenSeq(TextsOf(tokens)) = p[Len(TextsOf(tokens))]
                       /\ \A i \in 0..Len(TextsOf(tokens)) : IsText(p[i])
            BY TextsFlatten DEF CutInv
        <3>2. Len(TextsOf(tokens)) \in 0..Len(TextsOf(tokens))
            BY SeqFacts DEF CutInv, AllTexts
        <3>3. QED
            BY <3>1, <3>2, <1>1
    <2>2. IsSeq(peeked)
        BY <1>1, Tuples
    <2>3. QED
        BY <2>1, <2>2 DEF IsText, CutInv, Ready
<1>3. (read \o peeked) \o lexer.source = read \o (peeked \o lexer.source)
    <2>1. PICK source : source = lexer.source
        OBVIOUS
    <2>2. IsSeq(source)
        BY <1>2, <2>1
    <2>3. (read \o peeked) \o source = read \o (peeked \o source)
        BY <1>2, <2>2, JoinsAssociate
    <2>4. QED
        BY <2>1, <2>3
<1>4. read \o (peeked \o lexer.source) = text
    BY <1>1 DEF CutInv, Rest
<1>5. DOMAIN tokens = 1..Len(tokens)
    BY SeqFacts DEF CutInv
<1>6. QED
    BY <1>1, <1>3, <1>4, <1>5 DEF TokensAreThePlaces, PlaceInv, TextsOf

LEMMA JoinedIsText ==
    ASSUME NEW seqs, AllTexts(seqs)
    PROVE  IsText(FlattenSeq(seqs))
<1>1. PICK p : /\ FlattenSeq(seqs) = p[Len(seqs)]
               /\ \A i \in 0..Len(seqs) : IsText(p[i])
    BY TextsFlatten
<1>2. Len(seqs) \in 0..Len(seqs)
    BY SeqFacts DEF AllTexts
<1>3. QED
    BY <1>1, <1>2

LEMMA InitEstablishes == Init => LexerInv
<1> SUFFICES ASSUME Init PROVE LexerInv
    OBVIOUS
<1>1. IsText(text) /\ lexer = new(text) /\ tokens = <<>>
    BY TextsAreTexts DEF Init
<1>2. Len(<<>>) = 0
    BY Tuples
<1>3. CutInv
    <2>1. \A k \in 1..Len(tokens) : "text" \in DOMAIN tokens[k]
        BY <1>1, <1>2
    <2>2. QED
        BY <1>1, <2>1, StartsCut, Tuples DEF CutInv
<1>4. PlaceInv
    <2>1. 1..0 = {}
        OBVIOUS
    <2>2. QED
        BY <1>1, <1>2, <2>1, StartsCut, Utf8Small DEF PlaceInv
<1>5. QED
    BY <1>3, <1>4 DEF LexerInv

\* A token more.
LEMMA LexTokenKeeps == LexerInv /\ LexToken => LexerInv'
<1> SUFFICES ASSUME LexerInv, LexToken PROVE LexerInv'
    OBVIOUS
<1>1. CutInv /\ PlaceInv
    BY DEF LexerInv
<1>2. PICK r, n : r = next_token(lexer) /\ n = Len(tokens)
    OBVIOUS
<1>3. lexer' = r /\ tokens' = Append(tokens, r.token) /\ text' = text
    BY <1>2 DEF LexToken
<1>4. Reads(r, Rest(lexer), lexer.offset)
    BY <1>1, <1>2, NextReads DEF CutInv, PlaceInv
<1>5. n \in Nat /\ IsSeq(tokens') /\ Len(tokens') = n + 1 /\ tokens'[n + 1] = r.token
      /\ \A k \in 1..n : tokens'[k] = tokens[k]
    <2>1. PICK S : tokens \in Seq(S)
        BY <1>1 DEF CutInv, IsSeq
    <2>2. tokens \in Seq(S \cup {r.token})
        BY <2>1, SeqMonotonic
    <2>3. QED
        BY <2>2, <1>2, <1>3 DEF IsSeq
<1>6. PICK old, more : old = TextsOf(tokens) /\ more = TextsOf(tokens')
    OBVIOUS
<1>7. /\ AllTexts(old) /\ AllTexts(more) /\ Len(old) = n /\ Len(more) = n + 1
      /\ more[n + 1] = r.token.text /\ \A k \in 1..n : more[k] = old[k]
    <2>1. /\ IsSeq(old) /\ Len(old) = n /\ \A k \in 1..n : old[k] = tokens[k].text
          /\ AllTexts(old)
        BY <1>1, <1>2, <1>6, TextsOfFacts DEF CutInv
    <2>2. /\ IsSeq(more) /\ Len(more) = n + 1
          /\ \A k \in 1..(n + 1) : more[k] = tokens'[k].text
        BY <1>5, <1>6, TextsOfFacts
    <2>3. \A k \in 1..n : k \in 1..(n + 1) /\ more[k] = old[k]
        BY <1>5, <2>1, <2>2
    <2>4. n + 1 \in 1..(n + 1) /\ more[n + 1] = r.token.text
        BY <1>5, <2>2
    <2>5. \A k \in 1..(n + 1) : k = n + 1 \/ k \in 1..n
        BY <1>5
    <2>6. AllTexts(more)
        BY <1>4, <2>1, <2>2, <2>3, <2>4, <2>5 DEF AllTexts, Reads
    <2>7. QED
        BY <2>1, <2>2, <2>3, <2>4, <2>6
<1>8. FlattenSeq(more) = FlattenSeq(old) \o r.token.text
    BY <1>7, FlattenOneMore
<1>9. IsText(FlattenSeq(old)) /\ IsText(r.token.text) /\ IsText(r.source)
    BY <1>4, <1>7, JoinedIsText DEF Reads
<1>10. CutInv'
    <2>1. IsSeq(Rest(r))
        <3>1. IsSeq(IF r.peek = None THEN <<>> ELSE <<r.peek>>)
            BY Tuples
        <3>2. QED
            BY <3>1, <1>9, ConcatFacts DEF Rest, IsText
    <2>2. (FlattenSeq(old) \o r.token.text) \o Rest(r) = FlattenSeq(old) \o (r.token.text \o Rest(r))
        <3>1. PICK read, word, rest : read = FlattenSeq(old) /\ word = r.token.text /\ rest = Rest(r)
            OBVIOUS
        <3>2. IsSeq(read) /\ IsSeq(word) /\ IsSeq(rest)
            BY <1>9, <2>1, <3>1 DEF IsText
        <3>3. (read \o word) \o rest = read \o (word \o rest)
            BY <3>2, JoinsAssociate
        <3>4. QED
            BY <3>1, <3>3
    <2>3. FlattenSeq(old) \o Rest(lexer) = text
        BY <1>1, <1>6 DEF CutInv
    <2>4. FlattenSeq(more) \o Rest(r) = text
        BY <1>4, <1>8, <2>2, <2>3 DEF Reads
    <2>5. Rest(lexer)' = Rest(r) /\ TextsOf(tokens)' = more /\ Ready(lexer)'
        BY <1>3, <1>6, <1>9 DEF Rest, TextsOf, Ready
    <2>6. QED
        <3>1. \A k \in 1..(n + 1) : "text" \in DOMAIN tokens'[k]
            <4>1. \A k \in 1..(n + 1) : k = n + 1 \/ k \in 1..n
                BY <1>5
            <4>2. QED
                BY <1>1, <1>2, <1>4, <1>5, <4>1 DEF CutInv, Reads
        <3>2. QED
            BY <1>1, <1>3, <1>5, <1>6, <1>7, <2>4, <2>5, <3>1 DEF CutInv
<1>11. PlaceInv'
    <2>1. /\ r.offset = lexer.offset + Width(r.token.text, Utf8)
          /\ r.token.start = lexer.offset /\ r.token.end = r.offset
        BY <1>4 DEF Reads
    <2>2. r.offset \in Nat
        <3>1. IsSeq(r.token.text)
            BY <1>9 DEF IsText
        <3>2. Width(r.token.text, Utf8) \in Nat
            BY <3>1, Utf8Width
        <3>3. QED
            BY <1>1, <2>1, <3>2 DEF PlaceInv
    <2>3. r.offset = Width(FlattenSeq(more), Utf8)
        <3>1. Width(FlattenSeq(more), Utf8) = Width(FlattenSeq(old), Utf8) + Width(r.token.text, Utf8)
            <4>1. IsSeq(FlattenSeq(old)) /\ IsSeq(r.token.text)
                BY <1>9 DEF IsText
            <4>2. QED
                BY <1>8, <4>1, Utf8Width
        <3>2. QED
            BY <1>1, <1>6, <2>1, <3>1 DEF PlaceInv
    <2>4. tokens' # <<>> /\ tokens'[Len(tokens')].end = r.offset
        <3>1. Len(tokens') # 0
            BY <1>5
        <3>2. QED
            BY <1>5, <2>1, <3>1, SeqFacts
    <2>5. ASSUME NEW k \in 1..(n + 1)
          PROVE  /\ tokens'[k].start = IF k = 1 THEN 0 ELSE tokens'[k - 1].end
                 /\ tokens'[k].end = tokens'[k].start + Width(tokens'[k].text, Utf8)
        <3>1. CASE k = n + 1
            <4>1. tokens'[k] = r.token /\ r.token.end = r.token.start + Width(r.token.text, Utf8)
                BY <1>5, <2>1, <3>1
            <4>2. CASE n = 0
                <5>1. tokens = <<>>
                    BY <4>2, <1>1, <1>2, SeqFacts DEF CutInv
                <5>2. QED
                    BY <1>1, <2>1, <3>1, <4>1, <4>2, <5>1 DEF PlaceInv
            <4>3. CASE n # 0
                <5>1. tokens # <<>> /\ lexer.offset = tokens[n].end
                    BY <4>3, <1>1, <1>2, SeqFacts DEF CutInv, PlaceInv
                <5>2. n \in 1..n /\ k - 1 = n /\ k # 1
                    BY <1>5, <3>1, <4>3
                <5>3. tokens'[k - 1] = tokens[n]
                    BY <1>5, <5>2
                <5>4. QED
                    BY <2>1, <4>1, <5>1, <5>2, <5>3
            <4>4. QED
                BY <4>2, <4>3
        <3>2. CASE k # n + 1
            <4>1. k \in 1..n /\ (k # 1 => k - 1 \in 1..n)
                BY <1>5, <3>2
            <4>2. tokens'[k] = tokens[k] /\ (k # 1 => tokens'[k - 1] = tokens[k - 1])
                BY <1>5, <4>1
            <4>3. /\ tokens[k].start = IF k = 1 THEN 0 ELSE tokens[k - 1].end
                  /\ tokens[k].end = tokens[k].start + Width(tokens[k].text, Utf8)
                BY <1>1, <1>2, <4>1 DEF PlaceInv
            <4>4. QED
                BY <4>2, <4>3
        <3>3. QED
            BY <3>1, <3>2
    <2>6. TextsOf(tokens)' = more
        BY <1>6 DEF TextsOf
    <2>7. QED
        BY <1>3, <1>5, <2>2, <2>3, <2>4, <2>5, <2>6 DEF PlaceInv
<1>12. QED
    BY <1>10, <1>11 DEF LexerInv

\* A name in the place of a symbol's leaves texts.
LEMMA RenameKeeps == LexerInv /\ Rename => LexerInv'
<1> SUFFICES ASSUME LexerInv, Rename PROVE LexerInv'
    OBVIOUS
<1>1. CutInv
    BY DEF LexerInv
<1>2. DOMAIN tokens = 1..Len(tokens) /\ Len(tokens) \in Nat
    BY <1>1, SeqFacts DEF CutInv
<1>3. PICK i \in DOMAIN tokens, name \in NewNames :
          text' = FlattenSeq([k \in DOMAIN [tokens EXCEPT ![i].text =
                                                name \o SubSeq(tokens[i].text, Len(Name(tokens[i].text)) + 1,
                                                               Len(tokens[i].text))] |->
                                  [tokens EXCEPT ![i].text =
                                       name \o SubSeq(tokens[i].text, Len(Name(tokens[i].text)) + 1,
                                                      Len(tokens[i].text))][k].text])
    BY DEF Rename
<1>4. PICK symbol, renamed :
          /\ symbol = tokens[i].text
          /\ renamed = name \o SubSeq(symbol, Len(Name(symbol)) + 1, Len(symbol))
    OBVIOUS
<1>5. IsText(symbol)
    <2>1. TextsOf(tokens)[i] = symbol /\ Len(TextsOf(tokens)) = Len(tokens)
        BY <1>1, <1>2, <1>4, TextsOfFacts DEF CutInv
    <2>2. QED
        BY <2>1, <1>1, <1>2 DEF CutInv, AllTexts
<1>6. Len(Name(symbol)) \in 0..Len(symbol)
    <2>1. PICK n : n = Leading(symbol, LAMBDA c : c \notin {".", ":"})
        OBVIOUS
    <2>2. n \in 0..Len(symbol) /\ Len(symbol) \in Nat
        BY <1>5, <2>1, LeadingIn, SeqFacts DEF IsText
    <2>3. Len(SubSeq(symbol, 1, n)) = n
        <3>1. PICK S : symbol \in Seq(S)
            BY <1>5 DEF IsText, IsSeq
        <3>2. \A k \in 1..n : symbol[k] \in S
            BY <2>2, <3>1, ElementOfSeq
        <3>3. QED
            BY <2>2, <3>2, SubSeqProperties
    <2>4. QED
        BY <2>1, <2>2, <2>3 DEF Name
<1>7. IsText(renamed)
    <2>1. IsText(name)
        BY TextsAreTexts
    <2>2. IsText(SubSeq(symbol, Len(Name(symbol)) + 1, Len(symbol)))
        BY <1>5, <1>6, TextIsCut
    <2>3. QED
        BY <1>4, <2>1, <2>2, TextsJoin
<1>8. PICK all : all = [tokens EXCEPT ![i].text = renamed]
    OBVIOUS
<1>9. text' = FlattenSeq(TextsOf(all))
    BY <1>3, <1>4, <1>8 DEF TextsOf
<1>10. AllTexts(TextsOf(all))
    <2>1. all = [k \in 1..Len(tokens) |-> IF k = i THEN [tokens[i] EXCEPT !.text = renamed] ELSE tokens[k]]
        BY <1>2, <1>8
    <2>2. TextsOf(all) = [k \in 1..Len(tokens) |-> all[k].text]
        BY <2>1 DEF TextsOf
    <2>3. ASSUME NEW k \in 1..Len(tokens) PROVE IsText(all[k].text)
        <3>1. CASE k = i
            <4>1. "text" \in DOMAIN tokens[i]
                BY <1>1, <1>2 DEF CutInv
            <4>2. QED
                BY <3>1, <4>1, <2>1, <1>7
        <3>2. CASE k # i
            <4>1. all[k].text = TextsOf(tokens)[k] /\ Len(TextsOf(tokens)) = Len(tokens)
                BY <3>2, <2>1, <1>1, TextsOfFacts DEF CutInv
            <4>2. QED
                BY <4>1, <1>1 DEF CutInv, AllTexts
        <3>3. QED
            BY <3>1, <3>2
    <2>4. TextsOf(all) \in Seq({all[k].text : k \in 1..Len(tokens)})
        BY <1>2, <2>2
    <2>5. Len(TextsOf(all)) = Len(tokens)
        BY <1>2, <2>2
    <2>6. QED
        BY <2>2, <2>3, <2>4, <2>5 DEF AllTexts, IsSeq
<1>11. IsText(text')
    BY <1>9, <1>10, JoinedIsText
<1>12. lexer' = new(text') /\ tokens' = <<>>
    BY DEF Rename
<1>13. CutInv'
    <2>1. Rest(lexer)' = Rest(new(text')) /\ TextsOf(tokens)' = TextsOf(<<>>)
          /\ Ready(lexer)' = Ready(new(text'))
        BY <1>12 DEF Rest, TextsOf, Ready
    <2>2. QED
        <3>1. Len(tokens') = 0
            BY <1>12, Tuples
        <3>2. \A k \in 1..Len(tokens') : "text" \in DOMAIN tokens'[k]
            BY <3>1
        <3>3. QED
            BY <1>11, <1>12, <2>1, <3>2, StartsCut, Tuples DEF CutInv
<1>14. PlaceInv'
    <2>1. 1..0 = {} /\ Len(<<>>) = 0
        BY Tuples
    <2>2. TextsOf(tokens)' = TextsOf(<<>>) /\ lexer'.offset = 0
        BY <1>11, <1>12, StartsCut DEF TextsOf
    <2>3. QED
        BY <1>11, <1>12, <2>1, <2>2, StartsCut, Utf8Small DEF PlaceInv
<1>15. QED
    BY <1>13, <1>14 DEF LexerInv

LEMMA NextKeeps == LexerInv /\ [Next]_vars => LexerInv'
<1>1. LexerInv /\ UNCHANGED vars => LexerInv'
    BY DEF LexerInv, CutInv, PlaceInv, vars, Ready, Rest, TextsOf
<1>2. QED
    BY <1>1, LexTokenKeeps, RenameKeeps DEF Next

\* Whatever the lexer peeks at, puts back or leaves, and whatever is renamed, the
\* tokens, the character in "peek" and the source are the text, and each token's
\* range is its place in bytes.
THEOREM TokensStayThePlaces == Spec => []TokensAreThePlaces
<1>1. Init => LexerInv
    BY InitEstablishes
<1>2. LexerInv /\ [Next]_vars => LexerInv'
    BY NextKeeps
<1>3. LexerInv => TokensAreThePlaces
    BY InvImpliesPlaces
<1>4. QED
    BY <1>1, <1>2, <1>3, PTL DEF Spec

-----------------------------------------------------------------------------
(* Positions *)

\* A place in a text cuts it, and the part up to a later place as well.
LEMMA PartsJoin ==
    ASSUME NEW s, IsSeq(s), NEW a \in 0..Len(s), NEW b \in a..Len(s)
    PROVE  /\ IsSeq(SubSeq(s, 1, a)) /\ IsSeq(SubSeq(s, a + 1, b))
           /\ SubSeq(s, 1, a) \o SubSeq(s, a + 1, b) = SubSeq(s, 1, b)
           /\ a < b => SubSeq(s, a + 1, b) # <<>>
<1>1. PICK S : s \in Seq(S)
    BY DEF IsSeq
<1>2. Len(s) \in Nat /\ a \in Nat /\ b \in Nat
    BY SeqFacts
<1>3. \A i \in 1..Len(s) : s[i] \in S
    BY <1>1, ElementOfSeq
<1>4. SubSeq(s, 1, a) \in Seq(S)
    <2>1. \A i \in 1..a : s[i] \in S
        BY <1>2, <1>3
    <2>2. QED
        BY <1>2, <2>1, SubSeqProperties
<1>5. SubSeq(s, a + 1, b) \in Seq(S) /\ (a < b => Len(SubSeq(s, a + 1, b)) = b - a)
    <2>1. \A i \in (a + 1)..b : s[i] \in S
        BY <1>2, <1>3
    <2>2. /\ SubSeq(s, a + 1, b) \in Seq(S)
          /\ Len(SubSeq(s, a + 1, b)) = IF a + 1 <= b THEN b - (a + 1) + 1 ELSE 0
        BY <1>2, <2>1, SubSeqProperties
    <2>3. QED
        BY <1>2, <2>2
<1>6. SubSeq(s, 1, a) \o SubSeq(s, a + 1, b) = SubSeq(s, 1, b)
    <2>1. 1 \in 1..(Len(s) + 1) /\ a \in (1 - 1)..Len(s)
        BY <1>2
    <2>2. QED
        BY <1>1, <2>1, ConcatAdjacentSubSeq
<1>7. ASSUME a < b PROVE SubSeq(s, a + 1, b) # <<>>
    <2>1. Len(SubSeq(s, a + 1, b)) # 0
        BY <1>2, <1>5, <1>7
    <2>2. Len(<<>>) = 0
        BY Tuples
    <2>3. QED
        BY <2>1, <2>2
<1>8. QED
    BY <1>4, <1>5, <1>6, <1>7 DEF IsSeq

\* Offsets, in bytes and in UTF-16 units, grow with the place.
LEMMA BytesGrow ==
    ASSUME NEW s, IsSeq(s), NEW a \in 0..Len(s), NEW b \in a..Len(s)
    PROVE  /\ char_to_byte(s, a) \in Nat /\ char_to_byte(s, b) \in Nat
           /\ char_to_byte(s, a) <= char_to_byte(s, b)
           /\ a < b => char_to_byte(s, a) < char_to_byte(s, b)
<1>1. PICK front, part : front = SubSeq(s, 1, a) /\ part = SubSeq(s, a + 1, b)
    OBVIOUS
<1>2. IsSeq(front) /\ IsSeq(part) /\ front \o part = SubSeq(s, 1, b) /\ (a < b => part # <<>>)
    BY <1>1, PartsJoin
<1>3. /\ Width(front, Utf8) \in Nat /\ Width(part, Utf8) \in Nat
      /\ Width(front \o part, Utf8) = Width(front, Utf8) + Width(part, Utf8)
    BY <1>2, Utf8Width
<1>4. a < b => Width(part, Utf8) >= 1
    BY <1>2, Utf8Small
<1>5. char_to_byte(s, a) = Width(front, Utf8) /\ char_to_byte(s, b) = Width(front \o part, Utf8)
    BY <1>1, <1>2 DEF char_to_byte
<1>6. QED
    BY <1>3, <1>4, <1>5

LEMMA UnitsGrow ==
    ASSUME NEW s, IsSeq(s), NEW a \in 0..Len(s), NEW b \in a..Len(s)
    PROVE  /\ char_to_utf16_cu(s, a) \in Nat /\ char_to_utf16_cu(s, b) \in Nat
           /\ Width(SubSeq(s, a + 1, b), Utf16) \in Nat
           /\ char_to_utf16_cu(s, a) + Width(SubSeq(s, a + 1, b), Utf16) = char_to_utf16_cu(s, b)
           /\ a < b => char_to_utf16_cu(s, a) < char_to_utf16_cu(s, b)
<1>1. PICK front, part : front = SubSeq(s, 1, a) /\ part = SubSeq(s, a + 1, b)
    OBVIOUS
<1>2. IsSeq(front) /\ IsSeq(part) /\ front \o part = SubSeq(s, 1, b) /\ (a < b => part # <<>>)
    BY <1>1, PartsJoin
<1>3. /\ Width(front, Utf16) \in Nat /\ Width(part, Utf16) \in Nat
      /\ Width(front \o part, Utf16) = Width(front, Utf16) + Width(part, Utf16)
    BY <1>2, Utf16Width
<1>4. a < b => Width(part, Utf16) >= 1
    BY <1>2, Utf16Small
<1>5. /\ char_to_utf16_cu(s, a) = Width(front, Utf16)
      /\ char_to_utf16_cu(s, b) = Width(front \o part, Utf16)
    BY <1>1, <1>2 DEF char_to_utf16_cu
<1>6. QED
    BY <1>1, <1>3, <1>4, <1>5

\* The last place that is not behind an offset is the offset's own.
LEMMA BytesPlace ==
    ASSUME NEW s, IsSeq(s), NEW a \in 0..Len(s)
    PROVE  /\ byte_to_char(s, char_to_byte(s, a)) = a
           /\ char_to_byte(s, a) <= Width(s, Utf8)
           /\ char_to_byte(s, a) \in Nat /\ Width(s, Utf8) \in Nat
<1>1. Len(s) \in Nat
    BY SeqFacts
<1>2. PICK S : S = {char \in 0..Len(s) : char_to_byte(s, char) <= char_to_byte(s, a)}
    OBVIOUS
<1>3. a \in a..Len(s) /\ Len(s) \in a..Len(s)
    BY <1>1
<1>4. char_to_byte(s, a) \in Nat /\ a \in S
    BY <1>2, <1>3, BytesGrow
<1>5. S \in SUBSET (0..Len(s)) /\ S # {}
    BY <1>2, <1>4
<1>6. Max(S) \in S /\ Max(S) >= a /\ Max(S) \in 0..Len(s)
    <2>1. Max(S) \in S /\ Max(S) >= a
        BY <1>1, <1>4, <1>5, MaxIn
    <2>2. Max(S) \in 0..Len(s)
        BY <1>5, <2>1
    <2>3. QED
        BY <2>1, <2>2
<1>7. ~(a < Max(S))
    <2>1. SUFFICES ASSUME a < Max(S) PROVE FALSE
        OBVIOUS
    <2>2. Max(S) \in a..Len(s)
        BY <1>1, <1>6
    <2>3. char_to_byte(s, a) < char_to_byte(s, Max(S)) /\ char_to_byte(s, Max(S)) \in Nat
        BY <2>1, <2>2, BytesGrow
    <2>4. char_to_byte(s, Max(S)) <= char_to_byte(s, a)
        BY <1>2, <1>6
    <2>5. QED
        BY <1>4, <2>3, <2>4
<1>8. Max(S) = a
    <2>1. Max(S) \in Nat /\ a \in Nat
        BY <1>1, <1>6
    <2>2. QED
        BY <1>6, <1>7, <2>1
<1>9. byte_to_char(s, char_to_byte(s, a)) = a
    BY <1>2, <1>8 DEF byte_to_char, LastAt
<1>10. Width(s, Utf8) = char_to_byte(s, Len(s))
    <2>1. PICK T : s \in Seq(T)
        BY DEF IsSeq
    <2>2. SubSeq(s, 1, Len(s)) = s
        BY <2>1, SubSeqFull
    <2>3. QED
        BY <2>2 DEF char_to_byte
<1>11. QED
    BY <1>3, <1>4, <1>9, <1>10, BytesGrow

LEMMA UnitsPlace ==
    ASSUME NEW s, IsSeq(s), NEW a \in 0..Len(s)
    PROVE  /\ utf16_cu_to_char(s, char_to_utf16_cu(s, a)) = a
           /\ char_to_utf16_cu(s, a) <= Width(s, Utf16)
           /\ char_to_utf16_cu(s, a) \in Nat /\ Width(s, Utf16) \in Nat
<1>1. Len(s) \in Nat
    BY SeqFacts
<1>2. PICK S : S = {char \in 0..Len(s) : char_to_utf16_cu(s, char) <= char_to_utf16_cu(s, a)}
    OBVIOUS
<1>3. a \in a..Len(s) /\ Len(s) \in a..Len(s)
    BY <1>1
<1>4. char_to_utf16_cu(s, a) \in Nat /\ a \in S
    BY <1>2, <1>3, UnitsGrow
<1>5. S \in SUBSET (0..Len(s)) /\ S # {}
    BY <1>2, <1>4
<1>6. Max(S) \in S /\ Max(S) >= a /\ Max(S) \in 0..Len(s)
    <2>1. Max(S) \in S /\ Max(S) >= a
        BY <1>1, <1>4, <1>5, MaxIn
    <2>2. Max(S) \in 0..Len(s)
        BY <1>5, <2>1
    <2>3. QED
        BY <2>1, <2>2
<1>7. ~(a < Max(S))
    <2>1. SUFFICES ASSUME a < Max(S) PROVE FALSE
        OBVIOUS
    <2>2. Max(S) \in a..Len(s)
        BY <1>1, <1>6
    <2>3. char_to_utf16_cu(s, a) < char_to_utf16_cu(s, Max(S)) /\ char_to_utf16_cu(s, Max(S)) \in Nat
        BY <2>1, <2>2, UnitsGrow
    <2>4. char_to_utf16_cu(s, Max(S)) <= char_to_utf16_cu(s, a)
        BY <1>2, <1>6
    <2>5. QED
        BY <1>4, <2>3, <2>4
<1>8. Max(S) = a
    <2>1. Max(S) \in Nat /\ a \in Nat
        BY <1>1, <1>6
    <2>2. QED
        BY <1>6, <1>7, <2>1
<1>9. utf16_cu_to_char(s, char_to_utf16_cu(s, a)) = a
    BY <1>2, <1>8 DEF utf16_cu_to_char, LastAt
<1>10. Width(s, Utf16) = char_to_utf16_cu(s, Len(s))
    <2>1. PICK T : s \in Seq(T)
        BY DEF IsSeq
    <2>2. SubSeq(s, 1, Len(s)) = s
        BY <2>1, SubSeqFull
    <2>3. QED
        BY <2>2 DEF char_to_utf16_cu
<1>11. char_to_utf16_cu(s, a) <= char_to_utf16_cu(s, Len(s)) /\ char_to_utf16_cu(s, Len(s)) \in Nat
    BY <1>3, UnitsGrow
<1>12. QED
    BY <1>4, <1>9, <1>10, <1>11

-----------------------------------------------------------------------------
(* Lines *)

\* The line breaks before a place, and where its line starts.
Ends(s, b) == {i \in 1..b : EndsLine(s, i)}
Start(s, b) == Max(Ends(s, b) \cup {0})

LEMMA EndsFinite ==
    ASSUME NEW s, NEW b \in Nat
    PROVE  IsFiniteSet(Ends(s, b)) /\ Cardinality(Ends(s, b)) \in Nat
<1>1. IsFiniteSet(1..b)
    BY FS_Interval
<1>2. Ends(s, b) \in SUBSET (1..b)
    BY DEF Ends
<1>3. QED
    BY <1>1, <1>2, FS_Subset, FS_CardinalityType

\* ropey counts the breaks.
LEMMA LinesAreCounted ==
    ASSUME NEW s, IsSeq(s), NEW b \in 0..Len(s)
    PROVE  /\ char_to_line(s, b) = Cardinality(Ends(s, b))
           /\ Cardinality(Ends(s, b)) < len_lines(s)
           /\ len_lines(s) \in Nat
<1>1. Len(s) \in Nat /\ b \in Nat
    BY SeqFacts
<1>2. ASSUME NEW c \in 0..Len(s)
      PROVE  /\ {start \in LineStarts(s) : start <= c} = Ends(s, c) \cup {0}
             /\ Cardinality(Ends(s, c) \cup {0}) = Cardinality(Ends(s, c)) + 1
    <2>1. c \in Nat
        BY <1>1
    <2>2. {start \in LineStarts(s) : start <= c} = Ends(s, c) \cup {0}
        BY <1>1, <2>1 DEF LineStarts, Ends
    <2>3. 0 \notin Ends(s, c)
        BY DEF Ends
    <2>4. QED
        BY <2>1, <2>2, <2>3, EndsFinite, FS_AddElement
<1>3. char_to_line(s, b) = Cardinality(Ends(s, b))
    <2>1. PICK S : S = {start \in LineStarts(s) : start <= b}
        OBVIOUS
    <2>2. Cardinality(S) = Cardinality(Ends(s, b)) + 1
        BY <1>2, <2>1
    <2>3. char_to_line(s, b) = Cardinality(S) - 1
        BY <2>1 DEF char_to_line
    <2>4. Cardinality(Ends(s, b)) \in Nat
        BY <1>1, EndsFinite
    <2>5. QED
        BY <2>2, <2>3, <2>4
<1>4. Len(s) \in 0..Len(s)
    BY <1>1
<1>5. len_lines(s) = Cardinality(Ends(s, Len(s))) + 1
    <2>1. {start \in LineStarts(s) : start <= Len(s)} = LineStarts(s)
        BY <1>1 DEF LineStarts
    <2>2. QED
        BY <1>2, <1>4, <2>1 DEF len_lines
<1>6. Ends(s, b) \in SUBSET Ends(s, Len(s))
    BY <1>1 DEF Ends
<1>7. Cardinality(Ends(s, b)) <= Cardinality(Ends(s, Len(s)))
    BY <1>1, <1>6, EndsFinite, FS_Subset
<1>8. QED
    BY <1>1, <1>3, <1>5, <1>7, EndsFinite

\* A line starts where its place says, and nowhere else.
LEMMA LineStartsOnce ==
    ASSUME NEW s, IsSeq(s), NEW b \in 0..Len(s)
    PROVE  /\ Start(s, b) \in 0..b
           /\ line_to_char(s, Cardinality(Ends(s, b))) = Start(s, b)
<1>1. Len(s) \in Nat /\ b \in Nat
    BY SeqFacts
<1>2. PICK t : t = Start(s, b)
    OBVIOUS
<1>3. t \in Ends(s, b) \cup {0} /\ \A i \in Ends(s, b) : t >= i
    <2>1. PICK S : S = Ends(s, b) \cup {0}
        OBVIOUS
    <2>2. S \in SUBSET (0..b) /\ S # {}
        BY <1>1, <2>1 DEF Ends
    <2>3. Max(S) \in S /\ \A y \in S : Max(S) >= y
        BY <1>1, <2>2, MaxIn
    <2>4. QED
        BY <1>2, <2>1, <2>3 DEF Start
<1>4. t \in 0..b /\ t \in 0..Len(s) /\ t \in LineStarts(s)
    BY <1>1, <1>3 DEF Ends, LineStarts
<1>5. Ends(s, t) = Ends(s, b)
    BY <1>1, <1>3, <1>4 DEF Ends
<1>6. PICK line : line = Cardinality(Ends(s, b))
    OBVIOUS
<1>7. char_to_line(s, t) = line
    BY <1>4, <1>5, <1>6, LinesAreCounted
<1>8. ASSUME NEW u \in LineStarts(s), char_to_line(s, u) = line PROVE u = t
    <2>1. u \in 0..Len(s) /\ (u # 0 => u \in Ends(s, u))
        BY <1>1 DEF LineStarts, Ends
    <2>2. t # 0 => t \in Ends(s, t)
        BY <1>3, <1>5
    <2>3. u \in Nat /\ t \in Nat
        BY <1>1, <1>4, <2>1
    <2>4. Cardinality(Ends(s, u)) = Cardinality(Ends(s, t))
        BY <1>5, <1>6, <1>8, <2>1, LinesAreCounted
    <2>5. CASE u < t
        <3>1. Ends(s, u) \in SUBSET Ends(s, t) /\ t \notin Ends(s, u)
            BY <2>3, <2>5 DEF Ends
        <3>2. Ends(s, u) = Ends(s, t)
            BY <2>3, <2>4, <3>1, EndsFinite, FS_Subset
        <3>3. QED
            BY <2>2, <2>3, <2>5, <3>1, <3>2
    <2>6. CASE t < u
        <3>1. Ends(s, t) \in SUBSET Ends(s, u) /\ u \notin Ends(s, t)
            BY <2>3, <2>6 DEF Ends
        <3>2. Ends(s, u) = Ends(s, t)
            BY <2>3, <2>4, <3>1, EndsFinite, FS_Subset
        <3>3. QED
            BY <2>1, <2>3, <2>6, <3>1, <3>2
    <2>7. QED
        BY <2>3, <2>5, <2>6
<1>9. line # len_lines(s)
    <2>1. line < len_lines(s) /\ len_lines(s) \in Nat
        BY <1>6, LinesAreCounted
    <2>2. line \in Nat
        BY <1>1, <1>6, EndsFinite
    <2>3. QED
        BY <2>1, <2>2
<1>10. line_to_char(s, line) = t
    BY <1>4, <1>7, <1>8, <1>9 DEF line_to_char
<1>11. QED
    BY <1>2, <1>4, <1>6, <1>10

-----------------------------------------------------------------------------
(* The places agree *)

\* The editor's position of a place, with ropey's lines.
LEMMA EditorCounts ==
    ASSUME NEW s, IsSeq(s), "separator" \notin ToSet(s), NEW b \in 0..Len(s)
    PROVE  EditorPosition(s, b)
               = [line |-> Cardinality(Ends(s, b)),
                  character |-> Width(SubSeq(s, Start(s, b) + 1, b), Utf16)]
<1>1. Len(s) \in Nat /\ b \in Nat /\ DOMAIN s = 1..Len(s)
    BY SeqFacts
<1>2. \A i \in 1..b : s[i] # "separator"
    <2>1. \A i \in 1..b : i \in 1..Len(s)
        BY <1>1
    <2>2. QED
        BY <1>1, <2>1 DEF ToSet
<1>3. {i \in 1..b : EndsLine(s, i) /\ s[i] # "separator"} = Ends(s, b)
    BY <1>2 DEF Ends
<1>4. QED
    BY <1>3 DEF EditorPosition, Start

\* From the editor to the rope and back.
LEMMA PositionOfPlace ==
    ASSUME NEW s, IsSeq(s), "separator" \notin ToSet(s), NEW b \in 0..Len(s)
    PROVE  /\ position_to_char_idx(s, EditorPosition(s, b)) = b
           /\ byte_offset_to_position(s, char_to_byte(s, b)) = EditorPosition(s, b)
<1>1. Len(s) \in Nat /\ b \in Nat
    BY SeqFacts
<1>2. PICK t, line, column : /\ t = Start(s, b) /\ line = Cardinality(Ends(s, b))
                             /\ column = Width(SubSeq(s, t + 1, b), Utf16)
    OBVIOUS
<1>3. EditorPosition(s, b) = [line |-> line, character |-> column]
    BY <1>2, EditorCounts
<1>4. t \in 0..b /\ line_to_char(s, line) = t
    BY <1>2, LineStartsOnce
<1>5. /\ char_to_utf16_cu(s, t) \in Nat /\ column \in Nat
      /\ char_to_utf16_cu(s, t) + column = char_to_utf16_cu(s, b)
    <2>1. t \in 0..Len(s) /\ b \in t..Len(s)
        BY <1>1, <1>4
    <2>2. QED
        BY <1>2, <2>1, UnitsGrow
<1>6. /\ line < len_lines(s) /\ line \in Nat /\ len_lines(s) \in Nat
      /\ char_to_line(s, b) = line
    BY <1>1, <1>2, LinesAreCounted, EndsFinite
<1>7. /\ utf16_cu_to_char(s, char_to_utf16_cu(s, b)) = b
      /\ char_to_utf16_cu(s, b) <= Width(s, Utf16)
      /\ char_to_utf16_cu(s, b) \in Nat /\ Width(s, Utf16) \in Nat
    BY UnitsPlace
<1>8. /\ byte_to_char(s, char_to_byte(s, b)) = b
      /\ char_to_byte(s, b) <= Width(s, Utf8)
      /\ char_to_byte(s, b) \in Nat /\ Width(s, Utf8) \in Nat
    BY BytesPlace
<1>9. position_to_char_idx(s, [line |-> line, character |-> column]) = b
    <2>1. ~(line > len_lines(s)) /\ ~(char_to_utf16_cu(s, b) > Width(s, Utf16))
        BY <1>6, <1>7
    <2>2. QED
        BY <1>4, <1>5, <1>7, <2>1 DEF position_to_char_idx
<1>10. byte_offset_to_position(s, char_to_byte(s, b)) = [line |-> line, character |-> column]
    <2>1. ~(char_to_byte(s, b) > Width(s, Utf8))
        BY <1>8
    <2>2. char_to_utf16_cu(s, b) - char_to_utf16_cu(s, t) = column
        BY <1>5, <1>7
    <2>3. QED
        BY <1>4, <1>6, <1>8, <2>1, <2>2 DEF byte_offset_to_position
<1>11. QED
    BY <1>3, <1>9, <1>10

LEMMA PlacesAgree ==
    ASSUME NEW s, IsSeq(s), "separator" \notin ToSet(s)
    PROVE  SamePlaces(s)
<1>1. SUFFICES ASSUME NEW a \in Boundaries(s), NEW b \in Boundaries(s), a <= b
               PROVE  LET range(x, y) == [start |-> x, end |-> y]
                          shown == range(EditorPosition(s, a), EditorPosition(s, b))
                          bytes == range(char_to_byte(s, a), char_to_byte(s, b))
                      IN  /\ rope_range(s, shown) = range(a, b)
                          /\ lsp_range(s, bytes) = shown
                          /\ position_to_byte_offset(s, shown.start) = bytes.start
    BY DEF SamePlaces
<1>2. a \in 0..Len(s) /\ b \in 0..Len(s) /\ Len(s) \in Nat
    BY SeqFacts DEF Boundaries
<1>3. /\ position_to_char_idx(s, EditorPosition(s, a)) = a
      /\ position_to_char_idx(s, EditorPosition(s, b)) = b
      /\ byte_offset_to_position(s, char_to_byte(s, a)) = EditorPosition(s, a)
      /\ byte_offset_to_position(s, char_to_byte(s, b)) = EditorPosition(s, b)
    BY <1>2, PositionOfPlace
<1>4. a \notin {InvalidRequest, Panic}
    BY <1>2, PositionsAssumption
<1>5. position_to_byte_offset(s, EditorPosition(s, a)) = char_to_byte(s, a)
    BY <1>3, <1>4 DEF position_to_byte_offset
<1>6. QED
    BY <1>3, <1>5 DEF rope_range, lsp_range

\* At every boundary of every text without line separators, also after renames, a
\* position of the protocol, a character of the rope and a byte of the tree stand
\* for each other.
THEOREM PositionsStayInAgreement == Spec => []PositionsAgree
<1>1. Init => LexerInv
    BY InitEstablishes
<1>2. LexerInv /\ [Next]_vars => LexerInv'
    BY NextKeeps
<1>3. LexerInv => PositionsAgree
    BY PlacesAgree DEF LexerInv, CutInv, IsText, PositionsAgree
<1>4. QED
    BY <1>1, <1>2, <1>3, PTL DEF Spec

-----------------------------------------------------------------------------
(* What is read, by the characters in front *)

DashedBy(head, source) == head = "-" /\ source # <<>> /\ source[1] = "-"

Backslashes(source, i) == Max({n \in 0..(i - 1) : \A k \in (i - n)..(i - 1) : source[k] = "backslash"})
Closings(source) == {i \in DOMAIN source : source[i] = "quote" /\ Backslashes(source, i) % 2 = 0}

\* A token is the head and the first n characters behind it.
IsDashed(head, source, n, kind) ==
    /\ kind_by_char(head) = "Word" /\ DashedBy(head, source) /\ kind = "COMMENT"
    /\ n >= 1 /\ \A i \in 2..n : source[i] \notin Breaks
    /\ n < Len(source) => source[n + 1] \in Breaks
IsWord(head, source, n, kind) ==
    /\ kind_by_char(head) = "Word" /\ ~DashedBy(head, source)
    /\ kind = WordKind(<<head>> \o SubSeq(source, 1, n))
    /\ \A i \in 1..n : InWord(source[i])
    /\ n < Len(source) => ~InWord(source[n + 1])
IsHash(head, source, n, kind) ==
    /\ kind_by_char(head) = "Hash" /\ n = 0
    /\ kind = IF source = <<>> \/ is_whitespace(source[1]) \/ source[1] = ")" THEN "LENGTH" ELSE "HASHFN"
IsString(head, source, n, kind) ==
    /\ kind_by_char(head) = "QuoteString"
    /\ IF Closings(source) = {} THEN n = Len(source) /\ kind = "ERROR"
       ELSE n = Min(Closings(source)) /\ kind = "QUOTE_STRING"
IsComment(head, source, n, kind) ==
    /\ kind_by_char(head) = "Comment" /\ kind = "COMMENT"
    /\ \E m \in 0..Len(source) :
          /\ \A i \in 1..m : source[i] \notin Breaks
          /\ m < Len(source) => source[m + 1] \in Breaks
          /\ n = IF m = Len(source) THEN m
                 ELSE IF source[m + 1] = "return" /\ m + 2 <= Len(source) /\ source[m + 2] = "newline"
                 THEN m + 2 ELSE m + 1
IsSpace(head, source, n, kind) ==
    /\ kind_by_char(head) = "Whitespace" /\ kind = "WHITESPACE"
    /\ \A i \in 1..n : is_whitespace(source[i])
    /\ n < Len(source) => ~is_whitespace(source[n + 1])
IsBound(head, source, n, kind) ==
    /\ kind_by_char(head) = "Bound" /\ n = 0
    /\ kind = CASE head = "(" -> "L_PAREN" [] head = ")" -> "R_PAREN"
                [] head = "," -> "COMMA" [] head = "backtick" -> "BACKTICK"

ReadOff(head, source, n, kind) ==
    \/ IsDashed(head, source, n, kind) \/ IsWord(head, source, n, kind) \/ IsHash(head, source, n, kind)
    \/ IsString(head, source, n, kind) \/ IsComment(head, source, n, kind)
    \/ IsSpace(head, source, n, kind) \/ IsBound(head, source, n, kind)

\* Which character is what.
LEMMA KindsOfChars ==
    \A c : /\ kind_by_char(c) \in {"Whitespace", "Comment", "QuoteString", "Hash", "Bound", "Word"}
           /\ kind_by_char(c) = "Whitespace" <=> is_whitespace(c)
           /\ kind_by_char("-") = "Word" /\ (c \in Breaks => is_whitespace(c))
           /\ kind_by_char(c) = "Word" => c \notin Breaks /\ c # "quote" /\ ~is_whitespace(c) /\ c # ")"
           /\ kind_by_char(c) = "Bound" => c \in {"(", ")", ",", "backtick"}
BY DEF kind_by_char, is_whitespace, BOUND, Breaks

-----------------------------------------------------------------------------
(* Reading finds such a token *)

\* A token that was read off a head and what is behind it.
Was(token, head, source) ==
    \E n \in 0..Len(source) :
        token.text = <<head>> \o SubSeq(source, 1, n) /\ ReadOff(head, source, n, token.kind)

LEMMA FinishedToken ==
    ASSUME NEW kind, NEW current, NEW source, NEW peek, NEW offset
    PROVE  LET token == finish_token(kind, current, source, peek, offset).token
           IN  token.kind = kind /\ token.text = current
BY DEF finish_token

LEMMA TwoDashes == <<"-">> \o <<"-">> = <<"-", "-">>
<1>1. /\ IsSeq(<<"-">>) /\ Len(<<"-">>) = 1 /\ <<"-">>[1] = "-"
      /\ IsSeq(<<"-", "-">>) /\ Len(<<"-", "-">>) = 2
      /\ <<"-", "-">>[1] = "-" /\ <<"-", "-">>[2] = "-"
    BY Tuples
<1>2. PICK dash, both : dash = <<"-">> /\ both = <<"-">> \o <<"-">>
    OBVIOUS
<1>3. /\ IsSeq(both) /\ Len(both) = Len(dash) + Len(dash)
      /\ \A i \in 1..Len(dash) : both[i] = dash[i]
      /\ \A i \in 1..Len(dash) : both[Len(dash) + i] = dash[i]
    BY <1>1, <1>2, ConcatFacts
<1>4. Len(both) = 2 /\ both[1] = "-" /\ both[2] = "-"
    BY <1>1, <1>2, <1>3
<1>5. \A i \in 1..Len(both) : both[i] = <<"-", "-">>[i]
    BY <1>1, <1>4
<1>6. QED
    BY <1>1, <1>2, <1>3, <1>4, <1>5, SameSequences

\* Nothing and the first character of a text, as parts of it.
LEMMA FirstPart ==
    ASSUME NEW s, IsText(s)
    PROVE  /\ SubSeq(s, 1, 0) = <<>> /\ \A c : <<c>> \o SubSeq(s, 1, 0) = <<c>>
           /\ s # <<>> => \A n \in 0..(Len(s) - 1) :
                 <<s[1]>> \o SubSeq(Tail(s), 1, n) = SubSeq(s, 1, n + 1)
<1>1. PICK m : m = Len(s)
    OBVIOUS
<1>2. m \in Nat /\ IsSeq(s)
    BY <1>1, SeqFacts DEF IsText
<1>3. PICK S : s \in Seq(S)
    BY <1>2 DEF IsSeq
<1>4. \A n \in 0..m : /\ IsSeq(SubSeq(s, 1, n)) /\ Len(SubSeq(s, 1, n)) = n
                      /\ \A i \in 1..n : SubSeq(s, 1, n)[i] = s[i]
    <2>1. ASSUME NEW n \in 0..m
          PROVE  /\ IsSeq(SubSeq(s, 1, n)) /\ Len(SubSeq(s, 1, n)) = n
                 /\ \A i \in 1..n : SubSeq(s, 1, n)[i] = s[i]
        <3>1. \A k \in 1..n : k \in 1..m /\ s[k] \in S
            BY <1>1, <1>2, <1>3, ElementOfSeq
        <3>2. SubSeq(s, 1, n) \in Seq(S) /\ Len(SubSeq(s, 1, n)) = n
              /\ \A i \in 1..n : SubSeq(s, 1, n)[i] = s[i]
            BY <1>2, <3>1, SubSeqProperties
        <3>3. QED
            BY <3>2 DEF IsSeq
    <2>2. QED
        BY <2>1
<1>5. SubSeq(s, 1, 0) = <<>>
    <2>1. IsSeq(SubSeq(s, 1, 0)) /\ Len(SubSeq(s, 1, 0)) = 0
        BY <1>2, <1>4
    <2>2. QED
        BY <2>1, SeqFacts
<1>6. \A c : <<c>> \o <<>> = <<c>>
    BY Tuples, NothingJoins
<1>7. ASSUME s # <<>>, NEW n \in 0..(Len(s) - 1)
      PROVE  <<s[1]>> \o SubSeq(Tail(s), 1, n) = SubSeq(s, 1, n + 1)
    <2>1. PICK t, one, front, part : /\ t = Tail(s) /\ one = <<s[1]>> /\ front = SubSeq(t, 1, n)
                                     /\ part = SubSeq(s, 1, n + 1)
        OBVIOUS
    <2>2. /\ t \in Seq(S) /\ Len(t) = m - 1 /\ \A i \in 1..(m - 1) : t[i] = s[i + 1]
        BY <1>1, <1>3, <1>7, <2>1
    <2>3. \A k \in 1..n : k \in 1..(m - 1) /\ t[k] \in S
        <3>1. \A k \in 1..n : k \in 1..(m - 1)
            BY <1>1, <1>2
        <3>2. QED
            BY <2>2, <3>1, ElementOfSeq
    <2>4. IsSeq(front) /\ Len(front) = n /\ \A i \in 1..n : front[i] = t[i]
        <3>1. front \in Seq(S) /\ Len(front) = n /\ \A i \in 1..n : front[i] = t[i]
            BY <1>1, <1>2, <2>1, <2>3, SubSeqProperties
        <3>2. QED
            BY <3>1 DEF IsSeq
    <2>5. IsSeq(part) /\ Len(part) = n + 1 /\ \A i \in 1..(n + 1) : part[i] = s[i]
        <3>1. n + 1 \in 0..m
            BY <1>1, <1>2
        <3>2. QED
            BY <1>4, <2>1, <3>1
    <2>6. IsSeq(one) /\ Len(one) = 1 /\ one[1] = s[1]
        BY <2>1, Tuples
    <2>7. PICK both : both = one \o front
        OBVIOUS
    <2>8. /\ IsSeq(both) /\ Len(both) = 1 + n /\ both[1] = s[1]
          /\ \A i \in 1..n : both[1 + i] = front[i]
        <3>1. /\ IsSeq(both) /\ Len(both) = Len(one) + Len(front) /\ (\A i \in 1..Len(one) : both[i] = one[i])
              /\ \A i \in 1..Len(front) : both[Len(one) + i] = front[i]
            <4>1. IsSeq(one) /\ IsSeq(front)
                BY <2>4, <2>6
            <4>2. QED
                BY <2>7, <4>1, ConcatFacts
        <3>2. QED
            BY <2>4, <2>6, <3>1
    <2>9. ASSUME NEW i \in 1..(n + 1) PROVE both[i] = part[i]
        <3>1. CASE i = 1
            BY <2>5, <2>8, <3>1
        <3>2. CASE i # 1
            <4>1. PICK k : k = i - 1
                OBVIOUS
            <4>2. k \in 1..n /\ i = 1 + k /\ i = k + 1 /\ k \in 1..(m - 1)
                BY <1>1, <1>2, <3>2, <4>1
            <4>3. both[i] = t[k]
                BY <2>4, <2>8, <4>2
            <4>4. QED
                BY <2>2, <2>5, <4>2, <4>3
        <3>3. QED
            BY <3>1, <3>2
    <2>10. Len(both) = Len(part)
        BY <1>2, <2>5, <2>8
    <2>11. both = part
        BY <2>5, <2>8, <2>9, <2>10, SameSequences
    <2>12. QED
        BY <2>1, <2>7, <2>11
<1>8. QED
    BY <1>5, <1>6, <1>7

\* A word or, behind two dashes, a comment.
LEMMA WordWas ==
    ASSUME NEW head, NEW source, NEW offset, IsText(source), kind_by_char(head) = "Word"
    PROVE  Was(Word(head, source, offset).token, head, source)
<1>1. Len(source) \in Nat
    BY SeqFacts DEF IsText
<1>2. CASE DashedBy(head, source)
    <2>1. head = "-" /\ source # <<>> /\ source[1] = "-"
        BY <1>2 DEF DashedBy
    <2>2. PICK chars : chars = Tail(source)
        OBVIOUS
    <2>3. IsText(chars) /\ <<source[1]>> \o chars = source
        BY <2>1, <2>2, HeadJoins
    <2>4. Len(chars) = Len(source) - 1 /\ \A i \in 1..Len(chars) : chars[i] = source[i + 1]
        BY <2>1, <2>2, SeqFacts DEF IsText
    <2>5. PICK m : m = Leading(chars, LAMBDA c : c \notin {"newline", "return"})
        OBVIOUS
    <2>6. /\ m \in 0..Len(chars) /\ \A i \in 1..m : chars[i] \notin Breaks
          /\ m < Len(chars) => chars[m + 1] \in Breaks
        BY <2>3, <2>5, LeadingFacts
    <2>7. PICK token : token = Word(head, source, offset).token
        OBVIOUS
    <2>8. token.kind = "COMMENT" /\ token.text = <<"-", "-">> \o SubSeq(chars, 1, m)
        <3>1. PICK word : word = <<"-", "-">> \o SubSeq(chars, 1, m)
            OBVIOUS
        <3>2. token = finish_token("COMMENT", word, SubSeq(chars, m + 2, Len(chars)),
                                   IF m < Len(chars) THEN chars[m + 1] ELSE None, offset).token
            BY <2>1, <2>2, <2>5, <2>7, <3>1 DEF Word, Scan
        <3>3. token.kind = "COMMENT" /\ token.text = word
            BY <3>2, FinishedToken
        <3>4. QED
            BY <3>1, <3>3
    <2>9. PICK n : n = m + 1
        OBVIOUS
    <2>10. n \in 0..Len(source) /\ n \in 1..Len(source)
        BY <1>1, <2>4, <2>6, <2>9
    <2>11. <<"-", "-">> \o SubSeq(chars, 1, m) = <<head>> \o SubSeq(source, 1, n)
        <3>1. <<"-">> \o SubSeq(chars, 1, m) = SubSeq(source, 1, m + 1)
            <4>1. m \in 0..(Len(source) - 1)
                BY <2>4, <2>6
            <4>2. <<source[1]>> \o SubSeq(Tail(source), 1, m) = SubSeq(source, 1, m + 1)
                BY <2>1, <4>1, FirstPart
            <4>3. QED
                BY <2>1, <2>2, <4>2
        <3>2. PICK front : front = SubSeq(chars, 1, m)
            OBVIOUS
        <3>3. IsSeq(front) /\ IsSeq(<<"-">>)
            BY <2>3, <2>6, <3>2, TextIsCut, Tuples DEF IsText
        <3>4. (<<"-">> \o <<"-">>) \o front = <<"-">> \o (<<"-">> \o front)
            BY <3>3, JoinsAssociate
        <3>5. <<"-">> \o <<"-">> = <<"-", "-">>
            BY TwoDashes
        <3>6. QED
            BY <2>1, <2>9, <3>1, <3>2, <3>4, <3>5
    <2>12. \A i \in 2..n : source[i] \notin Breaks
        <3>1. ASSUME NEW i \in 2..n PROVE source[i] \notin Breaks
            <4>1. PICK k : k = i - 1
                OBVIOUS
            <4>2. k \in 1..m /\ k \in 1..Len(chars) /\ i = k + 1
                BY <1>1, <2>4, <2>6, <2>9, <4>1
            <4>3. QED
                BY <2>4, <2>6, <4>2
        <3>2. QED
            BY <3>1
    <2>13. n < Len(source) => source[n + 1] \in Breaks
        <3>1. ASSUME n < Len(source) PROVE source[n + 1] \in Breaks
            <4>1. m < Len(chars) /\ n \in 1..Len(chars) /\ m + 1 = n
                BY <1>1, <2>4, <2>6, <2>9, <3>1
            <4>2. QED
                BY <2>4, <2>6, <4>1
        <3>2. QED
            BY <3>1
    <2>14. n >= 1
        BY <1>1, <2>10
    <2>15. IsDashed(head, source, n, token.kind)
        BY <1>2, <2>8, <2>12, <2>13, <2>14 DEF IsDashed
    <2>16. QED
        BY <2>7, <2>8, <2>10, <2>11, <2>15 DEF Was, ReadOff
<1>3. CASE ~DashedBy(head, source)
    <2>1. PICK pending, rest : /\ pending = IF head = "-" /\ source # <<>> THEN <<source[1]>> ELSE <<>>
                               /\ rest = IF head = "-" /\ source # <<>> THEN Tail(source) ELSE source
        OBVIOUS
    <2>2. pending \o rest = source
        <3>1. CASE head = "-" /\ source # <<>>
            BY <2>1, <3>1, HeadJoins
        <3>2. CASE ~(head = "-" /\ source # <<>>)
            <4>1. pending = <<>> /\ rest = source
                BY <2>1, <3>2
            <4>2. QED
                BY <4>1, NothingJoins DEF IsText
        <3>3. QED
            BY <3>1, <3>2
    <2>3. PICK n : n = Leading(source, LAMBDA c : kind_by_char(c) \in {"Word", "Hash"})
        OBVIOUS
    <2>4. /\ n \in 0..Len(source) /\ \A i \in 1..n : InWord(source[i])
          /\ n < Len(source) => ~InWord(source[n + 1])
        BY <2>3, LeadingFacts
    <2>5. PICK word, token : word = <<head>> \o SubSeq(source, 1, n) /\ token = Word(head, source, offset).token
        OBVIOUS
    <2>6. Word(head, source, offset)
              = Scan(<<head>>, pending \o rest, LAMBDA c : kind_by_char(c) \in {"Word", "Hash"},
                     WordKind, offset)
        BY <1>3, <2>1 DEF Word, DashedBy
    <2>7. token = finish_token(WordKind(word), word, SubSeq(source, n + 2, Len(source)),
                               IF n < Len(source) THEN source[n + 1] ELSE None, offset).token
        BY <2>2, <2>3, <2>5, <2>6 DEF Scan
    <2>8. token.kind = WordKind(word) /\ token.text = word
        BY <2>7, FinishedToken
    <2>9. IsWord(head, source, n, token.kind)
        BY <1>3, <2>4, <2>5, <2>8 DEF IsWord
    <2>10. QED
        BY <2>4, <2>5, <2>8, <2>9 DEF Was, ReadOff
<1>4. QED
    BY <1>2, <1>3

Upto(current, chars, n) == current \o SubSeq(chars, 1, n)

LEMMA TakenToken ==
    ASSUME NEW current, NEW chars, NEW n, NEW kind, NEW offset, NEW token,
           token = Take(current, chars, n, kind, offset).token
    PROVE  token.kind = kind /\ token.text = Upto(current, chars, n)
<1>1. PICK word, back : word = Upto(current, chars, n) /\ back = SubSeq(chars, n + 1, Len(chars))
    OBVIOUS
<1>2. token = finish_token(kind, word, back, None, offset).token
    BY <1>1 DEF Take, Upto
<1>3. QED
    BY <1>1, <1>2, FinishedToken

LEMMA HashWas ==
    ASSUME NEW head, NEW source, NEW offset, IsText(source), kind_by_char(head) = "Hash"
    PROVE  Was(Hash(head, source, offset).token, head, source)
<1>1. Len(source) \in Nat /\ (source # <<>> => source[1] # None)
    <2>1. Len(source) \in Nat /\ (source # <<>> => Len(source) # 0)
        BY SeqFacts DEF IsText
    <2>2. QED
        BY <2>1 DEF IsText
<1>2. PICK peek, kind, token :
          /\ peek = IF source = <<>> THEN None ELSE source[1]
          /\ kind = IF peek = None \/ is_whitespace(peek) \/ peek = ")" THEN "LENGTH" ELSE "HASHFN"
          /\ token = Hash(head, source, offset).token
    OBVIOUS
<1>3. token.kind = kind /\ token.text = <<head>>
    <2>1. token = finish_token(kind, <<head>>, IF source = <<>> THEN <<>> ELSE Tail(source), peek, offset).token
        BY <1>2 DEF Hash
    <2>2. QED
        BY <2>1, FinishedToken
<1>4. kind = IF source = <<>> \/ is_whitespace(source[1]) \/ source[1] = ")" THEN "LENGTH" ELSE "HASHFN"
    BY <1>1, <1>2
<1>5. ReadOff(head, source, 0, token.kind)
    BY <1>3, <1>4 DEF ReadOff, IsHash
<1>6. 0 \in 0..Len(source) /\ <<head>> = <<head>> \o SubSeq(source, 1, 0)
    BY <1>1, FirstPart
<1>7. QED
    BY <1>2, <1>3, <1>5, <1>6 DEF Was

LEMMA BoundWas ==
    ASSUME NEW head, NEW source, NEW offset, IsText(source), kind_by_char(head) = "Bound"
    PROVE  Was(Bound(head, source, offset).token, head, source)
<1>1. Len(source) \in Nat
    BY SeqFacts DEF IsText
<1>2. PICK kind, token :
          /\ kind = CASE head = "(" -> "L_PAREN" [] head = ")" -> "R_PAREN"
                      [] head = "," -> "COMMA" [] head = "backtick" -> "BACKTICK"
          /\ token = Bound(head, source, offset).token
    OBVIOUS
<1>3. token.kind = kind /\ token.text = <<head>> \o SubSeq(source, 1, 0)
    <2>1. token = Take(<<head>>, source, 0, kind, offset).token
        BY <1>2 DEF Bound
    <2>2. token.kind = kind /\ token.text = Upto(<<head>>, source, 0)
        BY <2>1, TakenToken
    <2>3. QED
        BY <2>2 DEF Upto
<1>4. ReadOff(head, source, 0, token.kind)
    BY <1>2, <1>3 DEF ReadOff, IsBound
<1>5. QED
    <2>1. 0 \in 0..Len(source)
        BY <1>1
    <2>2. QED
        BY <1>2, <1>3, <1>4, <2>1 DEF Was

LEMMA SpaceWas ==
    ASSUME NEW head, NEW source, NEW offset, IsText(source), kind_by_char(head) = "Whitespace"
    PROVE  Was(Whitespace(head, source, offset).token, head, source)
<1>1. PICK n, word, token :
          /\ n = Leading(source, is_whitespace) /\ word = <<head>> \o SubSeq(source, 1, n)
          /\ token = Whitespace(head, source, offset).token
    OBVIOUS
<1>2. /\ n \in 0..Len(source) /\ \A i \in 1..n : is_whitespace(source[i])
      /\ n < Len(source) => ~is_whitespace(source[n + 1])
    BY <1>1, LeadingFacts
<1>3. token = finish_token("WHITESPACE", word, SubSeq(source, n + 2, Len(source)),
                           IF n < Len(source) THEN source[n + 1] ELSE None, offset).token
    BY <1>1 DEF Whitespace, Scan
<1>4. token.kind = "WHITESPACE" /\ token.text = word
    BY <1>3, FinishedToken
<1>5. ReadOff(head, source, n, token.kind)
    BY <1>2, <1>4 DEF ReadOff, IsSpace
<1>6. QED
    BY <1>1, <1>2, <1>4, <1>5 DEF Was

\* A closing quote is in the text.
LEMMA ClosingsIn ==
    ASSUME NEW source, IsText(source)
    PROVE  /\ Closings(source) \in SUBSET (1..Len(source))
           /\ Closings(source) # {} => Min(Closings(source)) \in Closings(source)
                                   /\ Min(Closings(source)) \in 0..Len(source)
<1>1. DOMAIN source = 1..Len(source) /\ Len(source) \in Nat
    BY SeqFacts DEF IsText
<1>2. Closings(source) \in SUBSET (1..Len(source)) /\ Closings(source) \in SUBSET Nat
    BY <1>1 DEF Closings
<1>3. Closings(source) # {} => Min(Closings(source)) \in Closings(source)
    BY <1>2, MinIn
<1>4. QED
    BY <1>1, <1>2, <1>3

LEMMA StringWas ==
    ASSUME NEW head, NEW source, NEW offset, IsText(source), kind_by_char(head) = "QuoteString"
    PROVE  Was(QuoteString(head, source, offset).token, head, source)
<1>1. Len(source) \in Nat
    BY SeqFacts DEF IsText
<1>2. PICK token, ends : token = QuoteString(head, source, offset).token /\ ends = Closings(source)
    OBVIOUS
<1>3. token = (IF ends = {} THEN Take(<<head>>, source, Len(source), "ERROR", offset)
               ELSE Take(<<head>>, source, Min(ends), "QUOTE_STRING", offset)).token
    BY <1>2 DEF QuoteString, Closings, Backslashes
<1>4. CASE ends = {}
    <2>1. token.kind = "ERROR" /\ token.text = <<head>> \o SubSeq(source, 1, Len(source))
        <3>1. PICK kind, n : kind = "ERROR" /\ n = Len(source)
            OBVIOUS
        <3>2. token = Take(<<head>>, source, n, kind, offset).token
            BY <1>3, <1>4, <3>1
        <3>3. token.kind = kind /\ token.text = Upto(<<head>>, source, n)
            BY <3>2, TakenToken
        <3>4. QED
            BY <3>1, <3>3 DEF Upto
    <2>2. ReadOff(head, source, Len(source), token.kind)
        BY <1>2, <1>4, <2>1 DEF ReadOff, IsString
    <2>3. QED
        BY <1>1, <1>2, <2>1, <2>2 DEF Was
<1>5. CASE ends # {}
    <2>1. token.kind = "QUOTE_STRING" /\ token.text = <<head>> \o SubSeq(source, 1, Min(ends))
        <3>1. PICK kind, n : kind = "QUOTE_STRING" /\ n = Min(ends)
            OBVIOUS
        <3>2. token = Take(<<head>>, source, n, kind, offset).token
            BY <1>3, <1>5, <3>1
        <3>3. token.kind = kind /\ token.text = Upto(<<head>>, source, n)
            BY <3>2, TakenToken
        <3>4. QED
            BY <3>1, <3>3 DEF Upto
    <2>2. ReadOff(head, source, Min(ends), token.kind)
        BY <1>2, <1>5, <2>1 DEF ReadOff, IsString
    <2>3. Min(ends) \in 0..Len(source)
        BY <1>2, <1>5, ClosingsIn
    <2>4. QED
        BY <1>2, <2>1, <2>2, <2>3 DEF Was
<1>6. QED
    BY <1>4, <1>5

LEMMA CommentWas ==
    ASSUME NEW head, NEW source, NEW offset, IsText(source), kind_by_char(head) = "Comment"
    PROVE  Was(Comment(head, source, offset).token, head, source)
<1>1. Len(source) \in Nat
    BY SeqFacts DEF IsText
<1>2. PICK m, token : /\ m = Leading(source, LAMBDA c : c \notin {"newline", "return"})
                      /\ token = Comment(head, source, offset).token
    OBVIOUS
<1>3. /\ m \in 0..Len(source) /\ \A i \in 1..m : source[i] \notin Breaks
      /\ m < Len(source) => source[m + 1] \in Breaks
    BY <1>2, LeadingFacts
<1>4. PICK n : n = IF m = Len(source) THEN m
                   ELSE IF source[m + 1] = "return" /\ m + 2 <= Len(source) /\ source[m + 2] = "newline"
                   THEN m + 2 ELSE m + 1
    OBVIOUS
<1>5. n \in 0..Len(source)
    BY <1>1, <1>3, <1>4
<1>9. PICK kind : kind = "COMMENT"
    OBVIOUS
<1>6. token.kind = "COMMENT" /\ token.text = <<head>> \o SubSeq(source, 1, n)
    <2>1. CASE m = Len(source)
        <3>1. token = Take(<<head>>, source, n, kind, offset).token
            BY <1>2, <1>4, <1>9, <2>1 DEF Comment
        <3>2. token.kind = kind /\ token.text = Upto(<<head>>, source, n)
            BY <3>1, TakenToken
        <3>3. QED
            BY <1>9, <3>2 DEF Upto
    <2>2. CASE m # Len(source)
        <3>1. m < Len(source)
            BY <1>1, <1>3, <2>2
        <3>2. PICK next : next = IF m + 2 <= Len(source) THEN source[m + 2] ELSE None
            OBVIOUS
        <3>3. next = "newline" <=> m + 2 <= Len(source) /\ source[m + 2] = "newline"
            BY <3>2, LexerAssumption
        <3>4. CASE source[m + 1] = "return" /\ next = "newline"
            <4>1. n = m + 2
                BY <1>4, <2>2, <3>3, <3>4
            <4>2. token = Take(<<head>>, source, n, kind, offset).token
                BY <1>2, <2>2, <3>1, <3>2, <3>4, <4>1, <1>9 DEF Comment
            <4>3. token.kind = kind /\ token.text = Upto(<<head>>, source, n)
                BY <4>2, TakenToken
            <4>4. QED
                BY <1>9, <4>3 DEF Upto
        <3>5. CASE source[m + 1] = "return" /\ next # "newline"
            <4>1. n = m + 1
                BY <1>4, <2>2, <3>3, <3>5
            <4>2. PICK word : word = <<head>> \o SubSeq(source, 1, n)
                OBVIOUS
            <4>3. token = finish_token("COMMENT", word, SubSeq(source, m + 3, Len(source)), next, offset).token
                BY <1>2, <2>2, <3>1, <3>2, <3>5, <4>1, <4>2 DEF Comment
            <4>4. token.kind = "COMMENT" /\ token.text = word
                BY <4>3, FinishedToken
            <4>5. QED
                BY <4>2, <4>4
        <3>6. CASE source[m + 1] # "return"
            <4>1. n = m + 1
                BY <1>4, <2>2, <3>6
            <4>2. token = Take(<<head>>, source, n, kind, offset).token
                BY <1>2, <2>2, <3>1, <3>6, <4>1, <1>9 DEF Comment
            <4>3. token.kind = kind /\ token.text = Upto(<<head>>, source, n)
                BY <4>2, TakenToken
            <4>4. QED
                BY <1>9, <4>3 DEF Upto
        <3>7. QED
            BY <3>4, <3>5, <3>6
    <2>3. QED
        BY <2>1, <2>2
<1>7. ReadOff(head, source, n, token.kind)
    BY <1>3, <1>4, <1>6 DEF ReadOff, IsComment
<1>8. QED
    BY <1>2, <1>5, <1>6, <1>7 DEF Was

\* What the next token is of what a lexer has still to read.
Begins(rest, token) ==
    IF rest = <<>> THEN token.kind = "END" /\ token.text = <<>>
    ELSE Was(token, rest[1], Tail(rest))

LEMMA NextBegins ==
    ASSUME NEW l, Ready(l)
    PROVE  Begins(Rest(l), next_token(l).token)
<1>1. CASE AtEnd(l)
    <2>1. Rest(l) = <<>>
        <3>1. <<>> \o <<>> = <<>>
            BY SmallTexts, NothingJoins DEF IsText
        <3>2. QED
            BY <1>1, <3>1 DEF AtEnd, Rest
    <2>2. next_token(l).token = finish_token("END", <<>>, <<>>, None, l.offset).token
        BY <1>1 DEF next_token
    <2>3. QED
        BY <2>1, <2>2, FinishedToken DEF Begins
<1>2. CASE ~AtEnd(l)
    <2>1. PICK head, source, kind :
              /\ head = IF l.peek # None THEN l.peek ELSE l.source[1]
              /\ source = IF l.peek # None THEN l.source ELSE Tail(l.source)
              /\ kind = kind_by_char(head)
        OBVIOUS
    <2>2. head # None /\ IsText(source) /\ <<head>> \o source = Rest(l)
        <3>1. CASE l.peek # None
            BY <2>1, <3>1 DEF Ready, Rest
        <3>2. CASE l.peek = None
            <4>1. l.source # <<>>
                BY <1>2, <3>2 DEF AtEnd
            <4>2. l.source[1] # None /\ IsText(Tail(l.source))
                  /\ <<l.source[1]>> \o Tail(l.source) = l.source
                BY <4>1, HeadJoins DEF Ready
            <4>3. Rest(l) = l.source
                <5>1. Rest(l) = <<>> \o l.source
                    BY <3>2 DEF Rest
                <5>2. QED
                    BY <5>1, NothingJoins DEF Ready, IsText
            <4>4. QED
                BY <2>1, <3>2, <4>2, <4>3
        <3>3. QED
            BY <3>1, <3>2
    <2>3. PICK rest : rest = Rest(l)
        OBVIOUS
    <2>4. rest # <<>> /\ rest[1] = head /\ Tail(rest) = source
        <3>1. PICK one : one = <<head>>
            OBVIOUS
        <3>2. IsSeq(one) /\ Len(one) = 1 /\ one[1] = head /\ IsSeq(source)
            BY <2>2, <3>1, Tuples DEF IsText
        <3>3. Len(source) \in Nat
            BY <3>2, SeqFacts
        <3>4. rest = one \o source
            BY <2>2, <2>3, <3>1
        <3>5. /\ IsSeq(rest) /\ Len(rest) = Len(one) + Len(source)
              /\ \A i \in 1..Len(one) : rest[i] = one[i]
              /\ \A i \in 1..Len(source) : rest[Len(one) + i] = source[i]
            <4>1. IsSeq(one) /\ IsSeq(source)
                BY <3>2
            <4>2. QED
                BY <3>4, <4>1, ConcatFacts
        <3>6. Len(rest) # 0 /\ rest[1] = head /\ Len(rest) - 1 = Len(source)
            BY <3>2, <3>3, <3>5
        <3>7. rest # <<>> /\ IsSeq(Tail(rest)) /\ Len(Tail(rest)) = Len(rest) - 1
              /\ \A i \in 1..(Len(rest) - 1) : Tail(rest)[i] = rest[i + 1]
            BY <3>5, <3>6, SeqFacts
        <3>8. \A i \in 1..Len(Tail(rest)) : Tail(rest)[i] = source[i]
            <4>1. \A i \in 1..Len(source) : i + 1 = Len(one) + i
                BY <3>2, <3>3
            <4>2. QED
                BY <3>5, <3>6, <3>7, <4>1
        <3>9. Tail(rest) = source
            BY <3>2, <3>6, <3>7, <3>8, SameSequences
        <3>10. QED
            BY <3>6, <3>7, <3>9
    <2>5. Was(next_token(l).token, head, source)
        <3>1. next_token(l) =
                  IF kind = "Word" THEN Word(head, source, l.offset)
                  ELSE IF kind = "Hash" THEN Hash(head, source, l.offset)
                  ELSE IF kind = "QuoteString" THEN QuoteString(head, source, l.offset)
                  ELSE IF kind = "Comment" THEN Comment(head, source, l.offset)
                  ELSE IF kind = "Whitespace" THEN Whitespace(head, source, l.offset)
                  ELSE Bound(head, source, l.offset)
            BY <1>2, <2>1 DEF next_token
        <3>2. kind \in {"Whitespace", "Comment", "QuoteString", "Hash", "Bound", "Word"}
            BY <2>1, KindsOfChars
        <3>3. CASE kind = "Word"
            BY <2>1, <2>2, <3>1, <3>3, WordWas
        <3>4. CASE kind = "Hash"
            BY <2>1, <2>2, <3>1, <3>4, HashWas
        <3>5. CASE kind = "QuoteString"
            BY <2>1, <2>2, <3>1, <3>5, StringWas
        <3>6. CASE kind = "Comment"
            BY <2>1, <2>2, <3>1, <3>6, CommentWas
        <3>7. CASE kind = "Whitespace"
            BY <2>1, <2>2, <3>1, <3>7, SpaceWas
        <3>8. CASE kind = "Bound"
            BY <2>1, <2>2, <3>1, <3>8, BoundWas
        <3>9. QED
            BY <3>2, <3>3, <3>4, <3>5, <3>6, <3>7, <3>8
    <2>6. QED
        BY <2>3, <2>4, <2>5 DEF Begins
<1>3. QED
    BY <1>1, <1>2

-----------------------------------------------------------------------------
(* What is behind a token *)

\* The least is least.
LEMMA MinLeast ==
    ASSUME NEW S \in SUBSET Nat, NEW x \in S
    PROVE  Min(S) <= x
<1>1. \E y \in S : \A z \in S : y <= z
    BY LeastExists
<1>2. \E y \in S : \A z \in S : y =< z
    BY <1>1
<1>3. QED
    BY <1>2 DEF Min

\* A text is read in one way.
LEMMA ReadOnce ==
    ASSUME NEW head, NEW source, IsText(source), NEW n \in 0..Len(source), NEW m \in 0..Len(source),
           NEW kind, NEW other, ReadOff(head, source, n, kind), ReadOff(head, source, m, other)
    PROVE  n = m /\ kind = other
<1>1. Len(source) \in Nat /\ n \in Nat /\ m \in Nat
    BY SeqFacts DEF IsText
<1>2. n < m \/ n = m \/ m < n
    BY <1>1
<1>3. n < m => n < Len(source) /\ n + 1 \in 1..m /\ (n >= 1 => n + 1 \in 2..m)
    BY <1>1
<1>4. m < n => m < Len(source) /\ m + 1 \in 1..n /\ (m >= 1 => m + 1 \in 2..n)
    BY <1>1
<1>5. CASE IsDashed(head, source, n, kind)
    <2>1. IsDashed(head, source, m, other)
        BY <1>5 DEF ReadOff, IsDashed, IsWord, IsHash, IsString, IsComment, IsSpace, IsBound
    <2>2. kind = other
        BY <1>5, <2>1 DEF IsDashed
    <2>3. ~(n < m)
        BY <1>3, <1>5, <2>1 DEF IsDashed
    <2>4. ~(m < n)
        BY <1>4, <1>5, <2>1 DEF IsDashed
    <2>5. QED
        BY <1>2, <2>2, <2>3, <2>4
<1>6. CASE IsWord(head, source, n, kind)
    <2>1. IsWord(head, source, m, other)
        BY <1>6 DEF ReadOff, IsDashed, IsWord, IsHash, IsString, IsComment, IsSpace, IsBound
    <2>2. ~(n < m)
        BY <1>3, <1>6, <2>1 DEF IsWord
    <2>3. ~(m < n)
        BY <1>4, <1>6, <2>1 DEF IsWord
    <2>4. n = m
        BY <1>2, <2>2, <2>3
    <2>5. QED
        BY <1>6, <2>1, <2>4 DEF IsWord
<1>7. CASE IsHash(head, source, n, kind)
    <2>1. IsHash(head, source, m, other)
        BY <1>7 DEF ReadOff, IsDashed, IsWord, IsHash, IsString, IsComment, IsSpace, IsBound
    <2>2. QED
        BY <1>7, <2>1 DEF IsHash
<1>8. CASE IsString(head, source, n, kind)
    <2>1. IsString(head, source, m, other)
        BY <1>8 DEF ReadOff, IsDashed, IsWord, IsHash, IsString, IsComment, IsSpace, IsBound
    <2>2. QED
        BY <1>8, <2>1 DEF IsString
<1>9. CASE IsComment(head, source, n, kind)
    <2>1. IsComment(head, source, m, other)
        BY <1>9 DEF ReadOff, IsDashed, IsWord, IsHash, IsString, IsComment, IsSpace, IsBound
    <2>2. PICK a \in 0..Len(source) :
              /\ \A i \in 1..a : source[i] \notin Breaks
              /\ a < Len(source) => source[a + 1] \in Breaks
              /\ n = IF a = Len(source) THEN a
                     ELSE IF source[a + 1] = "return" /\ a + 2 <= Len(source) /\ source[a + 2] = "newline"
                     THEN a + 2 ELSE a + 1
        BY <1>9 DEF IsComment
    <2>3. PICK b \in 0..Len(source) :
              /\ \A i \in 1..b : source[i] \notin Breaks
              /\ b < Len(source) => source[b + 1] \in Breaks
              /\ m = IF b = Len(source) THEN b
                     ELSE IF source[b + 1] = "return" /\ b + 2 <= Len(source) /\ source[b + 2] = "newline"
                     THEN b + 2 ELSE b + 1
        BY <2>1 DEF IsComment
    <2>4. ~(a < b)
        <3>1. a < b => a < Len(source) /\ a + 1 \in 1..b
            BY <1>1
        <3>2. QED
            BY <2>2, <2>3, <3>1
    <2>5. ~(b < a)
        <3>1. b < a => b < Len(source) /\ b + 1 \in 1..a
            BY <1>1
        <3>2. QED
            BY <2>2, <2>3, <3>1
    <2>6. a = b
        BY <1>1, <2>4, <2>5
    <2>7. n = m
        BY <2>2, <2>3, <2>6
    <2>8. QED
        BY <1>9, <2>1, <2>7 DEF IsComment
<1>10. CASE IsSpace(head, source, n, kind)
    <2>1. IsSpace(head, source, m, other)
        BY <1>10 DEF ReadOff, IsDashed, IsWord, IsHash, IsString, IsComment, IsSpace, IsBound
    <2>2. ~(n < m)
        BY <1>3, <1>10, <2>1 DEF IsSpace
    <2>3. ~(m < n)
        BY <1>4, <1>10, <2>1 DEF IsSpace
    <2>4. QED
        BY <1>2, <1>10, <2>1, <2>2, <2>3 DEF IsSpace
<1>11. CASE IsBound(head, source, n, kind)
    <2>1. IsBound(head, source, m, other)
        BY <1>11 DEF ReadOff, IsDashed, IsWord, IsHash, IsString, IsComment, IsSpace, IsBound
    <2>2. QED
        BY <1>11, <2>1 DEF IsBound
<1>12. QED
    BY <1>5, <1>6, <1>7, <1>8, <1>9, <1>10, <1>11 DEF ReadOff

\* Two characters that no lexer tells apart when it looks at what is next.
AlikeChars(c, d) == c = d \/ (kind_by_char(c) = "Word" /\ kind_by_char(d) = "Word")

LEMMA AlikeFacts ==
    ASSUME NEW c, NEW d, AlikeChars(c, d)
    PROVE  /\ c \in Breaks <=> d \in Breaks
           /\ InWord(c) <=> InWord(d)
           /\ is_whitespace(c) <=> is_whitespace(d)
           /\ c = ")" <=> d = ")"
           /\ c = "newline" <=> d = "newline"
<1>1. CASE c = d
    BY <1>1
<1>2. CASE kind_by_char(c) = "Word" /\ kind_by_char(d) = "Word"
    <2>1. c \notin Breaks /\ d \notin Breaks /\ ~is_whitespace(c) /\ ~is_whitespace(d) /\ c # ")" /\ d # ")"
        BY <1>2, KindsOfChars
    <2>2. QED
        BY <1>2, <2>1 DEF InWord, Breaks
<1>3. QED
    BY <1>1, <1>2 DEF AlikeChars

\* What is read depends on the characters read and on the next one alone.
LEMMA ReadLocally ==
    ASSUME NEW head, NEW s, NEW t, IsText(s), IsText(t), NEW n \in Nat, NEW kind,
           n < Len(s), n < Len(t), \A i \in 1..n : s[i] = t[i], AlikeChars(s[n + 1], t[n + 1]),
           ReadOff(head, s, n, kind)
    PROVE  ReadOff(head, t, n, kind)
<1>1. /\ Len(s) \in Nat /\ Len(t) \in Nat /\ IsSeq(s) /\ IsSeq(t)
      /\ DOMAIN s = 1..Len(s) /\ DOMAIN t = 1..Len(t)
    BY SeqFacts DEF IsText
<1>2. s # <<>> /\ t # <<>> /\ n # Len(s) /\ n # Len(t)
    <2>1. Len(s) # 0 /\ Len(t) # 0 /\ n # Len(s) /\ n # Len(t)
        <3>1. PICK a, b : a = Len(s) /\ b = Len(t)
            OBVIOUS
        <3>2. a \in Nat /\ b \in Nat /\ n < a /\ n < b
            BY <1>1, <3>1
        <3>3. a # 0 /\ b # 0 /\ n # a /\ n # b
            BY <3>2
        <3>4. QED
            BY <3>1, <3>3
    <2>2. QED
        BY <1>1, <2>1, SeqFacts
<1>3. PICK c, d : c = s[n + 1] /\ d = t[n + 1]
    OBVIOUS
<1>4. /\ c \in Breaks <=> d \in Breaks
      /\ InWord(c) <=> InWord(d)
      /\ is_whitespace(c) <=> is_whitespace(d)
      /\ c = ")" <=> d = ")"
      /\ c = "newline" <=> d = "newline"
    BY <1>3, AlikeFacts
<1>5. n # 0 => s[1] = t[1]
    BY <1>1
<1>6. n = 0 => c = s[1] /\ d = t[1]
    BY <1>1, <1>3
<1>7. CASE IsDashed(head, s, n, kind)
    <2>1. DashedBy(head, t)
        BY <1>2, <1>5, <1>7 DEF IsDashed, DashedBy
    <2>2. \A i \in 2..n : t[i] \notin Breaks
        <3>1. \A i \in 2..n : i \in 1..n
            BY <1>1
        <3>2. QED
            BY <1>7, <3>1 DEF IsDashed
    <2>3. t[n + 1] \in Breaks
        BY <1>3, <1>4, <1>7 DEF IsDashed
    <2>4. QED
        BY <1>7, <2>1, <2>2, <2>3 DEF ReadOff, IsDashed
<1>8. CASE IsWord(head, s, n, kind)
    <2>1. ~InWord(t[n + 1])
        BY <1>3, <1>4, <1>8 DEF IsWord
    <2>2. ~DashedBy(head, t)
        <3>1. CASE n = 0
            <4>1. InWord("-")
                BY KindsOfChars DEF InWord
            <4>2. t[1] # "-"
                BY <1>3, <1>6, <2>1, <3>1, <4>1
            <4>3. QED
                BY <4>2 DEF DashedBy
        <3>2. CASE n # 0
            BY <1>2, <1>5, <1>8, <3>2 DEF IsWord, DashedBy
        <3>3. QED
            BY <3>1, <3>2
    <2>3. SubSeq(s, 1, n) = SubSeq(t, 1, n)
        <3>1. PICK S, T : s \in Seq(S) /\ t \in Seq(T)
            BY <1>1 DEF IsSeq
        <3>2. \A i \in 1..n : i \in 1..Len(s) /\ i \in 1..Len(t)
            BY <1>1
        <3>3. \A i \in 1..n : s[i] \in S /\ t[i] \in T
            BY <3>1, <3>2, ElementOfSeq
        <3>4. /\ SubSeq(s, 1, n) \in Seq(S) /\ Len(SubSeq(s, 1, n)) = n
              /\ \A i \in 1..n : SubSeq(s, 1, n)[i] = s[i]
            BY <3>3, SubSeqProperties
        <3>5. /\ SubSeq(t, 1, n) \in Seq(T) /\ Len(SubSeq(t, 1, n)) = n
              /\ \A i \in 1..n : SubSeq(t, 1, n)[i] = t[i]
            BY <3>3, SubSeqProperties
        <3>6. PICK u, v : u = SubSeq(s, 1, n) /\ v = SubSeq(t, 1, n)
            OBVIOUS
        <3>7. IsSeq(u) /\ IsSeq(v) /\ Len(u) = Len(v) /\ \A i \in 1..Len(u) : u[i] = v[i]
            BY <3>4, <3>5, <3>6 DEF IsSeq
        <3>8. u = v
            BY <3>7, SameSequences
        <3>9. QED
            BY <3>6, <3>8
    <2>4. \A i \in 1..n : InWord(t[i])
        BY <1>8 DEF IsWord
    <2>5. kind = WordKind(<<head>> \o SubSeq(t, 1, n)) /\ kind_by_char(head) = "Word"
        BY <1>8, <2>3 DEF IsWord
    <2>6. IsWord(head, t, n, kind)
        BY <2>1, <2>2, <2>4, <2>5 DEF IsWord
    <2>7. QED
        BY <2>6 DEF ReadOff
<1>9. CASE IsHash(head, s, n, kind)
    BY <1>2, <1>3, <1>4, <1>6, <1>9 DEF ReadOff, IsHash
<1>10. CASE IsString(head, s, n, kind)
    <2>1. Closings(s) # {} /\ n = Min(Closings(s)) /\ kind = "QUOTE_STRING" /\ kind_by_char(head) = "QuoteString"
        BY <1>2, <1>10 DEF IsString
    <2>2. ASSUME NEW i \in 1..n PROVE i \in Closings(s) <=> i \in Closings(t)
        <3>1. \A k \in 0..(i - 1) : \A j \in (i - k)..(i - 1) : j \in 1..n
            BY <1>1
        <3>2. {k \in 0..(i - 1) : \A j \in (i - k)..(i - 1) : s[j] = "backslash"}
                  = {k \in 0..(i - 1) : \A j \in (i - k)..(i - 1) : t[j] = "backslash"}
            BY <3>1
        <3>3. Backslashes(s, i) = Backslashes(t, i)
            BY <3>2 DEF Backslashes
        <3>4. i \in DOMAIN s /\ i \in DOMAIN t /\ s[i] = t[i]
            BY <1>1
        <3>5. QED
            BY <3>3, <3>4 DEF Closings
    <2>3. n \in Closings(s) /\ n \in 1..n
        <3>1. n \in Closings(s)
            BY <2>1, ClosingsIn
        <3>2. n \in 1..Len(s)
            BY <3>1, ClosingsIn
        <3>3. QED
            BY <1>1, <3>1, <3>2
    <2>4. n \in Closings(t) /\ Closings(t) # {}
        BY <2>2, <2>3
    <2>5. PICK least : least = Min(Closings(t))
        OBVIOUS
    <2>6. least \in Closings(t) /\ least \in 1..Len(t)
        BY <2>4, <2>5, ClosingsIn
    <2>7. least <= n
        <3>1. Closings(t) \in SUBSET Nat
            <4>1. Closings(t) \in SUBSET (1..Len(t))
                BY ClosingsIn
            <4>2. QED
                BY <4>1
        <3>2. QED
            BY <2>4, <2>5, <3>1, MinLeast
    <2>8. n <= least
        <3>1. least \in 1..n
            BY <1>1, <2>6, <2>7
        <3>2. least \in Closings(s)
            BY <2>2, <2>6, <3>1
        <3>3. Closings(s) \in SUBSET Nat
            <4>1. Closings(s) \in SUBSET (1..Len(s))
                BY ClosingsIn
            <4>2. QED
                BY <4>1
        <3>4. QED
            BY <2>1, <3>2, <3>3, MinLeast
    <2>9. n = least
        BY <1>1, <2>6, <2>7, <2>8
    <2>10. QED
        BY <2>1, <2>4, <2>5, <2>9 DEF ReadOff, IsString
<1>11. CASE IsComment(head, s, n, kind)
    <2>1. PICK m \in 0..Len(s) :
              /\ \A i \in 1..m : s[i] \notin Breaks
              /\ m < Len(s) => s[m + 1] \in Breaks
              /\ n = IF m = Len(s) THEN m
                     ELSE IF s[m + 1] = "return" /\ m + 2 <= Len(s) /\ s[m + 2] = "newline"
                     THEN m + 2 ELSE m + 1
        BY <1>11 DEF IsComment
    <2>2. m # Len(s) /\ n \in {m + 1, m + 2}
        BY <1>2, <2>1
    <2>3. /\ m < Len(s) /\ m \in 0..Len(t) /\ m # Len(t) /\ m < Len(t) /\ m + 1 \in 1..n
          /\ \A i \in 1..m : i \in 1..n
        <3>1. PICK a, b : a = Len(s) /\ b = Len(t)
            OBVIOUS
        <3>2. a \in Nat /\ b \in Nat /\ n < a /\ n < b /\ m \in 0..a /\ m # a
            BY <1>1, <2>2, <3>1
        <3>3. m < a /\ m \in 0..b /\ m # b /\ m < b /\ m + 1 \in 1..n /\ \A i \in 1..m : i \in 1..n
            BY <2>2, <3>2
        <3>4. QED
            BY <3>1, <3>3
    <2>4. t[m + 1] = s[m + 1] /\ \A i \in 1..m : t[i] \notin Breaks
        BY <2>1, <2>3
    <2>5. n = IF t[m + 1] = "return" /\ m + 2 <= Len(t) /\ t[m + 2] = "newline" THEN m + 2 ELSE m + 1
        <3>1. CASE n = m + 2
            <4>1. m + 2 \in 1..n /\ m + 2 <= Len(s) /\ m + 2 <= Len(t) /\ n # m + 1
                <5>1. PICK a, b : a = Len(s) /\ b = Len(t)
                    OBVIOUS
                <5>2. a \in Nat /\ b \in Nat /\ n < a /\ n < b /\ m \in 0..a
                    BY <1>1, <5>1
                <5>3. m + 2 \in 1..n /\ m + 2 <= a /\ m + 2 <= b /\ n # m + 1
                    BY <3>1, <5>2
                <5>4. QED
                    BY <5>1, <5>3
            <4>2. t[m + 2] = s[m + 2]
                BY <4>1
            <4>3. s[m + 1] = "return" /\ s[m + 2] = "newline"
                BY <2>1, <2>2, <4>1
            <4>4. QED
                BY <2>4, <3>1, <4>1, <4>2, <4>3
        <3>2. CASE n = m + 1
            <4>1. n + 1 = m + 2 /\ m + 2 <= Len(s) /\ m + 2 <= Len(t) /\ n # m + 2
                <5>1. PICK a, b : a = Len(s) /\ b = Len(t)
                    OBVIOUS
                <5>2. a \in Nat /\ b \in Nat /\ n < a /\ n < b /\ m \in 0..a
                    BY <1>1, <5>1
                <5>3. n + 1 = m + 2 /\ m + 2 <= a /\ m + 2 <= b /\ n # m + 2
                    BY <3>2, <5>2
                <5>4. QED
                    BY <5>1, <5>3
            <4>2. ~(s[m + 1] = "return" /\ s[m + 2] = "newline")
                BY <2>1, <2>2, <4>1
            <4>3. s[m + 2] = c /\ t[m + 2] = d
                BY <1>3, <4>1
            <4>4. ~(t[m + 1] = "return" /\ t[m + 2] = "newline")
                BY <1>4, <2>4, <4>2, <4>3
            <4>5. QED
                BY <3>2, <4>4
        <3>3. QED
            BY <2>2, <3>1, <3>2
    <2>6. IsComment(head, t, n, kind)
        BY <1>11, <2>1, <2>3, <2>4, <2>5 DEF IsComment
    <2>7. QED
        BY <2>6 DEF ReadOff
<1>12. CASE IsSpace(head, s, n, kind)
    BY <1>3, <1>4, <1>12 DEF ReadOff, IsSpace
<1>13. CASE IsBound(head, s, n, kind)
    BY <1>13 DEF ReadOff, IsBound
<1>14. QED
    BY <1>7, <1>8, <1>9, <1>10, <1>11, <1>12, <1>13 DEF ReadOff

\* A text in front of another, behind its first character.
LEMMA FrontFacts ==
    ASSUME NEW word, NEW rest, IsText(word), IsText(rest), word # <<>>
    PROVE  LET q == word \o rest
           IN  /\ q # <<>> /\ IsText(q) /\ IsText(Tail(q)) /\ q[1] = word[1]
               /\ Len(Tail(q)) = Len(word) - 1 + Len(rest)
               /\ \A i \in 1..(Len(word) - 1) : Tail(q)[i] = word[i + 1]
               /\ rest # <<>> => Tail(q)[Len(word)] = rest[1]
<1>1. PICK q, m, n : q = word \o rest /\ m = Len(word) /\ n = Len(rest)
    OBVIOUS
<1>2. IsSeq(word) /\ IsSeq(rest)
    BY DEF IsText
<1>3. m \in Nat \ {0} /\ n \in Nat /\ (rest # <<>> => n # 0)
    BY <1>1, <1>2, SeqFacts
<1>4. /\ Len(q) = m + n /\ (\A i \in 1..m : q[i] = word[i])
      /\ \A i \in 1..n : q[m + i] = rest[i]
    BY <1>1, <1>2, ConcatFacts
<1>5. IsText(q) /\ IsSeq(q)
    BY <1>1, TextsJoin DEF IsText
<1>6. Len(q) # 0 /\ q[1] = word[1]
    BY <1>3, <1>4
<1>7. q # <<>>
    BY <1>5, <1>6, SeqFacts
<1>8. IsText(Tail(q))
    BY <1>5, <1>7, HeadJoins
<1>9. Len(Tail(q)) = Len(q) - 1 /\ \A i \in 1..(Len(q) - 1) : Tail(q)[i] = q[i + 1]
    BY <1>5, <1>7, SeqFacts
<1>10. ASSUME NEW i \in 1..(m - 1) PROVE Tail(q)[i] = word[i + 1]
    <2>1. i \in 1..(Len(q) - 1) /\ i + 1 \in 1..m
        BY <1>3, <1>4
    <2>2. QED
        BY <1>4, <1>9, <2>1
<1>11. ASSUME rest # <<>> PROVE Tail(q)[m] = rest[1]
    <2>1. n # 0
        BY <1>3, <1>11
    <2>2. m \in 1..(Len(q) - 1) /\ 1 \in 1..n
        BY <1>3, <1>4, <2>1
    <2>3. QED
        BY <1>4, <1>9, <2>2
<1>12. Len(Tail(q)) = m - 1 + n
    BY <1>3, <1>4, <1>9
<1>13. QED
    BY <1>1, <1>5, <1>6, <1>7, <1>8, <1>10, <1>11, <1>12

\* A character and what is behind it, character by character.
LEMMA HeadPart ==
    ASSUME NEW head, NEW s, IsText(s), NEW n \in 0..Len(s)
    PROVE  LET word == <<head>> \o SubSeq(s, 1, n)
           IN  /\ IsSeq(word) /\ Len(word) = n + 1 /\ word[1] = head
               /\ \A i \in 1..n : word[i + 1] = s[i]
<1>1. PICK one, front, word : /\ one = <<head>> /\ front = SubSeq(s, 1, n)
                              /\ word = <<head>> \o SubSeq(s, 1, n)
    OBVIOUS
<1>2. Len(s) \in Nat /\ n \in Nat /\ IsSeq(s)
    BY SeqFacts DEF IsText
<1>3. IsSeq(one) /\ Len(one) = 1 /\ one[1] = head
    BY <1>1, Tuples
<1>4. IsSeq(front) /\ Len(front) = n /\ \A i \in 1..n : front[i] = s[i]
    <2>1. PICK S : s \in Seq(S)
        BY <1>2 DEF IsSeq
    <2>2. \A i \in 1..n : s[i] \in S
        BY <1>2, <2>1, ElementOfSeq
    <2>3. front \in Seq(S) /\ Len(front) = n /\ \A i \in 1..n : front[i] = s[i]
        BY <1>1, <1>2, <2>2, SubSeqProperties
    <2>4. QED
        BY <2>3 DEF IsSeq
<1>5. /\ IsSeq(word) /\ Len(word) = Len(one) + Len(front) /\ (\A i \in 1..Len(one) : word[i] = one[i])
      /\ \A i \in 1..Len(front) : word[Len(one) + i] = front[i]
    <2>1. IsSeq(one) /\ IsSeq(front) /\ word = one \o front
        BY <1>1, <1>3, <1>4
    <2>2. QED
        BY <2>1, ConcatFacts
<1>6. Len(word) = n + 1 /\ word[1] = head
    BY <1>2, <1>3, <1>4, <1>5
<1>7. ASSUME NEW i \in 1..n PROVE word[i + 1] = s[i]
    <2>1. i + 1 = Len(one) + i
        BY <1>3
    <2>2. QED
        BY <1>4, <1>5, <2>1
<1>8. QED
    BY <1>1, <1>5, <1>6, <1>7

\* What a token that was read off says.
LEMMA WasFacts ==
    ASSUME NEW token, NEW head, NEW source, IsText(source), Was(token, head, source)
    PROVE  \E n \in 0..Len(source) :
               /\ Len(token.text) = n + 1 /\ token.text[1] = head
               /\ \A i \in 1..n : token.text[i + 1] = source[i]
               /\ token.text = <<head>> \o SubSeq(source, 1, n)
               /\ ReadOff(head, source, n, token.kind)
<1>1. PICK n \in 0..Len(source) :
          token.text = <<head>> \o SubSeq(source, 1, n) /\ ReadOff(head, source, n, token.kind)
    BY DEF Was
<1>2. PICK word : word = <<head>> \o SubSeq(source, 1, n)
    OBVIOUS
<1>3. IsSeq(word) /\ Len(word) = n + 1 /\ word[1] = head /\ \A i \in 1..n : word[i + 1] = source[i]
    BY <1>2, HeadPart
<1>4. QED
    BY <1>1, <1>2, <1>3

\* A token that is the front of a text and was read off it is no longer what it is
\* than its own length.
LEMMA BeginsFacts ==
    ASSUME NEW token, NEW rest, IsText(token.text), IsText(rest), token.text # <<>>,
           NEW q, q = token.text \o rest, Begins(q, token)
    PROVE  LET n == Len(token.text) - 1
           IN  n \in Nat /\ n \in 0..Len(Tail(q)) /\ ReadOff(q[1], Tail(q), n, token.kind)
<1>1. IsText(Tail(q)) /\ q # <<>>
    BY FrontFacts
<1>2. Was(token, q[1], Tail(q))
    BY <1>1 DEF Begins
<1>3. PICK n \in 0..Len(Tail(q)) : Len(token.text) = n + 1 /\ ReadOff(q[1], Tail(q), n, token.kind)
    BY <1>1, <1>2, WasFacts
<1>4. Len(Tail(q)) \in Nat
    BY <1>1, SeqFacts DEF IsText
<1>5. n \in Nat /\ Len(token.text) - 1 = n
    BY <1>3, <1>4
<1>6. QED
    BY <1>3, <1>5

\* And the other way round.
LEMMA BeginsWhen ==
    ASSUME NEW token, NEW rest, IsText(token.text), IsText(rest), token.text # <<>>,
           NEW q, q = token.text \o rest,
           ReadOff(q[1], Tail(q), Len(token.text) - 1, token.kind)
    PROVE  Begins(q, token)
<1>1. PICK word, n, s : word = token.text /\ n = Len(word) - 1 /\ s = Tail(q)
    OBVIOUS
<1>2. /\ IsText(s) /\ q # <<>> /\ q[1] = word[1] /\ Len(s) = Len(word) - 1 + Len(rest)
      /\ \A i \in 1..(Len(word) - 1) : s[i] = word[i + 1]
    BY <1>1, FrontFacts
<1>3. Len(word) \in Nat \ {0} /\ Len(rest) \in Nat /\ IsSeq(word)
    BY <1>1, SeqFacts DEF IsText
<1>4. n \in 0..Len(s) /\ Len(word) = n + 1 /\ n \in Nat
    BY <1>1, <1>2, <1>3
<1>5. PICK other : other = <<q[1]>> \o SubSeq(s, 1, n)
    OBVIOUS
<1>6. IsSeq(other) /\ Len(other) = n + 1 /\ other[1] = q[1] /\ \A i \in 1..n : other[i + 1] = s[i]
    BY <1>2, <1>4, <1>5, HeadPart
<1>7. ASSUME NEW i \in 1..(n + 1) PROVE other[i] = word[i]
    <2>1. CASE i = 1
        BY <1>2, <1>6, <2>1
    <2>2. CASE i # 1
        <3>1. PICK k : k = i - 1
            OBVIOUS
        <3>2. k \in 1..n /\ i = k + 1 /\ k \in 1..(Len(word) - 1)
            BY <1>4, <2>2, <3>1
        <3>3. QED
            BY <1>2, <1>6, <3>2
    <2>3. QED
        BY <2>1, <2>2
<1>8. Len(other) = Len(word)
    BY <1>4, <1>6
<1>9. other = word
    BY <1>3, <1>4, <1>6, <1>7, <1>8, SameSequences
<1>10. Was(token, q[1], s)
    BY <1>1, <1>4, <1>5, <1>9 DEF Was
<1>11. QED
    BY <1>1, <1>2, <1>10 DEF Begins

\* What is behind a token's next character makes no difference to it, nor which
\* character of a word that is.
LEMMA BeginsLocally ==
    ASSUME NEW token, NEW rest, NEW other, IsText(token.text), token.text # <<>>,
           IsText(rest), IsText(other), rest # <<>>, other # <<>>, AlikeChars(rest[1], other[1]),
           Begins(token.text \o rest, token)
    PROVE  Begins(token.text \o other, token)
<1>1. PICK word, q, p, n : /\ word = token.text /\ q = word \o rest /\ p = word \o other
                           /\ n = Len(word) - 1
    OBVIOUS
<1>2. PICK s, t : s = Tail(q) /\ t = Tail(p)
    OBVIOUS
<1>3. /\ IsText(s) /\ q[1] = word[1] /\ Len(s) = Len(word) - 1 + Len(rest)
      /\ (\A i \in 1..(Len(word) - 1) : s[i] = word[i + 1]) /\ s[Len(word)] = rest[1]
    BY <1>1, <1>2, FrontFacts
<1>4. /\ IsText(t) /\ p[1] = word[1] /\ Len(t) = Len(word) - 1 + Len(other)
      /\ (\A i \in 1..(Len(word) - 1) : t[i] = word[i + 1]) /\ t[Len(word)] = other[1]
    BY <1>1, <1>2, FrontFacts
<1>5. ReadOff(q[1], s, n, token.kind)
    BY <1>1, <1>2, BeginsFacts
<1>6. Len(word) \in Nat \ {0} /\ Len(rest) \in Nat \ {0} /\ Len(other) \in Nat \ {0}
    BY <1>1, SeqFacts DEF IsText
<1>7. n \in Nat /\ n + 1 = Len(word) /\ n < Len(s) /\ n < Len(t)
    BY <1>1, <1>3, <1>4, <1>6
<1>8. \A i \in 1..n : s[i] = t[i]
    BY <1>1, <1>3, <1>4
<1>9. AlikeChars(s[n + 1], t[n + 1])
    BY <1>3, <1>4, <1>7
<1>10. ReadOff(q[1], t, n, token.kind)
    BY <1>3, <1>4, <1>5, <1>7, <1>8, <1>9, ReadLocally
<1>11. ReadOff(p[1], Tail(p), Len(token.text) - 1, token.kind)
    BY <1>1, <1>2, <1>3, <1>4, <1>10
<1>12. p = token.text \o other
    BY <1>1
<1>13. Begins(p, token)
    BY <1>11, <1>12, BeginsWhen
<1>14. QED
    BY <1>12, <1>13

\* A text begins with one token only.
LEMMA BeginsOnce ==
    ASSUME NEW q, IsText(q), NEW token, NEW other, Begins(q, token), Begins(q, other)
    PROVE  token.kind = other.kind /\ token.text = other.text
<1>1. CASE q = <<>>
    BY <1>1 DEF Begins
<1>2. CASE q # <<>>
    <2>1. PICK s : s = Tail(q)
        OBVIOUS
    <2>2. IsText(s) /\ Was(token, q[1], s) /\ Was(other, q[1], s)
        BY <1>2, <2>1, HeadJoins DEF Begins
    <2>3. PICK n \in 0..Len(s) : token.text = <<q[1]>> \o SubSeq(s, 1, n) /\ ReadOff(q[1], s, n, token.kind)
        BY <2>2 DEF Was
    <2>4. PICK m \in 0..Len(s) : other.text = <<q[1]>> \o SubSeq(s, 1, m) /\ ReadOff(q[1], s, m, other.kind)
        BY <2>2 DEF Was
    <2>5. n = m /\ token.kind = other.kind
        BY <2>2, <2>3, <2>4, ReadOnce
    <2>6. QED
        BY <2>3, <2>4, <2>5
<1>3. QED
    BY <1>1, <1>2

-----------------------------------------------------------------------------
(* Names *)

\* A word that is read as a symbol.
IsName(w) ==
    /\ IsText(w) /\ w # <<>> /\ kind_by_char(w[1]) = "Word"
    /\ \A i \in 1..Len(w) : InWord(w[i])
    /\ ~(w[1] = "-" /\ Len(w) > 1 /\ w[2] = "-")
    /\ WordKind(w) = "SYMBOL"

\* Only words are symbols, and nothing that is read is the end.
LEMMA KindsRead ==
    ASSUME NEW head, NEW source, NEW n, NEW kind, ReadOff(head, source, n, kind)
    PROVE  /\ kind # "END"
           /\ kind = "SYMBOL" => IsWord(head, source, n, kind)
<1>1. IsWord(head, source, n, kind) => kind # "END"
    <2>1. \A word : WordKind(word) # "END"
        <3>1. \A word \in DOMAIN TABLE : TABLE[word] # "END"
            BY DEF TABLE
        <3>2. QED
            BY <3>1 DEF WordKind
    <2>2. QED
        BY <2>1 DEF IsWord
<1>2. IsBound(head, source, n, kind) => kind \notin {"END", "SYMBOL"}
    <2>1. IsBound(head, source, n, kind) => head \in {"(", ")", ",", "backtick"}
        BY KindsOfChars DEF IsBound
    <2>2. QED
        BY <2>1 DEF IsBound
<1>3. /\ IsDashed(head, source, n, kind) => kind \notin {"END", "SYMBOL"}
      /\ IsHash(head, source, n, kind) => kind \notin {"END", "SYMBOL"}
      /\ IsString(head, source, n, kind) => kind \notin {"END", "SYMBOL"}
      /\ IsComment(head, source, n, kind) => kind \notin {"END", "SYMBOL"}
      /\ IsSpace(head, source, n, kind) => kind \notin {"END", "SYMBOL"}
    BY DEF IsDashed, IsHash, IsString, IsComment, IsSpace
<1>4. QED
    BY <1>1, <1>2, <1>3 DEF ReadOff

\* A symbol is a name, and what is behind it is no word.
LEMMA SymbolIsName ==
    ASSUME NEW token, NEW rest, IsText(token.text), token.text # <<>>, IsText(rest),
           token.kind = "SYMBOL", Begins(token.text \o rest, token)
    PROVE  IsName(token.text) /\ (rest # <<>> => ~InWord(rest[1]))
<1>1. PICK word, q, s, n : /\ word = token.text /\ q = word \o rest /\ s = Tail(q)
                           /\ n = Len(word) - 1
    OBVIOUS
<1>2. /\ IsText(s) /\ q[1] = word[1] /\ Len(s) = Len(word) - 1 + Len(rest)
      /\ (\A i \in 1..(Len(word) - 1) : s[i] = word[i + 1]) /\ (rest # <<>> => s[Len(word)] = rest[1])
    BY <1>1, FrontFacts
<1>3. ReadOff(q[1], s, n, token.kind)
    BY <1>1, BeginsFacts
<1>4. IsWord(q[1], s, n, token.kind)
    BY <1>3, KindsRead
<1>5. Len(word) \in Nat \ {0} /\ Len(rest) \in Nat /\ (rest # <<>> => Len(rest) # 0)
    BY <1>1, SeqFacts DEF IsText
<1>6. n \in Nat /\ n + 1 = Len(word) /\ (rest # <<>> => n < Len(s))
    BY <1>1, <1>2, <1>5
<1>7. kind_by_char(word[1]) = "Word" /\ InWord(word[1])
    BY <1>2, <1>4 DEF IsWord, InWord
<1>8. ASSUME NEW i \in 1..Len(word) PROVE InWord(word[i])
    <2>1. CASE i = 1
        BY <1>7, <2>1
    <2>2. CASE i # 1
        <3>1. PICK k : k = i - 1
            OBVIOUS
        <3>2. k \in 1..n /\ i = k + 1 /\ k \in 1..(Len(word) - 1)
            BY <1>6, <2>2, <3>1
        <3>3. InWord(s[k])
            BY <1>4, <3>2 DEF IsWord
        <3>4. QED
            BY <1>2, <3>2, <3>3
    <2>3. QED
        BY <2>1, <2>2
<1>9. ASSUME word[1] = "-", Len(word) > 1, word[2] = "-" PROVE FALSE
    <2>1. 1 \in 1..(Len(word) - 1) /\ Len(s) # 0
        BY <1>2, <1>5, <1>9
    <2>2. s[1] = word[2]
        BY <1>2, <2>1
    <2>3. s # <<>>
        BY <1>2, <2>1, SeqFacts DEF IsText
    <2>4. QED
        BY <1>2, <1>4, <1>9, <2>2, <2>3 DEF IsWord, DashedBy
<1>10. WordKind(word) = "SYMBOL"
    <2>1. PICK m \in 0..Len(s) : /\ token.text = <<q[1]>> \o SubSeq(s, 1, m) /\ Len(token.text) = m + 1
        <3>1. q # <<>>
            BY <1>1, FrontFacts
        <3>2. Was(token, q[1], s)
            BY <1>1, <3>1 DEF Begins
        <3>3. PICK head : head = q[1]
            OBVIOUS
        <3>4. Was(token, head, s)
            BY <3>2, <3>3
        <3>5. PICK m \in 0..Len(s) :
                  /\ Len(token.text) = m + 1 /\ token.text[1] = head
                  /\ \A i \in 1..m : token.text[i + 1] = s[i]
                  /\ token.text = <<head>> \o SubSeq(s, 1, m)
                  /\ ReadOff(head, s, m, token.kind)
            <4>1. IsText(s)
                BY <1>2
            <4>2. QED
                BY <3>4, <4>1, WasFacts
        <3>6. QED
            BY <3>3, <3>5
    <2>2. m = n
        <3>1. m \in Nat
            BY <1>2, SeqFacts DEF IsText
        <3>2. QED
            BY <1>1, <1>6, <2>1, <3>1
    <2>3. QED
        BY <1>1, <1>4, <2>1, <2>2 DEF IsWord
<1>11. rest # <<>> => ~InWord(rest[1])
    BY <1>2, <1>4, <1>6 DEF IsWord
<1>12. QED
    BY <1>1, <1>7, <1>8, <1>9, <1>10, <1>11 DEF IsName

\* And a name is read as a symbol in front of what is no word.
LEMMA NameIsSymbol ==
    ASSUME NEW token, NEW rest, IsName(token.text), IsText(rest), rest # <<>> => ~InWord(rest[1]),
           token.kind = "SYMBOL"
    PROVE  Begins(token.text \o rest, token)
<1>1. PICK word, q, s, n : /\ word = token.text /\ q = word \o rest /\ s = Tail(q)
                           /\ n = Len(word) - 1
    OBVIOUS
<1>2. IsText(word) /\ word # <<>>
    BY <1>1 DEF IsName
<1>3. /\ IsText(s) /\ q[1] = word[1] /\ Len(s) = Len(word) - 1 + Len(rest)
      /\ (\A i \in 1..(Len(word) - 1) : s[i] = word[i + 1]) /\ (rest # <<>> => s[Len(word)] = rest[1])
    BY <1>1, <1>2, FrontFacts
<1>4. Len(word) \in Nat \ {0} /\ Len(rest) \in Nat /\ (rest = <<>> => Len(rest) = 0)
    BY <1>2, SeqFacts DEF IsText
<1>5. n \in Nat /\ n + 1 = Len(word) /\ n \in 0..Len(s)
    BY <1>1, <1>3, <1>4
<1>6. \A i \in 1..n : InWord(s[i])
    <2>1. ASSUME NEW i \in 1..n PROVE InWord(s[i])
        <3>1. i \in 1..(Len(word) - 1) /\ i + 1 \in 1..Len(word)
            BY <1>5
        <3>2. QED
            BY <1>1, <1>3, <3>1 DEF IsName
    <2>2. QED
        BY <2>1
<1>7. n < Len(s) => ~InWord(s[n + 1])
    <2>1. ASSUME n < Len(s) PROVE ~InWord(s[n + 1])
        <3>1. Len(rest) # 0
            BY <1>3, <1>4, <1>5, <2>1
        <3>2. rest # <<>>
            BY <1>4, <3>1
        <3>3. QED
            BY <1>3, <1>5, <3>2
    <2>2. QED
        BY <2>1
<1>8. ~DashedBy(q[1], s)
    <2>1. SUFFICES ASSUME DashedBy(q[1], s) PROVE FALSE
        OBVIOUS
    <2>2. word[1] = "-" /\ s # <<>> /\ s[1] = "-"
        BY <1>3, <2>1 DEF DashedBy
    <2>3. CASE Len(word) = 1
        <3>1. n = 0 /\ Len(s) # 0 /\ Len(s) \in Nat
            BY <1>3, <1>5, <2>2, <2>3, SeqFacts DEF IsText
        <3>2. ~InWord(s[1])
            BY <1>7, <3>1
        <3>3. InWord("-")
            BY KindsOfChars DEF InWord
        <3>4. QED
            BY <2>2, <3>2, <3>3
    <2>4. CASE Len(word) # 1
        <3>1. 1 \in 1..(Len(word) - 1) /\ Len(word) > 1
            <4>1. PICK l : l = Len(word)
                OBVIOUS
            <4>2. l \in Nat \ {0} /\ l # 1
                BY <1>4, <2>4, <4>1
            <4>3. 1 \in 1..(l - 1) /\ l > 1
                BY <4>2
            <4>4. QED
                BY <4>1, <4>3
        <3>2. s[1] = word[2]
            BY <1>3, <3>1
        <3>3. QED
            BY <1>1, <2>2, <3>1, <3>2 DEF IsName
    <2>5. QED
        BY <2>3, <2>4
<1>9. <<q[1]>> \o SubSeq(s, 1, n) = word
    <2>1. PICK other : other = <<q[1]>> \o SubSeq(s, 1, n)
        OBVIOUS
    <2>2. IsSeq(other) /\ Len(other) = n + 1 /\ other[1] = q[1] /\ \A i \in 1..n : other[i + 1] = s[i]
        BY <1>3, <1>5, <2>1, HeadPart
    <2>3. ASSUME NEW i \in 1..(n + 1) PROVE other[i] = word[i]
        <3>1. CASE i = 1
            BY <1>3, <2>2, <3>1
        <3>2. CASE i # 1
            <4>1. PICK k : k = i - 1
                OBVIOUS
            <4>2. k \in 1..n /\ i = k + 1 /\ k \in 1..(Len(word) - 1)
                BY <1>5, <3>2, <4>1
            <4>3. QED
                BY <1>3, <2>2, <4>2
        <3>3. QED
            BY <3>1, <3>2
    <2>4. Len(other) = Len(word) /\ IsSeq(word)
        BY <1>2, <1>5, <2>2 DEF IsText
    <2>5. other = word
        BY <1>5, <2>2, <2>3, <2>4, SameSequences
    <2>6. QED
        BY <2>1, <2>5
<1>10. IsWord(q[1], s, n, token.kind)
    BY <1>1, <1>3, <1>6, <1>7, <1>8, <1>9 DEF IsWord, IsName
<1>11. ReadOff(q[1], s, n, token.kind)
    BY <1>10 DEF ReadOff
<1>12. Begins(q, token)
    BY <1>1, <1>2, <1>11, BeginsWhen
<1>13. QED
    BY <1>1, <1>12

\* The characters of a text, as those of what it is put together from.
LEMMA JoinedChars ==
    ASSUME NEW s, NEW t, IsSeq(s), IsSeq(t)
    PROVE  ToSet(s \o t) = ToSet(s) \cup ToSet(t)
<1>1. PICK u, m, n : u = s \o t /\ m = Len(s) /\ n = Len(t)
    OBVIOUS
<1>2. m \in Nat /\ n \in Nat /\ DOMAIN s = 1..m /\ DOMAIN t = 1..n
    BY <1>1, SeqFacts
<1>3. /\ IsSeq(u) /\ Len(u) = m + n /\ (\A i \in 1..m : u[i] = s[i])
      /\ \A i \in 1..n : u[m + i] = t[i]
    BY <1>1, ConcatFacts
<1>4. DOMAIN u = 1..(m + n)
    BY <1>3, SeqFacts
<1>5. ASSUME NEW c \in ToSet(u) PROVE c \in ToSet(s) \cup ToSet(t)
    <2>1. PICK i \in 1..(m + n) : c = u[i]
        BY <1>4 DEF ToSet
    <2>2. CASE i <= m
        <3>1. i \in 1..m
            BY <1>2, <2>2
        <3>2. QED
            BY <1>2, <1>3, <2>1, <3>1 DEF ToSet
    <2>3. CASE i > m
        <3>1. PICK k : k = i - m
            OBVIOUS
        <3>2. k \in 1..n /\ i = m + k
            BY <1>2, <2>3, <3>1
        <3>3. QED
            BY <1>2, <1>3, <2>1, <3>2 DEF ToSet
    <2>4. QED
        BY <1>2, <2>2, <2>3
<1>6. ASSUME NEW c \in ToSet(s) \cup ToSet(t) PROVE c \in ToSet(u)
    <2>1. CASE c \in ToSet(s)
        <3>1. PICK i \in 1..m : c = s[i]
            BY <1>2, <2>1 DEF ToSet
        <3>2. i \in 1..(m + n)
            BY <1>2
        <3>3. QED
            BY <1>3, <1>4, <3>1, <3>2 DEF ToSet
    <2>2. CASE c \in ToSet(t)
        <3>1. PICK i \in 1..n : c = t[i]
            BY <1>2, <2>2 DEF ToSet
        <3>2. m + i \in 1..(m + n)
            BY <1>2
        <3>3. QED
            BY <1>3, <1>4, <3>1, <3>2 DEF ToSet
    <2>3. QED
        BY <2>1, <2>2
<1>7. QED
    BY <1>1, <1>5, <1>6

LEMMA SymbolKind ==
    ASSUME NEW w
    PROVE  WordKind(w) = "SYMBOL" <=>
               w \notin DOMAIN TABLE /\ ~RE_INTEGER(w) /\ ~RE_FLOAT(w) /\ RE_SYMBOL(w)
<1>1. \A word \in DOMAIN TABLE : TABLE[word] # "SYMBOL"
    BY DEF TABLE
<1>2. QED
    BY <1>1 DEF WordKind

\* The table's words have one character, or dots.
LEMMA TableWords ==
    /\ \A w \in DOMAIN TABLE : Len(w) = 1 \/ w[1] = "."
    /\ <<"+">> \in DOMAIN TABLE /\ <<"-">> \in DOMAIN TABLE
<1>1. DOMAIN TABLE = {<<"+">>, <<"-">>, <<".">>, <<".", ".">>, <<".", ".", ".">>, <<":">>, <<"&">>, <<"lambda">>}
    BY DEF TABLE, OPERATORS
<1>2. /\ Len(<<"+">>) = 1 /\ Len(<<"-">>) = 1 /\ Len(<<".">>) = 1 /\ Len(<<":">>) = 1 /\ Len(<<"&">>) = 1
      /\ Len(<<"lambda">>) = 1 /\ <<".", ".">>[1] = "." /\ <<".", ".", ".">>[1] = "."
    OBVIOUS
<1>3. QED
    BY <1>1, <1>2

\* A name in front of fields is no number, unless it is the 0x of a fraction.
LEMMA NoNumber ==
    ASSUME NEW name, NEW suffix, IsName(name), ToSet(name) \cap {".", ":"} = {},
           IsText(suffix), suffix # <<>>, suffix[1] \in {".", ":"}, ~HexFraction(name \o suffix)
    PROVE  ~RE_INTEGER(name \o suffix) /\ ~RE_FLOAT(name \o suffix)
<1>1. PICK w, m : w = name \o suffix /\ m = Len(name)
    OBVIOUS
<1>2. IsSeq(name) /\ IsSeq(suffix) /\ name # <<>>
    BY DEF IsName, IsText
<1>3. m \in Nat \ {0} /\ Len(suffix) \in Nat \ {0} /\ DOMAIN name = 1..m
    BY <1>1, <1>2, SeqFacts
<1>4. /\ IsSeq(w) /\ Len(w) = m + Len(suffix) /\ (\A i \in 1..m : w[i] = name[i])
      /\ \A i \in 1..Len(suffix) : w[m + i] = suffix[i]
    BY <1>1, <1>2, ConcatFacts
<1>5. PICK l : l = Len(w)
    OBVIOUS
<1>6. l \in Nat /\ m + 1 <= l /\ w[m + 1] \in {".", ":"} /\ w[1] = name[1] /\ DOMAIN w = 1..l
    <2>1. 1 \in 1..m /\ 1 \in 1..Len(suffix) /\ DOMAIN w = 1..Len(w)
        BY <1>3, <1>4, SeqFacts
    <2>2. QED
        BY <1>3, <1>4, <1>5, <2>1
<1>7. \A i \in 1..m : w[i] \notin {".", ":"}
    BY <1>3, <1>4 DEF ToSet
<1>8. name \notin DOMAIN TABLE /\ ~RE_INTEGER(name) /\ ~RE_FLOAT(name)
    BY SymbolKind DEF IsName
<1>9. PICK s : s = Sign(w)
    OBVIOUS
<1>10. Sign(name) = s /\ s \in {0, 1} /\ (s = 1 => name[1] \in {"+", "-"})
    BY <1>6, <1>9 DEF Sign
<1>11. s < m
    <2>1. ASSUME s = 1, m = 1 PROVE FALSE
        <3>1. PICK sign : sign = <<name[1]>>
            OBVIOUS
        <3>2. IsSeq(sign) /\ Len(sign) = 1 /\ sign[1] = name[1]
            BY <3>1, Tuples
        <3>3. \A i \in 1..Len(name) : name[i] = sign[i]
            BY <1>1, <2>1, <3>2
        <3>4. name = sign
            BY <1>1, <1>2, <2>1, <3>2, <3>3, SameSequences
        <3>5. name[1] = "+" \/ name[1] = "-"
            BY <1>10, <2>1
        <3>6. name = <<"+">> \/ name = <<"-">>
            BY <3>1, <3>4, <3>5
        <3>7. QED
            BY <1>8, <3>6, TableWords
    <2>2. QED
        BY <1>3, <1>10, <2>1
<1>12. IsHex(name) = IsHex(w)
    <2>1. ASSUME IsHex(w) PROVE IsHex(name)
        <3>1. l >= s + 2 /\ w[s + 1] = "0" /\ w[s + 2] = "x"
            BY <1>5, <1>9, <2>1 DEF IsHex
        <3>2. m + 1 # s + 2
            BY <1>6, <3>1
        <3>3. m >= s + 2 /\ s + 1 \in 1..m /\ s + 2 \in 1..m
            BY <1>3, <1>10, <1>11, <3>2
        <3>4. QED
            BY <1>1, <1>4, <1>10, <3>1, <3>3 DEF IsHex
    <2>2. ASSUME IsHex(name) PROVE IsHex(w)
        <3>1. m >= s + 2 /\ name[s + 1] = "0" /\ name[s + 2] = "x"
            BY <1>1, <1>10, <2>2 DEF IsHex
        <3>2. l >= s + 2 /\ s + 1 \in 1..m /\ s + 2 \in 1..m
            BY <1>3, <1>6, <1>10, <3>1
        <3>3. QED
            BY <1>4, <1>5, <1>9, <3>1, <3>2 DEF IsHex
    <2>3. QED
        BY <2>1, <2>2 DEF IsHex
<1>13. PICK p : p = Prefix(w)
    OBVIOUS
<1>14. /\ Prefix(name) = p /\ p \in Nat /\ p <= m
       /\ ~IsHex(w) => p = s
    <2>1. CASE IsHex(w)
        <3>1. p = s + 2 /\ Prefix(name) = s + 2
            BY <1>9, <1>10, <1>12, <1>13, <2>1 DEF Prefix
        <3>2. m >= s + 2
            BY <1>1, <1>10, <1>12, <2>1 DEF IsHex
        <3>3. QED
            BY <1>3, <1>10, <2>1, <3>1, <3>2
    <2>2. CASE ~IsHex(w)
        <3>1. p = s + 0 /\ Prefix(name) = s + 0
            BY <1>9, <1>10, <1>12, <1>13, <2>2 DEF Prefix
        <3>2. QED
            BY <1>3, <1>10, <1>11, <3>1
    <2>3. QED
        BY <2>1, <2>2
<1>15. ASSUME RE_INTEGER(w) PROVE FALSE
    <2>1. w[p + 1] \in DIGITS /\ \A i \in (p + 2)..l : w[i] \in DIGITS \cup {"_"}
        BY <1>5, <1>13, <1>15 DEF RE_INTEGER, Among
    <2>2. m + 1 = p + 1 \/ m + 1 \in (p + 2)..l
        BY <1>3, <1>6, <1>14
    <2>3. QED
        BY <1>6, <2>1, <2>2 DEF DIGITS
<1>16. ASSUME RE_FLOAT(w) PROVE FALSE
    <2>1. PICK last \in 1..l :
              /\ Exponent(w, last)
              /\ \/ Fraction(w, p, last)
                 \/ Decimals(w, s, last, DIGITS)
                 \/ IsHex(w) /\ Decimals(w, p, last, HEX)
        BY <1>6, <1>9, <1>13, <1>16 DEF RE_FLOAT
    <2>2. m + 1 <= last
        <3>1. SUFFICES ASSUME ~(m + 1 <= last) PROVE FALSE
            OBVIOUS
        <3>2. last # l /\ last \in Nat /\ last + 1 <= m + 1
            BY <1>3, <1>6, <2>1, <3>1
        <3>3. PICK n \in {last + 1, last + 2} :
                  /\ n < l /\ (n = last + 2 => w[n] \in {"+", "-"})
                  /\ \A i \in (n + 1)..l : w[i] \in DIGITS \cup {"_"}
            BY <1>5, <2>1, <3>2 DEF Exponent, Among
        <3>4. w[last + 1] \in {"e", "E"}
            BY <1>5, <2>1, <3>2 DEF Exponent
        <3>5. m + 1 = last + 1 \/ (m + 1 = n /\ n = last + 2) \/ m + 1 \in (n + 1)..l
            <4>1. m \in Nat /\ l \in Nat /\ m + 1 <= l /\ last \in Nat /\ last + 1 <= m + 1
                BY <1>3, <1>6, <3>2
            <4>2. n = last + 1 \/ n = last + 2
                BY <3>3
            <4>3. QED
                BY <4>1, <4>2
        <3>6. QED
            BY <1>6, <3>3, <3>4, <3>5 DEF DIGITS
    <2>3. ASSUME Fraction(w, p, last) PROVE FALSE
        <3>1. p + 2 <= last /\ w[p + 1] = "." /\ w[p + 2] \in DIGITS
            BY <2>3 DEF Fraction
        <3>2. ~(p + 1 \in 1..m)
            BY <1>7, <3>1
        <3>3. p = m
            BY <1>3, <1>14, <3>2
        <3>4. IsHex(w)
            BY <1>11, <1>14, <3>3
        <3>5. p + 2 <= l
            BY <1>6, <1>14, <2>1, <3>1
        <3>6. HexFraction(w)
            BY <1>5, <1>13, <3>1, <3>4, <3>5 DEF HexFraction
        <3>7. QED
            BY <1>1, <3>6
    <2>4. ASSUME Decimals(w, s, last, DIGITS) PROVE FALSE
        <3>1. s + 1 \in 1..m /\ w[s + 1] \in DIGITS
            <4>1. s + 1 \in 1..m
                BY <1>3, <1>10, <1>11
            <4>2. QED
                BY <2>4, <4>1 DEF Decimals
        <3>2. ASSUME NEW i \in (s + 2)..m PROVE name[i] \in DIGITS \cup {"_"}
            <4>1. i \in (s + 2)..last /\ i \in 1..m
                BY <1>3, <1>10, <2>1, <2>2
            <4>2. w[i] \in DIGITS \cup {"_"} \/ w[i] = "."
                BY <2>4, <4>1 DEF Decimals
            <4>3. QED
                BY <1>4, <1>7, <4>1, <4>2
        <3>3. ~IsHex(name)
            <4>1. SUFFICES ASSUME IsHex(name) PROVE FALSE
                OBVIOUS
            <4>2. m >= s + 2 /\ name[s + 2] = "x"
                BY <1>1, <1>10, <4>1 DEF IsHex
            <4>3. s + 2 \in (s + 2)..m
                BY <1>3, <1>10, <4>2
            <4>4. QED
                BY <3>2, <4>2, <4>3 DEF DIGITS
        <3>4. p = s
            BY <1>12, <1>14, <3>3
        <3>5. RE_INTEGER(name)
            BY <1>1, <1>4, <1>11, <1>14, <3>1, <3>2, <3>4 DEF RE_INTEGER, Among
        <3>6. QED
            BY <1>8, <3>5
    <2>5. ASSUME IsHex(w), Decimals(w, p, last, HEX) PROVE FALSE
        <3>1. w[p + 1] \in HEX
            BY <2>5 DEF Decimals
        <3>2. p # m
            BY <1>6, <3>1 DEF HEX, DIGITS
        <3>3. p < m /\ p + 1 \in 1..m
            BY <1>3, <1>14, <3>2
        <3>4. ASSUME NEW i \in (p + 2)..m PROVE name[i] \in HEX \cup {"_"}
            <4>1. i \in (p + 2)..last /\ i \in 1..m
                BY <1>3, <1>14, <2>1, <2>2
            <4>2. w[i] \in HEX \cup {"_"} \/ w[i] = "."
                BY <2>5, <4>1 DEF Decimals
            <4>3. QED
                BY <1>4, <1>7, <4>1, <4>2
        <3>5. Decimals(name, p, m, HEX)
            BY <1>4, <3>1, <3>3, <3>4 DEF Decimals
        <3>6. Exponent(name, m) /\ m \in DOMAIN name
            BY <1>1, <1>3 DEF Exponent
        <3>7. RE_FLOAT(name)
            BY <1>12, <1>14, <2>5, <3>5, <3>6 DEF RE_FLOAT
        <3>8. QED
            BY <1>8, <3>7
    <2>6. QED
        BY <2>1, <2>3, <2>4, <2>5
<1>17. QED
    BY <1>1, <1>15, <1>16

\* A name in the place of another, in front of its fields, is a name.
LEMMA RenamedIsName ==
    ASSUME NEW name, NEW front, NEW suffix, IsName(name), ToSet(name) \cap {".", ":"} = {},
           IsSeq(front), IsText(suffix), IsName(front \o suffix),
           suffix # <<>> => suffix[1] \in {".", ":"}, ~HexFraction(name \o suffix)
    PROVE  IsName(name \o suffix)
<1>1. IsSeq(name) /\ IsSeq(suffix) /\ name # <<>> /\ IsText(name)
    BY DEF IsName, IsText
<1>2. CASE suffix = <<>>
    <2>1. name \o <<>> = name
        BY <1>1, NothingJoins
    <2>2. QED
        BY <1>2, <2>1
<1>3. CASE suffix # <<>>
    <2>1. PICK w, m, n, old, l : /\ w = name \o suffix /\ m = Len(name) /\ n = Len(suffix)
                                 /\ old = front \o suffix /\ l = Len(front)
        OBVIOUS
    <2>2. m \in Nat \ {0} /\ n \in Nat \ {0} /\ l \in Nat /\ DOMAIN w = 1..Len(w)
        <3>1. IsSeq(w)
            BY <1>1, <2>1, ConcatFacts
        <3>2. m \in Nat \ {0} /\ n \in Nat \ {0}
            BY <1>1, <1>3, <2>1, SeqFacts
        <3>3. l \in Nat
            BY <2>1, SeqFacts
        <3>4. QED
            BY <3>1, <3>2, <3>3, SeqFacts
    <2>3. /\ IsSeq(w) /\ Len(w) = m + n /\ (\A i \in 1..m : w[i] = name[i])
          /\ \A i \in 1..n : w[m + i] = suffix[i]
        BY <1>1, <2>1, ConcatFacts
    <2>4. Len(old) = l + n /\ \A i \in 1..n : old[l + i] = suffix[i]
        BY <1>1, <2>1, ConcatFacts
    <2>5. IsText(w)
        BY <1>1, <2>1, TextsJoin
    <2>6. w[1] = name[1] /\ Len(w) > 1
        BY <2>2, <2>3
    <2>7. w # <<>>
        <3>1. Len(w) # 0
            BY <2>2, <2>3
        <3>2. QED
            BY <2>3, <3>1, SeqFacts
    <2>8. ASSUME NEW i \in 1..Len(w) PROVE InWord(w[i])
        <3>1. CASE i <= m
            <4>1. i \in 1..m
                BY <2>2, <3>1
            <4>2. InWord(name[i])
                BY <2>1, <4>1 DEF IsName
            <4>3. QED
                BY <2>3, <4>1, <4>2
        <3>2. CASE i > m
            <4>1. PICK k : k = i - m
                OBVIOUS
            <4>2. k \in 1..n /\ i = m + k /\ l + k \in 1..(l + n)
                BY <2>2, <2>3, <3>2, <4>1
            <4>3. InWord(old[l + k])
                BY <2>1, <2>4, <4>2 DEF IsName
            <4>4. QED
                BY <2>3, <2>4, <4>2, <4>3
        <3>3. QED
            BY <2>2, <3>1, <3>2
    <2>9. ASSUME w[1] = "-", w[2] = "-" PROVE FALSE
        <3>1. CASE m = 1
            <4>1. m + 1 = 2 /\ 1 \in 1..n
                BY <2>2, <3>1
            <4>2. w[2] = suffix[1]
                BY <2>3, <4>1
            <4>3. QED
                BY <1>3, <2>9, <4>2
        <3>2. CASE m # 1
            <4>1. 2 \in 1..m /\ m > 1
                BY <2>2, <3>2
            <4>2. name[2] = "-" /\ name[1] = "-"
                BY <2>3, <2>6, <2>9, <4>1
            <4>3. QED
                BY <2>1, <4>1, <4>2 DEF IsName
        <3>3. QED
            BY <3>1, <3>2
    <2>10. WordKind(w) = "SYMBOL"
        <3>1. RE_SYMBOL(name) /\ RE_SYMBOL(old)
            BY <2>1, SymbolKind DEF IsName
        <3>2. ToSet(w) = ToSet(name) \cup ToSet(suffix) /\ ToSet(old) = ToSet(front) \cup ToSet(suffix)
            BY <1>1, <2>1, JoinedChars
        <3>3. RE_SYMBOL(w)
            BY <2>6, <3>1, <3>2 DEF RE_SYMBOL
        <3>4. w \notin DOMAIN TABLE
            <4>1. w[1] # "." /\ Len(w) # 1
                <5>1. w[1] # "."
                    BY <3>3 DEF RE_SYMBOL
                <5>2. m + n # 1
                    BY <2>2
                <5>3. QED
                    BY <2>3, <5>1, <5>2
            <4>2. QED
                BY <4>1, TableWords
        <3>5. ~RE_INTEGER(w) /\ ~RE_FLOAT(w)
            BY <1>3, <2>1, NoNumber
        <3>6. QED
            BY <3>3, <3>4, <3>5, SymbolKind
    <2>11. QED
        BY <2>1, <2>5, <2>6, <2>7, <2>8, <2>9, <2>10 DEF IsName
<1>4. QED
    BY <1>2, <1>3

\* A name that is let through is one, without dots.
LEMMA ValidIsName ==
    ASSUME NEW symbol, IsText(symbol), validate_symbol(symbol)
    PROVE  IsName(symbol) /\ ToSet(symbol) \cap {".", ":"} = {}
<1>1. PICK l, first, second : /\ l = new(symbol) /\ first = next_token(l) /\ second = next_token(first)
    OBVIOUS
<1>2. /\ first.token.kind = "SYMBOL" /\ ToSet(first.token.text) \cap {".", ":"} = {}
      /\ second.token.kind = "END"
    BY <1>1 DEF validate_symbol
<1>3. Ready(l) /\ Rest(l) = symbol /\ l.offset = 0
    BY <1>1, NewReads
<1>4. Reads(first, symbol, 0)
    BY <1>1, <1>3, NextReads
<1>5. Begins(symbol, first.token)
    BY <1>1, <1>3, NextBegins
<1>6. Ready(first) /\ IsText(first.token.text) /\ first.token.text \o Rest(first) = symbol
    BY <1>4 DEF Reads, Ready
<1>7. Begins(Rest(first), second.token)
    BY <1>1, <1>6, NextBegins
<1>8. Rest(first) = <<>>
    <2>1. SUFFICES ASSUME Rest(first) # <<>> PROVE FALSE
        OBVIOUS
    <2>2. PICK rest, token : rest = Rest(first) /\ token = second.token
        OBVIOUS
    <2>3. Was(token, rest[1], Tail(rest)) /\ token.kind = "END"
        BY <1>2, <1>7, <2>1, <2>2 DEF Begins
    <2>4. \E n : ReadOff(rest[1], Tail(rest), n, token.kind)
        BY <2>3 DEF Was
    <2>5. QED
        BY <2>3, <2>4, KindsRead
<1>9. PICK token : token = first.token
    OBVIOUS
<1>10. token.text \o <<>> = symbol /\ IsText(token.text)
    BY <1>6, <1>8, <1>9
<1>11. token.text = symbol
    BY <1>10, NothingJoins DEF IsText
<1>12. symbol # <<>>
    BY <1>2, <1>5 DEF Begins
<1>13. Begins(token.text \o <<>>, token)
    BY <1>5, <1>9, <1>10
<1>14. IsName(token.text)
    BY <1>2, <1>9, <1>10, <1>11, <1>12, <1>13, SmallTexts, SymbolIsName
<1>15. QED
    BY <1>2, <1>9, <1>11, <1>14

-----------------------------------------------------------------------------
(* The tokens of a text, and the texts they are put together to *)

\* Every token has a kind.
HasKind(r) == "kind" \in DOMAIN r.token

LEMMA NextHasKind == \A l : HasKind(next_token(l))
<1>1. \A kind, current, source, peek, offset : HasKind(finish_token(kind, current, source, peek, offset))
    BY DEF HasKind, finish_token
<1>2. ASSUME NEW head, NEW source, NEW offset
      PROVE  /\ HasKind(Word(head, source, offset)) /\ HasKind(Hash(head, source, offset))
             /\ HasKind(QuoteString(head, source, offset)) /\ HasKind(Comment(head, source, offset))
             /\ HasKind(Whitespace(head, source, offset)) /\ HasKind(Bound(head, source, offset))
    <2>1. \A current, chars, n, kind : HasKind(Take(current, chars, n, kind, offset))
        BY <1>1 DEF Take
    <2>2. HasKind(Word(head, source, offset))
        BY <1>1 DEF Word, Scan
    <2>3. HasKind(Hash(head, source, offset))
        BY <1>1 DEF Hash
    <2>4. HasKind(QuoteString(head, source, offset))
        BY <2>1 DEF QuoteString
    <2>5. HasKind(Comment(head, source, offset))
        BY <1>1, <2>1 DEF Comment
    <2>6. HasKind(Whitespace(head, source, offset))
        BY <1>1 DEF Whitespace, Scan
    <2>7. HasKind(Bound(head, source, offset))
        BY <2>1 DEF Bound
    <2>8. QED
        BY <2>2, <2>3, <2>4, <2>5, <2>6, <2>7
<1>3. TAKE l
<1>4. PICK head, source : /\ head = IF l.peek # None THEN l.peek ELSE l.source[1]
                          /\ source = IF l.peek # None THEN l.source ELSE Tail(l.source)
    OBVIOUS
<1>5. next_token(l) \in {finish_token("END", <<>>, <<>>, None, l.offset),
                         Word(head, source, l.offset), Hash(head, source, l.offset),
                         QuoteString(head, source, l.offset), Comment(head, source, l.offset),
                         Whitespace(head, source, l.offset), Bound(head, source, l.offset)}
    BY <1>4 DEF next_token
<1>6. PICK offset : offset = l.offset
    OBVIOUS
<1>7. HasKind(finish_token("END", <<>>, <<>>, None, offset))
    BY <1>1
<1>8. QED
    BY <1>2, <1>5, <1>6, <1>7

\* A text that is joined together from texts, from each of them on.
Remains(seqs, p) ==
    /\ p[Len(seqs) + 1] = <<>>
    /\ \A k \in 1..Len(seqs) : p[k] = seqs[k] \o p[k + 1]

LEMMA RemainsExist ==
    ASSUME NEW seqs, AllTexts(seqs)
    PROVE  \E p : Remains(seqs, p) /\ \A k \in 1..(Len(seqs) + 1) : IsText(p[k])
<1>1. PICK n : n = Len(seqs)
    OBVIOUS
<1>2. n \in Nat /\ \A k \in 1..n : IsText(seqs[k])
    BY <1>1, SeqFacts DEF AllTexts
<1> DEFINE From(p, j) == /\ p[n + 1] = <<>>
                         /\ \A k \in (n + 1 - j)..(n + 1) : IsText(p[k])
                         /\ \A k \in (n + 1 - j)..n : p[k] = seqs[k] \o p[k + 1]
           Fine == {j \in 0..n : \E p : From(p, j)}
<1>3. 0 \in Fine
    <2>1. PICK p : p = [k \in {n + 1} |-> <<>>]
        OBVIOUS
    <2>2. p[n + 1] = <<>> /\ n + 1 - 0 = n + 1
        BY <1>2, <2>1
    <2>3. (\A k \in (n + 1)..(n + 1) : k = n + 1) /\ ~\E k \in (n + 1)..n : TRUE
        BY <1>2
    <2>4. \A k \in (n + 1 - 0)..(n + 1) : IsText(p[k])
        BY <2>2, <2>3, SmallTexts
    <2>5. \A k \in (n + 1 - 0)..n : p[k] = seqs[k] \o p[k + 1]
        BY <2>2, <2>3
    <2>6. From(p, 0)
        BY <2>2, <2>4, <2>5
    <2>7. 0 \in 0..n
        BY <1>2
    <2>8. QED
        BY <2>6, <2>7
<1>4. ASSUME NEW j \in 1..n, j - 1 \in Fine PROVE j \in Fine
    <2>1. PICK p : From(p, j - 1)
        BY <1>4
    <2>2. PICK m : m = n + 1 - j
        OBVIOUS
    <2>3. m \in 1..n /\ m + 1 = n + 1 - (j - 1) /\ m + 1 \in (m + 1)..(n + 1)
        BY <1>2, <2>2
    <2>4. PICK q : q = [k \in m..(n + 1) |-> IF k = m THEN seqs[m] \o p[m + 1] ELSE p[k]]
        OBVIOUS
    <2>5. /\ q[m] = seqs[m] \o p[m + 1] /\ \A k \in (m + 1)..(n + 1) : q[k] = p[k]
        <3>1. m \in m..(n + 1) /\ \A k \in (m + 1)..(n + 1) : k \in m..(n + 1) /\ k # m
            BY <1>2, <2>3
        <3>2. QED
            BY <2>4, <3>1
    <2>6. IsText(p[m + 1]) /\ IsText(seqs[m])
        BY <1>2, <2>1, <2>3
    <2>7. IsText(q[m])
        BY <2>5, <2>6, TextsJoin
    <2>8. \A k \in m..(n + 1) : k = m \/ k \in (m + 1)..(n + 1)
        BY <1>2, <2>3
    <2>9. \A k \in m..(n + 1) : IsText(q[k])
        BY <2>1, <2>3, <2>5, <2>7, <2>8
    <2>10. q[n + 1] = <<>>
        <3>1. n + 1 \in (m + 1)..(n + 1)
            BY <1>2, <2>3
        <3>2. QED
            BY <2>1, <2>5, <3>1
    <2>11. \A k \in m..n : q[k] = seqs[k] \o q[k + 1]
        <3>1. ASSUME NEW k \in m..n PROVE q[k] = seqs[k] \o q[k + 1]
            <4>1. k + 1 \in (m + 1)..(n + 1)
                BY <1>2, <2>3
            <4>2. CASE k = m
                BY <2>5, <4>1, <4>2
            <4>3. CASE k # m
                <5>1. k \in (m + 1)..n /\ k \in (m + 1)..(n + 1)
                    BY <1>2, <2>3, <4>3
                <5>2. p[k] = seqs[k] \o p[k + 1]
                    BY <2>1, <2>3, <5>1
                <5>3. QED
                    BY <2>5, <4>1, <5>1, <5>2
            <4>4. QED
                BY <4>2, <4>3
        <3>2. QED
            BY <3>1
    <2>12. From(q, j)
        BY <2>2, <2>9, <2>10, <2>11
    <2>13. j \in 0..n
        BY <1>2
    <2>14. QED
        BY <2>12, <2>13
<1>5. \A j \in 0..n : j \in Fine
    <2>1. \A j \in 1..n : j - 1 \in Fine => j \in Fine
        BY <1>4
    <2> HIDE DEF Fine
    <2>2. QED
        BY <1>2, <1>3, <2>1, Induction
<1>6. PICK p : From(p, n)
    <2>1. n \in 0..n
        BY <1>2
    <2>2. n \in Fine
        BY <1>5, <2>1
    <2>3. QED
        BY <2>2
<1>7. n + 1 - n = 1
    BY <1>2
<1>8. QED
    BY <1>1, <1>6, <1>7 DEF Remains

\* The whole is what remains from the first one on.
LEMMA RemainsAll ==
    ASSUME NEW seqs, AllTexts(seqs), NEW p, Remains(seqs, p),
           \A k \in 1..(Len(seqs) + 1) : IsText(p[k])
    PROVE  p[1] = FlattenSeq(seqs)
<1>1. PICK n : n = Len(seqs)
    OBVIOUS
<1>2. n \in Nat /\ \A k \in 1..n : IsText(seqs[k])
    BY <1>1, SeqFacts DEF AllTexts
<1>3. PICK g : /\ Joins(seqs, g) /\ FlattenSeq(seqs) = g[n]
               /\ \A i \in 0..n : IsText(g[i])
    BY <1>1, TextsFlatten
<1> DEFINE Fine == {k \in 0..n : g[k] \o p[k + 1] = p[1]}
<1>4. 0 \in Fine
    <2>1. g[0] = <<>>
        BY <1>3 DEF Joins
    <2>2. 1 \in 1..(n + 1) /\ 0 + 1 = 1
        BY <1>2
    <2>3. IsSeq(p[1])
        BY <1>1, <2>2 DEF IsText
    <2>4. <<>> \o p[1] = p[1]
        BY <2>3, NothingJoins
    <2>5. g[0] \o p[0 + 1] = p[1] /\ 0 \in 0..n
        BY <1>2, <2>1, <2>2, <2>4
    <2>6. QED
        BY <2>5
<1>5. ASSUME NEW k \in 1..n, k - 1 \in Fine PROVE k \in Fine
    <2>1. k - 1 + 1 = k /\ k - 1 \in 0..n /\ k \in 0..n /\ k \in 1..(n + 1) /\ k + 1 \in 1..(n + 1)
        BY <1>2
    <2>2. PICK a, b, c : a = g[k - 1] /\ b = seqs[k] /\ c = p[k + 1]
        OBVIOUS
    <2>3. IsSeq(a) /\ IsSeq(b) /\ IsSeq(c)
        BY <1>1, <1>2, <1>3, <2>1, <2>2 DEF IsText
    <2>4. (a \o b) \o c = a \o (b \o c)
        BY <2>3, JoinsAssociate
    <2>5. g[k] = a \o b /\ p[k] = b \o c
        BY <1>1, <1>3, <2>2 DEF Joins, Remains
    <2>6. a \o p[k] = p[1]
        BY <1>5, <2>1, <2>2
    <2>7. g[k] \o c = p[1]
        BY <2>4, <2>5, <2>6
    <2>8. QED
        BY <2>1, <2>2, <2>7
<1>6. n \in Fine
    <2>1. \A k \in 1..n : k - 1 \in Fine => k \in Fine
        BY <1>5
    <2>2. n \in 0..n
        BY <1>2
    <2> HIDE DEF Fine
    <2>3. QED
        BY <1>2, <1>4, <2>1, <2>2, Induction
<1>7. g[n] \o <<>> = p[1]
    BY <1>1, <1>6 DEF Remains
<1>8. IsSeq(g[n])
    <2>1. n \in 0..n
        BY <1>2
    <2>2. QED
        BY <1>3, <2>1 DEF IsText
<1>9. QED
    BY <1>3, <1>7, <1>8, NothingJoins

-----------------------------------------------------------------------------
(* The invariant of renames *)

\* The texts q are what was to be read at each of the tokens found, and behind them.
CutInto(found, q) ==
    /\ \A k \in 1..Len(found) : /\ IsText(found[k].text) /\ q[k] = found[k].text \o q[k + 1]
                                /\ Begins(q[k], found[k])
    /\ \A k \in 1..(Len(found) + 1) : IsText(q[k])

NoEarlyEnd(found) == \A k \in 1..(Len(found) - 1) : found[k].kind # "END"

\* The tokens are the ones that the text begins with, one behind the other; after
\* a rename, those expected are the ones that the new text begins with.
FreshInv == \E q : CutInto(tokens, q) /\ q[Len(tokens) + 1] = Rest(lexer)

ExpectedInv ==
    /\ IsSeq(expected) /\ Len(expected) # 0 /\ NoEarlyEnd(expected)
    /\ expected[Len(expected)].kind = "END"
    /\ \A k \in 1..Len(expected) : expected[k] = Found(expected[k])
    /\ Len(tokens) <= Len(expected)
    /\ \A k \in 1..Len(tokens) : Found(tokens[k]) = expected[k]
    /\ \E q : CutInto(expected, q) /\ q[Len(tokens) + 1] = Rest(lexer)

KeepInv ==
    /\ LexerInv
    /\ NoEarlyEnd(tokens) /\ \A k \in 1..Len(tokens) : "kind" \in DOMAIN tokens[k]
    /\ expected = None => FreshInv
    /\ (expected # None /\ ~HexFractionIn(expected)) => ExpectedInv

\* What is behind the same is the same.
LEMMA FrontsCancel ==
    ASSUME NEW a, NEW b, NEW c, IsSeq(a), IsSeq(b), IsSeq(c), a \o b = a \o c
    PROVE  b = c
<1>1. PICK u, m : u = a \o b /\ m = Len(a)
    OBVIOUS
<1>2. m \in Nat /\ Len(b) \in Nat /\ Len(c) \in Nat
    BY <1>1, SeqFacts
<1>3. Len(u) = m + Len(b) /\ \A i \in 1..Len(b) : u[m + i] = b[i]
    BY <1>1, ConcatFacts
<1>4. Len(u) = m + Len(c) /\ \A i \in 1..Len(c) : u[m + i] = c[i]
    BY <1>1, ConcatFacts
<1>5. Len(b) = Len(c)
    BY <1>2, <1>3, <1>4
<1>6. \A i \in 1..Len(b) : b[i] = c[i]
    BY <1>3, <1>4, <1>5
<1>7. QED
    BY <1>5, <1>6, SameSequences

\* Beginning with a token is a matter of its kind and text.
LEMMA BeginsSame ==
    ASSUME NEW q, NEW a, NEW b, a.kind = b.kind, a.text = b.text, Begins(q, a)
    PROVE  Begins(q, b)
BY DEF Begins, Was

LEMMA DoneMeans ==
    ASSUME IsSeq(tokens)
    PROVE  Done <=> Len(tokens) # 0 /\ tokens[Len(tokens)].kind = "END"
BY SeqFacts DEF Done, Last

\* When all is lexed, all that was expected was found.
LEMMA KeepImplies == KeepInv => RenameKeepsTokens
<1> SUFFICES ASSUME KeepInv, Done, expected # None, ~HexFractionIn(expected)
             PROVE  [k \in DOMAIN tokens |-> Found(tokens[k])] = expected
    BY DEF RenameKeepsTokens
<1>1. ExpectedInv /\ IsSeq(tokens)
    BY DEF KeepInv, LexerInv, CutInv
<1>2. PICK n, m : n = Len(tokens) /\ m = Len(expected)
    OBVIOUS
<1>3. n \in Nat \ {0} /\ m \in Nat /\ n <= m /\ tokens[n].kind = "END"
    BY <1>1, <1>2, DoneMeans, SeqFacts DEF ExpectedInv
<1>4. n \in 1..n
    BY <1>3
<1>5. expected[n].kind = "END"
    <2>1. Found(tokens[n]) = expected[n]
        BY <1>1, <1>2, <1>4 DEF ExpectedInv
    <2>2. QED
        BY <1>3, <2>1 DEF Found
<1>6. n = m
    <2>1. SUFFICES ASSUME n # m PROVE FALSE
        OBVIOUS
    <2>2. n \in 1..(m - 1)
        BY <1>3, <2>1
    <2>3. QED
        BY <1>1, <1>2, <1>5, <2>2 DEF ExpectedInv, NoEarlyEnd
<1>7. DOMAIN tokens = 1..n
    BY <1>1, <1>2, SeqFacts
<1>8. PICK f : f = [k \in DOMAIN tokens |-> Found(tokens[k])]
    OBVIOUS
<1>9. IsSeq(f) /\ Len(f) = n /\ \A k \in 1..n : f[k] = Found(tokens[k])
    <2>1. PICK S : S = {Found(tokens[k]) : k \in 1..n}
        OBVIOUS
    <2>2. f \in [1..n -> S]
        BY <1>7, <1>8, <2>1
    <2>3. f \in Seq(S) /\ Len(f) = n
        BY <1>3, <2>2
    <2>4. QED
        BY <1>7, <1>8, <2>3 DEF IsSeq
<1>10. \A k \in 1..Len(f) : f[k] = expected[k]
    BY <1>1, <1>2, <1>9 DEF ExpectedInv
<1>11. Len(f) = Len(expected) /\ IsSeq(expected)
    BY <1>1, <1>2, <1>6, <1>9 DEF ExpectedInv
<1>12. f = expected
    BY <1>9, <1>10, <1>11, SameSequences
<1>13. QED
    BY <1>8, <1>12

\* A lexer that starts on a text has everything before it.
LEMMA FreshStarts ==
    ASSUME NEW source, IsText(source), NEW l, l = new(source)
    PROVE  \E q : CutInto(<<>>, q) /\ q[Len(<<>>) + 1] = Rest(l)
<1>1. PICK q : q = [k \in 1..1 |-> source]
    OBVIOUS
<1>2. q[1] = source /\ Len(<<>>) = 0
    BY <1>1
<1>3. Rest(l) = source
    BY NewReads
<1>4. (\A k \in 1..1 : k = 1) /\ ~\E k \in 1..0 : TRUE
    OBVIOUS
<1>5. CutInto(<<>>, q)
    BY <1>2, <1>4 DEF CutInto
<1>6. QED
    BY <1>2, <1>3, <1>5

LEMMA KeepInit == Init => KeepInv
<1> SUFFICES ASSUME Init PROVE KeepInv
    OBVIOUS
<1>1. LexerInv
    BY InitEstablishes
<1>2. tokens = <<>> /\ expected = None /\ IsText(text) /\ lexer = new(text)
    BY TextsAreTexts DEF Init
<1>3. FreshInv
    BY <1>2, FreshStarts DEF FreshInv
<1>4. Len(tokens) = 0 /\ ~(\E k \in 1..0 : TRUE) /\ ~(\E k \in 1..(0 - 1) : TRUE)
    BY <1>2
<1>5. QED
    BY <1>1, <1>2, <1>3, <1>4 DEF KeepInv, NoEarlyEnd

\* A token more is the one expected.
LEMMA KeepLexToken == KeepInv /\ LexToken => KeepInv'
<1> SUFFICES ASSUME KeepInv, LexToken PROVE KeepInv'
    OBVIOUS
<1>1. LexerInv /\ CutInv /\ PlaceInv
    BY DEF KeepInv, LexerInv
<1>2. LexerInv'
    BY <1>1, LexTokenKeeps
<1>3. PICK r, n, token : r = next_token(lexer) /\ n = Len(tokens) /\ token = r.token
    OBVIOUS
<1>4. lexer' = r /\ tokens' = Append(tokens, token) /\ text' = text /\ expected' = expected /\ ~Done
    BY <1>3 DEF LexToken
<1>5. n \in Nat /\ IsSeq(tokens') /\ Len(tokens') = n + 1 /\ tokens'[n + 1] = token
      /\ \A k \in 1..n : tokens'[k] = tokens[k]
    <2>1. PICK S : tokens \in Seq(S)
        BY <1>1 DEF CutInv, IsSeq
    <2>2. tokens \in Seq(S \cup {token})
        BY <2>1, SeqMonotonic
    <2>3. QED
        BY <2>2, <1>3, <1>4 DEF IsSeq
<1>6. \A k \in 1..(n + 1) : k = n + 1 \/ k \in 1..n
    BY <1>5
<1>7. Reads(r, Rest(lexer), lexer.offset) /\ Begins(Rest(lexer), token)
    BY <1>1, <1>3, NextReads, NextBegins DEF CutInv, PlaceInv
<1>8. IsText(token.text) /\ token.text \o Rest(r) = Rest(lexer) /\ IsText(Rest(r)) /\ Rest(lexer)' = Rest(r)
    <2>1. IsText(Rest(r))
        <3>1. IsText(r.source)
            BY <1>7 DEF Reads
        <3>2. IsText(IF r.peek = None THEN <<>> ELSE <<r.peek>>)
            BY SmallTexts
        <3>3. QED
            BY <3>1, <3>2, TextsJoin DEF Rest
    <2>2. QED
        BY <1>3, <1>4, <1>7, <2>1 DEF Reads, Rest
<1>9. (NoEarlyEnd(tokens) /\ \A k \in 1..Len(tokens) : "kind" \in DOMAIN tokens[k])'
    <2>1. \A k \in 1..(n + 1) : "kind" \in DOMAIN tokens'[k]
        <3>1. "kind" \in DOMAIN token
            BY <1>3, NextHasKind DEF HasKind
        <3>2. QED
            BY <1>3, <1>5, <1>6, <3>1 DEF KeepInv
    <2>2. \A k \in 1..n : tokens[k].kind # "END"
        <3>1. ASSUME NEW k \in 1..n PROVE tokens[k].kind # "END"
            <4>1. CASE k = n
                <5>1. n # 0
                    BY <1>5
                <5>2. QED
                    BY <1>1, <1>3, <1>4, <4>1, <5>1, DoneMeans DEF CutInv
            <4>2. CASE k # n
                <5>1. k \in 1..(n - 1)
                    BY <1>5, <4>2
                <5>2. QED
                    BY <1>3, <5>1 DEF KeepInv, NoEarlyEnd
            <4>3. QED
                BY <4>1, <4>2
        <3>2. QED
            BY <3>1
    <2>3. n + 1 - 1 = n
        BY <1>5
    <2>4. QED
        BY <1>5, <2>1, <2>2, <2>3 DEF NoEarlyEnd
<1>10. ASSUME expected = None PROVE FreshInv'
    <2>1. PICK q : CutInto(tokens, q) /\ q[n + 1] = Rest(lexer)
        BY <1>3, <1>10 DEF KeepInv, FreshInv
    <2>2. PICK p : p = [k \in 1..(n + 2) |-> IF k = n + 2 THEN Rest(r) ELSE q[k]]
        OBVIOUS
    <2>3. p[n + 2] = Rest(r) /\ \A k \in 1..(n + 1) : p[k] = q[k]
        <3>1. n + 2 \in 1..(n + 2) /\ \A k \in 1..(n + 1) : k \in 1..(n + 2) /\ k # n + 2
            BY <1>5
        <3>2. QED
            BY <2>2, <3>1
    <2>4. ASSUME NEW k \in 1..(n + 1)
          PROVE  /\ IsText(tokens'[k].text) /\ p[k] = tokens'[k].text \o p[k + 1]
                 /\ Begins(p[k], tokens'[k])
        <3>1. CASE k = n + 1
            <4>1. k + 1 = n + 2
                BY <1>5, <3>1
            <4>2. QED
                BY <1>5, <1>7, <1>8, <2>1, <2>3, <3>1, <4>1
        <3>2. CASE k # n + 1
            <4>1. k \in 1..n /\ k + 1 \in 1..(n + 1)
                BY <1>5, <3>2
            <4>2. /\ IsText(tokens[k].text) /\ q[k] = tokens[k].text \o q[k + 1]
                  /\ Begins(q[k], tokens[k])
                BY <1>3, <2>1, <4>1 DEF CutInto
            <4>3. QED
                BY <1>5, <2>3, <4>1, <4>2
        <3>3. QED
            BY <3>1, <3>2
    <2>5. \A k \in 1..(n + 2) : IsText(p[k])
        <3>1. \A k \in 1..(n + 2) : k = n + 2 \/ k \in 1..(n + 1)
            BY <1>5
        <3>2. \A k \in 1..(n + 1) : IsText(q[k])
            BY <1>3, <2>1 DEF CutInto
        <3>3. QED
            BY <1>8, <2>3, <3>1, <3>2
    <2>6. n + 1 + 1 = n + 2
        BY <1>5
    <2>7. CutInto(tokens', p) /\ p[Len(tokens') + 1] = Rest(r)
        BY <1>5, <2>3, <2>4, <2>5, <2>6 DEF CutInto
    <2>8. QED
        BY <1>8, <2>7 DEF FreshInv
<1>11. ASSUME expected # None, ~HexFractionIn(expected) PROVE ExpectedInv'
    <2>1. ExpectedInv
        BY <1>11 DEF KeepInv
    <2>2. PICK q : CutInto(expected, q) /\ q[n + 1] = Rest(lexer)
        BY <1>3, <2>1 DEF ExpectedInv
    <2>3. PICK m : m = Len(expected)
        OBVIOUS
    <2>4. m \in Nat /\ n <= m
        BY <1>3, <2>1, <2>3, SeqFacts DEF ExpectedInv
    <2>5. n # m
        <3>1. SUFFICES ASSUME n = m PROVE FALSE
            OBVIOUS
        <3>2. n # 0
            BY <2>1, <2>3, <3>1 DEF ExpectedInv
        <3>3. n \in 1..n
            BY <1>5, <3>2
        <3>4. Found(tokens[n]) = expected[n] /\ expected[n].kind = "END"
            BY <1>3, <2>1, <2>3, <3>1, <3>3 DEF ExpectedInv
        <3>5. tokens[n].kind = "END"
            BY <3>4 DEF Found
        <3>6. QED
            BY <1>1, <1>3, <1>4, <3>2, <3>5, DoneMeans DEF CutInv
    <2>6. n + 1 \in 1..m /\ n + 1 <= m /\ n + 1 \in 1..(m + 1)
        BY <1>5, <2>4, <2>5
    <2>7. PICK wanted : wanted = expected[n + 1]
        OBVIOUS
    <2>8. q[n + 1] = wanted.text \o q[n + 2] /\ Begins(q[n + 1], wanted) /\ IsText(q[n + 1])
          /\ IsText(q[n + 2]) /\ IsText(wanted.text)
        <3>1. n + 1 + 1 = n + 2 /\ n + 2 \in 1..(m + 1)
            BY <1>5, <2>6, <2>4
        <3>2. QED
            BY <2>2, <2>3, <2>6, <2>7, <3>1 DEF CutInto
    <2>9. token.kind = wanted.kind /\ token.text = wanted.text
        BY <1>7, <2>2, <2>8, BeginsOnce
    <2>10. Found(token) = wanted
        <3>1. wanted = Found(wanted)
            BY <2>1, <2>3, <2>6, <2>7 DEF ExpectedInv
        <3>2. QED
            BY <2>9, <3>1 DEF Found
    <2>11. q[n + 2] = Rest(r)
        <3>1. PICK a, b, c : a = token.text /\ b = q[n + 2] /\ c = Rest(r)
            OBVIOUS
        <3>2. a \o b = a \o c /\ IsSeq(a) /\ IsSeq(b) /\ IsSeq(c)
            BY <1>8, <2>2, <2>8, <2>9, <3>1 DEF IsText
        <3>3. b = c
            BY <3>2, FrontsCancel
        <3>4. QED
            BY <3>1, <3>3
    <2>12. \A k \in 1..(n + 1) : Found(tokens'[k]) = expected[k]
        BY <1>3, <1>5, <1>6, <2>1, <2>7, <2>10 DEF ExpectedInv
    <2>13. Len(tokens') <= m /\ Len(tokens') + 1 = n + 2
        BY <1>5, <2>6
    <2>14. \E p : CutInto(expected, p) /\ p[Len(tokens') + 1] = Rest(r)
        BY <2>2, <2>11, <2>13
    <2>15. QED
        BY <1>4, <1>5, <1>8, <2>1, <2>3, <2>12, <2>13, <2>14 DEF ExpectedInv
<1>12. QED
    BY <1>2, <1>4, <1>9, <1>10, <1>11 DEF KeepInv

-----------------------------------------------------------------------------
(* A rename *)

\* Nothing is behind the end, and a token before it has characters.
LEMMA EndIsNothing ==
    ASSUME NEW q, IsText(q), NEW token, NEW rest, IsText(rest), IsText(token.text),
           q = token.text \o rest, Begins(q, token)
    PROVE  /\ token.kind = "END" => q = <<>> /\ token.text = <<>> /\ rest = <<>>
           /\ token.kind # "END" => /\ q # <<>> /\ token.text # <<>> /\ q[1] = token.text[1]
<1>1. ASSUME q # <<>>
      PROVE  token.kind # "END" /\ token.text # <<>> /\ q[1] = token.text[1]
    <2>1. Was(token, q[1], Tail(q)) /\ IsText(Tail(q))
        BY <1>1, HeadJoins DEF Begins
    <2>2. PICK n \in 0..Len(Tail(q)) : /\ Len(token.text) = n + 1 /\ token.text[1] = q[1]
                                       /\ ReadOff(q[1], Tail(q), n, token.kind)
        BY <2>1, WasFacts
    <2>3. token.kind # "END"
        BY <2>2, KindsRead
    <2>4. token.text # <<>>
        <3>1. Len(token.text) # 0
            BY <2>2
        <3>2. Len(<<>>) = 0
            BY Tuples
        <3>3. QED
            BY <3>1, <3>2
    <2>5. QED
        BY <2>2, <2>3, <2>4
<1>2. ASSUME q = <<>>
      PROVE  token.kind = "END" /\ token.text = <<>> /\ rest = <<>>
    <2>1. token.kind = "END" /\ token.text = <<>>
        BY <1>2 DEF Begins
    <2>2. <<>> \o rest = rest
        BY NothingJoins DEF IsText
    <2>3. QED
        BY <1>2, <2>1, <2>2
<1>3. QED
    BY <1>1, <1>2

\* Tokens that differ in one of them, a symbol and another one.
SameBut(found, all, n, i) ==
    /\ n \in Nat /\ Len(all) = n /\ Len(found) = n /\ found[n].kind = "END"
    /\ i \in 1..n /\ found[i].kind = "SYMBOL" /\ (IsName(found[i].text) => IsName(all[i].text))
    /\ \A k \in 1..n : all[k].kind = found[k].kind /\ (k # i => all[k].text = found[k].text)

\* The text that tokens are put together to, from each of them on.
Together(all, n, p) ==
    /\ p[n + 1] = <<>>
    /\ \A k \in 1..n : IsText(all[k].text) /\ p[k] = all[k].text \o p[k + 1]
    /\ \A k \in 1..(n + 1) : IsText(p[k])

\* Texts cut into tokens stay so when one symbol becomes another one.
LEMMA CutRenamed ==
    ASSUME NEW found, NEW all, NEW n, NEW i, SameBut(found, all, n, i),
           NEW q, CutInto(found, q), NoEarlyEnd(found), NEW p, Together(all, n, p)
    PROVE  CutInto(all, p)
<1> USE DEF SameBut, Together
<1>1. n \in Nat \ {0} /\ n \in 1..n /\ i # n
    OBVIOUS
<1>2. \A k \in 1..n : k + 1 \in 1..(n + 1) /\ k \in 1..(n + 1)
    OBVIOUS
<1>3. \A k \in 1..n : k # n => k \in 1..(n - 1) /\ k + 1 \in 1..n
    BY <1>1
<1>4. \A k \in 1..n : /\ IsText(found[k].text) /\ q[k] = found[k].text \o q[k + 1]
                      /\ Begins(q[k], found[k]) /\ IsText(q[k]) /\ IsText(q[k + 1])
    BY <1>2 DEF CutInto
<1>5. \A k \in 1..n : k # n => found[k].kind # "END"
    BY <1>3 DEF NoEarlyEnd
<1>6a. ASSUME NEW k \in 1..n
       PROVE  /\ found[k].kind = "END" => q[k] = <<>> /\ found[k].text = <<>>
              /\ found[k].kind # "END" => /\ q[k] # <<>> /\ found[k].text # <<>>
                                          /\ q[k][1] = found[k].text[1]
    <2>1. PICK token, whole, rest : token = found[k] /\ whole = q[k] /\ rest = q[k + 1]
        OBVIOUS
    <2>2. IsText(whole) /\ IsText(rest) /\ IsText(token.text) /\ whole = token.text \o rest
          /\ Begins(whole, token)
        BY <1>4, <2>1
    <2>3. /\ token.kind = "END" => whole = <<>> /\ token.text = <<>>
          /\ token.kind # "END" => /\ whole # <<>> /\ token.text # <<>> /\ whole[1] = token.text[1]
        BY <2>2, EndIsNothing
    <2>4. QED
        BY <2>1, <2>3
<1>6. \A k \in 1..n : k # n => /\ q[k] # <<>> /\ found[k].text # <<>> /\ q[k][1] = found[k].text[1]
    BY <1>5, <1>6a
<1>7. q[n] = <<>> /\ found[n].text = <<>>
    BY <1>1, <1>6a
<1>8. IsName(all[i].text) /\ IsName(found[i].text) /\ (q[i + 1] # <<>> => ~InWord(q[i + 1][1]))
    BY <1>1, <1>4, <1>6, SymbolIsName
<1>9. p[n] = <<>> /\ all[n].text = <<>>
    <2>1. all[n].text = <<>>
        BY <1>1, <1>7
    <2>2. <<>> \o <<>> = <<>>
        BY SmallTexts, NothingJoins DEF IsText
    <2>3. p[n] = all[n].text \o p[n + 1]
        BY <1>1
    <2>4. QED
        BY <2>1, <2>2, <2>3
<1>10. ASSUME NEW k \in 1..n, k # n
       PROVE  p[k] # <<>> /\ all[k].text # <<>> /\ AlikeChars(q[k][1], p[k][1])
    <2>1. PICK word, rest : word = all[k].text /\ rest = p[k + 1]
        OBVIOUS
    <2>2. IsText(word) /\ IsText(rest) /\ p[k] = word \o rest
        BY <1>2, <2>1
    <2>3. word # <<>> /\ AlikeChars(found[k].text[1], word[1])
        <3>1. CASE k = i
            <4>1. word # <<>> /\ kind_by_char(word[1]) = "Word" /\ kind_by_char(found[i].text[1]) = "Word"
                BY <1>8, <2>1, <3>1 DEF IsName
            <4>2. QED
                BY <3>1, <4>1 DEF AlikeChars
        <3>2. CASE k # i
            BY <1>6, <1>10, <2>1, <3>2 DEF AlikeChars
        <3>3. QED
            BY <3>1, <3>2
    <2>4. p[k] # <<>> /\ p[k][1] = word[1]
        BY <2>2, <2>3, FrontFacts
    <2>5. QED
        BY <1>6, <1>10, <2>1, <2>3, <2>4
<1>11. ASSUME NEW k \in 1..n PROVE Begins(p[k], all[k])
    <2>1. CASE k = n
        BY <1>1, <1>9, <2>1 DEF Begins
    <2>2. CASE k = i
        <3>1. p[i + 1] # <<>> => ~InWord(p[i + 1][1])
            <4>1. SUFFICES ASSUME p[i + 1] # <<>> PROVE ~InWord(p[i + 1][1])
                OBVIOUS
            <4>2. i + 1 \in 1..n /\ i + 1 # n
                BY <1>1, <1>3, <1>9, <4>1
            <4>3. q[i + 1] # <<>> /\ AlikeChars(q[i + 1][1], p[i + 1][1])
                BY <1>6, <1>10, <4>2
            <4>4. QED
                BY <1>8, <4>3, AlikeFacts
        <3>2. IsText(p[i + 1]) /\ all[i].kind = "SYMBOL" /\ p[i] = all[i].text \o p[i + 1]
            BY <1>2
        <3>3. PICK token, rest : token = all[i] /\ rest = p[i + 1]
            OBVIOUS
        <3>4. IsName(token.text) /\ IsText(rest) /\ (rest # <<>> => ~InWord(rest[1]))
              /\ token.kind = "SYMBOL"
            BY <1>8, <3>1, <3>2, <3>3
        <3>5. Begins(token.text \o rest, token)
            BY <3>4, NameIsSymbol
        <3>6. QED
            BY <2>2, <3>2, <3>3, <3>5
    <2>3. CASE k # i /\ k # n
        <3>1. PICK token, rest, other : token = found[k] /\ rest = q[k + 1] /\ other = p[k + 1]
            OBVIOUS
        <3>2. IsText(token.text) /\ token.text # <<>> /\ IsText(rest) /\ IsText(other)
              /\ Begins(token.text \o rest, token)
            <4>1. IsText(token.text) /\ IsText(rest) /\ Begins(token.text \o rest, token)
                BY <1>4, <3>1
            <4>2. QED
                BY <1>2, <1>6, <2>3, <3>1, <4>1
        <3>3. Begins(token.text \o other, token)
            <4>1. CASE k + 1 = n
                BY <1>7, <1>9, <3>1, <3>2, <4>1
            <4>2. CASE k + 1 # n
                <5>1. k + 1 \in 1..n
                    BY <1>3, <2>3
                <5>2. rest # <<>> /\ other # <<>> /\ AlikeChars(rest[1], other[1])
                    BY <1>6, <1>10, <3>1, <4>2, <5>1
                <5>3. QED
                    BY <3>2, <5>2, BeginsLocally
            <4>3. QED
                BY <4>1, <4>2
        <3>4. all[k].text = token.text /\ all[k].kind = token.kind /\ p[k] = all[k].text \o other
            BY <2>3, <3>1
        <3>5. PICK whole, same : whole = p[k] /\ same = all[k]
            OBVIOUS
        <3>6. Begins(whole, token) /\ token.text = same.text /\ token.kind = same.kind
            BY <3>3, <3>4, <3>5
        <3>7. Begins(whole, same)
            BY <3>6, BeginsSame
        <3>8. QED
            BY <3>5, <3>7
    <2>4. QED
        BY <2>1, <2>2, <2>3
<1>12. QED
    BY <1>11 DEF CutInto

\* What a rename puts in a symbol's place is a symbol.
LEMMA RenamedSymbol ==
    ASSUME NEW symbol, IsText(symbol), NEW name, IsText(name),
           validate_symbol(name), IsName(symbol), NEW renamed,
           renamed = name \o SubSeq(symbol, Len(Name(symbol)) + 1, Len(symbol))
    PROVE  IsText(renamed) /\ (~HexFraction(renamed) => IsName(renamed))
<1>1. PICK n, m : n = Leading(symbol, LAMBDA c : c \notin {".", ":"}) /\ m = Len(symbol)
    OBVIOUS
<1>2. n \in 0..m /\ m \in Nat /\ (n < m => symbol[n + 1] \in {".", ":"})
    BY <1>1, LeadingFacts, SeqFacts DEF IsText
<1>3. PICK front, suffix : front = SubSeq(symbol, 1, n) /\ suffix = SubSeq(symbol, n + 1, m)
    OBVIOUS
<1>4. IsText(front) /\ IsText(suffix) /\ front \o suffix = symbol
    BY <1>1, <1>2, <1>3, TextIsCut
<1>5. Len(Name(symbol)) = n
    <2>1. PICK S : symbol \in Seq(S)
        BY DEF IsText, IsSeq
    <2>2. \A k \in 1..n : symbol[k] \in S
        BY <1>1, <1>2, <2>1, ElementOfSeq
    <2>3. Len(SubSeq(symbol, 1, n)) = n
        BY <1>2, <2>2, SubSeqProperties
    <2>4. QED
        BY <1>1, <2>3 DEF Name
<1>6. suffix # <<>> => suffix[1] \in {".", ":"}
    <2>1. IsSeq(symbol)
        BY DEF IsText
    <2>2. Len(suffix) = m - n /\ \A k \in 1..(m - n) : suffix[k] = symbol[n + k]
        BY <1>1, <1>2, <1>3, <2>1, SuffixFacts
    <2>3. SUFFICES ASSUME suffix # <<>> PROVE suffix[1] \in {".", ":"}
        OBVIOUS
    <2>4. Len(suffix) # 0
        BY <1>4, <2>3, SeqFacts DEF IsText
    <2>5. n < m /\ 1 \in 1..(m - n)
        BY <1>2, <2>2, <2>4
    <2>6. QED
        BY <1>2, <2>2, <2>5
<1>7. IsName(name) /\ ToSet(name) \cap {".", ":"} = {}
    BY ValidIsName
<1>8. IsSeq(front) /\ IsName(front \o suffix)
    BY <1>4 DEF IsText
<1>9. IsText(name \o suffix) /\ (~HexFraction(name \o suffix) => IsName(name \o suffix))
    BY <1>4, <1>6, <1>7, <1>8, RenamedIsName, TextsJoin
<1>10. renamed = name \o suffix
    BY <1>1, <1>3, <1>5
<1>11. QED
    BY <1>9, <1>10

\* Only tokens with a text that is one, and the symbol renamed, differ in nothing else.
LEMMA KeepRename == KeepInv /\ Rename => KeepInv'
<1> SUFFICES ASSUME KeepInv, Rename PROVE KeepInv'
    OBVIOUS
<1>1. LexerInv /\ CutInv
    BY DEF KeepInv, LexerInv
<1>2. LexerInv'
    BY <1>1, RenameKeeps
<1>3. IsSeq(tokens) /\ Done /\ expected = None
    BY <1>1 DEF CutInv, Rename
<1>4. PICK n : n = Len(tokens)
    OBVIOUS
<1>5. n \in Nat \ {0} /\ tokens[n].kind = "END" /\ DOMAIN tokens = 1..n
    BY <1>3, <1>4, DoneMeans, SeqFacts
<1>6. PICK q : CutInto(tokens, q)
    BY <1>3 DEF KeepInv, FreshInv
<1>7. PICK i \in DOMAIN tokens, name \in NewNames :
          /\ tokens[i].kind = "SYMBOL" /\ validate_symbol(name)
          /\ LET all == [tokens EXCEPT ![i].text =
                            name \o SubSeq(tokens[i].text, Len(Name(tokens[i].text)) + 1,
                                           Len(tokens[i].text))]
             IN  /\ text' = FlattenSeq([k \in DOMAIN all |-> all[k].text])
                 /\ expected' = [k \in DOMAIN all |-> Found(all[k])]
    BY DEF Rename
<1>8. PICK symbol, renamed :
          /\ symbol = tokens[i].text
          /\ renamed = name \o SubSeq(symbol, Len(Name(symbol)) + 1, Len(symbol))
    OBVIOUS
<1>9. PICK all : all = [tokens EXCEPT ![i].text = renamed]
    OBVIOUS
<1>10. text' = FlattenSeq(TextsOf(all)) /\ expected' = [k \in DOMAIN all |-> Found(all[k])]
    BY <1>7, <1>8, <1>9 DEF TextsOf
<1>11. i \in 1..n /\ \A k \in 1..n : IsText(tokens[k].text)
    BY <1>4, <1>5, <1>6 DEF CutInto
<1>12. all = [k \in 1..n |-> IF k = i THEN [tokens[i] EXCEPT !.text = renamed] ELSE tokens[k]]
    BY <1>5, <1>9
<1>13. \A k \in 1..n : /\ all[k].kind = tokens[k].kind
                       /\ all[k].text = IF k = i THEN renamed ELSE tokens[k].text
    <2>1. "text" \in DOMAIN tokens[i] /\ "kind" \in DOMAIN tokens[i]
        BY <1>1, <1>4, <1>11 DEF CutInv, KeepInv
    <2>2. QED
        BY <1>12, <2>1
<1>14. IsText(renamed) /\ IsName(symbol) /\ (~HexFraction(renamed) => IsName(renamed))
    <2>1. IsText(name) /\ IsText(symbol)
        BY <1>8, <1>11, TextsAreTexts
    <2>2. PICK token, whole, rest : token = tokens[i] /\ whole = q[i] /\ rest = q[i + 1]
        OBVIOUS
    <2>3. i + 1 \in 1..(n + 1) /\ i \in 1..(n + 1)
        BY <1>5, <1>11
    <2>4. IsText(token.text) /\ whole = token.text \o rest /\ Begins(whole, token)
          /\ IsText(whole) /\ IsText(rest) /\ token.kind = "SYMBOL" /\ token.text = symbol
        BY <1>4, <1>6, <1>7, <1>8, <1>11, <2>2, <2>3 DEF CutInto
    <2>5. token.text # <<>>
        BY <2>4, EndIsNothing
    <2>6. IsName(token.text)
        BY <2>4, <2>5, SymbolIsName
    <2>7. QED
        BY <1>7, <1>8, <2>1, <2>4, <2>6, RenamedSymbol
<1>15. PICK e : e = [k \in DOMAIN all |-> Found(all[k])]
    OBVIOUS
<1>16. IsSeq(all) /\ Len(all) = n /\ IsSeq(e) /\ Len(e) = n
    <2>1. DOMAIN all = 1..n
        BY <1>12
    <2>2. PICK S, T : S = {all[k] : k \in 1..n} /\ T = {e[k] : k \in 1..n}
        OBVIOUS
    <2>3. all \in [1..n -> S]
        BY <1>12, <2>1, <2>2
    <2>4. e \in [1..n -> T]
        BY <1>15, <2>1, <2>2
    <2>5. all \in Seq(S) /\ Len(all) = n
        BY <1>5, <2>3
    <2>6. e \in Seq(T) /\ Len(e) = n
        BY <1>5, <2>4
    <2>7. QED
        BY <2>5, <2>6 DEF IsSeq
<1>17. \A k \in 1..n : /\ e[k].kind = all[k].kind /\ e[k].text = all[k].text
                       /\ e[k] = Found(e[k])
    BY <1>12, <1>15 DEF Found
<1>18. \A k \in 1..n : IsText(all[k].text) /\ IsText(e[k].text)
    BY <1>11, <1>13, <1>14, <1>17
<1>19. PICK seqs : seqs = TextsOf(all)
    OBVIOUS
<1>20. IsSeq(seqs) /\ Len(seqs) = n /\ (\A k \in 1..n : seqs[k] = e[k].text) /\ AllTexts(seqs)
    <2>1. IsSeq(seqs) /\ Len(seqs) = n /\ \A k \in 1..n : seqs[k] = all[k].text
        BY <1>16, <1>19, TextsOfFacts
    <2>2. QED
        BY <1>17, <1>18, <2>1 DEF AllTexts
<1>21. PICK p : Remains(seqs, p) /\ \A k \in 1..(Len(seqs) + 1) : IsText(p[k])
    BY <1>20, RemainsExist
<1>22. p[1] = text' /\ IsText(text')
    BY <1>10, <1>19, <1>20, <1>21, RemainsAll, JoinedIsText
<1>23. Together(e, n, p)
    BY <1>18, <1>20, <1>21 DEF Remains, Together
<1>24. NoEarlyEnd(tokens)
    BY DEF KeepInv
<1>25. ~HexFractionIn(e) => CutInto(e, p)
    <2> SUFFICES ASSUME ~HexFractionIn(e) PROVE CutInto(e, p)
        OBVIOUS
    <2>0. IsName(renamed)
        <3>1. i \in DOMAIN e /\ e[i].kind = "SYMBOL" /\ e[i].text = renamed
            BY <1>7, <1>11, <1>12, <1>13, <1>15, <1>17
        <3>2. QED
            BY <1>14, <3>1 DEF HexFractionIn
    <2>1. n \in Nat /\ Len(tokens) = n /\ Len(e) = n /\ tokens[n].kind = "END"
        BY <1>4, <1>5, <1>16
    <2>2. i \in 1..n /\ tokens[i].kind = "SYMBOL"
        BY <1>7, <1>11
    <2>3. IsName(tokens[i].text) => IsName(e[i].text)
        BY <1>11, <1>13, <1>17, <2>0
    <2>4. \A k \in 1..n : e[k].kind = tokens[k].kind /\ (k # i => e[k].text = tokens[k].text)
        BY <1>13, <1>17
    <2>5. SameBut(tokens, e, n, i)
        BY <2>1, <2>2, <2>3, <2>4 DEF SameBut
    <2>6. QED
        BY <1>6, <1>23, <1>24, <2>5, CutRenamed
<1>26. NoEarlyEnd(e) /\ e[Len(e)].kind = "END"
    <2>1. \A k \in 1..(n - 1) : k \in 1..n /\ tokens[k].kind # "END"
        BY <1>4, <1>5, <1>24 DEF NoEarlyEnd
    <2>2. \A k \in 1..n : e[k].kind = tokens[k].kind
        BY <1>13, <1>17
    <2>3. n \in 1..n
        BY <1>5
    <2>4. QED
        BY <1>5, <1>16, <2>1, <2>2, <2>3 DEF NoEarlyEnd
<1>27. tokens' = <<>> /\ lexer' = new(text') /\ expected' = e
    BY <1>10, <1>15 DEF Rename
<1>28. Len(<<>>) = 0 /\ 0 + 1 = 1 /\ ~(\E k \in 1..0 : TRUE) /\ ~(\E k \in 1..(0 - 1) : TRUE)
    BY Tuples
<1>29. Rest(lexer)' = text'
    <2>1. Rest(new(text')) = text'
        BY <1>22, NewReads
    <2>2. Rest(lexer)' = Rest(new(text'))
        BY <1>27 DEF Rest
    <2>3. QED
        BY <2>1, <2>2
<1>30. (NoEarlyEnd(tokens) /\ \A k \in 1..Len(tokens) : "kind" \in DOMAIN tokens[k])'
    BY <1>27, <1>28 DEF NoEarlyEnd
<1>31. ASSUME expected' = None PROVE FreshInv'
    <2>1. PICK s : CutInto(<<>>, s) /\ s[Len(<<>>) + 1] = Rest(new(text'))
        BY <1>22, FreshStarts
    <2>2. Rest(new(text')) = text'
        BY <1>22, NewReads
    <2>3. QED
        BY <1>27, <1>29, <2>1, <2>2 DEF FreshInv
<1>32. ASSUME ~HexFractionIn(e) PROVE ExpectedInv'
    <2>1. IsSeq(e) /\ Len(e) # 0 /\ NoEarlyEnd(e) /\ e[Len(e)].kind = "END"
        BY <1>5, <1>16, <1>26
    <2>2. \A k \in 1..Len(e) : e[k] = Found(e[k])
        BY <1>16, <1>17
    <2>3. Len(tokens') <= Len(e) /\ \A k \in 1..Len(tokens') : Found(tokens'[k]) = e[k]
        BY <1>5, <1>16, <1>27, <1>28
    <2>4. CutInto(e, p) /\ p[Len(tokens') + 1] = Rest(lexer)'
        BY <1>22, <1>25, <1>27, <1>28, <1>29, <1>32
    <2>5. QED
        BY <1>27, <2>1, <2>2, <2>3, <2>4 DEF ExpectedInv
<1>33. QED
    BY <1>2, <1>27, <1>30, <1>31, <1>32 DEF KeepInv

LEMMA KeepNext == KeepInv /\ [Next]_vars => KeepInv'
<1>1. KeepInv /\ UNCHANGED vars => KeepInv'
    <2>1. SUFFICES ASSUME KeepInv, UNCHANGED vars PROVE KeepInv'
        OBVIOUS
    <2>2. LexerInv'
        BY <2>1, NextKeeps DEF KeepInv
    <2>3. tokens' = tokens /\ expected' = expected /\ lexer' = lexer
        BY <2>1 DEF vars
    <2>4. QED
        BY <2>1, <2>2, <2>3 DEF KeepInv, FreshInv, ExpectedInv, Rest
<1>2. QED
    BY <1>1, KeepLexToken, KeepRename DEF Next

\* A rename that is let through changes the name and nothing else: what is lexed
\* off the new text is the old tokens, with the symbol in its place a symbol still,
\* unless the new name is the 0x of a fraction.
THEOREM RenamesKeepTokens == Spec => []RenameKeepsTokens
<1>1. Init => KeepInv
    BY KeepInit
<1>2. KeepInv /\ [Next]_vars => KeepInv'
    BY KeepNext
<1>3. KeepInv => RenameKeepsTokens
    BY KeepImplies
<1>4. QED
    BY <1>1, <1>2, <1>3, PTL DEF Spec

-----------------------------------------------------------------------------
(* The parts of tokens, line by line *)

\* The line of a place.
LineAt(s, b) == Cardinality(Ends(s, b))

\* Lines go up along the text, and two places are on the same one if no line ends
\* between them.
LEMMA LinesGoUp ==
    ASSUME NEW s, NEW b \in Nat, NEW c \in Nat, b <= c
    PROVE  /\ LineAt(s, b) \in Nat /\ LineAt(s, c) \in Nat
           /\ LineAt(s, b) <= LineAt(s, c)
           /\ LineAt(s, b) = LineAt(s, c) <=> \A i \in (b + 1)..c : ~EndsLine(s, i)
<1>1. IsFiniteSet(Ends(s, c)) /\ LineAt(s, b) \in Nat /\ LineAt(s, c) \in Nat
    BY EndsFinite DEF LineAt
<1>2. Ends(s, b) \in SUBSET Ends(s, c)
    BY DEF Ends
<1>3. /\ LineAt(s, b) <= LineAt(s, c)
      /\ LineAt(s, b) = LineAt(s, c) <=> Ends(s, c) = Ends(s, b)
    BY <1>1, <1>2, FS_Subset DEF LineAt
<1>4. Ends(s, c) = Ends(s, b) <=> \A i \in (b + 1)..c : ~EndsLine(s, i)
    <2>1. \A i \in (b + 1)..c : i \in 1..c /\ i \notin 1..b
        OBVIOUS
    <2>2. \A i \in 1..c : i \in 1..b \/ i \in (b + 1)..c
        OBVIOUS
    <2>3. \A i \in 1..b : i \in 1..c
        OBVIOUS
    <2>4. QED
        BY <2>1, <2>2, <2>3 DEF Ends
<1>5. QED
    BY <1>1, <1>3, <1>4

\* The places of a line are those from its start to the next one's.
LEMMA LineRange ==
    ASSUME NEW s, IsSeq(s), NEW x \in 0..(Len(s) - 1), NEW line, line = LineAt(s, x)
    PROVE  /\ line_to_char(s, line) \in 0..x /\ line_to_char(s, line + 1) \in (x + 1)..Len(s)
           /\ \A y \in 0..(Len(s) - 1) :
                 LineAt(s, y) = line <=> line_to_char(s, line) <= y /\ y < line_to_char(s, line + 1)
<1>1. Len(s) \in Nat /\ x \in Nat /\ x \in 0..Len(s)
    BY SeqFacts
<1>2. PICK n, t : n = Len(s) /\ t = line_to_char(s, line)
    OBVIOUS
<1>3. t \in 0..x /\ t = Start(s, x)
    BY <1>1, <1>2, LineStartsOnce DEF LineAt
<1>4. \A i \in (t + 1)..x : ~EndsLine(s, i)
    <2>1. Ends(s, x) \cup {0} \in SUBSET (0..x) /\ Ends(s, x) \cup {0} # {}
        BY <1>1 DEF Ends
    <2>2. \A i \in Ends(s, x) : t >= i
        BY <1>1, <1>3, <2>1, MaxIn DEF Start
    <2>3. \A i \in (t + 1)..x : i \in 1..x /\ ~(t >= i)
        BY <1>1, <1>3
    <2>4. QED
        BY <2>2, <2>3 DEF Ends
<1>5. t # 0 => EndsLine(s, t)
    <2>1. Ends(s, x) \cup {0} \in SUBSET (0..x) /\ Ends(s, x) \cup {0} # {}
        BY <1>1 DEF Ends
    <2>2. t \in Ends(s, x) \cup {0}
        BY <1>1, <1>3, <2>1, MaxIn DEF Start
    <2>3. QED
        BY <2>2 DEF Ends
<1>6. ASSUME NEW y \in Nat, y <= x
      PROVE  LineAt(s, y) = line <=> t <= y
    <2>1. LineAt(s, y) = line <=> \A i \in (y + 1)..x : ~EndsLine(s, i)
        BY <1>1, <1>6, LinesGoUp
    <2>2. CASE t <= y
        <3>1. \A i \in (y + 1)..x : i \in (t + 1)..x
            BY <1>1, <1>3, <1>6, <2>2
        <3>2. QED
            BY <1>4, <2>1, <2>2, <3>1
    <2>3. CASE y < t
        <3>1. t \in (y + 1)..x /\ t # 0
            BY <1>1, <1>3, <1>6, <2>3
        <3>2. ~(t <= y)
            BY <1>1, <1>3, <1>6, <2>3
        <3>3. QED
            BY <1>5, <2>1, <3>1, <3>2
    <2>4. QED
        BY <1>1, <1>3, <1>6, <2>2, <2>3
<1>7. PICK e : e = line_to_char(s, line + 1)
    OBVIOUS
<1>8. /\ e \in (x + 1)..n
      /\ \A i \in (x + 1)..(e - 1) : ~EndsLine(s, i)
      /\ e # n => EndsLine(s, e)
    <2> DEFINE Later == {i \in (x + 1)..n : EndsLine(s, i)}
    <2>1. CASE Later = {}
        <3>1. \A i \in (x + 1)..n : ~EndsLine(s, i)
            BY <2>1
        <3>2. LineAt(s, x) = LineAt(s, n)
            BY <1>1, <1>2, <3>1, LinesGoUp
        <3>3. line + 1 = len_lines(s)
            <4>1. {start \in LineStarts(s) : start <= n} = LineStarts(s)
                BY <1>1, <1>2 DEF LineStarts
            <4>2. n \in 0..Len(s)
                BY <1>1, <1>2
            <4>3. char_to_line(s, n) = LineAt(s, n) /\ len_lines(s) \in Nat
                BY <4>2, LinesAreCounted DEF LineAt
            <4>4. char_to_line(s, n) = len_lines(s) - 1
                BY <4>1 DEF char_to_line, len_lines
            <4>5. LineAt(s, n) \in Nat
                BY <1>1, <1>2, LinesGoUp
            <4>6. QED
                BY <3>2, <4>3, <4>4, <4>5
        <3>4. e = n
            BY <1>2, <1>7, <3>3 DEF line_to_char
        <3>5. QED
            BY <1>1, <1>2, <3>1, <3>4
    <2>2. CASE Later # {}
        <3>1. Later \in SUBSET Nat
            BY <1>1
        <3>2. PICK m : m = Min(Later)
            OBVIOUS
        <3>3. m \in Later /\ \A i \in Later : m <= i
            <4> HIDE DEF Later
            <4> QED  BY <2>2, <3>1, <3>2, MinIn, MinLeast
        <3>4. m \in (x + 1)..n /\ m \in Nat /\ EndsLine(s, m) /\ m \in 0..Len(s)
            BY <1>1, <1>2, <3>3
        <3>5. \A i \in (x + 1)..(m - 1) : ~EndsLine(s, i)
            <4>1. \A i \in (x + 1)..(m - 1) : i \in (x + 1)..n /\ ~(m <= i)
                BY <1>1, <1>2, <3>4
            <4>2. QED
                BY <3>3, <4>1
        <3>6. LineAt(s, m) = line + 1
            <4>1. m - 1 \in Nat /\ x <= m - 1
                BY <1>1, <3>4
            <4>2. LineAt(s, m - 1) = line /\ line \in Nat
                BY <1>1, <3>5, <4>1, LinesGoUp
            <4>3. Ends(s, m) = Ends(s, m - 1) \cup {m}
                BY <3>4, <4>1 DEF Ends
            <4>4. m \notin Ends(s, m - 1)
                BY <3>4 DEF Ends
            <4>5. QED
                BY <4>1, <4>2, <4>3, <4>4, EndsFinite, FS_AddElement DEF LineAt
        <3>7. Start(s, m) = m
            <4>1. Ends(s, m) \cup {0} \in SUBSET (0..m) /\ m \in Ends(s, m) \cup {0}
                BY <3>4 DEF Ends
            <4>2. Start(s, m) \in 0..m /\ Start(s, m) >= m
                BY <3>4, <4>1, MaxIn DEF Start
            <4>3. QED
                BY <3>4, <4>2
        <3>8. e = m
            BY <1>7, <3>4, <3>6, <3>7, LineStartsOnce DEF LineAt
        <3>9. QED
            BY <3>4, <3>5, <3>8
    <2>3. QED
        BY <2>1, <2>2
<1>9. ASSUME NEW y \in 0..(n - 1), x <= y
      PROVE  LineAt(s, y) = line <=> y < e
    <2>1. LineAt(s, y) = line <=> \A i \in (x + 1)..y : ~EndsLine(s, i)
        BY <1>1, <1>2, <1>9, LinesGoUp
    <2>2. CASE y < e
        <3>1. \A i \in (x + 1)..y : i \in (x + 1)..(e - 1)
            BY <1>1, <1>2, <1>8, <2>2
        <3>2. QED
            BY <1>8, <2>1, <2>2, <3>1
    <2>3. CASE e <= y
        <3>1. e \in (x + 1)..y /\ e # n /\ ~(y < e)
            BY <1>1, <1>2, <1>8, <2>3
        <3>2. QED
            BY <1>8, <2>1, <3>1
    <2>4. QED
        BY <1>1, <1>2, <1>8, <2>2, <2>3
<1>10. ASSUME NEW y \in 0..(n - 1)
       PROVE  LineAt(s, y) = line <=> t <= y /\ y < e
    <2>1. CASE y <= x
        <3>1. y \in Nat /\ y < e
            BY <1>1, <1>2, <1>8, <2>1
        <3>2. QED
            BY <1>6, <2>1, <3>1
    <2>2. CASE x <= y
        <3>1. t <= y
            BY <1>1, <1>2, <1>3, <2>2
        <3>2. QED
            BY <1>9, <2>2, <3>1
    <2>3. QED
        BY <1>1, <1>2, <2>1, <2>2
<1>11. QED
    BY <1>2, <1>3, <1>7, <1>8, <1>10

\* In a part of a line, only line breaks stand behind a line break.
LEMMA BreaksEnd ==
    ASSUME NEW s, NEW f \in Nat, NEW e \in Nat,
           \A y \in f..(e - 1) : LineAt(s, y) = LineAt(s, f),
           NEW i \in (f + 1)..e, s[i] \in Breaks, NEW j \in (i + 1)..e
    PROVE  s[j] \in Breaks
<1>1. ASSUME NEW k \in (f + 1)..(e - 1)
      PROVE  ~EndsLine(s, k)
    <2>1. k \in f..(e - 1) /\ k \in Nat /\ f <= k /\ k \in (f + 1)..k
        OBVIOUS
    <2>2. LineAt(s, f) = LineAt(s, k)
        BY <2>1
    <2>3. QED
        BY <2>1, <2>2, LinesGoUp
<1>2. i \in (f + 1)..(e - 1) /\ i \in Nat /\ j \in Nat
    OBVIOUS
<1>3. s[i] = "return" /\ s[i + 1] = "newline"
    BY <1>1, <1>2 DEF EndsLine, Breaks
<1>4. CASE j = i + 1
    BY <1>3, <1>4 DEF Breaks
<1>5. CASE j # i + 1
    <2>1. i + 1 \in (f + 1)..(e - 1)
        BY <1>2, <1>5
    <2>2. EndsLine(s, i + 1)
        BY <1>3 DEF EndsLine
    <2>3. QED
        BY <1>1, <2>1, <2>2
<1>6. QED
    BY <1>4, <1>5

\* What is trimmed off are the line breaks.
LEMMA TrimmedFacts ==
    ASSUME NEW s, NEW f \in Nat, NEW e \in Nat, f <= e,
           \A y \in f..(e - 1) : LineAt(s, y) = LineAt(s, f)
    PROVE  /\ Trimmed(s, f, e) \in 0..(e - f)
           /\ \A i \in (f + 1)..e : i <= f + Trimmed(s, f, e) <=> s[i] \notin Breaks
<1> DEFINE S == {n \in 0..(e - f) : n = 0 \/ s[f + n] \notin {"newline", "return"}}
<1>1. S \in SUBSET (0..(e - f)) /\ S # {} /\ e - f \in Nat
    <2>1. 0 \in S
        OBVIOUS
    <2>2. QED
        BY <2>1
<1>2. PICK n : n = Max(S)
    OBVIOUS
<1>3. n \in S /\ \A k \in S : n >= k
    <2> HIDE DEF S
    <2> QED  BY <1>1, <1>2, MaxIn
<1>4. Trimmed(s, f, e) = n
    BY <1>2 DEF Trimmed
<1>5. n \in 0..(e - f) /\ (n # 0 => s[f + n] \notin Breaks)
    BY <1>3 DEF Breaks
<1>6. ASSUME NEW i \in (f + 1)..e
      PROVE  i <= f + n <=> s[i] \notin Breaks
    <2>1. CASE i <= f + n
        <3>1. SUFFICES ASSUME s[i] \in Breaks PROVE FALSE
            BY <2>1
        <3>2. n # 0 /\ f + n \in Nat /\ f + n \in (f + 1)..e
            BY <1>5, <2>1
        <3>3. i # f + n
            BY <1>5, <3>1, <3>2
        <3>4. f + n \in (i + 1)..e
            BY <2>1, <3>2, <3>3
        <3>5. s[f + n] \in Breaks
            BY <3>1, <3>4, BreaksEnd
        <3>6. QED
            BY <1>5, <3>2, <3>5
    <2>2. CASE f + n < i
        <3>1. i - f \in 0..(e - f) /\ i - f # 0 /\ ~(n >= i - f) /\ f + (i - f) = i /\ ~(i <= f + n)
            BY <1>5, <2>2
        <3>2. i - f \notin S
            BY <1>3, <3>1
        <3>3. s[i] \in Breaks
            BY <3>1, <3>2 DEF Breaks
        <3>4. QED
            BY <3>1, <3>3
    <2>3. QED
        BY <1>5, <2>1, <2>2
<1>7. QED
    BY <1>4, <1>5, <1>6

\* Every line between those of two places is that of a place between them.
LEMMA LinesBetween ==
    ASSUME NEW s, NEW a \in Nat, NEW c \in Nat, a <= c, NEW line \in LineAt(s, a)..LineAt(s, c)
    PROVE  \E x \in a..c : LineAt(s, x) = line
<1>0. \A y \in Nat : LineAt(s, y) \in Nat
    BY EndsFinite DEF LineAt
<1>1. line \in Nat /\ LineAt(s, a) <= line /\ line <= LineAt(s, c)
    BY <1>0
<1> DEFINE S == {y \in a..c : LineAt(s, y) <= line}
<1>2. S \in SUBSET (0..c) /\ a \in S
    BY <1>1
<1>3. PICK x : x = Max(S)
    OBVIOUS
<1>4. x \in S /\ \A y \in S : x >= y
    <2> HIDE DEF S
    <2> QED  BY <1>2, <1>3, MaxIn
<1>5. x \in a..c /\ x \in Nat /\ LineAt(s, x) <= line /\ LineAt(s, x) \in Nat
    BY <1>0, <1>4
<1>6. CASE x = c
    BY <1>0, <1>1, <1>5, <1>6
<1>7. CASE x # c
    <2>1. x + 1 \in a..c /\ x + 1 \in Nat /\ ~(x >= x + 1)
        BY <1>5, <1>7
    <2>2. x + 1 \notin S
        BY <1>4, <2>1
    <2>3. ~(LineAt(s, x + 1) <= line)
        BY <2>1, <2>2
    <2>4. LineAt(s, x + 1) <= LineAt(s, x) + 1
        <3>1. Ends(s, x + 1) \in SUBSET (Ends(s, x) \cup {x + 1})
            BY <1>5 DEF Ends
        <3>2. /\ IsFiniteSet(Ends(s, x) \cup {x + 1})
              /\ Cardinality(Ends(s, x) \cup {x + 1}) <= LineAt(s, x) + 1
            <4>1. IsFiniteSet(Ends(s, x))
                BY <1>5, EndsFinite
            <4>2. QED
                BY <1>5, <4>1, FS_AddElement DEF LineAt
        <3>3. /\ Cardinality(Ends(s, x + 1)) <= Cardinality(Ends(s, x) \cup {x + 1})
              /\ Cardinality(Ends(s, x) \cup {x + 1}) \in Nat
            BY <3>1, <3>2, FS_Subset, FS_CardinalityType
        <3>4. QED
            BY <1>0, <1>5, <2>1, <3>2, <3>3 DEF LineAt
    <2>5. LineAt(s, x) = line
        BY <1>0, <1>1, <1>5, <2>1, <2>3, <2>4
    <2>6. QED
        BY <1>5, <2>5
<1>8. QED
    BY <1>5, <1>6, <1>7

\* The first character of a segment, counted from 0, and its characters, from 1.
First(s, g) == line_to_char(s, g.line) + g.col
Chars(s, g) == (First(s, g) + 1)..(First(s, g) + g.len)

\* The part that a token between two places has of a line.
SegmentOn(s, token, a, b, line) ==
    LET first == Max({a, line_to_char(s, line)})
        last == Min({b, line_to_char(s, line + 1)})
    IN  [line |-> line, col |-> first - line_to_char(s, line),
         len |-> Trimmed(s, first, last), type |-> Classification(token.kind)]

Between(s, token, a, b) ==
    /\ a \in 0..Len(s) /\ b \in a..Len(s)
    /\ token.start = char_to_byte(s, a) /\ token.end = char_to_byte(s, b)

\* A token has its parts on the lines of its places.
LEMMA SegmentsAre ==
    ASSUME NEW s, IsSeq(s), NEW token, NEW a, NEW b, Between(s, token, a, b)
    PROVE  Segments(s, token)
               = IF a = b THEN {}
                 ELSE {g \in {SegmentOn(s, token, a, b, line) :
                                 line \in LineAt(s, a)..LineAt(s, b - 1)} : g.len > 0}
<1>1. /\ Len(s) \in Nat /\ a \in Nat /\ b \in Nat /\ a <= b /\ b \in 0..Len(s) /\ a \in 0..Len(s)
      /\ b \in a..Len(s)
    BY SeqFacts DEF Between
<1>2. /\ token.start \in Nat /\ token.end \in Nat /\ Width(s, Utf8) \in Nat
      /\ token.end <= Width(s, Utf8)
      /\ byte_to_char(s, token.start) = a /\ byte_to_char(s, token.end) = b
    BY <1>1, BytesPlace DEF Between
<1>3. a < b => token.start < token.end
    BY <1>1, BytesGrow DEF Between
<1>4. CASE a = b
    <2>1. token.start >= token.end
        BY <1>2, <1>4 DEF Between
    <2>2. QED
        BY <1>4, <2>1 DEF Segments
<1>5. CASE a # b
    <2>1. ~(token.start >= token.end \/ token.start >= Width(s, Utf8)) /\ b # 0
        BY <1>1, <1>2, <1>3, <1>5
    <2>2. (IF token.end < Width(s, Utf8) THEN token.end ELSE Width(s, Utf8)) = token.end
        BY <1>2
    <2>3. b - 1 \in 0..Len(s)
        BY <1>1, <1>5
    <2>4. char_to_line(s, a) = LineAt(s, a) /\ char_to_line(s, b - 1) = LineAt(s, b - 1)
        BY <1>1, <2>3, LinesAreCounted DEF LineAt
    <2>5. (IF b = 0 THEN 0 ELSE b - 1) = b - 1
        BY <2>1
    <2>6. QED
        BY <1>2, <1>5, <2>1, <2>2, <2>4, <2>5 DEF Segments, SegmentOn
<1>6. QED
    BY <1>4, <1>5

\* The larger and the smaller of two numbers.
LEMMA TwoNumbers ==
    ASSUME NEW x \in Nat, NEW y \in Nat
    PROVE  /\ Max({x, y}) \in {x, y} /\ Max({x, y}) >= x /\ Max({x, y}) >= y
           /\ Min({x, y}) \in {x, y} /\ Min({x, y}) <= x /\ Min({x, y}) <= y
<1> DEFINE S == {x, y}
<1>1. S \in SUBSET (0..(x + y)) /\ S \in SUBSET Nat /\ S # {} /\ x + y \in Nat /\ x \in S /\ y \in S
    OBVIOUS
<1>2. Max(S) \in S /\ \A z \in S : Max(S) >= z
    <2> HIDE DEF S
    <2> QED  BY <1>1, MaxIn
<1>3. Min(S) \in S /\ Min(S) <= x /\ Min(S) <= y
    <2> HIDE DEF S
    <2> QED  BY <1>1, MinIn, MinLeast
<1>4. QED
    BY <1>1, <1>2, <1>3

\* Where the part of a token lies, of what kind it is, and which of the token's
\* characters are its.
PartOf(s, token, a, b, g) ==
    /\ g.line \in Nat /\ g.col \in Nat /\ g.len \in Nat
    /\ g.type = Classification(token.kind)
    /\ First(s, g) \in a..(b - 1) /\ First(s, g) + g.len <= b
    /\ \A c \in (a + 1)..b :
          c \in Chars(s, g) <=> LineAt(s, c - 1) = g.line /\ s[c] \notin Breaks

\* A token's part of a line holds its characters on this line, but for the line
\* breaks.
LEMMA SegmentOnFacts ==
    ASSUME NEW s, IsSeq(s), NEW token, NEW a \in Nat, NEW b \in Nat, a < b, b <= Len(s),
           NEW line \in LineAt(s, a)..LineAt(s, b - 1), NEW g, g = SegmentOn(s, token, a, b, line)
    PROVE  g.line = line /\ PartOf(s, token, a, b, g)
<1>1. Len(s) \in Nat /\ b - 1 \in Nat /\ a <= b - 1
    BY SeqFacts
<1>2. LineAt(s, a) \in Nat /\ LineAt(s, b - 1) \in Nat
    BY <1>1, LinesGoUp
<1>3. line \in Nat
    BY <1>2
<1>4. PICK x \in a..(b - 1) : LineAt(s, x) = line
    BY <1>1, LinesBetween
<1>5. x \in 0..(Len(s) - 1) /\ x \in Nat
    BY <1>1, <1>4
<1>6. PICK t, e : t = line_to_char(s, line) /\ e = line_to_char(s, line + 1)
    OBVIOUS
<1>7. /\ t \in 0..x /\ e \in (x + 1)..Len(s)
      /\ \A y \in 0..(Len(s) - 1) : LineAt(s, y) = line <=> t <= y /\ y < e
    BY <1>4, <1>5, <1>6, LineRange
<1>8. t \in Nat /\ e \in Nat
    BY <1>1, <1>5, <1>7
<1>9. PICK f, l : f = Max({a, t}) /\ l = Min({b, e})
    OBVIOUS
<1>10. /\ f \in {a, t} /\ f >= a /\ f >= t
       /\ l \in {b, e} /\ l <= b /\ l <= e
    BY <1>8, <1>9, TwoNumbers
<1>11. f \in Nat /\ l \in Nat /\ f <= x /\ x < l /\ f <= l
    BY <1>1, <1>4, <1>5, <1>7, <1>8, <1>10
<1>12. PICK n : n = Trimmed(s, f, l)
    OBVIOUS
<1>13. /\ n \in 0..(l - f)
       /\ \A i \in (f + 1)..l : i <= f + n <=> s[i] \notin Breaks
    <2>1. \A y \in f..(l - 1) : y \in 0..(Len(s) - 1) /\ t <= y /\ y < e
        BY <1>1, <1>8, <1>10, <1>11
    <2>2. \A y \in f..(l - 1) : LineAt(s, y) = line
        BY <1>7, <2>1
    <2>3. f \in f..(l - 1)
        BY <1>11
    <2>4. \A y \in f..(l - 1) : LineAt(s, y) = LineAt(s, f)
        BY <2>2, <2>3
    <2>5. QED
        BY <1>11, <1>12, <2>4, TrimmedFacts
<1>14. g = [line |-> line, col |-> f - t, len |-> n, type |-> Classification(token.kind)]
    BY <1>6, <1>9, <1>12 DEF SegmentOn
<1>15. /\ g.line = line /\ g.col = f - t /\ g.len = n /\ g.type = Classification(token.kind)
    BY <1>14
<1>16. First(s, g) = f
    <2>1. t + (f - t) = f
        BY <1>8, <1>11
    <2>2. QED
        BY <1>6, <1>15, <2>1 DEF First
<1>17. f - t \in Nat /\ n \in Nat /\ f \in a..(b - 1) /\ f + n <= b
    BY <1>1, <1>4, <1>8, <1>10, <1>11, <1>13
<1>18. Chars(s, g) = (f + 1)..(f + n)
    BY <1>15, <1>16 DEF Chars
<1>19. ASSUME NEW c \in (a + 1)..b
       PROVE  c \in (f + 1)..(f + n) <=> LineAt(s, c - 1) = line /\ s[c] \notin Breaks
    <2>1. c \in Nat /\ c - 1 \in 0..(Len(s) - 1)
        BY <1>1
    <2>2. LineAt(s, c - 1) = line <=> t <= c - 1 /\ c - 1 < e
        BY <1>7, <2>1
    <2>3. t <= c - 1 /\ c - 1 < e <=> c \in (f + 1)..l
        BY <1>8, <1>10, <1>11, <2>1
    <2>4. c \in (f + 1)..(f + n) <=> c \in (f + 1)..l /\ c <= f + n
        BY <1>11, <1>13, <2>1
    <2>5. c \in (f + 1)..l => (c <= f + n <=> s[c] \notin Breaks)
        BY <1>13
    <2>6. QED
        BY <2>2, <2>3, <2>4, <2>5
<1>20. QED
    BY <1>3, <1>15, <1>16, <1>17, <1>18, <1>19 DEF PartOf

\* A token's parts are on different lines, and hold its characters but for the line
\* breaks.
LEMMA SegmentsFacts ==
    ASSUME NEW s, IsSeq(s), NEW token, NEW a, NEW b, Between(s, token, a, b)
    PROVE  /\ \A g \in Segments(s, token) : PartOf(s, token, a, b, g) /\ g.len > 0
           /\ \A g, h \in Segments(s, token) : g.line = h.line => g = h
           /\ \A c \in (a + 1)..b :
                 s[c] \notin Breaks => \E g \in Segments(s, token) : c \in Chars(s, g)
<1>1. /\ Len(s) \in Nat /\ a \in Nat /\ b \in Nat /\ a <= b /\ b <= Len(s)
    BY SeqFacts DEF Between
<1>2. CASE a = b
    <2>1. Segments(s, token) = {}
        BY <1>2, SegmentsAre
    <2>2. (a + 1)..b = {}
        BY <1>1, <1>2
    <2>3. QED
        BY <2>1, <2>2
<1>3. CASE a # b
    <2>1. PICK lines : lines = LineAt(s, a)..LineAt(s, b - 1)
        OBVIOUS
    <2>2. Segments(s, token) = {g \in {SegmentOn(s, token, a, b, line) : line \in lines} : g.len > 0}
        BY <1>3, <2>1, SegmentsAre
    <2>3. a < b
        BY <1>1, <1>3
    <2>4. ASSUME NEW line \in lines, NEW g, g = SegmentOn(s, token, a, b, line)
          PROVE  g.line = line /\ PartOf(s, token, a, b, g)
        <3>1. line \in LineAt(s, a)..LineAt(s, b - 1)
            BY <2>1
        <3>2. QED
            BY <1>1, <2>3, <2>4, <3>1, SegmentOnFacts
    <2>5. ASSUME NEW g \in Segments(s, token)
          PROVE  /\ PartOf(s, token, a, b, g) /\ g.len > 0
                 /\ g = SegmentOn(s, token, a, b, g.line)
        <3>1. PICK line \in lines : g = SegmentOn(s, token, a, b, line) /\ g.len > 0
            BY <2>2, <2>5
        <3>2. g.line = line /\ PartOf(s, token, a, b, g)
            BY <2>4, <3>1
        <3>3. QED
            BY <3>1, <3>2
    <2>6. ASSUME NEW g \in Segments(s, token), NEW h \in Segments(s, token), g.line = h.line
          PROVE  g = h
        BY <2>5, <2>6
    <2>7. ASSUME NEW c \in (a + 1)..b, s[c] \notin Breaks
          PROVE  \E g \in Segments(s, token) : c \in Chars(s, g)
        <3>1. c - 1 \in Nat /\ a <= c - 1 /\ c - 1 <= b - 1 /\ b - 1 \in Nat
            BY <1>1
        <3>2. PICK line : line = LineAt(s, c - 1)
            OBVIOUS
        <3>3. line \in lines
            <4>1. /\ LineAt(s, a) \in Nat /\ line \in Nat /\ LineAt(s, b - 1) \in Nat
                  /\ LineAt(s, a) <= line /\ line <= LineAt(s, b - 1)
                BY <1>1, <3>1, <3>2, LinesGoUp
            <4>2. QED
                BY <2>1, <4>1
        <3>4. PICK g : g = SegmentOn(s, token, a, b, line)
            OBVIOUS
        <3>5. /\ g.len \in Nat
              /\ c \in Chars(s, g) <=> LineAt(s, c - 1) = line /\ s[c] \notin Breaks
            BY <2>4, <2>7, <3>2, <3>3, <3>4 DEF PartOf
        <3>6. c \in Chars(s, g)
            BY <2>7, <3>2, <3>5
        <3>7. g.len > 0
            <4>1. First(s, g) \in a..(b - 1)
                BY <2>4, <3>3, <3>4 DEF PartOf
            <4>2. c \in (First(s, g) + 1)..(First(s, g) + g.len)
                BY <3>6 DEF Chars
            <4>3. QED
                BY <1>1, <3>5, <4>1, <4>2
        <3>8. g \in Segments(s, token)
            BY <2>2, <3>3, <3>4, <3>7
        <3>9. QED
            BY <3>6, <3>8
    <2>8. QED
        BY <2>5, <2>6, <2>7
<1>4. QED
    BY <1>2, <1>3

\* Places between tokens: from each to the next, a token.
Bounds(s, toks, a) ==
    /\ a[0] = 0 /\ \A k \in 1..Len(toks) : Between(s, toks[k], a[k - 1], a[k])

\* The tokens that were read lie one behind the other.
LEMMA TokensHaveBounds == LexerInv => \E a : Bounds(text, tokens, a)
<1> SUFFICES ASSUME LexerInv PROVE \E a : Bounds(text, tokens, a)
    OBVIOUS
<1> USE DEF LexerInv
<1>1. PICK seqs, n, rest : seqs = TextsOf(tokens) /\ n = Len(tokens) /\ rest = Rest(lexer)
    OBVIOUS
<1>2. /\ AllTexts(seqs) /\ Len(seqs) = n /\ n \in Nat /\ IsSeq(seqs) /\ IsSeq(text)
      /\ \A k \in 1..n : seqs[k] = tokens[k].text
    BY <1>1, TextsOfFacts, SeqFacts DEF CutInv, IsText
<1>3. PICK p : /\ Joins(seqs, p) /\ FlattenSeq(seqs) = p[n]
               /\ \A i \in 0..n : IsText(p[i])
    BY <1>2, TextsFlatten
<1>4. \A i \in 0..n : IsSeq(p[i]) /\ Len(p[i]) \in Nat
    BY <1>3, SeqFacts DEF IsText
<1>5. \A k \in 1..n : k \in 0..n /\ k - 1 \in 0..n /\ k - 1 + 1 = k
    BY <1>2
<1>6. \A k \in 1..n : IsSeq(seqs[k]) /\ p[k] = p[k - 1] \o seqs[k]
    BY <1>2, <1>3 DEF AllTexts, IsText, Joins
<1>7. IsSeq(rest) /\ p[n] \o rest = text
    <2>1. p[n] \o rest = text
        BY <1>1, <1>3 DEF CutInv
    <2>2. IsText(rest)
        <3>1. IsText(lexer.source)
            BY DEF CutInv, Ready
        <3>2. lexer.peek # None => IsText(<<lexer.peek>>)
            BY SmallTexts
        <3>3. PICK peeked, source : /\ peeked = IF lexer.peek = None THEN <<>> ELSE <<lexer.peek>>
                                    /\ source = lexer.source
            OBVIOUS
        <3>4. IsText(peeked) /\ IsText(source)
            BY <3>1, <3>2, <3>3, SmallTexts
        <3>5. IsText(peeked \o source)
            BY <3>4, TextsJoin
        <3>6. QED
            BY <1>1, <3>3, <3>5 DEF Rest
    <2>3. QED
        BY <2>1, <2>2 DEF IsText
\* What stands before a token begins the text.
<1> DEFINE InFront(i) == Len(p[i]) <= Len(text) /\ SubSeq(text, 1, Len(p[i])) = p[i]
<1>8. ASSUME NEW i \in 0..n, NEW q, IsSeq(q), p[i] \o q = text
      PROVE  InFront(i)
    <2>1. PICK w, m : w = p[i] /\ m = Len(w)
        OBVIOUS
    <2>2. /\ IsSeq(w) /\ m \in Nat /\ Len(q) \in Nat /\ Len(text) = m + Len(q)
          /\ \A j \in 1..m : text[j] = w[j]
        BY <1>4, <1>8, <2>1, ConcatFacts, SeqFacts
    <2>3. m <= Len(text) /\ m \in 0..Len(text)
        BY <2>2
    <2>4. IsSeq(SubSeq(text, 1, m)) /\ Len(SubSeq(text, 1, m)) = m /\ \A j \in 1..m : SubSeq(text, 1, m)[j] = text[j]
        <3>1. PICK S : text \in Seq(S)
            BY <1>2 DEF IsSeq
        <3>2. \A j \in 1..m : j \in 1..Len(text)
            BY <2>2
        <3>3. \A j \in 1..m : text[j] \in S
            BY <3>1, <3>2, ElementOfSeq
        <3>4. /\ SubSeq(text, 1, m) \in Seq(S) /\ Len(SubSeq(text, 1, m)) = m
              /\ \A j \in 1..m : SubSeq(text, 1, m)[j] = text[j]
            BY <2>2, <3>3, SubSeqProperties
        <3>5. QED
            BY <3>4 DEF IsSeq
    <2>5. SubSeq(text, 1, m) = w
        BY <2>1, <2>2, <2>4, SameSequences
    <2>6. QED
        BY <2>1, <2>3, <2>5
<1> DEFINE Going == {j \in 0..n : \E q : IsSeq(q) /\ p[n - j] \o q = text}
<1>9. 0 \in Going
    <2>1. 0 \in 0..n /\ n - 0 = n
        BY <1>2
    <2>2. QED
        BY <1>7, <2>1
<1>10. ASSUME NEW j \in 1..n, j - 1 \in Going
       PROVE  j \in Going
    <2>1. PICK k : k = n - (j - 1)
        OBVIOUS
    <2>2. k \in 1..n /\ k - 1 = n - j /\ j \in 0..n
        BY <1>2, <2>1
    <2>3. PICK q : IsSeq(q) /\ p[k] \o q = text
        BY <1>10, <2>1
    <2>4. PICK w, t : w = p[k - 1] /\ t = seqs[k]
        OBVIOUS
    <2>5. IsSeq(w) /\ IsSeq(t) /\ p[k] = w \o t
        BY <1>4, <1>5, <1>6, <2>2, <2>4
    <2>6. IsSeq(t \o q) /\ w \o (t \o q) = text
        <3>1. (w \o t) \o q = w \o (t \o q)
            BY <2>3, <2>5, JoinsAssociate
        <3>2. IsSeq(t \o q)
            BY <2>3, <2>5, ConcatFacts
        <3>3. QED
            BY <2>3, <2>5, <3>1, <3>2
    <2>7. p[n - j] = w
        BY <2>2, <2>4
    <2>8. QED
        BY <2>2, <2>6, <2>7
<1>11. \A j \in 0..n : j \in Going
    <2>1. \A j \in 1..n : j - 1 \in Going => j \in Going
        BY <1>10
    <2> HIDE DEF Going
    <2>2. QED
        BY <1>2, <1>9, <2>1, Induction
<1>12. ASSUME NEW i \in 0..n PROVE InFront(i)
    <2>1. n - i \in 0..n /\ n - (n - i) = i
        BY <1>2
    <2>2. n - i \in Going
        BY <1>11, <2>1
    <2>3. PICK q : IsSeq(q) /\ p[i] \o q = text
        BY <2>1, <2>2
    <2> HIDE DEF InFront
    <2>4. QED
        BY <1>8, <2>3
\* The widths of what stands before them are the places of the tokens.
<1>13. ASSUME NEW i \in 0..n
       PROVE  char_to_byte(text, Len(p[i])) = Width(p[i], Utf8)
    BY <1>12 DEF char_to_byte
<1> DEFINE Placed == {k \in 0..n : Width(p[k], Utf8) = IF k = 0 THEN 0 ELSE tokens[k].end}
<1>14. 0 \in Placed
    <2>1. p[0] = <<>>
        BY <1>3 DEF Joins
    <2>2. QED
        BY <1>2, <2>1, Utf8Small
<1>15. ASSUME NEW k \in 1..n
       PROVE  /\ Width(p[k], Utf8) = Width(p[k - 1], Utf8) + Width(tokens[k].text, Utf8)
              /\ tokens[k].start = IF k = 1 THEN 0 ELSE tokens[k - 1].end
              /\ tokens[k].end = tokens[k].start + Width(tokens[k].text, Utf8)
    <2>1. PICK w, t : w = p[k - 1] /\ t = seqs[k]
        OBVIOUS
    <2>2. IsSeq(w) /\ IsSeq(t) /\ p[k] = w \o t /\ t = tokens[k].text
        BY <1>2, <1>4, <1>5, <1>6, <2>1
    <2>3. Width(w \o t, Utf8) = Width(w, Utf8) + Width(t, Utf8)
        BY <2>2, Utf8Width
    <2>4. QED
        BY <1>1, <2>1, <2>2, <2>3 DEF PlaceInv
<1>16. ASSUME NEW k \in 1..n, k - 1 \in Placed PROVE k \in Placed
    <2>1. k # 0 /\ (k - 1 = 0 <=> k = 1) /\ k \in 0..n
        BY <1>2
    <2>2. QED
        BY <1>15, <1>16, <2>1
<1>17. \A k \in 0..n : k \in Placed
    <2>1. \A k \in 1..n : k - 1 \in Placed => k \in Placed
        BY <1>16
    <2> HIDE DEF Placed
    <2>2. QED
        BY <1>2, <1>14, <2>1, Induction
<1>18. PICK a : a = [i \in 0..n |-> Len(p[i])]
    OBVIOUS
<1>19. \A i \in 0..n : a[i] = Len(p[i]) /\ a[i] \in Nat /\ a[i] <= Len(text)
    BY <1>4, <1>12, <1>18
<1>20. a[0] = 0
    <2>1. p[0] = <<>> /\ Len(<<>>) = 0 /\ 0 \in 0..n
        BY <1>2, <1>3, Tuples DEF Joins
    <2>2. QED
        BY <1>19, <2>1
<1>21. ASSUME NEW k \in 1..n
       PROVE  Between(text, tokens[k], a[k - 1], a[k])
    <2>1. a[k - 1] <= a[k]
        <3>1. PICK w, t : w = p[k - 1] /\ t = seqs[k]
            OBVIOUS
        <3>2. IsSeq(w) /\ IsSeq(t) /\ p[k] = w \o t
            BY <1>4, <1>5, <1>6, <3>1
        <3>3. Len(w \o t) = Len(w) + Len(t) /\ Len(t) \in Nat /\ Len(w) \in Nat
            BY <3>2, ConcatFacts, SeqFacts
        <3>4. a[k] = Len(w \o t) /\ a[k - 1] = Len(w)
            BY <1>5, <1>19, <3>1, <3>2
        <3>5. QED
            BY <3>3, <3>4
    <2>2. Len(text) \in Nat
        BY <1>2, SeqFacts
    <2>3. a[k - 1] \in 0..Len(text) /\ a[k] \in a[k - 1]..Len(text)
        BY <1>5, <1>19, <2>1, <2>2
    <2>4. char_to_byte(text, a[k]) = tokens[k].end
        <3>1. k \in Placed /\ k # 0
            BY <1>5, <1>17
        <3>2. QED
            BY <1>5, <1>13, <1>19, <3>1
    <2>5. char_to_byte(text, a[k - 1]) = tokens[k].start
        <3>1. k - 1 \in Placed /\ (k - 1 = 0 <=> k = 1)
            BY <1>5, <1>17
        <3>2. QED
            BY <1>5, <1>13, <1>15, <1>19, <3>1
    <2>6. QED
        BY <2>3, <2>4, <2>5 DEF Between
<1>22. QED
    BY <1>1, <1>20, <1>21 DEF Bounds

-----------------------------------------------------------------------------
(* The parts of all tokens *)

\* The places between tokens go up.
LEMMA BoundsGoUp ==
    ASSUME NEW s, IsSeq(s), NEW toks, IsSeq(toks), NEW a, Bounds(s, toks, a)
    PROVE  /\ \A i \in 0..Len(toks) : a[i] \in 0..Len(s)
           /\ \A i \in 0..Len(toks) : \A j \in i..Len(toks) : a[i] <= a[j]
<1>1. PICK n : n = Len(toks)
    OBVIOUS
<1>2. n \in Nat /\ Len(s) \in Nat
    BY <1>1, SeqFacts
<1>3. \A k \in 1..n : a[k - 1] \in 0..Len(s) /\ a[k] \in a[k - 1]..Len(s)
    BY <1>1 DEF Bounds, Between
<1>4. \A i \in 0..n : a[i] \in 0..Len(s)
    <2>1. a[0] \in 0..Len(s)
        BY <1>2 DEF Bounds
    <2>2. \A i \in 1..n : a[i] \in 0..Len(s)
        BY <1>2, <1>3
    <2>3. \A i \in 0..n : i = 0 \/ i \in 1..n
        BY <1>2
    <2>4. QED
        BY <2>1, <2>2, <2>3
<1>5. ASSUME NEW i \in 0..n PROVE \A j \in i..n : a[i] <= a[j]
    <2> DEFINE Above == {j \in 0..n : j >= i => a[i] <= a[j]}
    <2>1. 0 \in Above
        <3>1. 0 >= i => i = 0
            BY <1>2
        <3>2. a[0] <= a[0] /\ 0 \in 0..n
            BY <1>2, <1>4
        <3>3. QED
            BY <3>1, <3>2
    <2>2. ASSUME NEW j \in 1..n, j - 1 \in Above PROVE j \in Above
        <3>1. j \in 0..n /\ j - 1 \in 0..n
            BY <1>2
        <3>2. a[j] \in Nat /\ a[j - 1] \in Nat /\ a[i] \in Nat /\ a[j - 1] <= a[j]
            BY <1>2, <1>3, <1>4, <3>1
        <3>3. CASE j = i
            BY <3>1, <3>2, <3>3
        <3>4. CASE j # i
            <4>1. j >= i => j - 1 >= i
                BY <1>2, <3>4
            <4>2. j >= i => a[i] <= a[j - 1]
                BY <2>2, <4>1
            <4>3. j >= i => a[i] <= a[j]
                BY <3>2, <4>2
            <4>4. QED
                BY <3>1, <4>3
        <3>5. QED
            BY <3>3, <3>4
    <2>3. \A j \in 0..n : j \in Above
        <3>1. \A j \in 1..n : j - 1 \in Above => j \in Above
            BY <2>2
        <3> HIDE DEF Above
        <3>2. QED
            BY <1>2, <2>1, <3>1, Induction
    <2>4. \A j \in i..n : j \in 0..n /\ j >= i
        BY <1>2
    <2>5. QED
        BY <2>3, <2>4
<1>6. QED
    BY <1>1, <1>4, <1>5

Classified(toks) == {k \in DOMAIN toks : Classification(toks[k].kind) # None}
SegmentsOf(s, toks) == UNION {Segments(s, toks[k]) : k \in Classified(toks)}

\* No two of the parts hold the same character, no part holds a line break, and any
\* other character of a token is in parts of the token's kind, if it is of one.
Apart(s, toks, a, parts) ==
    /\ \A g \in parts :
          /\ g.line \in Nat /\ g.col \in Nat /\ g.len \in Nat /\ g.len > 0
          /\ First(s, g) \in 0..Len(s)
          /\ \A c \in Chars(s, g) : c \in 1..Len(s) /\ s[c] \notin Breaks
    /\ \A g, h \in parts : Chars(s, g) \cap Chars(s, h) # {} => g = h
    /\ \A k \in 1..Len(toks) : \A c \in (a[k - 1] + 1)..a[k] :
          s[c] \notin Breaks =>
             {g.type : g \in {g \in parts : c \in Chars(s, g)}}
                 = {Classification(toks[k].kind)} \ {None}

LEMMA SegmentsAreApart ==
    ASSUME NEW s, IsSeq(s), NEW toks, IsSeq(toks), NEW a, Bounds(s, toks, a)
    PROVE  Apart(s, toks, a, SegmentsOf(s, toks))
<1>1. PICK n : n = Len(toks)
    OBVIOUS
<1>2. n \in Nat /\ Len(s) \in Nat /\ DOMAIN toks = 1..n
    BY <1>1, SeqFacts
<1>3. /\ \A i \in 0..n : a[i] \in 0..Len(s)
      /\ \A i \in 0..n : \A j \in i..n : a[i] <= a[j]
    BY <1>1, BoundsGoUp
<1>4. \A k \in 1..n : k \in 0..n /\ k - 1 \in 0..n
    BY <1>2
<1>5. \A k \in 1..n : a[k] \in 0..Len(s) /\ a[k - 1] \in 0..Len(s)
    BY <1>3, <1>4
<1>6. ASSUME NEW k \in 1..n
      PROVE  /\ \A g \in Segments(s, toks[k]) : PartOf(s, toks[k], a[k - 1], a[k], g) /\ g.len > 0
             /\ \A g, h \in Segments(s, toks[k]) : g.line = h.line => g = h
             /\ \A c \in (a[k - 1] + 1)..a[k] :
                   s[c] \notin Breaks => \E g \in Segments(s, toks[k]) : c \in Chars(s, g)
    <2>1. Between(s, toks[k], a[k - 1], a[k])
        BY <1>1 DEF Bounds
    <2>2. PICK token, x, y : token = toks[k] /\ x = a[k - 1] /\ y = a[k]
        OBVIOUS
    <2>3. /\ \A g \in Segments(s, token) : PartOf(s, token, x, y, g) /\ g.len > 0
          /\ \A g, h \in Segments(s, token) : g.line = h.line => g = h
          /\ \A c \in (x + 1)..y :
                s[c] \notin Breaks => \E g \in Segments(s, token) : c \in Chars(s, g)
        BY <2>1, <2>2, SegmentsFacts
    <2>4. QED
        BY <2>2, <2>3
<1>7. ASSUME NEW k \in 1..n, NEW g \in Segments(s, toks[k])
      PROVE  /\ g.line \in Nat /\ g.col \in Nat /\ g.len \in Nat /\ g.len > 0
             /\ g.type = Classification(toks[k].kind)
             /\ First(s, g) \in 0..Len(s)
             /\ \A c \in Chars(s, g) : /\ c \in (a[k - 1] + 1)..a[k] /\ c \in 1..Len(s)
                                       /\ LineAt(s, c - 1) = g.line /\ s[c] \notin Breaks
    <2>1. PartOf(s, toks[k], a[k - 1], a[k], g) /\ g.len > 0
        BY <1>6
    <2>2. PICK x, y, f, m : x = a[k - 1] /\ y = a[k] /\ f = First(s, g) /\ m = g.len
        OBVIOUS
    <2>3. x \in 0..Len(s) /\ y \in 0..Len(s)
        BY <1>5, <2>2
    <2>4. /\ g.line \in Nat /\ g.col \in Nat /\ m \in Nat /\ g.type = Classification(toks[k].kind)
          /\ f \in x..(y - 1) /\ f + m <= y
          /\ \A c \in (x + 1)..y :
                c \in Chars(s, g) <=> LineAt(s, c - 1) = g.line /\ s[c] \notin Breaks
        BY <2>1, <2>2 DEF PartOf
    <2>5. Chars(s, g) = (f + 1)..(f + m)
        BY <2>2 DEF Chars
    <2>6. f \in 0..Len(s) /\ \A c \in (f + 1)..(f + m) : c \in (x + 1)..y /\ c \in 1..Len(s)
        BY <1>2, <2>3, <2>4
    <2>7. QED
        BY <2>1, <2>2, <2>4, <2>5, <2>6
<1>8. ASSUME NEW k \in 1..n, NEW j \in 1..n, NEW c \in (a[k - 1] + 1)..a[k], c \in (a[j - 1] + 1)..a[j]
      PROVE  k = j
    <2>1. /\ a[k] \in Nat /\ a[j] \in Nat /\ a[k - 1] \in Nat /\ a[j - 1] \in Nat
          /\ a[k - 1] < c /\ c <= a[k] /\ a[j - 1] < c /\ c <= a[j] /\ c \in Nat
        <3>1. PICK u, v, x, y : u = a[k - 1] /\ v = a[k] /\ x = a[j - 1] /\ y = a[j]
            OBVIOUS
        <3>2. u \in Nat /\ v \in Nat
            BY <1>2, <1>5, <3>1
        <3>3. x \in Nat /\ y \in Nat
            BY <1>2, <1>5, <3>1
        <3>4. c \in (u + 1)..v /\ c \in (x + 1)..y
            BY <1>8, <3>1
        <3>5. u < c /\ c <= v /\ x < c /\ c <= y /\ c \in Nat
            BY <3>2, <3>3, <3>4
        <3>6. QED
            BY <3>1, <3>2, <3>3, <3>5
    <2>2. CASE k < j
        <3>1. j - 1 \in k..n /\ k \in 0..n
            BY <1>2, <2>2
        <3>2. a[k] <= a[j - 1]
            BY <1>3, <3>1
        <3>3. QED
            BY <2>1, <3>2
    <2>3. CASE j < k
        <3>1. k - 1 \in j..n /\ j \in 0..n
            BY <1>2, <2>3
        <3>2. a[j] <= a[k - 1]
            BY <1>3, <3>1
        <3>3. QED
            BY <2>1, <3>2
    <2>4. QED
        BY <1>2, <2>2, <2>3
<1>9. ASSUME NEW g \in SegmentsOf(s, toks)
      PROVE  \E k \in 1..n : Classification(toks[k].kind) # None /\ g \in Segments(s, toks[k])
    BY <1>2, <1>9 DEF SegmentsOf, Classified
<1>10. ASSUME NEW k \in 1..n, Classification(toks[k].kind) # None, NEW g \in Segments(s, toks[k])
       PROVE  g \in SegmentsOf(s, toks)
    BY <1>2, <1>10 DEF SegmentsOf, Classified
<1>11. ASSUME NEW g \in SegmentsOf(s, toks)
       PROVE  /\ g.line \in Nat /\ g.col \in Nat /\ g.len \in Nat /\ g.len > 0
              /\ First(s, g) \in 0..Len(s)
              /\ \A c \in Chars(s, g) : c \in 1..Len(s) /\ s[c] \notin Breaks
    <2>1. PICK k \in 1..n : g \in Segments(s, toks[k])
        BY <1>9
    <2>2. QED
        BY <1>7, <2>1
<1>12. ASSUME NEW g \in SegmentsOf(s, toks), NEW h \in SegmentsOf(s, toks),
              NEW c \in Chars(s, g), c \in Chars(s, h)
       PROVE  g = h
    <2>1. PICK k \in 1..n : g \in Segments(s, toks[k])
        BY <1>9
    <2>2. PICK j \in 1..n : h \in Segments(s, toks[j])
        BY <1>9
    <2>3. /\ c \in (a[k - 1] + 1)..a[k] /\ LineAt(s, c - 1) = g.line
          /\ c \in (a[j - 1] + 1)..a[j] /\ LineAt(s, c - 1) = h.line
        BY <1>7, <1>12, <2>1, <2>2
    <2>4. k = j
        BY <1>8, <2>3
    <2>5. QED
        BY <1>6, <2>1, <2>2, <2>3, <2>4
<1>13. ASSUME NEW k \in 1..n, NEW c \in (a[k - 1] + 1)..a[k], s[c] \notin Breaks
       PROVE  {g.type : g \in {g \in SegmentsOf(s, toks) : c \in Chars(s, g)}}
                  = {Classification(toks[k].kind)} \ {None}
    <2>1. PICK colour : colour = Classification(toks[k].kind)
        OBVIOUS
    <2>2. ASSUME NEW g \in SegmentsOf(s, toks), c \in Chars(s, g)
          PROVE  g.type = colour /\ colour # None
        <3>1. PICK j \in 1..n : Classification(toks[j].kind) # None /\ g \in Segments(s, toks[j])
            BY <1>9
        <3>2. c \in (a[j - 1] + 1)..a[j] /\ g.type = Classification(toks[j].kind)
            BY <1>7, <2>2, <3>1
        <3>3. k = j
            BY <1>8, <3>2
        <3>4. QED
            BY <2>1, <3>1, <3>2, <3>3
    <2>3. ASSUME colour # None
          PROVE  \E g \in SegmentsOf(s, toks) : c \in Chars(s, g) /\ g.type = colour
        <3>1. PICK g \in Segments(s, toks[k]) : c \in Chars(s, g)
            BY <1>6, <1>13
        <3>2. g \in SegmentsOf(s, toks)
            BY <1>10, <2>1, <2>3, <3>1
        <3>3. g.type = colour
            BY <2>2, <3>1, <3>2
        <3>4. QED
            BY <3>1, <3>2, <3>3
    <2>4. PICK T : T = {g.type : g \in {g \in SegmentsOf(s, toks) : c \in Chars(s, g)}}
        OBVIOUS
    <2>5. \A x \in T : x = colour /\ colour # None
        BY <2>2, <2>4
    <2>6. colour # None => colour \in T
        BY <2>3, <2>4
    <2>7. T = {colour} \ {None}
        BY <2>5, <2>6
    <2>8. QED
        BY <2>1, <2>4, <2>7
<1>14. \A g, h \in SegmentsOf(s, toks) : Chars(s, g) \cap Chars(s, h) # {} => g = h
    BY <1>12
<1>15. \A k \in 1..n : \A c \in (a[k - 1] + 1)..a[k] :
           s[c] \notin Breaks =>
              {g.type : g \in {g \in SegmentsOf(s, toks) : c \in Chars(s, g)}}
                  = {Classification(toks[k].kind)} \ {None}
    BY <1>13
<1>16. QED
    BY <1>1, <1>11, <1>14, <1>15 DEF Apart

RankIn(S, g) == Cardinality({r \in S : Before(r, g)}) + 1

\* Parts at different places are numbered by their ranks.
LEMMA RanksNumber ==
    ASSUME NEW S, IsFiniteSet(S),
           \A g \in S : g.line \in Nat /\ g.col \in Nat,
           \A g, h \in S : g.line = h.line /\ g.col = h.col => g = h
    PROVE  /\ Cardinality(S) \in Nat
           /\ \A g \in S : RankIn(S, g) \in 1..Cardinality(S)
           /\ \A g, h \in S : RankIn(S, g) = RankIn(S, h) => g = h
           /\ \A g, h \in S : RankIn(S, g) < RankIn(S, h) => Before(g, h)
           /\ \A k \in 1..Cardinality(S) : \E g \in S : RankIn(S, g) = k
<1>1. PICK n : n = Cardinality(S)
    OBVIOUS
<1>2. n \in Nat
    BY <1>1, FS_CardinalityType
<1> DEFINE Under(g) == {r \in S : Before(r, g)}
<1>3. ASSUME NEW g \in S
      PROVE  /\ IsFiniteSet(Under(g)) /\ Cardinality(Under(g)) \in Nat
             /\ RankIn(S, g) = Cardinality(Under(g)) + 1
    <2>1. Under(g) \in SUBSET S
        OBVIOUS
    <2>2. IsFiniteSet(Under(g)) /\ Cardinality(Under(g)) \in Nat
        BY <2>1, FS_Subset, FS_CardinalityType
    <2>3. QED
        BY <2>2 DEF RankIn
<1>4. \A g \in S : ~Before(g, g)
    BY DEF Before
<1>5. ASSUME NEW g \in S, NEW h \in S, g # h PROVE Before(g, h) \/ Before(h, g)
    BY <1>5 DEF Before
<1>6. ASSUME NEW g \in S, NEW h \in S, Before(g, h), NEW r \in S, Before(r, g) PROVE Before(r, h)
    BY <1>6 DEF Before
<1>7. ASSUME NEW g \in S
      PROVE  RankIn(S, g) \in 1..n
    <2>1. Under(g) \in SUBSET S /\ Under(g) # S
        BY <1>4
    <2>2. PICK u, x : u = Cardinality(Under(g)) /\ x = RankIn(S, g)
        OBVIOUS
    <2>3. u <= n /\ u # n
        BY <1>1, <2>1, <2>2, FS_Subset
    <2>4. u \in Nat /\ x = u + 1
        BY <1>3, <2>2
    <2>5. x \in 1..n
        BY <1>2, <2>3, <2>4
    <2>6. QED
        BY <2>2, <2>5
<1>8. ASSUME NEW g \in S, NEW h \in S, Before(g, h)
      PROVE  RankIn(S, g) < RankIn(S, h)
    <2>1. Under(g) \in SUBSET Under(h)
        BY <1>6, <1>8
    <2>2. Under(g) # Under(h)
        BY <1>4, <1>8
    <2>3. PICK u, v, x, y : /\ u = Cardinality(Under(g)) /\ v = Cardinality(Under(h))
                            /\ x = RankIn(S, g) /\ y = RankIn(S, h)
        OBVIOUS
    <2>4. u <= v /\ u # v
        BY <1>3, <2>1, <2>2, <2>3, FS_Subset
    <2>5. u \in Nat /\ v \in Nat /\ x = u + 1 /\ y = v + 1
        BY <1>3, <2>3
    <2>6. x < y
        BY <2>4, <2>5
    <2>7. QED
        BY <2>3, <2>6
<1>9. ASSUME NEW g \in S, NEW h \in S, RankIn(S, g) = RankIn(S, h)
      PROVE  g = h
    <2>1. PICK x, y : x = RankIn(S, g) /\ y = RankIn(S, h)
        OBVIOUS
    <2>2. x \in Nat /\ x = y
        BY <1>2, <1>7, <1>9, <2>1
    <2>3. ~(x < y) /\ ~(y < x)
        BY <2>2
    <2>4. QED
        BY <1>5, <1>8, <2>1, <2>3
<1>10. ASSUME NEW g \in S, NEW h \in S, RankIn(S, g) < RankIn(S, h)
       PROVE  Before(g, h)
    <2>1. PICK x, y : x = RankIn(S, g) /\ y = RankIn(S, h)
        OBVIOUS
    <2>2. x \in 1..n /\ y \in 1..n /\ x < y
        BY <1>7, <1>10, <2>1
    <2>3. ~(y < x) /\ x # y
        BY <1>2, <2>2
    <2>4. QED
        BY <1>5, <1>8, <2>1, <2>3
<1>11. PICK f : f = [g \in S |-> RankIn(S, g)]
    OBVIOUS
<1>12. f \in Injection(S, 1..n)
    <2>1. f \in [S -> 1..n]
        BY <1>7, <1>11
    <2>2. \A g, h \in S : f[g] = f[h] => g = h
        BY <1>9, <1>11
    <2>3. QED
        BY <2>1, <2>2, <1>11 DEF Injection, IsInjective
<1>13. IsFiniteSet(1..n) /\ Cardinality(1..n) = n
    BY <1>2, FS_Interval
<1>14. f \in Surjection(S, 1..n)
    BY <1>1, <1>12, <1>13, FS_Injection
<1>15. \A k \in 1..n : \E g \in S : RankIn(S, g) = k
    BY <1>11, <1>14 DEF Surjection
<1>16. QED
    BY <1>1, <1>2, <1>7, <1>9, <1>10, <1>15

\* A text has finitely many parts, and each has a place of its own.
LEMMA SegmentsAreFew ==
    ASSUME NEW s, IsSeq(s), NEW S,
           \A g \in S : g.len \in Nat /\ g.len > 0 /\ First(s, g) \in 0..Len(s),
           \A g, h \in S : Chars(s, g) \cap Chars(s, h) # {} => g = h
    PROVE  /\ IsFiniteSet(S)
           /\ \A g, h \in S : g.line = h.line /\ g.col = h.col => g = h
<1>1. Len(s) \in Nat
    BY SeqFacts
<1>2. ASSUME NEW g \in S, NEW h \in S, First(s, g) = First(s, h)
      PROVE  g = h
    <2>1. PICK x : x = First(s, g)
        OBVIOUS
    <2>2. x \in Nat
        BY <1>1, <2>1
    <2>3. x + 1 \in (x + 1)..(x + g.len) /\ x + 1 \in (x + 1)..(x + h.len)
        BY <2>2
    <2>4. x + 1 \in Chars(s, g) /\ x + 1 \in Chars(s, h)
        BY <1>2, <2>1, <2>3 DEF Chars
    <2>5. QED
        BY <2>4
<1>3. PICK f : f = [g \in S |-> First(s, g)]
    OBVIOUS
<1>4. f \in Injection(S, 0..Len(s))
    <2>1. f \in [S -> 0..Len(s)]
        BY <1>3
    <2>2. \A g, h \in S : f[g] = f[h] => g = h
        BY <1>2, <1>3
    <2>3. QED
        BY <1>3, <2>1, <2>2 DEF Injection, IsInjective
<1>5. IsFiniteSet(0..Len(s))
    BY <1>1, FS_Interval
<1>6. IsFiniteSet(S)
    BY <1>4, <1>5, FS_Injection
<1>7. \A g, h \in S : g.line = h.line /\ g.col = h.col => g = h
    BY <1>2 DEF First
<1>8. QED
    BY <1>6, <1>7

\* What is sent has each part once, sorted.
Lists(raw, S, n) ==
    /\ n \in Nat /\ DOMAIN raw = 1..n
    /\ \A k \in 1..n : raw[k] \in S
    /\ \A j, k \in 1..n : raw[j] = raw[k] => j = k
    /\ \A k \in 1..n : k # 1 => Before(raw[k - 1], raw[k])
    /\ \A g \in S : \E k \in 1..n : raw[k] = g

LEMMA RawFacts ==
    ASSUME NEW s, NEW toks, NEW S, S = SegmentsOf(s, toks), IsFiniteSet(S),
           \A g \in S : g.line \in Nat /\ g.col \in Nat,
           \A g, h \in S : g.line = h.line /\ g.col = h.col => g = h,
           NEW raw, raw = RawTokens(s, toks)
    PROVE  Lists(raw, S, Cardinality(S))
<1>1. PICK n : n = Cardinality(S)
    OBVIOUS
<1>2. /\ n \in Nat
      /\ \A g \in S : RankIn(S, g) \in 1..n
      /\ \A g, h \in S : RankIn(S, g) = RankIn(S, h) => g = h
      /\ \A g, h \in S : RankIn(S, g) < RankIn(S, h) => Before(g, h)
      /\ \A k \in 1..n : \E g \in S : RankIn(S, g) = k
    BY <1>1, RanksNumber
<1>3. raw = [k \in 1..n |-> CHOOSE g \in S : RankIn(S, g) = k]
    BY <1>1 DEF RawTokens, SegmentsOf, Classified, RankIn
<1>4. DOMAIN raw = 1..n
    BY <1>3
<1>5. \A k \in 1..n : raw[k] \in S /\ RankIn(S, raw[k]) = k
    BY <1>2, <1>3
<1>6. \A j, k \in 1..n : raw[j] = raw[k] => j = k
    BY <1>5
<1>7. ASSUME NEW g \in S PROVE \E k \in 1..n : raw[k] = g
    <2>1. PICK k : k = RankIn(S, g)
        OBVIOUS
    <2>2. k \in 1..n
        BY <1>2, <2>1
    <2>3. raw[k] \in S /\ RankIn(S, raw[k]) = RankIn(S, g)
        BY <1>5, <2>1, <2>2
    <2>4. raw[k] = g
        BY <1>2, <2>3
    <2>5. QED
        BY <2>2, <2>4
<1>8. ASSUME NEW k \in 1..n, k # 1 PROVE Before(raw[k - 1], raw[k])
    <2>1. k - 1 \in 1..n /\ k - 1 < k
        BY <1>2, <1>8
    <2>2. PICK g, h : g = raw[k - 1] /\ h = raw[k]
        OBVIOUS
    <2>3. g \in S /\ h \in S /\ RankIn(S, g) < RankIn(S, h)
        BY <1>5, <2>1, <2>2
    <2>4. QED
        BY <1>2, <2>2, <2>3
<1>9. QED
    BY <1>1, <1>2, <1>4, <1>5, <1>6, <1>7, <1>8 DEF Lists

-----------------------------------------------------------------------------
(* What the editor reads *)

\* The places that the differences add up to.
AddUp(data, n, place) ==
    place = [k \in 0..n |->
                IF k = 0 THEN [line |-> 0, col |-> 0]
                ELSE [line |-> place[k - 1].line + data[k].delta_line,
                      col |-> data[k].delta_start
                                + IF data[k].delta_line = 0 THEN place[k - 1].col ELSE 0]]

\* The parts that are sent, the differences of their places, and what these lead to.
HavePlaces(raw, n) ==
    n \in Nat /\ DOMAIN raw = 1..n /\ \A k \in 1..n : raw[k].line \in Nat /\ raw[k].col \in Nat
AreDeltas(data, raw, n) == \A k \in 1..n : data[k] = Delta(raw, k)
LeadTo(place, raw, n) == \A k \in 1..n : place[k] = [line |-> raw[k].line, col |-> raw[k].col]
AreRead(s, data, raw, n) ==
    /\ DOMAIN data = 1..n
    /\ \A k \in 1..n : /\ Coloured(s, data)[k] = Chars(s, raw[k])
                       /\ data[k].token_type = raw[k].type

\* The differences to the part before add up to the parts.
LEMMA DeltasAddUp ==
    ASSUME NEW n, NEW raw, HavePlaces(raw, n), NEW data, AreDeltas(data, raw, n)
    PROVE  /\ \E place : AddUp(data, n, place)
           /\ \A place : AddUp(data, n, place) => LeadTo(place, raw, n)
<1> USE DEF HavePlaces, AreDeltas, LeadTo
<1> DEFINE At(k) == IF k = 0 THEN [line |-> 0, col |-> 0]
                    ELSE [line |-> raw[k].line, col |-> raw[k].col]
<1>1. ASSUME NEW k \in 1..n, NEW p, p = At(k - 1)
      PROVE  [line |-> p.line + data[k].delta_line,
              col |-> data[k].delta_start + IF data[k].delta_line = 0 THEN p.col ELSE 0] = At(k)
    <2>1. PICK x, y, u, v : x = p.line /\ y = p.col /\ u = raw[k].line /\ v = raw[k].col
        OBVIOUS
    <2>2. x \in Nat /\ y \in Nat /\ u \in Nat /\ v \in Nat
        <3>1. k = 1 => x = 0 /\ y = 0
            BY <1>1, <2>1
        <3>2. k # 1 => k - 1 \in 1..n /\ k - 1 # 0
            OBVIOUS
        <3>3. k # 1 => x = raw[k - 1].line /\ y = raw[k - 1].col
            BY <1>1, <2>1, <3>2
        <3>4. QED
            BY <2>1, <3>1, <3>2, <3>3
    <2>3. /\ data[k].delta_line = u - x
          /\ data[k].delta_start = IF u = x THEN v - y ELSE v
        <3>1. PICK q : q = IF k = 1 THEN [line |-> 0, col |-> 0] ELSE raw[k - 1]
            OBVIOUS
        <3>2. q.line = x /\ q.col = y
            <4>1. k = 1 => q.line = x /\ q.col = y
                BY <1>1, <2>1, <3>1
            <4>2. k # 1 => p = [line |-> raw[k - 1].line, col |-> raw[k - 1].col] /\ q = raw[k - 1]
                BY <1>1, <3>1
            <4>3. QED
                BY <2>1, <4>1, <4>2
        <3>3. data[k] = [delta_line |-> raw[k].line - q.line,
                         delta_start |-> IF raw[k].line = q.line THEN raw[k].col - q.col
                                         ELSE raw[k].col,
                         length |-> raw[k].len, token_type |-> raw[k].type]
            BY <3>1 DEF Delta
        <3>4. QED
            BY <2>1, <3>2, <3>3
    <2>4. PICK d, e : d = u - x /\ e = IF u = x THEN v - y ELSE v
        OBVIOUS
    <2>5. x + d = u /\ e + (IF d = 0 THEN y ELSE 0) = v
        BY <2>2, <2>4
    <2>6. At(k) = [line |-> u, col |-> v]
        BY <2>1
    <2>7. QED
        BY <2>1, <2>3, <2>4, <2>5, <2>6
<1>2. \A k \in 1..n : k - 1 \in 0..n /\ k \in 0..n /\ k # 0
    OBVIOUS
<1>3. ASSUME NEW place, place = [k \in 0..n |-> At(k)]
      PROVE  AddUp(data, n, place)
    <2>1. \A k \in 1..n : place[k - 1] = At(k - 1)
        BY <1>2, <1>3
    <2>2. \A k \in 0..n :
              At(k) = IF k = 0 THEN [line |-> 0, col |-> 0]
                      ELSE [line |-> place[k - 1].line + data[k].delta_line,
                            col |-> data[k].delta_start
                                      + IF data[k].delta_line = 0 THEN place[k - 1].col ELSE 0]
        <3>1. \A k \in 0..n : k # 0 => k \in 1..n
            OBVIOUS
        <3>2. QED
            BY <1>1, <2>1, <3>1
    <2> HIDE DEF At
    <2>3. QED
        BY <1>3, <2>2 DEF AddUp
<1>4. ASSUME NEW place, AddUp(data, n, place)
      PROVE  \A k \in 1..n : place[k] = [line |-> raw[k].line, col |-> raw[k].col]
    <2> DEFINE Right == {k \in 0..n : place[k] = At(k)}
    <2>1. 0 \in Right
        BY <1>4 DEF AddUp
    <2>2. ASSUME NEW k \in 1..n, k - 1 \in Right PROVE k \in Right
        <3>1. place[k - 1] = At(k - 1)
            BY <2>2
        <3>2. place[k] = [line |-> place[k - 1].line + data[k].delta_line,
                          col |-> data[k].delta_start
                                    + IF data[k].delta_line = 0 THEN place[k - 1].col ELSE 0]
            BY <1>2, <1>4 DEF AddUp
        <3>3. place[k] = At(k)
            <4> HIDE DEF At
            <4> QED  BY <1>1, <3>1, <3>2
        <3>4. QED
            BY <1>2, <3>3
    <2>3. \A k \in 0..n : k \in Right
        <3>1. \A k \in 1..n : k - 1 \in Right => k \in Right
            BY <2>2
        <3> HIDE DEF Right
        <3>2. QED
            BY <2>1, <3>1, Induction
    <2>4. QED
        BY <1>2, <2>3
<1>5. QED
    BY <1>3, <1>4

\* The editor reads out of the data the parts that it was made of.
LEMMA DataIsRead ==
    ASSUME NEW s, NEW n, NEW raw, HavePlaces(raw, n),
           NEW data, data = [k \in DOMAIN raw |-> Delta(raw, k)]
    PROVE  AreRead(s, data, raw, n)
<1>0. n \in Nat /\ DOMAIN raw = 1..n
    BY DEF HavePlaces
<1>1. PICK D : D = {Delta(raw, k) : k \in 1..n}
    OBVIOUS
<1>2. data \in [1..n -> D]
    BY <1>0, <1>1
<1>3. Len(data) = n /\ DOMAIN data = 1..n
    BY <1>0, <1>2
<1>4. \A k \in 1..n : data[k] = Delta(raw, k)
    BY <1>0
<1>5. ASSUME NEW k \in 1..n
      PROVE  data[k].length = raw[k].len /\ data[k].token_type = raw[k].type
    <2>1. data[k] = Delta(raw, k)
        BY <1>4
    <2>2. QED
        BY <2>1 DEF Delta
<1> DEFINE place == CHOOSE p : AddUp(data, n, p)
<1>6. LeadTo(place, raw, n)
    <2>1. AreDeltas(data, raw, n)
        BY <1>4 DEF AreDeltas
    <2>2. AddUp(data, n, place)
        BY <2>1, DeltasAddUp
    <2> HIDE DEF place
    <2>3. QED
        BY <2>1, <2>2, DeltasAddUp
<1>7. Coloured(s, data)
          = [k \in 1..n |-> (line_to_char(s, place[k].line) + place[k].col + 1)
                              ..(line_to_char(s, place[k].line) + place[k].col + data[k].length)]
    BY <1>3 DEF Coloured, AddUp
<1> HIDE DEF place
<1>8. ASSUME NEW k \in 1..n
      PROVE  place[k].line = raw[k].line /\ place[k].col = raw[k].col
    <2>1. place[k] = [line |-> raw[k].line, col |-> raw[k].col]
        BY <1>6 DEF LeadTo
    <2>2. QED
        BY <2>1
<1>9. ASSUME NEW k \in 1..n
      PROVE  Coloured(s, data)[k] = Chars(s, raw[k])
    BY <1>5, <1>7, <1>8 DEF Chars, First
<1>10. QED
    BY <1>3, <1>5, <1>9 DEF AreRead

\* Where the tokens are known, the highlights are where they should be.
LEMMA PlacesColour == LexerInv => HighlightsMatchTokens
<1> SUFFICES ASSUME LexerInv PROVE HighlightsMatchTokens
    OBVIOUS
<1>1. PICK a : Bounds(text, tokens, a)
    BY TokensHaveBounds
<1>2. IsSeq(text) /\ IsSeq(tokens)
    BY DEF LexerInv, CutInv, IsText
<1>3. Len(text) \in Nat /\ Len(tokens) \in Nat /\ DOMAIN tokens = 1..Len(tokens)
    BY <1>2, SeqFacts
<1>4. PICK S : S = SegmentsOf(text, tokens)
    OBVIOUS
<1>5. Apart(text, tokens, a, S)
    BY <1>1, <1>2, <1>4, SegmentsAreApart
<1>6. IsFiniteSet(S) /\ \A g, h \in S : g.line = h.line /\ g.col = h.col => g = h
    BY <1>2, <1>5, SegmentsAreFew DEF Apart
<1>7. PICK n, raw : n = Cardinality(S) /\ raw = RawTokens(text, tokens)
    OBVIOUS
<1>8. /\ n \in Nat /\ DOMAIN raw = 1..n
      /\ \A k \in 1..n : raw[k] \in S
      /\ \A j, k \in 1..n : raw[j] = raw[k] => j = k
      /\ \A k \in 1..n : k # 1 => Before(raw[k - 1], raw[k])
      /\ \A g \in S : \E k \in 1..n : raw[k] = g
    <2>1. Lists(raw, S, n)
        BY <1>4, <1>5, <1>6, <1>7, RawFacts DEF Apart
    <2>2. QED
        BY <2>1 DEF Lists
<1> DEFINE data == semantic_tokens_full(text, tokens)
           coloured == Coloured(text, data)
<1>9. data = semantic_tokens_full(text, tokens)
    OBVIOUS
<1>10. coloured = Coloured(text, data)
    OBVIOUS
<1> HIDE DEF data, coloured
<1>11. /\ DOMAIN data = 1..n
       /\ \A k \in 1..n : coloured[k] = Chars(text, raw[k]) /\ data[k].token_type = raw[k].type
    <2>1. data = [k \in DOMAIN raw |-> Delta(raw, k)]
        BY <1>7, <1>9 DEF semantic_tokens_full
    <2>2. HavePlaces(raw, n)
        BY <1>5, <1>8 DEF Apart, HavePlaces
    <2>3. AreRead(text, data, raw, n)
        BY <2>1, <2>2, DataIsRead
    <2>4. QED
        BY <1>10, <2>3 DEF AreRead
<1>12. ASSUME NEW k \in 1..Len(tokens)
       PROVE  /\ byte_to_char(text, tokens[k].start) = a[k - 1]
              /\ byte_to_char(text, tokens[k].end) = a[k]
    <2>1. PICK x, y : x = a[k - 1] /\ y = a[k]
        OBVIOUS
    <2>2. /\ x \in 0..Len(text) /\ y \in x..Len(text)
          /\ tokens[k].start = char_to_byte(text, x) /\ tokens[k].end = char_to_byte(text, y)
        BY <1>1, <2>1 DEF Bounds, Between
    <2>3. y \in 0..Len(text)
        BY <1>3, <2>2
    <2>4. QED
        BY <1>2, <2>1, <2>2, <2>3, BytesPlace
<1>13. \A i, j \in DOMAIN data : i # j => coloured[i] \cap coloured[j] = {}
    BY <1>5, <1>8, <1>11 DEF Apart
<1>14. ASSUME NEW k \in 1..Len(tokens), NEW c \in (a[k - 1] + 1)..a[k], text[c] \notin Breaks
       PROVE  {data[i].token_type : i \in {i \in DOMAIN data : c \in coloured[i]}}
                  = {Classification(tokens[k].kind)} \ {None}
    <2>1. PICK T, U : /\ T = {data[i].token_type : i \in {i \in DOMAIN data : c \in coloured[i]}}
                      /\ U = {g.type : g \in {g \in S : c \in Chars(text, g)}}
        OBVIOUS
    <2>2. ASSUME NEW i \in 1..n, c \in coloured[i]
          PROVE  data[i].token_type \in U
        <3>1. raw[i] \in S /\ c \in Chars(text, raw[i]) /\ data[i].token_type = raw[i].type
            BY <1>8, <1>11, <2>2
        <3>2. QED
            BY <2>1, <3>1
    <2>3. ASSUME NEW g \in S, c \in Chars(text, g)
          PROVE  g.type \in T
        <3>1. PICK i \in 1..n : raw[i] = g
            BY <1>8
        <3>2. c \in coloured[i] /\ data[i].token_type = g.type /\ i \in DOMAIN data
            BY <1>11, <2>3, <3>1
        <3>3. QED
            BY <2>1, <3>2
    <2>4. T = U
        BY <1>11, <2>1, <2>2, <2>3
    <2>5. U = {Classification(tokens[k].kind)} \ {None}
        BY <1>5, <1>14, <2>1 DEF Apart
    <2>6. QED
        BY <2>1, <2>4, <2>5
<1>15. \A i \in DOMAIN data :
           /\ data[i].delta_line >= 0 /\ data[i].delta_start >= 0
           /\ \A c \in coloured[i] : c <= Len(text) /\ text[c] \notin Breaks
    <2>1. ASSUME NEW i \in 1..n, NEW c \in coloured[i]
          PROVE  c <= Len(text) /\ text[c] \notin Breaks
        <3>1. raw[i] \in S /\ c \in Chars(text, raw[i])
            BY <1>8, <1>11
        <3>2. c \in 1..Len(text) /\ text[c] \notin Breaks
            BY <1>5, <3>1 DEF Apart
        <3>3. QED
            BY <1>3, <3>2
    <2>2. ASSUME NEW i \in 1..n
          PROVE  data[i].delta_line >= 0 /\ data[i].delta_start >= 0
        <3>1. PICK q : q = IF i = 1 THEN [line |-> 0, col |-> 0] ELSE raw[i - 1]
            OBVIOUS
        <3>2. data[i] = [delta_line |-> raw[i].line - q.line,
                         delta_start |-> IF raw[i].line = q.line THEN raw[i].col - q.col
                                         ELSE raw[i].col,
                         length |-> raw[i].len, token_type |-> raw[i].type]
            BY <1>7, <1>8, <1>9, <3>1 DEF semantic_tokens_full, Delta
        <3>3. raw[i].line \in Nat /\ raw[i].col \in Nat
            BY <1>5, <1>8 DEF Apart
        <3>4. CASE i = 1
            <4>1. q.line = 0 /\ q.col = 0
                BY <3>1, <3>4
            <4>2. QED
                BY <3>2, <3>3, <4>1
        <3>5. CASE i # 1
            <4>1. i - 1 \in 1..n /\ q = raw[i - 1]
                BY <1>8, <3>1, <3>5
            <4>2. q.line \in Nat /\ q.col \in Nat
                BY <1>5, <1>8, <4>1 DEF Apart
            <4>3. q.line < raw[i].line \/ (q.line = raw[i].line /\ q.col < raw[i].col)
                BY <1>8, <3>5, <4>1 DEF Before
            <4>4. QED
                BY <3>2, <3>3, <4>2, <4>3
        <3>6. QED
            BY <3>4, <3>5
    <2>3. QED
        BY <1>11, <2>1, <2>2
<1>16. ASSUME NEW k \in DOMAIN tokens, NEW c \in 1..Len(text),
              c \in (byte_to_char(text, tokens[k].start) + 1)..byte_to_char(text, tokens[k].end),
              text[c] \notin Breaks
       PROVE  {data[i].token_type : i \in {i \in DOMAIN data : c \in coloured[i]}}
                  = {Classification(tokens[k].kind)} \ {None}
    <2>1. k \in 1..Len(tokens)
        BY <1>3
    <2>2. c \in (a[k - 1] + 1)..a[k]
        BY <1>12, <1>16, <2>1
    <2>3. QED
        BY <1>14, <1>16, <2>1, <2>2
<1>17. /\ \A i, j \in DOMAIN data : i # j => coloured[i] \cap coloured[j] = {}
       /\ \A k \in DOMAIN tokens, c \in 1..Len(text) :
             (c \in (byte_to_char(text, tokens[k].start) + 1)..byte_to_char(text, tokens[k].end)
                /\ text[c] \notin {"newline", "return"}) =>
               {data[i].token_type : i \in {i \in DOMAIN data : c \in coloured[i]}}
                   = {Classification(tokens[k].kind)} \ {None}
       /\ \A i \in DOMAIN data :
             /\ data[i].delta_line >= 0 /\ data[i].delta_start >= 0
             /\ \A c \in coloured[i] : c <= Len(text) /\ text[c] \notin {"newline", "return"}
    <2>1. Breaks = {"newline", "return"}
        BY DEF Breaks
    <2>2. \A k \in DOMAIN tokens, c \in 1..Len(text) :
              (c \in (byte_to_char(text, tokens[k].start) + 1)..byte_to_char(text, tokens[k].end)
                 /\ text[c] \notin {"newline", "return"}) =>
                {data[i].token_type : i \in {i \in DOMAIN data : c \in coloured[i]}}
                    = {Classification(tokens[k].kind)} \ {None}
        BY <1>16, <2>1
    <2>3. QED
        BY <1>13, <1>15, <2>1, <2>2
<1>18. QED
    BY <1>17 DEF data, coloured, HighlightsMatchTokens

\* In every text, also after renames, the editor colours the characters of every
\* token that is to be coloured, on all of its lines and in its own colour; it
\* colours no line break and no character twice. No difference is below zero.
THEOREM HighlightsStayOnTokens == Spec => []HighlightsMatchTokens
<1>1. Init => LexerInv
    BY InitEstablishes
<1>2. LexerInv /\ [Next]_vars => LexerInv'
    BY NextKeeps
<1>3. LexerInv => HighlightsMatchTokens
    BY PlacesColour
<1>4. QED
    BY <1>1, <1>2, <1>3, PTL DEF Spec
=============================================================================
