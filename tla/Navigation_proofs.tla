-------------------------- MODULE Navigation_proofs --------------------------
(***************************************************************************)
(* Proofs about Modules, for any folders, libraries, files and search      *)
(* paths in any order; and about Scopes, for programs of any length in any *)
(* names.                                                                  *)
(***************************************************************************)
EXTENDS Scopes, Modules, DataFacts

-----------------------------------------------------------------------------
(* Sequences *)

\* A sequence made from another one, place by place.
LEMMA MapIsSeq ==
    ASSUME NEW s, IsSeq(s), NEW f, DOMAIN f = DOMAIN s, f = [k \in DOMAIN s |-> f[k]]
    PROVE  IsSeq(f) /\ Len(f) = Len(s)
<1>1. Len(s) \in Nat /\ DOMAIN s = 1..Len(s)
    BY SeqFacts
<1>2. PICK S : S = {f[k] : k \in DOMAIN s}
    OBVIOUS
<1>3. f \in [1..Len(s) -> S]
    BY <1>1, <1>2
<1>4. f \in Seq(S)
    BY <1>1, <1>3
<1>5. QED
    BY <1>1, <1>4 DEF IsSeq

\* What is in a joined sequence is in one of the two.
LEMMA ConcatElements ==
    ASSUME NEW s, NEW t, IsSeq(s), IsSeq(t)
    PROVE  ToSet(s \o t) = ToSet(s) \cup ToSet(t)
<1>1. PICK m, n, r : m = Len(s) /\ n = Len(t) /\ r = s \o t
    OBVIOUS
<1>2. m \in Nat /\ n \in Nat /\ DOMAIN s = 1..m /\ DOMAIN t = 1..n
    BY <1>1, SeqFacts
<1>3. IsSeq(r) /\ Len(r) = m + n
    BY <1>1, ConcatFacts
<1>4. DOMAIN r = 1..(m + n)
    BY <1>3, SeqFacts
<1>5. /\ \A i \in 1..m : r[i] = s[i]
      /\ \A i \in 1..n : r[m + i] = t[i]
    BY <1>1, ConcatFacts
<1>6. ToSet(r) \subseteq ToSet(s) \cup ToSet(t)
    <2>1. ASSUME NEW i \in 1..(m + n) PROVE r[i] \in ToSet(s) \cup ToSet(t)
        <3>1. CASE i <= m
            <4>1. i \in 1..m
                BY <1>2, <3>1
            <4>2. QED
                BY <1>2, <1>5, <4>1 DEF ToSet
        <3>2. CASE i > m
            <4>1. PICK k : k = i - m
                OBVIOUS
            <4>2. k \in 1..n /\ i = m + k
                BY <1>2, <3>2, <4>1
            <4>3. QED
                BY <1>2, <1>5, <4>2 DEF ToSet
        <3>3. QED
            BY <1>2, <3>1, <3>2
    <2>2. QED
        BY <1>4, <2>1 DEF ToSet
<1>7. ToSet(s) \subseteq ToSet(r)
    <2>1. \A i \in 1..m : i \in 1..(m + n)
        BY <1>2
    <2>2. QED
        BY <1>2, <1>4, <1>5, <2>1 DEF ToSet
<1>8. ToSet(t) \subseteq ToSet(r)
    <2>1. \A i \in 1..n : m + i \in 1..(m + n)
        BY <1>2
    <2>2. QED
        BY <1>2, <1>4, <1>5, <2>1 DEF ToSet
<1>9. QED
    BY <1>1, <1>6, <1>7, <1>8

\* What is in a flattened sequence is in one of its parts.
LEMMA FlattenElements ==
    ASSUME NEW seqs, AllSeqs(seqs)
    PROVE  /\ IsSeq(FlattenSeq(seqs))
           /\ ToSet(FlattenSeq(seqs)) = UNION {ToSet(seqs[k]) : k \in DOMAIN seqs}
<1> DEFINE n == Len(seqs)
           All(i) == UNION {ToSet(seqs[k]) : k \in 1..i}
<1>1. n \in Nat /\ DOMAIN seqs = 1..n
    BY SeqFacts DEF AllSeqs
<1>2. PICK p : /\ Joins(seqs, p) /\ FlattenSeq(seqs) = p[n]
               /\ \A i \in 0..n : IsSeq(p[i])
    BY FlattenJoins
<1> DEFINE Fine == {i \in 0..n : ToSet(p[i]) = All(i)}
<1>3. 0 \in Fine
    <2>1. p[0] = <<>>
        BY <1>2 DEF Joins
    <2>2. ToSet(<<>>) = {}
        BY DEF ToSet
    <2>3. 1..0 = {} /\ 0 \in 0..n
        BY <1>1
    <2>4. QED
        BY <2>1, <2>2, <2>3
<1>4. ASSUME NEW i \in 1..n, i - 1 \in Fine PROVE i \in Fine
    <2>1. i \in 0..n /\ i - 1 \in 0..n /\ 1..i = 1..(i - 1) \cup {i}
        BY <1>1
    <2>2. p[i] = p[i - 1] \o seqs[i]
        BY <1>2 DEF Joins
    <2>3. IsSeq(p[i - 1]) /\ IsSeq(seqs[i])
        BY <1>2, <2>1 DEF AllSeqs
    <2>4. ToSet(p[i]) = ToSet(p[i - 1]) \cup ToSet(seqs[i])
        BY <2>2, <2>3, ConcatElements
    <2>5. All(i) = All(i - 1) \cup ToSet(seqs[i])
        BY <2>1
    <2>6. QED
        BY <1>4, <2>1, <2>4, <2>5
<1>5. n \in Fine
    <2>1. \A i \in 1..n : i - 1 \in Fine => i \in Fine
        BY <1>4
    <2> HIDE DEF Fine, n
    <2>2. \A i \in 0..n : i \in Fine
        BY <1>1, <1>3, <2>1, Induction
    <2>3. QED
        BY <1>1, <2>2
<1>6. n \in 0..n
    BY <1>1
<1>7. QED
    BY <1>1, <1>2, <1>5, <1>6

\* What passes a test.
LEMMA FilterElements ==
    ASSUME NEW s, IsSeq(s), NEW f,
           f = [k \in DOMAIN s |-> f[k]], \A k \in DOMAIN s : f[k] \in {<<>>, <<s[k]>>}
    PROVE  /\ IsSeq(FlattenSeq(f))
           /\ ToSet(FlattenSeq(f)) = {s[k] : k \in {j \in DOMAIN s : f[j] = <<s[j]>>}}
<1>0. DOMAIN f = DOMAIN s
    OBVIOUS
<1>1. IsSeq(f) /\ Len(f) = Len(s) /\ DOMAIN f = 1..Len(f)
    BY <1>0, MapIsSeq, SeqFacts
<1>2. \A x : IsSeq(<<x>>) /\ ToSet(<<x>>) = {x}
    <2>1. ASSUME NEW x PROVE ToSet(<<x>>) = {x}
        <3>1. DOMAIN <<x>> = {1} /\ <<x>>[1] = x
            OBVIOUS
        <3>2. QED
            BY <3>1 DEF ToSet
    <2>2. QED
        BY <2>1, Tuples
<1>3. IsSeq(<<>>) /\ ToSet(<<>>) = {}
    BY Tuples DEF ToSet
<1>4. AllSeqs(f)
    BY <1>0, <1>1, <1>2, <1>3 DEF AllSeqs
<1>5. /\ IsSeq(FlattenSeq(f))
      /\ ToSet(FlattenSeq(f)) = UNION {ToSet(f[k]) : k \in DOMAIN f}
    BY <1>4, FlattenElements
<1>6. \A x : <<>> # <<x>>
    OBVIOUS
<1>7. \A k \in DOMAIN s : ToSet(f[k]) = IF f[k] = <<s[k]>> THEN {s[k]} ELSE {}
    BY <1>2, <1>3, <1>6
<1>8. UNION {ToSet(f[k]) : k \in DOMAIN f} = {s[k] : k \in {j \in DOMAIN s : f[j] = <<s[j]>>}}
    <2>1. ASSUME NEW k \in DOMAIN f, NEW x \in ToSet(f[k])
          PROVE  x \in {s[j] : j \in {j \in DOMAIN s : f[j] = <<s[j]>>}}
        BY <1>0, <1>7
    <2>2. ASSUME NEW k \in DOMAIN s, f[k] = <<s[k]>>
          PROVE  s[k] \in UNION {ToSet(f[j]) : j \in DOMAIN f}
        <3>1. k \in DOMAIN f /\ s[k] \in ToSet(f[k])
            BY <1>0, <1>7, <2>2
        <3>2. QED
            BY <3>1
    <2>3. QED
        BY <2>1, <2>2
<1>9. QED
    BY <1>5, <1>8

-----------------------------------------------------------------------------
(* The innermost root *)

\* A directory within another one is the other one, and some more.
LEMMA WithinFacts ==
    ASSUME NEW dir \in Directory, NEW root \in Directory
    PROVE  /\ Within(dir, root) <=> /\ Len(root) <= Len(dir)
                                     /\ \A i \in 1..Len(root) : root[i] = dir[i]
           /\ Within(dir, root) => /\ Relative(dir, root) \in Directory
                                    /\ root \o Relative(dir, root) = dir
<1>0. Len(root) \in Nat /\ Len(dir) \in Nat
    BY DEF Directory
<1>1. PICK m, n : m = Len(root) /\ n = Len(dir) /\ m \in Nat /\ n \in Nat
    BY <1>0
<1>2. DOMAIN root = 1..m /\ DOMAIN dir = 1..n
    BY <1>1 DEF Directory
<1>3. ASSUME m <= n
      PROVE  /\ SubSeq(root, 1, m) \in Seq(STRING) /\ Len(SubSeq(root, 1, m)) = m
             /\ SubSeq(dir, 1, m) \in Seq(STRING) /\ Len(SubSeq(dir, 1, m)) = m
             /\ \A i \in 1..m : SubSeq(root, 1, m)[i] = root[i] /\ SubSeq(dir, 1, m)[i] = dir[i]
    BY <1>1, <1>3 DEF Directory
<1>4. ASSUME m <= n, SubSeq(root, 1, m) = SubSeq(dir, 1, m)
      PROVE  \A i \in 1..m : root[i] = dir[i]
    BY <1>3, <1>4
<1>5. ASSUME m <= n, \A i \in 1..m : root[i] = dir[i]
      PROVE  SubSeq(root, 1, m) = SubSeq(dir, 1, m)
    <2>1. PICK s, t : s = SubSeq(root, 1, m) /\ t = SubSeq(dir, 1, m)
        OBVIOUS
    <2>2. \A i \in 1..m : s[i] = t[i]
        BY <1>3, <1>5, <2>1
    <2>3. s = t
        BY <1>1, <1>3, <1>5, <2>1, <2>2, SeqEqual
    <2>4. QED
        BY <2>1, <2>3
<1>6. Within(dir, root) <=> m <= n /\ \A i \in 1..m : root[i] = dir[i]
    BY <1>1, <1>4, <1>5 DEF Within, IsPrefix
<1>7. ASSUME Within(dir, root)
      PROVE  Relative(dir, root) \in Directory /\ root \o Relative(dir, root) = dir
    <2>1. m <= n /\ \A i \in 1..m : root[i] = dir[i]
        BY <1>6, <1>7
    <2>2. PICK rest : rest = Relative(dir, root)
        OBVIOUS
    <2>3. IsSeq(dir) /\ IsSeq(root) /\ m \in 0..n
        BY <1>1, <2>1 DEF Directory, IsSeq
    <2>4. IsSeq(rest) /\ Len(rest) = n - m /\ \A i \in 1..(n - m) : rest[i] = dir[m + i]
        BY <1>1, <2>2, <2>3, SuffixFacts DEF Relative
    <2>5. rest \in Directory
        BY <1>1, <2>1, <2>2 DEF Relative, Directory
    <2>6. /\ IsSeq(root \o rest) /\ Len(root \o rest) = m + (n - m)
          /\ \A i \in 1..m : (root \o rest)[i] = root[i]
          /\ \A i \in 1..(n - m) : (root \o rest)[m + i] = rest[i]
        BY <1>1, <2>3, <2>4, ConcatFacts
    <2>7. ASSUME NEW i \in 1..n PROVE (root \o rest)[i] = dir[i]
        <3>1. CASE i <= m
            <4>1. i \in 1..m
                BY <1>1, <3>1
            <4>2. QED
                BY <2>1, <2>6, <4>1
        <3>2. CASE i > m
            <4>1. PICK k : k = i - m
                OBVIOUS
            <4>2. k \in 1..(n - m) /\ i = m + k
                BY <1>1, <3>2, <4>1
            <4>3. QED
                BY <2>4, <2>6, <4>2
        <3>3. i <= m \/ i > m
            BY <1>1
        <3>4. QED
            BY <3>1, <3>2, <3>3
    <2>8. root \o rest = dir
        <3>1. PICK whole : whole = root \o rest
            OBVIOUS
        <3>2. IsSeq(whole) /\ Len(whole) = n /\ \A i \in 1..n : whole[i] = dir[i]
            BY <1>1, <2>1, <2>6, <2>7, <3>1
        <3>3. QED
            BY <1>1, <2>3, <3>1, <3>2, SameSequences
    <2>9. QED
        BY <2>2, <2>5, <2>8
<1>8. QED
    BY <1>1, <1>6, <1>7

\* One root after another, the best so far is the longest that the file is in.
Best(file, seen, best) ==
    LET holding == {root \in seen : Within(file.dir, root)}
    IN  IF holding = {} THEN best = NoFile
        ELSE best \in holding /\ \A root \in holding : Len(root) <= Len(best)

\* The name of a file starts behind the innermost of the roots that are above it.
LEMMA LongestRootIsBest ==
    ASSUME IsLayout, NEW file \in files
    PROVE  \E best :
              /\ Best(file, Roots, best)
              /\ uri_to_module_name(file) = IF best = NoFile THEN <<file.stem>>
                                            ELSE module_name_from_relative(Relative(file.dir, best), file)
<1> DEFINE s == workspace_map \o library
           n == Len(s)
           V == Directory \cup {NoFile}
           better(root, best) == Within(file.dir, root) /\ (best = NoFile \/ Len(root) > Len(best))
           next(best, root) == IF better(root, best) THEN root ELSE best
           Is(w) == w = [d \in SUBSET DOMAIN s |->
                             IF d = {} THEN NoFile ELSE next(w[d \ {Max(d)}], s[Max(d)])]
           w == CHOOSE iter : Is(iter)
<1>1. /\ s \in Seq(Directory) /\ n \in Nat /\ DOMAIN s = 1..n
      /\ ToSet(s) = Roots /\ \A i \in 1..n : s[i] \in Directory
    <2>1. IsSeq(workspace_map) /\ IsSeq(library)
        BY DEF IsLayout, IsSeq
    <2>2. ToSet(s) = Roots
        BY <2>1, ConcatElements DEF Roots
    <2>3. s \in Seq(Directory)
        BY DEF IsLayout
    <2>4. QED
        BY <2>2, <2>3
<1> HIDE DEF s
<1>2. \E v : Is(v)
    <2> DEFINE step == [x \in V \X (1..n) |-> next(x[1], s[x[2]])]
    <2>1. step \in [V \X (1..n) -> V]
        BY <1>1
    <2>2. PICK v \in [SUBSET (1..n) -> V] : IsFold(n, NoFile, step, v)
        <3> HIDE DEF step, V, n
        <3>1. NoFile \in V
            BY DEF V
        <3>2. QED
            BY <1>1, <2>1, <3>1, FoldExists
    <2>3. ASSUME NEW d \in SUBSET (1..n), d # {}
          PROVE  step[<<v[d \ {Max(d)}], Max(d)>>] = next(v[d \ {Max(d)}], s[Max(d)])
        <3>1. d \in SUBSET (0..n)
            BY <1>1
        <3>2. Max(d) \in 1..n
            BY <1>1, <2>3, <3>1, MaxIn
        <3>3. v[d \ {Max(d)}] \in V
            OBVIOUS
        <3> HIDE DEF next, V
        <3>4. QED
            BY <3>2, <3>3
    <2> HIDE DEF step, next
    <2>4. Is(v)
        BY <1>1, <2>2, <2>3 DEF IsFold
    <2>5. QED
        BY <2>4
<1>3. Is(w)
    BY <1>2
<1>4. uri_to_module_name(file) =
          IF w[DOMAIN s] = NoFile THEN <<file.stem>>
          ELSE module_name_from_relative(Relative(file.dir, w[DOMAIN s]), file)
    BY DEF uri_to_module_name, FoldLeft, MapThenFoldSet, s
<1> HIDE DEF w
<1> DEFINE seen(i) == {s[k] : k \in 1..i}
           Fine == {i \in 0..n : Best(file, seen(i), w[1..i])}
<1>5. 0 \in Fine
    <2>1. 1..0 = {} /\ 0 \in 0..n
        BY <1>1
    <2>2. w[{}] = NoFile
        BY <1>3
    <2>3. QED
        BY <2>1, <2>2 DEF Best
<1>6. ASSUME NEW i \in 1..n, i - 1 \in Fine PROVE i \in Fine
    <2>1. 1..i \in SUBSET (1..n) /\ 1..i # {} /\ Max(1..i) = i /\ (1..i) \ {i} = 1..(i - 1)
        BY <1>1, LastPlace
    <2>2. w[1..i] = next(w[1..(i - 1)], s[i])
        <3>1. w[1..i] = next(w[(1..i) \ {Max(1..i)}], s[Max(1..i)])
            BY <1>1, <1>3, <2>1
        <3>2. QED
            BY <2>1, <3>1
    <2>3. PICK best, root, before : /\ best = w[1..(i - 1)] /\ root = s[i]
                                    /\ before = seen(i - 1) /\ before \subseteq Directory
        <3>1. seen(i - 1) \subseteq Directory
            BY <1>1
        <3>2. QED
            BY <3>1
    <2>4. seen(i) = before \cup {root} /\ root \in Directory
        <3>1. 1..i = 1..(i - 1) \cup {i}
            BY <1>1
        <3>2. QED
            BY <1>1, <2>3, <3>1
    <2>5. Best(file, before, best)
        BY <1>6, <2>3
    <2>6. \A dir \in Directory : Len(dir) \in Nat /\ dir # NoFile
        BY ModulesAssumption DEF Directory
    <2>7. Best(file, before \cup {root}, next(best, root))
        <3>1. CASE ~Within(file.dir, root)
            <4>1. {r \in before \cup {root} : Within(file.dir, r)} = {r \in before : Within(file.dir, r)}
                BY <3>1
            <4>2. next(best, root) = best
                BY <3>1
            <4>3. QED
                BY <2>5, <4>1, <4>2 DEF Best
        <3>2. CASE Within(file.dir, root)
            <4> DEFINE old == {r \in before : Within(file.dir, r)}
            <4>1. {r \in before \cup {root} : Within(file.dir, r)} = old \cup {root}
                BY <3>2
            <4>2. CASE old = {}
                <5>1. best = NoFile
                    BY <2>5, <4>2 DEF Best
                <5>2. next(best, root) = root
                    BY <3>2, <5>1
                <5>3. Len(root) <= Len(root)
                    BY <2>4, <2>6
                <5>4. QED
                    BY <4>1, <4>2, <5>2, <5>3 DEF Best
            <4>3. CASE old # {}
                <5>1. best \in old /\ \A r \in old : Len(r) <= Len(best)
                    BY <2>5, <4>3 DEF Best
                <5>2. best \in Directory /\ best # NoFile
                    BY <2>3, <2>6, <5>1
                <5>3. \A r \in old \cup {root} : Len(r) \in Nat
                    BY <2>3, <2>4, <2>6
                <5> HIDE DEF old
                <5>4. CASE Len(root) > Len(best)
                    <6>1. next(best, root) = root
                        BY <3>2, <5>4
                    <6>2. \A r \in old \cup {root} : Len(r) <= Len(root)
                        BY <5>1, <5>3, <5>4
                    <6>3. QED
                        BY <4>1, <6>1, <6>2 DEF Best
                <5>5. CASE ~(Len(root) > Len(best))
                    <6>1. next(best, root) = best
                        BY <5>2, <5>5
                    <6>2. \A r \in old \cup {root} : Len(r) <= Len(best)
                        BY <5>1, <5>3, <5>5
                    <6>3. QED
                        BY <4>1, <5>1, <6>1, <6>2 DEF Best
                <5>6. QED
                    BY <5>4, <5>5
            <4>4. QED
                BY <4>2, <4>3
        <3>3. QED
            BY <3>1, <3>2
    <2>8. i \in 0..n
        BY <1>1
    <2> HIDE DEF next, seen
    <2>9. Best(file, seen(i), w[1..i])
        BY <2>2, <2>3, <2>4, <2>7
    <2>10. QED
        BY <2>8, <2>9
<1>7. n \in Fine
    <2>1. \A i \in 1..n : i - 1 \in Fine => i \in Fine
        BY <1>6
    <2> HIDE DEF Fine, n
    <2>2. \A i \in 0..n : i \in Fine
        BY <1>1, <1>5, <2>1, Induction
    <2>3. n \in 0..n
        BY <1>1
    <2>4. QED
        BY <2>2, <2>3
<1>8. seen(n) = Roots
    BY <1>1 DEF ToSet
<1>9. Best(file, Roots, w[DOMAIN s])
    BY <1>1, <1>7, <1>8
<1>10. QED
    BY <1>4, <1>9

\* The name is within the innermost root, in any order of the folders, but for the
\* root's own init.fnl.
THEOREM NamesStartInnermost ==
    ASSUME IsLayout
    PROVE  NamedFromInnermostRoot
<1>1. SUFFICES ASSUME NEW file \in files, NEW root \in Roots, Within(file.dir, root),
                      \A other \in Roots : Within(file.dir, other) => Within(root, other),
                      ~OwnInit(file, root)
               PROVE  uri_to_module_name(file)
                          = module_name_from_relative(Relative(file.dir, root), file)
    BY DEF NamedFromInnermostRoot
<1>2. Roots \subseteq Directory /\ file.dir \in Directory
    BY DEF IsLayout, Roots, ToSet
<1>3. PICK best : /\ Best(file, Roots, best)
                  /\ uri_to_module_name(file) =
                        IF best = NoFile THEN <<file.stem>>
                        ELSE module_name_from_relative(Relative(file.dir, best), file)
    BY LongestRootIsBest
<1>4. best \in Roots /\ Within(file.dir, best) /\ Len(root) <= Len(best)
    BY <1>1, <1>3 DEF Best
<1>5. Within(root, best)
    BY <1>1, <1>4
<1>6. best = root
    <2>1. root \in Directory /\ best \in Directory
        BY <1>2, <1>4
    <2>2. Len(best) <= Len(root) /\ \A i \in 1..Len(best) : best[i] = root[i]
        BY <1>5, <2>1, WithinFacts
    <2>3. Len(best) = Len(root)
        BY <1>4, <2>1, <2>2 DEF Directory
    <2>4. QED
        BY <2>1, <2>2, <2>3, SeqEqual DEF Directory
<1>7. best # NoFile
    BY <1>2, <1>4, ModulesAssumption
<1>8. QED
    BY <1>3, <1>6, <1>7

-----------------------------------------------------------------------------
(* What is tried *)

\* A file with its fields.
IsFile(file) == file \in [dir : Directory, stem : STRING, ext : STRING]

\* Files that a module may be found in, each with the module's last name.
Leads(tried, module) ==
    IsSeq(tried) /\ \A file \in ToSet(tried) : Last(module) \in LastNames(file)

\* The last element of a join.
LEMMA LastOfJoin ==
    ASSUME NEW s, NEW t, IsSeq(s), IsSeq(t), t # <<>>
    PROVE  Last(s \o t) = Last(t)
<1>1. PICK m, n : m = Len(s) /\ n = Len(t)
    OBVIOUS
<1>2. m \in Nat /\ n \in Nat /\ n # 0
    BY <1>1, SeqFacts
<1>3. Len(s \o t) = m + n /\ \A i \in 1..n : (s \o t)[m + i] = t[i]
    BY <1>1, ConcatFacts
<1>4. n \in 1..n
    BY <1>2
<1>5. QED
    BY <1>1, <1>3, <1>4 DEF Last

\* What is in a tuple of up to two.
LEMMA SmallSets ==
    /\ ToSet(<<>>) = {}
    /\ \A a : ToSet(<<a>>) = {a}
    /\ \A a, b : ToSet(<<a, b>>) = {a, b}
<1>1. ToSet(<<>>) = {}
    BY DEF ToSet
<1>2. ASSUME NEW a PROVE ToSet(<<a>>) = {a}
    <2>1. DOMAIN <<a>> = {1} /\ <<a>>[1] = a
        OBVIOUS
    <2>2. QED
        BY <2>1 DEF ToSet
<1>3. ASSUME NEW a, NEW b PROVE ToSet(<<a, b>>) = {a, b}
    <2>1. DOMAIN <<a, b>> = {1, 2} /\ <<a, b>>[1] = a /\ <<a, b>>[2] = b
        OBVIOUS
    <2>2. QED
        BY <2>1 DEF ToSet
<1>4. QED
    BY <1>1, <1>2, <1>3

\* A file that is asked for by the name of a module may be that module.
LEMMA CheckedLeads ==
    ASSUME NEW base, NEW ext, NEW init \in BOOLEAN, NEW module, IsSeq(base), IsSeq(module), module # <<>>
    PROVE  /\ Last(module) \in LastNames(check_exist(base, ext, init, module))
           /\ Leads(<<check_exist(base, ext, init, module)>>, module)
           /\ Leads(Both(base, ext, module), module)
<1>1. ASSUME NEW b \in BOOLEAN PROVE Last(module) \in LastNames(check_exist(base, ext, b, module))
    <2>1. CASE ~b
        <3>1. check_exist(base, ext, b, module).stem = Last(module)
            BY <2>1 DEF check_exist
        <3>2. QED
            BY <3>1 DEF LastNames
    <2>2. CASE b
        <3>1. PICK file : file = check_exist(base, ext, b, module)
            OBVIOUS
        <3>2. file.stem = "init" /\ file.dir = base \o module
            BY <2>2, <3>1 DEF check_exist
        <3>3. Last(file.dir) = Last(module)
            BY <3>2, LastOfJoin
        <3>4. Last(module) \in LastNames(file)
            BY <3>2, <3>3 DEF LastNames
        <3>5. QED
            BY <3>1, <3>4
    <2>3. QED
        BY <2>1, <2>2
<1>2. PICK one, other : one = check_exist(base, ext, FALSE, module) /\ other = check_exist(base, ext, TRUE, module)
    OBVIOUS
<1>3. Both(base, ext, module) = <<one, other>>
    BY <1>2 DEF Both
<1>4. Leads(<<one, other>>, module) /\ Leads(<<one>>, module) /\ Leads(<<other>>, module)
    <2>1. Last(module) \in LastNames(one) /\ Last(module) \in LastNames(other)
        BY <1>1, <1>2
    <2>2. IsSeq(<<one, other>>) /\ IsSeq(<<one>>) /\ IsSeq(<<other>>)
        BY Tuples
    <2>3. ToSet(<<one, other>>) = {one, other} /\ ToSet(<<one>>) = {one} /\ ToSet(<<other>>) = {other}
        BY SmallSets
    <2>4. QED
        BY <2>1, <2>2, <2>3 DEF Leads
<1>5. QED
    BY <1>1, <1>2, <1>3, <1>4

\* Lists of files that may be a module, joined.
LEMMA JoinLeads ==
    ASSUME NEW s, NEW t, NEW module, Leads(s, module), Leads(t, module)
    PROVE  Leads(s \o t, module)
BY ConcatElements, ConcatFacts DEF Leads

\* Many such lists, joined.
LEMMA FlattenLeads ==
    ASSUME NEW s, IsSeq(s), NEW f, NEW module,
           f = [k \in DOMAIN s |-> f[k]], \A k \in DOMAIN s : Leads(f[k], module)
    PROVE  Leads(FlattenSeq(f), module) /\ \A k \in DOMAIN s : ToSet(f[k]) \subseteq ToSet(FlattenSeq(f))
<1>1. DOMAIN f = DOMAIN s
    OBVIOUS
<1>2. IsSeq(f) /\ DOMAIN f = 1..Len(f)
    BY <1>1, MapIsSeq, SeqFacts
<1>3. AllSeqs(f)
    BY <1>1, <1>2 DEF AllSeqs, Leads
<1>4. /\ IsSeq(FlattenSeq(f))
      /\ ToSet(FlattenSeq(f)) = UNION {ToSet(f[k]) : k \in DOMAIN f}
    BY <1>3, FlattenElements
<1>5. \A k \in DOMAIN s : \A file \in ToSet(f[k]) : Last(module) \in LastNames(file)
    BY DEF Leads
<1>6. \A k \in DOMAIN s : ToSet(f[k]) \subseteq ToSet(FlattenSeq(f))
    BY <1>1, <1>4
<1>7. \A file \in ToSet(FlattenSeq(f)) : Last(module) \in LastNames(file)
    BY <1>1, <1>4, <1>5
<1>8. QED
    BY <1>4, <1>6, <1>7 DEF Leads

\* One name after a directory's.
LEMMA AppendFacts ==
    ASSUME NEW dir \in Directory, NEW name
    PROVE  /\ IsSeq(Append(dir, name)) /\ Append(dir, name) # <<>>
           /\ Append(dir, name) = dir \o <<name>>
           /\ Last(Append(dir, name)) = name /\ Front(Append(dir, name)) = dir
<1>1. PICK S : S = STRING \cup {name}
    OBVIOUS
<1>2. dir \in Seq(S) /\ name \in S
    BY <1>1, SeqMonotonic DEF Directory
<1>3. PICK n, s : n = Len(dir) /\ s = Append(dir, name)
    OBVIOUS
<1>4. /\ s \in Seq(S) /\ n \in Nat /\ Len(s) = n + 1 /\ s[n + 1] = name
      /\ \A i \in 1..n : s[i] = dir[i]
    BY <1>2, <1>3
<1>5. SubSeq(s, 1, n) = dir
    <2>1. SubSeq(s, 1, n) \in Seq(S) /\ Len(SubSeq(s, 1, n)) = n /\ \A i \in 1..n : SubSeq(s, 1, n)[i] = s[i]
        BY <1>4
    <2>2. QED
        BY <1>2, <1>3, <1>4, <2>1, SeqEqual
<1>6. s # <<>> /\ IsSeq(s)
    BY <1>4 DEF IsSeq
<1>7. s = dir \o <<name>>
    BY <1>2, <1>3, AppendIsConcat
<1>8. QED
    BY <1>3, <1>4, <1>5, <1>6, <1>7 DEF Last, Front

\* The folders that the file is in.
LEMMA HoldingFolders ==
    ASSUME IsLayout, NEW dir
    PROVE  LET roots == Filter(workspace_map, LAMBDA root : Within(dir, root))
           IN  IsSeq(roots) /\ ToSet(roots) = {root \in ToSet(workspace_map) : Within(dir, root)}
<1> DEFINE f == [k \in DOMAIN workspace_map |->
                    IF Within(dir, workspace_map[k]) THEN <<workspace_map[k]>> ELSE <<>>]
<1>1. Filter(workspace_map, LAMBDA root : Within(dir, root)) = FlattenSeq(f)
    BY DEF Filter
<1>2. IsSeq(workspace_map)
    BY DEF IsLayout, IsSeq
<1>3. /\ f = [k \in DOMAIN workspace_map |-> f[k]]
      /\ \A k \in DOMAIN workspace_map : f[k] \in {<<>>, <<workspace_map[k]>>}
    OBVIOUS
<1>4. \A k \in DOMAIN workspace_map : f[k] = <<workspace_map[k]>> <=> Within(dir, workspace_map[k])
    <2>1. \A y : <<>> # <<y>>
        OBVIOUS
    <2>2. QED
        BY <2>1
<1> HIDE DEF f
<1>5. /\ IsSeq(FlattenSeq(f))
      /\ ToSet(FlattenSeq(f)) = {workspace_map[k] : k \in {j \in DOMAIN workspace_map : f[j] = <<workspace_map[j]>>}}
    BY <1>2, <1>3, FilterElements
<1>6. ToSet(FlattenSeq(f)) = {root \in ToSet(workspace_map) : Within(dir, root)}
    BY <1>4, <1>5 DEF ToSet
<1>7. QED
    BY <1>1, <1>5, <1>6

\* The roots that a file is asked for in are directories.
LEMMA CandidatesAreRoots ==
    ASSUME IsLayout, NEW rel, IsFile(rel)
    PROVE  LET roots == candidate_roots(rel)
           IN  IsSeq(roots) /\ \A k \in DOMAIN roots : IsSeq(roots[k])
<1> DEFINE f == [k \in DOMAIN workspace_map |->
                    IF PathBegins(rel, workspace_map[k]) THEN <<workspace_map[k]>> ELSE <<>>]
           matching == Filter(workspace_map, LAMBDA root : PathBegins(rel, root))
           roots == IF matching # <<>> THEN matching ELSE workspace_map
<1>1. matching = FlattenSeq(f)
    BY DEF Filter
<1>2. IsSeq(workspace_map)
    BY DEF IsLayout, IsSeq
<1>3. /\ f = [k \in DOMAIN workspace_map |-> f[k]]
      /\ \A k \in DOMAIN workspace_map : f[k] \in {<<>>, <<workspace_map[k]>>}
    OBVIOUS
<1>4. candidate_roots(rel) = IF rel.dir \in ToSet(roots) THEN roots ELSE Append(roots, rel.dir)
    BY DEF candidate_roots
<1> HIDE DEF f, matching
<1>5. IsSeq(matching) /\ ToSet(matching) \subseteq ToSet(workspace_map)
    <2>1. /\ IsSeq(FlattenSeq(f))
          /\ ToSet(FlattenSeq(f)) = {workspace_map[k] : k \in {j \in DOMAIN workspace_map : f[j] = <<workspace_map[j]>>}}
        BY <1>2, <1>3, FilterElements
    <2>2. QED
        BY <1>1, <2>1 DEF ToSet
<1>6. IsSeq(roots) /\ ToSet(roots) \subseteq Directory
    <2>1. ToSet(workspace_map) \subseteq Directory
        BY DEF IsLayout, ToSet
    <2>2. QED
        BY <1>2, <1>5, <2>1
<1> HIDE DEF roots
<1>7. rel.dir \in Directory /\ \A dir \in Directory : IsSeq(dir)
    BY DEF IsFile, Directory, IsSeq
<1>8. roots \in Seq(Directory)
    <2>1. PICK S : roots \in Seq(S)
        BY <1>6 DEF IsSeq
    <2>2. \A k \in 1..Len(roots) : roots[k] \in Directory
        BY <1>6, <2>1 DEF ToSet
    <2>3. QED
        BY <2>1, <2>2
<1>9. candidate_roots(rel) \in Seq(Directory)
    BY <1>4, <1>7, <1>8
<1> HIDE DEF Directory
<1>10. \A k \in DOMAIN candidate_roots(rel) : candidate_roots(rel)[k] \in Directory
    BY <1>9
<1>11. QED
    BY <1>7, <1>9, <1>10 DEF IsSeq

\* What a search path leads to is a list of files, whatever the patterns are.
LEMMA OnPathIsSeq ==
    ASSUME IsLayout, NEW rel, IsFile(rel), NEW path \in {fennel_path, macro_path}, NEW module
    PROVE  IsSeq(OnPath(rel, path, module))
<1> DEFINE roots == candidate_roots(rel)
           tried(r) == [p \in DOMAIN path |-> resolve_pattern(roots[r], path[p], module)]
           f == [r \in DOMAIN roots |-> tried(r)]
<1>1. OnPath(rel, path, module) = FlattenSeq(f)
    BY DEF OnPath
<1>2. IsSeq(roots)
    BY CandidatesAreRoots
<1>3. IsSeq(path)
    BY ModulesAssumption DEF IsSeq
<1> HIDE DEF roots
<1>4. ASSUME NEW r \in DOMAIN roots PROVE IsSeq(tried(r))
    <2>1. tried(r) = [p \in DOMAIN path |-> tried(r)[p]] /\ DOMAIN tried(r) = DOMAIN path
        OBVIOUS
    <2> HIDE DEF tried
    <2>2. QED
        BY <1>3, <2>1, MapIsSeq
<1>5. f = [r \in DOMAIN roots |-> f[r]] /\ DOMAIN f = DOMAIN roots /\ \A r \in DOMAIN roots : IsSeq(f[r])
    <2> HIDE DEF tried
    <2>1. QED
        BY <1>4
<1> HIDE DEF f
<1>6. IsSeq(f)
    BY <1>2, <1>5, MapIsSeq
<1>7. AllSeqs(f)
    BY <1>5, <1>6, SeqFacts DEF AllSeqs
<1>8. QED
    BY <1>1, <1>7, FlattenElements

\* The files of the workspace's folders; every root above the file is asked.
LEMMA WorkspaceLeads ==
    ASSUME IsLayout, NEW rel, NEW module, IsSeq(module), module # <<>>
    PROVE  /\ Leads(workspace_file(rel, module), module)
           /\ \A root \in ToSet(workspace_map) : Within(rel.dir, root) =>
                 /\ ToSet(Both(Append(root, "fnl"), "fnl", module)) \subseteq ToSet(workspace_file(rel, module))
                 /\ ToSet(Both(root, "fnl", module)) \subseteq ToSet(workspace_file(rel, module))
<1> DEFINE roots == Filter(workspace_map, LAMBDA root : Within(rel.dir, root))
           tried(root) == Both(Append(root, "fnl"), "fnl", module) \o Both(root, "fnl", module)
           f == [r \in DOMAIN roots |-> tried(roots[r])]
<1>1. workspace_file(rel, module) = FlattenSeq(f)
    BY DEF workspace_file
<1>2. IsSeq(roots) /\ ToSet(roots) = {root \in ToSet(workspace_map) : Within(rel.dir, root)}
    BY HoldingFolders
<1> HIDE DEF roots
<1>3. ASSUME NEW root \in Directory
      PROVE  /\ Leads(tried(root), module)
             /\ ToSet(Both(Append(root, "fnl"), "fnl", module)) \subseteq ToSet(tried(root))
             /\ ToSet(Both(root, "fnl", module)) \subseteq ToSet(tried(root))
    <2>1. IsSeq(root) /\ IsSeq(Append(root, "fnl"))
        BY AppendFacts DEF Directory, IsSeq
    <2>2. PICK one, other : one = Both(Append(root, "fnl"), "fnl", module) /\ other = Both(root, "fnl", module)
        OBVIOUS
    <2>3. Leads(one, module) /\ Leads(other, module)
        BY <2>1, <2>2, CheckedLeads
    <2>4. Leads(one \o other, module) /\ ToSet(one \o other) = ToSet(one) \cup ToSet(other)
        BY <2>3, JoinLeads, ConcatElements DEF Leads
    <2>5. QED
        BY <2>2, <2>4
<1> HIDE DEF tried
<1>4. \A r \in DOMAIN roots : roots[r] \in Directory
    <2>1. ToSet(workspace_map) \subseteq Directory
        BY DEF IsLayout, ToSet
    <2>2. QED
        BY <1>2, <2>1 DEF ToSet
<1>5. f = [r \in DOMAIN roots |-> f[r]] /\ \A r \in DOMAIN roots : f[r] = tried(roots[r]) /\ Leads(f[r], module)
    BY <1>3, <1>4
<1> HIDE DEF f
<1>6. /\ Leads(FlattenSeq(f), module)
      /\ \A r \in DOMAIN roots : ToSet(f[r]) \subseteq ToSet(FlattenSeq(f))
    BY <1>2, <1>5, FlattenLeads
<1>7. ASSUME NEW root \in ToSet(workspace_map), Within(rel.dir, root)
      PROVE  /\ ToSet(Both(Append(root, "fnl"), "fnl", module)) \subseteq ToSet(FlattenSeq(f))
             /\ ToSet(Both(root, "fnl", module)) \subseteq ToSet(FlattenSeq(f))
    <2>1. PICK r \in DOMAIN roots : roots[r] = root
        BY <1>2, <1>7 DEF ToSet
    <2>2. QED
        BY <1>3, <1>4, <1>5, <1>6, <2>1
<1>8. QED
    BY <1>1, <1>6, <1>7

\* The files of the libraries; every library is asked.
LEMMA LibraryLeads ==
    ASSUME IsLayout, NEW module, IsSeq(module), module # <<>>
    PROVE  /\ Leads(library_file(module), module)
           /\ \A root \in ToSet(library) :
                 /\ ToSet(Both(Append(root, "fnl"), "fnl", module)) \subseteq ToSet(library_file(module))
                 /\ ToSet(Both(root, "fnl", module)) \subseteq ToSet(library_file(module))
<1> DEFINE tried(root) == ((Both(Append(root, "lua"), "lua", module)
                            \o Both(Append(root, "fnl"), "fnl", module))
                            \o Both(root, "lua", module)) \o Both(root, "fnl", module)
           f == [r \in DOMAIN library |-> tried(library[r])]
<1>1. library_file(module) = FlattenSeq(f)
    BY DEF library_file
<1>2. IsSeq(library) /\ \A r \in DOMAIN library : library[r] \in Directory
    BY DEF IsLayout, IsSeq
<1>3. ASSUME NEW root \in Directory
      PROVE  /\ Leads(tried(root), module)
             /\ ToSet(Both(Append(root, "fnl"), "fnl", module)) \subseteq ToSet(tried(root))
             /\ ToSet(Both(root, "fnl", module)) \subseteq ToSet(tried(root))
    <2>1. IsSeq(root) /\ \A x : IsSeq(Append(root, x))
        BY AppendFacts DEF Directory, IsSeq
    <2>2. PICK a, b, c, d : /\ a = Both(Append(root, "lua"), "lua", module)
                            /\ b = Both(Append(root, "fnl"), "fnl", module)
                            /\ c = Both(root, "lua", module) /\ d = Both(root, "fnl", module)
        OBVIOUS
    <2>3. Leads(a, module) /\ Leads(b, module) /\ Leads(c, module) /\ Leads(d, module)
        BY <2>1, <2>2, CheckedLeads
    <2>4. Leads(a \o b, module) /\ ToSet(a \o b) = ToSet(a) \cup ToSet(b)
        BY <2>3, JoinLeads, ConcatElements DEF Leads
    <2>5. Leads((a \o b) \o c, module) /\ ToSet((a \o b) \o c) = ToSet(a \o b) \cup ToSet(c)
        BY <2>3, <2>4, JoinLeads, ConcatElements DEF Leads
    <2>6. /\ Leads(((a \o b) \o c) \o d, module)
          /\ ToSet(((a \o b) \o c) \o d) = ToSet((a \o b) \o c) \cup ToSet(d)
        BY <2>3, <2>5, JoinLeads, ConcatElements DEF Leads
    <2>7. QED
        BY <2>2, <2>4, <2>5, <2>6
<1> HIDE DEF tried
<1>4. f = [r \in DOMAIN library |-> f[r]] /\ \A r \in DOMAIN library : f[r] = tried(library[r]) /\ Leads(f[r], module)
    BY <1>2, <1>3
<1> HIDE DEF f
<1>5. /\ Leads(FlattenSeq(f), module)
      /\ \A r \in DOMAIN library : ToSet(f[r]) \subseteq ToSet(FlattenSeq(f))
    BY <1>2, <1>4, FlattenLeads
<1>6. ASSUME NEW root \in ToSet(library)
      PROVE  /\ ToSet(Both(Append(root, "fnl"), "fnl", module)) \subseteq ToSet(FlattenSeq(f))
             /\ ToSet(Both(root, "fnl", module)) \subseteq ToSet(FlattenSeq(f))
    <2>1. PICK r \in DOMAIN library : library[r] = root
        BY DEF ToSet
    <2>2. QED
        BY <1>2, <1>3, <1>4, <1>5, <2>1
<1>7. QED
    BY <1>1, <1>5, <1>6

\* The files next to the one that requires.
LEMMA NextToLeads ==
    ASSUME NEW rel, IsFile(rel), NEW module, IsSeq(module), module # <<>>
    PROVE  Leads(NextTo(rel, module), module)
<1>1. IsSeq(rel.dir)
    BY DEF IsFile, Directory, IsSeq
<1>2. PICK a, b, c : /\ a = Both(rel.dir, "lua", module) /\ b = <<check_exist(rel.dir, "so", FALSE, module)>>
                     /\ c = Both(rel.dir, "fnl", module)
    OBVIOUS
<1>3. Leads(a, module) /\ Leads(b, module) /\ Leads(c, module)
    BY <1>1, <1>2, CheckedLeads
<1>4. Leads((a \o b) \o c, module)
    BY <1>3, JoinLeads
<1>5. QED
    BY <1>2, <1>4 DEF NextTo

-----------------------------------------------------------------------------
(* A file's own name *)

\* The name that a file has within a root is looked for where the file is.
LEMMA NameIsLookedFor ==
    ASSUME NEW file, IsFile(file), file.ext = "fnl", NEW root \in Directory, Within(file.dir, root)
    PROVE  LET name == module_name_from_relative(Relative(file.dir, root), file)
           IN  /\ IsSeq(name) /\ name # <<>>
               /\ \/ file \in ToSet(Both(Append(root, "fnl"), "fnl", name))
                  \/ file \in ToSet(Both(root, "fnl", name))
<1> DEFINE name == module_name_from_relative(Relative(file.dir, root), file)
<1>1. PICK dir : dir = Relative(file.dir, root)
    OBVIOUS
<1>2. dir \in Directory /\ root \o dir = file.dir /\ file.dir \in Directory
    BY <1>1, WithinFacts DEF IsFile
<1>3. PICK below : below = IF dir # <<>> /\ dir[1] = "fnl" THEN Tail(dir) ELSE dir
    OBVIOUS
<1>4. below \in Directory
    <2>1. dir # <<>> => Tail(dir) \in Directory
        BY <1>2 DEF Directory
    <2>2. QED
        BY <1>2, <1>3, <2>1
<1>5. name = IF file.stem = "init" /\ below # <<>> THEN below ELSE Append(below, file.stem)
    BY <1>1, <1>3 DEF module_name_from_relative
<1>6. PICK base : base \in {Append(root, "fnl"), root} /\ IsSeq(base) /\ base \o below = file.dir
    <2>1. CASE dir # <<>> /\ dir[1] = "fnl"
        <3>1. below = Tail(dir) /\ IsSeq(dir) /\ IsSeq(root)
            BY <1>2, <1>3, <2>1 DEF Directory, IsSeq
        <3>2. PICK mark : /\ mark = <<"fnl">> /\ IsSeq(mark) /\ Len(mark) = 1 /\ mark[1] = dir[1]
            <4>1. \A a : Len(<<a>>) = 1 /\ <<a>>[1] = a
                OBVIOUS
            <4>2. PICK a : a = "fnl"
                OBVIOUS
            <4>3. PICK mark : mark = <<a>>
                OBVIOUS
            <4>4. IsSeq(mark) /\ Len(mark) = 1 /\ mark[1] = dir[1]
                BY <2>1, <4>1, <4>2, <4>3, Tuples
            <4>5. QED
                BY <4>2, <4>3, <4>4
        <3>3. IsSeq(below)
            BY <1>4 DEF Directory, IsSeq
        <3>4. PICK s : s = mark \o below
            OBVIOUS
        <3>5. s = dir
            <4>1. /\ IsSeq(s) /\ Len(s) = 1 + Len(below) /\ s[1] = mark[1]
                  /\ \A i \in 1..Len(below) : s[1 + i] = below[i]
                <5>1. 1 \in 1..1
                    OBVIOUS
                <5>2. QED
                    BY <3>2, <3>3, <3>4, <5>1, ConcatFacts
            <4>2. /\ Len(dir) \in Nat /\ Len(dir) # 0 /\ Len(below) = Len(dir) - 1
                  /\ \A i \in 1..(Len(dir) - 1) : below[i] = dir[i + 1]
                BY <2>1, <3>1, SeqFacts
            <4>3. ASSUME NEW i \in 1..Len(s) PROVE s[i] = dir[i]
                <5>1. CASE i = 1
                    BY <3>2, <4>1, <5>1
                <5>2. CASE i # 1
                    <6>1. PICK k : k = i - 1
                        OBVIOUS
                    <6>2. k \in 1..Len(below) /\ i = 1 + k /\ i = k + 1
                        BY <4>1, <4>2, <5>2, <6>1
                    <6>3. QED
                        BY <4>1, <4>2, <6>2
                <5>3. QED
                    BY <5>1, <5>2
            <4>4. Len(s) = Len(dir)
                BY <4>1, <4>2
            <4>5. QED
                BY <3>1, <4>1, <4>3, <4>4, SameSequences
        <3>6. Append(root, "fnl") \o below = root \o dir
            <4>1. Append(root, "fnl") = root \o mark
                BY <3>2, AppendFacts
            <4>2. (root \o mark) \o below = root \o (mark \o below)
                <5>1. IsSeq(root) /\ IsSeq(mark) /\ IsSeq(below)
                    BY <3>1, <3>2, <3>3
                <5>2. QED
                    BY <5>1, JoinsAssociate
            <4>3. QED
                BY <3>4, <3>5, <4>1, <4>2
        <3>7. IsSeq(Append(root, "fnl"))
            BY AppendFacts
        <3>8. QED
            BY <1>2, <3>6, <3>7
    <2>2. CASE ~(dir # <<>> /\ dir[1] = "fnl")
        BY <1>2, <1>3, <2>2 DEF Directory, IsSeq
    <2>3. QED
        BY <2>1, <2>2
<1> HIDE DEF name
<1>7. file \in ToSet(Both(base, "fnl", name)) /\ IsSeq(name) /\ name # <<>>
    <2>1. ToSet(Both(base, "fnl", name)) = {check_exist(base, "fnl", FALSE, name), check_exist(base, "fnl", TRUE, name)}
        BY SmallSets DEF Both
    <2>2. file = [dir |-> file.dir, stem |-> file.stem, ext |-> "fnl"]
        BY DEF IsFile
    <2>4. CASE file.stem = "init" /\ below # <<>>
        <3>1. name = below
            BY <1>5, <2>4
        <3>2. check_exist(base, "fnl", TRUE, name) = [dir |-> base \o name, stem |-> "init", ext |-> "fnl"]
            BY DEF check_exist
        <3>3. check_exist(base, "fnl", TRUE, name) = file
            BY <1>6, <2>2, <2>4, <3>1, <3>2
        <3>4. QED
            BY <1>4, <2>1, <2>4, <3>1, <3>3 DEF Directory, IsSeq
    <2>5. CASE ~(file.stem = "init" /\ below # <<>>)
        <3>1. name = Append(below, file.stem)
            BY <1>5, <2>5
        <3>2. Front(name) = below /\ Last(name) = file.stem /\ IsSeq(name) /\ name # <<>>
            BY <1>4, <3>1, AppendFacts
        <3>3. check_exist(base, "fnl", FALSE, name) = [dir |-> base \o Front(name), stem |-> Last(name), ext |-> "fnl"]
            BY DEF check_exist
        <3>4. check_exist(base, "fnl", FALSE, name) = file
            BY <1>6, <2>2, <3>2, <3>3
        <3>5. QED
            BY <2>1, <3>2, <3>4
    <2>6. QED
        BY <2>4, <2>5
<1>8. QED
    BY <1>6, <1>7 DEF name

-----------------------------------------------------------------------------
(* Imports *)

\* Places in which there is no file but the one.
Only(tried, file) == IsSeq(tried) /\ ToSet(tried) \cap files \subseteq {file}

\* Lists of such places, joined.
LEMMA JoinOnly ==
    ASSUME NEW s, NEW t, NEW file, Only(s, file), Only(t, file)
    PROVE  Only(s \o t, file)
BY ConcatElements, ConcatFacts DEF Only

\* An import leads to the file it was offered for, whatever else there is and whatever
\* the search paths are, if they lead to no other file.
THEOREM ImportsLeadBack ==
    ASSUME IsLayout
    PROVE  ImportsAreFound
<1> DEFINE folders(f) == {root \in ToSet(workspace_map) : Within(f.dir, root)}
<1>1. SUFFICES ASSUME NEW file \in files, NEW rel \in files, NEW name, name = uri_to_module_name(file),
                      file.ext = "fnl", folders(file) # {}, folders(file) \subseteq folders(rel),
                      \A other \in files \ {file} : Last(name) \notin LastNames(other),
                      \A path \in {fennel_path, macro_path} :
                         ToSet(OnPath(rel, path, name)) \cap (files \ {file}) = {}
               PROVE  find_file(rel, name) = file
    BY DEF ImportsAreFound
<1>2. IsFile(file) /\ IsFile(rel)
    BY DEF IsLayout, IsFile
<1>3. Roots \subseteq Directory /\ NoFile \notin Directory
    BY ModulesAssumption DEF IsLayout, Roots, ToSet
<1>4. PICK best \in Roots : /\ Within(file.dir, best)
                             /\ name = module_name_from_relative(Relative(file.dir, best), file)
    <2>1. PICK best : /\ Best(file, Roots, best)
                      /\ name = IF best = NoFile THEN <<file.stem>>
                                ELSE module_name_from_relative(Relative(file.dir, best), file)
        BY <1>1, LongestRootIsBest
    <2>2. {root \in Roots : Within(file.dir, root)} # {}
        BY <1>1 DEF Roots
    <2>3. best \in Roots /\ Within(file.dir, best)
        BY <2>1, <2>2 DEF Best
    <2>4. QED
        BY <1>3, <2>1, <2>3
<1>5. /\ IsSeq(name) /\ name # <<>>
      /\ \/ file \in ToSet(Both(Append(best, "fnl"), "fnl", name))
         \/ file \in ToSet(Both(best, "fnl", name))
    BY <1>1, <1>2, <1>3, <1>4, NameIsLookedFor
<1>6. PICK a, b, c, d, e : /\ a = OnPath(rel, fennel_path, name) /\ b = OnPath(rel, macro_path, name)
                           /\ c = workspace_file(rel, name) /\ d = library_file(name)
                           /\ e = NextTo(rel, name)
    OBVIOUS
<1>7. Only(a, file) /\ Only(b, file) /\ Only(c, file) /\ Only(d, file) /\ Only(e, file)
    <2>1. IsSeq(a) /\ IsSeq(b)
        BY <1>2, <1>6, OnPathIsSeq
    <2>2. Leads(c, name) /\ Leads(d, name) /\ Leads(e, name)
        BY <1>2, <1>5, <1>6, WorkspaceLeads, LibraryLeads, NextToLeads
    <2>3. Only(a, file) /\ Only(b, file)
        BY <1>1, <1>6, <2>1 DEF Only
    <2>4. Only(c, file) /\ Only(d, file) /\ Only(e, file)
        BY <1>1, <2>2 DEF Leads, Only
    <2>5. QED
        BY <2>3, <2>4
<1>8. file \in ToSet(c) \cup ToSet(d)
    <2>1. CASE best \in ToSet(workspace_map)
        <3>1. Within(rel.dir, best)
            BY <1>1, <1>4, <2>1
        <3>2. QED
            BY <1>5, <1>6, <2>1, <3>1, WorkspaceLeads
    <2>2. CASE best \in ToSet(library)
        BY <1>5, <1>6, <2>2, LibraryLeads
    <2>3. QED
        BY <1>4, <2>1, <2>2 DEF Roots
<1>9. PICK tried : tried = (((a \o b) \o c) \o d) \o e
    OBVIOUS
<1>10. Only(tried, file) /\ file \in ToSet(tried)
    <2>1. Only(a \o b, file)
        BY <1>7, JoinOnly
    <2>2. Only((a \o b) \o c, file) /\ ToSet(c) \subseteq ToSet((a \o b) \o c)
        BY <1>7, <2>1, JoinOnly, ConcatElements DEF Only
    <2>3. PICK s : s = ((a \o b) \o c) \o d
        OBVIOUS
    <2>4. Only(s, file) /\ ToSet(c) \cup ToSet(d) \subseteq ToSet(s)
        BY <1>7, <2>2, <2>3, JoinOnly, ConcatElements DEF Only
    <2>5. Only(s \o e, file) /\ ToSet(s) \subseteq ToSet(s \o e)
        BY <1>7, <2>4, JoinOnly, ConcatElements DEF Only
    <2>6. QED
        BY <1>8, <1>9, <2>3, <2>4, <2>5
<1>11. PICK f : f = [k \in DOMAIN tried |-> IF tried[k] \in files THEN <<tried[k]>> ELSE <<>>]
    OBVIOUS
<1>12. find_file(rel, name) = LET found == FlattenSeq(f) IN IF found = <<>> THEN NoFile ELSE found[1]
    BY <1>6, <1>9, <1>11 DEF find_file, Filter
<1>13. PICK found : found = FlattenSeq(f)
    OBVIOUS
<1>14. IsSeq(found) /\ ToSet(found) = ToSet(tried) \cap files
    <2>1. /\ f = [k \in DOMAIN tried |-> f[k]]
          /\ \A k \in DOMAIN tried : f[k] \in {<<>>, <<tried[k]>>}
        BY <1>11
    <2>2. \A k \in DOMAIN tried : f[k] = <<tried[k]>> <=> tried[k] \in files
        <3>1. \A y : <<>> # <<y>>
            OBVIOUS
        <3>2. QED
            BY <1>11, <3>1
    <2>3. IsSeq(tried)
        BY <1>10 DEF Only
    <2>4. /\ IsSeq(found)
          /\ ToSet(found) = {tried[k] : k \in {j \in DOMAIN tried : f[j] = <<tried[j]>>}}
        BY <1>13, <2>1, <2>3, FilterElements
    <2>5. QED
        BY <2>2, <2>4 DEF ToSet
<1>15. found # <<>> /\ found[1] \in ToSet(found)
    <2>1. file \in ToSet(found)
        BY <1>10, <1>14
    <2>2. Len(found) \in Nat /\ DOMAIN found = 1..Len(found) /\ (found = <<>> <=> Len(found) = 0)
        BY <1>14, SeqFacts
    <2>3. DOMAIN found # {}
        BY <2>1 DEF ToSet
    <2>4. 1 \in DOMAIN found
        BY <2>2, <2>3
    <2>5. QED
        BY <2>2, <2>4 DEF ToSet
<1>16. found[1] = file
    BY <1>1, <1>10, <1>14, <1>15 DEF Only
<1>17. QED
    BY <1>12, <1>13, <1>15, <1>16

-----------------------------------------------------------------------------
(* The scopes of a node *)

\* Parents come before their children.
Parents(p, n) == n \in Nat /\ \A k \in 1..n : p.nodes[k].parent \in 0..(k - 1)

Own(p, k) == IF p.nodes[k].kind \in ScopeAst THEN <<k>> ELSE <<>>

\* The function of ScopesOf.
Ups(p, n, f) ==
    f = [k \in 0..n |-> IF k = 0 THEN <<>> ELSE Own(p, k) \o f[p.nodes[k].parent]]

\* The recursion up the tree has a value: it is what a tree's shape allows.
LEMMA UpsExist ==
    ASSUME NEW p, NEW n, Parents(p, n)
    PROVE  \E f : Ups(p, n, f)
<1> DEFINE Some == {i \in 0..n : \E f : Ups(p, i, f)}
<1>1. n \in Nat
    BY DEF Parents
<1>2. 0 \in Some
    <2>1. Ups(p, 0, [k \in 0..0 |-> <<>>])
        BY DEF Ups
    <2>2. 0 \in 0..n
        BY <1>1
    <2>3. QED
        BY <2>1, <2>2
<1>3. ASSUME NEW i \in 1..n, i - 1 \in Some PROVE i \in Some
    <2>1. PICK f : Ups(p, i - 1, f)
        BY <1>3
    <2> DEFINE g == [k \in 0..i |-> IF k = i THEN Own(p, i) \o f[p.nodes[i].parent] ELSE f[k]]
    <2>2. ASSUME NEW k \in 0..i
          PROVE  g[k] = IF k = 0 THEN <<>> ELSE Own(p, k) \o g[p.nodes[k].parent]
        <3>1. k # 0 => k \in 1..n
            BY <1>1
        <3>2. k # 0 => p.nodes[k].parent \in 0..(k - 1)
            BY <3>1 DEF Parents
        <3>3. k # 0 => g[p.nodes[k].parent] = f[p.nodes[k].parent]
            <4>1. ASSUME NEW m \in 0..(k - 1), k # 0 PROVE m \in 0..i /\ m # i
                BY <1>1
            <4>2. QED
                BY <3>2, <4>1
        <3>4. CASE k = i
            <4>1. k # 0
                BY <1>1, <3>4
            <4>2. g[k] = Own(p, i) \o f[p.nodes[i].parent]
                BY <3>4
            <4>3. QED
                BY <3>3, <3>4, <4>1, <4>2
        <3>5. CASE k # i
            <4>1. k \in 0..(i - 1)
                BY <1>1, <3>5
            <4>2. f[k] = IF k = 0 THEN <<>> ELSE Own(p, k) \o f[p.nodes[k].parent]
                BY <2>1, <4>1 DEF Ups
            <4>3. QED
                BY <3>3, <3>5, <4>2
        <3>6. QED
            BY <3>4, <3>5
    <2>3. Ups(p, i, g)
        BY <2>2 DEF Ups
    <2>4. i \in 0..n
        BY <1>1
    <2>5. QED
        BY <2>3, <2>4
<1>4. n \in Some
    <2>1. \A i \in 1..n : i - 1 \in Some => i \in Some
        BY <1>3
    <2> HIDE DEF Some
    <2>2. \A i \in 0..n : i \in Some
        BY <1>1, <1>2, <2>1, Induction
    <2>3. QED
        BY <1>1, <2>2
<1>5. QED
    BY <1>4

\* Two trees that are the same up to a node.
SameTree(p, q, n) ==
    \A k \in 1..n : p.nodes[k].kind = q.nodes[k].kind /\ p.nodes[k].parent = q.nodes[k].parent

\* Trees that agree up to a node have the same scopes around it.
LEMMA UpsAgree ==
    ASSUME NEW p, NEW q, NEW n, Parents(p, n), SameTree(p, q, n),
           NEW i \in Nat, NEW j \in Nat, n <= i, n <= j, NEW f, NEW g, Ups(p, i, f), Ups(q, j, g)
    PROVE  f[n] = g[n]
<1> DEFINE Same == {k \in 0..n : \A m \in 0..k : f[m] = g[m]}
<1>1. n \in Nat
    BY DEF Parents
<1>2. ASSUME NEW k \in 0..n
      PROVE  /\ f[k] = IF k = 0 THEN <<>> ELSE Own(p, k) \o f[p.nodes[k].parent]
             /\ g[k] = IF k = 0 THEN <<>> ELSE Own(q, k) \o g[q.nodes[k].parent]
    <2>1. k \in 0..i /\ k \in 0..j
        BY <1>1
    <2>2. QED
        BY <2>1 DEF Ups
<1>3. 0 \in Same
    <2>1. 0 \in 0..n
        BY <1>1
    <2>2. f[0] = g[0]
        BY <1>2, <2>1
    <2>3. \A m \in 0..0 : m = 0
        OBVIOUS
    <2>4. QED
        BY <2>1, <2>2, <2>3
<1>4. ASSUME NEW k \in 1..n, k - 1 \in Same PROVE k \in Same
    <2>1. k \in 0..n /\ k # 0
        BY <1>1
    <2>2. p.nodes[k].parent \in 0..(k - 1) /\ q.nodes[k].parent = p.nodes[k].parent /\ Own(q, k) = Own(p, k)
        BY DEF Parents, SameTree, Own
    <2>3. f[p.nodes[k].parent] = g[p.nodes[k].parent]
        BY <1>4, <2>2
    <2>4. f[k] = g[k]
        BY <1>2, <2>1, <2>2, <2>3
    <2>5. \A m \in 0..k : m \in 0..(k - 1) \/ m = k
        BY <1>1
    <2>6. QED
        BY <1>4, <2>1, <2>4, <2>5
<1>5. n \in Same
    <2>1. \A k \in 1..n : k - 1 \in Same => k \in Same
        BY <1>4
    <2> HIDE DEF Same
    <2>2. \A k \in 0..n : k \in Same
        BY <1>1, <1>3, <2>1, Induction
    <2>3. QED
        BY <1>1, <2>2
<1>6. n \in 0..n
    BY <1>1
<1>7. QED
    BY <1>5, <1>6

\* The scopes of a node, by their definition.
LEMMA ScopesAreUps ==
    ASSUME NEW p, NEW n, Parents(p, n)
    PROVE  \E f : Ups(p, n, f) /\ ScopesOf(p, n) = f[n]
<1> DEFINE f == CHOOSE g : Ups(p, n, g)
<1>1. Ups(p, n, f)
    BY UpsExist
<1>2. ScopesOf(p, n) = f[n]
    BY DEF ScopesOf, Ups, Own
<1>3. QED
    BY <1>1, <1>2

\* A node's scopes are its own and those of its parent.
LEMMA ScopesStep ==
    ASSUME NEW p, NEW n, Parents(p, n)
    PROVE  /\ n = 0 => ScopesOf(p, n) = <<>>
           /\ n # 0 => ScopesOf(p, n) = Own(p, n) \o ScopesOf(p, p.nodes[n].parent)
<1>1. PICK f : Ups(p, n, f) /\ ScopesOf(p, n) = f[n]
    BY ScopesAreUps
<1>2. n \in Nat /\ n \in 0..n
    BY DEF Parents
<1>3. f[n] = IF n = 0 THEN <<>> ELSE Own(p, n) \o f[p.nodes[n].parent]
    BY <1>1, <1>2 DEF Ups
<1>4. ASSUME n # 0
      PROVE  f[p.nodes[n].parent] = ScopesOf(p, p.nodes[n].parent)
    <2>1. PICK m : m = p.nodes[n].parent
        OBVIOUS
    <2>2. m \in 0..(n - 1)
        <3>1. n \in 1..n
            BY <1>2, <1>4
        <3>2. QED
            BY <2>1, <3>1 DEF Parents
    <2>3. Parents(p, m) /\ m \in Nat /\ m <= m /\ m <= n
        <3>1. \A k \in 1..m : k \in 1..n
            BY <1>2, <2>2
        <3>2. QED
            BY <1>2, <2>2, <3>1 DEF Parents
    <2>4. PICK g : Ups(p, m, g) /\ ScopesOf(p, m) = g[m]
        BY <2>3, ScopesAreUps
    <2>5. f[m] = g[m]
        BY <1>1, <1>2, <2>3, <2>4, UpsAgree DEF SameTree
    <2>6. QED
        BY <2>1, <2>4, <2>5
<1>5. QED
    BY <1>1, <1>3, <1>4

\* They depend on the kinds and the parents.
LEMMA ScopesSame ==
    ASSUME NEW p, NEW q, NEW n, Parents(p, n), SameTree(p, q, n)
    PROVE  ScopesOf(q, n) = ScopesOf(p, n)
<1>1. Parents(q, n) /\ n \in Nat /\ n <= n
    BY DEF Parents, SameTree
<1>2. PICK f : Ups(p, n, f) /\ ScopesOf(p, n) = f[n]
    BY ScopesAreUps
<1>3. PICK g : Ups(q, n, g) /\ ScopesOf(q, n) = g[n]
    BY <1>1, ScopesAreUps
<1>4. f[n] = g[n]
    BY <1>1, <1>2, <1>3, UpsAgree
<1>5. QED
    BY <1>2, <1>3, <1>4

\* The nodes from one up to the root, among which there is no other one.
Chain(p, open) ==
    /\ 1 \in open
    /\ \A k \in open \ {1} : /\ p.nodes[k].parent \in open
                             /\ \A m \in open : m < k => m <= p.nodes[k].parent

\* The root is a scope, so every node has one; those of a node of the chain are in
\* the chain, and the first is the last one before it.
LEMMA ScopesFacts ==
    ASSUME NEW p, NEW n, Parents(p, n), p.nodes[1].kind = "Root", n # 0,
           \A k \in 2..n : p.nodes[k].parent # 0
    PROVE  LET s == ScopesOf(p, n)
           IN  /\ IsSeq(s) /\ Len(s) \in Nat \ {0}
               /\ \A i \in 1..Len(s) : s[i] \in 1..n /\ p.nodes[s[i]].kind \in ScopeAst
               /\ \A open \in SUBSET (1..n) : Chain(p, open) /\ n \in open =>
                     /\ \A i \in 1..Len(s) : s[i] \in open
                     /\ \A k \in open : p.nodes[k].kind \in ScopeAst => k <= s[1]
<1> DEFINE Good(m, s) ==
               /\ IsSeq(s) /\ Len(s) \in Nat \ {0}
               /\ \A i \in 1..Len(s) : s[i] \in 1..m /\ p.nodes[s[i]].kind \in ScopeAst
               /\ \A open \in SUBSET (1..n) : Chain(p, open) /\ m \in open =>
                     /\ \A i \in 1..Len(s) : s[i] \in open
                     /\ \A k \in open : k <= m /\ p.nodes[k].kind \in ScopeAst => k <= s[1]
           Fine == {i \in 0..n : \A m \in 1..i : Good(m, ScopesOf(p, m))}
<1>1. n \in Nat
    BY DEF Parents
<1>2. 0 \in Fine
    <2>1. 1..0 = {} /\ 0 \in 0..n
        BY <1>1
    <2>2. QED
        BY <2>1
<1>3. ASSUME NEW i \in 1..n, i - 1 \in Fine PROVE i \in Fine
    <2>1. i \in Nat /\ i # 0 /\ i \in 0..n
        BY <1>1
    <2>2. Parents(p, i) /\ p.nodes[i].parent \in 0..(i - 1)
        <3>1. \A k \in 1..i : k \in 1..n
            BY <1>1
        <3>2. QED
            BY <2>1, <3>1 DEF Parents
    <2>3. PICK up, s : up = p.nodes[i].parent /\ s = ScopesOf(p, up)
        OBVIOUS
    <2>4. PICK all : all = ScopesOf(p, i)
        OBVIOUS
    <2>5. all = Own(p, i) \o s
        BY <2>1, <2>2, <2>3, <2>4, ScopesStep
    <2>6. CASE i = 1
        <3>1. up = 0 /\ Parents(p, 0)
            BY <2>2, <2>3, <2>6 DEF Parents
        <3>2. s = <<>>
            BY <2>3, <3>1, ScopesStep
        <3>3. Own(p, i) = <<1>>
            BY <2>6 DEF Own, ScopeAst
        <3>4. all = <<1>> /\ IsSeq(<<1>>)
            BY <2>5, <3>2, <3>3, Tuples, NothingJoins
        <3>5. Len(<<1>>) = 1 /\ <<1>>[1] = 1
            OBVIOUS
        <3>6. Good(1, <<1>>)
            <4>1. \A j \in 1..Len(<<1>>) : <<1>>[j] \in 1..1 /\ p.nodes[<<1>>[j]].kind \in ScopeAst
                BY <3>5 DEF ScopeAst
            <4>2. ASSUME NEW open \in SUBSET (1..n), Chain(p, open)
                  PROVE  /\ \A j \in 1..Len(<<1>>) : <<1>>[j] \in open
                         /\ \A k \in open : k <= 1 /\ p.nodes[k].kind \in ScopeAst => k <= <<1>>[1]
                BY <3>5, <4>2 DEF Chain
            <4>3. QED
                BY <3>4, <3>5, <4>1, <4>2
        <3>7. Good(i, ScopesOf(p, i))
            BY <2>4, <2>6, <3>4, <3>6
        <3> HIDE DEF Good
        <3>8. \A m \in 1..i : m = i
            BY <2>6
        <3>9. QED
            BY <2>1, <3>7, <3>8
    <2>7. CASE i # 1
        <3>1. up \in 1..(i - 1)
            <4>1. i \in 2..n
                BY <1>1, <2>1, <2>7
            <4>2. QED
                BY <2>1, <2>2, <2>3, <4>1
        <3>2. Good(up, s)
            <4> HIDE DEF Good
            <4>1. QED
                BY <1>3, <2>3, <3>1
        <3>3. PICK own : own = Own(p, i)
            OBVIOUS
        <3>4. /\ IsSeq(own)
              /\ p.nodes[i].kind \in ScopeAst => Len(own) = 1 /\ own[1] = i
              /\ p.nodes[i].kind \notin ScopeAst => own = <<>> /\ Len(own) = 0
            BY <3>3, Tuples DEF Own
        <3>5. /\ IsSeq(all) /\ Len(all) = Len(own) + Len(s)
              /\ \A j \in 1..Len(own) : all[j] = own[j]
              /\ \A j \in 1..Len(s) : all[Len(own) + j] = s[j]
            BY <2>5, <3>2, <3>3, <3>4, ConcatFacts
        <3>6. Len(all) \in Nat \ {0}
            BY <3>2, <3>4, <3>5
        <3>7. ASSUME NEW j \in 1..Len(all)
              PROVE  (p.nodes[i].kind \in ScopeAst /\ all[j] = i) \/ \E k \in 1..Len(s) : all[j] = s[k]
            <4>1. CASE p.nodes[i].kind \in ScopeAst
                <5>1. CASE j = 1
                    BY <3>4, <3>5, <4>1, <5>1
                <5>2. CASE j # 1
                    <6>1. PICK k : k = j - 1
                        OBVIOUS
                    <6>2. j \in 1..(1 + Len(s)) /\ Len(s) \in Nat /\ Len(own) = 1
                        BY <3>2, <3>4, <3>5, <4>1
                    <6>3. k \in 1..Len(s) /\ j = 1 + k
                        BY <5>2, <6>1, <6>2
                    <6>4. QED
                        BY <3>5, <6>2, <6>3
                <5>3. QED
                    BY <5>1, <5>2
            <4>2. CASE p.nodes[i].kind \notin ScopeAst
                <5>1. Len(own) = 0 /\ j \in 1..(0 + Len(s)) /\ Len(s) \in Nat
                    BY <3>2, <3>4, <3>5, <4>2
                <5>2. j \in 1..Len(s) /\ 0 + j = j
                    BY <5>1
                <5>3. QED
                    BY <3>5, <5>1, <5>2
            <4>3. QED
                BY <4>1, <4>2
        <3>8. \A j \in 1..Len(all) : all[j] \in 1..i /\ p.nodes[all[j]].kind \in ScopeAst
            <4>1. \A k \in 1..Len(s) : s[k] \in 1..i
                BY <2>1, <3>1, <3>2
            <4>2. i \in 1..i
                BY <2>1
            <4>3. QED
                BY <3>2, <3>7, <4>1, <4>2
        <3>9. ASSUME NEW open \in SUBSET (1..n), Chain(p, open), i \in open
              PROVE  /\ \A j \in 1..Len(all) : all[j] \in open
                     /\ \A k \in open : k <= i /\ p.nodes[k].kind \in ScopeAst => k <= all[1]
            <4>1. up \in open /\ \A m \in open : m < i => m <= up
                BY <2>3, <2>7, <3>9 DEF Chain
            <4>2. /\ \A j \in 1..Len(s) : s[j] \in open
                  /\ \A k \in open : k <= up /\ p.nodes[k].kind \in ScopeAst => k <= s[1]
                BY <3>2, <3>9, <4>1
            <4>3. \A j \in 1..Len(all) : all[j] \in open
                BY <3>7, <3>9, <4>2
            <4>4. ASSUME NEW k \in open, k <= i, p.nodes[k].kind \in ScopeAst PROVE k <= all[1]
                <5>1. k \in Nat /\ 1 \in 1..Len(all)
                    BY <3>6
                <5>2. CASE p.nodes[i].kind \in ScopeAst
                    <6>1. 1 \in 1..Len(own)
                        BY <3>4, <5>2
                    <6>2. all[1] = i
                        BY <3>4, <3>5, <5>2, <6>1
                    <6>3. QED
                        BY <4>4, <6>2
                <5>3. CASE p.nodes[i].kind \notin ScopeAst
                    <6>1. k < i
                        BY <2>1, <4>4, <5>1, <5>3
                    <6>2. k <= s[1]
                        BY <4>1, <4>2, <4>4, <6>1
                    <6>3. 1 \in 1..Len(s) /\ Len(own) = 0
                        BY <3>2, <3>4, <5>3
                    <6>4. all[0 + 1] = s[1]
                        BY <3>5, <6>3
                    <6>5. QED
                        BY <6>2, <6>4
                <5>4. QED
                    BY <5>2, <5>3
            <4>5. QED
                BY <4>3, <4>4
        <3>10. Good(i, all)
            BY <3>5, <3>6, <3>8, <3>9
        <3> HIDE DEF Good
        <3>11. \A m \in 1..i : m \in 1..(i - 1) \/ m = i
            BY <2>1
        <3>12. QED
            BY <1>3, <2>1, <2>4, <3>10, <3>11
    <2>8. QED
        BY <2>6, <2>7
<1>4. n \in Fine
    <2>1. \A i \in 1..n : i - 1 \in Fine => i \in Fine
        BY <1>3
    <2> HIDE DEF Fine
    <2>2. \A i \in 0..n : i \in Fine
        BY <1>1, <1>2, <2>1, Induction
    <2>3. QED
        BY <1>1, <2>2
<1>5. Good(n, ScopesOf(p, n))
    <2>1. n \in 1..n
        BY <1>1
    <2> HIDE DEF Good
    <2>2. QED
        BY <1>4, <2>1
<1>6. \A open \in SUBSET (1..n) : \A k \in open : k <= n
    BY <1>1
<1>7. QED
    BY <1>5, <1>6

-----------------------------------------------------------------------------
(* What a program under way looks like *)

AllForms == {"N_LOCAL", "N_VAR", "N_GLOBAL", "N_LET", "N_WITH_OPEN", "N_EACH", "N_FOR", "N_COLLECT",
             "N_ICOLLECT", "N_FCOLLECT", "N_ACCUMULATE", "N_FN", "N_LAMBDA", "N_MACRO",
             "N_IMPORT_MACROS", "N_MATCH", "N_MATCH_TRY"}
Kinds == {"Root", "N_CATCH"} \cup AllForms \cup Binders \cup Clauses
Lasts == {"", "form", "pattern", "binder", "N_CATCH"} \cup Binders \cup Clauses

NodeRec == [kind : Kinds, parent : Nat, start : Nat, end : Nat, last : Lasts,
            require : Module \cup {None}, destructs : BOOLEAN]
TokenRec == [text : Seq(Name \cup Field), role : {"l", "r", "l_or_r"}, node : Nat, recent : Nat \cup {None}]
EntryRec == [token : Nat, frame : Nat, outer : BOOLEAN]

TypeInv ==
    /\ nodes \in Seq(NodeRec) /\ tokens \in Seq(TokenRec) /\ env \in Seq(EntryRec)
    /\ at \in 1..Len(nodes)

\* The tree: parents come first and begin first; only the first node is the root.
TreeInv(p) ==
    /\ Parents(p, Len(p.nodes)) /\ p.nodes[1].kind = "Root"
    /\ \A k \in 2..Len(p.nodes) :
          /\ p.nodes[k].kind # "Root" /\ p.nodes[k].parent # 0
          /\ p.nodes[p.nodes[k].parent].start <= p.nodes[k].start
    /\ \A k \in 1..Len(p.nodes) : p.nodes[k].start <= Len(p.tokens) /\ p.nodes[k].end <= Len(p.tokens)

\* What the grammar says of a node and its parent.
KindInv(p) ==
    \A k \in 1..Len(p.nodes) :
        LET node == p.nodes[k]
        IN  /\ node.kind = "N_MACRO_NAME" => p.nodes[node.parent].kind = "N_MACRO"
            /\ node.kind \in {"N_MATCH_TRY_CLAUSE", "N_CATCH"} =>
                  p.nodes[node.parent].kind = "N_MATCH_TRY"

\* A catch is the last thing in its match-try.
CatchInv(p, open, here) ==
    \A c \in 1..Len(p.nodes) :
        p.nodes[c].kind = "N_CATCH" =>
            LET up == p.nodes[c].parent
            IN  /\ p.nodes[up].last = "N_CATCH" /\ Catches(p, up) = {c}
                /\ up \in open => c \in open \/ here = up

\* The nodes that are open.
OpenInv(p, open, here) ==
    /\ open \in SUBSET (1..Len(p.nodes)) /\ Chain(p, open)
    /\ here \in open /\ \A k \in open : k <= here

\* Where the tokens are; a name with a field stands behind the name.
TokenInv(p) ==
    \A i \in 1..Len(p.tokens) :
        LET token == p.tokens[i]
        IN  /\ token.node \in 1..Len(p.nodes) /\ p.nodes[token.node].start < i
            /\ token.role = "l" => p.nodes[token.node].kind \in Binders
            /\ token.role = "l_or_r" => p.nodes[token.node].kind \in Clauses
            /\ \/ token.text = <<token.text[1]>>
               \/ /\ token.role = "r" /\ i > 1
                  /\ p.tokens[i - 1].role = "r" /\ p.tokens[i - 1].text = <<token.text[1]>>
                  /\ \A k \in 1..Len(p.nodes) : p.nodes[k].end # i - 1

-----------------------------------------------------------------------------
(* What is in force while a program is written *)

DeclarerOf(p, j) == Declarer(p, p.tokens[j].node)

\* It has been bound: what declares it is closed, or it was not bound before.
Made(p, open, j) ==
    \/ p.tokens[j].role = "l" /\ DeclarerOf(p, j) \notin open
    \/ p.tokens[j].role = "l_or_r" /\ p.tokens[j].recent = None
From(p, j) == IF p.tokens[j].role = "l" THEN p.nodes[DeclarerOf(p, j)].end ELSE j

FrameOf(p, j) ==
    LET n == p.tokens[j].node
    IN  IF p.tokens[j].role = "l" THEN Frame(p, n)
        ELSE IF p.nodes[n].kind = "N_MATCH_CLAUSE" THEN n ELSE p.nodes[n].parent
OuterOf(p, j) == p.tokens[j].role = "l" /\ IsOuter(p, p.tokens[j].node)

\* It is in force no more: its frame is closed, or catches.
Caught(p, j) == ~OuterOf(p, j) /\ Catches(p, FrameOf(p, j)) # {}
Over(p, open, j) == FrameOf(p, j) \notin open \/ Caught(p, j)
To(p, j) == IF Caught(p, j) THEN p.nodes[CHOOSE c \in Catches(p, FrameOf(p, j)) : TRUE].start
            ELSE p.nodes[FrameOf(p, j)].end

\* The bindings that a token can see.
Near(p, open, i) ==
    {j \in 1..(i - 1) : /\ Made(p, open, j) /\ p.tokens[j].text = <<p.tokens[i].text[1]>>
                        /\ From(p, j) <= i - 1
                        /\ Over(p, open, j) => i <= To(p, j)}

\* A later binding: it comes later, or declares around the other one.
Later(p, j, l) ==
    \/ j < l
    \/ /\ p.tokens[l].role = "l"
       /\ j \in (p.nodes[DeclarerOf(p, l)].start + 1)..p.nodes[DeclarerOf(p, l)].end

Sees(p, open, i) ==
    LET recent == p.tokens[i].recent
    IN  IF recent = None THEN Near(p, open, i) = {}
        ELSE /\ recent \in Near(p, open, i)
             /\ \A j \in Near(p, open, i) : j = recent \/ Later(p, j, recent)

SeesInv(p, open) == \A i \in 1..Len(p.tokens) : Sees(p, open, i)

\* env has what is in force, later bindings behind.
EnvInv(p, open, table) ==
    /\ \A k \in 1..Len(table) :
          LET j == table[k].token
          IN  /\ j \in 1..Len(p.tokens) /\ Made(p, open, j) /\ ~Over(p, open, j)
              /\ table[k].frame = FrameOf(p, j) /\ table[k].outer = OuterOf(p, j)
    /\ \A j \in 1..Len(p.tokens) :
          Made(p, open, j) /\ ~Over(p, open, j) => \E k \in 1..Len(table) : table[k].token = j
    /\ \A k, l \in 1..Len(table) : k < l => Later(p, table[k].token, table[l].token)

ScopeInv ==
    /\ TypeInv /\ TreeInv(program) /\ KindInv(program) /\ TokenInv(program)
    /\ \E open : /\ OpenInv(program, open, at) /\ CatchInv(program, open, at)
                 /\ SeesInv(program, open) /\ EnvInv(program, open, env)

\* Filtering keeps the order.
LEMMA FilterOrder ==
    ASSUME NEW s, IsSeq(s), NEW f,
           f = [k \in DOMAIN s |-> f[k]], \A k \in DOMAIN s : f[k] \in {<<>>, <<s[k]>>}
    PROVE  LET r == FlattenSeq(f)
           IN  \A a, b \in 1..Len(r) : a < b =>
                  \E k, l \in 1..Len(s) : k < l /\ r[a] = s[k] /\ r[b] = s[l]
<1> DEFINE n == Len(s)
<1>0. DOMAIN f = DOMAIN s /\ n \in Nat /\ DOMAIN s = 1..n
    BY SeqFacts
<1>1. IsSeq(f) /\ Len(f) = n
    BY <1>0, MapIsSeq
<1>2. \A k \in 1..n : IsSeq(f[k])
    BY <1>0, Tuples
<1>3. PICK p : /\ Joins(f, p) /\ FlattenSeq(f) = p[n]
               /\ \A i \in 0..n : IsSeq(p[i])
    BY <1>1, <1>2, FlattenJoins DEF AllSeqs
<1> DEFINE Good(i, q) ==
               /\ \A a \in 1..Len(q) : \E k \in 1..i : q[a] = s[k]
               /\ \A a, b \in 1..Len(q) : a < b =>
                     \E k, l \in 1..i : k < l /\ q[a] = s[k] /\ q[b] = s[l]
           Fine == {i \in 0..n : Good(i, p[i])}
<1>4. 0 \in Fine
    <2>1. p[0] = <<>> /\ Len(<<>>) = 0
        BY <1>3, Tuples, SeqFacts DEF Joins
    <2>2. \A a \in 1..Len(<<>>) : FALSE
        BY <2>1
    <2>3. Good(0, <<>>)
        BY <2>2
    <2>4. 0 \in 0..n
        BY <1>0
    <2> HIDE DEF Good
    <2>5. QED
        BY <2>1, <2>3, <2>4
<1>5. ASSUME NEW i \in 1..n, i - 1 \in Fine PROVE i \in Fine
    <2>1. PICK q, r : q = p[i - 1] /\ r = p[i]
        OBVIOUS
    <2>2. i - 1 \in 0..n /\ i \in 0..n /\ \A k \in 1..(i - 1) : k \in 1..i /\ k < i
        BY <1>0
    <2>3. r = q \o f[i] /\ IsSeq(q) /\ IsSeq(f[i]) /\ Good(i - 1, q)
        <3>1. r = q \o f[i]
            BY <1>1, <1>3, <2>1 DEF Joins
        <3>2. IsSeq(q) /\ IsSeq(f[i])
            BY <1>2, <1>3, <2>1, <2>2
        <3> HIDE DEF Good
        <3>3. Good(i - 1, q)
            BY <1>5, <2>1
        <3>4. QED
            BY <3>1, <3>2, <3>3
    <2>4. f[i] = <<>> \/ f[i] = <<s[i]>>
        BY <1>0
    <2>5. CASE f[i] = <<>>
        <3>1. r = q
            BY <2>3, <2>5, NothingJoins
        <3>2. Good(i, q)
            BY <2>2, <2>3
        <3> HIDE DEF Good
        <3>3. QED
            BY <2>1, <2>2, <3>1, <3>2
    <2>6. CASE f[i] = <<s[i]>>
        <3>1. PICK m : m = Len(q)
            OBVIOUS
        <3>2. m \in Nat /\ Len(<<s[i]>>) = 1 /\ <<s[i]>>[1] = s[i]
            BY <2>3, <3>1, SeqFacts
        <3>3. Len(r) = m + 1 /\ (\A a \in 1..m : r[a] = q[a]) /\ r[m + 1] = s[i]
            <4>1. PICK t : t = <<s[i]>>
                OBVIOUS
            <4>2. Len(t) = 1 /\ t[1] = s[i] /\ 1 \in 1..1
                BY <3>2, <4>1
            <4>3. IsSeq(t) /\ IsSeq(q) /\ r = q \o t
                BY <2>3, <2>6, <4>1, Tuples
            <4>4. /\ Len(q \o t) = Len(q) + Len(t) /\ (\A a \in 1..Len(q) : (q \o t)[a] = q[a])
                  /\ \A a \in 1..Len(t) : (q \o t)[Len(q) + a] = t[a]
                BY <4>3, ConcatFacts
            <4>5. QED
                BY <3>1, <4>2, <4>3, <4>4
        <3>4. \A a \in 1..(m + 1) : a \in 1..m \/ a = m + 1
            BY <3>2
        <3>5. i \in 1..i
            BY <1>0
        <3>6. ASSUME NEW a \in 1..Len(r) PROVE \E k \in 1..i : r[a] = s[k]
            <4>1. CASE a \in 1..m
                <5>1. PICK k \in 1..(i - 1) : q[a] = s[k]
                    BY <2>3, <3>1, <4>1
                <5>2. QED
                    BY <2>2, <3>3, <4>1, <5>1
            <4>2. CASE a = m + 1
                BY <3>3, <3>5, <4>2
            <4>3. QED
                BY <3>3, <3>4, <4>1, <4>2
        <3>7. ASSUME NEW a \in 1..Len(r), NEW b \in 1..Len(r), a < b
              PROVE  \E k, l \in 1..i : k < l /\ r[a] = s[k] /\ r[b] = s[l]
            <4>1. a \in 1..m
                BY <3>2, <3>3, <3>7
            <4>2. CASE b \in 1..m
                <5>1. PICK k, l \in 1..(i - 1) : k < l /\ q[a] = s[k] /\ q[b] = s[l]
                    BY <2>3, <3>1, <3>7, <4>1, <4>2
                <5>2. QED
                    BY <2>2, <3>3, <4>1, <4>2, <5>1
            <4>3. CASE b = m + 1
                <5>1. PICK k \in 1..(i - 1) : q[a] = s[k]
                    BY <2>3, <3>1, <4>1
                <5>2. QED
                    BY <2>2, <3>3, <3>5, <4>1, <4>3, <5>1
            <4>4. QED
                BY <3>3, <3>4, <4>2, <4>3
        <3>8. Good(i, r)
            BY <3>6, <3>7
        <3> HIDE DEF Good
        <3>9. QED
            BY <2>1, <2>2, <3>8
    <2>7. QED
        BY <2>4, <2>5, <2>6
<1>6. n \in Fine
    <2>1. \A i \in 1..n : i - 1 \in Fine => i \in Fine
        BY <1>5
    <2> HIDE DEF Fine, n
    <2>2. \A i \in 0..n : i \in Fine
        BY <1>0, <1>4, <2>1, Induction
    <2>3. QED
        BY <1>0, <2>2
<1>7. Good(n, p[n])
    BY <1>6
<1>8. QED
    BY <1>3, <1>7

-----------------------------------------------------------------------------
(* The grammar *)

\* Where the nodes may stand that the rules about scopes ask for.
LEMMA Placing ==
    /\ \A last : \A kind \in Kinds : MayFollow(kind, last, "N_MACRO_NAME") => kind = "N_MACRO"
    /\ \A last : \A kind \in Kinds :
          MayFollow(kind, last, "N_CATCH") => kind = "N_MATCH_TRY" /\ last = "N_MATCH_TRY_CLAUSE"
    /\ \A last : \A kind \in Kinds : MayFollow(kind, last, "N_MATCH_TRY_CLAUSE") => kind = "N_MATCH_TRY"
    /\ \A last : \A kind \in Kinds : MayFollow(kind, last, "pattern") => kind \in Clauses
    /\ \A next : ~MayFollow("N_MATCH_TRY", "N_CATCH", next)
<1> USE DEF MayFollow, Heading, Each, Before, Named, Clauses, Pairs, Binders, Bodied, Kinds, AllForms
<1>1. ASSUME NEW kind \in Kinds, NEW last, MayFollow(kind, last, "N_MACRO_NAME")
      PROVE  kind = "N_MACRO"
    BY <1>1
<1>2. ASSUME NEW kind \in Kinds, NEW last, MayFollow(kind, last, "N_CATCH")
      PROVE  kind = "N_MATCH_TRY" /\ last = "N_MATCH_TRY_CLAUSE"
    BY <1>2
<1>3. ASSUME NEW kind \in Kinds, NEW last, MayFollow(kind, last, "N_MATCH_TRY_CLAUSE")
      PROVE  kind = "N_MATCH_TRY"
    BY <1>3
<1>4. ASSUME NEW kind \in Kinds, NEW last, MayFollow(kind, last, "pattern")
      PROVE  kind \in Clauses
    BY <1>4
<1>5. ASSUME NEW next, MayFollow("N_MATCH_TRY", "N_CATCH", next) PROVE FALSE
    BY <1>5
<1>6. QED
    BY <1>1, <1>2, <1>3, <1>4, <1>5

-----------------------------------------------------------------------------
(* What stays when a program grows *)

Typed(p) == p.nodes \in Seq(NodeRec) /\ p.tokens \in Seq(TokenRec)

\* The types of a program's parts.
LEMMA TypedFacts ==
    ASSUME NEW p, Typed(p)
    PROVE  /\ IsSeq(p.nodes) /\ Len(p.nodes) \in Nat /\ DOMAIN p.nodes = 1..Len(p.nodes)
           /\ IsSeq(p.tokens) /\ Len(p.tokens) \in Nat /\ DOMAIN p.tokens = 1..Len(p.tokens)
           /\ \A k \in 1..Len(p.nodes) :
                 /\ p.nodes[k] \in NodeRec /\ p.nodes[k].kind \in Kinds
                 /\ p.nodes[k].parent \in Nat /\ p.nodes[k].start \in Nat /\ p.nodes[k].end \in Nat
           /\ \A i \in 1..Len(p.tokens) :
                 /\ p.tokens[i] \in TokenRec /\ p.tokens[i].role \in {"l", "r", "l_or_r"}
                 /\ p.tokens[i].text \in Seq(Name \cup Field)
                 /\ p.tokens[i].node \in Nat /\ p.tokens[i].recent \in Nat \cup {None}
<1>1. PICK ns, ts : ns = p.nodes /\ ts = p.tokens
    OBVIOUS
<1>2. ns \in Seq(NodeRec) /\ ts \in Seq(TokenRec)
    BY <1>1 DEF Typed
<1>3. IsSeq(ns) /\ IsSeq(ts)
    BY <1>2 DEF IsSeq
<1>4. Len(ns) \in Nat /\ DOMAIN ns = 1..Len(ns) /\ Len(ts) \in Nat /\ DOMAIN ts = 1..Len(ts)
    BY <1>3, SeqFacts
<1>5. (\A k \in 1..Len(ns) : ns[k] \in NodeRec) /\ \A i \in 1..Len(ts) : ts[i] \in TokenRec
    BY <1>2
<1>6. \A x \in NodeRec : x.kind \in Kinds /\ x.parent \in Nat /\ x.start \in Nat /\ x.end \in Nat
    BY DEF NodeRec
<1>7. \A x \in TokenRec : /\ x.role \in {"l", "r", "l_or_r"} /\ x.text \in Seq(Name \cup Field)
                            /\ x.node \in Nat /\ x.recent \in Nat \cup {None}
    BY DEF TokenRec
<1>8. QED
    BY <1>1, <1>3, <1>4, <1>5, <1>6, <1>7

Grows(p, q) ==
    /\ Len(p.nodes) <= Len(q.nodes) /\ SameTree(p, q, Len(p.nodes))
    /\ Len(p.tokens) <= Len(q.tokens)
    /\ \A i \in 1..Len(p.tokens) : q.tokens[i] = p.tokens[i]

Sound(p) == Typed(p) /\ TreeInv(p) /\ KindInv(p) /\ TokenInv(p)

\* A node that binds has a parent, and no scope of its own.
LEMMA BinderFacts ==
    ASSUME NEW p, Typed(p), TreeInv(p), NEW n \in 1..Len(p.nodes), p.nodes[n].kind \in Binders \cup Clauses
    PROVE  /\ n # 1 /\ p.nodes[n].parent \in 1..(n - 1) /\ p.nodes[n].kind \notin ScopeAst
           /\ p.nodes[n].kind # "Root"
<1>1. p.nodes[n].kind \notin ScopeAst /\ p.nodes[n].kind # "Root"
    BY DEF Binders, Pairs, Clauses, ScopeAst
<1>2. n # 1
    BY <1>1 DEF TreeInv
<1>3. Len(p.nodes) \in Nat
    BY TypedFacts
<1>4. n \in 2..Len(p.nodes) /\ n \in 1..Len(p.nodes)
    BY <1>2, <1>3
<1>5. p.nodes[n].parent # 0 /\ p.nodes[n].parent \in 0..(n - 1)
    BY <1>4 DEF TreeInv, Parents
<1>6. QED
    BY <1>1, <1>2, <1>5

\* The scopes of a node, in a tree.
LEMMA TreeScopes ==
    ASSUME NEW p, Typed(p), TreeInv(p), NEW n \in 1..Len(p.nodes)
    PROVE  LET s == ScopesOf(p, n)
           IN  /\ Parents(p, n)
               /\ IsSeq(s) /\ Len(s) \in Nat \ {0}
               /\ \A i \in 1..Len(s) : s[i] \in 1..n /\ p.nodes[s[i]].kind \in ScopeAst
               /\ \A open \in SUBSET (1..n) : Chain(p, open) /\ n \in open =>
                     /\ \A i \in 1..Len(s) : s[i] \in open
                     /\ \A k \in open : p.nodes[k].kind \in ScopeAst => k <= s[1]
<1>1. Len(p.nodes) \in Nat
    BY TypedFacts
<1>2. n # 0 /\ n \in Nat /\ (\A k \in 1..n : k \in 1..Len(p.nodes)) /\ (\A k \in 2..n : k \in 2..Len(p.nodes))
    BY <1>1
<1>3. Parents(p, n) /\ p.nodes[1].kind = "Root" /\ \A k \in 2..n : p.nodes[k].parent # 0
    BY <1>2 DEF TreeInv, Parents
<1>4. QED
    BY <1>2, <1>3, ScopesFacts

\* The frame of a binder is above it.
LEMMA FrameFacts ==
    ASSUME NEW p, Typed(p), TreeInv(p), NEW n \in 1..Len(p.nodes)
    PROVE  /\ Frame(p, n) \in 1..n
           /\ \E i \in 1..Len(ScopesOf(p, n)) :
                 /\ Frame(p, n) = ScopesOf(p, n)[i]
                 /\ ~IsOuter(p, n) => i = 1
                 /\ IsOuter(p, n) /\ Len(ScopesOf(p, n)) > 1 => i = 2
<1>1. PICK s : s = ScopesOf(p, n)
    OBVIOUS
<1>2. Len(s) \in Nat \ {0} /\ \A i \in 1..Len(s) : s[i] \in 1..n
    BY <1>1, TreeScopes
<1>3. 1 \in 1..Len(s) /\ (Len(s) > 1 => 2 \in 1..Len(s))
    BY <1>2
<1>4. Frame(p, n) = IF IsOuter(p, n) /\ Len(s) > 1 THEN s[2] ELSE s[1]
    BY <1>1 DEF Frame
<1>5. QED
    BY <1>1, <1>2, <1>3, <1>4

\* A token keeps its declarer and its frame.
LEMMA PlacesStay ==
    ASSUME NEW p, NEW q, Sound(p), Grows(p, q), NEW j \in 1..Len(p.tokens), p.tokens[j].role # "r"
    PROVE  /\ q.tokens[j] = p.tokens[j]
           /\ DeclarerOf(q, j) = DeclarerOf(p, j) /\ DeclarerOf(p, j) \in 2..Len(p.nodes)
           /\ FrameOf(q, j) = FrameOf(p, j) /\ FrameOf(p, j) \in 1..Len(p.nodes)
           /\ OuterOf(q, j) = OuterOf(p, j)
<1> USE DEF Sound
<1>1. q.tokens[j] = p.tokens[j]
    BY DEF Grows
<1>2. PICK n : n = p.tokens[j].node
    OBVIOUS
<1>3. Len(p.nodes) \in Nat /\ p.tokens[j].role \in {"l", "r", "l_or_r"}
    BY TypedFacts
<1>4. /\ n \in 1..Len(p.nodes)
      /\ p.tokens[j].role = "l" => p.nodes[n].kind \in Binders
      /\ p.tokens[j].role = "l_or_r" => p.nodes[n].kind \in Clauses
    BY <1>2 DEF TokenInv
<1>5. /\ n # 1 /\ p.nodes[n].parent \in 1..(n - 1)
    BY <1>3, <1>4, BinderFacts
<1>6. PICK up : up = p.nodes[n].parent
    OBVIOUS
<1>7. up \in 1..Len(p.nodes) /\ up \in 1..(n - 1) /\ n \in 2..Len(p.nodes)
    BY <1>3, <1>4, <1>5, <1>6
<1>8. /\ q.nodes[n].kind = p.nodes[n].kind /\ q.nodes[n].parent = up /\ q.nodes[up].kind = p.nodes[up].kind
    BY <1>4, <1>6, <1>7 DEF Grows, SameTree
<1>9. IsOuter(q, n) = IsOuter(p, n)
    BY <1>6, <1>8 DEF IsOuter
<1>10. ScopesOf(q, n) = ScopesOf(p, n)
    <2>1. Parents(p, n)
        BY <1>4, TreeScopes
    <2>2. SameTree(p, q, n)
        <3>1. \A k \in 1..n : k \in 1..Len(p.nodes)
            BY <1>3, <1>4
        <3>2. QED
            BY <3>1 DEF Grows, SameTree
    <2>3. QED
        BY <2>1, <2>2, ScopesSame
<1>11. Frame(q, n) = Frame(p, n) /\ Frame(p, n) \in 1..Len(p.nodes)
    <2>1. Frame(p, n) \in 1..n
        BY <1>4, FrameFacts
    <2>2. Frame(q, n) = Frame(p, n)
        BY <1>9, <1>10 DEF Frame
    <2>3. QED
        BY <1>3, <1>4, <2>1, <2>2
<1>12. /\ DeclarerOf(q, j) = DeclarerOf(p, j)
       /\ DeclarerOf(p, j) = IF p.nodes[n].kind = "N_MACRO_NAME" THEN up ELSE n
    BY <1>1, <1>2, <1>6, <1>8 DEF DeclarerOf, Declarer
<1>13. DeclarerOf(p, j) \in 2..Len(p.nodes)
    <2>1. CASE p.nodes[n].kind = "N_MACRO_NAME"
        <3>1. p.nodes[up].kind = "N_MACRO"
            BY <1>4, <1>6, <2>1 DEF KindInv
        <3>2. up # 1
            BY <3>1 DEF TreeInv
        <3>3. QED
            BY <1>3, <1>7, <1>12, <2>1, <3>2
    <2>2. CASE p.nodes[n].kind # "N_MACRO_NAME"
        BY <1>7, <1>12, <2>2
    <2>3. QED
        BY <2>1, <2>2
<1>14. FrameOf(q, j) = FrameOf(p, j) /\ FrameOf(p, j) \in 1..Len(p.nodes)
    BY <1>1, <1>2, <1>4, <1>6, <1>7, <1>8, <1>11 DEF FrameOf
<1>15. OuterOf(q, j) = OuterOf(p, j)
    BY <1>1, <1>2, <1>9 DEF OuterOf
<1>16. QED
    BY <1>1, <1>12, <1>13, <1>14, <1>15

\* From one program to a later one: what is bound stays bound, what is over stays
\* over, and what becomes so does not concern the tokens that are there.
Keeps(p, open, q, left) ==
    \A j \in 1..Len(p.tokens) : p.tokens[j].role # "r" =>
        /\ Made(p, open, j) =>
              /\ Made(q, left, j) /\ From(q, j) = From(p, j)
              /\ p.tokens[j].role = "l" =>
                    LET d == DeclarerOf(p, j)
                    IN  q.nodes[d].start = p.nodes[d].start /\ q.nodes[d].end = p.nodes[d].end
        /\ Made(q, left, j) /\ ~Made(p, open, j) => From(q, j) = Len(p.tokens)
        /\ Over(p, open, j) => Over(q, left, j) /\ To(q, j) = To(p, j)
        /\ Over(q, left, j) /\ ~Over(p, open, j) => To(q, j) = Len(p.tokens)

\* So a token goes on seeing what it saw.
LEMMA SightStays ==
    ASSUME NEW p, NEW open, NEW q, NEW left, Sound(p), Grows(p, q), Keeps(p, open, q, left),
           NEW i \in 1..Len(p.tokens), Sees(p, open, i)
    PROVE  Sees(q, left, i)
<1>1. PICK t : t = Len(p.tokens)
    OBVIOUS
<1>2. t \in Nat /\ \A j \in 1..t : p.tokens[j].recent \in Nat \cup {None}
    BY <1>1, TypedFacts DEF Sound
<1>3. \A j \in 1..t : q.tokens[j] = p.tokens[j]
    BY <1>1 DEF Grows
<1>4. \A j \in 1..(i - 1) : j \in 1..t
    BY <1>1, <1>2
<1>5. ASSUME NEW j \in 1..(i - 1) PROVE j \in Near(q, left, i) <=> j \in Near(p, open, i)
    <2>1. j \in 1..t /\ q.tokens[j] = p.tokens[j] /\ q.tokens[i] = p.tokens[i] /\ i \in 1..t
        BY <1>1, <1>3, <1>4
    <2>2. CASE p.tokens[j].role = "r"
        BY <2>1, <2>2 DEF Near, Made
    <2>3. CASE p.tokens[j].role # "r"
        <3>1. /\ Made(p, open, j) => Made(q, left, j) /\ From(q, j) = From(p, j)
              /\ Made(q, left, j) /\ ~Made(p, open, j) => From(q, j) = t
              /\ Over(p, open, j) => Over(q, left, j) /\ To(q, j) = To(p, j)
              /\ Over(q, left, j) /\ ~Over(p, open, j) => To(q, j) = t
            BY <1>1, <2>1, <2>3 DEF Keeps
        <3>2. ~(t <= i - 1) /\ i <= t
            BY <1>2, <2>1
        <3>3. Made(q, left, j) /\ From(q, j) <= i - 1 <=> Made(p, open, j) /\ From(p, j) <= i - 1
            BY <3>1, <3>2
        <3>4. (Over(q, left, j) => i <= To(q, j)) <=> (Over(p, open, j) => i <= To(p, j))
            BY <3>1, <3>2
        <3>5. QED
            BY <2>1, <3>3, <3>4 DEF Near
    <2>4. QED
        BY <2>2, <2>3
<1>6. Near(q, left, i) = Near(p, open, i)
    BY <1>5 DEF Near
<1>7. PICK recent : recent = p.tokens[i].recent
    OBVIOUS
<1>8. q.tokens[i].recent = recent
    BY <1>1, <1>3, <1>7
<1>9. ASSUME recent # None
      PROVE  /\ recent \in Near(p, open, i)
             /\ \A j \in Near(p, open, i) : j = recent \/ Later(q, j, recent)
    <2>1. /\ recent \in Near(p, open, i)
          /\ \A j \in Near(p, open, i) : j = recent \/ Later(p, j, recent)
        BY <1>7, <1>9 DEF Sees
    <2>2. recent \in 1..t /\ Made(p, open, recent)
        BY <1>4, <2>1 DEF Near
    <2>3. q.tokens[recent] = p.tokens[recent] /\ p.tokens[recent].role # "r"
        BY <1>3, <2>2 DEF Made
    <2>4. ASSUME p.tokens[recent].role = "l"
          PROVE  /\ DeclarerOf(q, recent) = DeclarerOf(p, recent)
                 /\ q.nodes[DeclarerOf(p, recent)].start = p.nodes[DeclarerOf(p, recent)].start
                 /\ q.nodes[DeclarerOf(p, recent)].end = p.nodes[DeclarerOf(p, recent)].end
        BY <1>1, <2>2, <2>3, <2>4, PlacesStay DEF Keeps
    <2>5. \A j : Later(p, j, recent) => Later(q, j, recent)
        BY <2>3, <2>4 DEF Later
    <2>6. QED
        BY <2>1, <2>5
<1>10. QED
    BY <1>6, <1>7, <1>8, <1>9 DEF Sees

\* What a binding's scope begins and ends with lies in the program.
LEMMA ScopeBounds ==
    ASSUME NEW p, Sound(p), NEW j \in 1..Len(p.tokens), p.tokens[j].role # "r"
    PROVE  /\ From(p, j) \in Nat /\ From(p, j) <= Len(p.tokens)
           /\ To(p, j) \in Nat /\ To(p, j) <= Len(p.tokens)
<1> USE DEF Sound
<1>1. /\ Len(p.tokens) \in Nat /\ DOMAIN p.nodes = 1..Len(p.nodes) /\ Len(p.nodes) \in Nat
      /\ \A k \in 1..Len(p.nodes) : /\ p.nodes[k].start \in Nat /\ p.nodes[k].end \in Nat
                                    /\ p.nodes[k].start <= Len(p.tokens) /\ p.nodes[k].end <= Len(p.tokens)
    BY TypedFacts DEF TreeInv
<1>2. Grows(p, p)
    BY <1>1 DEF Grows, SameTree
<1>3. DeclarerOf(p, j) \in 2..Len(p.nodes) /\ FrameOf(p, j) \in 1..Len(p.nodes)
    BY <1>2, PlacesStay
<1>4. DeclarerOf(p, j) \in 1..Len(p.nodes)
    BY <1>1, <1>3
<1>5. From(p, j) \in Nat /\ From(p, j) <= Len(p.tokens)
    BY <1>1, <1>4 DEF From
<1>6. To(p, j) \in Nat /\ To(p, j) <= Len(p.tokens)
    <2>1. CASE Caught(p, j)
        <3>1. PICK c : c = CHOOSE x \in Catches(p, FrameOf(p, j)) : TRUE
            OBVIOUS
        <3>2. c \in Catches(p, FrameOf(p, j))
            BY <2>1, <3>1 DEF Caught
        <3>3. c \in 1..Len(p.nodes)
            BY <1>1, <3>2 DEF Catches
        <3>4. To(p, j) = p.nodes[c].start
            BY <2>1, <3>1 DEF To
        <3>5. QED
            BY <1>1, <3>3, <3>4
    <2>2. CASE ~Caught(p, j)
        <3>1. To(p, j) = p.nodes[FrameOf(p, j)].end
            BY <2>2 DEF To
        <3>2. QED
            BY <1>1, <1>3, <3>1
    <2>3. QED
        BY <2>1, <2>2
<1>7. QED
    BY <1>5, <1>6

-----------------------------------------------------------------------------
(* Writing tokens *)

SameNodes(p, q) ==
    /\ Len(q.nodes) = Len(p.nodes)
    /\ \A k \in 1..Len(p.nodes) :
          /\ q.nodes[k].kind = p.nodes[k].kind /\ q.nodes[k].parent = p.nodes[k].parent
          /\ q.nodes[k].start = p.nodes[k].start /\ q.nodes[k].end = p.nodes[k].end

\* Trees that agree have the same catches.
LEMMA SameCatches ==
    ASSUME NEW p, NEW q, Typed(p), Typed(q), Len(q.nodes) = Len(p.nodes), SameTree(p, q, Len(p.nodes)), NEW n
    PROVE  Catches(q, n) = Catches(p, n)
<1>1. DOMAIN p.nodes = 1..Len(p.nodes) /\ DOMAIN q.nodes = 1..Len(p.nodes)
    BY TypedFacts
<1>2. QED
    BY <1>1 DEF Catches, SameTree

\* A catch is a node.
LEMMA CatchesAreNodes ==
    ASSUME NEW p, Typed(p), NEW n
    PROVE  Catches(p, n) \subseteq 1..Len(p.nodes)
<1>1. DOMAIN p.nodes = 1..Len(p.nodes)
    BY TypedFacts
<1>2. QED
    BY <1>1 DEF Catches

\* Nothing changes for the tokens before.
LEMMA WritingKeeps ==
    ASSUME NEW p, NEW q, NEW open, Sound(p), Typed(q), Grows(p, q), SameNodes(p, q)
    PROVE  /\ Keeps(p, open, q, open)
           /\ \A j \in 1..Len(p.tokens) :
                 /\ Made(q, open, j) <=> Made(p, open, j)
                 /\ p.tokens[j].role # "r" =>
                       /\ Over(q, open, j) <=> Over(p, open, j)
                       /\ To(q, j) = To(p, j) /\ From(q, j) = From(p, j)
<1>0. Typed(p)
    BY DEF Sound
<1>1. ASSUME NEW j \in 1..Len(p.tokens), p.tokens[j].role # "r"
      PROVE  /\ Made(q, open, j) <=> Made(p, open, j)
             /\ Over(q, open, j) <=> Over(p, open, j)
             /\ To(q, j) = To(p, j) /\ From(q, j) = From(p, j)
             /\ DeclarerOf(p, j) \in 1..Len(p.nodes)
    <2>1. /\ q.tokens[j] = p.tokens[j]
          /\ DeclarerOf(q, j) = DeclarerOf(p, j) /\ DeclarerOf(p, j) \in 2..Len(p.nodes)
          /\ FrameOf(q, j) = FrameOf(p, j) /\ FrameOf(p, j) \in 1..Len(p.nodes)
          /\ OuterOf(q, j) = OuterOf(p, j)
        BY <1>1, PlacesStay
    <2>2. Catches(q, FrameOf(p, j)) = Catches(p, FrameOf(p, j))
        BY <1>0, SameCatches DEF SameNodes, SameTree
    <2>3. DeclarerOf(p, j) \in 1..Len(p.nodes)
        BY <1>0, <2>1, TypedFacts
    <2>4. Made(q, open, j) <=> Made(p, open, j)
        BY <2>1 DEF Made
    <2>5. Caught(q, j) <=> Caught(p, j)
        BY <2>1, <2>2 DEF Caught
    <2>6. Over(q, open, j) <=> Over(p, open, j)
        BY <2>1, <2>5 DEF Over
    <2>7. From(q, j) = From(p, j)
        BY <2>1, <2>3 DEF From, SameNodes
    <2>8. To(q, j) = To(p, j)
        <3>1. CASE Caught(p, j)
            <4>1. PICK c : c = CHOOSE x \in Catches(p, FrameOf(p, j)) : TRUE
                OBVIOUS
            <4>2. c \in 1..Len(p.nodes)
                BY <1>0, <3>1, <4>1, CatchesAreNodes DEF Caught
            <4>3. To(p, j) = p.nodes[c].start /\ To(q, j) = q.nodes[c].start
                BY <2>1, <2>2, <2>5, <3>1, <4>1 DEF To
            <4>4. QED
                BY <4>2, <4>3 DEF SameNodes
        <3>2. CASE ~Caught(p, j)
            <4>1. To(p, j) = p.nodes[FrameOf(p, j)].end /\ To(q, j) = q.nodes[FrameOf(p, j)].end
                BY <2>1, <2>5, <3>2 DEF To
            <4>2. QED
                BY <2>1, <4>1 DEF SameNodes
        <3>3. QED
            BY <3>1, <3>2
    <2>9. QED
        BY <2>3, <2>4, <2>6, <2>7, <2>8
<1>2. Keeps(p, open, q, open)
    BY <1>1 DEF Keeps, SameNodes
<1>3. ASSUME NEW j \in 1..Len(p.tokens), p.tokens[j].role = "r"
      PROVE  Made(q, open, j) <=> Made(p, open, j)
    BY <1>3 DEF Made, Grows
<1>4. QED
    BY <1>1, <1>2, <1>3

\* The recent binding of a text, by the table.
IsRecent(p, table, text, recent) ==
    LET named == {k \in 1..Len(table) : p.tokens[table[k].token].text = text}
    IN  \/ recent = None /\ named = {}
        \/ \E k \in named : recent = table[k].token /\ \A l \in named : l <= k

\* A new token sees what is in the table.
LEMMA NewSees ==
    ASSUME NEW p, NEW q, NEW open, NEW table, Sound(p), Typed(q), Grows(p, q), SameNodes(p, q),
           IsSeq(table), EnvInv(p, open, table),
           NEW i \in (Len(p.tokens) + 1)..Len(q.tokens),
           IsRecent(p, table, <<q.tokens[i].text[1]>>, q.tokens[i].recent),
           \A j \in (Len(p.tokens) + 1)..(i - 1) : ~Made(q, open, j)
    PROVE  Sees(q, open, i)
<1>1. PICK t, text : t = Len(p.tokens) /\ text = <<q.tokens[i].text[1]>>
    OBVIOUS
<1>2. t \in Nat /\ i \in Nat /\ i > t /\ Len(q.tokens) \in Nat /\ Len(table) \in Nat /\ None \notin Nat
    BY <1>1, TypedFacts, SeqFacts, ScopesAssumption DEF Sound
<1>3. \A j \in 1..t : q.tokens[j] = p.tokens[j]
    BY <1>1 DEF Grows
<1> DEFINE named == {k \in 1..Len(table) : p.tokens[table[k].token].text = text}
<1>4. ASSUME NEW j \in Near(q, open, i) PROVE \E k \in named : table[k].token = j
    <2>1. j \in 1..(i - 1) /\ Made(q, open, j) /\ q.tokens[j].text = text
        BY <1>1 DEF Near
    <2>2. j \in 1..t
        <3>1. j \notin (t + 1)..(i - 1)
            BY <1>1, <2>1
        <3>2. QED
            BY <1>2, <2>1, <3>1
    <2>3. q.tokens[j] = p.tokens[j] /\ p.tokens[j].role # "r"
        BY <1>3, <2>1, <2>2 DEF Made
    <2>4. Made(p, open, j) /\ (Over(q, open, j) <=> Over(p, open, j)) /\ To(q, j) = To(p, j)
        BY <1>1, <2>1, <2>2, <2>3, WritingKeeps
    <2>5. To(p, j) \in Nat /\ To(p, j) <= t
        BY <1>1, <2>2, <2>3, ScopeBounds
    <2>6. ~Over(p, open, j)
        <3>1. Over(q, open, j) => i <= To(q, j)
            BY DEF Near
        <3>2. QED
            BY <1>2, <2>4, <2>5, <3>1
    <2>7. PICK k \in 1..Len(table) : table[k].token = j
        BY <1>1, <2>2, <2>4, <2>6 DEF EnvInv
    <2>8. k \in named
        BY <2>1, <2>3, <2>7
    <2>9. QED
        BY <2>7, <2>8
<1>5. ASSUME NEW k \in named PROVE table[k].token \in Near(q, open, i) /\ table[k].token \in 1..t
    <2>1. PICK j : j = table[k].token
        OBVIOUS
    <2>2. j \in 1..t /\ Made(p, open, j) /\ ~Over(p, open, j) /\ p.tokens[j].text = text
        BY <1>1, <2>1 DEF EnvInv
    <2>3. q.tokens[j] = p.tokens[j] /\ p.tokens[j].role # "r"
        BY <1>3, <2>2 DEF Made
    <2>4. Made(q, open, j) /\ ~Over(q, open, j) /\ From(q, j) = From(p, j)
        BY <1>1, <2>2, <2>3, WritingKeeps
    <2>5. From(p, j) \in Nat /\ From(p, j) <= t
        BY <1>1, <2>2, <2>3, ScopeBounds
    <2>6. j \in 1..(i - 1) /\ From(q, j) <= i - 1
        BY <1>2, <2>2, <2>4, <2>5
    <2>7. j \in Near(q, open, i)
        BY <1>1, <2>2, <2>3, <2>4, <2>6 DEF Near
    <2>8. QED
        BY <2>1, <2>2, <2>7
<1>6. PICK recent : recent = q.tokens[i].recent
    OBVIOUS
<1>7. \/ recent = None /\ named = {}
      \/ \E k \in named : recent = table[k].token /\ \A l \in named : l <= k
    BY <1>1, <1>6 DEF IsRecent
<1>8. CASE recent = None /\ named = {}
    <2>1. Near(q, open, i) = {}
        BY <1>4, <1>8
    <2>2. QED
        BY <1>6, <1>8, <2>1 DEF Sees
<1>9. ASSUME NEW k \in named, recent = table[k].token, \A l \in named : l <= k
      PROVE  Sees(q, open, i)
    <2>1. recent \in Near(q, open, i) /\ recent \in 1..t /\ recent # None
        BY <1>2, <1>5, <1>9
    <2>2. Made(q, open, recent)
        BY <2>1 DEF Near
    <2>3. q.tokens[recent] = p.tokens[recent] /\ p.tokens[recent].role # "r"
        BY <1>3, <2>1, <2>2 DEF Made
    <2>4. /\ DeclarerOf(q, recent) = DeclarerOf(p, recent)
          /\ DeclarerOf(p, recent) \in 1..Len(p.nodes)
        <3>1. /\ DeclarerOf(q, recent) = DeclarerOf(p, recent)
              /\ DeclarerOf(p, recent) \in 2..Len(p.nodes)
            BY <1>1, <2>1, <2>3, PlacesStay
        <3>2. QED
            BY <3>1, TypedFacts DEF Sound
    <2>5. \A j : Later(p, j, recent) => Later(q, j, recent)
        BY <2>3, <2>4 DEF Later, SameNodes
    <2>6. ASSUME NEW j \in Near(q, open, i) PROVE j = recent \/ Later(q, j, recent)
        <3>1. PICK l \in named : table[l].token = j
            BY <1>4
        <3>2. l <= k /\ l \in 1..Len(table) /\ k \in 1..Len(table)
            BY <1>9, <3>1
        <3>3. CASE l = k
            BY <1>9, <3>1, <3>3
        <3>4. CASE l # k
            <4>1. l < k
                BY <3>2, <3>4
            <4>2. Later(p, j, recent)
                BY <1>9, <3>1, <3>2, <4>1 DEF EnvInv
            <4>3. QED
                BY <2>5, <4>2
        <3>5. QED
            BY <3>3, <3>4
    <2>7. QED
        BY <1>6, <2>1, <2>6 DEF Sees
<1>10. QED
    BY <1>7, <1>8, <1>9

InForce(p, open, j) == Made(p, open, j) /\ ~Over(p, open, j)

\* The table: of what was in it, what is still in force, and behind it the new.
LEMMA TableGrows ==
    ASSUME NEW p, NEW open, NEW q, NEW left, Sound(p), Typed(q), Grows(p, q), Keeps(p, open, q, left),
           NEW table, NEW kept, NEW new, IsSeq(table), IsSeq(kept), IsSeq(new), EnvInv(p, open, table),
           \A x : (\E k \in 1..Len(kept) : kept[k] = x)
                      <=> \E k \in 1..Len(table) : table[k] = x /\ InForce(q, left, x.token),
           \A k, l \in 1..Len(kept) : k < l =>
               \E a, b \in 1..Len(table) : a < b /\ kept[k] = table[a] /\ kept[l] = table[b],
           \A k \in 1..Len(new) :
               /\ new[k].token \in 1..Len(q.tokens) /\ InForce(q, left, new[k].token)
               /\ new[k].frame = FrameOf(q, new[k].token) /\ new[k].outer = OuterOf(q, new[k].token),
           \A j \in 1..Len(q.tokens) : InForce(q, left, j) =>
               \/ j \in 1..Len(p.tokens) /\ InForce(p, open, j)
               \/ \E k \in 1..Len(new) : new[k].token = j,
           \A k \in 1..Len(kept), l \in 1..Len(new) : Later(q, kept[k].token, new[l].token),
           \A k, l \in 1..Len(new) : k < l => Later(q, new[k].token, new[l].token)
    PROVE  EnvInv(q, left, kept \o new)
<1>1. PICK m, n, all : m = Len(kept) /\ n = Len(new) /\ all = kept \o new
    OBVIOUS
<1>2. m \in Nat /\ n \in Nat
    BY <1>1, SeqFacts
<1>3. Len(all) = m + n /\ (\A k \in 1..m : all[k] = kept[k]) /\ \A k \in 1..n : all[m + k] = new[k]
    BY <1>1, ConcatFacts
<1>4. ASSUME NEW k \in 1..Len(all)
      PROVE  (k \in 1..m /\ all[k] = kept[k]) \/ \E l \in 1..n : k = m + l /\ all[k] = new[l]
    <2>1. PICK l : l = k - m
        OBVIOUS
    <2>2. k \in 1..m \/ (l \in 1..n /\ k = m + l)
        BY <1>2, <1>3, <2>1
    <2>3. QED
        BY <1>3, <2>2
<1>5. ASSUME NEW k \in 1..m
      PROVE  LET j == kept[k].token
             IN  /\ j \in 1..Len(p.tokens) /\ Made(p, open, j) /\ InForce(q, left, j)
                 /\ p.tokens[j].role # "r"
                 /\ kept[k].frame = FrameOf(q, j) /\ kept[k].outer = OuterOf(q, j)
    <2>1. PICK e, j : e = kept[k] /\ j = e.token
        OBVIOUS
    <2>2. InForce(q, left, j) /\ \E a \in 1..Len(table) : table[a] = e
        BY <1>1, <2>1
    <2>3. /\ j \in 1..Len(p.tokens) /\ Made(p, open, j)
          /\ e.frame = FrameOf(p, j) /\ e.outer = OuterOf(p, j)
        BY <2>1, <2>2 DEF EnvInv
    <2>4. p.tokens[j].role # "r"
        BY <2>3 DEF Made
    <2>5. FrameOf(q, j) = FrameOf(p, j) /\ OuterOf(q, j) = OuterOf(p, j)
        BY <2>3, <2>4, PlacesStay
    <2>6. QED
        BY <2>1, <2>2, <2>3, <2>4, <2>5
<1>6. \A j \in 1..Len(p.tokens) : j \in 1..Len(q.tokens)
    <2>1. Len(p.tokens) \in Nat /\ Len(q.tokens) \in Nat /\ Len(p.tokens) <= Len(q.tokens)
        BY TypedFacts DEF Sound, Grows
    <2>2. ASSUME NEW t \in Nat, NEW u \in Nat, t <= u, NEW j \in 1..t PROVE j \in 1..u
        BY <2>2
    <2>3. QED
        BY <2>1, <2>2
<1>7. ASSUME NEW k \in 1..Len(all)
      PROVE  LET j == all[k].token
             IN  /\ j \in 1..Len(q.tokens) /\ Made(q, left, j) /\ ~Over(q, left, j)
                 /\ all[k].frame = FrameOf(q, j) /\ all[k].outer = OuterOf(q, j)
    <2>1. CASE k \in 1..m /\ all[k] = kept[k]
        BY <1>5, <1>6, <2>1 DEF InForce
    <2>2. ASSUME NEW l \in 1..n, all[k] = new[l] PROVE <1>7!2
        BY <1>1, <2>2 DEF InForce
    <2>3. QED
        BY <1>4, <2>1, <2>2
<1>8. ASSUME NEW j \in 1..Len(q.tokens), Made(q, left, j), ~Over(q, left, j)
      PROVE  \E k \in 1..Len(all) : all[k].token = j
    <2>1. InForce(q, left, j)
        BY <1>8 DEF InForce
    <2>2. CASE j \in 1..Len(p.tokens) /\ InForce(p, open, j)
        <3>1. PICK a \in 1..Len(table) : table[a].token = j
            BY <2>2 DEF EnvInv, InForce
        <3>2. PICK k \in 1..m : kept[k] = table[a]
            BY <1>1, <2>1, <3>1
        <3>3. k \in 1..Len(all)
            BY <1>2, <1>3
        <3>4. QED
            BY <1>3, <3>1, <3>2, <3>3
    <2>3. ASSUME NEW l \in 1..n, new[l].token = j PROVE \E k \in 1..Len(all) : all[k].token = j
        <3>1. m + l \in 1..Len(all)
            BY <1>2, <1>3
        <3>2. QED
            BY <1>3, <2>3, <3>1
    <2>4. QED
        BY <1>1, <2>1, <2>2, <2>3
<1>9. ASSUME NEW k \in 1..Len(all), NEW l \in 1..Len(all), k < l
      PROVE  Later(q, all[k].token, all[l].token)
    <2>1. CASE l \in 1..m
        <3>1. k \in 1..m
            BY <1>2, <1>3, <1>9, <2>1
        <3>2. PICK a, b \in 1..Len(table) : a < b /\ kept[k] = table[a] /\ kept[l] = table[b]
            BY <1>1, <1>9, <2>1, <3>1
        <3>3. PICK i, j : i = kept[k].token /\ j = kept[l].token
            OBVIOUS
        <3>4. Later(p, i, j)
            BY <3>2, <3>3 DEF EnvInv
        <3>5. j \in 1..Len(p.tokens) /\ Made(p, open, j) /\ p.tokens[j].role # "r"
            BY <1>5, <2>1, <3>3
        <3>6. q.tokens[j] = p.tokens[j] /\ DeclarerOf(q, j) = DeclarerOf(p, j)
            BY <3>5, PlacesStay
        <3>7. p.tokens[j].role = "l" =>
                  /\ q.nodes[DeclarerOf(p, j)].start = p.nodes[DeclarerOf(p, j)].start
                  /\ q.nodes[DeclarerOf(p, j)].end = p.nodes[DeclarerOf(p, j)].end
            BY <3>5 DEF Keeps
        <3>8. Later(q, i, j)
            BY <3>4, <3>6, <3>7 DEF Later
        <3>9. QED
            BY <1>3, <2>1, <3>1, <3>3, <3>8
    <2>2. CASE l \notin 1..m
        <3>1. PICK b \in 1..n : l = m + b /\ all[l] = new[b]
            BY <1>4, <2>2
        <3>2. CASE k \in 1..m /\ all[k] = kept[k]
            BY <1>1, <3>1, <3>2
        <3>3. ASSUME NEW a \in 1..n, k = m + a, all[k] = new[a]
              PROVE  Later(q, all[k].token, all[l].token)
            <4>1. a < b
                BY <1>2, <1>9, <3>1, <3>3
            <4>2. QED
                BY <1>1, <3>1, <3>3, <4>1
        <3>4. QED
            BY <1>4, <3>2, <3>3
    <2>3. QED
        BY <2>1, <2>2
<1>10. EnvInv(q, left, all)
    BY <1>7, <1>8, <1>9 DEF EnvInv
<1>11. QED
    BY <1>1, <1>10

-----------------------------------------------------------------------------
(* Opening a node *)

OpenShape(p, q, here, kind) ==
    LET new == Len(p.nodes) + 1
    IN  /\ Len(q.nodes) = new
        /\ \A k \in 1..Len(p.nodes) :
              /\ q.nodes[k].kind = p.nodes[k].kind /\ q.nodes[k].parent = p.nodes[k].parent
              /\ q.nodes[k].start = p.nodes[k].start /\ q.nodes[k].end = p.nodes[k].end
        /\ q.nodes[new].kind = kind /\ q.nodes[new].parent = here
        /\ q.nodes[new].start = Len(p.tokens) /\ q.nodes[new].end = Len(p.tokens)
        /\ q.tokens = p.tokens

\* What opening a node changes for the bindings: a catch ends those of its match-try.
LEMMA OpeningKeeps ==
    ASSUME NEW p, NEW q, NEW open, NEW here \in open, here \in 1..Len(p.nodes), NEW kind, Sound(p), Typed(q),
           OpenShape(p, q, here, kind), kind = "N_CATCH" => Catches(p, here) = {}
    PROVE  LET left == open \cup {Len(p.nodes) + 1}
           IN  /\ Grows(p, q) /\ Keeps(p, open, q, left)
               /\ \A j \in 1..Len(p.tokens) :
                     /\ Made(q, left, j) <=> Made(p, open, j)
                     /\ p.tokens[j].role # "r" =>
                           (Over(q, left, j) <=>
                               \/ Over(p, open, j)
                               \/ kind = "N_CATCH" /\ FrameOf(p, j) = here /\ ~OuterOf(p, j))
<1>0. Typed(p)
    BY DEF Sound
<1>1. PICK n, new, left : n = Len(p.nodes) /\ new = n + 1 /\ left = open \cup {new}
    OBVIOUS
<1>2. n \in Nat /\ Len(q.nodes) = new /\ Len(p.tokens) \in Nat /\ DOMAIN p.nodes = 1..n /\ DOMAIN q.nodes = 1..new
    BY <1>0, <1>1, TypedFacts DEF OpenShape
<1>3. Grows(p, q)
    BY <1>1, <1>2 DEF Grows, SameTree, OpenShape
<1>4. \A k \in 1..n : k # new /\ k \in 1..new
    BY <1>1, <1>2
<1>5. 1..new = 1..n \cup {new}
    BY <1>1, <1>2
<1>6. ASSUME NEW f \in 1..n
      PROVE  Catches(q, f) = IF kind = "N_CATCH" /\ f = here THEN {new} ELSE Catches(p, f)
    <2>1. Catches(q, f) = {k \in 1..n : p.nodes[k].parent = f /\ p.nodes[k].kind = "N_CATCH"}
                              \cup {k \in {new} : here = f /\ kind = "N_CATCH"}
        BY <1>1, <1>2, <1>5 DEF Catches, OpenShape
    <2>2. Catches(p, f) = {k \in 1..n : p.nodes[k].parent = f /\ p.nodes[k].kind = "N_CATCH"}
        BY <1>2 DEF Catches
    <2>3. CASE kind = "N_CATCH" /\ f = here
        BY <2>1, <2>2, <2>3
    <2>4. CASE ~(kind = "N_CATCH" /\ f = here)
        BY <2>1, <2>2, <2>4
    <2>5. QED
        BY <2>3, <2>4
<1>7. ASSUME NEW j \in 1..Len(p.tokens), p.tokens[j].role # "r"
      PROVE  /\ Made(q, left, j) <=> Made(p, open, j)
             /\ From(q, j) = From(p, j)
             /\ DeclarerOf(p, j) \in 1..n
             /\ Over(p, open, j) => Over(q, left, j) /\ To(q, j) = To(p, j)
             /\ Over(q, left, j) /\ ~Over(p, open, j) => To(q, j) = Len(p.tokens)
             /\ Over(q, left, j) <=>
                   \/ Over(p, open, j)
                   \/ kind = "N_CATCH" /\ FrameOf(p, j) = here /\ ~OuterOf(p, j)
    <2>1. /\ q.tokens[j] = p.tokens[j]
          /\ DeclarerOf(q, j) = DeclarerOf(p, j) /\ DeclarerOf(p, j) \in 2..n
          /\ FrameOf(q, j) = FrameOf(p, j) /\ FrameOf(p, j) \in 1..n
          /\ OuterOf(q, j) = OuterOf(p, j)
        BY <1>1, <1>3, <1>7, PlacesStay
    <2>2. PICK d, f : d = DeclarerOf(p, j) /\ f = FrameOf(p, j)
        OBVIOUS
    <2>3. d \in 1..n /\ d # new /\ f \in 1..n /\ f # new
        BY <1>2, <1>4, <2>1, <2>2
    <2>4. (d \in left <=> d \in open) /\ (f \in left <=> f \in open)
        BY <1>1, <2>3
    <2>5. Made(q, left, j) <=> Made(p, open, j)
        BY <2>1, <2>2, <2>4 DEF Made
    <2>6. From(q, j) = From(p, j)
        BY <1>1, <2>1, <2>2, <2>3 DEF From, OpenShape
    <2>7. CASE kind = "N_CATCH" /\ f = here /\ ~OuterOf(p, j)
        <3>1. Catches(q, f) = {new} /\ Catches(p, f) = {}
            BY <1>6, <2>3, <2>7
        <3>2. ~Caught(p, j) /\ Caught(q, j)
            BY <2>1, <2>2, <2>7, <3>1 DEF Caught
        <3>3. Over(q, left, j)
            BY <3>2 DEF Over
        <3>4. To(q, j) = Len(p.tokens)
            <4>1. (CHOOSE x \in {new} : TRUE) = new
                OBVIOUS
            <4>2. QED
                BY <1>1, <2>1, <2>2, <3>1, <3>2, <4>1 DEF To, OpenShape
        <3>5. ASSUME Over(p, open, j) PROVE To(q, j) = To(p, j)
            <4>1. f \notin open
                BY <2>2, <3>2, <3>5 DEF Over
            <4>2. QED
                BY <2>2, <2>7, <4>1
        <3>6. QED
            BY <2>2, <2>3, <2>5, <2>6, <2>7, <3>3, <3>4, <3>5
    <2>8. CASE ~(kind = "N_CATCH" /\ f = here /\ ~OuterOf(p, j))
        <3>1. Caught(q, j) <=> Caught(p, j)
            BY <1>6, <2>1, <2>2, <2>3, <2>8 DEF Caught
        <3>2. Over(q, left, j) <=> Over(p, open, j)
            BY <2>1, <2>2, <2>4, <3>1 DEF Over
        <3>3. To(q, j) = To(p, j)
            <4>1. CASE Caught(p, j)
                <5>1. Catches(q, f) = Catches(p, f)
                    BY <1>6, <2>2, <2>3, <2>8, <4>1 DEF Caught
                <5>2. PICK c : c = CHOOSE x \in Catches(p, f) : TRUE
                    OBVIOUS
                <5>3. c \in 1..n
                    BY <1>0, <1>1, <2>2, <4>1, <5>2, CatchesAreNodes DEF Caught
                <5>4. To(p, j) = p.nodes[c].start /\ To(q, j) = q.nodes[c].start
                    BY <2>1, <2>2, <3>1, <4>1, <5>1, <5>2 DEF To
                <5>5. QED
                    BY <1>1, <5>3, <5>4 DEF OpenShape
            <4>2. CASE ~Caught(p, j)
                <5>1. To(p, j) = p.nodes[f].end /\ To(q, j) = q.nodes[f].end
                    BY <2>1, <2>2, <3>1, <4>2 DEF To
                <5>2. QED
                    BY <1>1, <2>3, <5>1 DEF OpenShape
            <4>3. QED
                BY <4>1, <4>2
        <3>4. QED
            BY <2>2, <2>3, <2>5, <2>6, <2>8, <3>2, <3>3
    <2>9. QED
        BY <2>7, <2>8
<1>8. Keeps(p, open, q, left)
    BY <1>1, <1>7 DEF Keeps, OpenShape
<1>9. ASSUME NEW j \in 1..Len(p.tokens), p.tokens[j].role = "r"
      PROVE  Made(q, left, j) <=> Made(p, open, j)
    BY <1>9 DEF Made, OpenShape
<1>10. QED
    BY <1>1, <1>3, <1>7, <1>8, <1>9

-----------------------------------------------------------------------------
(* Closing a node *)

CloseShape(p, q, here) ==
    /\ Len(q.nodes) = Len(p.nodes)
    /\ \A k \in 1..Len(p.nodes) :
          /\ q.nodes[k].kind = p.nodes[k].kind /\ q.nodes[k].parent = p.nodes[k].parent
          /\ q.nodes[k].start = p.nodes[k].start
          /\ q.nodes[k].end = IF k = here THEN Len(p.tokens) ELSE p.nodes[k].end
    /\ q.tokens = p.tokens

\* What closing a node changes for the bindings: it makes some and ends some.
LEMMA ClosingKeeps ==
    ASSUME NEW p, NEW q, NEW open, NEW here \in open, Sound(p), Typed(q), CloseShape(p, q, here)
    PROVE  LET left == open \ {here}
           IN  /\ Grows(p, q) /\ Keeps(p, open, q, left)
               /\ \A j \in 1..Len(p.tokens) :
                     /\ Made(q, left, j) <=>
                           Made(p, open, j) \/ (p.tokens[j].role = "l" /\ DeclarerOf(p, j) = here)
                     /\ p.tokens[j].role # "r" =>
                           (Over(q, left, j) <=> Over(p, open, j) \/ FrameOf(p, j) = here)
<1>0. Typed(p)
    BY DEF Sound
<1>1. PICK n, left : n = Len(p.nodes) /\ left = open \ {here}
    OBVIOUS
<1>2. n \in Nat /\ Len(p.tokens) \in Nat
    BY <1>0, <1>1, TypedFacts
<1>3. Grows(p, q)
    BY <1>1, <1>2 DEF Grows, SameTree, CloseShape
<1>4. \A f : Catches(q, f) = Catches(p, f)
    BY <1>0, <1>3, SameCatches DEF CloseShape, Grows
<1>5. ASSUME NEW j \in 1..Len(p.tokens), p.tokens[j].role # "r"
      PROVE  /\ Made(p, open, j) =>
                    /\ Made(q, left, j) /\ From(q, j) = From(p, j)
                    /\ p.tokens[j].role = "l" =>
                          LET d == DeclarerOf(p, j)
                          IN  q.nodes[d].start = p.nodes[d].start /\ q.nodes[d].end = p.nodes[d].end
             /\ Made(q, left, j) /\ ~Made(p, open, j) => From(q, j) = Len(p.tokens)
             /\ Over(p, open, j) => Over(q, left, j) /\ To(q, j) = To(p, j)
             /\ Over(q, left, j) /\ ~Over(p, open, j) => To(q, j) = Len(p.tokens)
             /\ Made(q, left, j) <=>
                   Made(p, open, j) \/ (p.tokens[j].role = "l" /\ DeclarerOf(p, j) = here)
             /\ Over(q, left, j) <=> Over(p, open, j) \/ FrameOf(p, j) = here
    <2>1. /\ q.tokens[j] = p.tokens[j]
          /\ DeclarerOf(q, j) = DeclarerOf(p, j) /\ DeclarerOf(p, j) \in 2..n
          /\ FrameOf(q, j) = FrameOf(p, j) /\ FrameOf(p, j) \in 1..n
          /\ OuterOf(q, j) = OuterOf(p, j)
        BY <1>1, <1>3, <1>5, PlacesStay
    <2>2. PICK d, f : d = DeclarerOf(p, j) /\ f = FrameOf(p, j)
        OBVIOUS
    <2>3. d \in 1..n /\ f \in 1..n
        BY <1>2, <2>1, <2>2
    <2>4. (d \in left <=> d \in open /\ d # here) /\ (f \in left <=> f \in open /\ f # here)
        BY <1>1
    <2>5. /\ q.nodes[d].start = p.nodes[d].start
          /\ q.nodes[d].end = IF d = here THEN Len(p.tokens) ELSE p.nodes[d].end
          /\ q.nodes[f].end = IF f = here THEN Len(p.tokens) ELSE p.nodes[f].end
        BY <1>1, <2>3 DEF CloseShape
    <2>6. Caught(q, j) <=> Caught(p, j)
        BY <1>4, <2>1 DEF Caught
    <2>7. Made(q, left, j) <=> Made(p, open, j) \/ (p.tokens[j].role = "l" /\ d = here)
        BY <2>1, <2>2, <2>4 DEF Made
    <2>8. ASSUME Made(p, open, j), p.tokens[j].role = "l" PROVE d # here
        BY <2>2, <2>8 DEF Made
    <2>9. From(q, j) = IF p.tokens[j].role = "l" THEN q.nodes[d].end ELSE j
        BY <2>1, <2>2 DEF From
    <2>10. From(p, j) = IF p.tokens[j].role = "l" THEN p.nodes[d].end ELSE j
        BY <2>2 DEF From
    <2>11. Over(q, left, j) <=> Over(p, open, j) \/ f = here
        BY <2>1, <2>2, <2>4, <2>6 DEF Over
    <2>12. CASE Caught(p, j)
        <3>1. PICK c : c = CHOOSE x \in Catches(p, f) : TRUE
            OBVIOUS
        <3>2. c \in 1..n
            BY <1>0, <1>1, <2>2, <2>12, <3>1, CatchesAreNodes DEF Caught
        <3>3. To(p, j) = p.nodes[c].start /\ To(q, j) = q.nodes[c].start
            BY <1>4, <2>1, <2>2, <2>6, <2>12, <3>1 DEF To
        <3>4. To(q, j) = To(p, j) /\ Over(p, open, j) /\ Over(q, left, j)
            BY <1>1, <2>6, <2>12, <3>2, <3>3 DEF CloseShape, Over
        <3>5. QED
            BY <2>2, <2>5, <2>7, <2>8, <2>9, <2>10, <2>11, <3>4
    <2>13. CASE ~Caught(p, j)
        <3>1. To(p, j) = p.nodes[f].end /\ To(q, j) = q.nodes[f].end
            BY <2>1, <2>2, <2>6, <2>13 DEF To
        <3>2. Over(p, open, j) => f # here
            BY <2>2, <2>13 DEF Over
        <3>3. QED
            BY <2>2, <2>5, <2>7, <2>8, <2>9, <2>10, <2>11, <3>1, <3>2
    <2>14. QED
        BY <2>12, <2>13
<1>6. Keeps(p, open, q, left)
    BY <1>5 DEF Keeps
<1>7. ASSUME NEW j \in 1..Len(p.tokens), p.tokens[j].role = "r"
      PROVE  /\ Made(q, left, j) <=> Made(p, open, j)
             /\ ~(p.tokens[j].role = "l")
    BY <1>7 DEF Made, CloseShape
<1>8. QED
    BY <1>1, <1>3, <1>5, <1>6, <1>7

-----------------------------------------------------------------------------
(* Writing *)

\* What is added to a program at a node.
IsAdded(p, here, added) ==
    /\ IsSeq(added)
    /\ \A i \in 1..Len(added) :
          /\ added[i].node = here
          /\ added[i].role = "l" => p.nodes[here].kind \in Binders
          /\ added[i].role = "l_or_r" => p.nodes[here].kind \in Clauses
          /\ \/ added[i].text = <<added[i].text[1]>>
             \/ /\ added[i].role = "r" /\ i > 1
                /\ added[i - 1].role = "r" /\ added[i - 1].text = <<added[i].text[1]>>

\* What is written keeps the tree and the tokens in shape.
LEMMA WritingIsSound ==
    ASSUME NEW p, NEW q, NEW here \in 1..Len(p.nodes), NEW added, Sound(p), Typed(q), SameNodes(p, q),
           q.tokens = p.tokens \o added, IsAdded(p, here, added)
    PROVE  /\ Sound(q) /\ Grows(p, q) /\ Len(q.tokens) = Len(p.tokens) + Len(added)
           /\ \A i \in 1..Len(added) : q.tokens[Len(p.tokens) + i] = added[i]
<1>0. Typed(p) /\ TreeInv(p) /\ KindInv(p) /\ TokenInv(p)
    BY DEF Sound
<1>1. PICK n, t, m : n = Len(p.nodes) /\ t = Len(p.tokens) /\ m = Len(added)
    OBVIOUS
<1>2. /\ n \in Nat /\ t \in Nat /\ m \in Nat /\ Len(q.nodes) = n
      /\ \A k \in 1..n : p.nodes[k].start \in Nat /\ p.nodes[k].end \in Nat
    BY <1>0, <1>1, TypedFacts, SeqFacts DEF IsAdded, SameNodes
<1>3. /\ Len(q.tokens) = t + m /\ (\A i \in 1..t : q.tokens[i] = p.tokens[i])
      /\ \A i \in 1..m : q.tokens[t + i] = added[i]
    <2>1. IsSeq(p.tokens) /\ IsSeq(added)
        BY <1>0, TypedFacts DEF IsAdded
    <2>2. QED
        BY <1>1, <2>1, ConcatFacts
<1>4. Grows(p, q)
    BY <1>1, <1>2, <1>3 DEF Grows, SameTree, SameNodes
<1>5. TreeInv(q)
    <2>1. \A k \in 1..n : p.nodes[k].start <= t /\ p.nodes[k].end <= t
        BY <1>0, <1>1 DEF TreeInv
    <2>2. \A k \in 1..n : q.nodes[k].start <= t + m /\ q.nodes[k].end <= t + m
        <3>1. ASSUME NEW x \in Nat, x <= t PROVE x <= t + m
            BY <1>2, <3>1
        <3>2. QED
            BY <1>1, <1>2, <2>1, <3>1 DEF SameNodes
    <2>3. Parents(q, n)
        BY <1>0, <1>1 DEF TreeInv, Parents, SameNodes
    <2>4. 1 \in 1..n /\ \A k \in 2..n : k \in 1..n
        BY <1>1, <1>2
    <2>5. \A k \in 2..n : p.nodes[k].parent \in 1..n
        <3>1. ASSUME NEW k \in 2..n PROVE p.nodes[k].parent \in 1..n
            <4>1. p.nodes[k].parent # 0 /\ p.nodes[k].parent \in 0..(k - 1)
                BY <1>0, <1>1, <2>4 DEF TreeInv, Parents
            <4>2. QED
                BY <1>2, <4>1
        <3>2. QED
            BY <3>1
    <2>6. ASSUME NEW k \in 2..n PROVE q.nodes[q.nodes[k].parent].start <= q.nodes[k].start
        <3>1. PICK up : up = p.nodes[k].parent
            OBVIOUS
        <3>2. up \in 1..n /\ k \in 1..n /\ p.nodes[up].start <= p.nodes[k].start
            BY <1>0, <1>1, <2>4, <2>5, <3>1 DEF TreeInv
        <3>3. /\ q.nodes[k].parent = up /\ q.nodes[k].start = p.nodes[k].start
              /\ q.nodes[up].start = p.nodes[up].start
            BY <1>1, <3>1, <3>2 DEF SameNodes
        <3>4. QED
            BY <3>2, <3>3
    <2>7. QED
        BY <1>0, <1>1, <1>2, <1>3, <2>2, <2>3, <2>4, <2>6 DEF TreeInv, SameNodes
<1>6. KindInv(q)
    <2>1. ASSUME NEW k \in 1..n, k # 1 PROVE p.nodes[k].parent \in 1..n
        <3>1. k \in 2..n
            BY <1>2, <2>1
        <3>2. p.nodes[k].parent # 0 /\ p.nodes[k].parent \in 0..(k - 1)
            BY <1>0, <1>1, <3>1 DEF TreeInv, Parents
        <3>3. QED
            BY <1>2, <3>2
    <2>2. p.nodes[1].kind = "Root"
        BY <1>0 DEF TreeInv
    <2>3. ASSUME NEW k \in 1..n
          PROVE  /\ q.nodes[k].kind = "N_MACRO_NAME" => q.nodes[q.nodes[k].parent].kind = "N_MACRO"
                 /\ q.nodes[k].kind \in {"N_MATCH_TRY_CLAUSE", "N_CATCH"} =>
                        q.nodes[q.nodes[k].parent].kind = "N_MATCH_TRY"
        <3>1. PICK up : up = p.nodes[k].parent
            OBVIOUS
        <3>2. q.nodes[k].kind = p.nodes[k].kind /\ q.nodes[k].parent = up
            BY <1>1, <3>1 DEF SameNodes
        <3>3. /\ p.nodes[k].kind = "N_MACRO_NAME" => p.nodes[up].kind = "N_MACRO"
              /\ p.nodes[k].kind \in {"N_MATCH_TRY_CLAUSE", "N_CATCH"} => p.nodes[up].kind = "N_MATCH_TRY"
            BY <1>0, <1>1, <3>1 DEF KindInv
        <3>4. k # 1 => q.nodes[up].kind = p.nodes[up].kind
            BY <1>1, <2>1, <3>1 DEF SameNodes
        <3>5. CASE k = 1
            BY <2>2, <3>2, <3>5
        <3>6. CASE k # 1
            BY <3>2, <3>3, <3>4, <3>6
        <3>7. QED
            BY <3>5, <3>6
    <2>4. QED
        BY <1>2, <2>3 DEF KindInv
<1>7. TokenInv(q)
    <2> DEFINE Fine(i) ==
                   LET token == q.tokens[i]
                 IN  /\ token.node \in 1..n /\ q.nodes[token.node].start < i
                     /\ token.role = "l" => q.nodes[token.node].kind \in Binders
                     /\ token.role = "l_or_r" => q.nodes[token.node].kind \in Clauses
                     /\ \/ token.text = <<token.text[1]>>
                        \/ /\ token.role = "r" /\ i > 1
                           /\ q.tokens[i - 1].role = "r" /\ q.tokens[i - 1].text = <<token.text[1]>>
                           /\ \A k \in 1..n : q.nodes[k].end # i - 1
    <2>1. ASSUME NEW i \in 1..t
          PROVE  Fine(i)
        <3>1. q.tokens[i] = p.tokens[i] /\ (i > 1 => q.tokens[i - 1] = p.tokens[i - 1])
            <4>1. i > 1 => i - 1 \in 1..t
                BY <1>2
            <4>2. QED
                BY <1>3, <4>1
        <3>2. PICK token : token = p.tokens[i]
            OBVIOUS
        <3>3. /\ token.node \in 1..n /\ p.nodes[token.node].start < i
              /\ token.role = "l" => p.nodes[token.node].kind \in Binders
              /\ token.role = "l_or_r" => p.nodes[token.node].kind \in Clauses
              /\ \/ token.text = <<token.text[1]>>
                 \/ /\ token.role = "r" /\ i > 1
                    /\ p.tokens[i - 1].role = "r" /\ p.tokens[i - 1].text = <<token.text[1]>>
                    /\ \A k \in 1..n : p.nodes[k].end # i - 1
            BY <1>0, <1>1, <3>2 DEF TokenInv
        <3>4. \A k \in 1..n : /\ q.nodes[k].start = p.nodes[k].start /\ q.nodes[k].end = p.nodes[k].end
                              /\ q.nodes[k].kind = p.nodes[k].kind
            BY <1>1 DEF SameNodes
        <3>5. QED
            BY <3>1, <3>2, <3>3, <3>4
    <2>2. ASSUME NEW l \in 1..m
          PROVE  Fine(t + l)
        <3>1. PICK i, token : i = t + l /\ token = added[l]
            OBVIOUS
        <3>2. q.tokens[i] = token
            BY <1>3, <3>1
        <3>3. /\ token.node = here
              /\ token.role = "l" => p.nodes[here].kind \in Binders
              /\ token.role = "l_or_r" => p.nodes[here].kind \in Clauses
              /\ \/ token.text = <<token.text[1]>>
                 \/ /\ token.role = "r" /\ l > 1
                    /\ added[l - 1].role = "r" /\ added[l - 1].text = <<token.text[1]>>
            BY <1>1, <3>1 DEF IsAdded
        <3>4. q.nodes[here].start < i
            <4>1. q.nodes[here].start = p.nodes[here].start /\ p.nodes[here].start <= t
                BY <1>0, <1>1 DEF SameNodes, TreeInv
            <4>2. p.nodes[here].start \in Nat
                BY <1>1, <1>2
            <4>3. QED
                BY <1>2, <3>1, <4>1, <4>2
        <3>5. ASSUME l > 1
              PROVE  i > 1 /\ q.tokens[i - 1] = added[l - 1] /\ \A k \in 1..n : q.nodes[k].end # i - 1
            <4>1. PICK h : h = l - 1
                OBVIOUS
            <4>2. h \in 1..m /\ i - 1 = t + h /\ i > 1
                BY <1>2, <3>1, <3>5, <4>1
            <4>3. q.tokens[i - 1] = added[l - 1]
                BY <1>3, <4>1, <4>2
            <4>4. ASSUME NEW k \in 1..n PROVE q.nodes[k].end # i - 1
                <5>1. q.nodes[k].end = p.nodes[k].end /\ p.nodes[k].end <= t /\ p.nodes[k].end \in Nat
                    BY <1>0, <1>1, <1>2 DEF SameNodes, TreeInv
                <5>2. QED
                    BY <1>2, <4>2, <5>1
            <4>5. QED
                BY <4>2, <4>3, <4>4
        <3>6. q.nodes[here].kind = p.nodes[here].kind /\ here \in 1..n
            BY <1>1 DEF SameNodes
        <3>7. QED
            BY <3>1, <3>2, <3>3, <3>4, <3>5, <3>6
    <2>3. ASSUME NEW i \in 1..(t + m) PROVE i \in 1..t \/ \E l \in 1..m : i = t + l
        <3>1. PICK l : l = i - t
            OBVIOUS
        <3>2. i \in 1..t \/ (l \in 1..m /\ i = t + l)
            BY <1>2, <3>1
        <3>3. QED
            BY <3>2
    <2> HIDE DEF Fine
    <2>4. \A i \in 1..(t + m) : Fine(i)
        BY <2>1, <2>2, <2>3
    <2>5. Len(q.tokens) = t + m /\ Len(q.nodes) = n
        BY <1>2, <1>3
    <2>6. QED
        BY <2>4, <2>5 DEF TokenInv, Fine
<1>8. QED
    BY <1>1, <1>3, <1>4, <1>5, <1>6, <1>7 DEF Sound

\* All tokens see what they should.
LEMMA WritingSees ==
    ASSUME NEW p, NEW q, NEW here \in 1..Len(p.nodes), NEW added, Sound(p), Typed(q), SameNodes(p, q),
           q.tokens = p.tokens \o added, IsAdded(p, here, added),
           NEW open, NEW table, IsSeq(table), SeesInv(p, open), EnvInv(p, open, table),
           \A i \in 1..Len(added) :
               /\ IsRecent(p, table, <<added[i].text[1]>>, added[i].recent)
               /\ i < Len(added) => added[i].role = "r"
    PROVE  SeesInv(q, open)
<1>1. PICK t, m : t = Len(p.tokens) /\ m = Len(added)
    OBVIOUS
<1>2. t \in Nat /\ m \in Nat
    BY <1>1, TypedFacts, SeqFacts DEF Sound, IsAdded
<1>3. Grows(p, q) /\ Len(q.tokens) = t + m /\ \A i \in 1..m : q.tokens[t + i] = added[i]
    <2>1. Grows(p, q) /\ Len(q.tokens) = Len(p.tokens) + Len(added)
        BY WritingIsSound
    <2>2. \A i \in 1..Len(added) : q.tokens[Len(p.tokens) + i] = added[i]
        BY WritingIsSound
    <2>3. QED
        BY <1>1, <2>1, <2>2
<1>4. ASSUME NEW i \in 1..t PROVE Sees(q, open, i)
    BY <1>1, <1>3, SightStays, WritingKeeps DEF SeesInv
<1>5. ASSUME NEW l \in 1..m PROVE Sees(q, open, t + l)
    <2>1. PICK i : i = t + l
        OBVIOUS
    <2>2. i \in (t + 1)..(t + m) /\ q.tokens[i] = added[l]
        <3>1. q.tokens[t + l] = added[l]
            BY <1>3
        <3>2. QED
            BY <1>2, <2>1, <3>1
    <2>3. IsRecent(p, table, <<q.tokens[i].text[1]>>, q.tokens[i].recent)
        BY <1>1, <2>2
    <2>4. ASSUME NEW j \in (t + 1)..(i - 1) PROVE ~Made(q, open, j)
        <3>1. PICK h : h = j - t
            OBVIOUS
        <3>2. h \in 1..m /\ h < m /\ j = t + h
            BY <1>2, <2>1, <2>2, <3>1
        <3>3. q.tokens[j].role = "r"
            BY <1>1, <1>3, <3>2
        <3>4. QED
            BY <3>3 DEF Made
    <2>5. Sees(q, open, i)
        BY <1>1, <1>3, <2>2, <2>3, <2>4, NewSees
    <2>6. QED
        BY <2>1, <2>5
<1>6. ASSUME NEW i \in 1..(t + m) PROVE i \in 1..t \/ \E l \in 1..m : i = t + l
    <2>1. PICK l : l = i - t
        OBVIOUS
    <2>2. i \in 1..t \/ (l \in 1..m /\ i = t + l)
        BY <1>2, <2>1
    <2>3. QED
        BY <2>2
<1>7. QED
    BY <1>3, <1>4, <1>5, <1>6 DEF SeesInv

\* The tokens bind nothing, or the one that they are.
IsOneMore(p, q, open, added, new) ==
    \/ new = <<>> /\ \A i \in 1..Len(added) : ~Made(q, open, Len(p.tokens) + i)
    \/ /\ Len(added) = 1 /\ Len(new) = 1 /\ new[1].token = Len(p.tokens) + 1
       /\ InForce(q, open, Len(p.tokens) + 1)
       /\ new[1].frame = FrameOf(q, Len(p.tokens) + 1)
       /\ new[1].outer = OuterOf(q, Len(p.tokens) + 1)

\* The table holds what is in force, with at most one binding more.
LEMMA WritingEnv ==
    ASSUME NEW p, NEW q, NEW here \in 1..Len(p.nodes), NEW added, Sound(p), Typed(q), SameNodes(p, q),
           q.tokens = p.tokens \o added, IsAdded(p, here, added),
           NEW open, NEW table, IsSeq(table), EnvInv(p, open, table), NEW new, IsSeq(new),
           IsOneMore(p, q, open, added, new)
    PROVE  EnvInv(q, open, table \o new)
<1>0. \/ new = <<>> /\ \A i \in 1..Len(added) : ~Made(q, open, Len(p.tokens) + i)
      \/ /\ Len(added) = 1 /\ Len(new) = 1 /\ new[1].token = Len(p.tokens) + 1
         /\ InForce(q, open, Len(p.tokens) + 1)
         /\ new[1].frame = FrameOf(q, Len(p.tokens) + 1)
         /\ new[1].outer = OuterOf(q, Len(p.tokens) + 1)
    BY DEF IsOneMore
<1>1. PICK t, m : t = Len(p.tokens) /\ m = Len(added)
    OBVIOUS
<1>2. t \in Nat /\ m \in Nat /\ Len(table) \in Nat
    BY <1>1, TypedFacts, SeqFacts DEF Sound, IsAdded
<1>3. Grows(p, q) /\ Len(q.tokens) = t + m /\ Keeps(p, open, q, open)
    <2>1. Grows(p, q) /\ Len(q.tokens) = Len(p.tokens) + Len(added)
        BY WritingIsSound
    <2>2. QED
        BY <1>1, <2>1, WritingKeeps
<1>4. \A j \in 1..t : InForce(q, open, j) <=> InForce(p, open, j)
    <2>1. ASSUME NEW j \in 1..t PROVE InForce(q, open, j) <=> InForce(p, open, j)
        <3>1. Made(q, open, j) <=> Made(p, open, j)
            BY <1>1, <1>3, WritingKeeps
        <3>2. CASE p.tokens[j].role = "r"
            BY <3>1, <3>2 DEF InForce, Made
        <3>3. CASE p.tokens[j].role # "r"
            BY <1>1, <1>3, <3>1, <3>3, WritingKeeps DEF InForce
        <3>4. QED
            BY <3>2, <3>3
    <2>2. QED
        BY <2>1
<1>5. \A k \in 1..Len(table) : table[k].token \in 1..t /\ InForce(p, open, table[k].token)
    BY <1>1 DEF EnvInv, InForce
<1>6. \A x : (\E k \in 1..Len(table) : table[k] = x)
                 <=> \E k \in 1..Len(table) : table[k] = x /\ InForce(q, open, x.token)
    BY <1>4, <1>5
<1>7. ASSUME NEW j \in 1..(t + m) PROVE j \in 1..t \/ \E l \in 1..m : j = t + l
    <2>1. PICK l : l = j - t
        OBVIOUS
    <2>2. j \in 1..t \/ (l \in 1..m /\ j = t + l)
        BY <1>2, <2>1
    <2>3. QED
        BY <2>2
<1>8. \A k \in 1..Len(new) : k = 1 /\ Len(new) = 1
    <2>1. Len(<<>>) = 0
        BY Tuples, SeqFacts
    <2>2. CASE Len(new) = 1
        BY <2>2
    <2>3. CASE new = <<>>
        BY <2>1, <2>3
    <2>4. QED
        BY <1>0, <2>2, <2>3
<1>9. \A k \in 1..Len(new) :
          /\ new[k].token = t + 1 /\ m = 1 /\ InForce(q, open, t + 1)
          /\ new[k].frame = FrameOf(q, t + 1) /\ new[k].outer = OuterOf(q, t + 1)
    <2>1. Len(<<>>) = 0
        BY Tuples, SeqFacts
    <2>2. CASE new = <<>>
        BY <2>1, <2>2
    <2>3. CASE new # <<>>
        BY <1>0, <1>1, <1>8, <2>3
    <2>4. QED
        BY <2>2, <2>3
<1>10. t + 1 \in 1..(t + 1)
    BY <1>2
<1>11. ASSUME NEW j \in 1..(t + m), InForce(q, open, j)
       PROVE  (j \in 1..t /\ InForce(p, open, j)) \/ \E k \in 1..Len(new) : new[k].token = j
    <2>1. CASE j \in 1..t
        BY <1>4, <1>11, <2>1
    <2>2. ASSUME NEW l \in 1..m, j = t + l PROVE \E k \in 1..Len(new) : new[k].token = j
        <3>1. CASE new = <<>>
            <4>1. ~Made(q, open, j)
                <5>1. Len(<<>>) # 1
                    BY Tuples, SeqFacts
                <5>2. \A i \in 1..m : ~Made(q, open, t + i)
                    BY <1>0, <1>1, <3>1, <5>1
                <5>3. QED
                    BY <2>2, <5>2
            <4>2. QED
                BY <1>11, <4>1 DEF InForce
        <3>2. CASE new # <<>>
            <4>1. m = 1 /\ Len(new) = 1 /\ new[1].token = t + 1
                BY <1>0, <1>1, <3>2
            <4>2. j = t + 1 /\ 1 \in 1..Len(new)
                BY <2>2, <4>1
            <4>3. QED
                BY <4>1, <4>2
        <3>3. QED
            BY <3>1, <3>2
    <2>3. QED
        BY <1>7, <2>1, <2>2
<1>12. ASSUME NEW k \in 1..Len(table), NEW l \in 1..Len(new)
       PROVE  Later(q, table[k].token, new[l].token)
    <2>1. table[k].token < t + 1
        BY <1>2, <1>5
    <2>2. QED
        BY <1>9, <2>1 DEF Later
<1>13. \A k, l \in 1..Len(new) : ~(k < l)
    BY <1>8
<1>14. \A k, l \in 1..Len(table) : k < l =>
           \E a, b \in 1..Len(table) : a < b /\ table[k] = table[a] /\ table[l] = table[b]
    OBVIOUS
<1>15. \A k \in 1..Len(new) :
           /\ new[k].token \in 1..Len(q.tokens) /\ InForce(q, open, new[k].token)
           /\ new[k].frame = FrameOf(q, new[k].token) /\ new[k].outer = OuterOf(q, new[k].token)
    BY <1>3, <1>9, <1>10
<1>16. \A j \in 1..Len(q.tokens) : InForce(q, open, j) =>
           \/ j \in 1..Len(p.tokens) /\ InForce(p, open, j)
           \/ \E k \in 1..Len(new) : new[k].token = j
    BY <1>1, <1>3, <1>11
<1>17. \A k, l \in 1..Len(new) : k < l => Later(q, new[k].token, new[l].token)
    BY <1>13
<1>18. QED
    BY <1>3, <1>6, <1>12, <1>14, <1>15, <1>16, <1>17, TableGrows

-----------------------------------------------------------------------------
(* Frames that are open *)

\* A catch among the open nodes, whose match-try is not the innermost.
LEMMA CatchIsOpen ==
    ASSUME NEW p, NEW open, NEW here, Sound(p), OpenInv(p, open, here), CatchInv(p, open, here),
           NEW up \in open, up # here, NEW c \in Catches(p, up)
    PROVE  /\ c \in open /\ p.nodes[c].kind = "N_CATCH" /\ p.nodes[c].parent = up
           /\ c \in 1..Len(p.nodes) /\ up < c /\ p.nodes[up].kind = "N_MATCH_TRY"
<1>1. c \in 1..Len(p.nodes)
    BY CatchesAreNodes DEF Sound
<1>2. p.nodes[c].kind = "N_CATCH" /\ p.nodes[c].parent = up
    BY DEF Catches
<1>3. c \in open
    BY <1>1, <1>2 DEF CatchInv
<1>4. p.nodes[up].kind = "N_MATCH_TRY"
    BY <1>1, <1>2 DEF Sound, KindInv
<1>5. up \in 0..(c - 1)
    BY <1>1, <1>2 DEF Sound, TreeInv, Parents
<1>6. up < c
    BY <1>1, <1>5
<1>7. QED
    BY <1>1, <1>2, <1>3, <1>4, <1>6

\* What a node declares that is about to close is bound in an open frame.
LEMMA FreshFacts ==
    ASSUME NEW p, NEW open, NEW here, Sound(p), OpenInv(p, open, here), CatchInv(p, open, here), here # 1,
           NEW j \in 1..Len(p.tokens), p.tokens[j].role = "l", DeclarerOf(p, j) = here
    PROVE  /\ FrameOf(p, j) \in open /\ FrameOf(p, j) # here /\ ~Caught(p, j)
           /\ p.nodes[here].start < j
<1>0. Typed(p) /\ TreeInv(p) /\ KindInv(p) /\ TokenInv(p)
    BY DEF Sound
<1>1. PICK n, t, k : n = Len(p.nodes) /\ t = Len(p.tokens) /\ k = p.tokens[j].node
    OBVIOUS
<1>2. n \in Nat /\ here \in 1..n /\ here \in open /\ open \in SUBSET (1..n)
    BY <1>0, <1>1, TypedFacts DEF OpenInv
<1>3. k \in 1..n /\ p.nodes[k].kind \in Binders /\ p.nodes[k].start < j /\ p.nodes[k].start \in Nat
    BY <1>0, <1>1, TypedFacts DEF TokenInv
<1>4. k # 1 /\ p.nodes[k].parent \in 1..(k - 1) /\ p.nodes[k].kind \notin ScopeAst
    BY <1>0, <1>1, <1>3, BinderFacts
<1>5. here = IF p.nodes[k].kind = "N_MACRO_NAME" THEN p.nodes[k].parent ELSE k
    BY <1>1 DEF DeclarerOf, Declarer
<1>6. open \in SUBSET (1..here) /\ Chain(p, open)
    BY <1>2 DEF OpenInv
<1>7. PICK s : s = ScopesOf(p, here)
    OBVIOUS
<1>8. /\ IsSeq(s) /\ Len(s) \in Nat \ {0} /\ Parents(p, here)
      /\ \A i \in 1..Len(s) : s[i] \in open /\ p.nodes[s[i]].kind \in ScopeAst
      /\ \A m \in open : p.nodes[m].kind \in ScopeAst => m <= s[1]
    BY <1>0, <1>1, <1>2, <1>6, <1>7, TreeScopes
<1>9. FrameOf(p, j) = Frame(p, k)
    BY <1>1 DEF FrameOf
<1>10. CASE p.nodes[k].kind # "N_MACRO_NAME"
    <2>1. k = here
        BY <1>5, <1>10
    <2>2. PICK i \in 1..Len(s) : Frame(p, k) = s[i] /\ (~IsOuter(p, k) => i = 1)
        BY <1>0, <1>1, <1>3, <1>7, <2>1, FrameFacts
    <2>3. Frame(p, k) \in open /\ p.nodes[Frame(p, k)].kind \in ScopeAst
        BY <1>8, <2>2
    <2>4. Frame(p, k) # here
        BY <1>4, <2>1, <2>3
    <2>5. ASSUME Caught(p, j) PROVE FALSE
        <3>1. ~IsOuter(p, k) /\ Catches(p, Frame(p, k)) # {}
            BY <1>1, <1>9, <2>5 DEF Caught, OuterOf
        <3>2. PICK c : c \in Catches(p, Frame(p, k))
            BY <3>1
        <3>3. c \in open /\ p.nodes[c].kind = "N_CATCH" /\ Frame(p, k) < c
            BY <2>3, <2>4, <3>2, CatchIsOpen
        <3>4. c <= Frame(p, k)
            BY <1>8, <2>2, <3>1, <3>3 DEF ScopeAst
        <3>5. c \in Nat /\ Frame(p, k) \in Nat
            <4>1. c \in 1..n /\ Frame(p, k) \in 1..n
                BY <1>2, <2>3, <3>3
            <4>2. QED
                BY <1>2, <4>1
        <3>6. QED
            BY <3>3, <3>4, <3>5
    <2>6. QED
        BY <1>3, <1>9, <2>1, <2>3, <2>4, <2>5
<1>11. CASE p.nodes[k].kind = "N_MACRO_NAME"
    <2>1. here = p.nodes[k].parent /\ here < k /\ p.nodes[here].kind = "N_MACRO"
        <3>1. here = p.nodes[k].parent /\ p.nodes[here].kind = "N_MACRO"
            BY <1>0, <1>1, <1>3, <1>5, <1>11 DEF KindInv
        <3>2. here < k
            BY <1>2, <1>3, <1>4, <3>1
        <3>3. QED
            BY <3>1, <3>2
    <2>2. PICK up, u : up = p.nodes[here].parent /\ u = ScopesOf(p, up)
        OBVIOUS
    <2>3. here \in 2..n
        BY <1>2
    <2>4. up \in 1..(here - 1)
        <3>1. up # 0 /\ up \in 0..(here - 1)
            BY <1>0, <1>1, <1>2, <2>2, <2>3 DEF TreeInv, Parents
        <3>2. QED
            BY <1>2, <3>1
    <2>5. up \in 1..n
        BY <1>2, <2>4
    <2>6. IsSeq(u) /\ Len(u) \in Nat \ {0} /\ \A i \in 1..Len(u) : u[i] \in 1..up
        BY <1>0, <1>1, <2>2, <2>5, TreeScopes
    <2>7. s = <<here>> \o u
        <3>1. s = Own(p, here) \o u
            BY <1>2, <1>7, <1>8, <2>2, ScopesStep
        <3>2. Own(p, here) = <<here>>
            BY <2>1 DEF Own, ScopeAst
        <3>3. QED
            BY <3>1, <3>2
    <2>8. ScopesOf(p, k) = s
        <3>1. Parents(p, k)
            BY <1>0, <1>1, <1>3, TreeScopes
        <3>2. ScopesOf(p, k) = Own(p, k) \o s
            BY <1>3, <1>7, <2>1, <3>1, ScopesStep
        <3>3. Own(p, k) = <<>>
            BY <1>4 DEF Own
        <3>4. QED
            BY <1>8, <3>2, <3>3, NothingJoins
    <2>9. Len(s) = 1 + Len(u) /\ s[2] = u[1]
        <3>1. PICK v : v = <<here>>
            OBVIOUS
        <3>2. IsSeq(v) /\ Len(v) = 1 /\ s = v \o u
            BY <2>7, <3>1, Tuples
        <3>3. /\ Len(v \o u) = Len(v) + Len(u)
              /\ \A i \in 1..Len(u) : (v \o u)[Len(v) + i] = u[i]
            <4>1. IsSeq(v) /\ IsSeq(u)
                BY <2>6, <3>2
            <4>2. QED
                BY <4>1, ConcatFacts
        <3>4. Len(s) = Len(v) + Len(u) /\ \A i \in 1..Len(u) : s[Len(v) + i] = u[i]
            BY <3>2, <3>3
        <3>5. 1 \in 1..Len(u) /\ 1 + 1 = 2
            BY <2>6
        <3>6. s[1 + 1] = u[1]
            BY <3>2, <3>4, <3>5
        <3>7. QED
            BY <3>2, <3>4, <3>5, <3>6
    <2>10. Len(s) > 1 /\ 2 \in 1..Len(s) /\ 1 \in 1..Len(u)
        BY <2>6, <2>9
    <2>11. IsOuter(p, k)
        BY <1>11 DEF IsOuter
    <2>12. Frame(p, k) = s[2]
        BY <2>8, <2>10, <2>11 DEF Frame
    <2>13. Frame(p, k) \in open /\ Frame(p, k) \in 1..up
        BY <1>8, <2>6, <2>9, <2>10, <2>12
    <2>14. Frame(p, k) # here
        BY <1>2, <2>4, <2>13
    <2>15. ~Caught(p, j)
        BY <1>1, <2>11 DEF Caught, OuterOf
    <2>16. p.nodes[here].start < j
        <3>1. k \in 2..n /\ 1 \in Nat
            BY <1>2, <1>3, <1>4
        <3>2. p.nodes[here].start <= p.nodes[k].start
            BY <1>0, <1>1, <2>1, <3>1 DEF TreeInv
        <3>3. p.nodes[here].start \in Nat /\ j \in Nat
            BY <1>0, <1>1, <1>2, TypedFacts
        <3>4. QED
            BY <1>3, <3>2, <3>3
    <2>17. QED
        BY <1>9, <2>13, <2>14, <2>15, <2>16
<1>12. QED
    BY <1>10, <1>11

\* So is a name in a pattern.
LEMMA PatternFacts ==
    ASSUME NEW p, NEW open, NEW here, Sound(p), OpenInv(p, open, here), CatchInv(p, open, here),
           NEW j \in 1..Len(p.tokens), p.tokens[j].role = "l_or_r", p.tokens[j].node = here
    PROVE  ~Over(p, open, j)
<1>0. Typed(p) /\ TreeInv(p) /\ KindInv(p) /\ TokenInv(p)
    BY DEF Sound
<1>1. PICK n : n = Len(p.nodes)
    OBVIOUS
<1>2. /\ n \in Nat /\ here \in 1..n /\ here \in open /\ open \in SUBSET (1..n)
      /\ p.nodes[here].kind \in Clauses
    BY <1>0, <1>1, TypedFacts DEF OpenInv, TokenInv
<1>3. here # 1 /\ p.nodes[here].parent \in 1..(here - 1)
    BY <1>0, <1>1, <1>2, BinderFacts
<1>4. PICK up : up = p.nodes[here].parent
    OBVIOUS
<1>5. up \in open /\ up # here /\ \A m \in open : m < here => m <= up
    <2>1. up \in open /\ \A m \in open : m < here => m <= up
        BY <1>2, <1>3, <1>4 DEF OpenInv, Chain
    <2>2. up # here
        BY <1>2, <1>3, <1>4
    <2>3. QED
        BY <2>1, <2>2
<1>6. FrameOf(p, j) = IF p.nodes[here].kind = "N_MATCH_CLAUSE" THEN here ELSE up
    BY <1>4 DEF FrameOf
<1>7. FrameOf(p, j) \in open
    BY <1>2, <1>5, <1>6
<1>8. ASSUME NEW c \in Catches(p, FrameOf(p, j)) PROVE FALSE
    <2>1. c \in 1..n /\ p.nodes[c].kind = "N_CATCH" /\ p.nodes[c].parent = FrameOf(p, j)
        BY <1>0, <1>1, <1>8, CatchesAreNodes DEF Catches
    <2>2. p.nodes[FrameOf(p, j)].kind = "N_MATCH_TRY"
        BY <1>0, <1>1, <2>1 DEF KindInv
    <2>3. FrameOf(p, j) = up
        BY <1>2, <1>6, <2>2 DEF Clauses
    <2>4. c \in open /\ up < c
        BY <1>5, <1>8, <2>3, CatchIsOpen
    <2>5. c <= here /\ c # here
        BY <1>2, <2>1, <2>4 DEF OpenInv, Clauses
    <2>6. c <= up
        BY <1>2, <1>5, <2>1, <2>4, <2>5
    <2>7. up \in Nat /\ c \in Nat
        BY <1>2, <1>5, <2>1
    <2>8. QED
        BY <2>4, <2>6, <2>7
<1>9. QED
    BY <1>7, <1>8 DEF Over, Caught

-----------------------------------------------------------------------------
(* Opening *)

\* A node that opens keeps the tree in shape.
LEMMA OpeningIsSound ==
    ASSUME NEW p, NEW q, NEW here \in 1..Len(p.nodes), NEW kind, Sound(p), Typed(q), OpenShape(p, q, here, kind),
           kind # "Root",
           kind = "N_MACRO_NAME" => p.nodes[here].kind = "N_MACRO",
           kind \in {"N_MATCH_TRY_CLAUSE", "N_CATCH"} => p.nodes[here].kind = "N_MATCH_TRY"
    PROVE  Sound(q)
<1>0. Typed(p) /\ TreeInv(p) /\ KindInv(p) /\ TokenInv(p)
    BY DEF Sound
<1>1. PICK n, t, new : n = Len(p.nodes) /\ t = Len(p.tokens) /\ new = n + 1
    OBVIOUS
<1>2. /\ n \in Nat /\ t \in Nat /\ new \in Nat /\ n < new /\ new # 1
      /\ \A k \in 1..n : p.nodes[k].start \in Nat /\ p.nodes[k].end \in Nat
    BY <1>0, <1>1, TypedFacts
<1>3. /\ Len(q.nodes) = new /\ q.tokens = p.tokens /\ Len(q.tokens) = t
      /\ q.nodes[new].kind = kind /\ q.nodes[new].parent = here
      /\ q.nodes[new].start = t /\ q.nodes[new].end = t
    BY <1>1 DEF OpenShape
<1>4. \A k \in 1..n : /\ q.nodes[k].kind = p.nodes[k].kind /\ q.nodes[k].parent = p.nodes[k].parent
                      /\ q.nodes[k].start = p.nodes[k].start /\ q.nodes[k].end = p.nodes[k].end
    BY <1>1 DEF OpenShape
<1>5. \A k \in 1..new : k \in 1..n \/ k = new
    BY <1>1, <1>2
<1>6. \A k \in 2..n : k \in 1..n /\ p.nodes[k].parent \in 1..n /\ p.nodes[k].parent \in 1..(k - 1)
    <2>1. ASSUME NEW k \in 2..n PROVE k \in 1..n /\ p.nodes[k].parent \in 1..n /\ p.nodes[k].parent \in 1..(k - 1)
        <3>1. k \in 1..n
            BY <1>2
        <3>2. p.nodes[k].parent # 0 /\ p.nodes[k].parent \in 0..(k - 1)
            BY <1>0, <1>1, <3>1 DEF TreeInv, Parents
        <3>3. QED
            BY <1>2, <3>1, <3>2
    <2>2. QED
        BY <2>1
<1>7. here \in 1..n /\ here \in 0..(new - 1)
    BY <1>1, <1>2
<1>8. TreeInv(q)
    <2>1. Parents(q, new)
        <3>1. \A k \in 1..n : q.nodes[k].parent \in 0..(k - 1)
            BY <1>0, <1>1, <1>4 DEF TreeInv, Parents
        <3>2. QED
            BY <1>2, <1>3, <1>5, <1>7, <3>1 DEF Parents
    <2>2. q.nodes[1].kind = "Root"
        <3>1. 1 \in 1..n
            BY <1>1, <1>2
        <3>2. QED
            BY <1>0, <1>4, <3>1 DEF TreeInv
    <2>3. ASSUME NEW k \in 2..new
          PROVE  /\ q.nodes[k].kind # "Root" /\ q.nodes[k].parent # 0
                 /\ q.nodes[q.nodes[k].parent].start <= q.nodes[k].start
        <3>1. CASE k \in 2..n
            <4>1. PICK up : up = p.nodes[k].parent
                OBVIOUS
            <4>2. p.nodes[k].kind # "Root" /\ up # 0 /\ p.nodes[up].start <= p.nodes[k].start
                BY <1>0, <1>1, <3>1, <4>1 DEF TreeInv
            <4>3. /\ q.nodes[k].kind = p.nodes[k].kind /\ q.nodes[k].parent = up
                  /\ q.nodes[k].start = p.nodes[k].start /\ q.nodes[up].start = p.nodes[up].start
                BY <1>4, <1>6, <3>1, <4>1
            <4>4. QED
                BY <4>2, <4>3
        <3>2. CASE k = new
            <4>1. q.nodes[here].start = p.nodes[here].start /\ p.nodes[here].start <= t
                BY <1>0, <1>1, <1>4, <1>7 DEF TreeInv
            <4>2. here # 0
                BY <1>2, <1>7
            <4>3. QED
                BY <1>3, <3>2, <4>1, <4>2
        <3>3. QED
            BY <1>1, <1>2, <3>1, <3>2
    <2>4. \A k \in 1..new : q.nodes[k].start <= t /\ q.nodes[k].end <= t
        <3>1. \A k \in 1..n : p.nodes[k].start <= t /\ p.nodes[k].end <= t
            BY <1>0, <1>1 DEF TreeInv
        <3>2. t <= t
            BY <1>2
        <3>3. QED
            BY <1>3, <1>4, <1>5, <3>1, <3>2
    <2>5. QED
        BY <1>3, <2>1, <2>2, <2>3, <2>4 DEF TreeInv
<1>9. KindInv(q)
    <2>1. ASSUME NEW k \in 1..n
          PROVE  /\ q.nodes[k].kind = "N_MACRO_NAME" => q.nodes[q.nodes[k].parent].kind = "N_MACRO"
                 /\ q.nodes[k].kind \in {"N_MATCH_TRY_CLAUSE", "N_CATCH"} =>
                        q.nodes[q.nodes[k].parent].kind = "N_MATCH_TRY"
        <3>1. PICK up : up = p.nodes[k].parent
            OBVIOUS
        <3>2. q.nodes[k].kind = p.nodes[k].kind /\ q.nodes[k].parent = up
            BY <1>4, <3>1
        <3>3. /\ p.nodes[k].kind = "N_MACRO_NAME" => p.nodes[up].kind = "N_MACRO"
              /\ p.nodes[k].kind \in {"N_MATCH_TRY_CLAUSE", "N_CATCH"} => p.nodes[up].kind = "N_MATCH_TRY"
            BY <1>0, <1>1, <3>1 DEF KindInv
        <3>4. CASE k = 1
            BY <1>0, <3>2, <3>4 DEF TreeInv
        <3>5. CASE k # 1
            <4>1. k \in 2..n
                BY <1>2, <3>5
            <4>2. q.nodes[up].kind = p.nodes[up].kind
                BY <1>4, <1>6, <3>1, <4>1
            <4>3. QED
                BY <3>2, <3>3, <4>2
        <3>6. QED
            BY <3>4, <3>5
    <2>2. q.nodes[here].kind = p.nodes[here].kind
        BY <1>4, <1>7
    <2>3. QED
        BY <1>3, <1>5, <2>1, <2>2 DEF KindInv
<1>10. TokenInv(q)
    <2>1. ASSUME NEW i \in 1..t
          PROVE  LET token == q.tokens[i]
                 IN  /\ token.node \in 1..new /\ q.nodes[token.node].start < i
                     /\ token.role = "l" => q.nodes[token.node].kind \in Binders
                     /\ token.role = "l_or_r" => q.nodes[token.node].kind \in Clauses
                     /\ \/ token.text = <<token.text[1]>>
                        \/ /\ token.role = "r" /\ i > 1
                           /\ q.tokens[i - 1].role = "r" /\ q.tokens[i - 1].text = <<token.text[1]>>
                           /\ \A k \in 1..new : q.nodes[k].end # i - 1
        <3>1. PICK token : token = p.tokens[i]
            OBVIOUS
        <3>2. /\ token.node \in 1..n /\ p.nodes[token.node].start < i
              /\ token.role = "l" => p.nodes[token.node].kind \in Binders
              /\ token.role = "l_or_r" => p.nodes[token.node].kind \in Clauses
              /\ \/ token.text = <<token.text[1]>>
                 \/ /\ token.role = "r" /\ i > 1
                    /\ p.tokens[i - 1].role = "r" /\ p.tokens[i - 1].text = <<token.text[1]>>
                    /\ \A k \in 1..n : p.nodes[k].end # i - 1
            BY <1>0, <1>1, <3>1 DEF TokenInv
        <3>3. \A k \in 1..n : k \in 1..new
            BY <1>1, <1>2
        <3>4. i - 1 # t
            BY <1>2
        <3>5. QED
            BY <1>3, <1>4, <1>5, <3>1, <3>2, <3>3, <3>4
    <2>2. QED
        BY <1>3, <2>1 DEF TokenInv
<1>11. QED
    BY <1>8, <1>9, <1>10 DEF Sound

\* The new node is the innermost one.
LEMMA OpeningOpens ==
    ASSUME NEW p, NEW q, NEW open, NEW here, NEW kind, Sound(p), OpenShape(p, q, here, kind),
           OpenInv(p, open, here)
    PROVE  OpenInv(q, open \cup {Len(p.nodes) + 1}, Len(p.nodes) + 1)
<1>1. PICK n, new, left : n = Len(p.nodes) /\ new = n + 1 /\ left = open \cup {new}
    OBVIOUS
<1>2. n \in Nat /\ new \in Nat /\ n < new /\ new # 1
    <2>1. n \in Nat
        BY <1>1, TypedFacts DEF Sound
    <2>2. 1 \in open /\ open \in SUBSET (1..n)
        BY <1>1 DEF OpenInv, Chain
    <2>3. QED
        BY <1>1, <2>1, <2>2
<1>3. open \in SUBSET (1..n) /\ here \in open /\ Chain(p, open) /\ \A k \in open : k <= here
    BY <1>1 DEF OpenInv
<1>4. left \in SUBSET (1..new) /\ \A k \in left : k <= new
    <2>1. ASSUME NEW k \in left PROVE k \in 1..new /\ k <= new
        <3>1. k \in 1..n \/ k = new
            BY <1>1, <1>3
        <3>2. QED
            BY <1>1, <1>2, <3>1
    <2>2. QED
        BY <2>1
<1>5. /\ Len(q.nodes) = new /\ q.nodes[new].parent = here
      /\ \A k \in 1..n : q.nodes[k].parent = p.nodes[k].parent
    BY <1>1 DEF OpenShape
<1>6. 1 \in left
    BY <1>1, <1>3 DEF Chain
<1>7. ASSUME NEW k \in left \ {1}
      PROVE  q.nodes[k].parent \in left /\ \A m \in left : m < k => m <= q.nodes[k].parent
    <2>1. CASE k = new
        <3>1. \A m \in left : m < k => m \in open
            BY <1>1, <1>2, <2>1
        <3>2. QED
            BY <1>1, <1>3, <1>5, <2>1, <3>1
    <2>2. CASE k # new
        <3>1. k \in open \ {1} /\ k \in 1..n
            BY <1>1, <1>3, <2>2
        <3>2. \A m \in left : m < k => m \in open
            <4>1. ~(new < k)
                BY <1>2, <3>1
            <4>2. QED
                BY <1>1, <4>1
        <3>3. QED
            BY <1>1, <1>3, <1>5, <3>1, <3>2 DEF Chain
    <2>3. QED
        BY <2>1, <2>2
<1>8. new \in left
    BY <1>1
<1>9. OpenInv(q, left, new)
    BY <1>4, <1>5, <1>6, <1>7, <1>8 DEF OpenInv, Chain
<1>10. QED
    BY <1>1, <1>9

\* Nothing follows a catch.
LEMMA NotYetCaught ==
    ASSUME NEW p, NEW open, NEW here, Sound(p), CatchInv(p, open, here),
           p.nodes[here].kind = "N_MATCH_TRY" => p.nodes[here].last # "N_CATCH"
    PROVE  Catches(p, here) = {}
<1>1. ASSUME NEW c \in Catches(p, here) PROVE FALSE
    <2>1. c \in 1..Len(p.nodes)
        BY CatchesAreNodes DEF Sound
    <2>2. p.nodes[c].kind = "N_CATCH" /\ p.nodes[c].parent = here
        BY DEF Catches
    <2>3. p.nodes[here].kind = "N_MATCH_TRY"
        BY <2>1, <2>2 DEF Sound, KindInv
    <2>4. p.nodes[here].last = "N_CATCH"
        BY <2>1, <2>2 DEF CatchInv
    <2>5. QED
        BY <2>3, <2>4
<1>2. QED
    BY <1>1

\* A node that opens keeps catches last.
LEMMA OpeningCatches ==
    ASSUME NEW p, NEW q, NEW open, NEW here, NEW kind, Sound(p), Typed(q), OpenShape(p, q, here, kind),
           OpenInv(p, open, here), CatchInv(p, open, here),
           p.nodes[here].kind = "N_MATCH_TRY" => p.nodes[here].last # "N_CATCH",
           \A k \in 1..Len(p.nodes) : k # here => q.nodes[k].last = p.nodes[k].last,
           kind = "N_CATCH" => q.nodes[here].last = "N_CATCH"
    PROVE  CatchInv(q, open \cup {Len(p.nodes) + 1}, Len(p.nodes) + 1)
<1>0. Typed(p) /\ TreeInv(p) /\ KindInv(p)
    BY DEF Sound
<1>1. PICK n, new, left : n = Len(p.nodes) /\ new = n + 1 /\ left = open \cup {new}
    OBVIOUS
<1>2. n \in Nat /\ new \in Nat /\ n < new /\ here \in open /\ here \in 1..n /\ open \in SUBSET (1..n)
    BY <1>0, <1>1, TypedFacts DEF OpenInv
<1>3. /\ Len(q.nodes) = new /\ q.nodes[new].kind = kind /\ q.nodes[new].parent = here
      /\ \A k \in 1..n : q.nodes[k].kind = p.nodes[k].kind /\ q.nodes[k].parent = p.nodes[k].parent
    BY <1>1 DEF OpenShape
<1>4. \A k \in 1..new : k \in 1..n \/ k = new
    BY <1>1, <1>2
<1>5. DOMAIN q.nodes = 1..new /\ DOMAIN p.nodes = 1..n /\ \A k \in 1..n : k \in 1..new
    BY <1>0, <1>1, <1>2, <1>3, TypedFacts
<1>6. new \in 1..new
    BY <1>1, <1>2
<1>7. \A up : Catches(q, up) = Catches(p, up) \cup (IF kind = "N_CATCH" /\ up = here THEN {new} ELSE {})
    BY <1>3, <1>4, <1>5, <1>6 DEF Catches
<1>8. Catches(p, here) = {}
    BY NotYetCaught
<1>9. ASSUME NEW c \in 1..new, q.nodes[c].kind = "N_CATCH", NEW up, up = q.nodes[c].parent
      PROVE  q.nodes[up].last = "N_CATCH" /\ Catches(q, up) = {c} /\ (up \in left => c \in left \/ new = up)
    <2>1. CASE c = new
        <3>1. kind = "N_CATCH" /\ up = here
            BY <1>3, <1>9, <2>1
        <3>2. Catches(q, up) = {new}
            BY <1>7, <1>8, <3>1
        <3>3. QED
            BY <1>1, <2>1, <3>1, <3>2
    <2>2. CASE c \in 1..n
        <3>1. p.nodes[c].kind = "N_CATCH" /\ up = p.nodes[c].parent
            BY <1>3, <1>9, <2>2
        <3>2. p.nodes[up].last = "N_CATCH" /\ Catches(p, up) = {c} /\ (up \in open => c \in open \/ here = up)
            BY <1>1, <2>2, <3>1 DEF CatchInv
        <3>3. up # here
            BY <1>8, <3>2
        <3>4. up \in 1..n
            <4>1. p.nodes[up].kind = "N_MATCH_TRY"
                BY <1>0, <1>1, <2>2, <3>1 DEF KindInv
            <4>2. c # 1
                BY <1>0, <3>1 DEF TreeInv
            <4>3. c \in 2..n
                BY <1>2, <2>2, <4>2
            <4>4. up # 0 /\ up \in 0..(c - 1)
                BY <1>0, <1>1, <2>2, <3>1, <4>3 DEF TreeInv, Parents
            <4>5. QED
                BY <1>2, <2>2, <4>4
        <3>5. q.nodes[up].last = "N_CATCH"
            BY <1>1, <3>2, <3>3, <3>4
        <3>6. Catches(q, up) = {c}
            BY <1>7, <3>2, <3>3
        <3>7. up \in left => up \in open
            BY <1>1, <1>2, <3>4
        <3>8. QED
            BY <1>1, <3>2, <3>3, <3>5, <3>6, <3>7
    <2>3. QED
        BY <1>4, <2>1, <2>2
<1>10. CatchInv(q, left, new)
    BY <1>3, <1>9 DEF CatchInv
<1>11. QED
    BY <1>1, <1>10

-----------------------------------------------------------------------------
(* Closing *)

\* A node that closes keeps the tree in shape.
LEMMA ClosingIsSound ==
    ASSUME NEW p, NEW q, NEW here \in 1..Len(p.nodes), Sound(p), Typed(q), CloseShape(p, q, here)
    PROVE  Sound(q)
<1>0. Typed(p) /\ TreeInv(p) /\ KindInv(p) /\ TokenInv(p)
    BY DEF Sound
<1>1. PICK n, t : n = Len(p.nodes) /\ t = Len(p.tokens)
    OBVIOUS
<1>2. n \in Nat /\ t \in Nat
    BY <1>0, <1>1, TypedFacts
<1>3. Len(q.nodes) = n /\ q.tokens = p.tokens /\ Len(q.tokens) = t
    BY <1>1 DEF CloseShape
<1>4. \A k \in 1..n : /\ q.nodes[k].kind = p.nodes[k].kind /\ q.nodes[k].parent = p.nodes[k].parent
                      /\ q.nodes[k].start = p.nodes[k].start
                      /\ q.nodes[k].end = p.nodes[k].end \/ q.nodes[k].end = t
    BY <1>1 DEF CloseShape
<1>5. \A k \in 2..n : k \in 1..n /\ p.nodes[k].parent \in 1..n
    <2>1. ASSUME NEW k \in 2..n PROVE k \in 1..n /\ p.nodes[k].parent \in 1..n
        <3>1. k \in 1..n
            BY <1>2
        <3>2. p.nodes[k].parent # 0 /\ p.nodes[k].parent \in 0..(k - 1)
            BY <1>0, <1>1, <3>1 DEF TreeInv, Parents
        <3>3. QED
            BY <1>2, <3>1, <3>2
    <2>2. QED
        BY <2>1
<1>6. 1 \in 1..n
    BY <1>1, <1>2
<1>7. TreeInv(q)
    <2>1. Parents(q, n)
        BY <1>0, <1>1, <1>4 DEF TreeInv, Parents
    <2>2. q.nodes[1].kind = "Root"
        BY <1>0, <1>4, <1>6 DEF TreeInv
    <2>3. ASSUME NEW k \in 2..n
          PROVE  /\ q.nodes[k].kind # "Root" /\ q.nodes[k].parent # 0
                 /\ q.nodes[q.nodes[k].parent].start <= q.nodes[k].start
        <3>1. PICK up : up = p.nodes[k].parent
            OBVIOUS
        <3>2. p.nodes[k].kind # "Root" /\ up # 0 /\ p.nodes[up].start <= p.nodes[k].start
            BY <1>0, <1>1, <3>1 DEF TreeInv
        <3>3. /\ q.nodes[k].kind = p.nodes[k].kind /\ q.nodes[k].parent = up
              /\ q.nodes[k].start = p.nodes[k].start /\ q.nodes[up].start = p.nodes[up].start
            BY <1>4, <1>5, <3>1
        <3>4. QED
            BY <3>2, <3>3
    <2>4. \A k \in 1..n : q.nodes[k].start <= t /\ q.nodes[k].end <= t
        <3>1. \A k \in 1..n : p.nodes[k].start <= t /\ p.nodes[k].end <= t
            BY <1>0, <1>1 DEF TreeInv
        <3>2. t <= t
            BY <1>2
        <3>3. QED
            BY <1>4, <3>1, <3>2
    <2>5. QED
        BY <1>3, <2>1, <2>2, <2>3, <2>4 DEF TreeInv
<1>8. KindInv(q)
    <2>1. ASSUME NEW k \in 1..n
          PROVE  /\ q.nodes[k].kind = "N_MACRO_NAME" => q.nodes[q.nodes[k].parent].kind = "N_MACRO"
                 /\ q.nodes[k].kind \in {"N_MATCH_TRY_CLAUSE", "N_CATCH"} =>
                        q.nodes[q.nodes[k].parent].kind = "N_MATCH_TRY"
        <3>1. PICK up : up = p.nodes[k].parent
            OBVIOUS
        <3>2. q.nodes[k].kind = p.nodes[k].kind /\ q.nodes[k].parent = up
            BY <1>4, <3>1
        <3>3. /\ p.nodes[k].kind = "N_MACRO_NAME" => p.nodes[up].kind = "N_MACRO"
              /\ p.nodes[k].kind \in {"N_MATCH_TRY_CLAUSE", "N_CATCH"} => p.nodes[up].kind = "N_MATCH_TRY"
            BY <1>0, <1>1, <3>1 DEF KindInv
        <3>4. CASE k = 1
            BY <1>0, <3>2, <3>4 DEF TreeInv
        <3>5. CASE k # 1
            <4>1. k \in 2..n
                BY <1>2, <3>5
            <4>2. q.nodes[up].kind = p.nodes[up].kind
                BY <1>4, <1>5, <3>1, <4>1
            <4>3. QED
                BY <3>2, <3>3, <4>2
        <3>6. QED
            BY <3>4, <3>5
    <2>2. QED
        BY <1>3, <2>1 DEF KindInv
<1>9. TokenInv(q)
    <2>1. ASSUME NEW i \in 1..t
          PROVE  LET token == q.tokens[i]
                 IN  /\ token.node \in 1..n /\ q.nodes[token.node].start < i
                     /\ token.role = "l" => q.nodes[token.node].kind \in Binders
                     /\ token.role = "l_or_r" => q.nodes[token.node].kind \in Clauses
                     /\ \/ token.text = <<token.text[1]>>
                        \/ /\ token.role = "r" /\ i > 1
                           /\ q.tokens[i - 1].role = "r" /\ q.tokens[i - 1].text = <<token.text[1]>>
                           /\ \A k \in 1..n : q.nodes[k].end # i - 1
        <3>1. PICK token : token = p.tokens[i]
            OBVIOUS
        <3>2. /\ token.node \in 1..n /\ p.nodes[token.node].start < i
              /\ token.role = "l" => p.nodes[token.node].kind \in Binders
              /\ token.role = "l_or_r" => p.nodes[token.node].kind \in Clauses
              /\ \/ token.text = <<token.text[1]>>
                 \/ /\ token.role = "r" /\ i > 1
                    /\ p.tokens[i - 1].role = "r" /\ p.tokens[i - 1].text = <<token.text[1]>>
                    /\ \A k \in 1..n : p.nodes[k].end # i - 1
            BY <1>0, <1>1, <3>1 DEF TokenInv
        <3>3. i - 1 # t
            BY <1>2
        <3>4. QED
            BY <1>3, <1>4, <3>1, <3>2, <3>3
    <2>2. QED
        BY <1>3, <2>1 DEF TokenInv
<1>10. QED
    BY <1>7, <1>8, <1>9 DEF Sound

\* The parent is the innermost one now.
LEMMA ClosingOpens ==
    ASSUME NEW p, NEW q, NEW open, NEW here, here # 1, Sound(p), CloseShape(p, q, here),
           OpenInv(p, open, here)
    PROVE  OpenInv(q, open \ {here}, p.nodes[here].parent) /\ p.nodes[here].parent # here
<1>1. PICK n, left, up : n = Len(p.nodes) /\ left = open \ {here} /\ up = p.nodes[here].parent
    OBVIOUS
<1>2. /\ n \in Nat /\ open \in SUBSET (1..n) /\ here \in open /\ here \in 1..n /\ Chain(p, open)
      /\ \A k \in open : k <= here
    BY <1>1, TypedFacts DEF OpenInv, Sound
<1>3. up \in open /\ \A m \in open : m < here => m <= up
    BY <1>1, <1>2 DEF Chain
<1>4. \A k \in 1..n : p.nodes[k].parent \in 0..(k - 1)
    BY <1>1 DEF Sound, TreeInv, Parents
<1>5. up # here
    BY <1>1, <1>2, <1>4
<1>6. \A k \in left : k < here /\ k \in 1..n /\ k \in open
    <2>1. ASSUME NEW k \in left PROVE k < here /\ k \in 1..n /\ k \in open
        <3>1. k \in open /\ k # here /\ k \in 1..n /\ k <= here
            BY <1>1, <1>2
        <3>2. QED
            BY <1>2, <3>1
    <2>2. QED
        BY <2>1
<1>7. /\ Len(q.nodes) = n /\ \A k \in 1..n : q.nodes[k].parent = p.nodes[k].parent
    BY <1>1 DEF CloseShape
<1>8. ASSUME NEW k \in left \ {1}
      PROVE  q.nodes[k].parent \in left /\ \A m \in left : m < k => m <= q.nodes[k].parent
    <2>1. k \in open \ {1} /\ k \in 1..n /\ k < here
        BY <1>6
    <2>2. p.nodes[k].parent \in open /\ \A m \in open : m < k => m <= p.nodes[k].parent
        BY <1>2, <2>1 DEF Chain
    <2>3. p.nodes[k].parent # here
        <3>1. p.nodes[k].parent \in 0..(k - 1)
            BY <1>4, <2>1
        <3>2. QED
            BY <1>2, <2>1, <3>1
    <2>4. QED
        BY <1>1, <1>7, <2>1, <2>2, <2>3
<1>9. 1 \in left
    BY <1>1, <1>2 DEF Chain
<1>10. up \in left /\ \A k \in left : k <= up
    BY <1>1, <1>3, <1>5, <1>6
<1>11. OpenInv(q, left, up)
    BY <1>1, <1>2, <1>7, <1>8, <1>9, <1>10 DEF OpenInv, Chain
<1>12. QED
    BY <1>1, <1>5, <1>11

\* A node that closes keeps catches last.
LEMMA ClosingCatches ==
    ASSUME NEW p, NEW q, NEW open, NEW here, here # 1, Sound(p), Typed(q), CloseShape(p, q, here),
           OpenInv(p, open, here), CatchInv(p, open, here),
           \A k \in 1..Len(p.nodes) : q.nodes[k].last = p.nodes[k].last
    PROVE  CatchInv(q, open \ {here}, p.nodes[here].parent)
<1>1. PICK n, left : n = Len(p.nodes) /\ left = open \ {here}
    OBVIOUS
<1>2. /\ n \in Nat /\ Len(q.nodes) = n
      /\ \A k \in 1..n : /\ q.nodes[k].kind = p.nodes[k].kind /\ q.nodes[k].parent = p.nodes[k].parent
                         /\ q.nodes[k].last = p.nodes[k].last
    BY <1>1, TypedFacts DEF CloseShape, Sound
<1>3. \A up : Catches(q, up) = Catches(p, up)
    BY <1>1, <1>2, SameCatches DEF Sound, SameTree
<1>4. ASSUME NEW c \in 1..n, q.nodes[c].kind = "N_CATCH", NEW up, up = q.nodes[c].parent
      PROVE  /\ q.nodes[up].last = "N_CATCH" /\ Catches(q, up) = {c}
             /\ up \in left => c \in left \/ p.nodes[here].parent = up
    <2>1. p.nodes[c].kind = "N_CATCH" /\ up = p.nodes[c].parent
        BY <1>2, <1>4
    <2>2. p.nodes[up].last = "N_CATCH" /\ Catches(p, up) = {c} /\ (up \in open => c \in open \/ here = up)
        BY <1>1, <2>1 DEF CatchInv
    <2>3. up \in 1..n
        <3>1. c # 1
            BY <2>1 DEF TreeInv, Sound
        <3>2. c \in 2..n
            BY <1>2, <3>1
        <3>3. up # 0 /\ up \in 0..(c - 1)
            BY <1>1, <2>1, <3>2 DEF TreeInv, Parents, Sound
        <3>4. QED
            BY <1>2, <3>3
    <2>4. q.nodes[up].last = "N_CATCH" /\ Catches(q, up) = {c}
        BY <1>2, <1>3, <2>2, <2>3
    <2>5. ASSUME up \in left PROVE c \in left \/ p.nodes[here].parent = up
        BY <1>1, <2>1, <2>2, <2>5
    <2>6. QED
        BY <2>4, <2>5
<1>5. CatchInv(q, left, p.nodes[here].parent)
    BY <1>2, <1>4 DEF CatchInv
<1>6. QED
    BY <1>1, <1>5

-----------------------------------------------------------------------------
(* Writing *)

\* Writing opens and closes nothing.
LEMMA WritingOpens ==
    ASSUME NEW p, NEW q, NEW open, NEW here, Sound(p), Typed(q), SameNodes(p, q),
           OpenInv(p, open, here), CatchInv(p, open, here),
           p.nodes[here].kind = "N_MATCH_TRY" => p.nodes[here].last # "N_CATCH",
           \A k \in 1..Len(p.nodes) : k # here => q.nodes[k].last = p.nodes[k].last
    PROVE  OpenInv(q, open, here) /\ CatchInv(q, open, here)
<1>1. PICK n : n = Len(p.nodes)
    OBVIOUS
<1>2. /\ n \in Nat /\ Len(q.nodes) = n
      /\ \A k \in 1..n : q.nodes[k].kind = p.nodes[k].kind /\ q.nodes[k].parent = p.nodes[k].parent
    BY <1>1, TypedFacts DEF SameNodes, Sound
<1>3. /\ open \in SUBSET (1..n) /\ Chain(p, open) /\ here \in open /\ \A k \in open : k <= here
    BY <1>1 DEF OpenInv
<1>4. Chain(q, open)
    <2>1. \A k \in open : q.nodes[k].parent = p.nodes[k].parent
        BY <1>2, <1>3
    <2>2. QED
        BY <1>3, <2>1 DEF Chain
<1>5. OpenInv(q, open, here)
    BY <1>2, <1>3, <1>4 DEF OpenInv
<1>6. \A up : Catches(q, up) = Catches(p, up)
    BY <1>1, <1>2, SameCatches DEF Sound, SameTree
<1>7. Catches(p, here) = {}
    BY NotYetCaught
<1>8. ASSUME NEW c \in 1..n, q.nodes[c].kind = "N_CATCH", NEW up, up = q.nodes[c].parent
      PROVE  /\ q.nodes[up].last = "N_CATCH" /\ Catches(q, up) = {c}
             /\ up \in open => c \in open \/ here = up
    <2>1. p.nodes[c].kind = "N_CATCH" /\ up = p.nodes[c].parent
        BY <1>2, <1>8
    <2>2. p.nodes[up].last = "N_CATCH" /\ Catches(p, up) = {c} /\ (up \in open => c \in open \/ here = up)
        BY <1>1, <2>1 DEF CatchInv
    <2>3. up \in 1..n
        <3>1. c # 1
            BY <2>1 DEF TreeInv, Sound
        <3>2. c \in 2..n
            BY <1>2, <3>1
        <3>3. up # 0 /\ up \in 0..(c - 1)
            BY <1>1, <2>1, <3>2 DEF TreeInv, Parents, Sound
        <3>4. QED
            BY <1>2, <3>3
    <2>4. up # here
        BY <1>7, <2>2
    <2>5. q.nodes[up].last = "N_CATCH"
        BY <1>1, <2>2, <2>3, <2>4
    <2>6. QED
        BY <1>6, <2>2, <2>5
<1>9. CatchInv(q, open, here)
    BY <1>2, <1>8 DEF CatchInv
<1>10. QED
    BY <1>5, <1>9

-----------------------------------------------------------------------------
(* The table when nodes open and close *)

\* A table without what is outside a set.
Keeping(s, kept, S) ==
    /\ IsSeq(kept)
    /\ \A x : (\E k \in 1..Len(kept) : kept[k] = x) <=> x \in S /\ \E k \in 1..Len(s) : s[k] = x
    /\ \A k, l \in 1..Len(kept) : k < l =>
           \E a, b \in 1..Len(s) : a < b /\ kept[k] = s[a] /\ kept[l] = s[b]

\* Filtering by a set keeps what is in it, in order.
LEMMA FilterKeeps ==
    ASSUME NEW s, IsSeq(s), NEW S, NEW f, f = [k \in DOMAIN s |-> f[k]],
           \A k \in DOMAIN s : f[k] = IF s[k] \in S THEN <<s[k]>> ELSE <<>>
    PROVE  Keeping(s, FlattenSeq(f), S)
<1>1. \A k \in DOMAIN s : f[k] \in {<<>>, <<s[k]>>}
    OBVIOUS
<1>2. PICK r : r = FlattenSeq(f)
    OBVIOUS
<1>3. DOMAIN s = 1..Len(s)
    BY SeqFacts
<1>4. IsSeq(r) /\ ToSet(r) = {s[k] : k \in {j \in DOMAIN s : f[j] = <<s[j]>>}}
    <2>1. /\ IsSeq(FlattenSeq(f))
          /\ ToSet(FlattenSeq(f)) = {s[k] : k \in {j \in DOMAIN s : f[j] = <<s[j]>>}}
        BY <1>1, FilterElements
    <2>2. QED
        BY <1>2, <2>1
<1>5. \A x : <<>> # <<x>>
    OBVIOUS
<1>6. \A j \in DOMAIN s : f[j] = <<s[j]>> <=> s[j] \in S
    BY <1>5
<1>7. \A x : x \in ToSet(r) <=> x \in S /\ \E k \in 1..Len(s) : s[k] = x
    BY <1>3, <1>4, <1>6
<1>8. \A x : x \in ToSet(r) <=> \E k \in 1..Len(r) : r[k] = x
    <2>1. DOMAIN r = 1..Len(r)
        BY <1>4, SeqFacts
    <2>2. QED
        BY <2>1 DEF ToSet
<1>9. \A k, l \in 1..Len(r) : k < l => \E a, b \in 1..Len(s) : a < b /\ r[k] = s[a] /\ r[l] = s[b]
    <2>1. LET u == FlattenSeq(f)
          IN  \A a, b \in 1..Len(u) : a < b => \E k, l \in 1..Len(s) : k < l /\ u[a] = s[k] /\ u[b] = s[l]
        BY <1>1, FilterOrder
    <2>2. QED
        BY <1>2, <2>1
<1>10. Keeping(s, r, S)
    BY <1>4, <1>7, <1>8, <1>9 DEF Keeping
<1>11. QED
    BY <1>2, <1>10

\* What is all in a set is kept whole.
LEMMA AllKept ==
    ASSUME NEW s, IsSeq(s), NEW S, \A k \in 1..Len(s) : s[k] \in S
    PROVE  Keeping(s, s, S)
BY DEF Keeping

\* The table when a node opens: a catch takes out what its match-try has bound.
LEMMA OpeningEnv ==
    ASSUME NEW p, NEW q, NEW open, NEW here \in open, here \in 1..Len(p.nodes), NEW kind, Sound(p), Typed(q),
           OpenShape(p, q, here, kind), kind = "N_CATCH" => Catches(p, here) = {},
           NEW table, IsSeq(table), EnvInv(p, open, table), NEW kept, NEW S, Keeping(table, kept, S),
           \A k \in 1..Len(table) :
               table[k] \in S <=> (kind = "N_CATCH" => table[k].frame # here \/ table[k].outer)
    PROVE  EnvInv(q, open \cup {Len(p.nodes) + 1}, kept)
<1>1. PICK left : left = open \cup {Len(p.nodes) + 1}
    OBVIOUS
<1>2. Grows(p, q) /\ Keeps(p, open, q, left)
    BY <1>1, OpeningKeeps
<1>3. \A j \in 1..Len(p.tokens) :
          /\ Made(q, left, j) <=> Made(p, open, j)
          /\ p.tokens[j].role # "r" =>
                (Over(q, left, j) <=>
                    \/ Over(p, open, j)
                    \/ kind = "N_CATCH" /\ FrameOf(p, j) = here /\ ~OuterOf(p, j))
    BY <1>1, OpeningKeeps
<1>4. \A j : Made(p, open, j) => p.tokens[j].role # "r"
    BY DEF Made
<1>5. \A k \in 1..Len(table) :
          LET j == table[k].token
          IN  /\ j \in 1..Len(p.tokens) /\ Made(p, open, j) /\ ~Over(p, open, j)
              /\ table[k].frame = FrameOf(p, j) /\ table[k].outer = OuterOf(p, j)
    BY DEF EnvInv
<1>6. \A k \in 1..Len(table) : table[k] \in S <=> InForce(q, left, table[k].token)
    <2>1. ASSUME NEW k \in 1..Len(table) PROVE table[k] \in S <=> InForce(q, left, table[k].token)
        <3>1. PICK j : j = table[k].token
            OBVIOUS
        <3>2. /\ j \in 1..Len(p.tokens) /\ Made(p, open, j) /\ ~Over(p, open, j) /\ p.tokens[j].role # "r"
              /\ table[k].frame = FrameOf(p, j) /\ (table[k].outer <=> OuterOf(p, j))
            BY <1>4, <1>5, <3>1
        <3>3. /\ Made(q, left, j)
              /\ Over(q, left, j) <=> kind = "N_CATCH" /\ FrameOf(p, j) = here /\ ~OuterOf(p, j)
            BY <1>3, <3>2
        <3>4. QED
            BY <3>1, <3>2, <3>3 DEF InForce
    <2>2. QED
        BY <2>1
<1>7. \A x : (\E k \in 1..Len(kept) : kept[k] = x)
                 <=> \E k \in 1..Len(table) : table[k] = x /\ InForce(q, left, x.token)
    BY <1>6 DEF Keeping
<1>8. \A j \in 1..Len(q.tokens) : InForce(q, left, j) => j \in 1..Len(p.tokens) /\ InForce(p, open, j)
    <2>1. q.tokens = p.tokens
        BY DEF OpenShape
    <2>2. QED
        BY <1>3, <1>4, <2>1 DEF InForce
<1>9. IsSeq(<<>>) /\ Len(<<>>) = 0
    BY Tuples, SeqFacts
<1>10. PICK new : new = <<>>
    OBVIOUS
<1>11. IsSeq(new) /\ \A k \in 1..Len(new) : FALSE
    BY <1>9, <1>10
<1>12. IsSeq(kept) /\ \A k, l \in 1..Len(kept) : k < l =>
               \E a, b \in 1..Len(table) : a < b /\ kept[k] = table[a] /\ kept[l] = table[b]
    BY DEF Keeping
<1>13. EnvInv(q, left, kept \o new)
    BY <1>2, <1>7, <1>8, <1>11, <1>12, TableGrows
<1>14. QED
    BY <1>1, <1>10, <1>12, <1>13, NothingJoins

\* What is bound as a node closes.
LEMMA MadeByFacts ==
    ASSUME NEW p, Typed(p), NEW n
    PROVE  LET new == MadeBy(p, n)
           IN  /\ IsSeq(new)
               /\ \A k \in 1..Len(new) :
                     LET j == new[k].token
                     IN  /\ j \in 1..Len(p.tokens) /\ p.tokens[j].role = "l" /\ DeclarerOf(p, j) = n
                         /\ new[k].frame = FrameOf(p, j) /\ new[k].outer = OuterOf(p, j)
               /\ \A j \in 1..Len(p.tokens) :
                     p.tokens[j].role = "l" /\ DeclarerOf(p, j) = n => \E k \in 1..Len(new) : new[k].token = j
               /\ \A k, l \in 1..Len(new) : k < l => new[k].token < new[l].token
<1> DEFINE t == Len(p.tokens)
           ids == [i \in DOMAIN p.tokens |-> i]
           S == {i \in 1..t : p.tokens[i].role = "l" /\ Declarer(p, p.tokens[i].node) = n}
           f == [k \in DOMAIN ids |->
                    IF p.tokens[ids[k]].role = "l" /\ Declarer(p, p.tokens[ids[k]].node) = n
                    THEN <<ids[k]>> ELSE <<>>]
<1>1. t \in Nat /\ DOMAIN p.tokens = 1..t
    BY TypedFacts
<1>2. IsSeq(ids) /\ Len(ids) = t /\ DOMAIN ids = 1..t /\ \A i \in 1..t : ids[i] = i
    <2>1. IsSeq(p.tokens) /\ DOMAIN ids = DOMAIN p.tokens
        BY TypedFacts
    <2>2. IsSeq(ids) /\ Len(ids) = Len(p.tokens)
        BY <2>1, MapIsSeq
    <2>3. QED
        BY <1>1, <2>1, <2>2
<1>3. f = [k \in DOMAIN ids |-> IF ids[k] \in S THEN <<ids[k]>> ELSE <<>>]
    <2>1. ASSUME NEW k \in DOMAIN ids
          PROVE  (p.tokens[ids[k]].role = "l" /\ Declarer(p, p.tokens[ids[k]].node) = n) <=> ids[k] \in S
        BY <1>2
    <2>2. QED
        BY <2>1
<1>4. PICK binders : binders = FlattenSeq(f)
    OBVIOUS
<1>5. Keeping(ids, binders, S)
    <2>1. PICK s, g : s = ids /\ g = f
        OBVIOUS
    <2>2. g = [k \in DOMAIN s |-> IF s[k] \in S THEN <<s[k]>> ELSE <<>>] /\ IsSeq(s)
        BY <1>2, <1>3, <2>1
    <2> HIDE DEF S, f, ids
    <2>3. /\ g = [k \in DOMAIN s |-> g[k]]
          /\ \A k \in DOMAIN s : g[k] = IF s[k] \in S THEN <<s[k]>> ELSE <<>>
        BY <2>2
    <2>4. IsSeq(s)
        BY <2>2
    <2>5. Keeping(s, FlattenSeq(g), S)
        BY <2>3, <2>4, FilterKeeps
    <2>6. QED
        BY <1>4, <2>1, <2>5
<1>6. PICK new : new = MadeBy(p, n)
    OBVIOUS
<1>7. new = [k \in DOMAIN binders |->
                [token |-> binders[k], frame |-> Frame(p, p.tokens[binders[k]].node),
                 outer |-> IsOuter(p, p.tokens[binders[k]].node)]]
    BY <1>4, <1>6 DEF MadeBy, Filter
<1>8. IsSeq(binders) /\ DOMAIN binders = 1..Len(binders)
    BY <1>5, SeqFacts DEF Keeping
<1>9. DOMAIN new = DOMAIN binders
    BY <1>7
<1>10. IsSeq(new) /\ Len(new) = Len(binders)
    <2>1. new = [k \in DOMAIN binders |-> new[k]]
        BY <1>7
    <2>2. QED
        BY <1>8, <1>9, <2>1, MapIsSeq
<1>11. \A k \in 1..Len(new) :
           /\ new[k].token = binders[k] /\ new[k].frame = Frame(p, p.tokens[binders[k]].node)
           /\ new[k].outer = IsOuter(p, p.tokens[binders[k]].node)
    BY <1>7, <1>8, <1>10
<1>12. \A k \in 1..Len(binders) : binders[k] \in S
    BY <1>5 DEF Keeping
<1>13. \A j \in S : \E k \in 1..Len(binders) : binders[k] = j
    <2>1. \A j \in S : j \in 1..Len(ids) /\ ids[j] = j
        BY <1>2
    <2> HIDE DEF S, ids
    <2>2. QED
        BY <1>5, <2>1 DEF Keeping
<1>14. \A k, l \in 1..Len(binders) : k < l => binders[k] < binders[l]
    <2>1. ASSUME NEW k \in 1..Len(binders), NEW l \in 1..Len(binders), k < l PROVE binders[k] < binders[l]
        <3>1. PICK a, b \in 1..Len(ids) : a < b /\ binders[k] = ids[a] /\ binders[l] = ids[b]
            BY <1>5, <2>1 DEF Keeping
        <3>2. ids[a] = a /\ ids[b] = b
            BY <1>2, <3>1
        <3> HIDE DEF ids
        <3>3. QED
            BY <3>1, <3>2
    <2>2. QED
        BY <2>1
<1>15. ASSUME NEW k \in 1..Len(new)
       PROVE  LET j == new[k].token
              IN  /\ j \in 1..Len(p.tokens) /\ p.tokens[j].role = "l" /\ DeclarerOf(p, j) = n
                  /\ new[k].frame = FrameOf(p, j) /\ new[k].outer = OuterOf(p, j)
    <2>1. PICK j : j = new[k].token
        OBVIOUS
    <2>2. j = binders[k] /\ j \in S
        BY <1>10, <1>11, <1>12, <2>1
    <2>3. j \in 1..Len(p.tokens) /\ p.tokens[j].role = "l" /\ DeclarerOf(p, j) = n
        BY <2>2 DEF DeclarerOf
    <2>4. new[k].frame = FrameOf(p, j)
        BY <1>11, <2>2, <2>3 DEF FrameOf
    <2>5. new[k].outer = OuterOf(p, j)
        <3>1. new[k].outer = IsOuter(p, p.tokens[j].node)
            BY <1>11, <2>2
        <3>2. OuterOf(p, j) = IsOuter(p, p.tokens[j].node)
            BY <2>3 DEF OuterOf, IsOuter
        <3>3. QED
            BY <3>1, <3>2
    <2>6. QED
        BY <2>1, <2>3, <2>4, <2>5
<1>16. ASSUME NEW j \in 1..Len(p.tokens), p.tokens[j].role = "l", DeclarerOf(p, j) = n
       PROVE  \E k \in 1..Len(new) : new[k].token = j
    <2>1. j \in S
        BY <1>16 DEF DeclarerOf
    <2>2. PICK k \in 1..Len(binders) : binders[k] = j
        BY <1>13, <2>1
    <2>3. QED
        BY <1>10, <1>11, <2>2
<1>17. \A k, l \in 1..Len(new) : k < l => new[k].token < new[l].token
    BY <1>10, <1>11, <1>14
<1> HIDE DEF t, S, ids, f
<1>18. QED
    BY <1>6, <1>10, <1>15, <1>16, <1>17

\* The table when a node closes: out goes what was in force in it, and in what it declares.
LEMMA ClosingEnv ==
    ASSUME NEW p, NEW q, NEW open, NEW here, here # 1, Sound(p), Typed(q), CloseShape(p, q, here),
           OpenInv(p, open, here), CatchInv(p, open, here),
           NEW table, IsSeq(table), EnvInv(p, open, table), NEW kept, NEW S, Keeping(table, kept, S),
           \A k \in 1..Len(table) : table[k] \in S <=> table[k].frame # here
    PROVE  EnvInv(q, open \ {here}, kept \o MadeBy(p, here))
<1>1. PICK left, new : left = open \ {here} /\ new = MadeBy(p, here)
    OBVIOUS
<1>2. here \in open /\ here \in 1..Len(p.nodes)
    BY DEF OpenInv
<1>3. Grows(p, q) /\ Keeps(p, open, q, left) /\ q.tokens = p.tokens
    BY <1>1, <1>2, ClosingKeeps DEF CloseShape
<1>4. \A j \in 1..Len(p.tokens) :
          /\ Made(q, left, j) <=> Made(p, open, j) \/ (p.tokens[j].role = "l" /\ DeclarerOf(p, j) = here)
          /\ p.tokens[j].role # "r" => (Over(q, left, j) <=> Over(p, open, j) \/ FrameOf(p, j) = here)
    <2>1. \A j \in 1..Len(p.tokens) :
              /\ Made(q, open \ {here}, j) <=>
                    Made(p, open, j) \/ (p.tokens[j].role = "l" /\ DeclarerOf(p, j) = here)
              /\ p.tokens[j].role # "r" =>
                    (Over(q, open \ {here}, j) <=> Over(p, open, j) \/ FrameOf(p, j) = here)
        BY <1>2, ClosingKeeps
    <2>2. QED
        BY <1>1, <2>1
<1>5. \A j : Made(p, open, j) => p.tokens[j].role # "r"
    BY DEF Made
<1>6. \A k \in 1..Len(table) :
          LET j == table[k].token
          IN  /\ j \in 1..Len(p.tokens) /\ Made(p, open, j) /\ ~Over(p, open, j)
              /\ table[k].frame = FrameOf(p, j)
    BY DEF EnvInv
<1>7. \A k \in 1..Len(table) : table[k] \in S <=> InForce(q, left, table[k].token)
    <2>1. ASSUME NEW k \in 1..Len(table) PROVE table[k] \in S <=> InForce(q, left, table[k].token)
        <3>1. PICK j : j = table[k].token
            OBVIOUS
        <3>2. /\ j \in 1..Len(p.tokens) /\ Made(p, open, j) /\ ~Over(p, open, j) /\ p.tokens[j].role # "r"
              /\ table[k].frame = FrameOf(p, j)
            BY <1>5, <1>6, <3>1
        <3>3. Made(q, left, j) /\ (Over(q, left, j) <=> FrameOf(p, j) = here)
            BY <1>4, <3>2
        <3>4. QED
            BY <3>1, <3>2, <3>3 DEF InForce
    <2>2. QED
        BY <2>1
<1>8. \A x : (\E k \in 1..Len(kept) : kept[k] = x)
                 <=> \E k \in 1..Len(table) : table[k] = x /\ InForce(q, left, x.token)
    BY <1>7 DEF Keeping
<1>9. /\ IsSeq(new)
      /\ \A k \in 1..Len(new) :
            LET j == new[k].token
            IN  /\ j \in 1..Len(p.tokens) /\ p.tokens[j].role = "l" /\ DeclarerOf(p, j) = here
                /\ new[k].frame = FrameOf(p, j) /\ new[k].outer = OuterOf(p, j)
    BY <1>1, MadeByFacts DEF Sound
<1>10. \A j \in 1..Len(p.tokens) :
           p.tokens[j].role = "l" /\ DeclarerOf(p, j) = here => \E k \in 1..Len(new) : new[k].token = j
    BY <1>1, MadeByFacts DEF Sound
<1>11. \A k, l \in 1..Len(new) : k < l => new[k].token < new[l].token
    BY <1>1, MadeByFacts DEF Sound
<1>12. ASSUME NEW k \in 1..Len(new)
       PROVE  LET j == new[k].token
              IN  /\ j \in 1..Len(q.tokens) /\ InForce(q, left, j)
                  /\ new[k].frame = FrameOf(q, j) /\ new[k].outer = OuterOf(q, j)
                  /\ p.nodes[here].start < j
    <2>1. PICK j : j = new[k].token
        OBVIOUS
    <2>2. j \in 1..Len(p.tokens) /\ p.tokens[j].role = "l" /\ DeclarerOf(p, j) = here
        BY <1>9, <2>1
    <2>3. /\ FrameOf(p, j) \in open /\ FrameOf(p, j) # here /\ ~Caught(p, j)
          /\ p.nodes[here].start < j
        BY <2>2, FreshFacts
    <2>4. ~Over(p, open, j)
        BY <2>3 DEF Over
    <2>5. InForce(q, left, j)
        BY <1>4, <2>2, <2>3, <2>4 DEF InForce
    <2>6. FrameOf(q, j) = FrameOf(p, j) /\ OuterOf(q, j) = OuterOf(p, j)
        BY <1>3, <2>2, PlacesStay
    <2>7. QED
        BY <1>3, <1>9, <2>1, <2>2, <2>3, <2>5, <2>6
<1>13. \A j \in 1..Len(q.tokens) : InForce(q, left, j) =>
           \/ j \in 1..Len(p.tokens) /\ InForce(p, open, j)
           \/ \E k \in 1..Len(new) : new[k].token = j
    <2>1. ASSUME NEW j \in 1..Len(p.tokens), InForce(q, left, j), ~(p.tokens[j].role = "l" /\ DeclarerOf(p, j) = here)
          PROVE  InForce(p, open, j)
        <3>1. Made(p, open, j)
            BY <1>4, <2>1 DEF InForce
        <3>2. ~Over(p, open, j)
            BY <1>4, <1>5, <2>1, <3>1 DEF InForce
        <3>3. QED
            BY <3>1, <3>2 DEF InForce
    <2>2. QED
        BY <1>3, <1>10, <2>1
<1>14. IsSeq(kept) /\ \A k, l \in 1..Len(kept) : k < l =>
               \E a, b \in 1..Len(table) : a < b /\ kept[k] = table[a] /\ kept[l] = table[b]
    BY DEF Keeping
<1>15. /\ q.nodes[here].start = p.nodes[here].start /\ q.nodes[here].end = Len(p.tokens)
       /\ p.nodes[here].start \in Nat /\ Len(p.tokens) \in Nat
    BY <1>2, TypedFacts DEF CloseShape, Sound
<1>16. ASSUME NEW k \in 1..Len(kept), NEW l \in 1..Len(new)
       PROVE  Later(q, kept[k].token, new[l].token)
    <2>1. PICK i, j : i = kept[k].token /\ j = new[l].token
        OBVIOUS
    <2>2. i \in 1..Len(p.tokens)
        <3>1. \E m \in 1..Len(table) : table[m] = kept[k]
            BY <1>8
        <3>2. QED
            BY <1>6, <2>1, <3>1
    <2>3. /\ j \in 1..Len(p.tokens) /\ p.tokens[j].role = "l" /\ DeclarerOf(p, j) = here
          /\ p.nodes[here].start < j
        BY <1>9, <1>12, <2>1
    <2>4. q.tokens[j].role = "l" /\ DeclarerOf(q, j) = here
        BY <1>3, <2>3, PlacesStay
    <2>5. i < j \/ i \in (p.nodes[here].start + 1)..Len(p.tokens)
        BY <1>15, <2>2, <2>3
    <2>6. QED
        BY <1>15, <2>1, <2>4, <2>5 DEF Later
<1>17. \A k, l \in 1..Len(new) : k < l => Later(q, new[k].token, new[l].token)
    BY <1>11 DEF Later
<1>18. \A k \in 1..Len(new) :
           /\ new[k].token \in 1..Len(q.tokens) /\ InForce(q, left, new[k].token)
           /\ new[k].frame = FrameOf(q, new[k].token) /\ new[k].outer = OuterOf(q, new[k].token)
    BY <1>12
<1>19. EnvInv(q, left, kept \o new)
    BY <1>3, <1>8, <1>9, <1>13, <1>14, <1>16, <1>17, <1>18, TableGrows
<1>20. QED
    BY <1>1, <1>19

-----------------------------------------------------------------------------
(* The state *)

\* The types of the state's parts.
LEMMA ProgramFacts ==
    ASSUME TypeInv
    PROVE  /\ program.nodes = nodes /\ program.tokens = tokens /\ Typed(program)
           /\ IsSeq(env) /\ at \in 1..Len(nodes) /\ Len(nodes) \in Nat /\ Len(tokens) \in Nat
           /\ DOMAIN nodes = 1..Len(nodes) /\ DOMAIN tokens = 1..Len(tokens)
           /\ nodes[at] \in NodeRec
           /\ \A k \in 1..Len(env) : env[k] \in EntryRec
<1>1. program.nodes = nodes /\ program.tokens = tokens
    BY DEF program
<1>2. Typed(program)
    BY <1>1 DEF Typed, TypeInv
<1>3. IsSeq(env) /\ \A k \in 1..Len(env) : env[k] \in EntryRec
    <2>1. env \in Seq(EntryRec)
        BY DEF TypeInv
    <2>2. PICK s, R : s = env /\ R = EntryRec
        OBVIOUS
    <2>3. s \in Seq(R)
        BY <2>1, <2>2
    <2>4. s = [i \in 1..Len(s) |-> s[i]] /\ Len(s) \in Nat /\ \A k \in 1..Len(s) : s[k] \in R
        BY <2>3
    <2>5. QED
        BY <2>2, <2>4 DEF IsSeq
<1>4. at \in 1..Len(nodes) /\ nodes \in Seq(NodeRec)
    BY DEF TypeInv
<1>5. Len(nodes) \in Nat /\ Len(tokens) \in Nat /\ DOMAIN nodes = 1..Len(nodes) /\ DOMAIN tokens = 1..Len(tokens)
    BY <1>1, <1>2, TypedFacts
<1>6. nodes[at] \in NodeRec
    BY <1>1, <1>2, <1>4, TypedFacts
<1>7. QED
    BY <1>1, <1>2, <1>3, <1>4, <1>5, <1>6

\* One node changes.
LEMMA NodeChanges ==
    ASSUME NEW s \in Seq(NodeRec), NEW k \in 1..Len(s), NEW node \in NodeRec
    PROVE  LET t == [s EXCEPT ![k] = node]
           IN  /\ t \in Seq(NodeRec) /\ Len(t) = Len(s)
               /\ t[k] = node /\ \A i \in 1..Len(s) : i # k => t[i] = s[i]
<1>1. PICK R : R = NodeRec
    OBVIOUS
<1>2. s \in Seq(R) /\ node \in R
    BY <1>1
<1>3. [s EXCEPT ![k] = node] \in Seq(R) /\ Len([s EXCEPT ![k] = node]) = Len(s)
    BY <1>2
<1>4. QED
    BY <1>1, <1>2, <1>3

\* A node of which fields change.
LEMMA RecordChanges ==
    ASSUME NEW node \in NodeRec
    PROVE  /\ \A last \in Lasts :
                 LET new == [node EXCEPT !.last = last]
                 IN  /\ new \in NodeRec /\ new.last = last
                     /\ new.kind = node.kind /\ new.parent = node.parent /\ new.start = node.start
                     /\ new.end = node.end
           /\ \A last \in Lasts :
                 LET new == [node EXCEPT !.last = last, !.destructs = TRUE]
                 IN  /\ new \in NodeRec /\ new.last = last
                     /\ new.kind = node.kind /\ new.parent = node.parent /\ new.start = node.start
                     /\ new.end = node.end
           /\ \A end \in Nat :
                 LET new == [node EXCEPT !.end = end]
                 IN  /\ new \in NodeRec /\ new.last = node.last
                     /\ new.kind = node.kind /\ new.parent = node.parent /\ new.start = node.start
                     /\ new.end = end
BY DEF NodeRec

\* The recent binding of a text is the last one of the table.
LEMMA RecentFacts ==
    ASSUME TypeInv, NEW text
    PROVE  IsRecent(program, env, text, Recent(text)) /\ Recent(text) \in Nat \cup {None}
<1> DEFINE made == {k \in DOMAIN env : tokens[env[k].token].text = text}
<1>1. /\ program.tokens = tokens /\ IsSeq(env) /\ Len(env) \in Nat /\ DOMAIN env = 1..Len(env)
      /\ \A k \in 1..Len(env) : env[k] \in EntryRec
    <2>1. program.tokens = tokens /\ IsSeq(env) /\ \A k \in 1..Len(env) : env[k] \in EntryRec
        BY ProgramFacts
    <2>2. QED
        BY <2>1, SeqFacts
<1>2. CASE made = {}
    <2>1. Recent(text) = None
        BY <1>2 DEF Recent
    <2>2. {k \in 1..Len(env) : tokens[env[k].token].text = text} = {}
        BY <1>1, <1>2
    <2>3. QED
        BY <1>1, <2>1, <2>2 DEF IsRecent
<1>3. CASE made # {}
    <2>1. PICK k : k = Max(made)
        OBVIOUS
    <2>2. made \in SUBSET (0..Len(env))
        BY <1>1
    <2>3. k \in made /\ \A y \in made : k >= y
        <3> HIDE DEF made
        <3>1. Max(made) \in made /\ \A y \in made : Max(made) >= y
            BY <1>1, <1>3, <2>2, MaxIn
        <3>2. QED
            BY <2>1, <3>1
    <2>4. Recent(text) = env[k].token
        BY <1>3, <2>1 DEF Recent
    <2>5. env[k].token \in Nat
        BY <1>1, <2>3 DEF EntryRec
    <2>6. \A y \in made : y <= k
        BY <1>1, <2>3
    <2>7. {i \in 1..Len(env) : tokens[env[i].token].text = text} = made
        BY <1>1
    <2>8. IsRecent(program, env, text, Recent(text))
        BY <1>1, <2>3, <2>4, <2>6, <2>7 DEF IsRecent
    <2>9. QED
        BY <2>4, <2>5, <2>8
<1>4. QED
    BY <1>2, <1>3

\* The empty program.
LEMMA Starting == ASSUME Init PROVE ScopeInv
<1>1. PICK root : root = [kind |-> "Root", parent |-> 0, start |-> 0, end |-> 0, last |-> "",
                          require |-> None, destructs |-> FALSE]
    OBVIOUS
<1>2. nodes = <<root>> /\ tokens = <<>> /\ at = 1 /\ env = <<>>
    BY <1>1 DEF Init
<1>3. root \in NodeRec /\ root.kind = "Root" /\ root.parent = 0 /\ root.start = 0 /\ root.end = 0
    BY <1>1 DEF NodeRec, Kinds, Lasts
<1>4. Len(nodes) = 1 /\ nodes[1] = root /\ Len(tokens) = 0 /\ Len(env) = 0
    BY <1>2
<1>5. TypeInv
    <2>1. nodes \in Seq(NodeRec)
        BY <1>2, <1>3
    <2>2. tokens \in Seq(TokenRec) /\ env \in Seq(EntryRec)
        BY <1>2
    <2>3. at \in 1..Len(nodes)
        BY <1>2, <1>4
    <2>4. QED
        BY <2>1, <2>2, <2>3 DEF TypeInv
<1>6. program.nodes = nodes /\ program.tokens = tokens
    BY DEF program
<1>7. (\A k \in 1..1 : k = 1) /\ (\A k \in 2..1 : FALSE) /\ (\A k \in 1..0 : FALSE) /\ 1 \in 1..1
    OBVIOUS
<1>8. TreeInv(program)
    <2>1. Parents(program, 1)
        <3>1. 1 \in Nat /\ 0 \in 0..(1 - 1)
            OBVIOUS
        <3>2. \A k \in 1..1 : program.nodes[k].parent \in 0..(k - 1)
            BY <1>3, <1>4, <1>6, <1>7, <3>1
        <3>3. QED
            BY <3>1, <3>2 DEF Parents
    <2>2. \A k \in 1..1 : program.nodes[k].start <= 0 /\ program.nodes[k].end <= 0
        BY <1>3, <1>4, <1>6, <1>7
    <2>3. QED
        BY <1>3, <1>4, <1>6, <1>7, <2>1, <2>2 DEF TreeInv
<1>9. KindInv(program)
    BY <1>3, <1>4, <1>6, <1>7 DEF KindInv
<1>10. TokenInv(program)
    BY <1>4, <1>6, <1>7 DEF TokenInv
<1>11. OpenInv(program, {1}, at)
    BY <1>2, <1>4, <1>6, <1>7 DEF OpenInv, Chain
<1>12. CatchInv(program, {1}, at)
    BY <1>3, <1>4, <1>6, <1>7 DEF CatchInv
<1>13. SeesInv(program, {1})
    BY <1>4, <1>6, <1>7 DEF SeesInv
<1>14. EnvInv(program, {1}, env)
    BY <1>4, <1>6, <1>7 DEF EnvInv
<1>15. QED
    BY <1>5, <1>8, <1>9, <1>10, <1>11, <1>12, <1>13, <1>14 DEF ScopeInv

-----------------------------------------------------------------------------
(* The steps *)

\* A table is typed when its entries are.
LEMMA SeqOfEntries ==
    ASSUME NEW s, IsSeq(s), \A k \in 1..Len(s) : s[k] \in EntryRec
    PROVE  s \in Seq(EntryRec)
<1>1. PICK R : R = EntryRec
    OBVIOUS
<1>2. s = [i \in 1..Len(s) |-> s[i]] /\ Len(s) \in Nat
    BY DEF IsSeq
<1>3. \A k \in 1..Len(s) : s[k] \in R
    BY <1>1
<1>4. s \in Seq(R)
    BY <1>2, <1>3
<1>5. QED
    BY <1>1, <1>4

\* What is kept of a table is typed.
LEMMA KeptEntries ==
    ASSUME TypeInv, NEW kept, NEW S, Keeping(env, kept, S)
    PROVE  \A k \in 1..Len(kept) : kept[k] \in EntryRec
<1>1. \A k \in 1..Len(env) : env[k] \in EntryRec
    BY ProgramFacts
<1>2. QED
    BY <1>1 DEF Keeping

\* What a step finds.
LEMMA ScopeInvFacts ==
    ASSUME ScopeInv
    PROVE  /\ TypeInv /\ Sound(program)
           /\ \E open : /\ OpenInv(program, open, at) /\ CatchInv(program, open, at)
                        /\ SeesInv(program, open) /\ EnvInv(program, open, env)
<1>1. TypeInv
    BY DEF ScopeInv
<1>2. Sound(program)
    BY <1>1, ProgramFacts DEF ScopeInv, Sound
<1>3. QED
    BY <1>1, <1>2 DEF ScopeInv

\* What the grammar says of a node by what may follow in it.
LEMMA FitsFacts ==
    ASSUME TypeInv, NEW child, Fits(child)
    PROVE  /\ nodes[at].kind = "N_MATCH_TRY" => nodes[at].last # "N_CATCH"
           /\ child = "N_MACRO_NAME" => nodes[at].kind = "N_MACRO"
           /\ child \in {"N_MATCH_TRY_CLAUSE", "N_CATCH"} => nodes[at].kind = "N_MATCH_TRY"
           /\ child = "pattern" => nodes[at].kind \in Clauses
<1>1. nodes[at].kind \in Kinds
    BY ProgramFacts DEF NodeRec
<1>2. MayFollow(nodes[at].kind, nodes[at].last, child)
    BY DEF Fits
<1>3. QED
    BY <1>1, <1>2, Placing

\* The kinds of nodes that are opened.
LEMMA KindFacts ==
    ASSUME NEW kind \in Forms \cup Binders \cup Clauses \cup {"N_CATCH"}
    PROVE  /\ kind \in Kinds /\ kind # "Root" /\ Child(kind) \in Lasts
           /\ kind \in {"N_MACRO_NAME", "N_MATCH_TRY_CLAUSE", "N_CATCH"} => Child(kind) = kind
<1>1. Forms \subseteq AllForms
    BY ScopesAssumption DEF AllForms
<1>2. CASE kind \in Forms
    <2>1. kind \in AllForms
        BY <1>1, <1>2
    <2>2. kind \notin {"N_MACRO_NAME", "N_MATCH_TRY_CLAUSE", "N_CATCH", "Root"}
        BY <2>1 DEF AllForms
    <2>3. QED
        BY <1>2, <2>1, <2>2 DEF Kinds, Child, Lasts
<1>3. CASE kind \notin Forms
    <2>1. kind \in Binders \cup Clauses \cup {"N_CATCH"} /\ Child(kind) = kind
        BY <1>3 DEF Child
    <2>2. kind # "Root"
        BY <2>1 DEF Binders, Clauses, Pairs
    <2>3. QED
        BY <2>1, <2>2 DEF Kinds, Lasts
<1>4. QED
    BY <1>2, <1>3

\* A node opens.
LEMMA OpeningStep ==
    ASSUME ScopeInv, NEW kind \in Forms \cup Binders \cup Clauses \cup {"N_CATCH"}, Open(kind)
    PROVE  ScopeInv'
<1>1. TypeInv /\ Sound(program)
    BY ScopeInvFacts
<1>2. PICK open : /\ OpenInv(program, open, at) /\ CatchInv(program, open, at)
                  /\ SeesInv(program, open) /\ EnvInv(program, open, env)
    BY ScopeInvFacts
<1>3. PICK p, q, n, t, here : /\ p = program /\ q = program' /\ n = Len(nodes) /\ t = Len(tokens) /\ here = at
    OBVIOUS
<1>4. /\ p.nodes = nodes /\ p.tokens = tokens /\ Typed(p) /\ IsSeq(env) /\ here \in 1..n
      /\ n \in Nat /\ t \in Nat /\ nodes[here] \in NodeRec
    BY <1>1, <1>3, ProgramFacts
<1>5. q.nodes = nodes' /\ q.tokens = tokens'
    BY <1>3 DEF program
<1>6. /\ kind \in Kinds /\ kind # "Root" /\ Child(kind) \in Lasts
      /\ kind \in {"N_MACRO_NAME", "N_MATCH_TRY_CLAUSE", "N_CATCH"} => Child(kind) = kind
    BY KindFacts
<1>7. /\ nodes[here].kind = "N_MATCH_TRY" => nodes[here].last # "N_CATCH"
      /\ kind = "N_MACRO_NAME" => nodes[here].kind = "N_MACRO"
      /\ kind \in {"N_MATCH_TRY_CLAUSE", "N_CATCH"} => nodes[here].kind = "N_MATCH_TRY"
    <2>1. Fits(Child(kind))
        BY DEF Open
    <2>2. QED
        BY <1>1, <1>3, <1>6, <2>1, FitsFacts
<1>8. PICK changed, new : changed = [nodes[here] EXCEPT !.last = Child(kind)] /\ new = Node(kind)
    OBVIOUS
<1>9. /\ changed \in NodeRec /\ changed.last = Child(kind) /\ changed.kind = nodes[here].kind
      /\ changed.parent = nodes[here].parent /\ changed.start = nodes[here].start
      /\ changed.end = nodes[here].end
    BY <1>4, <1>6, <1>8, RecordChanges
<1>10. new \in NodeRec /\ new.kind = kind /\ new.parent = here /\ new.start = t /\ new.end = t
    <2>1. here \in Nat /\ "" \in Lasts
        BY <1>4 DEF Lasts
    <2>2. QED
        BY <1>3, <1>4, <1>6, <1>8, <2>1 DEF Node, NodeRec
<1>11. PICK mid : mid = [nodes EXCEPT ![here] = changed]
    OBVIOUS
<1>12. /\ mid \in Seq(NodeRec) /\ Len(mid) = n
       /\ mid[here] = changed /\ \A i \in 1..n : i # here => mid[i] = nodes[i]
    <2>1. nodes \in Seq(NodeRec)
        BY <1>1 DEF TypeInv
    <2>2. QED
        BY <1>3, <1>4, <1>9, <1>11, <2>1, NodeChanges
<1>13. nodes' = Append(mid, new) /\ tokens' = tokens /\ at' = Len(nodes')
    BY <1>3, <1>8, <1>11 DEF Open
<1>14. /\ nodes' \in Seq(NodeRec) /\ Len(nodes') = n + 1
       /\ \A i \in 1..n : nodes'[i] = mid[i]
       /\ nodes'[n + 1] = new
    <2>1. PICK R : R = NodeRec
        OBVIOUS
    <2>2. mid \in Seq(R) /\ new \in R /\ Len(mid) = n
        BY <1>10, <1>12, <2>1
    <2>3. /\ Append(mid, new) \in Seq(R) /\ Len(Append(mid, new)) = n + 1
          /\ \A i \in 1..n : Append(mid, new)[i] = mid[i]
          /\ Append(mid, new)[n + 1] = new
        BY <1>4, <2>2
    <2>4. QED
        BY <1>13, <2>1, <2>3
<1>15. PICK S, kept : /\ kept = env' /\ Keeping(env, kept, S)
                      /\ \A k \in 1..Len(env) :
                            env[k] \in S <=> (kind = "N_CATCH" => env[k].frame # here \/ env[k].outer)
    <2>1. \A k \in 1..Len(env) : env[k] \in EntryRec
        BY <1>1, ProgramFacts
    <2>2. CASE kind # "N_CATCH"
        <3>1. env' = env
            BY <2>2 DEF Open
        <3>2. Keeping(env, env, EntryRec)
            BY <1>4, <2>1, AllKept
        <3>3. QED
            BY <2>1, <2>2, <3>1, <3>2
    <2>3. CASE kind = "N_CATCH"
        <3> DEFINE T == {x \in EntryRec : x.frame # here \/ x.outer}
                   f == [k \in DOMAIN env |-> IF env[k].frame # here \/ env[k].outer THEN <<env[k]>> ELSE <<>>]
        <3>1. env' = FlattenSeq(f)
            BY <1>3, <2>3 DEF Open, Filter
        <3>2. DOMAIN env = 1..Len(env)
            BY <1>4, SeqFacts
        <3>3. \A k \in 1..Len(env) : env[k] \in T <=> env[k].frame # here \/ env[k].outer
            BY <2>1
        <3>4. f = [k \in DOMAIN env |-> f[k]] /\ \A k \in DOMAIN env : f[k] = IF env[k] \in T THEN <<env[k]>> ELSE <<>>
            BY <3>2, <3>3
        <3>5. Keeping(env, FlattenSeq(f), T)
            <4> HIDE DEF f, T
            <4>1. QED
                BY <1>4, <3>4, FilterKeeps
        <3> HIDE DEF f, T
        <3>6. QED
            BY <2>3, <3>1, <3>3, <3>5
    <2>4. QED
        BY <2>2, <2>3
<1>16. TypeInv'
    <2>1. tokens' \in Seq(TokenRec)
        BY <1>1, <1>13 DEF TypeInv
    <2>2. env' \in Seq(EntryRec)
        <3>1. IsSeq(kept) /\ \A k \in 1..Len(kept) : kept[k] \in EntryRec
            <4>1. \A k \in 1..Len(kept) : kept[k] \in EntryRec
                BY <1>1, <1>15, KeptEntries
            <4>2. QED
                BY <1>15, <4>1 DEF Keeping
        <3>2. kept \in Seq(EntryRec)
            BY <3>1, SeqOfEntries
        <3>3. QED
            BY <1>15, <3>2
    <2>3. at' \in 1..Len(nodes')
        BY <1>4, <1>13, <1>14
    <2>4. QED
        BY <1>14, <2>1, <2>2, <2>3 DEF TypeInv
<1>17. Typed(q)
    BY <1>5, <1>16 DEF Typed, TypeInv
<1>18. OpenShape(p, q, here, kind)
    <2>1. ASSUME NEW k \in 1..n
          PROVE  /\ nodes'[k].kind = nodes[k].kind /\ nodes'[k].parent = nodes[k].parent
                 /\ nodes'[k].start = nodes[k].start /\ nodes'[k].end = nodes[k].end
        BY <1>9, <1>12, <1>14
    <2>2. QED
        BY <1>3, <1>4, <1>5, <1>10, <1>13, <1>14, <2>1 DEF OpenShape
<1>19. /\ \A k \in 1..Len(p.nodes) : k # here => q.nodes[k].last = p.nodes[k].last
       /\ kind = "N_CATCH" => q.nodes[here].last = "N_CATCH"
    BY <1>3, <1>4, <1>5, <1>6, <1>9, <1>12, <1>14
<1>20. Sound(p) /\ OpenInv(p, open, here) /\ CatchInv(p, open, here) /\ SeesInv(p, open) /\ EnvInv(p, open, env)
    BY <1>1, <1>2, <1>3
<1>21. PICK left : left = open \cup {Len(p.nodes) + 1}
    OBVIOUS
<1>22. at' = Len(p.nodes) + 1
    BY <1>3, <1>4, <1>13, <1>14
<1>23. here \in open /\ here \in 1..Len(p.nodes)
    BY <1>20 DEF OpenInv
<1>24. Sound(q)
    BY <1>3, <1>4, <1>6, <1>7, <1>17, <1>18, <1>20, <1>23, OpeningIsSound
<1>25. OpenInv(q, left, at')
    BY <1>18, <1>20, <1>21, <1>22, OpeningOpens
<1>26. p.nodes[here].kind = "N_MATCH_TRY" => p.nodes[here].last # "N_CATCH"
    BY <1>4, <1>7
<1>27. CatchInv(q, left, at')
    BY <1>17, <1>18, <1>19, <1>20, <1>21, <1>22, <1>26, OpeningCatches
<1>28. Catches(p, here) = {}
    BY <1>20, <1>26, NotYetCaught
<1>29. Grows(p, q) /\ Keeps(p, open, q, left)
    BY <1>17, <1>18, <1>20, <1>21, <1>23, <1>28, OpeningKeeps
<1>30. SeesInv(q, left)
    <2>1. q.tokens = p.tokens
        BY <1>18 DEF OpenShape
    <2>2. \A i \in 1..Len(p.tokens) : Sees(p, open, i)
        BY <1>20 DEF SeesInv
    <2>3. QED
        BY <1>20, <1>29, <2>1, <2>2, SightStays DEF SeesInv
<1>31. EnvInv(q, left, env')
    <2>1. PICK table : table = env
        OBVIOUS
    <2>2. /\ IsSeq(table) /\ EnvInv(p, open, table) /\ Keeping(table, kept, S)
          /\ \A k \in 1..Len(table) :
                table[k] \in S <=> (kind = "N_CATCH" => table[k].frame # here \/ table[k].outer)
        BY <1>4, <1>15, <1>20, <2>1
    <2>3. EnvInv(q, left, kept)
        BY <1>17, <1>18, <1>20, <1>21, <1>23, <1>28, <2>2, OpeningEnv
    <2>4. QED
        BY <1>15, <2>3
<1>32. /\ Sound(program')
       /\ OpenInv(program', left, at') /\ CatchInv(program', left, at')
       /\ SeesInv(program', left) /\ EnvInv(program', left, env')
    BY <1>3, <1>24, <1>25, <1>27, <1>30, <1>31
<1>33. QED
    BY <1>16, <1>32 DEF ScopeInv, Sound

\* A node closes.
LEMMA ClosingStep == ASSUME ScopeInv, Close PROVE ScopeInv'
<1>1. TypeInv /\ Sound(program)
    BY ScopeInvFacts
<1>2. PICK open : /\ OpenInv(program, open, at) /\ CatchInv(program, open, at)
                  /\ SeesInv(program, open) /\ EnvInv(program, open, env)
    BY ScopeInvFacts
<1>3. PICK p, q, n, t, here : /\ p = program /\ q = program' /\ n = Len(nodes) /\ t = Len(tokens) /\ here = at
    OBVIOUS
<1>4. /\ p.nodes = nodes /\ p.tokens = tokens /\ Typed(p) /\ IsSeq(env) /\ here \in 1..n
      /\ n \in Nat /\ t \in Nat /\ nodes[here] \in NodeRec
    BY <1>1, <1>3, ProgramFacts
<1>5. q.nodes = nodes' /\ q.tokens = tokens'
    BY <1>3 DEF program
<1>6. PICK changed : changed = [nodes[here] EXCEPT !.end = t]
    OBVIOUS
<1>7. /\ changed \in NodeRec /\ changed.last = nodes[here].last /\ changed.kind = nodes[here].kind
      /\ changed.parent = nodes[here].parent /\ changed.start = nodes[here].start
      /\ changed.end = t
    BY <1>4, <1>6, RecordChanges
<1>8. nodes' = [nodes EXCEPT ![here] = changed] /\ tokens' = tokens /\ at' = nodes[here].parent /\ here # 1
    BY <1>3, <1>6 DEF Close
<1>9. /\ nodes' \in Seq(NodeRec) /\ Len(nodes') = n
      /\ nodes'[here] = changed /\ \A i \in 1..n : i # here => nodes'[i] = nodes[i]
    <2>1. PICK s : s = nodes
        OBVIOUS
    <2>2. s \in Seq(NodeRec) /\ here \in 1..Len(s)
        BY <1>1, <1>3, <1>4, <2>1 DEF TypeInv
    <2>3. LET u == [s EXCEPT ![here] = changed]
          IN  /\ u \in Seq(NodeRec) /\ Len(u) = Len(s)
              /\ u[here] = changed /\ \A i \in 1..Len(s) : i # here => u[i] = s[i]
        BY <1>7, <2>2, NodeChanges
    <2>4. QED
        BY <1>3, <1>8, <2>1, <2>3
<1>10. PICK S, kept, new : /\ env' = kept \o new /\ new = MadeBy(p, here) /\ Keeping(env, kept, S)
                           /\ \A k \in 1..Len(env) : env[k] \in S <=> env[k].frame # here
    <2> DEFINE T == {x \in EntryRec : x.frame # here}
               f == [k \in DOMAIN env |-> IF env[k].frame # here THEN <<env[k]>> ELSE <<>>]
    <2>1. env' = FlattenSeq(f) \o MadeBy(p, here)
        BY <1>3 DEF Close, Filter
    <2>2. DOMAIN env = 1..Len(env)
        BY <1>4, SeqFacts
    <2>3. \A k \in 1..Len(env) : env[k] \in T <=> env[k].frame # here
        BY <1>1, ProgramFacts
    <2>4. f = [k \in DOMAIN env |-> f[k]] /\ \A k \in DOMAIN env : f[k] = IF env[k] \in T THEN <<env[k]>> ELSE <<>>
        BY <2>2, <2>3
    <2>5. Keeping(env, FlattenSeq(f), T)
        <3> HIDE DEF f, T
        <3>1. QED
            BY <1>4, <2>4, FilterKeeps
    <2> HIDE DEF f, T
    <2>6. QED
        BY <2>1, <2>3, <2>5
<1>11. Typed(q)
    BY <1>1, <1>5, <1>8, <1>9 DEF Typed, TypeInv
<1>12. CloseShape(p, q, here)
    <2>1. ASSUME NEW k \in 1..n
          PROVE  /\ nodes'[k].kind = nodes[k].kind /\ nodes'[k].parent = nodes[k].parent
                 /\ nodes'[k].start = nodes[k].start
                 /\ nodes'[k].end = IF k = here THEN t ELSE nodes[k].end
        BY <1>7, <1>9
    <2>2. QED
        BY <1>3, <1>4, <1>5, <1>8, <1>9, <2>1 DEF CloseShape
<1>13. \A k \in 1..Len(p.nodes) : q.nodes[k].last = p.nodes[k].last
    BY <1>3, <1>4, <1>5, <1>7, <1>9
<1>14. Sound(p) /\ OpenInv(p, open, here) /\ CatchInv(p, open, here) /\ SeesInv(p, open) /\ EnvInv(p, open, env)
    BY <1>1, <1>2, <1>3
<1>15. PICK left : left = open \ {here}
    OBVIOUS
<1>16. here \in open /\ here \in 1..Len(p.nodes) /\ here # 1
    BY <1>8, <1>14 DEF OpenInv
<1>17. at' = p.nodes[here].parent
    BY <1>4, <1>8
<1>18. Sound(q)
    BY <1>11, <1>12, <1>14, <1>16, ClosingIsSound
<1>19. OpenInv(q, left, at')
    BY <1>12, <1>14, <1>15, <1>16, <1>17, ClosingOpens
<1>20. CatchInv(q, left, at')
    BY <1>11, <1>12, <1>13, <1>14, <1>15, <1>16, <1>17, ClosingCatches
<1>21. Grows(p, q) /\ Keeps(p, open, q, left)
    BY <1>11, <1>12, <1>14, <1>15, <1>16, ClosingKeeps
<1>22. SeesInv(q, left)
    <2>1. q.tokens = p.tokens
        BY <1>12 DEF CloseShape
    <2>2. \A i \in 1..Len(p.tokens) : Sees(p, open, i)
        BY <1>14 DEF SeesInv
    <2>3. QED
        BY <1>14, <1>21, <2>1, <2>2, SightStays DEF SeesInv
<1>23. EnvInv(q, left, env')
    <2>1. PICK table : table = env
        OBVIOUS
    <2>2. /\ IsSeq(table) /\ EnvInv(p, open, table) /\ Keeping(table, kept, S)
          /\ \A k \in 1..Len(table) : table[k] \in S <=> table[k].frame # here
        BY <1>4, <1>10, <1>14, <2>1
    <2>3. EnvInv(q, left, kept \o MadeBy(p, here))
        BY <1>11, <1>12, <1>14, <1>15, <1>16, <2>2, ClosingEnv
    <2>4. QED
        BY <1>10, <2>3
<1>24. env' \in Seq(EntryRec)
    <2>1. \A k \in 1..Len(kept) : kept[k] \in EntryRec
        BY <1>1, <1>10, KeptEntries
    <2>2. IsSeq(kept)
        BY <1>10 DEF Keeping
    <2>3. kept \in Seq(EntryRec)
        BY <2>1, <2>2, SeqOfEntries
    <2>4. /\ IsSeq(new)
          /\ \A k \in 1..Len(new) :
                LET j == new[k].token
                IN  /\ j \in 1..Len(p.tokens) /\ p.tokens[j].role = "l" /\ DeclarerOf(p, j) = here
                    /\ new[k].frame = FrameOf(p, j) /\ new[k].outer = OuterOf(p, j)
        BY <1>4, <1>10, MadeByFacts
    <2>5. ASSUME NEW k \in 1..Len(new) PROVE new[k] \in EntryRec
        <3>1. PICK j : j = new[k].token
            OBVIOUS
        <3>2. j \in 1..Len(p.tokens) /\ p.tokens[j].role # "r" /\ new[k].frame = FrameOf(p, j)
            BY <2>4, <3>1
        <3>3. FrameOf(p, j) \in 1..Len(p.nodes)
            BY <1>14, <1>21, <3>2, PlacesStay
        <3>4. PICK binders : new = [m \in DOMAIN binders |->
                                      [token |-> binders[m], frame |-> Frame(p, p.tokens[binders[m]].node),
                                       outer |-> IsOuter(p, p.tokens[binders[m]].node)]]
            BY <1>10 DEF MadeBy
        <3>5. k \in DOMAIN binders
            <4>1. k \in DOMAIN new
                BY <2>4, SeqFacts
            <4>2. QED
                BY <3>4, <4>1
        <3>6. PICK token, frame, outer : /\ new[k] = [token |-> token, frame |-> frame, outer |-> outer]
                                         /\ outer \in BOOLEAN
            <4>1. IsOuter(p, p.tokens[binders[k]].node) \in BOOLEAN
                BY DEF IsOuter
            <4>2. QED
                BY <3>4, <3>5, <4>1
        <3>7. token \in Nat /\ frame \in Nat
            <4>1. token = j /\ frame = FrameOf(p, j)
                BY <3>1, <3>2, <3>6
            <4>2. Len(p.tokens) \in Nat /\ Len(p.nodes) \in Nat
                BY <1>4, TypedFacts
            <4>3. j \in Nat /\ FrameOf(p, j) \in Nat
                BY <3>2, <3>3, <4>2
            <4>4. QED
                BY <4>1, <4>3
        <3>8. QED
            BY <3>6, <3>7 DEF EntryRec
    <2>6. new \in Seq(EntryRec)
        BY <2>4, <2>5, SeqOfEntries
    <2>7. PICK R : R = EntryRec
        OBVIOUS
    <2>8. kept \o new \in Seq(R)
        BY <2>3, <2>6, <2>7
    <2>9. QED
        BY <1>10, <2>7, <2>8
<1>25. TypeInv'
    <2>1. tokens' \in Seq(TokenRec) /\ nodes' \in Seq(NodeRec)
        BY <1>1, <1>8, <1>9 DEF TypeInv
    <2>2. at' \in 1..Len(nodes')
        BY <1>5, <1>19 DEF OpenInv
    <2>3. QED
        BY <1>24, <2>1, <2>2 DEF TypeInv
<1>26. /\ Sound(program')
       /\ OpenInv(program', left, at') /\ CatchInv(program', left, at')
       /\ SeesInv(program', left) /\ EnvInv(program', left, env')
    BY <1>3, <1>18, <1>19, <1>20, <1>22, <1>23
<1>27. QED
    BY <1>25, <1>26 DEF ScopeInv, Sound

\* What is written refers to the table's last binding of its name.
LEMMA TokenFacts ==
    ASSUME TypeInv, NEW text \in Seq(Name \cup Field), NEW role \in {"l", "r", "l_or_r"}
    PROVE  LET token == Token(text, role)
           IN  /\ token \in TokenRec /\ token.text = text /\ token.role = role /\ token.node = at
               /\ token.recent = Recent(<<text[1]>>)
               /\ IsRecent(program, env, <<text[1]>>, token.recent)
<1>1. at \in Nat
    BY ProgramFacts
<1>2. /\ IsRecent(program, env, <<text[1]>>, Recent(<<text[1]>>))
      /\ Recent(<<text[1]>>) \in Nat \cup {None}
    BY RecentFacts
<1>3. PICK recent : recent = Recent(<<text[1]>>)
    OBVIOUS
<1>4. PICK token : token = Token(text, role)
    OBVIOUS
<1>5. token = [text |-> text, role |-> role, node |-> at, recent |-> recent]
    BY <1>3, <1>4 DEF Token
<1>6. token.text = text /\ token.role = role /\ token.node = at /\ token.recent = recent
    BY <1>5
<1>7. token \in TokenRec
    BY <1>1, <1>2, <1>3, <1>5 DEF TokenRec
<1>8. QED
    BY <1>2, <1>3, <1>4, <1>6, <1>7

\* A step that writes in the innermost node.
LEMMA WritingStep ==
    ASSUME ScopeInv, NEW child, Fits(child), NEW changed \in NodeRec,
           changed.kind = nodes[at].kind, changed.parent = nodes[at].parent,
           changed.start = nodes[at].start, changed.end = nodes[at].end,
           nodes' = [nodes EXCEPT ![at] = changed],
           NEW added \in Seq(TokenRec), tokens' = tokens \o added, at' = at,
           IsAdded(program, at, added),
           \A i \in 1..Len(added) :
               /\ IsRecent(program, env, <<added[i].text[1]>>, added[i].recent)
               /\ i < Len(added) => added[i].role = "r",
           NEW new \in Seq(EntryRec), env' = env \o new,
           \/ /\ new = <<>>
              /\ \A i \in 1..Len(added) : added[i].role \in {"l", "r"} \/ added[i].recent # None
           \/ /\ Len(added) = 1 /\ added[1].role = "l_or_r" /\ added[1].recent = None
              /\ Len(new) = 1 /\ new[1].token = Len(tokens) + 1 /\ new[1].outer = FALSE
              /\ new[1].frame = IF nodes[at].kind = "N_MATCH_CLAUSE" THEN at ELSE nodes[at].parent
    PROVE  ScopeInv'
<1>1. TypeInv /\ Sound(program)
    BY ScopeInvFacts
<1>2. PICK open : /\ OpenInv(program, open, at) /\ CatchInv(program, open, at)
                  /\ SeesInv(program, open) /\ EnvInv(program, open, env)
    BY ScopeInvFacts
<1>3. PICK p, q, n, t, here, table :
          /\ p = program /\ q = program' /\ n = Len(nodes) /\ t = Len(tokens) /\ here = at /\ table = env
    OBVIOUS
<1>4. /\ p.nodes = nodes /\ p.tokens = tokens /\ Typed(p) /\ IsSeq(table) /\ here \in 1..n
      /\ n \in Nat /\ t \in Nat /\ nodes[here] \in NodeRec
    BY <1>1, <1>3, ProgramFacts
<1>5. q.nodes = nodes' /\ q.tokens = p.tokens \o added
    BY <1>3, <1>4 DEF program
<1>6. /\ nodes' \in Seq(NodeRec) /\ Len(nodes') = n
      /\ nodes'[here] = changed /\ \A i \in 1..n : i # here => nodes'[i] = nodes[i]
    <2>1. PICK s : s = nodes
        OBVIOUS
    <2>2. s \in Seq(NodeRec) /\ here \in 1..Len(s)
        BY <1>1, <1>3, <1>4, <2>1 DEF TypeInv
    <2>3. LET u == [s EXCEPT ![here] = changed]
          IN  /\ u \in Seq(NodeRec) /\ Len(u) = Len(s)
              /\ u[here] = changed /\ \A i \in 1..Len(s) : i # here => u[i] = s[i]
        BY <2>2, NodeChanges
    <2>4. nodes' = [s EXCEPT ![here] = changed]
        BY <1>3, <2>1
    <2>5. QED
        BY <1>3, <2>1, <2>3, <2>4
<1>7. TypeInv'
    <2>1. tokens' \in Seq(TokenRec)
        <3>1. PICK R : R = TokenRec
            OBVIOUS
        <3>2. tokens \in Seq(R) /\ added \in Seq(R)
            BY <1>1, <3>1 DEF TypeInv
        <3>3. tokens \o added \in Seq(R)
            BY <3>2
        <3>4. QED
            BY <3>1, <3>3
    <2>2. env' \in Seq(EntryRec)
        <3>1. PICK R : R = EntryRec
            OBVIOUS
        <3>2. env \in Seq(R) /\ new \in Seq(R)
            BY <1>1, <3>1 DEF TypeInv
        <3>3. env \o new \in Seq(R)
            BY <3>2
        <3>4. QED
            BY <3>1, <3>3
    <2>3. at' \in 1..Len(nodes')
        BY <1>3, <1>4, <1>6
    <2>4. QED
        BY <1>6, <2>1, <2>2, <2>3 DEF TypeInv
<1>8. Typed(q)
    BY <1>3, <1>5, <1>7 DEF Typed, TypeInv, program
<1>9. SameNodes(p, q)
    <2>1. ASSUME NEW k \in 1..n
          PROVE  /\ nodes'[k].kind = nodes[k].kind /\ nodes'[k].parent = nodes[k].parent
                 /\ nodes'[k].start = nodes[k].start /\ nodes'[k].end = nodes[k].end
        BY <1>3, <1>6
    <2>2. QED
        BY <1>3, <1>4, <1>5, <1>6, <2>1 DEF SameNodes
<1>10. \A k \in 1..Len(p.nodes) : k # here => q.nodes[k].last = p.nodes[k].last
    BY <1>3, <1>4, <1>5, <1>6
<1>11. p.nodes[here].kind = "N_MATCH_TRY" => p.nodes[here].last # "N_CATCH"
    BY <1>1, <1>3, <1>4, FitsFacts
<1>12. /\ Sound(p) /\ OpenInv(p, open, here) /\ CatchInv(p, open, here) /\ SeesInv(p, open)
       /\ EnvInv(p, open, table) /\ here \in 1..Len(p.nodes) /\ IsAdded(p, here, added)
    BY <1>1, <1>2, <1>3, <1>4
<1>13. OpenInv(q, open, here) /\ CatchInv(q, open, here)
    BY <1>8, <1>9, <1>10, <1>11, <1>12, WritingOpens
<1>14. Sound(q) /\ Len(q.tokens) = Len(p.tokens) + Len(added)
    <2>1. Sound(q)
        BY <1>5, <1>8, <1>9, <1>12, WritingIsSound
    <2>2. Len(q.tokens) = Len(p.tokens) + Len(added)
        BY <1>5, <1>8, <1>9, <1>12, WritingIsSound
    <2>3. QED
        BY <2>1, <2>2
<1>15. \A i \in 1..Len(added) : q.tokens[Len(p.tokens) + i] = added[i]
    BY <1>5, <1>8, <1>9, <1>12, WritingIsSound
<1>16. SeesInv(q, open)
    <2>1. \A i \in 1..Len(added) :
              /\ IsRecent(p, table, <<added[i].text[1]>>, added[i].recent)
              /\ i < Len(added) => added[i].role = "r"
        BY <1>3
    <2>2. QED
        BY <1>4, <1>5, <1>8, <1>9, <1>12, <2>1, WritingSees
<1>17. here \in open /\ q.nodes[here].kind = p.nodes[here].kind /\ q.nodes[here].parent = p.nodes[here].parent
    BY <1>9, <1>12 DEF OpenInv, SameNodes
<1>18. ASSUME NEW i \in 1..Len(added), added[i].role = "l"
       PROVE  DeclarerOf(q, t + i) \in open
    <2>1. q.tokens[t + i] = added[i] /\ added[i].node = here /\ p.nodes[here].kind \in Binders
        BY <1>3, <1>4, <1>12, <1>15, <1>18 DEF IsAdded
    <2>2. here # 1
        BY <1>12, <2>1, BinderFacts DEF Sound
    <2>3. p.nodes[here].parent \in open
        BY <1>12, <1>17, <2>2 DEF OpenInv, Chain
    <2>4. QED
        BY <1>17, <2>1, <2>3 DEF DeclarerOf, Declarer
<1>19. IsOneMore(p, q, open, added, new)
    <2>1. CASE /\ new = <<>>
               /\ \A i \in 1..Len(added) : added[i].role \in {"l", "r"} \/ added[i].recent # None
        <3>1. ASSUME NEW i \in 1..Len(added) PROVE ~Made(q, open, Len(p.tokens) + i)
            <4>1. PICK j : j = Len(p.tokens) + i
                OBVIOUS
            <4>2. q.tokens[j] = added[i]
                BY <1>15, <4>1
            <4>3. added[i].role = "l" => DeclarerOf(q, j) \in open
                BY <1>3, <1>4, <1>18, <4>1
            <4>4. added[i].role # "l_or_r" \/ added[i].recent # None
                BY <2>1
            <4>5. ~Made(q, open, j)
                BY <4>2, <4>3, <4>4 DEF Made
            <4>6. QED
                BY <4>1, <4>5
        <3>2. QED
            BY <2>1, <3>1 DEF IsOneMore
    <2>2. CASE /\ Len(added) = 1 /\ added[1].role = "l_or_r" /\ added[1].recent = None
               /\ Len(new) = 1 /\ new[1].token = Len(tokens) + 1 /\ new[1].outer = FALSE
               /\ new[1].frame = IF nodes[at].kind = "N_MATCH_CLAUSE" THEN at ELSE nodes[at].parent
        <3>1. PICK j : j = Len(p.tokens) + 1
            OBVIOUS
        <3>2. 1 \in 1..Len(added)
            BY <2>2
        <3>3. q.tokens[j] = added[1] /\ added[1].node = here
            BY <1>12, <1>15, <3>1, <3>2 DEF IsAdded
        <3>4. j \in 1..Len(q.tokens)
            BY <1>3, <1>4, <1>14, <2>2, <3>1
        <3>5. ~Over(q, open, j)
            BY <1>13, <1>14, <2>2, <3>3, <3>4, PatternFacts
        <3>6. Made(q, open, j)
            BY <2>2, <3>3 DEF Made
        <3>7. FrameOf(q, j) = IF p.nodes[here].kind = "N_MATCH_CLAUSE" THEN here ELSE p.nodes[here].parent
            BY <1>17, <2>2, <3>3 DEF FrameOf
        <3>8. OuterOf(q, j) = FALSE
            BY <2>2, <3>3 DEF OuterOf
        <3>9. InForce(q, open, j) /\ new[1].frame = FrameOf(q, j) /\ new[1].outer = OuterOf(q, j)
            BY <1>3, <1>4, <2>2, <3>5, <3>6, <3>7, <3>8 DEF InForce
        <3>10. Len(added) = 1 /\ Len(new) = 1 /\ new[1].token = Len(p.tokens) + 1
            BY <1>4, <2>2
        <3>11. QED
            BY <3>1, <3>9, <3>10 DEF IsOneMore
    <2>3. QED
        BY <2>1, <2>2
<1>20. IsSeq(new)
    <2>1. PICK R : R = EntryRec
        OBVIOUS
    <2>2. new \in Seq(R)
        BY <2>1
    <2>3. QED
        BY <2>2 DEF IsSeq
<1>21. EnvInv(q, open, table \o new)
    BY <1>4, <1>5, <1>8, <1>9, <1>12, <1>19, <1>20, WritingEnv
<1>22. /\ Sound(program')
       /\ OpenInv(program', open, at') /\ CatchInv(program', open, at')
       /\ SeesInv(program', open) /\ EnvInv(program', open, env')
    BY <1>3, <1>13, <1>14, <1>16, <1>21
<1>23. QED
    BY <1>7, <1>22 DEF ScopeInv, Sound

\* What a step may write.
IsWritten(added) ==
    /\ added \in Seq(TokenRec) /\ IsAdded(program, at, added)
    /\ \A i \in 1..Len(added) :
           /\ IsRecent(program, env, <<added[i].text[1]>>, added[i].recent)
           /\ i < Len(added) => added[i].role = "r"

\* A literal.
LEMMA NothingWritten == IsWritten(<<>>)
<1>1. IsSeq(<<>>) /\ Len(<<>>) = 0 /\ <<>> \in Seq(TokenRec) /\ \A i \in 1..0 : FALSE
    BY Tuples
<1>2. QED
    BY <1>1 DEF IsWritten, IsAdded

\* A name.
LEMMA NameWritten ==
    ASSUME TypeInv, NEW name \in Name, NEW role \in {"l", "r", "l_or_r"},
           role = "l" => nodes[at].kind \in Binders, role = "l_or_r" => nodes[at].kind \in Clauses
    PROVE  /\ IsWritten(<<Token(<<name>>, role)>>) /\ Token(<<name>>, role) \in TokenRec
           /\ Token(<<name>>, role).role = role /\ Token(<<name>>, role).recent = Recent(<<name>>)
<1>1. PICK text, token, added : text = <<name>> /\ token = Token(text, role) /\ added = <<token>>
    OBVIOUS
<1>2. text \in Seq(Name \cup Field) /\ text[1] = name /\ text = <<text[1]>>
    BY <1>1
<1>3. /\ token \in TokenRec /\ token.text = text /\ token.role = role /\ token.node = at
      /\ token.recent = Recent(<<text[1]>>)
      /\ IsRecent(program, env, <<text[1]>>, token.recent)
    BY <1>1, <1>2, TokenFacts
<1>4. IsSeq(added)
    BY <1>1, Tuples
<1>5. Len(added) = 1 /\ added[1] = token /\ \A i \in 1..1 : i = 1
    BY <1>1
<1>6. added \in Seq(TokenRec)
    <2>1. PICK R : R = TokenRec
        OBVIOUS
    <2>2. added \in Seq(R)
        BY <1>1, <1>3, <2>1
    <2>3. QED
        BY <2>1, <2>2
<1>7. program.nodes = nodes
    BY ProgramFacts
<1>8. IsAdded(program, at, added)
    BY <1>2, <1>3, <1>4, <1>5, <1>7 DEF IsAdded
<1>9. IsWritten(added)
    BY <1>3, <1>5, <1>6, <1>8 DEF IsWritten
<1>10. QED
    BY <1>1, <1>2, <1>3, <1>9

\* A name and a field of it.
LEMMA FieldWritten ==
    ASSUME TypeInv, NEW name \in Name, NEW field \in Field
    PROVE  LET added == <<Token(<<name>>, "r"), Token(<<name, field>>, "r")>>
           IN  /\ IsWritten(added)
               /\ \A i \in 1..Len(added) : added[i].role \in {"l", "r"} \/ added[i].recent # None
<1>1. PICK text, more, token, next, added :
          /\ text = <<name>> /\ more = <<name, field>> /\ token = Token(text, "r") /\ next = Token(more, "r")
          /\ added = <<token, next>>
    OBVIOUS
<1>2. /\ text \in Seq(Name \cup Field) /\ text[1] = name /\ text = <<text[1]>>
      /\ more \in Seq(Name \cup Field) /\ more[1] = name /\ text = <<more[1]>>
    BY <1>1
<1>3. /\ token \in TokenRec /\ token.text = text /\ token.role = "r" /\ token.node = at
      /\ IsRecent(program, env, <<text[1]>>, token.recent)
    BY <1>1, <1>2, TokenFacts
<1>4. /\ next \in TokenRec /\ next.text = more /\ next.role = "r" /\ next.node = at
      /\ IsRecent(program, env, <<more[1]>>, next.recent)
    BY <1>1, <1>2, TokenFacts
<1>5. IsSeq(added)
    BY <1>1, Tuples
<1>6. Len(added) = 2 /\ added[1] = token /\ added[2] = next /\ \A i \in 1..2 : i = 1 \/ i = 2
    BY <1>1
<1>7. added \in Seq(TokenRec)
    <2>1. PICK R : R = TokenRec
        OBVIOUS
    <2>2. added \in Seq(R)
        BY <1>1, <1>3, <1>4, <2>1
    <2>3. QED
        BY <2>1, <2>2
<1>8. IsAdded(program, at, added)
    <2>1. ASSUME NEW i \in 1..2
          PROVE  /\ added[i].node = at
                 /\ added[i].role = "r"
                 /\ \/ added[i].text = <<added[i].text[1]>>
                    \/ /\ added[i].role = "r" /\ i > 1
                       /\ added[i - 1].role = "r" /\ added[i - 1].text = <<added[i].text[1]>>
        <3>1. CASE i = 1
            BY <1>2, <1>3, <1>6, <3>1
        <3>2. CASE i = 2
            <4>1. i - 1 = 1 /\ i > 1
                BY <3>2
            <4>2. QED
                BY <1>2, <1>3, <1>4, <1>6, <3>2, <4>1
        <3>3. QED
            BY <1>6, <3>1, <3>2
    <2>2. QED
        BY <1>5, <1>6, <2>1 DEF IsAdded
<1>9. \A i \in 1..2 : /\ IsRecent(program, env, <<added[i].text[1]>>, added[i].recent)
                      /\ added[i].role = "r"
    BY <1>3, <1>4, <1>6
<1>10. IsWritten(added)
    BY <1>6, <1>7, <1>8, <1>9 DEF IsWritten
<1>11. QED
    BY <1>1, <1>6, <1>9, <1>10

\* Writing without a change of the table.
LEMMA PlainStep ==
    ASSUME ScopeInv, NEW child, Fits(child), NEW changed \in NodeRec,
           changed.kind = nodes[at].kind, changed.parent = nodes[at].parent,
           changed.start = nodes[at].start, changed.end = nodes[at].end,
           nodes' = [nodes EXCEPT ![at] = changed],
           NEW added, IsWritten(added), tokens' = tokens \o added, at' = at, env' = env,
           \A i \in 1..Len(added) : added[i].role \in {"l", "r"} \/ added[i].recent # None
    PROVE  ScopeInv'
<1>1. PICK new : new = <<>>
    OBVIOUS
<1>2. new \in Seq(EntryRec)
    BY <1>1
<1>3. env' = env \o new
    <2>1. IsSeq(env)
        BY ScopeInvFacts, ProgramFacts
    <2>2. env \o <<>> = env
        BY <2>1, NothingJoins
    <2>3. QED
        BY <1>1, <2>2
<1>4. /\ added \in Seq(TokenRec) /\ IsAdded(program, at, added)
      /\ \A i \in 1..Len(added) :
             /\ IsRecent(program, env, <<added[i].text[1]>>, added[i].recent)
             /\ i < Len(added) => added[i].role = "r"
    BY DEF IsWritten
<1>5. QED
    BY <1>1, <1>2, <1>3, <1>4, WritingStep

\* A node of which a part has been written.
LEMMA LastChanges ==
    ASSUME TypeInv, NEW child \in Lasts
    PROVE  LET changed == [nodes[at] EXCEPT !.last = child]
           IN  /\ changed \in NodeRec
               /\ changed.kind = nodes[at].kind /\ changed.parent = nodes[at].parent
               /\ changed.start = nodes[at].start /\ changed.end = nodes[at].end
               /\ [nodes EXCEPT ![at].last = child] = [nodes EXCEPT ![at] = changed]
<1>1. PICK node : node = nodes[at]
    OBVIOUS
<1>2. node \in NodeRec
    BY <1>1, ProgramFacts
<1>3. LET new == [node EXCEPT !.last = child]
      IN  /\ new \in NodeRec /\ new.last = child
          /\ new.kind = node.kind /\ new.parent = node.parent /\ new.start = node.start
          /\ new.end = node.end
    BY <1>2, RecordChanges
<1>4. QED
    BY <1>1, <1>3

\* Writing that binds nothing yet.
LEMMA WriteStep ==
    ASSUME ScopeInv, NEW child \in Lasts, NEW added, Write(child, added), IsWritten(added), env' = env,
           \A i \in 1..Len(added) : added[i].role \in {"l", "r"} \/ added[i].recent # None
    PROVE  ScopeInv'
<1>1. TypeInv
    BY ScopeInvFacts
<1>2. PICK changed : /\ changed = [nodes[at] EXCEPT !.last = child]
                     /\ [nodes EXCEPT ![at].last = child] = [nodes EXCEPT ![at] = changed]
    BY <1>1, LastChanges
<1>3. /\ changed \in NodeRec
      /\ changed.kind = nodes[at].kind /\ changed.parent = nodes[at].parent
      /\ changed.start = nodes[at].start /\ changed.end = nodes[at].end
    BY <1>1, <1>2, LastChanges
<1>4. Fits(child) /\ nodes' = [nodes EXCEPT ![at] = changed] /\ tokens' = tokens \o added /\ at' = at
    BY <1>2 DEF Write
<1>5. QED
    BY <1>3, <1>4, PlainStep

\* A literal is written.
LEMMA LiteralStep == ASSUME ScopeInv, Literal PROVE ScopeInv'
<1>1. IsWritten(<<>>) /\ \A i \in 1..Len(<<>>) : FALSE
    BY NothingWritten
<1>2. PICK child \in {"form", "pattern"} : Write(child, <<>>)
    BY DEF Literal
<1>3. child \in Lasts /\ env' = env
    BY DEF Lasts, Literal
<1>4. PICK added : added = <<>>
    OBVIOUS
<1>5. IsWritten(added) /\ Write(child, added) /\ \A i \in 1..Len(added) : FALSE
    BY <1>1, <1>2, <1>4
<1>6. QED
    BY <1>3, <1>5, WriteStep

\* One token in a row.
LEMMA OneToken ==
    ASSUME NEW token
    PROVE  Len(<<token>>) = 1 /\ <<token>>[1] = token /\ \A i \in 1..Len(<<token>>) : <<token>>[i] = token
OBVIOUS

\* A name is used.
LEMMA UseStep == ASSUME ScopeInv, NEW name \in Name, Use(name) PROVE ScopeInv'
<1>1. PICK token, added : token = Token(<<name>>, "r") /\ added = <<token>>
    OBVIOUS
<1>2. TypeInv
    BY ScopeInvFacts
<1>3. IsWritten(added) /\ token.role = "r"
    BY <1>1, <1>2, NameWritten
<1>4. \A i \in 1..Len(added) : added[i].role \in {"l", "r"}
    BY <1>1, <1>3, OneToken
<1>5. Write("form", added) /\ env' = env /\ "form" \in Lasts
    BY <1>1 DEF Use, Lasts
<1>6. QED
    BY <1>3, <1>4, <1>5, WriteStep

\* A name's field is used.
LEMMA UseFieldStep ==
    ASSUME ScopeInv, NEW name \in Name, NEW field \in Field, UseField(name, field)
    PROVE  ScopeInv'
<1>1. PICK added : added = <<Token(<<name>>, "r"), Token(<<name, field>>, "r")>>
    OBVIOUS
<1>2. TypeInv
    BY ScopeInvFacts
<1>3. IsWritten(added) /\ \A i \in 1..Len(added) : added[i].role \in {"l", "r"} \/ added[i].recent # None
    BY <1>1, <1>2, FieldWritten
<1>4. Write("form", added) /\ env' = env /\ "form" \in Lasts
    BY <1>1 DEF UseField, Lasts
<1>5. QED
    BY <1>3, <1>4, WriteStep

\* A name is given; it binds when its declarer closes.
LEMMA BindStep == ASSUME ScopeInv, NEW name \in Name, Bind(name) PROVE ScopeInv'
<1>1. PICK token, added : token = Token(<<name>>, "l") /\ added = <<token>>
    OBVIOUS
<1>2. TypeInv /\ nodes[at].kind \in Binders
    BY ScopeInvFacts DEF Bind
<1>3. IsWritten(added) /\ token.role = "l"
    BY <1>1, <1>2, NameWritten
<1>4. \A i \in 1..Len(added) : added[i].role \in {"l", "r"}
    BY <1>1, <1>3, OneToken
<1>5. Write("binder", added) /\ env' = env /\ "binder" \in Lasts
    BY <1>1 DEF Bind, Lasts
<1>6. QED
    BY <1>3, <1>4, <1>5, WriteStep

\* A name is taken from what is required.
LEMMA DestructStep == ASSUME ScopeInv, NEW name \in Name, Destruct(name) PROVE ScopeInv'
<1>1. PICK token, added : token = Token(<<name>>, "l") /\ added = <<token>>
    OBVIOUS
<1>2. TypeInv /\ nodes[at].kind \in Binders
    BY ScopeInvFacts DEF Destruct, Binders, Pairs
<1>3. IsWritten(added) /\ token.role = "l"
    BY <1>1, <1>2, NameWritten
<1>4. \A i \in 1..Len(added) : added[i].role \in {"l", "r"}
    BY <1>1, <1>3, OneToken
<1>5. PICK node : node = nodes[at]
    OBVIOUS
<1>6. node \in NodeRec /\ "binder" \in Lasts
    BY <1>2, <1>5, ProgramFacts DEF Lasts
<1>7. PICK changed : changed = [node EXCEPT !.last = "binder", !.destructs = TRUE]
    OBVIOUS
<1>8. /\ changed \in NodeRec
      /\ changed.kind = nodes[at].kind /\ changed.parent = nodes[at].parent
      /\ changed.start = nodes[at].start /\ changed.end = nodes[at].end
    <2>1. LET new == [node EXCEPT !.last = "binder", !.destructs = TRUE]
          IN  /\ new \in NodeRec /\ new.kind = node.kind /\ new.parent = node.parent
              /\ new.start = node.start /\ new.end = node.end
        BY <1>6, RecordChanges
    <2>2. QED
        BY <1>5, <1>7, <2>1
<1>9. nodes' = [nodes EXCEPT ![at] = changed]
    BY <1>5, <1>7 DEF Destruct
<1>10. tokens' = tokens \o added
    <2>1. tokens' = Append(tokens, token) /\ tokens \in Seq(TokenRec) /\ token \in TokenRec
        BY <1>1, <1>2, NameWritten DEF Destruct, TypeInv
    <2>2. PICK R, s : R = TokenRec /\ s = tokens
        OBVIOUS
    <2>3. s \in Seq(R) /\ token \in R
        BY <2>1, <2>2
    <2>4. Append(s, token) = s \o <<token>>
        BY <2>3
    <2>5. QED
        BY <1>1, <2>1, <2>2, <2>4
<1>11. Fits("binder") /\ at' = at /\ env' = env
    BY DEF Destruct
<1>12. QED
    BY <1>3, <1>4, <1>8, <1>9, <1>10, <1>11, PlainStep

\* A module is required.
LEMMA RequireStep == ASSUME ScopeInv, NEW module \in Module, Require(module) PROVE ScopeInv'
<1>1. TypeInv
    BY ScopeInvFacts
<1>2. PICK added : added = <<>>
    OBVIOUS
<1>3. IsWritten(added) /\ \A i \in 1..Len(added) : FALSE
    BY <1>2, NothingWritten
<1>4. PICK node : node = nodes[at]
    OBVIOUS
<1>5. node \in NodeRec /\ "form" \in Lasts
    BY <1>1, <1>4, ProgramFacts DEF Lasts
<1>6. PICK changed : changed = [node EXCEPT !.last = "form", !.require = module]
    OBVIOUS
<1>7. /\ changed \in NodeRec
      /\ changed.kind = nodes[at].kind /\ changed.parent = nodes[at].parent
      /\ changed.start = nodes[at].start /\ changed.end = nodes[at].end
    <2>1. LET new == [node EXCEPT !.last = "form", !.require = module]
          IN  /\ new \in NodeRec /\ new.kind = node.kind /\ new.parent = node.parent
              /\ new.start = node.start /\ new.end = node.end
        BY <1>5 DEF NodeRec
    <2>2. QED
        BY <1>4, <1>6, <2>1
<1>8. nodes' = [nodes EXCEPT ![at] = changed]
    BY <1>4, <1>6 DEF Require
<1>9. tokens' = tokens \o added
    <2>1. IsSeq(tokens)
        BY <1>1, ProgramFacts, TypedFacts
    <2>2. tokens \o <<>> = tokens
        BY <2>1, NothingJoins
    <2>3. QED
        BY <1>2, <2>2 DEF Require
<1>10. Fits("form") /\ at' = at /\ env' = env
    BY DEF Require
<1>11. QED
    BY <1>3, <1>7, <1>8, <1>9, <1>10, PlainStep

\* A name in a pattern, which binds at once unless it is bound.
LEMMA MatchStep == ASSUME ScopeInv, NEW name \in Name, Match(name) PROVE ScopeInv'
<1>1. PICK token, added : token = Token(<<name>>, "l_or_r") /\ added = <<token>>
    OBVIOUS
<1>2. TypeInv
    BY ScopeInvFacts
<1>3. Write("pattern", added) /\ "pattern" \in Lasts /\ Fits("pattern")
    BY <1>1 DEF Match, Lasts, Write
<1>4. nodes[at].kind \in Clauses
    BY <1>2, <1>3, FitsFacts
<1>5. IsWritten(added) /\ token.role = "l_or_r" /\ token.recent = Recent(<<name>>)
    BY <1>1, <1>2, <1>4, NameWritten
<1>6. Len(added) = 1 /\ added[1] = token /\ \A i \in 1..Len(added) : added[i] = token
    BY <1>1, OneToken
<1>7. CASE Recent(<<name>>) # None
    <2>1. env' = env /\ \A i \in 1..Len(added) : added[i].recent # None
        BY <1>5, <1>6, <1>7 DEF Match
    <2>2. QED
        BY <1>3, <1>5, <2>1, WriteStep
<1>8. CASE Recent(<<name>>) = None
    <2>1. PICK changed : /\ changed = [nodes[at] EXCEPT !.last = "pattern"]
                         /\ [nodes EXCEPT ![at].last = "pattern"] = [nodes EXCEPT ![at] = changed]
        BY <1>2, <1>3, LastChanges
    <2>2. /\ changed \in NodeRec
          /\ changed.kind = nodes[at].kind /\ changed.parent = nodes[at].parent
          /\ changed.start = nodes[at].start /\ changed.end = nodes[at].end
        BY <1>2, <1>3, <2>1, LastChanges
    <2>3. nodes' = [nodes EXCEPT ![at] = changed] /\ tokens' = tokens \o added /\ at' = at
        BY <1>3, <2>1 DEF Write
    <2>4. PICK frame, entry, new :
              /\ frame = IF nodes[at].kind = "N_MATCH_CLAUSE" THEN at ELSE nodes[at].parent
              /\ entry = [token |-> Len(tokens'), outer |-> FALSE, frame |-> frame] /\ new = <<entry>>
        OBVIOUS
    <2>5. Len(tokens) \in Nat /\ frame \in Nat
        BY <1>2, <2>4, ProgramFacts DEF NodeRec
    <2>6. Len(tokens') = Len(tokens) + 1
        <3>1. IsSeq(tokens) /\ IsSeq(added)
            BY <1>1, <1>2, Tuples, ProgramFacts, TypedFacts
        <3>2. Len(tokens \o added) = Len(tokens) + Len(added)
            BY <3>1, ConcatFacts
        <3>3. QED
            BY <1>6, <2>3, <3>2
    <2>7. entry \in EntryRec /\ entry.token = Len(tokens) + 1 /\ entry.outer = FALSE /\ entry.frame = frame
        <3>1. Len(tokens') \in Nat
            BY <2>5, <2>6
        <3>2. entry \in EntryRec
            BY <2>4, <2>5, <3>1 DEF EntryRec
        <3>3. QED
            BY <2>4, <2>6, <3>2
    <2>8. PICK R, table : R = EntryRec /\ table = env
        OBVIOUS
    <2>9. table \in Seq(R) /\ entry \in R
        BY <1>2, <2>7, <2>8 DEF TypeInv
    <2>10. env' = env \o new
        <3>1. env' = Append(table, entry)
            BY <1>8, <2>4, <2>8 DEF Match
        <3>2. Append(table, entry) = table \o <<entry>>
            BY <2>9
        <3>3. QED
            BY <2>4, <2>8, <3>1, <3>2
    <2>11. new \in Seq(EntryRec) /\ Len(new) = 1 /\ new[1] = entry
        <3>1. <<entry>> \in Seq(R)
            BY <2>9
        <3>2. QED
            BY <2>4, <2>8, <3>1
    <2>12. /\ added \in Seq(TokenRec) /\ IsAdded(program, at, added)
           /\ \A i \in 1..Len(added) :
                  /\ IsRecent(program, env, <<added[i].text[1]>>, added[i].recent)
                  /\ i < Len(added) => added[i].role = "r"
        BY <1>5 DEF IsWritten
    <2>13. /\ Len(added) = 1 /\ added[1].role = "l_or_r" /\ added[1].recent = None
           /\ Len(new) = 1 /\ new[1].token = Len(tokens) + 1 /\ new[1].outer = FALSE
           /\ new[1].frame = IF nodes[at].kind = "N_MATCH_CLAUSE" THEN at ELSE nodes[at].parent
        BY <1>5, <1>6, <1>8, <2>4, <2>7, <2>11
    <2>14. QED
        BY <1>3, <2>2, <2>3, <2>10, <2>11, <2>12, <2>13, WritingStep
<1>9. QED
    BY <1>7, <1>8

\* Nothing that ScopeInv speaks of changes.
LEMMA StillStep == ASSUME ScopeInv, UNCHANGED written PROVE ScopeInv'
<1>1. nodes' = nodes /\ tokens' = tokens /\ at' = at /\ env' = env
    BY DEF written
<1>2. program' = program
    BY <1>1 DEF program
<1>3. QED
    BY <1>1, <1>2 DEF ScopeInv, TypeInv

\* Every step of the writer.
LEMMA TypingKeeps == ASSUME ScopeInv, [Typing]_written PROVE ScopeInv'
<1>1. CASE UNCHANGED written
    BY <1>1, StillStep
<1>2. CASE Typing
    <2>1. CASE \E kind \in Forms \cup Binders \cup Clauses \cup {"N_CATCH"} : Open(kind)
        BY <2>1, OpeningStep
    <2>2. CASE Close
        BY <2>2, ClosingStep
    <2>3. CASE Literal
        BY <2>3, LiteralStep
    <2>4. CASE \E name \in Name : Bind(name) \/ Destruct(name) \/ Use(name) \/ Match(name)
        BY <2>4, BindStep, DestructStep, UseStep, MatchStep
    <2>5. CASE \E name \in Name : \E field \in Field : UseField(name, field)
        BY <2>5, UseFieldStep
    <2>6. CASE \E module \in Module : Require(module)
        BY <2>6, RequireStep
    <2>7. QED
        BY <1>2, <2>1, <2>2, <2>3, <2>4, <2>5, <2>6 DEF Typing
<1>3. QED
    BY <1>1, <1>2

\* The table of symbols holds what is in force, every token has seen the binding of its
\* name that was made last, and the tree under way has its shape: ScopeInv holds throughout.
THEOREM EnvIsInForce == Writing => []ScopeInv
<1>1. Init => ScopeInv
    BY Starting
<1>2. ScopeInv /\ [Typing]_written => ScopeInv'
    BY TypingKeeps
<1>3. QED
    BY <1>1, <1>2, PTL DEF Writing

-----------------------------------------------------------------------------
(* The tables of a finished program *)

BindSym(p, i) ==
    [token |-> i, text |-> p.tokens[i].text, scope |-> scope_range(p, p.tokens[i].node),
     global |-> p.nodes[p.nodes[p.tokens[i].node].parent].kind = "N_GLOBAL"]
PatSym(p, i) ==
    [token |-> i, text |-> p.tokens[i].text, global |-> FALSE,
     scope |-> [start |-> i, end |-> PatternEnd(p, p.tokens[i].node)]]
SymOf(p, i) == IF p.tokens[i].role = "l" THEN BindSym(p, i) ELSE PatSym(p, i)

\* Only the root is open.
Done(p, j) == Made(p, {1}, j)

\* Where a node ends in a finished program.
LEMMA EndFacts ==
    ASSUME NEW p, Sound(p), NEW n \in 1..Len(p.nodes)
    PROVE  End(p, n) \in Nat /\ End(p, n) = IF n = 1 THEN Len(p.tokens) ELSE p.nodes[n].end
<1>1. p.nodes[n].end \in Nat /\ Len(p.tokens) \in Nat /\ Len(p.nodes) \in Nat
    BY TypedFacts DEF Sound
<1>2. p.nodes[1].kind = "Root" /\ \A k \in 2..Len(p.nodes) : p.nodes[k].kind # "Root"
    BY DEF Sound, TreeInv
<1>3. n # 1 => n \in 2..Len(p.nodes)
    BY <1>1
<1>4. QED
    BY <1>1, <1>2, <1>3 DEF End

\* Where the scope around a node ends: at its catch, if it has one.
LEMMA CurrentEndFacts ==
    ASSUME NEW p, Sound(p), NEW n \in 1..Len(p.nodes), NEW scope \in 1..Len(p.nodes), scope = ScopesOf(p, n)[1]
    PROVE  /\ CurrentEnd(p, n) \in Nat
           /\ Catches(p, scope) = {} => CurrentEnd(p, n) = End(p, scope)
           /\ Catches(p, scope) # {} =>
                 CurrentEnd(p, n) = p.nodes[CHOOSE c \in Catches(p, scope) : TRUE].start
<1>1. CASE Catches(p, scope) = {}
    <2>1. CurrentEnd(p, n) = End(p, scope)
        BY <1>1 DEF CurrentEnd
    <2>2. QED
        BY <1>1, <2>1, EndFacts
<1>2. CASE Catches(p, scope) # {}
    <2>1. PICK c : c = CHOOSE d : d \in Catches(p, scope) /\ TRUE
        OBVIOUS
    <2>2. c \in Catches(p, scope)
        BY <1>2, <2>1
    <2>3. (CHOOSE d \in Catches(p, scope) : TRUE) \in Catches(p, scope)
        BY <1>2
    <2>4. CurrentEnd(p, n) = p.nodes[CHOOSE d \in Catches(p, scope) : TRUE].start
        BY <1>2 DEF CurrentEnd
    <2>5. \A d \in Catches(p, scope) : p.nodes[d].start \in Nat
        BY CatchesAreNodes, TypedFacts DEF Sound
    <2>6. QED
        BY <1>2, <2>3, <2>4, <2>5
<1>3. QED
    BY <1>1, <1>2

\* The ends of the ranges in the tables are where the bindings stop being in force.
LEMMA ScopeEnds ==
    ASSUME NEW p, Sound(p), NEW j \in 1..Len(p.tokens), p.tokens[j].role # "r", NEW end,
           end = IF p.tokens[j].role = "l" THEN ScopeEnd(p, p.tokens[j].node)
                 ELSE PatternEnd(p, p.tokens[j].node)
    PROVE  /\ end \in Nat
           /\ \A i \in 1..Len(p.tokens) : i <= end <=> (Over(p, {1}, j) => i <= To(p, j))
<1>0. Typed(p) /\ TreeInv(p) /\ KindInv(p) /\ TokenInv(p)
    BY DEF Sound
<1>1. PICK n, t, k : n = Len(p.nodes) /\ t = Len(p.tokens) /\ k = p.tokens[j].node
    OBVIOUS
<1>2. n \in Nat /\ t \in Nat /\ p.tokens[j].role \in {"l", "l_or_r"}
    BY <1>0, <1>1, TypedFacts
<1>3. k \in 1..n /\ p.nodes[k].kind \in Binders \cup Clauses
    BY <1>0, <1>1, <1>2 DEF TokenInv
<1>4. k # 1 /\ p.nodes[k].parent \in 1..(k - 1) /\ p.nodes[k].kind \notin ScopeAst
    BY <1>0, <1>1, <1>3, BinderFacts
<1>5. PICK f : f = FrameOf(p, j)
    OBVIOUS
<1>6. \A i \in 1..t : i <= t
    BY <1>2
<1>7. PICK s : s = ScopesOf(p, k)
    OBVIOUS
<1>8. IsSeq(s) /\ Len(s) \in Nat \ {0} /\ \A i \in 1..Len(s) : s[i] \in 1..k
    BY <1>0, <1>1, <1>3, <1>7, TreeScopes
<1>9. s[1] \in 1..n
    <2>1. 1 \in 1..Len(s)
        BY <1>8
    <2>2. s[1] \in 1..k
        BY <1>8, <2>1
    <2>3. QED
        BY <1>2, <1>3, <2>2
<1>10. CASE p.tokens[j].role = "l"
    <2>1. end = ScopeEnd(p, k) /\ f = Frame(p, k)
        BY <1>1, <1>5, <1>10 DEF FrameOf
    <2>2. Caught(p, j) <=> ~IsOuter(p, k) /\ Catches(p, f) # {}
        BY <1>1, <1>5, <1>10 DEF Caught, OuterOf
    <2>3. f \in 1..n
        <3>1. Frame(p, k) \in 1..k
            BY <1>0, <1>1, <1>3, FrameFacts
        <3>2. QED
            BY <1>2, <1>3, <2>1, <3>1
    <2>4. End(p, f) \in Nat /\ End(p, f) = IF f = 1 THEN t ELSE p.nodes[f].end
        BY <1>1, <2>3, EndFacts
    <2>5. CASE IsOuter(p, k)
        <3>1. end = End(p, f) /\ ~Caught(p, j)
            BY <2>1, <2>2, <2>5 DEF ScopeEnd
        <3>2. Over(p, {1}, j) <=> f # 1
            BY <1>5, <3>1 DEF Over
        <3>3. To(p, j) = p.nodes[f].end
            BY <1>5, <3>1 DEF To
        <3>4. QED
            BY <1>1, <1>6, <2>4, <3>1, <3>2, <3>3
    <2>6. CASE ~IsOuter(p, k)
        <3>1. end = CurrentEnd(p, k) /\ f = s[1]
            BY <1>7, <2>1, <2>6 DEF ScopeEnd, Frame
        <3>2. /\ CurrentEnd(p, k) \in Nat
              /\ Catches(p, f) = {} => CurrentEnd(p, k) = End(p, f)
              /\ Catches(p, f) # {} =>
                    CurrentEnd(p, k) = p.nodes[CHOOSE c \in Catches(p, f) : TRUE].start
            BY <1>1, <1>3, <1>7, <2>3, <3>1, CurrentEndFacts
        <3>3. CASE Catches(p, f) = {}
            <4>1. ~Caught(p, j) /\ end = End(p, f)
                BY <2>2, <3>1, <3>2, <3>3
            <4>2. Over(p, {1}, j) <=> f # 1
                BY <1>5, <4>1 DEF Over
            <4>3. To(p, j) = p.nodes[f].end
                BY <1>5, <4>1 DEF To
            <4>4. QED
                BY <1>1, <1>6, <2>4, <4>1, <4>2, <4>3
        <3>4. CASE Catches(p, f) # {}
            <4>1. Caught(p, j)
                BY <2>2, <2>6, <3>4
            <4>2. Over(p, {1}, j) /\ To(p, j) = p.nodes[CHOOSE c \in Catches(p, f) : TRUE].start
                BY <1>5, <4>1 DEF Over, To
            <4>3. QED
                BY <3>1, <3>2, <3>4, <4>2
        <3>5. QED
            BY <3>3, <3>4
    <2>7. QED
        BY <2>5, <2>6
<1>11. CASE p.tokens[j].role = "l_or_r"
    <2>1. end = PatternEnd(p, k)
        BY <1>1, <1>11
    <2>2. p.nodes[k].kind \in Clauses
        BY <1>0, <1>1, <1>11 DEF TokenInv
    <2>3. ~OuterOf(p, j) /\ f = IF p.nodes[k].kind = "N_MATCH_CLAUSE" THEN k ELSE p.nodes[k].parent
        BY <1>1, <1>5, <1>11 DEF OuterOf, FrameOf
    <2>4. CASE p.nodes[k].kind = "N_MATCH_CLAUSE"
        <3>1. f = k /\ end = End(p, k)
            BY <2>1, <2>3, <2>4 DEF PatternEnd
        <3>2. End(p, k) = p.nodes[k].end /\ End(p, k) \in Nat
            BY <1>1, <1>3, <1>4, EndFacts
        <3>3. Catches(p, k) = {}
            <4>1. ASSUME NEW c \in Catches(p, k) PROVE FALSE
                <5>1. c \in 1..n /\ p.nodes[c].kind = "N_CATCH" /\ p.nodes[c].parent = k
                    BY <1>0, <1>1, <4>1, CatchesAreNodes DEF Catches
                <5>2. p.nodes[k].kind = "N_MATCH_TRY"
                    BY <1>0, <1>1, <5>1 DEF KindInv
                <5>3. QED
                    BY <2>4, <5>2
            <4>2. QED
                BY <4>1
        <3>4. ~Caught(p, j)
            BY <1>5, <3>1, <3>3 DEF Caught
        <3>5. Over(p, {1}, j) /\ To(p, j) = p.nodes[k].end
            BY <1>4, <1>5, <3>1, <3>4 DEF Over, To
        <3>6. QED
            BY <3>1, <3>2, <3>5
    <2>5. CASE p.nodes[k].kind = "N_MATCH_TRY_CLAUSE"
        <3>1. PICK up : up = p.nodes[k].parent
            OBVIOUS
        <3>2. up \in 1..n /\ up # 0 /\ p.nodes[up].kind = "N_MATCH_TRY"
            <4>1. p.nodes[up].kind = "N_MATCH_TRY"
                BY <1>0, <1>1, <1>3, <2>5, <3>1 DEF KindInv
            <4>2. QED
                BY <1>2, <1>3, <1>4, <3>1, <4>1
        <3>3. f = up /\ end = CurrentEnd(p, k) /\ up # 1
            <4>1. up # 1
                BY <1>0, <3>2 DEF TreeInv
            <4>2. QED
                BY <2>1, <2>3, <2>5, <3>1, <4>1 DEF PatternEnd
        <3>4. s[1] = up
            <4>1. PICK u, v : u = ScopesOf(p, up) /\ v = ScopesOf(p, p.nodes[up].parent)
                OBVIOUS
            <4>2. Parents(p, k) /\ Parents(p, up) /\ IsSeq(u)
                BY <1>0, <1>1, <1>3, <3>2, <4>1, TreeScopes
            <4>3. s = Own(p, k) \o u
                <5>1. k # 0
                    BY <1>2, <1>3
                <5>2. ScopesOf(p, k) = Own(p, k) \o ScopesOf(p, p.nodes[k].parent)
                    BY <4>2, <5>1, ScopesStep
                <5>3. QED
                    BY <1>7, <3>1, <4>1, <5>2
            <4>4. s = u
                BY <1>4, <4>2, <4>3, NothingJoins DEF Own
            <4>5. u = <<up>> \o v
                <5>1. u = Own(p, up) \o v
                    BY <3>2, <4>1, <4>2, ScopesStep
                <5>2. Own(p, up) = <<up>>
                    BY <3>2 DEF Own, ScopeAst
                <5>3. QED
                    BY <5>1, <5>2
            <4>6. IsSeq(v)
                <5>1. up \in 2..n
                    BY <1>2, <3>2, <3>3
                <5>2. p.nodes[up].parent # 0 /\ p.nodes[up].parent \in 0..(up - 1)
                    BY <1>0, <1>1, <3>2, <5>1 DEF TreeInv, Parents
                <5>3. p.nodes[up].parent \in 1..n
                    BY <1>2, <3>2, <5>2
                <5>4. QED
                    BY <1>0, <1>1, <4>1, <5>3, TreeScopes
            <4>7. PICK w : w = <<up>>
                OBVIOUS
            <4>8. IsSeq(w) /\ Len(w) = 1 /\ w[1] = up /\ 1 \in 1..1
                BY <4>7, Tuples
            <4>9. \A i \in 1..Len(w) : (w \o v)[i] = w[i]
                BY <4>6, <4>8, ConcatFacts
            <4>10. QED
                BY <4>4, <4>5, <4>7, <4>8, <4>9
        <3>5. /\ CurrentEnd(p, k) \in Nat
              /\ Catches(p, f) = {} => CurrentEnd(p, k) = End(p, f)
              /\ Catches(p, f) # {} =>
                    CurrentEnd(p, k) = p.nodes[CHOOSE c \in Catches(p, f) : TRUE].start
            BY <1>1, <1>3, <1>7, <3>2, <3>3, <3>4, CurrentEndFacts
        <3>6. Over(p, {1}, j)
            BY <1>5, <3>3 DEF Over
        <3>7. CASE Catches(p, f) = {}
            <4>1. To(p, j) = p.nodes[f].end
                BY <1>5, <3>7 DEF To, Caught
            <4>2. End(p, f) = p.nodes[f].end
                BY <1>1, <3>2, <3>3, EndFacts
            <4>3. QED
                BY <3>3, <3>5, <3>6, <3>7, <4>1, <4>2
        <3>8. CASE Catches(p, f) # {}
            <4>1. To(p, j) = p.nodes[CHOOSE c \in Catches(p, f) : TRUE].start
                BY <1>5, <2>3, <3>8 DEF To, Caught
            <4>2. QED
                BY <3>3, <3>5, <3>6, <3>8, <4>1
        <3>9. QED
            BY <3>7, <3>8
    <2>6. QED
        BY <2>2, <2>4, <2>5 DEF Clauses
<1>12. QED
    BY <1>2, <1>10, <1>11

\* What the tables say of a binding.
LEMMA SymFacts ==
    ASSUME NEW p, Sound(p), NEW j \in 1..Len(p.tokens), p.tokens[j].role # "r"
    PROVE  LET s == SymOf(p, j)
           IN  /\ s # None /\ s.token = j /\ s.text = p.tokens[j].text
               /\ \A i \in 1..Len(p.tokens) :
                     contains_range(s.scope, i) <=> From(p, j) <= i - 1 /\ (Over(p, {1}, j) => i <= To(p, j))
<1>0. Typed(p) /\ TreeInv(p) /\ KindInv(p) /\ TokenInv(p)
    BY DEF Sound
<1>1. PICK k, text, start, end :
          /\ k = p.tokens[j].node /\ text = p.tokens[j].text
          /\ start = IF p.tokens[j].role = "l" THEN End(p, Declarer(p, k)) ELSE j
          /\ end = IF p.tokens[j].role = "l" THEN ScopeEnd(p, k) ELSE PatternEnd(p, k)
    OBVIOUS
<1>2. text \in Seq(Name \cup Field) /\ j \in Nat /\ Len(p.tokens) \in Nat
    BY <1>0, <1>1, TypedFacts
<1>3. /\ end \in Nat
      /\ \A i \in 1..Len(p.tokens) : i <= end <=> (Over(p, {1}, j) => i <= To(p, j))
    BY <1>1, ScopeEnds
<1>4. start = From(p, j) /\ start \in Nat
    <2>1. From(p, j) \in Nat
        BY ScopeBounds
    <2>2. CASE p.tokens[j].role = "l"
        <3>1. DeclarerOf(p, j) = Declarer(p, k)
            BY <1>1 DEF DeclarerOf
        <3>2. DeclarerOf(p, j) \in 2..Len(p.nodes)
            <4>1. Grows(p, p)
                BY <1>0, TypedFacts DEF Grows, SameTree
            <4>2. QED
                BY <4>1, PlacesStay
        <3>3. Declarer(p, k) \in 1..Len(p.nodes) /\ Declarer(p, k) # 1
            <4>1. Len(p.nodes) \in Nat
                BY <1>0, TypedFacts
            <4>2. QED
                BY <3>1, <3>2, <4>1
        <3>4. End(p, Declarer(p, k)) = p.nodes[Declarer(p, k)].end
            BY <3>3, EndFacts
        <3>5. QED
            BY <1>1, <2>1, <2>2, <3>1, <3>4 DEF From
    <2>3. CASE p.tokens[j].role # "l"
        BY <1>1, <2>1, <2>3 DEF From
    <2>4. QED
        BY <2>2, <2>3
<1>5. PICK s, scope : s = SymOf(p, j) /\ scope = [start |-> start, end |-> end]
    OBVIOUS
<1>6. \E global \in BOOLEAN : s = [token |-> j, text |-> text, scope |-> scope, global |-> global]
    <2>1. CASE p.tokens[j].role = "l"
        <3>1. scope_range(p, k) = scope
            BY <1>1, <1>5, <2>1 DEF scope_range
        <3>2. PICK global : global = (p.nodes[p.nodes[k].parent].kind = "N_GLOBAL")
            OBVIOUS
        <3>3. global \in BOOLEAN
            BY <3>2
        <3>4. s = [token |-> j, text |-> text, scope |-> scope, global |-> global]
            BY <1>1, <1>5, <2>1, <3>1, <3>2 DEF SymOf, BindSym
        <3>5. QED
            BY <3>3, <3>4
    <2>2. CASE p.tokens[j].role # "l"
        <3>1. [start |-> j, end |-> PatternEnd(p, k)] = scope
            BY <1>1, <1>5, <2>2
        <3>2. s = [token |-> j, text |-> text, global |-> FALSE, scope |-> scope]
            BY <1>1, <1>5, <2>2, <3>1 DEF SymOf, PatSym
        <3>3. [token |-> j, text |-> text, global |-> FALSE, scope |-> scope]
                  = [token |-> j, text |-> text, scope |-> scope, global |-> FALSE]
            OBVIOUS
        <3>4. QED
            BY <3>2, <3>3
    <2>3. QED
        BY <2>1, <2>2
<1>7. PICK global \in BOOLEAN : s = [token |-> j, text |-> text, scope |-> scope, global |-> global]
    BY <1>6
<1>8. scope \in [start : Nat, end : Nat] /\ scope.start = start /\ scope.end = end
    BY <1>3, <1>4, <1>5
<1>9. s.token = j /\ s.text = text /\ s.scope = scope
    BY <1>7
<1>10. s \in [token : Nat, text : Seq(Name \cup Field), scope : [start : Nat, end : Nat], global : BOOLEAN]
    <2>1. PICK T : T = Seq(Name \cup Field)
        OBVIOUS
    <2>2. text \in T
        BY <1>2, <2>1
    <2>3. s \in [token : Nat, text : T, scope : [start : Nat, end : Nat], global : BOOLEAN]
        BY <1>2, <1>7, <1>8, <2>2
    <2>4. QED
        BY <2>1, <2>3
<1>11. s # None
    BY <1>10, ScopesAssumption
<1>12. \A i \in 1..Len(p.tokens) :
           contains_range(s.scope, i) <=> From(p, j) <= i - 1 /\ (Over(p, {1}, j) => i <= To(p, j))
    BY <1>3, <1>4, <1>8, <1>9 DEF contains_range
<1>13. QED
    BY <1>1, <1>5, <1>9, <1>11, <1>12

\* Some of the bindings.
IsTable(p, i, symbols) ==
    \E found : /\ symbols = {SymOf(p, j) : j \in found}
               /\ found \subseteq {j \in 1..Len(p.tokens) : Done(p, j)}
               /\ \A j \in 1..(i - 1) : Done(p, j) => j \in found

\* The search in a table that has all the bindings before a token.
LEMMA SearchFinds ==
    ASSUME NEW p, Sound(p), NEW i \in 1..Len(p.tokens), NEW symbols, IsTable(p, i, symbols), NEW text,
           text = <<p.tokens[i].text[1]>>
    PROVE  LET found == nearest_by_name_and_range(symbols, text, i)
               near == Near(p, {1}, i)
           IN  /\ near = {} => found = None
               /\ near # {} => \E j \in near : found = SymOf(p, j) /\ \A k \in near : k <= j
<1>0. Len(p.tokens) \in Nat
    BY TypedFacts DEF Sound
<1>1. PICK t, near : t = Len(p.tokens) /\ near = Near(p, {1}, i)
    OBVIOUS
<1>2. near \subseteq 1..t /\ near \in SUBSET (0..t) /\ t \in Nat
    <2>1. \A j \in 1..(i - 1) : j \in 1..t /\ j \in 0..t
        BY <1>0, <1>1
    <2>2. near \subseteq 1..(i - 1)
        BY <1>1 DEF Near
    <2>3. QED
        BY <1>0, <1>1, <2>1, <2>2
<1>3. \A j \in 1..t : Made(p, {1}, j) => p.tokens[j].role # "r"
    BY DEF Made
<1>4. \A j \in 1..t : Made(p, {1}, j) =>
          /\ SymOf(p, j) # None /\ SymOf(p, j).token = j /\ SymOf(p, j).text = p.tokens[j].text
          /\ contains_range(SymOf(p, j).scope, i) <=> From(p, j) <= i - 1 /\ (Over(p, {1}, j) => i <= To(p, j))
    BY <1>1, <1>3, SymFacts
<1>5. PICK set : set = {s \in symbols : s.token < i /\ s.text = text /\ contains_range(s.scope, i)}
    OBVIOUS
<1>6. set = {SymOf(p, j) : j \in near}
    <2>1. PICK found : /\ symbols = {SymOf(p, j) : j \in found}
                       /\ found \subseteq {j \in 1..Len(p.tokens) : Done(p, j)}
                       /\ \A j \in 1..(i - 1) : Done(p, j) => j \in found
        BY DEF IsTable
    <2>2. \A j \in found : j \in 1..t /\ Made(p, {1}, j)
        BY <1>1, <2>1 DEF Done
    <2>3. ASSUME NEW j \in found, SymOf(p, j) \in set PROVE j \in near
        <3>1. j \in 1..t /\ Made(p, {1}, j)
            BY <2>2
        <3>2. j < i /\ p.tokens[j].text = text /\ contains_range(SymOf(p, j).scope, i)
            BY <1>4, <1>5, <2>3, <3>1
        <3>3. j \in 1..(i - 1)
            BY <1>2, <3>1, <3>2
        <3>4. QED
            BY <1>1, <1>4, <3>1, <3>2, <3>3 DEF Near
    <2>4. ASSUME NEW j \in near PROVE SymOf(p, j) \in set
        <3>1. /\ j \in 1..(i - 1) /\ Made(p, {1}, j) /\ p.tokens[j].text = text
              /\ From(p, j) <= i - 1 /\ (Over(p, {1}, j) => i <= To(p, j))
            BY <1>1 DEF Near
        <3>2. j \in found /\ j \in 1..t
            BY <1>2, <2>1, <3>1 DEF Done
        <3>3. j < i
            BY <1>2, <3>1, <3>2
        <3>4. SymOf(p, j) \in symbols
            BY <2>1, <3>2
        <3>5. QED
            BY <1>4, <1>5, <3>1, <3>2, <3>3, <3>4
    <2>5. \A s \in set : \E j \in found : s = SymOf(p, j)
        BY <1>5, <2>1
    <2>6. QED
        BY <2>3, <2>4, <2>5
<1>7. PICK found : found = nearest_by_name_and_range(symbols, text, i)
    OBVIOUS
<1>8. found = IF set = {} THEN None ELSE CHOOSE s \in set : \A o \in set : o.token <= s.token
    BY <1>5, <1>7 DEF nearest_by_name_and_range
<1>9. CASE near = {}
    BY <1>1, <1>6, <1>7, <1>8, <1>9
<1>10. CASE near # {}
    <2>1. set # {}
        BY <1>6, <1>10
    <2>2. PICK m : m = Max(near)
        OBVIOUS
    <2>3. m \in near /\ \A k \in near : k <= m
        <3>1. Max(near) \in near /\ \A k \in near : Max(near) >= k
            BY <1>2, <1>10, MaxIn
        <3>2. \A k \in near : k \in Nat
            BY <1>2
        <3>3. QED
            BY <2>2, <3>1, <3>2
    <2>4. \A k \in near : SymOf(p, k).token = k
        <3>1. \A k \in near : Made(p, {1}, k)
            BY <1>1 DEF Near
        <3>2. QED
            BY <1>2, <1>4, <3>1
    <2>5. SymOf(p, m) \in set /\ \A o \in set : o.token <= SymOf(p, m).token
        BY <1>6, <2>3, <2>4
    <2>6. (CHOOSE s \in set : \A o \in set : o.token <= s.token) \in set
        BY <2>5
    <2>7. \A o \in set : o.token <= (CHOOSE s \in set : \A u \in set : u.token <= s.token).token
        BY <2>5
    <2>8. found \in set /\ \A o \in set : o.token <= found.token
        BY <1>8, <2>1, <2>6, <2>7
    <2>9. PICK j \in near : found = SymOf(p, j)
        BY <1>6, <2>8
    <2>10. \A k \in near : k <= j
        <3>1. ASSUME NEW k \in near PROVE k <= j
            <4>1. SymOf(p, k) \in set
                BY <1>6
            <4>2. SymOf(p, k).token <= found.token
                BY <2>8, <4>1
            <4>3. QED
                BY <2>4, <2>9, <4>2
        <3>2. QED
            BY <3>1
    <2>11. QED
        BY <1>1, <1>7, <1>10, <2>9, <2>10
<1>11. QED
    BY <1>9, <1>10

\* The bindings of a finished program are those that reading along has met.
LEMMA SymbolsAreBindings ==
    ASSUME NEW p, Sound(p), SeesInv(p, {1})
    PROVE  l_symbols(p) = {SymOf(p, j) : j \in {j \in 1..Len(p.tokens) : Done(p, j)}}
<1> DEFINE t == Len(p.tokens)
           ids == [i \in DOMAIN p.tokens |-> i]
           V == SUBSET {SymOf(p, j) : j \in 1..t}
           base == bindings(p)
           blocked(symbols, i) ==
               \/ p.tokens[i].role # "l_or_r"
               \/ nearest_by_name_and_range(symbols, p.tokens[i].text, i) # None
           add(symbols, i) == IF blocked(symbols, i) THEN symbols ELSE symbols \cup {PatSym(p, i)}
           Is(w) == w = [d \in SUBSET DOMAIN ids |->
                             IF d = {} THEN base ELSE add(w[d \ {Max(d)}], ids[Max(d)])]
           w == CHOOSE iter : Is(iter)
<1>0. Typed(p) /\ TreeInv(p) /\ KindInv(p) /\ TokenInv(p)
    BY DEF Sound
<1>1. t \in Nat /\ DOMAIN p.tokens = 1..t /\ DOMAIN ids = 1..t /\ \A i \in 1..t : ids[i] = i
    <2>1. t \in Nat /\ DOMAIN p.tokens = 1..t
        BY <1>0, TypedFacts
    <2>2. QED
        BY <2>1
<1> HIDE DEF ids
<1>2. \A j \in 1..t : p.tokens[j].role = "l" => Done(p, j)
    <2>1. ASSUME NEW j \in 1..t, p.tokens[j].role = "l" PROVE Done(p, j)
        <3>1. Grows(p, p)
            BY <1>0, TypedFacts DEF Grows, SameTree
        <3>2. DeclarerOf(p, j) \in 2..Len(p.nodes)
            BY <2>1, <3>1, PlacesStay
        <3>3. DeclarerOf(p, j) # 1
            BY <1>0, <3>2, TypedFacts
        <3>4. QED
            BY <2>1, <3>3 DEF Done, Made
    <2>2. QED
        BY <2>1
<1>3. base = {SymOf(p, j) : j \in {j \in 1..t : p.tokens[j].role = "l"}}
    BY <1>1 DEF bindings, SymOf, BindSym
<1>4. \A i \in 1..t : PatSym(p, i) = SymOf(p, i) \/ p.tokens[i].role = "l"
    BY DEF SymOf
<1>5. base \in V
    BY <1>3
<1>6. \A symbols \in V, i \in 1..t : add(symbols, i) \in V
    <2>1. ASSUME NEW symbols \in V, NEW i \in 1..t PROVE add(symbols, i) \in V
        <3>1. CASE blocked(symbols, i)
            BY <3>1
        <3>2. CASE ~blocked(symbols, i)
            <4>1. p.tokens[i].role = "l_or_r"
                BY <3>2
            <4>2. PatSym(p, i) = SymOf(p, i)
                BY <1>4, <4>1
            <4>3. QED
                BY <3>2, <4>2
        <3>3. QED
            BY <3>1, <3>2
    <2>2. QED
        BY <2>1
<1>7. \E v : Is(v)
    <2> DEFINE step == [x \in V \X (1..t) |-> add(x[1], x[2])]
    <2>1. step \in [V \X (1..t) -> V]
        <3> HIDE DEF add, V, t
        <3>1. \A x \in V \X (1..t) : x[1] \in V /\ x[2] \in 1..t
            OBVIOUS
        <3>2. QED
            BY <1>6, <3>1
    <2>2. PICK v \in [SUBSET (1..t) -> V] : IsFold(t, base, step, v)
        <3> HIDE DEF step, V, t, base
        <3>1. QED
            BY <1>1, <1>5, <2>1, FoldExists
    <2>3. ASSUME NEW d \in SUBSET (1..t), d # {}
          PROVE  step[<<v[d \ {Max(d)}], Max(d)>>] = add(v[d \ {Max(d)}], ids[Max(d)])
        <3>1. d \in SUBSET (0..t)
            BY <1>1
        <3>2. Max(d) \in 1..t
            BY <1>1, <2>3, <3>1, MaxIn
        <3>3. v[d \ {Max(d)}] \in V
            OBVIOUS
        <3>4. ids[Max(d)] = Max(d)
            BY <1>1, <3>2
        <3> HIDE DEF add, V
        <3>5. QED
            BY <3>2, <3>3, <3>4
    <2> HIDE DEF step, add, base
    <2>4. Is(v)
        BY <1>1, <2>2, <2>3 DEF IsFold
    <2>5. QED
        BY <2>4
<1>8. Is(w)
    BY <1>7
<1>9. l_symbols(p) = w[DOMAIN ids]
    BY DEF l_symbols, l_or_r_symbols, FoldLeft, MapThenFoldSet, ids, PatSym
<1> HIDE DEF w
<1> DEFINE found(i) == {j \in 1..t : Done(p, j) /\ (p.tokens[j].role = "l" \/ j <= i)}
           After(i) == {SymOf(p, j) : j \in found(i)}
           Fine == {i \in 0..t : w[1..i] = After(i)}
<1>10. 0 \in Fine
    <2>1. 1..0 = {} /\ 0 \in 0..t
        BY <1>1
    <2>2. w[{}] = base
        <3> HIDE DEF base, add
        <3>1. {} \in SUBSET DOMAIN ids
            OBVIOUS
        <3>2. QED
            BY <1>8, <3>1
    <2>3. \A j \in 1..t : ~(j <= 0)
        BY <1>1
    <2>4. found(0) = {j \in 1..t : p.tokens[j].role = "l"}
        BY <1>2, <2>3
    <2>5. QED
        BY <1>3, <2>1, <2>2, <2>4
<1>11. ASSUME NEW i \in 1..t, i - 1 \in Fine PROVE i \in Fine
    <2>1. 1..i \in SUBSET (1..t) /\ 1..i # {} /\ Max(1..i) = i /\ (1..i) \ {i} = 1..(i - 1)
        BY <1>1, LastPlace
    <2>2. w[1..i] = add(w[1..(i - 1)], i)
        <3> HIDE DEF add, base
        <3>1. w[1..i] = add(w[(1..i) \ {Max(1..i)}], ids[Max(1..i)])
            BY <1>1, <1>8, <2>1
        <3>2. ids[i] = i
            BY <1>1
        <3>3. QED
            BY <2>1, <3>1, <3>2
    <2>3. PICK symbols : symbols = w[1..(i - 1)]
        OBVIOUS
    <2>4. symbols = After(i - 1)
        BY <1>11, <2>3
    <2>5. \A j \in 1..t : j <= i <=> j <= i - 1 \/ j = i
        BY <1>1
    <2>6. i <= i /\ ~(i <= i - 1) /\ i \in 0..t
        BY <1>1
    <2>7. CASE p.tokens[i].role # "l_or_r"
        <3>1. Done(p, i) => p.tokens[i].role = "l"
            BY <2>7 DEF Done, Made
        <3>2. found(i) = found(i - 1)
            BY <2>5, <3>1
        <3>3. add(symbols, i) = symbols
            BY <2>7
        <3> HIDE DEF add, found
        <3>4. QED
            BY <2>2, <2>3, <2>4, <2>6, <3>2, <3>3
    <2>8. CASE p.tokens[i].role = "l_or_r"
        <3>1. IsTable(p, i, symbols)
            <4>1. found(i - 1) \subseteq {j \in 1..Len(p.tokens) : Done(p, j)}
                OBVIOUS
            <4>2. \A j \in 1..(i - 1) : Done(p, j) => j \in found(i - 1)
                <5>1. \A j \in 1..(i - 1) : j \in 1..t /\ j <= i - 1
                    BY <1>1
                <5>2. QED
                    BY <5>1
            <4> HIDE DEF found
            <4>3. QED
                BY <2>4, <4>1, <4>2 DEF IsTable
        <3>2. PICK text, near, nearest : /\ text = p.tokens[i].text /\ near = Near(p, {1}, i)
                                         /\ nearest = nearest_by_name_and_range(symbols, text, i)
            OBVIOUS
        <3>3. text = <<text[1]>>
            BY <1>0, <2>8, <3>2 DEF TokenInv
        <3>4. /\ near = {} => nearest = None
              /\ near # {} => \E j \in near : nearest = SymOf(p, j)
            BY <3>1, <3>2, <3>3, SearchFinds
        <3>5. near # {} => nearest # None
            <4>1. ASSUME NEW j \in near PROVE SymOf(p, j) # None
                <5>1. Made(p, {1}, j) /\ j \in 1..(i - 1)
                    BY <3>2 DEF Near
                <5>2. j \in 1..Len(p.tokens)
                    BY <1>1, <5>1
                <5>3. p.tokens[j].role # "r"
                    BY <5>1 DEF Made
                <5>4. QED
                    BY <5>2, <5>3, SymFacts
            <4>2. QED
                BY <3>4, <4>1
        <3>6. p.tokens[i].recent = None <=> near = {}
            <4>1. Sees(p, {1}, i)
                BY DEF SeesInv
            <4>2. QED
                BY <3>2, <4>1 DEF Sees
        <3>7. Done(p, i) <=> nearest = None
            BY <2>8, <3>4, <3>5, <3>6 DEF Done, Made
        <3>8. add(symbols, i) = IF Done(p, i) THEN symbols \cup {SymOf(p, i)} ELSE symbols
            <4>1. blocked(symbols, i) <=> ~Done(p, i)
                BY <2>8, <3>2, <3>7
            <4>2. PatSym(p, i) = SymOf(p, i)
                BY <1>4, <2>8
            <4>3. QED
                BY <4>1, <4>2
        <3>9. found(i) = IF Done(p, i) THEN found(i - 1) \cup {i} ELSE found(i - 1)
            BY <2>5, <2>6
        <3>10. After(i) = IF Done(p, i) THEN After(i - 1) \cup {SymOf(p, i)} ELSE After(i - 1)
            <4> HIDE DEF found
            <4>1. QED
                BY <3>9
        <3> HIDE DEF add, After
        <3>11. QED
            BY <2>2, <2>3, <2>4, <2>6, <3>8, <3>10
    <2>9. QED
        BY <2>7, <2>8
<1>12. t \in Fine
    <2>1. \A i \in 1..t : i - 1 \in Fine => i \in Fine
        BY <1>11
    <2> HIDE DEF Fine, t
    <2>2. \A i \in 0..t : i \in Fine
        BY <1>1, <1>10, <2>1, Induction
    <2>3. QED
        BY <1>1, <2>2
<1>13. found(t) = {j \in 1..t : Done(p, j)}
    BY <1>1
<1>14. QED
    BY <1>1, <1>9, <1>12, <1>13

\* Where a use leads in a finished program.
LEMMA UseFinds ==
    ASSUME NEW p, Sound(p), SeesInv(p, {1}), NEW i \in 1..Len(p.tokens)
    PROVE  LET found == l_symbol_by_r(p, i)
               near == Near(p, {1}, i)
           IN  /\ near = {} => found = None
               /\ near # {} => \E j \in near : found = SymOf(p, j) /\ \A k \in near : k <= j
<1>1. PICK symbols, text : symbols = l_symbols(p) /\ text = <<p.tokens[i].text[1]>>
    OBVIOUS
<1>2. symbols = {SymOf(p, j) : j \in {j \in 1..Len(p.tokens) : Done(p, j)}}
    BY <1>1, SymbolsAreBindings
<1>3. \A j \in 1..(i - 1) : j \in 1..Len(p.tokens)
    BY TypedFacts DEF Sound
<1>4. IsTable(p, i, symbols)
    BY <1>2, <1>3 DEF IsTable
<1>5. l_symbol_by_r(p, i) = nearest_by_name_and_range(symbols, text, i)
    BY <1>1 DEF l_symbol_by_r
<1>6. LET found == nearest_by_name_and_range(symbols, text, i)
          near == Near(p, {1}, i)
      IN  /\ near = {} => found = None
          /\ near # {} => \E j \in near : found = SymOf(p, j) /\ \A k \in near : k <= j
    BY <1>1, <1>4, SearchFinds
<1>7. QED
    BY <1>5, <1>6

\* What a use can see is a binding in the tables, and its range holds the use.
LEMMA NearFacts ==
    ASSUME NEW p, Sound(p), NEW i \in 1..Len(p.tokens), NEW j \in Near(p, {1}, i)
    PROVE  /\ j \in 1..(i - 1) /\ j \in 1..Len(p.tokens) /\ p.tokens[j].role # "r"
           /\ From(p, j) <= i - 1
           /\ SymOf(p, j) # None /\ SymOf(p, j).token = j
           /\ SymOf(p, j).text = <<p.tokens[i].text[1]>> /\ contains_range(SymOf(p, j).scope, i)
<1>1. /\ j \in 1..(i - 1) /\ Made(p, {1}, j) /\ p.tokens[j].text = <<p.tokens[i].text[1]>>
      /\ From(p, j) <= i - 1 /\ (Over(p, {1}, j) => i <= To(p, j))
    BY DEF Near
<1>2. j \in 1..Len(p.tokens)
    BY <1>1, TypedFacts DEF Sound
<1>3. p.tokens[j].role # "r"
    BY <1>1 DEF Made
<1>4. /\ SymOf(p, j) # None /\ SymOf(p, j).token = j /\ SymOf(p, j).text = p.tokens[j].text
      /\ contains_range(SymOf(p, j).scope, i) <=> From(p, j) <= i - 1 /\ (Over(p, {1}, j) => i <= To(p, j))
    BY <1>2, <1>3, SymFacts
<1>5. QED
    BY <1>1, <1>2, <1>3, <1>4

\* A written program has only its root open.
LEMMA WrittenFacts ==
    ASSUME ScopeInv, Written
    PROVE  Sound(program) /\ SeesInv(program, {1})
<1>1. PICK open : OpenInv(program, open, at) /\ SeesInv(program, open)
    BY ScopeInvFacts
<1>2. 1 \in open /\ open \subseteq 1..Len(program.nodes) /\ \A k \in open : k <= 1
    BY <1>1 DEF OpenInv, Written
<1>3. Len(program.nodes) \in Nat
    BY ScopeInvFacts, TypedFacts DEF Sound
<1>4. \A k \in open : k = 1
    BY <1>2, <1>3
<1>5. open = {1}
    BY <1>2, <1>4
<1>6. QED
    BY <1>1, <1>5, ScopeInvFacts

\* The search finds the last of what the use can see, and so what it has seen or later.
LEMMA NearestFollows ==
    ASSUME ScopeInv
    PROVE  NearestIsMostRecent
<1>1. SUFFICES ASSUME Written, NEW i \in r_symbols(program)
               PROVE  LET found == l_symbol_by_r(program, i)
                          recent == tokens[i].recent
                          made == nodes[Declarer(program, tokens[recent].node)]
                      IN  IF recent = None THEN found = None
                          ELSE /\ found # None
                               /\ \/ found.token = recent
                                  \/ found.token \in (made.start + 1)..made.end
    BY DEF NearestIsMostRecent
<1>2. PICK p, found, recent, near :
          /\ p = program /\ found = l_symbol_by_r(program, i) /\ recent = tokens[i].recent
          /\ near = Near(program, {1}, i)
    OBVIOUS
<1>3. p.nodes = nodes /\ p.tokens = tokens
    BY <1>2 DEF program
<1>4. Sound(p) /\ SeesInv(p, {1})
    BY <1>1, <1>2, WrittenFacts
<1>5. i \in 1..Len(p.tokens) /\ Len(p.tokens) \in Nat
    <2>1. DOMAIN p.tokens = 1..Len(p.tokens) /\ Len(p.tokens) \in Nat
        BY <1>4, TypedFacts DEF Sound
    <2>2. i \in DOMAIN p.tokens
        BY <1>2 DEF r_symbols
    <2>3. QED
        BY <2>1, <2>2
<1>6. /\ near = {} => found = None
      /\ near # {} => \E j \in near : found = SymOf(p, j) /\ \A k \in near : k <= j
    BY <1>2, <1>4, <1>5, UseFinds
<1>7. /\ recent = None => near = {}
      /\ recent # None => /\ recent \in near
                          /\ \A j \in near : j = recent \/ Later(p, j, recent)
    <2>1. Sees(p, {1}, i)
        BY <1>4, <1>5 DEF SeesInv
    <2>2. QED
        BY <1>2, <1>3, <2>1 DEF Sees
<1>8. CASE recent = None
    BY <1>2, <1>6, <1>7, <1>8
<1>9. CASE recent # None
    <2>1. recent \in near /\ \A j \in near : j = recent \/ Later(p, j, recent)
        BY <1>7, <1>9
    <2>2. PICK m \in near : found = SymOf(p, m) /\ \A k \in near : k <= m
        BY <1>6, <2>1
    <2>3. found # None /\ found.token = m /\ m \in Nat /\ recent \in Nat /\ recent <= m
        <3>1. m \in 1..(i - 1) /\ SymOf(p, m) # None /\ SymOf(p, m).token = m
            BY <1>2, <1>4, <1>5, NearFacts
        <3>2. recent \in 1..(i - 1)
            BY <1>2, <1>4, <1>5, <2>1, NearFacts
        <3>3. QED
            BY <1>5, <2>1, <2>2, <3>1, <3>2
    <2>4. m = recent \/ m \in (p.nodes[DeclarerOf(p, recent)].start + 1)..p.nodes[DeclarerOf(p, recent)].end
        <3>1. m = recent \/ Later(p, m, recent)
            BY <2>1
        <3>2. ~(m < recent)
            BY <2>3
        <3>3. QED
            BY <3>1, <3>2 DEF Later
    <2>5. DeclarerOf(p, recent) = Declarer(program, tokens[recent].node)
        BY <1>2, <1>3 DEF DeclarerOf
    <2>6. QED
        BY <1>2, <1>3, <1>9, <2>3, <2>4, <2>5
<1>10. QED
    BY <1>8, <1>9

\* A use with a field has the name before it, which goes to the same binding.
LEMMA UnusedFollows ==
    ASSUME ScopeInv
    PROVE  UnusedHasNoUse
<1>1. SUFFICES ASSUME Written, NEW s \in unused_l_symbols(program), NEW i \in r_symbols(program),
                      l_symbol_by_r(program, i) = s
               PROVE  FALSE
    BY DEF UnusedHasNoUse
<1>2. PICK p, near, text : p = program /\ near = Near(program, {1}, i) /\ text = p.tokens[i].text
    OBVIOUS
<1>3. Sound(p) /\ SeesInv(p, {1})
    BY <1>1, <1>2, WrittenFacts
<1>4. i \in 1..Len(p.tokens) /\ Len(p.tokens) \in Nat /\ DOMAIN p.tokens = 1..Len(p.tokens)
    <2>1. DOMAIN p.tokens = 1..Len(p.tokens) /\ Len(p.tokens) \in Nat
        BY <1>3, TypedFacts DEF Sound
    <2>2. i \in DOMAIN p.tokens
        BY <1>2 DEF r_symbols
    <2>3. QED
        BY <2>1, <2>2
<1>5. s # None
    <2>1. s \in l_symbols(p)
        BY <1>2 DEF unused_l_symbols
    <2>2. l_symbols(p) = {SymOf(p, j) : j \in {j \in 1..Len(p.tokens) : Done(p, j)}}
        BY <1>3, SymbolsAreBindings
    <2>3. PICK j \in 1..Len(p.tokens) : s = SymOf(p, j) /\ Done(p, j)
        BY <2>1, <2>2
    <2>4. p.tokens[j].role # "r"
        BY <2>3 DEF Done, Made
    <2>5. QED
        BY <1>3, <2>3, <2>4, SymFacts
<1>6. PICK j \in near : s = SymOf(p, j)
    <2>1. /\ near = {} => l_symbol_by_r(p, i) = None
          /\ near # {} => \E j \in near : l_symbol_by_r(p, i) = SymOf(p, j)
        BY <1>2, <1>3, <1>4, UseFinds
    <2>2. QED
        BY <1>1, <1>2, <1>5, <2>1
<1>7. /\ j \in 1..(i - 1) /\ j \in 1..Len(p.tokens) /\ p.tokens[j].role # "r" /\ From(p, j) <= i - 1
      /\ s.text = <<text[1]>> /\ contains_range(s.scope, i)
    BY <1>2, <1>3, <1>4, <1>6, NearFacts
<1>8. \A k \in r_symbols(p) : ~contains_token(p, s, k)
    BY <1>2 DEF unused_l_symbols
<1>9. text # <<text[1]>>
    <2>1. ~contains_token(p, s, i)
        BY <1>2, <1>8
    <2>2. QED
        BY <1>2, <1>7, <2>1 DEF contains_token
<1>10. PICK k : k = i - 1
    OBVIOUS
<1>11. /\ i > 1 /\ p.tokens[k].role = "r" /\ p.tokens[k].text = <<text[1]>>
       /\ \A n \in 1..Len(p.nodes) : p.nodes[n].end # k
    BY <1>2, <1>3, <1>4, <1>9, <1>10 DEF Sound, TokenInv
<1>12. k \in 1..Len(p.tokens) /\ k \in r_symbols(p)
    <2>1. k \in 1..Len(p.tokens)
        BY <1>4, <1>10, <1>11
    <2>2. QED
        BY <1>4, <1>11, <2>1 DEF r_symbols
<1>13. From(p, j) # k
    <2>1. CASE p.tokens[j].role = "l"
        <3>1. DeclarerOf(p, j) \in 2..Len(p.nodes)
            <4>1. Grows(p, p)
                BY <1>3, TypedFacts DEF Grows, SameTree, Sound
            <4>2. QED
                BY <1>3, <1>7, <2>1, <4>1, PlacesStay
        <3>2. Len(p.nodes) \in Nat
            BY <1>3, TypedFacts DEF Sound
        <3>3. DeclarerOf(p, j) \in 1..Len(p.nodes)
            BY <3>1, <3>2
        <3>4. QED
            BY <1>11, <2>1, <3>3 DEF From
    <2>2. CASE p.tokens[j].role # "l"
        BY <1>7, <1>11, <2>2 DEF From
    <2>3. QED
        BY <2>1, <2>2
<1>14. contains_range(s.scope, k)
    <2>1. /\ contains_range(s.scope, i) <=> From(p, j) <= i - 1 /\ (Over(p, {1}, j) => i <= To(p, j))
          /\ contains_range(s.scope, k) <=> From(p, j) <= k - 1 /\ (Over(p, {1}, j) => k <= To(p, j))
        BY <1>3, <1>4, <1>6, <1>7, <1>12, SymFacts
    <2>2. From(p, j) \in Nat /\ To(p, j) \in Nat
        BY <1>3, <1>7, ScopeBounds
    <2>3. From(p, j) <= k - 1
        BY <1>4, <1>7, <1>10, <1>13, <2>2
    <2>4. i <= To(p, j) => k <= To(p, j)
        BY <1>4, <1>10, <2>2
    <2>5. QED
        BY <1>7, <2>1, <2>3, <2>4
<1>15. contains_token(p, s, k)
    BY <1>7, <1>11, <1>14 DEF contains_token
<1>16. QED
    BY <1>8, <1>12, <1>15

\* The search through the finished program's ranges finds the binding that was in
\* force when the use was written, unless one made inside of it outlives it.
THEOREM SearchFindsMostRecent == Writing => []NearestIsMostRecent
<1>1. ScopeInv => NearestIsMostRecent
    BY NearestFollows
<1>2. QED
    BY <1>1, EnvIsInForce, PTL

\* What is reported as unused is used by nothing, by its name or by a field of it.
THEOREM UnusedIsUnused == Writing => []UnusedHasNoUse
<1>1. ScopeInv => UnusedHasNoUse
    BY UnusedFollows
<1>2. QED
    BY <1>1, EnvIsInForce, PTL
=============================================================================
