-------------------------- MODULE MapGuards_proofs --------------------------
(***************************************************************************)
(* Proofs about MapGuards, for any files, handlers and messages, whatever  *)
(* the maps' hashes. A handler is a program, so this is a type system for  *)
(* such programs: a type is the set of guards that a step may meet.        *)
(***************************************************************************)
EXTENDS MapGuards, DataFacts

-----------------------------------------------------------------------------
(* Guards and steps *)

Entries == {"doc_map", "ast_map"}

Taken(map, key, mode) == [map |-> map, key |-> key, mode |-> mode, of |-> "get"]
Visiting(map, key, mode) == [map |-> map, key |-> key, mode |-> mode, of |-> "each"]

\* Not a guard: what stands for an entry that may be missing, for the handlers
\* that count on what they have seen.
Unseen(map, key) == [map |-> map, key |-> key, mode |-> "unseen", of |-> "unseen"]

\* No guard in H stops an operation on the map, whatever the keys' shards.
Clear(H, map, mode) == \A g \in H : g.map = map => "write" \notin {g.mode, mode}

\* The handlers that insert while they hold guards, and those that look again.
Careless == {"completion", "goto_definition"}
LooksAgain == {"references", "rename"}

\* The rest of a loop.
VisitOf(map, mode, body, left) ==
    [op |-> "visit", map |-> map, mode |-> mode, body |-> body, left |-> left]

\* What is left when a map is visited, when an entry has been found, and when a
\* step begins.
Besides(H, map) == {g \in H : g.map # map \/ g.of # "each"}
Look(H, map, key, mode) == (H \ {Unseen(map, key)}) \cup {Taken(map, key, mode)}
Enter(H, s) == IF s.op \in {"each", "visit"} THEN Besides(H, s.map) ELSE H

Drops(s, g) ==
    \/ s.op = "drop" /\ g.map = s.map /\ g.key = s.key /\ g.of = "get"
    \/ s.op \in {"each", "visit"} /\ g.map = s.map /\ g.of = "each"

\* The guards of H that are left before the k-th step of p.
Left(H, p, k) == {g \in H : \A j \in 1..(k - 1) : ~Drops(p[j], g)}

\* W holds pairs of guards and a step that may run with them.
Fits(W, H, s) == \E e \in W : e.step = s /\ Enter(H, s) \subseteq e.held
SeqFits(W, H, p) == IsSeq(p) /\ \A k \in 1..Len(p) : Fits(W, Left(H, p, k), p[k])

\* When a step of a handler for r may run with the guards in H.
Allowed(r, W, H, s) ==
    \/ /\ s.op = "get" /\ s.map \in Entries /\ s.key \in Uri
       /\ Clear(H, s.map, s.mode)
       /\ SeqFits(W, Look(H, s.map, s.key, s.mode), s.found)
       /\ SeqFits(W, H, s.missing)
       /\ s.again => r \in LooksAgain /\ Unseen(s.map, s.key) \notin H
    \/ s.op = "touch" /\ Clear(H, s.map, s.mode)
    \/ /\ s.op = "insert" /\ s.map \in Entries /\ s.key \in Uri
       /\ Clear(H, s.map, "write") \/ r \in Careless
    \/ s.op = "remove" /\ s.map \in Entries /\ Clear(H, s.map, "write") /\ r \notin LooksAgain
    \/ s.op = "drop"
    \/ s.op = "return"
    \/ /\ s.op \in {"each", "visit"} /\ s.map \in Entries
       /\ s.op = "visit" => /\ s.left \subseteq Uri
                            /\ s = VisitOf(s.map, s.mode, s.body, s.left)
       /\ s.mode # "keys" => Clear(H, s.map, s.mode)
       /\ \A u \in Uri :
            SeqFits(W, H \cup (IF s.mode = "keys" THEN {} ELSE {Visiting(s.map, u, s.mode)}), s.body[u])
    \/ s.op = "one_of" /\ \A b \in s.branches : SeqFits(W, H, b)
    \/ s.op \in {"send", "answer"} /\ H = {} /\ r \notin LooksAgain

Typing(r, W) == \A e \in W : Allowed(r, W, e.held, e.step)

\* A handler for r that holds the guards in H may go on with p.
Safe(r, H, p) == \E W : Typing(r, W) /\ SeqFits(W, H, p)

-----------------------------------------------------------------------------
(* Typings *)

\* Fewer guards and more typed steps do no harm.
LEMMA FitsLess ==
    ASSUME NEW W, NEW V, W \subseteq V, NEW H, NEW G, G \subseteq H, NEW p, SeqFits(W, H, p)
    PROVE  SeqFits(V, G, p)
<1>1. ASSUME NEW k \in 1..Len(p)
      PROVE  Fits(V, Left(G, p, k), p[k])
    <2>1. Left(G, p, k) \subseteq Left(H, p, k)
        BY DEF Left
    <2>2. Enter(Left(G, p, k), p[k]) \subseteq Enter(Left(H, p, k), p[k])
        BY <2>1 DEF Enter, Besides
    <2>3. QED
        BY <1>1, <2>2 DEF SeqFits, Fits
<1>2. QED
    BY <1>1 DEF SeqFits

\* What is allowed with some typed steps is so with more.
LEMMA AllowedMore ==
    ASSUME NEW r, NEW W, NEW V, W \subseteq V, NEW H, NEW s, Allowed(r, W, H, s)
    PROVE  Allowed(r, V, H, s)
<1>1. \A G, p : SeqFits(W, G, p) => SeqFits(V, G, p)
    BY FitsLess
<1>2. QED
    BY <1>1 DEF Allowed

\* Typings add up.
LEMMA TypingsJoin ==
    ASSUME NEW r, NEW S, \A W \in S : Typing(r, W)
    PROVE  Typing(r, UNION S)
<1>1. ASSUME NEW e \in UNION S
      PROVE  Allowed(r, UNION S, e.held, e.step)
    <2>1. PICK W \in S : e \in W
        BY <1>1
    <2>2. W \subseteq UNION S /\ Allowed(r, W, e.held, e.step)
        BY <2>1 DEF Typing
    <2>3. QED
        BY <2>2, AllowedMore
<1>2. QED
    BY <1>1 DEF Typing

\* Steps one after the other: what the first leave behind the others may meet.
LEMMA FitsJoin ==
    ASSUME NEW W, NEW H, NEW G, NEW p, NEW q, SeqFits(W, H, p), SeqFits(W, G, q),
           \A g \in H : g \in G \/ \E j \in 1..Len(p) : Drops(p[j], g)
    PROVE  SeqFits(W, H, p \o q)
<1>1. PICK w : w = p \o q
    OBVIOUS
<1>2. IsSeq(p) /\ IsSeq(q)
    BY DEF SeqFits
<1>3. /\ IsSeq(w) /\ Len(w) = Len(p) + Len(q) /\ Len(p) \in Nat /\ Len(q) \in Nat
      /\ \A i \in 1..Len(p) : w[i] = p[i]
      /\ \A i \in 1..Len(q) : w[Len(p) + i] = q[i]
    BY <1>1, <1>2, ConcatFacts, SeqFacts
<1>4. ASSUME NEW k \in 1..Len(p)
      PROVE  Fits(W, Left(H, w, k), w[k])
    <2>1. \A j \in 1..(k - 1) : w[j] = p[j]
        BY <1>3
    <2>2. Left(H, w, k) = Left(H, p, k)
        BY <2>1 DEF Left
    <2>3. QED
        BY <1>3, <2>2 DEF SeqFits
<1>5. ASSUME NEW i \in 1..Len(q)
      PROVE  Fits(W, Left(H, w, Len(p) + i), w[Len(p) + i])
    <2>1. ASSUME NEW g \in Left(H, w, Len(p) + i)
          PROVE  g \in Left(G, q, i)
        <3>1. g \in H /\ \A j \in 1..(Len(p) + i - 1) : ~Drops(w[j], g)
            BY <2>1 DEF Left
        <3>2. \A j \in 1..Len(p) : j \in 1..(Len(p) + i - 1) /\ w[j] = p[j]
            BY <1>3
        <3>3. g \in G
            BY <3>1, <3>2
        <3>4. \A j \in 1..(i - 1) : Len(p) + j \in 1..(Len(p) + i - 1) /\ w[Len(p) + j] = q[j]
            BY <1>3
        <3>5. QED
            BY <3>1, <3>3, <3>4 DEF Left
    <2>2. Enter(Left(H, w, Len(p) + i), q[i]) \subseteq Enter(Left(G, q, i), q[i])
        BY <2>1 DEF Enter, Besides
    <2>3. QED
        BY <1>3, <2>2 DEF SeqFits, Fits
<1>6. ASSUME NEW k \in 1..Len(w)
      PROVE  Fits(W, Left(H, w, k), w[k])
    <2>1. CASE k \in 1..Len(p)
        BY <1>4, <2>1
    <2>2. CASE k \notin 1..Len(p)
        <3>1. k - Len(p) \in 1..Len(q) /\ Len(p) + (k - Len(p)) = k
            BY <1>3, <2>2
        <3>2. QED
            BY <1>5, <3>1
    <2>3. QED
        BY <2>1, <2>2
<1>7. QED
    BY <1>1, <1>3, <1>6 DEF SeqFits

\* What is left of steps when the first has been done.
LEMMA FitsTail ==
    ASSUME NEW W, NEW H, NEW p, p # <<>>, SeqFits(W, H, p)
    PROVE  /\ Fits(W, H, Head(p))
           /\ SeqFits(W, {g \in H : ~Drops(Head(p), g)}, Tail(p))
<1>1. PICK t : t = Tail(p)
    OBVIOUS
<1>2. PICK G : G = {g \in H : ~Drops(Head(p), g)}
    OBVIOUS
<1>3. /\ IsSeq(p) /\ Len(p) \in Nat /\ Len(p) >= 1 /\ Head(p) = p[1] /\ IsSeq(t) /\ Len(t) = Len(p) - 1
      /\ \A i \in 1..(Len(p) - 1) : t[i] = p[i + 1]
    BY <1>1, SeqFacts DEF SeqFits
<1>4. Left(H, p, 1) = H
    BY DEF Left
<1>5. Fits(W, H, Head(p))
    BY <1>3, <1>4 DEF SeqFits
<1>6. ASSUME NEW k \in 1..Len(t)
      PROVE  Fits(W, Left(G, t, k), t[k])
    <2>1. k + 1 \in 1..Len(p) /\ t[k] = p[k + 1]
        BY <1>3
    <2>2. ASSUME NEW g \in Left(G, t, k)
          PROVE  g \in Left(H, p, k + 1)
        <3>1. g \in H /\ ~Drops(p[1], g) /\ \A j \in 1..(k - 1) : ~Drops(t[j], g)
            BY <1>2, <1>3, <2>2 DEF Left
        <3>2. ASSUME NEW j \in 1..((k + 1) - 1)
              PROVE  ~Drops(p[j], g)
            <4>1. CASE j = 1
                BY <3>1, <4>1
            <4>2. CASE j # 1
                <5>1. j - 1 \in 1..(k - 1) /\ j - 1 \in 1..(Len(p) - 1) /\ (j - 1) + 1 = j
                    BY <1>3, <4>2
                <5>2. t[j - 1] = p[j]
                    BY <1>3, <5>1
                <5>3. QED
                    BY <3>1, <5>1, <5>2
            <4>3. QED
                BY <4>1, <4>2
        <3>3. QED
            BY <3>1, <3>2 DEF Left
    <2>3. Enter(Left(G, t, k), t[k]) \subseteq Enter(Left(H, p, k + 1), t[k])
        BY <2>2 DEF Enter, Besides
    <2>4. QED
        BY <2>1, <2>3 DEF SeqFits, Fits
<1>7. QED
    BY <1>1, <1>2, <1>3, <1>5, <1>6 DEF SeqFits

-----------------------------------------------------------------------------
(* Programs *)

\* A single step.
LEMMA FitsOne ==
    ASSUME NEW W, NEW H, NEW s, Fits(W, H, s)
    PROVE  SeqFits(W, H, <<s>>)
<1>1. IsSeq(<<s>>) /\ Len(<<s>>) = 1 /\ <<s>>[1] = s
    BY Tuples
<1>2. Left(H, <<s>>, 1) = H
    BY DEF Left
<1>3. QED
    BY <1>1, <1>2 DEF SeqFits

\* Nothing to do is safe.
LEMMA SafeNothing == \A r, H : Safe(r, H, <<>>)
<1>1. Len(<<>>) = 0 /\ IsSeq(<<>>)
    BY Tuples
<1>2. \A H : SeqFits({}, H, <<>>)
    BY <1>1 DEF SeqFits
<1>3. \A r : Typing(r, {})
    BY DEF Typing
<1>4. QED
    BY <1>2, <1>3 DEF Safe

\* One that is allowed is safe.
LEMMA SafeStep ==
    ASSUME NEW r, NEW H, NEW s, NEW W, Typing(r, W), Allowed(r, W, Enter(H, s), s)
    PROVE  Safe(r, H, <<s>>)
<1>1. PICK e : e = [held |-> Enter(H, s), step |-> s]
    OBVIOUS
<1>2. PICK V : V = W \cup {e}
    OBVIOUS
<1>3. Allowed(r, V, e.held, e.step)
    BY <1>1, <1>2, AllowedMore
<1>4. \A d \in W : Allowed(r, V, d.held, d.step)
    BY <1>2, AllowedMore DEF Typing
<1>5. Typing(r, V)
    BY <1>2, <1>3, <1>4 DEF Typing
<1>6. Fits(V, H, s)
    BY <1>1, <1>2 DEF Fits
<1>7. QED
    BY <1>5, <1>6, FitsOne DEF Safe

\* A step that has no steps of its own.
LEMMA SafeLeaf ==
    ASSUME NEW r, NEW H, NEW s, Allowed(r, {}, Enter(H, s), s)
    PROVE  Safe(r, H, <<s>>)
<1>1. Typing(r, {})
    BY DEF Typing
<1>2. QED
    BY <1>1, SafeStep

\* A shard that is locked and let go at once.
LEMMA SafeTouch ==
    ASSUME NEW r, NEW H, NEW map, NEW key, NEW mode, Clear(H, map, mode)
    PROVE  Safe(r, H, <<Touch(map, key, mode)>>)
<1>1. PICK s : s = Touch(map, key, mode)
    OBVIOUS
<1>2. s.op = "touch" /\ s.map = map /\ s.mode = mode
    BY <1>1 DEF Touch
<1>3. Allowed(r, {}, Enter(H, s), s)
    BY <1>2 DEF Allowed, Enter
<1>4. QED
    BY <1>1, <1>3, SafeLeaf

\* A new entry.
LEMMA SafeInsert ==
    ASSUME NEW r, NEW H, NEW map \in Entries, NEW key \in Uri, Clear(H, map, "write") \/ r \in Careless
    PROVE  Safe(r, H, <<Insert(map, key)>>)
<1>1. PICK s : s = Insert(map, key)
    OBVIOUS
<1>2. s.op = "insert" /\ s.map = map /\ s.key = key
    BY <1>1 DEF Insert
<1>3. Allowed(r, {}, Enter(H, s), s)
    BY <1>2 DEF Allowed, Enter
<1>4. QED
    BY <1>1, <1>3, SafeLeaf

\* An entry that goes.
LEMMA SafeRemove ==
    ASSUME NEW r, NEW H, NEW map \in Entries, NEW key, Clear(H, map, "write"), r \notin LooksAgain
    PROVE  Safe(r, H, <<Erase(map, key)>>)
<1>1. PICK s : s = Erase(map, key)
    OBVIOUS
<1>2. s.op = "remove" /\ s.map = map
    BY <1>1 DEF Erase
<1>3. Allowed(r, {}, Enter(H, s), s)
    BY <1>2 DEF Allowed, Enter
<1>4. QED
    BY <1>1, <1>3, SafeLeaf

\* A guard may be dropped at any time.
LEMMA SafeDrop ==
    ASSUME NEW r, NEW H, NEW map, NEW key
    PROVE  Safe(r, H, <<Drop(map, key)>>)
<1>1. PICK s : s = Drop(map, key)
    OBVIOUS
<1>2. s.op = "drop"
    BY <1>1 DEF Drop
<1>3. Allowed(r, {}, Enter(H, s), s)
    BY <1>2 DEF Allowed, Enter
<1>4. QED
    BY <1>1, <1>3, SafeLeaf

\* The end of a handler.
LEMMA SafeReturn ==
    ASSUME NEW r, NEW H
    PROVE  Safe(r, H, <<Return>>)
<1>1. PICK s : s = Return
    OBVIOUS
<1>2. s.op = "return"
    BY <1>1 DEF Return
<1>3. Allowed(r, {}, Enter(H, s), s)
    BY <1>2 DEF Allowed, Enter
<1>4. QED
    BY <1>1, <1>3, SafeLeaf

\* Awaits are for handlers without guards.
LEMMA SafeAwait ==
    ASSUME NEW r, r \notin LooksAgain, NEW s \in {Send, Answer}
    PROVE  Safe(r, {}, <<s>>)
<1>1. s.op \in {"send", "answer"}
    BY DEF Send, Answer
<1>2. Allowed(r, {}, Enter({}, s), s)
    BY <1>1 DEF Allowed, Enter
<1>3. QED
    BY <1>2, SafeLeaf

\* An entry that is looked up.
LEMMA SafeGet ==
    ASSUME NEW r, NEW H, NEW map \in Entries, NEW key \in Uri, NEW mode, NEW found, NEW missing,
           Clear(H, map, mode), Safe(r, Look(H, map, key, mode), found), Safe(r, H, missing)
    PROVE  Safe(r, H, <<Get(map, key, mode, found, missing)>>)
<1>1. PICK s : s = Get(map, key, mode, found, missing)
    OBVIOUS
<1>2. /\ s.op = "get" /\ s.map = map /\ s.key = key /\ s.mode = mode /\ s.found = found
      /\ s.missing = missing /\ s.again = FALSE
    BY <1>1 DEF Get
<1>3. PICK V, W : /\ Typing(r, V) /\ SeqFits(V, Look(H, map, key, mode), found)
                  /\ Typing(r, W) /\ SeqFits(W, H, missing)
    BY DEF Safe
<1>4. PICK U : U = V \cup W
    OBVIOUS
<1>5. Typing(r, U)
    <2>1. \A X \in {V, W} : Typing(r, X)
        BY <1>3
    <2>2. U = UNION {V, W}
        BY <1>4
    <2>3. QED
        BY <2>1, <2>2, TypingsJoin
<1>6. SeqFits(U, Look(H, map, key, mode), found) /\ SeqFits(U, H, missing)
    BY <1>3, <1>4, FitsLess
<1>7. Allowed(r, U, Enter(H, s), s)
    BY <1>2, <1>6 DEF Allowed, Enter
<1>8. QED
    BY <1>1, <1>5, <1>7, SafeStep

\* A second look, by those that look again.
LEMMA SafeAgain ==
    ASSUME NEW r \in LooksAgain, NEW H, NEW map \in Entries, NEW key \in Uri, Clear(H, map, "read"),
           Unseen(map, key) \notin H
    PROVE  Safe(r, H, <<Again(map, key, <<>>)>>)
<1>1. PICK s : s = Again(map, key, <<>>)
    OBVIOUS
<1>2. /\ s.op = "get" /\ s.map = map /\ s.key = key /\ s.mode = "read" /\ s.found = <<>>
      /\ s.missing = <<Return>>
    BY <1>1 DEF Again, Need, Get
<1>3. PICK W : Typing(r, W) /\ SeqFits(W, H, <<Return>>)
    BY SafeReturn DEF Safe
<1>4. SeqFits(W, Look(H, map, key, "read"), <<>>)
    <2>1. Len(<<>>) = 0 /\ IsSeq(<<>>)
        BY Tuples
    <2>2. QED
        BY <2>1 DEF SeqFits
<1>5. Allowed(r, W, Enter(H, s), s)
    BY <1>2, <1>3, <1>4 DEF Allowed, Enter
<1>6. QED
    BY <1>1, <1>3, <1>5, SafeStep

\* A choice.
LEMMA SafeOneOf ==
    ASSUME NEW r, NEW H, NEW branches, \A b \in branches : Safe(r, H, b)
    PROVE  Safe(r, H, <<OneOf(branches)>>)
<1>1. PICK s : s = OneOf(branches)
    OBVIOUS
<1>2. s.op = "one_of" /\ s.branches = branches
    BY <1>1 DEF OneOf
<1>3. PICK f : f = [b \in branches |-> CHOOSE W : Typing(r, W) /\ SeqFits(W, H, b)]
    OBVIOUS
<1>4. \A b \in branches : Typing(r, f[b]) /\ SeqFits(f[b], H, b)
    <2>1. \A b \in branches : \E W : Typing(r, W) /\ SeqFits(W, H, b)
        BY DEF Safe
    <2>2. QED
        BY <1>3, <2>1, Zenon
<1>5. PICK U : U = UNION {f[b] : b \in branches}
    OBVIOUS
<1>6. Typing(r, U)
    BY <1>4, <1>5, TypingsJoin
<1>7. \A b \in branches : f[b] \subseteq U
    BY <1>5
<1>8. \A b \in branches : SeqFits(U, H, b)
    BY <1>4, <1>7, FitsLess
<1>9. Allowed(r, U, Enter(H, s), s)
    BY <1>2, <1>8 DEF Allowed, Enter
<1>10. QED
    BY <1>1, <1>6, <1>9, SafeStep

\* A loop over the entries of a map.
LEMMA SafeEach ==
    ASSUME NEW r, NEW H, NEW map \in Entries, NEW mode, NEW body,
           mode # "keys" => Clear(Besides(H, map), map, mode),
           \A u \in Uri :
               Safe(r, Besides(H, map) \cup (IF mode = "keys" THEN {} ELSE {Visiting(map, u, mode)}), body[u])
    PROVE  Safe(r, H, <<Each(map, mode, body)>>)
<1>1. PICK s : s = Each(map, mode, body)
    OBVIOUS
<1>2. s.op = "each" /\ s.map = map /\ s.mode = mode /\ s.body = body
    BY <1>1 DEF Each
<1> DEFINE G(u) == Besides(H, map) \cup (IF mode = "keys" THEN {} ELSE {Visiting(map, u, mode)})
<1>3. PICK f : f = [u \in Uri |-> CHOOSE W : Typing(r, W) /\ SeqFits(W, G(u), body[u])]
    OBVIOUS
<1>4. ASSUME NEW u \in Uri
      PROVE  Typing(r, f[u]) /\ SeqFits(f[u], G(u), body[u])
    <2>1. \E W : Typing(r, W) /\ SeqFits(W, G(u), body[u])
        BY DEF Safe
    <2>2. f[u] = CHOOSE W : Typing(r, W) /\ SeqFits(W, G(u), body[u])
        BY <1>3
    <2> HIDE DEF G
    <2>3. QED
        BY <2>1, <2>2, Zenon
<1>5. PICK U : U = UNION {f[u] : u \in Uri}
    OBVIOUS
<1>6. Typing(r, U)
    BY <1>4, <1>5, TypingsJoin
<1>7. ASSUME NEW u \in Uri
      PROVE  SeqFits(U, G(u), body[u])
    <2>1. f[u] \subseteq U
        BY <1>5
    <2> HIDE DEF G
    <2>2. QED
        BY <1>4, <2>1, FitsLess
<1>8. Allowed(r, U, Enter(H, s), s)
    BY <1>2, <1>7 DEF Allowed, Enter
<1>9. QED
    BY <1>1, <1>6, <1>8, SafeStep

\* One program after another.
LEMMA SafeJoin ==
    ASSUME NEW r, NEW H, NEW G, NEW p, NEW q, Safe(r, H, p), Safe(r, G, q),
           \A g \in H : g \in G \/ \E j \in 1..Len(p) : Drops(p[j], g)
    PROVE  Safe(r, H, p \o q)
<1>1. PICK V, W : Typing(r, V) /\ SeqFits(V, H, p) /\ Typing(r, W) /\ SeqFits(W, G, q)
    BY DEF Safe
<1>2. PICK U : U = V \cup W
    OBVIOUS
<1>3. Typing(r, U)
    <2>1. \A X \in {V, W} : Typing(r, X)
        BY <1>1
    <2>2. U = UNION {V, W}
        BY <1>2
    <2>3. QED
        BY <2>1, <2>2, TypingsJoin
<1>4. SeqFits(U, H, p) /\ SeqFits(U, G, q)
    BY <1>1, <1>2, FitsLess
<1>5. SeqFits(U, H, p \o q)
    BY <1>4, FitsJoin
<1>6. QED
    BY <1>3, <1>5 DEF Safe

\* One that is safe with more guards is so with fewer.
LEMMA SafeLess ==
    ASSUME NEW r, NEW H, NEW G, G \subseteq H, NEW p, Safe(r, H, p)
    PROVE  Safe(r, G, p)
BY FitsLess DEF Safe

\* Where no step depends on what another drops.
LEMMA SafeBoth ==
    ASSUME NEW r, NEW H, NEW p, NEW q, Safe(r, H, p), Safe(r, H, q)
    PROVE  Safe(r, H, p \o q)
BY SafeJoin

\* After a drop.
LEMMA SafeAfterDrop ==
    ASSUME NEW r, NEW H, NEW G, NEW map, NEW key, NEW q, Safe(r, G, q),
           \A g \in H : g \in G \/ (g.map = map /\ g.key = key /\ g.of = "get")
    PROVE  Safe(r, H, <<Drop(map, key)>> \o q)
<1>1. PICK p : p = <<Drop(map, key)>>
    OBVIOUS
<1>2. Len(p) = 1 /\ p[1].op = "drop" /\ p[1].map = map /\ p[1].key = key
    BY <1>1 DEF Drop
<1>3. \A g \in H : g \in G \/ \E j \in 1..Len(p) : Drops(p[j], g)
    BY <1>2 DEF Drops
<1>4. Safe(r, H, p)
    BY <1>1, SafeDrop
<1>5. QED
    BY <1>1, <1>3, <1>4, SafeJoin

\* Tuples of steps, one step after the other.
LEMMA Pairs ==
    ASSUME NEW a, NEW b
    PROVE  <<a, b>> = <<a>> \o <<b>>
<1>1. PICK p, q : p = <<a, b>> /\ q = <<a>> \o <<b>>
    OBVIOUS
<1>2. IsSeq(p) /\ Len(p) = 2 /\ p[1] = a /\ p[2] = b
    BY <1>1, Tuples
<1>3. IsSeq(q) /\ Len(q) = 2 /\ q[1] = a /\ q[2] = b
    <2>1. /\ IsSeq(<<a>>) /\ Len(<<a>>) = 1 /\ <<a>>[1] = a
          /\ IsSeq(<<b>>) /\ Len(<<b>>) = 1
          /\ <<b>>[1] = b
        BY Tuples
    <2>2. /\ IsSeq(q) /\ Len(q) = 1 + 1
          /\ \A i \in 1..1 : q[i] = <<a>>[i]
          /\ \A i \in 1..1 : q[1 + i] = <<b>>[i]
        BY <1>1, <2>1, ConcatFacts
    <2>3. QED
        BY <2>1, <2>2
<1>4. \A i \in 1..Len(p) : p[i] = q[i]
    BY <1>2, <1>3
<1>5. QED
    BY <1>1, <1>2, <1>3, <1>4, SameSequences

\* Three steps.
LEMMA Triples ==
    ASSUME NEW a, NEW b, NEW c
    PROVE  <<a, b, c>> = <<a>> \o <<b, c>>
<1>1. PICK p, q : p = <<a, b, c>> /\ q = <<a>> \o <<b, c>>
    OBVIOUS
<1>2. IsSeq(p) /\ Len(p) = 3 /\ p[1] = a /\ p[2] = b /\ p[3] = c
    BY <1>1, Tuples
<1>3. IsSeq(q) /\ Len(q) = 3 /\ q[1] = a /\ q[2] = b /\ q[3] = c
    <2>1. /\ IsSeq(<<a>>) /\ Len(<<a>>) = 1 /\ <<a>>[1] = a
          /\ IsSeq(<<b, c>>) /\ Len(<<b, c>>) = 2
          /\ <<b, c>>[1] = b /\ <<b, c>>[2] = c
        BY Tuples
    <2>2. /\ IsSeq(q) /\ Len(q) = 1 + 2
          /\ \A i \in 1..1 : q[i] = <<a>>[i]
          /\ \A i \in 1..2 : q[1 + i] = <<b, c>>[i]
        BY <1>1, <2>1, ConcatFacts
    <2>3. QED
        BY <2>1, <2>2
<1>4. \A i \in 1..Len(p) : p[i] = q[i]
    BY <1>2, <1>3
<1>5. QED
    BY <1>1, <1>2, <1>3, <1>4, SameSequences

\* Four steps.
LEMMA Fours ==
    ASSUME NEW a, NEW b, NEW c, NEW d
    PROVE  <<a, b, c, d>> = <<a>> \o <<b, c, d>>
<1>1. PICK p, q : p = <<a, b, c, d>> /\ q = <<a>> \o <<b, c, d>>
    OBVIOUS
<1>2. IsSeq(p) /\ Len(p) = 4 /\ p[1] = a /\ p[2] = b /\ p[3] = c /\ p[4] = d
    BY <1>1, Tuples
<1>3. IsSeq(q) /\ Len(q) = 4 /\ q[1] = a /\ q[2] = b /\ q[3] = c /\ q[4] = d
    <2>1. /\ IsSeq(<<a>>) /\ Len(<<a>>) = 1 /\ <<a>>[1] = a
          /\ IsSeq(<<b, c, d>>) /\ Len(<<b, c, d>>) = 3
          /\ <<b, c, d>>[1] = b /\ <<b, c, d>>[2] = c /\ <<b, c, d>>[3] = d
        BY Tuples
    <2>2. /\ IsSeq(q) /\ Len(q) = 1 + 3
          /\ \A i \in 1..1 : q[i] = <<a>>[i]
          /\ \A i \in 1..3 : q[1 + i] = <<b, c, d>>[i]
        BY <1>1, <2>1, ConcatFacts
    <2>3. QED
        BY <2>1, <2>2
<1>4. \A i \in 1..Len(p) : p[i] = q[i]
    BY <1>2, <1>3
<1>5. QED
    BY <1>1, <1>2, <1>3, <1>4, SameSequences

\* Five steps.
LEMMA Fives ==
    ASSUME NEW a, NEW b, NEW c, NEW d, NEW e
    PROVE  <<a, b, c, d, e>> = <<a>> \o <<b, c, d, e>>
<1>1. PICK p, q : p = <<a, b, c, d, e>> /\ q = <<a>> \o <<b, c, d, e>>
    OBVIOUS
<1>2. IsSeq(p) /\ Len(p) = 5 /\ p[1] = a /\ p[2] = b /\ p[3] = c /\ p[4] = d /\ p[5] = e
    BY <1>1, Tuples
<1>3. IsSeq(q) /\ Len(q) = 5 /\ q[1] = a /\ q[2] = b /\ q[3] = c /\ q[4] = d /\ q[5] = e
    <2>1. /\ IsSeq(<<a>>) /\ Len(<<a>>) = 1 /\ <<a>>[1] = a
          /\ IsSeq(<<b, c, d, e>>) /\ Len(<<b, c, d, e>>) = 4
          /\ <<b, c, d, e>>[1] = b /\ <<b, c, d, e>>[2] = c /\ <<b, c, d, e>>[3] = d /\ <<b, c, d, e>>[4] = e
        BY Tuples
    <2>2. /\ IsSeq(q) /\ Len(q) = 1 + 4
          /\ \A i \in 1..1 : q[i] = <<a>>[i]
          /\ \A i \in 1..4 : q[1 + i] = <<b, c, d, e>>[i]
        BY <1>1, <2>1, ConcatFacts
    <2>3. QED
        BY <2>1, <2>2
<1>4. \A i \in 1..Len(p) : p[i] = q[i]
    BY <1>2, <1>3
<1>5. QED
    BY <1>1, <1>2, <1>3, <1>4, SameSequences

\* Six steps.
LEMMA Sixes ==
    ASSUME NEW a, NEW b, NEW c, NEW d, NEW e, NEW f
    PROVE  <<a, b, c, d, e, f>> = <<a>> \o <<b, c, d, e, f>>
<1>1. PICK p, q : p = <<a, b, c, d, e, f>> /\ q = <<a>> \o <<b, c, d, e, f>>
    OBVIOUS
<1>2. IsSeq(p) /\ Len(p) = 6 /\ p[1] = a /\ p[2] = b /\ p[3] = c /\ p[4] = d /\ p[5] = e /\ p[6] = f
    BY <1>1, Tuples
<1>3. IsSeq(q) /\ Len(q) = 6 /\ q[1] = a /\ q[2] = b /\ q[3] = c /\ q[4] = d /\ q[5] = e /\ q[6] = f
    <2>1. /\ IsSeq(<<a>>) /\ Len(<<a>>) = 1 /\ <<a>>[1] = a
          /\ IsSeq(<<b, c, d, e, f>>) /\ Len(<<b, c, d, e, f>>) = 5
          /\ <<b, c, d, e, f>>[1] = b /\ <<b, c, d, e, f>>[2] = c /\ <<b, c, d, e, f>>[3] = d
          /\ <<b, c, d, e, f>>[4] = e /\ <<b, c, d, e, f>>[5] = f
        BY Tuples
    <2>2. /\ IsSeq(q) /\ Len(q) = 1 + 5
          /\ \A i \in 1..1 : q[i] = <<a>>[i]
          /\ \A i \in 1..5 : q[1 + i] = <<b, c, d, e, f>>[i]
        BY <1>1, <2>1, ConcatFacts
    <2>3. QED
        BY <2>1, <2>2
<1>4. \A i \in 1..Len(p) : p[i] = q[i]
    BY <1>2, <1>3
<1>5. QED
    BY <1>1, <1>2, <1>3, <1>4, SameSequences

-----------------------------------------------------------------------------
(* What the handlers share *)

\* There are guards for reading at most.
Reads(H) == \A g \in H : g.mode # "write"

\* What a handler of a request holds while it reads a file.
Both(u) == {Taken("ast_map", u, "read"), Taken("doc_map", u, "read")}

\* Something that is done or not.
LEMMA SafeMaybe ==
    ASSUME NEW r, NEW H, NEW p, Safe(r, H, p)
    PROVE  Safe(r, H, <<Maybe(p)>>)
<1>1. \A b \in {<<>>, p} : Safe(r, H, b)
    BY SafeNothing
<1>2. QED
    BY <1>1, SafeOneOf DEF Maybe

\* An entry that is read where it is there.
LEMMA SafeIf ==
    ASSUME NEW r, NEW H, Reads(H), NEW map \in Entries, NEW key \in Uri, NEW found,
           Safe(r, Look(H, map, key, "read"), found)
    PROVE  Safe(r, H, <<If(map, key, found)>>)
<1>1. Clear(H, map, "read")
    BY DEF Reads, Clear
<1>2. QED
    BY <1>1, SafeGet, SafeNothing DEF If

\* An entry without which the handler ends.
LEMMA SafeNeed ==
    ASSUME NEW r, NEW H, Reads(H), NEW map \in Entries, NEW key \in Uri, NEW found,
           Safe(r, Look(H, map, key, "read"), found)
    PROVE  Safe(r, H, <<Need(map, key, found)>>)
<1>1. Clear(H, map, "read")
    BY DEF Reads, Clear
<1>2. QED
    BY <1>1, SafeGet, SafeReturn DEF Need

\* A shard that is read.
LEMMA SafeRead ==
    ASSUME NEW r, NEW H, Reads(H), NEW map, NEW key
    PROVE  Safe(r, H, <<Touch(map, key, "read")>>)
<1>1. Clear(H, map, "read")
    BY DEF Reads, Clear
<1>2. QED
    BY <1>1, SafeTouch

\* The file of a handler's message, its Ast and its text.
LEMMA SafeReading ==
    ASSUME NEW r, NEW H, Reads(H), NEW u \in Uri, NEW rest,
           Safe(r, (H \ {Unseen("ast_map", u), Unseen("doc_map", u)}) \cup Both(u), rest)
    PROVE  Safe(r, H, Reading(u, rest))
<1>1. PICK G : G = Look(H, "ast_map", u, "read")
    OBVIOUS
<1>2. Reads(G)
    BY <1>1 DEF Reads, Look, Taken
<1>3. Look(G, "doc_map", u, "read") \subseteq (H \ {Unseen("ast_map", u), Unseen("doc_map", u)}) \cup Both(u)
    BY <1>1 DEF Look, Both, Taken, Unseen
<1>4. Safe(r, Look(G, "doc_map", u, "read"), rest)
    BY <1>3, SafeLess
<1>5. Safe(r, G, <<Need("doc_map", u, rest)>>)
    BY <1>2, <1>4, SafeNeed DEF Entries
<1>6. QED
    BY <1>1, <1>5, SafeNeed DEF Reading, Entries

\* The handlers that have looked at nothing yet.
LEMMA SafeRequest ==
    ASSUME NEW r, NEW u \in Uri, NEW rest, Safe(r, Both(u), rest)
    PROVE  Safe(r, {}, Reading(u, rest))
<1>1. Reads({})
    BY DEF Reads
<1>2. ({} \ {Unseen("ast_map", u), Unseen("doc_map", u)}) \cup Both(u) = Both(u)
    OBVIOUS
<1>3. QED
    BY <1>1, <1>2, SafeReading

\* The stored errors are brought up to date and read: nobody keeps a guard of them.
LEMMA SafeDiagnostics ==
    ASSUME NEW r, NEW H, Clear(H, "on_save_or_open_errors", "write"), NEW u
    PROVE  Safe(r, H, compute_diagnostics(u))
<1>1. Clear(H, "on_save_or_open_errors", "read")
    BY DEF Clear
<1>2. PICK a, b : /\ a = Touch("on_save_or_open_errors", u, "write")
                  /\ b = Touch("on_save_or_open_errors", u, "read")
    OBVIOUS
<1>3. Safe(r, H, <<a>>) /\ Safe(r, H, <<b>>)
    BY <1>1, <1>2, SafeTouch
<1>4. Safe(r, H, <<a, b>>)
    BY <1>3, Pairs, SafeBoth
<1>5. QED
    BY <1>2, <1>4, SafeNothing DEF compute_diagnostics

\* A file that is loaded: by who holds no guard of the maps, or carelessly.
LEMMA SafeLoad ==
    ASSUME NEW r, NEW H, H = {} \/ r \in Careless, NEW u \in Uri
    PROVE  /\ Safe(r, H, <<Insert("ast_map", u), Insert("doc_map", u)>>)
           /\ Safe(r, H, <<Insert("doc_map", u), Insert("ast_map", u)>>)
<1>1. PICK a, b : a = Insert("ast_map", u) /\ b = Insert("doc_map", u)
    OBVIOUS
<1>2. \A m \in Entries : Clear(H, m, "write") \/ r \in Careless
    BY DEF Clear
<1>3. Safe(r, H, <<a>>) /\ Safe(r, H, <<b>>)
    BY <1>1, <1>2, SafeInsert DEF Entries
<1>4. Safe(r, H, <<a, b>>) /\ Safe(r, H, <<b, a>>)
    BY <1>3, Pairs, SafeBoth
<1>5. QED
    BY <1>1, <1>4

\* ensure_ast.
LEMMA SafeEnsure ==
    ASSUME NEW r, NEW u \in Uri
    PROVE  Safe(r, {}, ensure_ast(u))
<1>1. Safe(r, {}, <<Maybe(<<Insert("doc_map", u), Insert("ast_map", u)>>)>>)
    BY SafeLoad, SafeMaybe
<1>2. Clear({}, "ast_map", "read")
    BY DEF Clear
<1>3. QED
    BY <1>1, <1>2, SafeGet, SafeNothing DEF ensure_ast, Entries

\* The file of a require is loaded over the guards of the handler's own file.
LEMMA SafeLookup ==
    ASSUME NEW r \in Careless, NEW H, Reads(H), NEW u \in Uri, NEW some, Safe(r, H, some)
    PROVE  Safe(r, H, get_or_parse_ast(u, some))
<1>1. PICK f : f = <<Drop("ast_map", u)>> \o some
    OBVIOUS
<1>2. PICK l : l = <<Insert("ast_map", u), Insert("doc_map", u)>> \o some
    OBVIOUS
<1>3. Safe(r, Look(H, "ast_map", u, "read"), f)
    <2>1. \A g \in Look(H, "ast_map", u, "read") :
              g \in H \/ (g.map = "ast_map" /\ g.key = u /\ g.of = "get")
        BY DEF Look, Taken
    <2>2. QED
        BY <1>1, <2>1, SafeAfterDrop
<1>4. Safe(r, H, l)
    BY <1>2, SafeLoad, SafeBoth
<1>5. Clear(H, "ast_map", "read")
    BY DEF Reads, Clear
<1>6. Safe(r, H, <<Maybe(l)>>)
    BY <1>4, SafeMaybe
<1>7. QED
    BY <1>1, <1>2, <1>3, <1>5, <1>6, SafeGet DEF get_or_parse_ast, Entries

\* A file that goes, in the order of each of the handlers.
LEMMA SafeForget ==
    ASSUME NEW r, r \notin LooksAgain, NEW u
    PROVE  /\ Safe(r, {}, <<Erase("ast_map", u), Erase("doc_map", u),
                            Touch("on_save_or_open_errors", u, "write")>>)
           /\ Safe(r, {}, <<Erase("doc_map", u), Erase("ast_map", u),
                            Touch("on_save_or_open_errors", u, "write")>>)
<1>1. PICK a, b, c : /\ a = Erase("ast_map", u) /\ b = Erase("doc_map", u)
                     /\ c = Touch("on_save_or_open_errors", u, "write")
    OBVIOUS
<1>2. \A m : Clear({}, m, "write")
    BY DEF Clear
<1>3. Safe(r, {}, <<a>>) /\ Safe(r, {}, <<b>>) /\ Safe(r, {}, <<c>>)
    BY <1>1, <1>2, SafeRemove, SafeTouch DEF Entries
<1>4. Safe(r, {}, <<a, c>>) /\ Safe(r, {}, <<b, c>>)
    BY <1>3, Pairs, SafeBoth
<1>5. Safe(r, {}, <<a, b, c>>) /\ Safe(r, {}, <<b, a, c>>)
    <2>1. <<a, b, c>> = <<a>> \o <<b, c>> /\ <<b, a, c>> = <<b>> \o <<a, c>>
        BY Triples
    <2>2. Safe(r, {}, <<a>> \o <<b, c>>) /\ Safe(r, {}, <<b>> \o <<a, c>>)
        BY <1>3, <1>4, SafeBoth
    <2>3. QED
        BY <2>1, <2>2
<1>6. QED
    BY <1>1, <1>5

\* A file of the index is read again.
LEMMA SafeReindex ==
    ASSUME NEW r, r \notin LooksAgain, NEW u \in Uri
    PROVE  Safe(r, {}, reindex_from_disk(u))
<1>1. PICK a, b : /\ a = Touch("doc_map", u, "read")
                  /\ b = Maybe(<<Insert("ast_map", u), Insert("doc_map", u)>>)
    OBVIOUS
<1>2. Clear({}, "doc_map", "read")
    BY DEF Clear
<1>3. Safe(r, {}, <<a>>) /\ Safe(r, {}, <<b>>)
    BY <1>1, <1>2, SafeTouch, SafeLoad, SafeMaybe
<1>4. Safe(r, {}, <<a, b>>)
    BY <1>3, Pairs, SafeBoth
<1>5. PICK c : c = <<Erase("ast_map", u), Erase("doc_map", u), Touch("on_save_or_open_errors", u, "write")>>
    OBVIOUS
<1>6. \A p \in {c, <<a, b>>} : Safe(r, {}, p)
    BY <1>4, <1>5, SafeForget
<1>7. Safe(r, {}, <<OneOf({c, <<a, b>>})>>)
    BY <1>6, SafeOneOf
<1>8. QED
    BY <1>1, <1>5, <1>7 DEF reindex_from_disk

\* What is safe is a sequence, and so are the diagnostics.
LEMMA SafeIsSeq ==
    ASSUME NEW r, NEW H, NEW p, Safe(r, H, p)
    PROVE  IsSeq(p)
BY DEF Safe, SeqFits

\* The guards of both maps are dropped, then the client is told.
LEMMA SafeTelling ==
    ASSUME NEW r, r \notin LooksAgain, NEW H, NEW a, NEW b, NEW k, NEW l,
           \A g \in H : g.of = "get" /\ ((g.map = a /\ g.key = k) \/ (g.map = b /\ g.key = l))
    PROVE  Safe(r, H, <<Drop(a, k), Drop(b, l), Send>>)
<1>1. PICK d, e : d = Drop(a, k) /\ e = Drop(b, l)
    OBVIOUS
<1>2. PICK G : G = {g \in H : g.map = b /\ g.key = l /\ g.of = "get"}
    OBVIOUS
<1>3. Safe(r, {}, <<Send>>)
    BY SafeAwait
<1>4. Safe(r, G, <<e>> \o <<Send>>)
    BY <1>1, <1>2, <1>3, SafeAfterDrop
<1>5. Safe(r, G, <<e, Send>>)
    BY <1>4, Pairs
<1>6. Safe(r, H, <<d>> \o <<e, Send>>)
    BY <1>1, <1>2, <1>5, SafeAfterDrop
<1>7. <<d, e, Send>> = <<d>> \o <<e, Send>>
    BY Triples
<1>8. QED
    BY <1>1, <1>6, <1>7

\* The diagnostics of a file are computed under its guards, which go before the
\* client is told (refresh_ast_globals_and_diagnostics, did_save).
LEMMA SafePublishing ==
    ASSUME NEW r, r \notin LooksAgain, NEW u \in Uri, NEW a \in Entries, NEW b \in Entries
    PROVE  Safe(r, {}, <<If(a, u, <<If(b, u, compute_diagnostics(u)
                             \o <<Drop("doc_map", u), Drop("ast_map", u), Send>>)>>)>>)
<1>1. PICK H, G : /\ G = Look({}, a, u, "read")
                  /\ H = Look(G, b, u, "read")
    OBVIOUS
<1>2. \A g \in H : g = Taken(a, u, "read") \/ g = Taken(b, u, "read")
    BY <1>1 DEF Look
<1>3. \A g \in H : /\ g.mode = "read" /\ g.of = "get" /\ g.key = u
                   /\ g.map = "doc_map" \/ g.map = "ast_map"
    BY <1>2 DEF Taken, Entries
<1>4. Clear(H, "on_save_or_open_errors", "write")
    BY <1>3 DEF Clear
<1>5. Safe(r, H, compute_diagnostics(u))
    BY <1>4, SafeDiagnostics
<1>6. Safe(r, H, <<Drop("doc_map", u), Drop("ast_map", u), Send>>)
    BY <1>3, SafeTelling
<1>7. PICK p : p = compute_diagnostics(u) \o <<Drop("doc_map", u), Drop("ast_map", u), Send>>
    OBVIOUS
<1>8. Safe(r, H, p)
    BY <1>5, <1>6, <1>7, SafeBoth
<1>9. Reads(G) /\ Reads({})
    BY <1>1 DEF Reads, Look, Taken
<1>10. Safe(r, G, <<If(b, u, p)>>)
    BY <1>1, <1>8, <1>9, SafeIf
<1>11. Safe(r, {}, <<If(a, u, <<If(b, u, p)>>)>>)
    BY <1>1, <1>9, <1>10, SafeIf
<1>12. QED
    BY <1>7, <1>11

\* refresh_ast_globals_and_diagnostics: every Ast is written, then every file is
\* published, from a copy of the keys.
LEMMA SafeRefresh ==
    ASSUME NEW r, r \notin LooksAgain
    PROVE  Safe(r, {}, refresh_ast_globals_and_diagnostics)
<1>1. PICK f : f = [u \in Uri |-> <<>>]
    OBVIOUS
<1>2. PICK g : g = [u \in Uri |-> <<If("doc_map", u, <<If("ast_map", u,
            compute_diagnostics(u) \o <<Drop("doc_map", u), Drop("ast_map", u), Send>>)>>)>>]
    OBVIOUS
<1>3. Besides({}, "ast_map") = {} /\ Clear({}, "ast_map", "write")
    BY DEF Besides, Clear
<1>4. ASSUME NEW u \in Uri
      PROVE  Safe(r, Besides({}, "ast_map")
                       \cup (IF "write" = "keys" THEN {} ELSE {Visiting("ast_map", u, "write")}), f[u])
    BY <1>1, SafeNothing
<1>5. Safe(r, {}, <<Each("ast_map", "write", f)>>)
    BY <1>3, <1>4, SafeEach DEF Entries
<1>6. ASSUME NEW u \in Uri
      PROVE  Safe(r, Besides({}, "ast_map")
                       \cup (IF "keys" = "keys" THEN {} ELSE {Visiting("ast_map", u, "keys")}), g[u])
    <2>1. Safe(r, {}, <<If("doc_map", u, <<If("ast_map", u, compute_diagnostics(u)
                             \o <<Drop("doc_map", u), Drop("ast_map", u), Send>>)>>)>>)
        BY SafePublishing DEF Entries
    <2>2. Safe(r, {}, g[u])
        BY <1>2, <2>1
    <2>3. Besides({}, "ast_map")
              \cup (IF "keys" = "keys" THEN {} ELSE {Visiting("ast_map", u, "keys")}) = {}
        BY <1>3
    <2>4. QED
        BY <2>2, <2>3
<1>7. Safe(r, {}, <<Each("ast_map", "keys", g)>>)
    BY <1>6, SafeEach DEF Entries
<1>8. PICK a, b : a = Each("ast_map", "write", f) /\ b = Each("ast_map", "keys", g)
    OBVIOUS
<1>9. Safe(r, {}, <<a, b>>)
    BY <1>5, <1>7, <1>8, Pairs, SafeBoth
<1>10. QED
    BY <1>1, <1>2, <1>8, <1>9 DEF refresh_ast_globals_and_diagnostics

\* A loop over the entries of a map that only reads, with a guard of each.
LEMMA SafeForEach ==
    ASSUME NEW r, NEW H, Reads(H), NEW map \in Entries, NEW body,
           \A u \in Uri : Safe(r, Besides(H, map) \cup {Visiting(map, u, "read")}, body[u])
    PROVE  Safe(r, H, <<Each(map, "read", body)>>)
<1>1. Clear(Besides(H, map), map, "read")
    BY DEF Reads, Clear, Besides
<1>2. "read" # "keys"
    OBVIOUS
<1>3. \A u \in Uri :
          Safe(r, Besides(H, map) \cup (IF "read" = "keys" THEN {} ELSE {Visiting(map, u, "read")}), body[u])
    BY <1>2
<1>4. QED
    BY <1>1, <1>3, SafeEach

\* A loop that does nothing but look.
LEMMA SafeScan ==
    ASSUME NEW r, NEW H, Reads(H), NEW map \in Entries
    PROVE  Safe(r, H, <<ForEach(map, Nothing)>>)
<1>1. PICK f : f = [u \in Uri |-> <<>>]
    OBVIOUS
<1>2. \A u \in Uri : Safe(r, Besides(H, map) \cup {Visiting(map, u, "read")}, f[u])
    BY <1>1, SafeNothing
<1>3. Safe(r, H, <<Each(map, "read", f)>>)
    BY <1>2, SafeForEach
<1>4. QED
    BY <1>1, <1>3 DEF ForEach, Nothing

\* The client is awaited.
LEMMA SafeSend ==
    ASSUME NEW r, r \notin LooksAgain
    PROVE  Safe(r, {}, <<Send>>) /\ Safe(r, {}, <<Answer>>)
BY SafeAwait

\* reload_flsproject: the guard of the project file goes before it is parsed.
LEMMA SafeReload ==
    ASSUME NEW r, r \notin LooksAgain
    PROVE  Safe(r, {}, reload_flsproject)
<1> DEFINE missing(p) == <<Insert("ast_map", p)>>
           look(p) == Get("ast_map", p, "read", <<>>, missing(p))
           body(p) == <<Drop("doc_map", p), look(p)>> \o compute_diagnostics(p) \o <<Send>>
           reload(p) == <<Maybe(<<Send>>), If("doc_map", p, body(p))>> \o refresh_ast_globals_and_diagnostics
<1>1. ASSUME NEW p \in Project
      PROVE  Safe(r, {}, reload(p))
    <2>1. p \in Uri
        BY UriAssumption
    <2>2. \A m : Clear({}, m, "read") /\ Clear({}, m, "write")
        BY DEF Clear
    <2>3. Safe(r, {}, missing(p))
        BY <2>1, <2>2, SafeInsert DEF Entries
    <2>4. Safe(r, {}, <<look(p)>>)
        <3>1. PICK q : q = missing(p)
            OBVIOUS
        <3>2. Safe(r, {}, <<Get("ast_map", p, "read", <<>>, q)>>)
            BY <2>1, <2>2, <2>3, <3>1, SafeGet, SafeNothing DEF Entries
        <3>3. QED
            BY <3>1, <3>2
    <2>5. PICK d, l, c : /\ d = Drop("doc_map", p) /\ l = look(p) /\ c = compute_diagnostics(p)
        OBVIOUS
    <2>6. Safe(r, {}, <<l>>) /\ Safe(r, {}, c) /\ Safe(r, {}, <<Send>>)
        BY <2>2, <2>4, <2>5, SafeDiagnostics, SafeSend
    <2>7. Safe(r, {}, <<l>> \o c) /\ Safe(r, {}, (<<l>> \o c) \o <<Send>>)
        BY <2>6, SafeBoth
    <2>8. (<<d, l>> \o c) \o <<Send>> = <<d>> \o ((<<l>> \o c) \o <<Send>>)
        <3>1. IsSeq(<<d>>) /\ IsSeq(<<l>>) /\ IsSeq(c) /\ IsSeq(<<Send>>) /\ IsSeq(<<l>> \o c)
            BY <2>6, <2>7, Tuples, SafeIsSeq
        <3>2. <<d, l>> = <<d>> \o <<l>>
            BY Pairs
        <3>3. <<d, l>> \o c = <<d>> \o (<<l>> \o c)
            BY <3>1, <3>2, JoinsAssociate
        <3>4. QED
            BY <3>1, <3>3, JoinsAssociate
    <2>9. PICK b : b = body(p)
        OBVIOUS
    <2>10. b = <<d>> \o ((<<l>> \o c) \o <<Send>>)
        BY <2>5, <2>8, <2>9
    <2>11. Safe(r, Look({}, "doc_map", p, "read"), b)
        <3>1. \A g \in Look({}, "doc_map", p, "read") : g.map = "doc_map" /\ g.key = p /\ g.of = "get"
            BY DEF Look, Taken
        <3>2. QED
            BY <2>5, <2>7, <2>10, <3>1, SafeAfterDrop
    <2>12. Reads({})
        BY DEF Reads
    <2>13. Safe(r, {}, <<If("doc_map", p, b)>>)
        BY <2>1, <2>11, <2>12, SafeIf DEF Entries
    <2>14. PICK x, y : x = Maybe(<<Send>>) /\ y = If("doc_map", p, b)
        OBVIOUS
    <2>15. Safe(r, {}, <<x>>) /\ Safe(r, {}, <<y>>)
        BY <2>6, <2>13, <2>14, SafeMaybe
    <2>16. Safe(r, {}, <<x, y>>)
        BY <2>15, Pairs, SafeBoth
    <2>17. Safe(r, {}, <<x, y>> \o refresh_ast_globals_and_diagnostics)
        BY <2>16, SafeRefresh, SafeBoth
    <2>18. QED
        BY <2>9, <2>14, <2>17
<1>2. PICK B : B = {<<>>} \cup {reload(p) : p \in Project}
    OBVIOUS
<1>3. \A b \in B : Safe(r, {}, b)
    <2> HIDE DEF reload
    <2>1. QED
        BY <1>1, <1>2, SafeNothing
<1>4. PICK x, y : x = ForEach("doc_map", Nothing) /\ y = OneOf(B)
    OBVIOUS
<1>5. Reads({})
    BY DEF Reads
<1>6. Safe(r, {}, <<x>>) /\ Safe(r, {}, <<y>>)
    BY <1>3, <1>4, <1>5, SafeScan, SafeOneOf DEF Entries
<1>7. Safe(r, {}, <<x, y>>)
    BY <1>6, Pairs, SafeBoth
<1>8. reload_flsproject = <<x, y>>
    BY <1>2, <1>4 DEF reload_flsproject
<1>9. QED
    BY <1>7, <1>8

\* And where the file was a project file.
LEMMA SafeIfProject ==
    ASSUME NEW r, r \notin LooksAgain, NEW u
    PROVE  Safe(r, {}, IfProject(u))
BY SafeReload, SafeNothing DEF IfProject

-----------------------------------------------------------------------------
(* Notifications *)

\* did_open.
LEMMA SafeOpen ==
    ASSUME NEW r, r \notin LooksAgain, NEW u \in Uri
    PROVE  Safe(r, {}, did_open(u))
<1>1. PICK i, c, t, j : /\ i = Insert("doc_map", u) /\ c = compute_diagnostics(u)
                        /\ t = Touch("on_save_or_open_errors", u, "write") /\ j = Insert("ast_map", u)
    OBVIOUS
<1>2. \A m : Clear({}, m, "write")
    BY DEF Clear
<1>3. Safe(r, {}, <<i>>) /\ Safe(r, {}, c) /\ Safe(r, {}, <<t>>) /\ Safe(r, {}, <<j>>)
    BY <1>1, <1>2, SafeInsert, SafeTouch, SafeDiagnostics DEF Entries
<1>4. Safe(r, {}, <<Send, i>>) /\ Safe(r, {}, <<t, j>>)
    BY <1>3, SafeSend, Pairs, SafeBoth
<1>5. Safe(r, {}, <<Send, t, j>>)
    <2>1. <<Send, t, j>> = <<Send>> \o <<t, j>>
        BY Triples
    <2>2. Safe(r, {}, <<Send>> \o <<t, j>>)
        BY <1>4, SafeSend, SafeBoth
    <2>3. QED
        BY <2>1, <2>2
<1>6. Safe(r, {}, <<Send, i>> \o c)
    BY <1>3, <1>4, SafeBoth
<1>7. Safe(r, {}, (<<Send, i>> \o c) \o <<Send, t, j>>)
    BY <1>5, <1>6, SafeBoth
<1>8. Safe(r, {}, ((<<Send, i>> \o c) \o <<Send, t, j>>) \o IfProject(u))
    BY <1>7, SafeIfProject, SafeBoth
<1>9. QED
    BY <1>1, <1>8 DEF did_open

\* did_change: the guard for writing is dropped before the diagnostics.
LEMMA SafeChange ==
    ASSUME NEW r, r \notin LooksAgain, NEW u \in Uri
    PROVE  Safe(r, {}, did_change(u))
<1>1. PICK d, c, i, p : /\ d = Drop("doc_map", u) /\ c = compute_diagnostics(u)
                        /\ i = Insert("ast_map", u) /\ p = IfProject(u)
    OBVIOUS
<1>2. \A m : Clear({}, m, "write")
    BY DEF Clear
<1>3. Safe(r, {}, c) /\ Safe(r, {}, <<i>>) /\ Safe(r, {}, p)
    BY <1>1, <1>2, SafeInsert, SafeDiagnostics, SafeIfProject DEF Entries
<1>4. Safe(r, {}, <<i, Send>>)
    BY <1>3, SafeSend, Pairs, SafeBoth
<1>5. Safe(r, {}, c \o <<i, Send>>)
    BY <1>3, <1>4, SafeBoth
<1>6. Safe(r, {}, (c \o <<i, Send>>) \o p)
    BY <1>3, <1>5, SafeBoth
<1>7. ((<<d>> \o c) \o <<i, Send>>) \o p = <<d>> \o ((c \o <<i, Send>>) \o p)
    <2>1. IsSeq(<<d>>) /\ IsSeq(c) /\ IsSeq(<<i, Send>>) /\ IsSeq(p) /\ IsSeq(c \o <<i, Send>>)
        BY <1>3, <1>4, <1>5, Tuples, SafeIsSeq
    <2>2. (<<d>> \o c) \o <<i, Send>> = <<d>> \o (c \o <<i, Send>>)
        BY <2>1, JoinsAssociate
    <2>3. QED
        BY <2>1, <2>2, JoinsAssociate
<1>8. PICK b : b = ((<<d>> \o c) \o <<i, Send>>) \o p
    OBVIOUS
<1>9. Safe(r, Look({}, "doc_map", u, "write"), b)
    <2>1. \A g \in Look({}, "doc_map", u, "write") : g.map = "doc_map" /\ g.key = u /\ g.of = "get"
        BY DEF Look, Taken
    <2>2. QED
        BY <1>1, <1>6, <1>7, <1>8, <2>1, SafeAfterDrop
<1>10. Safe(r, {}, <<Get("doc_map", u, "write", b, <<>>)>>)
    BY <1>2, <1>9, SafeGet, SafeNothing DEF Entries
<1>11. QED
    BY <1>1, <1>8, <1>10 DEF did_change

\* did_save, did_close, and the files that the client watches.
LEMMA SafeFiles ==
    ASSUME NEW r, r \notin LooksAgain, NEW u \in Uri
    PROVE  /\ Safe(r, {}, did_save(u)) /\ Safe(r, {}, did_close(u))
           /\ Safe(r, {}, did_change_watched_files(u))
<1>1. Safe(r, {}, did_save(u))
    <2>1. CASE u \in Project
        BY <2>1, SafeReload DEF did_save
    <2>2. CASE u \notin Project
        BY <2>2, SafePublishing DEF did_save, Entries
    <2>3. QED
        BY <2>1, <2>2
<1>2. Safe(r, {}, did_close(u))
    BY SafeForget DEF did_close
<1>3. PICK a, b, p : /\ a = reindex_from_disk(u)
                     /\ b = <<Erase("ast_map", u), Erase("doc_map", u),
                              Touch("on_save_or_open_errors", u, "write")>>
                     /\ p = IfProject(u)
    OBVIOUS
<1>4. \A q \in {<<>>, a, b} : Safe(r, {}, q)
    BY <1>3, SafeReindex, SafeForget, SafeNothing
<1>5. Safe(r, {}, <<OneOf({<<>>, a, b})>>) /\ Safe(r, {}, p)
    BY <1>3, <1>4, SafeOneOf, SafeIfProject
<1>6. Safe(r, {}, <<OneOf({<<>>, a, b})>> \o p)
    BY <1>5, SafeBoth
<1>7. QED
    BY <1>1, <1>2, <1>3, <1>6 DEF did_change_watched_files

\* What follows the settings: the folders, the client's answer, the configuration.
LEMMA SafeSettings ==
    ASSUME NEW r, r \notin LooksAgain, NEW u \in Uri
    PROVE  /\ Safe(r, {}, did_change_workspace_folders(u)) /\ Safe(r, {}, did_change_configuration(u))
           /\ Safe(r, {}, initialized(u))
<1>1. PICK e, l, f : e = ensure_ast(u) /\ l = reload_flsproject /\ f = refresh_ast_globals_and_diagnostics
    OBVIOUS
<1>2. Safe(r, {}, e) /\ Safe(r, {}, <<Maybe(e)>>) /\ Safe(r, {}, l) /\ Safe(r, {}, f)
    BY <1>1, SafeEnsure, SafeMaybe, SafeReload, SafeRefresh
<1>3. Safe(r, {}, <<Maybe(e)>> \o l) /\ Safe(r, {}, <<Maybe(e)>> \o f)
    BY <1>2, SafeBoth
<1>4. Safe(r, {}, (<<Maybe(e)>> \o l) \o f)
    BY <1>2, <1>3, SafeBoth
<1>5. PICK m : m = Maybe(<<Maybe(e)>> \o f)
    OBVIOUS
<1>6. Safe(r, {}, <<m>>)
    BY <1>3, <1>5, SafeMaybe
<1>7. PICK q : q = <<Answer, m>>
    OBVIOUS
<1>8. Safe(r, {}, q)
    BY <1>6, <1>7, SafeSend, Pairs, SafeBoth
<1>9. q = pull_configuration(u)
    BY <1>1, <1>5, <1>7 DEF pull_configuration
<1>10. Safe(r, {}, q \o l)
    BY <1>2, <1>8, SafeBoth
<1>11. \A b \in {q \o l, (<<Maybe(e)>> \o l) \o f} : Safe(r, {}, b)
    BY <1>4, <1>10
<1>12. Safe(r, {}, <<OneOf({q \o l, (<<Maybe(e)>> \o l) \o f})>>)
    BY <1>11, SafeOneOf
<1>13. Safe(r, {}, <<Send, Answer>>)
    BY SafeSend, Pairs, SafeBoth
<1>14. Safe(r, {}, <<Send, Answer>> \o q)
    BY <1>8, <1>13, SafeBoth
<1>15. Safe(r, {}, (<<Send, Answer>> \o q) \o l)
    BY <1>2, <1>14, SafeBoth
<1>16. Safe(r, {}, ((<<Send, Answer>> \o q) \o l) \o e)
    BY <1>2, <1>15, SafeBoth
<1>17. Safe(r, {}, did_change_workspace_folders(u))
    BY <1>1, <1>3 DEF did_change_workspace_folders
<1>18. Safe(r, {}, did_change_configuration(u))
    BY <1>1, <1>9, <1>12 DEF did_change_configuration
<1>19. Safe(r, {}, initialized(u))
    BY <1>1, <1>9, <1>16 DEF initialized
<1>20. QED
    BY <1>17, <1>18, <1>19

-----------------------------------------------------------------------------
(* Requests *)

\* The requests that read one file.
LEMMA SafeReaders ==
    ASSUME NEW r, NEW u \in Uri, NEW t
    PROVE  /\ Safe(r, {}, Reading(u, <<>>))
           /\ Safe(r, {}, document_link(u, t))
           /\ Safe(r, {}, code_action(u))
<1>1. Reads(Both(u))
    BY DEF Reads, Both, Taken
<1>2. Clear(Both(u), "on_save_or_open_errors", "read")
    BY <1>1 DEF Reads, Clear
<1>3. Safe(r, Both(u), <<Touch("on_save_or_open_errors", u, "read")>>)
    BY <1>2, SafeTouch
<1>4. Safe(r, Both(u), find_file(t))
    BY <1>1, SafeRead DEF find_file
<1>5. PICK f : f = find_file(t)
    OBVIOUS
<1>6. Safe(r, Both(u), <<Maybe(f)>>)
    BY <1>4, <1>5, SafeMaybe
<1>7. Safe(r, Both(u), <<>>)
    BY SafeNothing
<1>8. Safe(r, {}, Reading(u, <<>>))
    BY <1>7, SafeRequest
<1>9. PICK p, q : p = <<Maybe(f)>> /\ q = <<Touch("on_save_or_open_errors", u, "read")>>
    OBVIOUS
<1>10. Safe(r, {}, Reading(u, p)) /\ Safe(r, {}, Reading(u, q))
    BY <1>3, <1>6, <1>9, SafeRequest
<1>11. QED
    BY <1>5, <1>8, <1>9, <1>10 DEF document_link, code_action

\* The requests that read the text of every file.
LEMMA SafeSearch ==
    ASSUME NEW r
    PROVE  Safe(r, {}, symbol) /\ Safe(r, {}, incoming_calls)
<1>1. PICK f : f = [u \in Uri |-> <<Touch("doc_map", u, "read")>>]
    OBVIOUS
<1>2. ASSUME NEW u \in Uri
      PROVE  Safe(r, Besides({}, "ast_map") \cup {Visiting("ast_map", u, "read")}, f[u])
    <2>1. Reads(Besides({}, "ast_map") \cup {Visiting("ast_map", u, "read")})
        BY DEF Reads, Besides, Visiting
    <2>2. QED
        BY <1>1, <2>1, SafeRead
<1>3. Reads({})
    BY DEF Reads
<1>4. Safe(r, {}, <<Each("ast_map", "read", f)>>)
    BY <1>2, <1>3, SafeForEach DEF Entries
<1>5. QED
    BY <1>1, <1>4 DEF symbol, incoming_calls, ForEach

\* execute_command is a refresh, or reads.
LEMMA SafeCommand ==
    ASSUME NEW r, r \notin LooksAgain, NEW u \in Uri
    PROVE  Safe(r, {}, execute_command(u))
<1>1. PICK p, q : p = Reading(u, <<>>) /\ q = refresh_ast_globals_and_diagnostics
    OBVIOUS
<1>2. \A b \in {p, q} : Safe(r, {}, b)
    BY <1>1, SafeReaders, SafeRefresh
<1>3. QED
    BY <1>1, <1>2, SafeOneOf DEF execute_command

\* completion and goto_definition load the file of a require.
LEMMA SafeRequires ==
    ASSUME NEW r \in Careless, NEW u \in Uri, NEW t \in Uri
    PROVE  Safe(r, {}, completion(u, t)) /\ Safe(r, {}, goto_definition(u, t))
<1>1. PICK H : H = Both(u)
    OBVIOUS
<1>2. Reads(H)
    BY <1>1 DEF Reads, Both, Taken
<1>3. PICK f, a, e, s : /\ f = find_file(t) /\ a = get_or_parse_ast(t, <<>>)
                        /\ e = <<ForEach("ast_map", Nothing)>>
                        /\ s = <<Touch("doc_map", Std, "read")>>
    OBVIOUS
<1>4. PICK n : n = <<Maybe(<<Need("doc_map", t, <<Return>>)>>)>>
    OBVIOUS
<1>5. PICK b : b = get_or_parse_ast(t, n)
    OBVIOUS
<1>6. Safe(r, H, f) /\ Safe(r, H, s)
    BY <1>2, <1>3, SafeRead DEF find_file
<1>7. Safe(r, H, e)
    BY <1>2, <1>3, SafeScan DEF Entries
<1>8. Safe(r, H, a)
    BY <1>2, <1>3, SafeLookup, SafeNothing
<1>9. Safe(r, H, n)
    <2>1. Safe(r, Look(H, "doc_map", t, "read"), <<Return>>)
        BY SafeReturn
    <2>2. Safe(r, H, <<Need("doc_map", t, <<Return>>)>>)
        BY <1>2, <2>1, SafeNeed DEF Entries
    <2>3. QED
        BY <1>4, <2>2, SafeMaybe
<1>10. Safe(r, H, b)
    BY <1>2, <1>5, <1>9, SafeLookup
<1>11. Safe(r, H, f \o a) /\ Safe(r, H, f \o b)
    BY <1>6, <1>8, <1>10, SafeBoth
<1>12. Safe(r, H, (f \o b) \o f)
    BY <1>6, <1>11, SafeBoth
<1>13. Safe(r, H, <<OneOf({<<>>, f \o a, e})>>)
    <2>1. \A x \in {<<>>, f \o a, e} : Safe(r, H, x)
        BY <1>7, <1>11, SafeNothing
    <2>2. QED
        BY <2>1, SafeOneOf
<1>14. Safe(r, H, <<OneOf({<<>>, f, (f \o b) \o f, s})>>)
    <2>1. \A x \in {<<>>, f, (f \o b) \o f, s} : Safe(r, H, x)
        BY <1>6, <1>12, SafeNothing
    <2>2. QED
        BY <2>1, SafeOneOf
<1>15. PICK p, q : p = <<OneOf({<<>>, f \o a, e})>> /\ q = <<OneOf({<<>>, f, (f \o b) \o f, s})>>
    OBVIOUS
<1>16. Safe(r, {}, Reading(u, p)) /\ Safe(r, {}, Reading(u, q))
    BY <1>1, <1>13, <1>14, <1>15, SafeRequest
<1>17. QED
    BY <1>3, <1>4, <1>5, <1>15, <1>16 DEF completion, goto_definition

-----------------------------------------------------------------------------
(* The requests that look again *)

\* What a handler that has looked at nothing does not know.
Blind == {Unseen(m, k) : m \in Entries, k \in Uri}
Aware(u) == Blind \ {Unseen("ast_map", u), Unseen("doc_map", u)}

\* What it does not know is no guard.
LEMMA AwareFacts ==
    ASSUME NEW u
    PROVE  /\ Reads(Blind) /\ Reads(Aware(u) \cup Both(u)) /\ Reads(Aware(u))
           /\ \A m : Clear(Aware(u), m, "read") /\ Besides(Aware(u), m) = Aware(u)
           /\ Unseen("doc_map", u) \notin Aware(u)
<1>1. \A g \in Blind : g.mode = "unseen" /\ g.of = "unseen"
    BY DEF Blind, Unseen
<1>2. Aware(u) \subseteq Blind
    BY DEF Aware
<1>3. \A g \in Both(u) : g.mode = "read"
    BY DEF Both, Taken
<1>4. Reads(Blind) /\ Reads(Aware(u) \cup Both(u)) /\ Reads(Aware(u))
    BY <1>1, <1>2, <1>3 DEF Reads
<1>5. \A m : Clear(Aware(u), m, "read")
    BY <1>1, <1>2 DEF Clear
<1>6. \A m : Besides(Aware(u), m) = Aware(u)
    BY <1>1, <1>2 DEF Besides
<1>7. QED
    BY <1>4, <1>5, <1>6 DEF Aware

\* references searches every file between its looks, and changes none.
LEMMA SafeReferences ==
    ASSUME NEW r \in LooksAgain, NEW u \in Uri
    PROVE  Safe(r, Blind, references(u))
<1>1. PICK H, K : H = Aware(u) \cup Both(u) /\ K = Aware(u)
    OBVIOUS
<1>2. PICK f : f = [o \in Uri |-> <<Maybe(<<Touch("doc_map", o, "read")>>)>>]
    OBVIOUS
<1>3. PICK m, a, d, s, l, n : /\ m = Maybe(<<Return>>) /\ a = Drop("ast_map", u) /\ d = Drop("doc_map", u)
                              /\ s = ForEach("ast_map", Nothing) /\ l = Each("ast_map", "keys", f)
                              /\ n = Again("doc_map", u, <<>>)
    OBVIOUS
<1>4. Safe(r, H, <<m>>)
    BY <1>3, SafeReturn, SafeMaybe
<1>5. Safe(r, K, <<s>>)
    BY <1>1, <1>3, AwareFacts, SafeScan DEF Entries
<1>6. Safe(r, K, <<l>>)
    <2>1. ASSUME NEW o \in Uri
          PROVE  Safe(r, Besides(K, "ast_map")
                           \cup (IF "keys" = "keys" THEN {} ELSE {Visiting("ast_map", o, "keys")}), f[o])
        <3>1. Safe(r, K, <<Touch("doc_map", o, "read")>>)
            BY <1>1, AwareFacts, SafeRead
        <3>2. Safe(r, K, <<Maybe(<<Touch("doc_map", o, "read")>>)>>)
            BY <3>1, SafeMaybe
        <3>3. Safe(r, K, f[o])
            BY <1>2, <3>2
        <3>4. Besides(K, "ast_map")
                  \cup (IF "keys" = "keys" THEN {} ELSE {Visiting("ast_map", o, "keys")}) = K
            BY <1>1, AwareFacts
        <3>5. QED
            BY <3>3, <3>4
    <2>2. Safe(r, K, <<Each("ast_map", "keys", f)>>)
        BY <2>1, SafeEach DEF Entries
    <2>3. QED
        BY <1>3, <2>2
<1>7. Safe(r, K, <<n>>)
    BY <1>1, <1>3, AwareFacts, SafeAgain DEF Entries
<1>8. Safe(r, K, <<l, n>>)
    BY <1>6, <1>7, Pairs, SafeBoth
<1>9. Safe(r, K, <<s, l, n>>)
    <2>1. Safe(r, K, <<s>> \o <<l, n>>)
        BY <1>5, <1>8, SafeBoth
    <2>2. <<s, l, n>> = <<s>> \o <<l, n>>
        BY Triples
    <2>3. QED
        BY <2>1, <2>2
<1>10. PICK G : G = K \cup {Taken("doc_map", u, "read")}
    OBVIOUS
<1>11. Safe(r, G, <<d, s, l, n>>)
    <2>1. \A g \in G : g \in K \/ (g.map = "doc_map" /\ g.key = u /\ g.of = "get")
        BY <1>10 DEF Taken
    <2>2. Safe(r, G, <<d>> \o <<s, l, n>>)
        BY <1>3, <1>9, <2>1, SafeAfterDrop
    <2>3. <<d, s, l, n>> = <<d>> \o <<s, l, n>>
        BY Fours
    <2>4. QED
        BY <2>2, <2>3
<1>12. Safe(r, H, <<a, d, s, l, n>>)
    <2>1. \A g \in H : g \in G \/ (g.map = "ast_map" /\ g.key = u /\ g.of = "get")
        BY <1>1, <1>10 DEF Both, Taken
    <2>2. Safe(r, H, <<a>> \o <<d, s, l, n>>)
        BY <1>3, <1>11, <2>1, SafeAfterDrop
    <2>3. <<a, d, s, l, n>> = <<a>> \o <<d, s, l, n>>
        BY Fives
    <2>4. QED
        BY <2>2, <2>3
<1>13. PICK p : p = <<m, a, d, s, l, n>>
    OBVIOUS
<1>14. Safe(r, H, p)
    <2>1. Safe(r, H, <<m>> \o <<a, d, s, l, n>>)
        BY <1>4, <1>12, SafeBoth
    <2>2. p = <<m>> \o <<a, d, s, l, n>>
        BY <1>13, Sixes
    <2>3. QED
        BY <2>1, <2>2
<1>15. Safe(r, Blind, Reading(u, p))
    <2>1. Safe(r, (Blind \ {Unseen("ast_map", u), Unseen("doc_map", u)}) \cup Both(u), p)
        BY <1>1, <1>14 DEF Aware
    <2>2. QED
        BY <2>1, AwareFacts, SafeReading
<1>16. QED
    BY <1>2, <1>3, <1>13, <1>15 DEF references

\* rename reads the other files, and its own again.
LEMMA SafeRename ==
    ASSUME NEW r \in LooksAgain, NEW u \in Uri, NEW t \in Uri
    PROVE  Safe(r, Blind, rename(u, t))
<1> DEFINE defining == IF u = t THEN <<Maybe(<<Again("doc_map", u, <<>>)>>)>>
                       ELSE <<If("ast_map", t, <<Touch("doc_map", t, "read")>>)>>
           edits(o) == IF o = t THEN <<>> ELSE <<If("doc_map", o, <<Maybe(find_file(t))>>)>>
<1>1. PICK H, K : H = Aware(u) \cup Both(u) /\ K = Aware(u)
    OBVIOUS
<1>2. PICK m, f, a, d : /\ m = Maybe(<<Return>>) /\ f = Maybe(find_file(t))
                        /\ a = Drop("ast_map", u) /\ d = Drop("doc_map", u)
    OBVIOUS
<1>3. \A G : Reads(G) => Safe(r, G, <<Maybe(find_file(t))>>)
    <2>1. \A G : Reads(G) => Safe(r, G, find_file(t))
        BY SafeRead DEF find_file
    <2>2. PICK p : p = find_file(t)
        OBVIOUS
    <2>3. QED
        BY <2>1, <2>2, SafeMaybe
<1>4. Safe(r, H, <<m>>) /\ Safe(r, H, <<f>>) /\ Safe(r, H, <<a>>) /\ Safe(r, H, <<d>>)
    BY <1>1, <1>2, <1>3, AwareFacts, SafeReturn, SafeMaybe, SafeDrop
<1>5. PICK p : p = <<m, f, a, d>>
    OBVIOUS
<1>6. Safe(r, H, p)
    <2>1. Safe(r, H, <<a, d>>)
        BY <1>4, Pairs, SafeBoth
    <2>2. <<f, a, d>> = <<f>> \o <<a, d>>
        BY Triples
    <2>3. Safe(r, H, <<f>> \o <<a, d>>)
        BY <1>4, <2>1, SafeBoth
    <2>4. Safe(r, H, <<m>> \o <<f, a, d>>)
        BY <1>4, <2>2, <2>3, SafeBoth
    <2>5. p = <<m>> \o <<f, a, d>>
        BY <1>5, Fours
    <2>6. QED
        BY <2>4, <2>5
<1>7. \A g \in H : g \in K \/ \E j \in 1..Len(p) : Drops(p[j], g)
    <2>1. Len(p) = 4 /\ p[3] = a /\ p[4] = d
        BY <1>5
    <2>2. Drops(a, Taken("ast_map", u, "read")) /\ Drops(d, Taken("doc_map", u, "read"))
        BY <1>2 DEF Drops, Drop, Taken
    <2>3. 3 \in 1..4 /\ 4 \in 1..4
        OBVIOUS
    <2>4. QED
        BY <1>1, <2>1, <2>2, <2>3 DEF Both
<1>8. Safe(r, K, defining)
    <2>1. CASE u = t
        <3>1. Safe(r, K, <<Again("doc_map", u, <<>>)>>)
            BY <1>1, AwareFacts, SafeAgain DEF Entries
        <3>2. Safe(r, K, <<Maybe(<<Again("doc_map", u, <<>>)>>)>>)
            BY <3>1, SafeMaybe
        <3>3. QED
            BY <2>1, <3>2
    <2>2. CASE u # t
        <3>1. Reads(K)
            BY <1>1, AwareFacts
        <3>2. Reads(Look(K, "ast_map", t, "read"))
            BY <3>1 DEF Reads, Look, Taken
        <3>3. Safe(r, Look(K, "ast_map", t, "read"), <<Touch("doc_map", t, "read")>>)
            BY <3>2, SafeRead
        <3>4. Safe(r, K, <<If("ast_map", t, <<Touch("doc_map", t, "read")>>)>>)
            BY <3>1, <3>3, SafeIf DEF Entries
        <3>5. QED
            BY <2>2, <3>4
    <2>3. QED
        BY <2>1, <2>2
<1>9. PICK b : b = [o \in Uri |-> edits(o)]
    OBVIOUS
<1>10. ASSUME NEW o \in Uri
       PROVE  Safe(r, Besides(K, "ast_map") \cup {Visiting("ast_map", o, "read")}, b[o])
    <2>1. PICK G : G = Besides(K, "ast_map") \cup {Visiting("ast_map", o, "read")}
        OBVIOUS
    <2>2. Reads(G)
        BY <1>1, <2>1, AwareFacts DEF Reads, Visiting
    <2>3. Reads(Look(G, "doc_map", o, "read"))
        BY <2>2 DEF Reads, Look, Taken
    <2>4. Safe(r, Look(G, "doc_map", o, "read"), <<Maybe(find_file(t))>>)
        BY <1>3, <2>3
    <2>5. Safe(r, G, <<If("doc_map", o, <<Maybe(find_file(t))>>)>>)
        BY <2>2, <2>4, SafeIf DEF Entries
    <2>6. Safe(r, G, edits(o))
        BY <2>5, SafeNothing
    <2>7. QED
        BY <1>9, <2>1, <2>6
<1>11. Safe(r, K, <<Each("ast_map", "read", b)>>)
    BY <1>1, <1>10, AwareFacts, SafeForEach DEF Entries
<1>12. PICK c, e : c = defining /\ e = Each("ast_map", "read", b)
    OBVIOUS
<1>13. Safe(r, K, c) /\ Safe(r, K, <<e>>)
    BY <1>8, <1>11, <1>12
<1>14. Safe(r, K, c \o <<e>>)
    BY <1>13, SafeBoth
<1>15. Safe(r, H, p \o (c \o <<e>>))
    BY <1>6, <1>7, <1>14, SafeJoin
<1>16. (p \o c) \o <<e>> = p \o (c \o <<e>>)
    <2>1. IsSeq(p) /\ IsSeq(c) /\ IsSeq(<<e>>)
        BY <1>6, <1>13, SafeIsSeq
    <2>2. QED
        BY <2>1, JoinsAssociate
<1>17. PICK q : q = (p \o c) \o <<e>>
    OBVIOUS
<1>18. Safe(r, Blind, Reading(u, q))
    <2>1. Safe(r, (Blind \ {Unseen("ast_map", u), Unseen("doc_map", u)}) \cup Both(u), q)
        BY <1>1, <1>15, <1>16, <1>17 DEF Aware
    <2>2. QED
        BY <2>1, AwareFacts, SafeReading
<1>19. QED
    BY <1>2, <1>5, <1>9, <1>12, <1>17, <1>18 DEF rename, ForEach

\* What a handler for r does not know while the maps hold what P says.
Unknown(r, P) == IF r \in LooksAgain THEN {g \in Blind : g.key \notin P[g.map]} ELSE {}

\* Every handler is safe from the start, whatever the maps hold.
LEMMA SafeSteps ==
    ASSUME NEW r \in Name, NEW u \in Uri \ {Std}, NEW t \in Uri \ {Std}, NEW P
    PROVE  Safe(r, Unknown(r, P), Steps(r, u, t))
<1>1. CASE r \in LooksAgain
    <2>1. Unknown(r, P) \subseteq Blind
        BY <1>1 DEF Unknown
    <2>2. Safe(r, Blind, references(u)) /\ Safe(r, Blind, rename(u, t))
        BY <1>1, SafeReferences, SafeRename
    <2>3. r = "references" \/ r = "rename"
        BY <1>1 DEF LooksAgain
    <2>4. Steps(r, u, t) = references(u) \/ Steps(r, u, t) = rename(u, t)
        BY <2>3 DEF Steps
    <2>5. QED
        BY <2>1, <2>2, <2>4, SafeLess
<1>2. CASE r \in Careless
    <2>1. Unknown(r, P) = {}
        BY <1>2 DEF Unknown, LooksAgain, Careless
    <2>2. Steps(r, u, t) = completion(u, t) \/ Steps(r, u, t) = goto_definition(u, t)
        BY <1>2 DEF Steps, Careless
    <2>3. QED
        BY <1>2, <2>1, <2>2, SafeRequires
<1>3. CASE r \notin LooksAgain \cup Careless
    <2>1. Unknown(r, P) = {} /\ r \notin LooksAgain
        BY <1>3 DEF Unknown
    <2> DEFINE p == Steps(r, u, t)
    <2>2. r = "initialized" => Safe(r, {}, p)
        <3>1. ASSUME r = "initialized" PROVE p = initialized(u)
            BY <3>1 DEF Steps
        <3>2. QED
            BY <2>1, <3>1, SafeSettings
    <2>3. r = "did_open" => Safe(r, {}, p)
        <3>1. ASSUME r = "did_open" PROVE p = did_open(u)
            BY <3>1 DEF Steps
        <3>2. QED
            BY <2>1, <3>1, SafeOpen
    <2>4. r = "did_change" => Safe(r, {}, p)
        <3>1. ASSUME r = "did_change" PROVE p = did_change(u)
            BY <3>1 DEF Steps
        <3>2. QED
            BY <2>1, <3>1, SafeChange
    <2>5. r = "did_save" => Safe(r, {}, p)
        <3>1. ASSUME r = "did_save" PROVE p = did_save(u)
            BY <3>1 DEF Steps
        <3>2. QED
            BY <2>1, <3>1, SafeFiles
    <2>6. r = "did_close" => Safe(r, {}, p)
        <3>1. ASSUME r = "did_close" PROVE p = did_close(u)
            BY <3>1 DEF Steps
        <3>2. QED
            BY <2>1, <3>1, SafeFiles
    <2>7. r = "did_change_watched_files" => Safe(r, {}, p)
        <3>1. ASSUME r = "did_change_watched_files" PROVE p = did_change_watched_files(u)
            BY <3>1 DEF Steps
        <3>2. QED
            BY <2>1, <3>1, SafeFiles
    <2>8. r = "did_change_workspace_folders" => Safe(r, {}, p)
        <3>1. ASSUME r = "did_change_workspace_folders" PROVE p = did_change_workspace_folders(u)
            BY <3>1 DEF Steps
        <3>2. QED
            BY <2>1, <3>1, SafeSettings
    <2>9. r = "did_change_configuration" => Safe(r, {}, p)
        <3>1. ASSUME r = "did_change_configuration" PROVE p = did_change_configuration(u)
            BY <3>1 DEF Steps
        <3>2. QED
            BY <2>1, <3>1, SafeSettings
    <2>10. r = "hover" => Safe(r, {}, p)
        <3>1. ASSUME r = "hover" PROVE p = Reading(u, <<>>)
            BY <3>1 DEF Steps, hover
        <3>2. QED
            BY <3>1, SafeReaders
    <2>11. r = "signature_help" => Safe(r, {}, p)
        <3>1. ASSUME r = "signature_help" PROVE p = Reading(u, <<>>)
            BY <3>1 DEF Steps, signature_help
        <3>2. QED
            BY <3>1, SafeReaders
    <2>12. r = "document_symbol" => Safe(r, {}, p)
        <3>1. ASSUME r = "document_symbol" PROVE p = Reading(u, <<>>)
            BY <3>1 DEF Steps, document_symbol
        <3>2. QED
            BY <3>1, SafeReaders
    <2>13. r = "selection_range" => Safe(r, {}, p)
        <3>1. ASSUME r = "selection_range" PROVE p = Reading(u, <<>>)
            BY <3>1 DEF Steps, selection_range
        <3>2. QED
            BY <3>1, SafeReaders
    <2>14. r = "folding_range" => Safe(r, {}, p)
        <3>1. ASSUME r = "folding_range" PROVE p = Reading(u, <<>>)
            BY <3>1 DEF Steps, folding_range
        <3>2. QED
            BY <3>1, SafeReaders
    <2>15. r = "document_highlight" => Safe(r, {}, p)
        <3>1. ASSUME r = "document_highlight" PROVE p = Reading(u, <<>>)
            BY <3>1 DEF Steps, document_highlight
        <3>2. QED
            BY <3>1, SafeReaders
    <2>16. r = "semantic_tokens_full" => Safe(r, {}, p)
        <3>1. ASSUME r = "semantic_tokens_full" PROVE p = Reading(u, <<>>)
            BY <3>1 DEF Steps, semantic_tokens_full
        <3>2. QED
            BY <3>1, SafeReaders
    <2>17. r = "inlay_hint" => Safe(r, {}, p)
        <3>1. ASSUME r = "inlay_hint" PROVE p = Reading(u, <<>>)
            BY <3>1 DEF Steps, inlay_hint
        <3>2. QED
            BY <3>1, SafeReaders
    <2>18. r = "prepare_rename" => Safe(r, {}, p)
        <3>1. ASSUME r = "prepare_rename" PROVE p = Reading(u, <<>>)
            BY <3>1 DEF Steps, prepare_rename
        <3>2. QED
            BY <3>1, SafeReaders
    <2>19. r = "prepare_call_hierarchy" => Safe(r, {}, p)
        <3>1. ASSUME r = "prepare_call_hierarchy" PROVE p = Reading(u, <<>>)
            BY <3>1 DEF Steps, prepare_call_hierarchy
        <3>2. QED
            BY <3>1, SafeReaders
    <2>20. r = "outgoing_calls" => Safe(r, {}, p)
        <3>1. ASSUME r = "outgoing_calls" PROVE p = Reading(u, <<>>)
            BY <3>1 DEF Steps, outgoing_calls
        <3>2. QED
            BY <3>1, SafeReaders
    <2>21. r = "document_link" => Safe(r, {}, p)
        <3>1. ASSUME r = "document_link" PROVE p = document_link(u, t)
            BY <3>1 DEF Steps
        <3>2. QED
            BY <2>1, <3>1, SafeReaders
    <2>22. r = "code_action" => Safe(r, {}, p)
        <3>1. ASSUME r = "code_action" PROVE p = code_action(u)
            BY <3>1 DEF Steps
        <3>2. QED
            BY <2>1, <3>1, SafeReaders
    <2>23. r = "execute_command" => Safe(r, {}, p)
        <3>1. ASSUME r = "execute_command" PROVE p = execute_command(u)
            BY <3>1 DEF Steps
        <3>2. QED
            BY <2>1, <3>1, SafeCommand
    <2>24. r = "symbol" => Safe(r, {}, p)
        <3>1. ASSUME r = "symbol" PROVE p = symbol
            BY <3>1 DEF Steps
        <3>2. QED
            BY <2>1, <3>1, SafeSearch
    <2>25. r = "incoming_calls" => Safe(r, {}, p)
        <3>1. ASSUME r = "incoming_calls" PROVE p = incoming_calls
            BY <3>1 DEF Steps
        <3>2. QED
            BY <2>1, <3>1, SafeSearch
    <2> HIDE DEF p
    <2>26. Safe(r, {}, p)
        BY <1>3, <2>2, <2>3, <2>4, <2>5, <2>6, <2>7, <2>8, <2>9, <2>10, <2>11, <2>12,
           <2>13, <2>14, <2>15, <2>16, <2>17, <2>18, <2>19, <2>20, <2>21, <2>22, <2>23, <2>24, <2>25 DEF Name, LooksAgain, Careless
    <2>27. QED
        BY <2>1, <2>26 DEF p
<1>4. QED
    BY <1>1, <1>2, <1>3

-----------------------------------------------------------------------------
(* The invariant *)

MapsInv == present = [m \in Entries |-> present[m]] /\ \A m \in Entries : present[m] \subseteq Uri

TablesInv ==
    /\ held = [w \in Worker |-> held[w]] /\ todo = [w \in Worker |-> todo[w]]
    /\ request \in [Worker -> Name \cup {Idle}] /\ running \in Worker \cup {Idle}
    /\ \A w \in Worker : \A g \in held[w] : g.of \in {"get", "each"}

\* Who has the task: the others hold nothing, and do not count on what they saw.
TurnInv ==
    /\ NoGuardAcrossAwait
    /\ \A w \in Worker : request[w] = Idle => held[w] = {} /\ w # running
    /\ \A w \in Worker : request[w] \in LooksAgain => w = running

\* What a handler may meet: its guards and what it does not know.
Meets(w) == held[w] \cup Unknown(request[w], present)

ProgramsInv == \A w \in Worker : Safe(request[w], Meets(w), todo[w])

GuardsInv == MapsInv /\ TablesInv /\ TurnInv /\ ProgramsInv

\* A step that begins is allowed, with all that it may meet.
LEMMA Ready ==
    ASSUME GuardsInv, running # Idle, todo[running] # <<>>
    PROVE  /\ running \in Worker /\ request[running] \in Name
           /\ Safe(request[running], {g \in Meets(running) : ~Drops(step, g)}, Tail(todo[running]))
           /\ \E W, G : /\ Typing(request[running], W) /\ Enter(Meets(running), step) \subseteq G
                        /\ Allowed(request[running], W, G, step)
<1>1. running \in Worker /\ request[running] \in Name
    BY DEF GuardsInv, TablesInv, TurnInv
<1>2. PICK r, H, p : r = request[running] /\ H = Meets(running) /\ p = todo[running]
    OBVIOUS
<1>3. PICK W : Typing(r, W) /\ SeqFits(W, H, p)
    BY <1>1, <1>2 DEF GuardsInv, ProgramsInv, Safe
<1>4. Fits(W, H, Head(p)) /\ SeqFits(W, {g \in H : ~Drops(Head(p), g)}, Tail(p))
    BY <1>2, <1>3, FitsTail
<1>5. PICK e \in W : e.step = Head(p) /\ Enter(H, Head(p)) \subseteq e.held
    BY <1>4 DEF Fits
<1>6. Allowed(r, W, e.held, Head(p))
    BY <1>3, <1>5 DEF Typing
<1>7. step = Head(p)
    BY <1>2 DEF step
<1>8. Safe(r, {g \in H : ~Drops(Head(p), g)}, Tail(p))
    BY <1>3, <1>4 DEF Safe
<1>9. QED
    BY <1>1, <1>2, <1>3, <1>5, <1>6, <1>7, <1>8

\* The running handler goes on with p, holding h.
LEMMA Goes ==
    ASSUME GuardsInv, running # Idle, NEW h, NEW p,
           held' = [held EXCEPT ![running] = h], todo' = [todo EXCEPT ![running] = p],
           request' = request, running' = running, MapsInv', \A g \in h : g.of \in {"get", "each"},
           Safe(request[running], h \cup Unknown(request[running], present'), p)
    PROVE  GuardsInv'
<1>1. running \in Worker
    BY DEF GuardsInv, TablesInv
<1>2. /\ held' = [w \in Worker |-> held'[w]] /\ todo' = [w \in Worker |-> todo'[w]]
      /\ held'[running] = h /\ todo'[running] = p
      /\ \A w \in Worker \ {running} : held'[w] = held[w] /\ todo'[w] = todo[w]
    BY <1>1 DEF GuardsInv, TablesInv
<1>3. TablesInv'
    BY <1>2 DEF GuardsInv, TablesInv
<1>4. TurnInv'
    BY <1>2 DEF GuardsInv, TurnInv, NoGuardAcrossAwait
<1>5. ASSUME NEW w \in Worker
      PROVE  Safe(request'[w], held'[w] \cup Unknown(request'[w], present'), todo'[w])
    <2>1. CASE w = running
        BY <1>2, <2>1
    <2>2. CASE w # running
        <3>1. request[w] \notin LooksAgain
            BY <2>2 DEF GuardsInv, TurnInv
        <3>2. Unknown(request[w], present) = {} /\ Unknown(request[w], present') = {}
            BY <3>1 DEF Unknown
        <3>3. Safe(request[w], held[w] \cup Unknown(request[w], present), todo[w])
            BY DEF GuardsInv, ProgramsInv, Meets
        <3>4. QED
            BY <1>2, <2>2, <3>2, <3>3
    <2>3. QED
        BY <2>1, <2>2
<1>6. ProgramsInv'
    BY <1>5 DEF ProgramsInv, Meets
<1>7. QED
    BY <1>3, <1>4, <1>6 DEF GuardsInv

\* What the handlers know does not count for what stops an operation.
LEMMA UnknownFacts ==
    ASSUME NEW r, NEW P
    PROVE  /\ \A g \in Unknown(r, P) : /\ g.of = "unseen" /\ g.key \notin P[g.map]
                                       /\ g = Unseen(g.map, g.key)
           /\ r \notin LooksAgain => Unknown(r, P) = {}
BY DEF Unknown, Blind, Unseen

\* At first nobody has anything to do.
LEMMA InitGuards == Init => GuardsInv
<1> SUFFICES ASSUME Init PROVE GuardsInv
    OBVIOUS
<1>1. MapsInv
    BY UriAssumption DEF Init, MapsInv, Entries
<1>2. TablesInv
    BY DEF Init, TablesInv
<1>3. TurnInv
    <2>1. Idle \notin LooksAgain
        BY RequestAssumption DEF Name, LooksAgain
    <2>2. QED
        BY <2>1, WorkerAssumption DEF Init, TurnInv, NoGuardAcrossAwait
<1>4. ProgramsInv
    BY SafeNothing DEF Init, ProgramsInv
<1>5. QED
    BY <1>1, <1>2, <1>3, <1>4 DEF GuardsInv

\* An entry that is found is seen, and its guard is dropped in the end.
LEMMA FoundGuards ==
    ASSUME GuardsInv, Found
    PROVE  GuardsInv'
<1>1. /\ running # Idle /\ todo[running] # <<>> /\ step.op = "get"
      /\ step.key \in present[step.map]
    BY DEF Found, Now, step
<1>2. PICK r, H, q, s : /\ r = request[running] /\ H = Meets(running) /\ q = Tail(todo[running]) /\ s = step
    OBVIOUS
<1>3. PICK W, G : Typing(r, W) /\ Enter(H, s) \subseteq G /\ Allowed(r, W, G, s)
    BY <1>1, <1>2, Ready
<1>4. /\ s.map \in Entries /\ s.key \in Uri
      /\ SeqFits(W, Look(G, s.map, s.key, s.mode), s.found)
    BY <1>1, <1>2, <1>3 DEF Allowed
<1>5. H \subseteq G
    BY <1>1, <1>2, <1>3 DEF Enter
<1>6. PICK t : t = Taken(s.map, s.key, s.mode)
    OBVIOUS
<1>7. PICK h, K : h = held[running] \cup {t} /\ K = h \cup Unknown(r, present)
    OBVIOUS
<1>8. running \in Worker
    BY <1>1, Ready
<1>9. H = held[running] \cup Unknown(r, present) /\ K = H \cup {t}
    BY <1>2, <1>7 DEF Meets
<1>10. Unseen(s.map, s.key) \notin H
    <2>1. Unseen(s.map, s.key) \notin held[running]
        BY <1>8 DEF GuardsInv, TablesInv, Unseen
    <2>2. Unseen(s.map, s.key) \notin Unknown(r, present)
        BY <1>1, <1>2, UnknownFacts DEF Unseen
    <2>3. QED
        BY <1>9, <2>1, <2>2
<1>11. K \subseteq Look(G, s.map, s.key, s.mode)
    BY <1>5, <1>6, <1>9, <1>10 DEF Look
<1>12. Safe(r, K, s.found)
    BY <1>3, <1>4, <1>11, FitsLess DEF Safe
<1>13. PICK d : d = Drop(s.map, s.key)
    OBVIOUS
<1>14. Safe(r, K, <<d>>)
    BY <1>13, SafeDrop
<1>15. PICK a : a = Append(s.found, d)
    OBVIOUS
<1>16. a = s.found \o <<d>>
    <2>1. PICK S : s.found \in Seq(S)
        BY <1>4 DEF SeqFits, IsSeq
    <2>2. s.found \in Seq(S \cup {d}) /\ d \in S \cup {d}
        BY <2>1, SeqMonotonic
    <2>3. QED
        BY <1>15, <2>2, AppendIsConcat
<1>17. Safe(r, K, a)
    BY <1>12, <1>14, <1>16, SafeBoth
<1>18. Safe(r, H, q)
    <2>1. {g \in H : ~Drops(s, g)} = H
        BY <1>1, <1>2 DEF Drops
    <2>2. QED
        BY <1>1, <1>2, <2>1, Ready
<1>19. \A g \in K : g \in H \/ \E j \in 1..Len(a) : Drops(a[j], g)
    <2>1. IsSeq(s.found) /\ IsSeq(<<d>>) /\ Len(<<d>>) = 1 /\ <<d>>[1] = d
        BY <1>4, Tuples DEF SeqFits
    <2>2. Len(s.found) \in Nat
        BY <2>1, SeqFacts
    <2>3. Len(a) = Len(s.found) + 1 /\ a[Len(s.found) + 1] = d
        <3>1. 1 \in 1..1
            OBVIOUS
        <3>2. QED
            BY <1>16, <2>1, <3>1, ConcatFacts
    <2>4. Drops(d, t)
        BY <1>6, <1>13 DEF Drops, Drop, Taken
    <2>5. Len(a) \in 1..Len(a)
        BY <2>2, <2>3
    <2>6. QED
        BY <1>9, <2>3, <2>4, <2>5
<1>20. Safe(r, K, a \o q)
    BY <1>17, <1>18, <1>19, SafeJoin
<1>21. todo' = [todo EXCEPT ![running] = a \o q]
    BY <1>2, <1>13, <1>15 DEF Found, Then
<1>22. held' = [held EXCEPT ![running] = h]
    BY <1>2, <1>6, <1>7 DEF Found, Taken
<1>23. \A g \in h : g.of \in {"get", "each"}
    BY <1>6, <1>7, <1>8 DEF GuardsInv, TablesInv, Taken
<1>24. MapsInv' /\ present' = present /\ request' = request /\ running' = running
    BY DEF Found, GuardsInv, MapsInv
<1>25. Safe(request[running], h \cup Unknown(request[running], present'), a \o q)
    BY <1>2, <1>7, <1>20, <1>24
<1>26. QED
    BY <1>1, <1>21, <1>22, <1>23, <1>24, <1>25, Goes

\* A step that keeps the guards and puts p in its own place.
LEMMA KeepsGuards ==
    ASSUME GuardsInv, running # Idle, todo[running] # <<>>, NEW p,
           \A g : ~Drops(step, g), Safe(request[running], Meets(running), p), Then(p),
           held' = held, request' = request, running' = running, MapsInv',
           Unknown(request[running], present') \subseteq Unknown(request[running], present)
    PROVE  GuardsInv'
<1>1. running \in Worker
    BY Ready
<1>2. PICK r, H, q : r = request[running] /\ H = Meets(running) /\ q = Tail(todo[running])
    OBVIOUS
<1>3. Safe(r, H, q)
    <2>1. {g \in H : ~Drops(step, g)} = H
        OBVIOUS
    <2>2. QED
        BY <1>2, <2>1, Ready
<1>4. Safe(r, H, p \o q)
    BY <1>2, <1>3, SafeBoth
<1>5. held[running] \cup Unknown(r, present') \subseteq H
    BY <1>2 DEF Meets
<1>6. Safe(r, held[running] \cup Unknown(r, present'), p \o q)
    BY <1>4, <1>5, SafeLess
<1>7. held' = [held EXCEPT ![running] = held[running]]
    BY <1>1 DEF GuardsInv, TablesInv
<1>8. todo' = [todo EXCEPT ![running] = p \o q]
    BY <1>2 DEF Then
<1>9. \A g \in held[running] : g.of \in {"get", "each"}
    BY <1>1 DEF GuardsInv, TablesInv
<1>10. QED
    BY <1>2, <1>6, <1>7, <1>8, <1>9, Goes

\* An entry that is missing.
LEMMA MissingGuards ==
    ASSUME GuardsInv, Missing
    PROVE  GuardsInv'
<1>1. running # Idle /\ todo[running] # <<>> /\ step.op = "get"
    BY DEF Missing, Now, step
<1>2. PICK r, H, s : r = request[running] /\ H = Meets(running) /\ s = step
    OBVIOUS
<1>3. PICK W, G : Typing(r, W) /\ Enter(H, s) \subseteq G /\ Allowed(r, W, G, s)
    BY <1>1, <1>2, Ready
<1>4. SeqFits(W, G, s.missing)
    BY <1>1, <1>2, <1>3 DEF Allowed
<1>5. H \subseteq G
    BY <1>1, <1>2, <1>3 DEF Enter
<1>6. Safe(r, H, s.missing)
    BY <1>3, <1>4, <1>5, FitsLess DEF Safe
<1>7. \A g : ~Drops(s, g)
    BY <1>1, <1>2 DEF Drops
<1>8. MapsInv' /\ present' = present
    BY DEF Missing, GuardsInv, MapsInv
<1>9. /\ Then(s.missing) /\ held' = held /\ request' = request /\ running' = running
    BY <1>2 DEF Missing
<1>10. QED
    BY <1>1, <1>2, <1>6, <1>7, <1>8, <1>9, KeepsGuards

\* A choice.
LEMMA DecideGuards ==
    ASSUME GuardsInv, Decide
    PROVE  GuardsInv'
<1>1. running # Idle /\ todo[running] # <<>> /\ step.op = "one_of"
    BY DEF Decide, Now, step
<1>2. PICK r, H, s : r = request[running] /\ H = Meets(running) /\ s = step
    OBVIOUS
<1>3. PICK W, G : Typing(r, W) /\ Enter(H, s) \subseteq G /\ Allowed(r, W, G, s)
    BY <1>1, <1>2, Ready
<1>4. PICK b \in s.branches : Then(b)
    BY <1>2 DEF Decide
<1>5. SeqFits(W, G, b)
    BY <1>1, <1>2, <1>3 DEF Allowed
<1>6. H \subseteq G
    BY <1>1, <1>2, <1>3 DEF Enter
<1>7. Safe(r, H, b)
    BY <1>3, <1>5, <1>6, FitsLess DEF Safe
<1>8. \A g : ~Drops(s, g)
    BY <1>1, <1>2 DEF Drops
<1>9. MapsInv' /\ present' = present
    BY DEF Decide, GuardsInv, MapsInv
<1>10. held' = held /\ request' = request /\ running' = running
    BY DEF Decide
<1>11. QED
    BY <1>1, <1>2, <1>4, <1>7, <1>8, <1>9, <1>10, KeepsGuards

\* What changes the maps: who looks again removes nothing.
LEMMA ChangeGuards ==
    ASSUME GuardsInv, Change
    PROVE  GuardsInv'
<1>1. running # Idle /\ todo[running] # <<>> /\ step.op \in {"touch", "insert", "remove"}
    BY DEF Change, Now, step
<1>2. PICK r, H, s : r = request[running] /\ H = Meets(running) /\ s = step
    OBVIOUS
<1>3. PICK W, G : Typing(r, W) /\ Enter(H, s) \subseteq G /\ Allowed(r, W, G, s)
    BY <1>1, <1>2, Ready
<1>4. \A g : ~Drops(s, g)
    BY <1>1, <1>2 DEF Drops
<1>5. Then(<<>>) /\ held' = held /\ request' = request /\ running' = running
    BY DEF Change
<1>6. /\ present = [m \in Entries |-> present[m]]
      /\ \A m \in Entries : present[m] \subseteq Uri
    BY DEF GuardsInv, MapsInv
<1>7. MapsInv' /\ Unknown(r, present') \subseteq Unknown(r, present)
    <2>1. CASE s.op = "touch" /\ present' = present
        BY <1>6, <2>1 DEF MapsInv
    <2>2. CASE s.op = "insert" /\ present' = [present EXCEPT ![s.map] = @ \cup {s.key}]
        <3>1. s.map \in Entries /\ s.key \in Uri
            BY <1>3, <2>2 DEF Allowed
        <3>2. /\ present' = [m \in Entries |-> present'[m]]
              /\ \A m \in Entries : present[m] \subseteq present'[m] /\ present'[m] \subseteq Uri
            BY <1>6, <2>2, <3>1
        <3>3. MapsInv'
            BY <3>2 DEF MapsInv
        <3>4. \A g \in Blind : g.map \in Entries
            BY DEF Blind, Unseen
        <3>5. Unknown(r, present') \subseteq Unknown(r, present)
            BY <3>2, <3>4 DEF Unknown
        <3>6. QED
            BY <3>3, <3>5
    <2>3. CASE s.op = "remove" /\ present' = [present EXCEPT ![s.map] = @ \ {s.key}]
        <3>1. s.map \in Entries /\ r \notin LooksAgain
            BY <1>3, <2>3 DEF Allowed
        <3>2. /\ present' = [m \in Entries |-> present'[m]]
              /\ \A m \in Entries : present'[m] \subseteq Uri
            BY <1>6, <2>3, <3>1
        <3>3. MapsInv'
            BY <3>2 DEF MapsInv
        <3>4. QED
            BY <3>1, <3>3, UnknownFacts
    <2>4. QED
        BY <1>2, <2>1, <2>2, <2>3 DEF Change, Now, step
<1>8. Safe(r, H, <<>>)
    BY SafeNothing
<1>9. QED
    BY <1>1, <1>2, <1>4, <1>5, <1>7, <1>8, KeepsGuards

\* A guard that is dropped.
LEMMA ReleaseGuards ==
    ASSUME GuardsInv, Release
    PROVE  GuardsInv'
<1>1. running # Idle /\ todo[running] # <<>> /\ step.op = "drop"
    BY DEF Release, Now, step
<1>2. PICK r, H, q, s : /\ r = request[running] /\ H = Meets(running) /\ q = Tail(todo[running]) /\ s = step
    OBVIOUS
<1>3. running \in Worker /\ Safe(r, {g \in H : ~Drops(s, g)}, q)
    BY <1>1, <1>2, Ready
<1>4. PICK h : h = {g \in held[running] : g.map # s.map \/ g.key # s.key \/ g.of = "each"}
    OBVIOUS
<1>5. MapsInv' /\ present' = present /\ request' = request /\ running' = running
    BY DEF Release, GuardsInv, MapsInv
<1>6. h \cup Unknown(r, present) \subseteq {g \in H : ~Drops(s, g)}
    <2>1. \A g \in h : g \in held[running] /\ ~Drops(s, g)
        BY <1>1, <1>2, <1>4 DEF Drops
    <2>2. \A g \in Unknown(r, present) : ~Drops(s, g)
        BY <1>1, <1>2, UnknownFacts DEF Drops
    <2>3. QED
        BY <1>2, <2>1, <2>2 DEF Meets
<1>7. Safe(r, h \cup Unknown(r, present), q)
    BY <1>3, <1>6, SafeLess
<1>8. Safe(r, h \cup Unknown(r, present), <<>> \o q)
    BY <1>7, SafeNothing, SafeBoth
<1>9. Safe(request[running], h \cup Unknown(request[running], present'), <<>> \o q)
    BY <1>2, <1>5, <1>8
<1>10. todo' = [todo EXCEPT ![running] = <<>> \o q]
    BY <1>2 DEF Release, Then
<1>11. held' = [held EXCEPT ![running] = h]
    BY <1>2, <1>4 DEF Release
<1>12. \A g \in h : g.of \in {"get", "each"}
    BY <1>3, <1>4 DEF GuardsInv, TablesInv
<1>13. QED
    BY <1>1, <1>5, <1>9, <1>10, <1>11, <1>12, Goes

\* The rest of a loop is allowed where the loop is.
LEMMA LoopAllowed ==
    ASSUME NEW r, NEW W, NEW G, NEW s, Allowed(r, W, G, s), s.op \in {"each", "visit"},
           NEW K, K \subseteq G, NEW left, left \subseteq Uri
    PROVE  Allowed(r, W, K, VisitOf(s.map, s.mode, s.body, left))
<1>1. PICK v : v = VisitOf(s.map, s.mode, s.body, left)
    OBVIOUS
<1>2. v.op = "visit" /\ v.map = s.map /\ v.mode = s.mode /\ v.body = s.body /\ v.left = left
    BY <1>1 DEF VisitOf
<1>3. s.map \in Entries /\ (s.mode # "keys" => Clear(G, s.map, s.mode))
    BY DEF Allowed
<1>4. ASSUME NEW u \in Uri
      PROVE  SeqFits(W, K \cup (IF s.mode = "keys" THEN {} ELSE {Visiting(s.map, u, s.mode)}), s.body[u])
    <2>1. PICK X : X = IF s.mode = "keys" THEN {} ELSE {Visiting(s.map, u, s.mode)}
        OBVIOUS
    <2>2. SeqFits(W, G \cup X, s.body[u])
        BY <2>1 DEF Allowed
    <2>3. SeqFits(W, K \cup X, s.body[u])
        BY <2>2, FitsLess
    <2>4. QED
        BY <2>1, <2>3
<1>5. s.mode # "keys" => Clear(K, s.map, s.mode)
    BY <1>3 DEF Clear
<1>6. v = VisitOf(v.map, v.mode, v.body, v.left)
    BY <1>1, <1>2
<1>7. Allowed(r, W, K, v)
    BY <1>2, <1>3, <1>4, <1>5, <1>6 DEF Allowed
<1>8. QED
    BY <1>1, <1>7

\* A loop begins.
LEMMA IterateGuards ==
    ASSUME GuardsInv, Iterate
    PROVE  GuardsInv'
<1>1. running # Idle /\ todo[running] # <<>> /\ step.op = "each"
    BY DEF Iterate, Now, step
<1>2. PICK r, H, q, s : /\ r = request[running] /\ H = Meets(running) /\ q = Tail(todo[running]) /\ s = step
    OBVIOUS
<1>3. PICK W, G : Typing(r, W) /\ Enter(H, s) \subseteq G /\ Allowed(r, W, G, s)
    BY <1>1, <1>2, Ready
<1>4. running \in Worker /\ Safe(r, {g \in H : ~Drops(s, g)}, q)
    BY <1>1, <1>2, Ready
<1>5. PICK v : v = VisitOf(s.map, s.mode, s.body, present[s.map])
    OBVIOUS
<1>6. s.map \in Entries
    BY <1>1, <1>2, <1>3 DEF Allowed
<1>7. present[s.map] \subseteq Uri
    BY <1>6 DEF GuardsInv, MapsInv
<1>8. Enter(H, v) = Enter(H, s) /\ v.op = "visit" /\ v.map = s.map
    BY <1>1, <1>2, <1>5 DEF Enter, VisitOf
<1>9. Allowed(r, W, Enter(H, v), v)
    BY <1>1, <1>2, <1>3, <1>5, <1>7, <1>8, LoopAllowed
<1>10. Safe(r, H, <<v>>)
    BY <1>3, <1>9, SafeStep
<1>11. \A g \in H : g \in {x \in H : ~Drops(s, x)} \/ \E j \in 1..Len(<<v>>) : Drops(<<v>>[j], g)
    <2>1. \A g : Drops(s, g) => Drops(v, g)
        BY <1>1, <1>2, <1>8 DEF Drops
    <2>2. Len(<<v>>) = 1 /\ <<v>>[1] = v /\ 1 \in 1..1
        OBVIOUS
    <2>3. QED
        BY <2>1, <2>2
<1>12. Safe(r, H, <<v>> \o q)
    BY <1>4, <1>10, <1>11, SafeJoin
<1>13. MapsInv' /\ present' = present /\ held' = held /\ request' = request /\ running' = running
    BY DEF Iterate, GuardsInv, MapsInv
<1>14. held' = [held EXCEPT ![running] = held[running]]
    BY <1>4, <1>13 DEF GuardsInv, TablesInv
<1>15. todo' = [todo EXCEPT ![running] = <<v>> \o q]
    BY <1>2, <1>5 DEF Iterate, Then, VisitOf
<1>16. \A g \in held[running] : g.of \in {"get", "each"}
    BY <1>4 DEF GuardsInv, TablesInv
<1>17. Safe(request[running], held[running] \cup Unknown(request[running], present'), <<v>> \o q)
    BY <1>2, <1>12, <1>13 DEF Meets
<1>18. QED
    BY <1>1, <1>13, <1>14, <1>15, <1>16, <1>17, Goes

\* A loop goes on to the next entry, or ends.
LEMMA VisitGuards ==
    ASSUME GuardsInv, Visit
    PROVE  GuardsInv'
<1>1. running # Idle /\ todo[running] # <<>> /\ step.op = "visit"
    BY DEF Visit, Now, step
<1>2. PICK r, H, q, s : /\ r = request[running] /\ H = Meets(running) /\ q = Tail(todo[running]) /\ s = step
    OBVIOUS
<1>3. PICK W, G : Typing(r, W) /\ Enter(H, s) \subseteq G /\ Allowed(r, W, G, s)
    BY <1>1, <1>2, Ready
<1>4. running \in Worker /\ Safe(r, {g \in H : ~Drops(s, g)}, q)
    BY <1>1, <1>2, Ready
<1>5. s.left \subseteq Uri /\ s = VisitOf(s.map, s.mode, s.body, s.left)
    BY <1>1, <1>2, <1>3 DEF Allowed
<1>6. MapsInv' /\ present' = present /\ request' = request /\ running' = running
    BY DEF Visit, GuardsInv, MapsInv
<1>7. PICK P : P = Passed
    OBVIOUS
<1>8. /\ P \subseteq held[running] /\ \A g \in P : g.map # s.map \/ g.of = "get"
      /\ \A g \in P : g.of \in {"get", "each"}
    BY <1>2, <1>4, <1>7 DEF Passed, GuardsInv, TablesInv
<1>9. P \cup Unknown(r, present) \subseteq {g \in H : ~Drops(s, g)}
    <2>1. \A g \in P : ~Drops(s, g)
        BY <1>1, <1>2, <1>8 DEF Drops
    <2>2. \A g \in Unknown(r, present) : ~Drops(s, g)
        BY <1>1, <1>2, UnknownFacts DEF Drops
    <2>3. QED
        BY <1>2, <1>8, <2>1, <2>2 DEF Meets
<1>10. CASE s.left = {}
    <2>1. Then(<<>>) /\ held' = [held EXCEPT ![running] = P]
        BY <1>2, <1>7, <1>10 DEF Visit
    <2>2. todo' = [todo EXCEPT ![running] = <<>> \o q]
        BY <1>2, <2>1 DEF Then
    <2>3. Safe(r, P \cup Unknown(r, present), q)
        BY <1>4, <1>9, SafeLess
    <2>4. Safe(r, P \cup Unknown(r, present), <<>> \o q)
        BY <2>3, SafeNothing, SafeBoth
    <2>5. Safe(request[running], P \cup Unknown(request[running], present'), <<>> \o q)
        BY <1>2, <1>6, <2>4
    <2>6. QED
        BY <1>1, <1>6, <1>8, <2>1, <2>2, <2>5, Goes
<1>11. CASE s.left # {}
    <2>1. PICK u : u = Visited
        OBVIOUS
    <2>2. u \in s.left
        <3>1. u = CHOOSE x \in s.left : TRUE
            BY <1>2, <2>1 DEF Visited
        <3>2. QED
            BY <1>11, <3>1
    <2>3. PICK X : X = IF s.mode = "keys" THEN {} ELSE {Visiting(s.map, u, s.mode)}
        OBVIOUS
    <2>4. PICK v, b : v = VisitOf(s.map, s.mode, s.body, s.left \ {u}) /\ b = s.body[u]
        OBVIOUS
    <2>5. PICK h, K : h = P \cup X /\ K = h \cup Unknown(r, present)
        OBVIOUS
    <2>6. v = [s EXCEPT !.left = @ \ {u}]
        <3>1. PICK m, n, d, l : m = s.map /\ n = s.mode /\ d = s.body /\ l = s.left
            OBVIOUS
        <3>2. s = [op |-> "visit", map |-> m, mode |-> n, body |-> d, left |-> l]
            BY <1>5, <3>1 DEF VisitOf
        <3>3. [s EXCEPT !.left = @ \ {u}]
                  = [op |-> "visit", map |-> m, mode |-> n, body |-> d, left |-> l \ {u}]
            BY <3>2
        <3>4. QED
            BY <2>4, <3>1, <3>3 DEF VisitOf
    <2>7. SeqFits(W, G \cup X, b)
        <3>1. u \in Uri
            BY <1>5, <2>2
        <3>2. QED
            BY <1>1, <1>2, <1>3, <2>3, <2>4, <3>1 DEF Allowed
    <2>8. Besides(H, s.map) \subseteq G
        BY <1>1, <1>2, <1>3 DEF Enter
    <2>9. P \cup Unknown(r, present) \subseteq Besides(H, s.map)
        <3>1. \A g \in P \cup Unknown(r, present) : g.map # s.map \/ g.of # "each"
            BY <1>8, UnknownFacts
        <3>2. QED
            BY <1>9, <3>1 DEF Besides
    <2>10. K \subseteq G \cup X
        BY <2>5, <2>8, <2>9
    <2>11. Safe(r, K, b)
        BY <1>3, <2>7, <2>10, FitsLess DEF Safe
    <2>12. Enter(K, v) \subseteq G /\ v.op = "visit" /\ v.map = s.map
        <3>1. v.op = "visit" /\ v.map = s.map
            BY <2>4 DEF VisitOf
        <3>2. \A g \in X : g.map = s.map /\ g.of = "each"
            BY <2>3 DEF Visiting
        <3>3. Besides(K, s.map) \subseteq G
            BY <2>5, <2>8, <2>9, <3>2 DEF Besides
        <3>4. QED
            BY <3>1, <3>3 DEF Enter
    <2>13. Allowed(r, W, Enter(K, v), v)
        <3>1. s.left \ {u} \subseteq Uri
            BY <1>5
        <3>2. QED
            BY <1>1, <1>2, <1>3, <2>4, <2>12, <3>1, LoopAllowed
    <2>14. Safe(r, K, <<v>>)
        BY <1>3, <2>13, SafeStep
    <2>15. PICK a : a = Append(b, v)
        OBVIOUS
    <2>16. IsSeq(b)
        BY <2>7 DEF SeqFits
    <2>17. a = b \o <<v>>
        <3>1. PICK S : b \in Seq(S)
            BY <2>16 DEF IsSeq
        <3>2. b \in Seq(S \cup {v}) /\ v \in S \cup {v}
            BY <3>1, SeqMonotonic
        <3>3. QED
            BY <2>15, <3>2, AppendIsConcat
    <2>18. Safe(r, K, a)
        BY <2>11, <2>14, <2>17, SafeBoth
    <2>19. \A g \in K : g \in {x \in H : ~Drops(s, x)} \/ \E j \in 1..Len(a) : Drops(a[j], g)
        <3>1. IsSeq(<<v>>) /\ Len(<<v>>) = 1 /\ <<v>>[1] = v /\ 1 \in 1..1
            BY Tuples
        <3>2. Len(b) \in Nat
            BY <2>16, SeqFacts
        <3>3. Len(a) = Len(b) + 1 /\ a[Len(b) + 1] = v
            BY <2>16, <2>17, <3>1, ConcatFacts
        <3>4. \A g \in X : Drops(v, g)
            BY <2>3, <2>12 DEF Drops, Visiting
        <3>5. Len(a) \in 1..Len(a)
            BY <3>2, <3>3
        <3>6. QED
            BY <1>9, <2>5, <3>3, <3>4, <3>5
    <2>20. Safe(r, K, a \o q)
        BY <1>4, <2>18, <2>19, SafeJoin
    <2>21. /\ held' = [held EXCEPT ![running] = h]
           /\ Then(Append(b, [s EXCEPT !.left = @ \ {u}]))
        BY <1>2, <1>7, <1>11, <2>1, <2>3, <2>4, <2>5 DEF Visit, Visiting
    <2>22. todo' = [todo EXCEPT ![running] = a \o q]
        BY <1>2, <2>6, <2>15, <2>21 DEF Then
    <2>23. \A g \in h : g.of \in {"get", "each"}
        BY <1>8, <2>3, <2>5 DEF Visiting
    <2>24. Safe(request[running], h \cup Unknown(request[running], present'), a \o q)
        BY <1>2, <1>6, <2>5, <2>20
    <2>25. QED
        BY <1>1, <1>6, <2>21, <2>22, <2>23, <2>24, Goes
<1>12. QED
    BY <1>10, <1>11

\* Who gives the task up holds nothing, and does not look again.
LEMMA AwaitGuards ==
    ASSUME GuardsInv, Await
    PROVE  GuardsInv'
<1>1. running # Idle /\ todo[running] # <<>> /\ step.op \in {"answer", "send"}
    BY DEF Await, Now, step
<1>2. PICK r, H, q, s : /\ r = request[running] /\ H = Meets(running) /\ q = Tail(todo[running]) /\ s = step
    OBVIOUS
<1>3. PICK W, G : Typing(r, W) /\ Enter(H, s) \subseteq G /\ Allowed(r, W, G, s)
    BY <1>1, <1>2, Ready
<1>4. running \in Worker /\ request[running] \in Name /\ Safe(r, {g \in H : ~Drops(s, g)}, q)
    BY <1>1, <1>2, Ready
<1>5. G = {} /\ r \notin LooksAgain
    BY <1>1, <1>2, <1>3 DEF Allowed
<1>6. H = {}
    BY <1>1, <1>2, <1>3, <1>5 DEF Enter
<1>7. held[running] = {}
    BY <1>2, <1>6 DEF Meets
<1>8. Safe(r, {}, <<>> \o q)
    <2>1. {g \in H : ~Drops(s, g)} = {}
        BY <1>6
    <2>2. QED
        BY <1>4, <2>1, SafeNothing, SafeBoth
<1>9. /\ MapsInv' /\ present' = present /\ request' = request /\ held' = held
      /\ running' \in {running, Idle}
      /\ todo' = [todo EXCEPT ![running] = <<>> \o q]
    BY <1>2 DEF Await, Then, GuardsInv, MapsInv
<1>10. /\ todo' = [w \in Worker |-> todo'[w]] /\ todo'[running] = <<>> \o q
       /\ \A w \in Worker \ {running} : todo'[w] = todo[w]
    BY <1>4, <1>9 DEF GuardsInv, TablesInv
<1>11. TablesInv'
    BY <1>9, <1>10 DEF GuardsInv, TablesInv
<1>12. TurnInv'
    <2>1. NoGuardAcrossAwait'
        BY <1>7, <1>9 DEF GuardsInv, TurnInv, NoGuardAcrossAwait
    <2>2. \A w \in Worker : request'[w] \in LooksAgain => w = running'
        BY <1>2, <1>5, <1>9 DEF GuardsInv, TurnInv
    <2>3. \A w \in Worker : request'[w] = Idle => held'[w] = {} /\ w # running'
        BY <1>9, WorkerAssumption DEF GuardsInv, TurnInv
    <2>4. QED
        BY <2>1, <2>2, <2>3 DEF TurnInv
<1>13. ASSUME NEW w \in Worker
       PROVE  Safe(request'[w], held'[w] \cup Unknown(request'[w], present'), todo'[w])
    <2>1. CASE w = running
        <3>1. Unknown(r, present) = {}
            BY <1>5, UnknownFacts
        <3>2. held[running] \cup Unknown(r, present) = {}
            BY <1>7, <3>1
        <3>3. QED
            BY <1>2, <1>8, <1>9, <1>10, <2>1, <3>2
    <2>2. CASE w # running
        BY <1>9, <1>10, <2>2 DEF GuardsInv, ProgramsInv, Meets
    <2>3. QED
        BY <2>1, <2>2
<1>14. ProgramsInv'
    BY <1>13 DEF ProgramsInv, Meets
<1>15. QED
    BY <1>9, <1>11, <1>12, <1>14 DEF GuardsInv

\* A handler that ends holds nothing any more.
LEMMA EndGuards ==
    ASSUME GuardsInv, End
    PROVE  GuardsInv'
<1>1. running \in Worker /\ running # Idle
    BY DEF End, GuardsInv, TablesInv
<1>2. /\ held' = [held EXCEPT ![running] = {}] /\ todo' = [todo EXCEPT ![running] = <<>>]
      /\ request' = [request EXCEPT ![running] = Idle] /\ running' = Idle /\ present' = present
    BY DEF End
<1>3. /\ held' = [w \in Worker |-> held'[w]] /\ todo' = [w \in Worker |-> todo'[w]]
      /\ held'[running] = {} /\ todo'[running] = <<>>
      /\ \A w \in Worker \ {running} : held'[w] = held[w] /\ todo'[w] = todo[w]
    BY <1>1, <1>2 DEF GuardsInv, TablesInv
<1>4. /\ request' \in [Worker -> Name \cup {Idle}] /\ request'[running] = Idle
      /\ \A w \in Worker \ {running} : request'[w] = request[w]
    BY <1>1, <1>2 DEF GuardsInv, TablesInv
<1>5. MapsInv'
    BY <1>2 DEF GuardsInv, MapsInv
<1>6. TablesInv'
    BY <1>2, <1>3, <1>4 DEF GuardsInv, TablesInv
<1>7. Idle \notin LooksAgain
    BY RequestAssumption DEF Name, LooksAgain
<1>8. TurnInv'
    BY <1>1, <1>2, <1>3, <1>4, <1>7, WorkerAssumption DEF GuardsInv, TurnInv, NoGuardAcrossAwait
<1>9. ASSUME NEW w \in Worker
      PROVE  Safe(request'[w], held'[w] \cup Unknown(request'[w], present'), todo'[w])
    <2>1. CASE w = running
        BY <1>3, <2>1, SafeNothing
    <2>2. CASE w # running
        BY <1>2, <1>3, <1>4, <2>2 DEF GuardsInv, ProgramsInv, Meets
    <2>3. QED
        BY <2>1, <2>2
<1>10. ProgramsInv'
    BY <1>9 DEF ProgramsInv, Meets
<1>11. QED
    BY <1>5, <1>6, <1>8, <1>10 DEF GuardsInv

\* A message begins, while nobody has the task.
LEMMA StartGuards ==
    ASSUME GuardsInv, Start
    PROVE  GuardsInv'
<1>1. PICK x : x = running'
    OBVIOUS
<1>2. x \in Worker /\ request[x] = Idle
    <2>1. \E w \in Worker : request[w] = Idle
        BY DEF Start
    <2>2. x = CHOOSE w \in Worker : request[w] = Idle
        BY <1>1 DEF Start
    <2>3. QED
        BY <2>1, <2>2, Zenon
<1>3. PICK name \in Requests, u \in Uri \ {Std}, t \in Uri \ {Std} :
          /\ request' = [request EXCEPT ![x] = name] /\ todo' = [todo EXCEPT ![x] = Steps(name, u, t)]
    <2>1. \E name \in Requests, u, t \in Uri \ {Std} :
              /\ request' = [request EXCEPT ![running'] = name]
              /\ todo' = [todo EXCEPT ![running'] = Steps(name, u, t)]
        BY DEF Start
    <2>2. QED
        BY <1>1, <2>1
<1>4. running = Idle /\ present' = present /\ held' = held
    BY DEF Start
<1>5. name \in Name
    BY <1>3, RequestAssumption
<1>6. /\ \A w \in Worker : held[w] = {} /\ request[w] \notin LooksAgain
    BY <1>4, WorkerAssumption DEF GuardsInv, TurnInv, NoGuardAcrossAwait
<1>7. PICK p : p = Steps(name, u, t)
    OBVIOUS
<1>8. /\ request' \in [Worker -> Name \cup {Idle}] /\ request'[x] = name
      /\ todo' = [w \in Worker |-> todo'[w]] /\ todo'[x] = p
      /\ \A w \in Worker \ {x} : request'[w] = request[w] /\ todo'[w] = todo[w]
    BY <1>2, <1>3, <1>5, <1>7 DEF GuardsInv, TablesInv
<1>9. MapsInv'
    BY <1>4 DEF GuardsInv, MapsInv
<1>10. TablesInv'
    BY <1>1, <1>2, <1>4, <1>8 DEF GuardsInv, TablesInv
<1>11. TurnInv'
    <2>1. name # Idle
        BY <1>5, RequestAssumption
    <2>2. NoGuardAcrossAwait'
        BY <1>4, <1>6 DEF NoGuardAcrossAwait
    <2>3. \A w \in Worker : request'[w] = Idle => held'[w] = {} /\ w # running'
        BY <1>1, <1>4, <1>6, <1>8, <2>1
    <2>4. \A w \in Worker : request'[w] \in LooksAgain => w = running'
        BY <1>1, <1>6, <1>8
    <2>5. QED
        BY <2>2, <2>3, <2>4 DEF TurnInv
<1>12. ASSUME NEW w \in Worker
       PROVE  Safe(request'[w], held'[w] \cup Unknown(request'[w], present'), todo'[w])
    <2>1. CASE w = x
        <3>1. Safe(name, Unknown(name, present), p)
            BY <1>5, <1>7, SafeSteps
        <3>2. held[x] \cup Unknown(name, present) = Unknown(name, present)
            BY <1>2, <1>6
        <3>3. QED
            BY <1>4, <1>8, <2>1, <3>1, <3>2
    <2>2. CASE w # x
        BY <1>4, <1>8, <2>2 DEF GuardsInv, ProgramsInv, Meets
    <2>3. QED
        BY <2>1, <2>2
<1>13. ProgramsInv'
    BY <1>12 DEF ProgramsInv, Meets
<1>14. QED
    BY <1>9, <1>10, <1>11, <1>13 DEF GuardsInv

\* A handler gets the task back: no other held anything.
LEMMA ResumeGuards ==
    ASSUME GuardsInv, NEW x \in Worker, Resume(x)
    PROVE  GuardsInv'
<1>1. /\ running = Idle /\ running' = x /\ request[x] # Idle
      /\ present' = present /\ held' = held /\ request' = request /\ todo' = todo
    BY DEF Resume
<1>2. \A w \in Worker : held[w] = {} /\ request[w] \notin LooksAgain
    BY <1>1, WorkerAssumption DEF GuardsInv, TurnInv, NoGuardAcrossAwait
<1>3. MapsInv'
    BY <1>1 DEF GuardsInv, MapsInv
<1>4. TablesInv'
    BY <1>1 DEF GuardsInv, TablesInv
<1>5. TurnInv'
    BY <1>1, <1>2 DEF TurnInv, NoGuardAcrossAwait
<1>6. ProgramsInv'
    BY <1>1 DEF GuardsInv, ProgramsInv, Meets
<1>7. QED
    BY <1>3, <1>4, <1>5, <1>6 DEF GuardsInv

\* Nothing changes.
LEMMA SameGuards ==
    ASSUME GuardsInv, UNCHANGED vars
    PROVE  GuardsInv'
<1>1. /\ present' = present /\ held' = held /\ request' = request /\ todo' = todo /\ running' = running
    BY DEF vars
<1>2. MapsInv'
    BY <1>1 DEF GuardsInv, MapsInv
<1>3. TablesInv'
    BY <1>1 DEF GuardsInv, TablesInv
<1>4. TurnInv'
    BY <1>1 DEF GuardsInv, TurnInv, NoGuardAcrossAwait
<1>5. ProgramsInv'
    BY <1>1 DEF GuardsInv, ProgramsInv, Meets
<1>6. QED
    BY <1>2, <1>3, <1>4, <1>5 DEF GuardsInv

\* Every step keeps the handlers safe.
LEMMA NextGuards == GuardsInv /\ [Next]_vars => GuardsInv'
<1> SUFFICES ASSUME GuardsInv, [Next]_vars PROVE GuardsInv'
    OBVIOUS
<1>1. CASE Start
    BY <1>1, StartGuards
<1>2. ASSUME NEW w \in Worker, Resume(w) PROVE GuardsInv'
    BY <1>2, ResumeGuards
<1>3. CASE Found
    BY <1>3, FoundGuards
<1>4. CASE Missing
    BY <1>4, MissingGuards
<1>5. CASE Change
    BY <1>5, ChangeGuards
<1>6. CASE Release
    BY <1>6, ReleaseGuards
<1>7. CASE Iterate
    BY <1>7, IterateGuards
<1>8. CASE Visit
    BY <1>8, VisitGuards
<1>9. CASE Decide
    BY <1>9, DecideGuards
<1>10. CASE Await
    BY <1>10, AwaitGuards
<1>11. CASE End
    BY <1>11, EndGuards
<1>12. CASE UNCHANGED vars
    BY <1>12, SameGuards
<1>13. QED
    BY <1>1, <1>2, <1>3, <1>4, <1>5, <1>6, <1>7, <1>8, <1>9, <1>10, <1>11, <1>12 DEF Next, Step

-----------------------------------------------------------------------------
(* The theorems *)

\* Whoever gives the task up has dropped its guards: the handlers drop them before
\* they await the client, and compute_diagnostics does not await.
THEOREM GuardsGoBeforeAwaits == Spec => []NoGuardAcrossAwait
<1>1. GuardsInv => NoGuardAcrossAwait
    BY DEF GuardsInv, TurnInv
<1>2. QED
    BY <1>1, InitGuards, NextGuards, PTL DEF Spec

\* Nothing stops an operation when the guards of its own handler do not.
LEMMA FreeWhenClear ==
    ASSUME GuardsInv, NEW map, NEW key, NEW mode, NEW own, Clear(own, map, mode)
    PROVE  Free(map, key, mode, own)
<1>1. ASSUME NEW w \in Worker, NEW g \in IF w = running THEN own ELSE held[w]
      PROVE  ~(g.map = map /\ shard[map][g.key] = shard[map][key] /\ "write" \in {g.mode, mode})
    <2>1. CASE w = running
        BY <1>1, <2>1 DEF Clear
    <2>2. CASE w # running
        BY <1>1, <2>2 DEF GuardsInv, TurnInv, NoGuardAcrossAwait
    <2>3. QED
        BY <2>1, <2>2
<1>2. QED
    BY <1>1 DEF Free

\* The handlers that can find a shard locked against them insert the file of a
\* require under their own guards; no guard of another handler stops the server.
LEMMA WaitersAreLookups == GuardsInv => OnlyLookupsWait
<1> SUFFICES ASSUME GuardsInv, Waits
             PROVE  /\ request[running] \in {"completion", "goto_definition"}
                    /\ step.op = "insert" /\ held[running] # {}
                    /\ \A w \in Worker \ {running} : held[w] = {}
    BY DEF OnlyLookupsWait
<1>1. running # Idle /\ todo[running] # <<>>
    BY DEF Waits, Now
<1>2. PICK r, H, s : r = request[running] /\ H = Meets(running) /\ s = step
    OBVIOUS
<1>3. PICK W, G : Typing(r, W) /\ Enter(H, s) \subseteq G /\ Allowed(r, W, G, s)
    BY <1>1, <1>2, Ready
<1>4. held[running] \subseteq H
    BY <1>2 DEF Meets
<1>5. \A map, key, mode :
          Clear(G, map, mode) /\ held[running] \subseteq G => Free(map, key, mode, held[running])
    <2>1. \A map, mode : Clear(G, map, mode) /\ held[running] \subseteq G => Clear(held[running], map, mode)
        BY DEF Clear
    <2>2. QED
        BY <2>1, FreeWhenClear
<1>6. ~(s.op \in {"get", "touch"} /\ ~Free(s.map, s.key, s.mode, held[running]))
    <2>1. SUFFICES ASSUME s.op \in {"get", "touch"} PROVE Free(s.map, s.key, s.mode, held[running])
        OBVIOUS
    <2>2. Clear(G, s.map, s.mode)
        BY <1>3, <2>1 DEF Allowed
    <2>3. held[running] \subseteq G
        BY <1>3, <1>4, <2>1 DEF Enter
    <2>4. QED
        BY <1>5, <2>2, <2>3
<1>7. ~(s.op = "remove" /\ ~Free(s.map, s.key, "write", held[running]))
    <2>1. SUFFICES ASSUME s.op = "remove" PROVE Free(s.map, s.key, "write", held[running])
        OBVIOUS
    <2>2. Clear(G, s.map, "write")
        BY <1>3, <2>1 DEF Allowed
    <2>3. held[running] \subseteq G
        BY <1>3, <1>4, <2>1 DEF Enter
    <2>4. QED
        BY <1>5, <2>2, <2>3
<1>8. ~(s.op = "visit" /\ s.mode # "keys" /\ ~Free(s.map, Visited, s.mode, Passed))
    <2>1. SUFFICES ASSUME s.op = "visit", s.mode # "keys" PROVE Free(s.map, Visited, s.mode, Passed)
        OBVIOUS
    <2>2. Clear(G, s.map, s.mode)
        BY <1>3, <2>1 DEF Allowed
    <2>3. PICK P : P = Passed
        OBVIOUS
    <2>4. P \subseteq G
        <3>1. \A g \in P : g \in H /\ (g.map # s.map \/ g.of # "each")
            BY <1>2, <1>4, <2>3 DEF Passed
        <3>2. QED
            BY <1>3, <2>1, <3>1 DEF Enter, Besides
    <2>5. Clear(P, s.map, s.mode)
        BY <2>2, <2>4 DEF Clear
    <2>6. QED
        BY <2>3, <2>5, FreeWhenClear
<1>9. s.op = "insert" /\ ~Free(s.map, s.key, "write", held[running])
    BY <1>2, <1>6, <1>7, <1>8 DEF Waits, Lockable, Now, step
<1>10. ~Clear(G, s.map, "write") /\ held[running] \subseteq G
    BY <1>3, <1>4, <1>5, <1>9 DEF Enter
<1>11. r \in Careless
    BY <1>3, <1>9, <1>10 DEF Allowed
<1>12. held[running] # {}
    <2>1. held[running] = {} => Clear(held[running], s.map, "write")
        BY DEF Clear
    <2>2. QED
        BY <1>9, <2>1, FreeWhenClear
<1>13. \A w \in Worker \ {running} : held[w] = {}
    BY DEF GuardsInv, TurnInv, NoGuardAcrossAwait
<1>14. QED
    BY <1>2, <1>9, <1>11, <1>12, <1>13 DEF Careless

\* A server that is stopped for good was stopped by a completion or a jump to a
\* definition, of its own accord (get_or_parse_ast under the file's guards).
THEOREM OnlyLookupsEverWait == Spec => []OnlyLookupsWait
BY InitGuards, NextGuards, WaitersAreLookups, PTL DEF Spec

\* What a handler looks for again has been seen, and nobody took it away.
LEMMA SeenIsThere == GuardsInv => FoundAgain
<1> SUFFICES ASSUME GuardsInv, Now("get"), step.again
             PROVE  step.key \in present[step.map]
    BY DEF FoundAgain
<1>1. running # Idle /\ todo[running] # <<>> /\ step.op = "get"
    BY DEF Now, step
<1>2. PICK r, H, s : r = request[running] /\ H = Meets(running) /\ s = step
    OBVIOUS
<1>3. PICK W, G : Typing(r, W) /\ Enter(H, s) \subseteq G /\ Allowed(r, W, G, s)
    BY <1>1, <1>2, Ready
<1>4. s.map \in Entries /\ s.key \in Uri /\ r \in LooksAgain /\ Unseen(s.map, s.key) \notin G
    BY <1>1, <1>2, <1>3 DEF Allowed
<1>5. H \subseteq G
    BY <1>1, <1>2, <1>3 DEF Enter
<1>6. Unseen(s.map, s.key) \notin Unknown(r, present)
    BY <1>2, <1>4, <1>5 DEF Meets
<1>7. Unseen(s.map, s.key) \in Blind
    BY <1>4 DEF Blind
<1>8. Unseen(s.map, s.key).key = s.key /\ Unseen(s.map, s.key).map = s.map
    BY DEF Unseen
<1>9. s.key \in present[s.map]
    BY <1>4, <1>6, <1>7, <1>8 DEF Unknown
<1>10. QED
    BY <1>2, <1>9

\* references and rename find what they found before they dropped their guards:
\* they do not await in between, so no other handler runs.
THEOREM SecondLooksFind == Spec => []FoundAgain
BY InitGuards, NextGuards, SeenIsThere, PTL DEF Spec
=============================================================================
