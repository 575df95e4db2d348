------------------------ MODULE HonestWorkerProofs ------------------------
(***************************************************************************)
(* What the quality gate makes of a Tier 4 without a fault.                *)
(*                                                                         *)
(* The other theorems about the gate bound what Tier 4 can hold by what    *)
(* the builder counts.  That an honest worker passes needs more: the two   *)
(* are equal (NodesExact, EdgesExact), since no two rows share an id       *)
(* (DecisionDistinct), each dimension of evaluatePipelineQuality has       *)
(* nothing to say against the builder's own decision and summaries         *)
(* (DataOfDecision, KnowledgeOfDecision, HonestReceiptsPass), and no check *)
(* on the way refuses such a worker's messages (HonestGraphTaken,          *)
(* HonestFinalTaken, HonestAsks, HonestPublishes).                         *)
(***************************************************************************)
EXTENDS QualityGateProofs

-----------------------------------------------------------------------------
(* Sets of a known size. *)

\* S has n elements.
Sized(S, n) == IsFiniteSet(S) /\ n \in Nat /\ Cardinality(S) = n

\* What a function without collisions makes of a set is as large as the set.
LEMMA SizedImage ==
  ASSUME NEW S, NEW n, Sized(S, n), NEW f, \A x, y \in S : f[x] = f[y] => x = y
  PROVE  Sized({f[x] : x \in S}, n)
<1> DEFINE T == {f[x] : x \in S}
           g == [x \in S |-> f[x]]
<1>1. g \in Surjection(S, T) /\ \A x, y \in S : g[x] = g[y] => x = y
  BY DEF Surjection
<1>2. IsFiniteSet(S) /\ n \in Nat /\ Cardinality(S) = n
  BY DEF Sized
<1> HIDE DEF g, T
<1>3. g \in Injection(S, T)
  BY <1>1 DEF Surjection, Injection, IsInjective
<1>4. IsFiniteSet(T) /\ Cardinality(T) = Cardinality(S)
  BY <1>1, <1>2, <1>3, FS_Surjection
<1>5. Sized(T, n)
  BY <1>2, <1>4 DEF Sized
<1> QED BY <1>5 DEF T

\* The sizes of intervals, lists, singletons and finite sets.
LEMMA SizedFacts ==
  /\ \A s : IsList(s) => Sized(DOMAIN s, Len(s))
  /\ \A x : Sized({x}, 1)
  /\ \A x, y : x # y => Sized({x, y}, 2)
  /\ \A S : IsFiniteSet(S) => Sized(S, Cardinality(S))
<1>1. ASSUME NEW s, IsList(s) PROVE Sized(DOMAIN s, Len(s))
  <2> DEFINE n == Len(s)
  <2>1. n \in Nat /\ DOMAIN s = 1 .. n
    BY <1>1, ListShape
  <2> HIDE DEF n
  <2>2. IsFiniteSet(1 .. n) /\ Cardinality(1 .. n) = IF 1 > n THEN 0 ELSE n - 1 + 1
    BY <2>1, FS_Interval
  <2>3. Cardinality(1 .. n) = n
    BY <2>1, <2>2
  <2> QED BY <2>1, <2>2, <2>3 DEF Sized, n
<1>2. ASSUME NEW x PROVE Sized({x}, 1)
  BY FS_Singleton DEF Sized
<1>3. ASSUME NEW x, NEW y, x # y PROVE Sized({x, y}, 2)
  <2>1. IsFiniteSet({x}) /\ Cardinality({x}) = 1
    BY FS_Singleton
  <2>2. IsFiniteSet({x} \cup {y}) /\ Cardinality({x} \cup {y}) = Cardinality({x}) + 1
    BY <1>3, <2>1, FS_AddElement
  <2>3. {x} \cup {y} = {x, y}
    OBVIOUS
  <2> QED BY <2>1, <2>2, <2>3 DEF Sized
<1>4. ASSUME NEW S, IsFiniteSet(S) PROVE Sized(S, Cardinality(S))
  BY <1>4, FS_CardinalityType DEF Sized
<1> QED BY <1>1, <1>2, <1>3, <1>4

\* Of n rows, each begins with one of the words V.
Part(S, V, n) == Sized(S, n) /\ \A z \in S : z[1] \in V

\* Rows of one word and of something each that no other has.
LEMMA RowsOfWord ==
  ASSUME NEW word, NEW S, NEW n, Sized(S, n), NEW f, \A x, y \in S : f[x] = f[y] => x = y
  PROVE  Part({<<word, f[x]>> : x \in S}, {word}, n)
<1> DEFINE g == [x \in S |-> <<word, f[x]>>]
           T == {<<word, f[x]>> : x \in S}
<1>1. ASSUME NEW x \in S, NEW y \in S, g[x] = g[y] PROVE x = y
  <2>1. <<word, f[x]>> = <<word, f[y]>>
    BY <1>1
  <2>2. <<word, f[x]>>[2] = <<word, f[y]>>[2]
    BY <2>1
  <2> QED BY <2>2
<1>2. T = {g[x] : x \in S}
  OBVIOUS
<1>3. \A z \in T : z[1] \in {word}
  OBVIOUS
<1> HIDE DEF g, T
<1>4. Sized({g[x] : x \in S}, n)
  BY <1>1, SizedImage
<1>5. Part(T, {word}, n)
  BY <1>2, <1>3, <1>4 DEF Part
<1> QED BY <1>5 DEF T

\* The sizes of two sets whose rows begin with different words add up.
LEMMA PartsJoined ==
  ASSUME NEW S, NEW T, NEW m, NEW n, NEW V, NEW W, Part(S, V, m), Part(T, W, n), V \cap W = {}
  PROVE  Part(S \cup T, V \cup W, m + n)
<1>1. S \cap T = {} /\ \A z \in S \cup T : z[1] \in V \cup W
  BY DEF Part
<1>2. IsFiniteSet(S) /\ m \in Nat /\ Cardinality(S) = m /\ IsFiniteSet(T) /\ n \in Nat /\ Cardinality(T) = n
  BY DEF Part, Sized
<1>3. /\ IsFiniteSet(S \cup T)
      /\ Cardinality(S \cup T) = Cardinality(S) + Cardinality(T) - Cardinality(S \cap T)
  BY <1>2, FS_Union
<1>4. Cardinality(S \cap T) = 0
  BY <1>1, FS_EmptySet
<1>5. Cardinality(S \cup T) = m + n /\ m + n \in Nat
  BY <1>2, <1>3, <1>4
<1> QED BY <1>1, <1>3, <1>5 DEF Part, Sized

\* What the counts of the builder rest on: no two entities share an id and no
\* two mentions do.
Distinct(d) ==
  /\ Countable(d)
  /\ \A e, x \in d.entities : e.id = x.id => e = x
  /\ \A i, j \in DOMAIN d.mentions : mentionId(d.mentions[i]) = mentionId(d.mentions[j]) => i = j

\* No two derived rows are of one entity.
OneRowEach(S) == Derived(S) /\ \A r, q \in S : r.entity = q.entity => r = q

\* Rows by the place of each entry of a list.
LEMMA RowsOfPlaces ==
  ASSUME NEW word, NEW s, IsList(s)
  PROVE  Part({<<word, i>> : i \in DOMAIN s}, {word}, Len(s))
<1> DEFINE D == DOMAIN s
           f == [i \in D |-> i]
<1>1. Sized(D, Len(s))
  BY SizedFacts
<1>2. \A x, y \in D : f[x] = f[y] => x = y
  OBVIOUS
<1>3. {<<word, i>> : i \in D} = {<<word, f[i]>> : i \in D}
  OBVIOUS
<1> HIDE DEF f, D
<1>4. Part({<<word, f[i]>> : i \in D}, {word}, Len(s))
  BY <1>1, <1>2, RowsOfWord
<1> QED BY <1>3, <1>4 DEF D

\* Rows by the entity of each derived row.
LEMMA RowsOfEntities ==
  ASSUME NEW word, NEW S, OneRowEach(S)
  PROVE  Part({<<word, r.entity>> : r \in S}, {word}, Cardinality(S))
<1> DEFINE f == [r \in S |-> r.entity]
<1>1. Sized(S, Cardinality(S))
  BY SizedFacts DEF OneRowEach, Derived
<1>2. \A x, y \in S : f[x] = f[y] => x = y
  BY DEF OneRowEach
<1>3. {<<word, r.entity>> : r \in S} = {<<word, f[r]>> : r \in S}
  OBVIOUS
<1> HIDE DEF f
<1>4. Part({<<word, f[r]>> : r \in S}, {word}, Cardinality(S))
  BY <1>1, <1>2, RowsOfWord
<1> QED BY <1>3, <1>4

\* Tier 4 holds as many nodes as the builder and Stage 14 count.
LEMMA NodesExact ==
  ASSUME NEW d, Distinct(d), NEW S, OneRowEach(S)
  PROVE  Cardinality(Tier4Nodes(d, S)) = d.expected.nodeCount + Cardinality(S)
<1> DEFINE C == {<<"chunk", c>> : c \in DOMAIN d.chunks}
           E == {<<"entity", e.id>> : e \in d.entities}
           F == {<<"fact", i>> : i \in DOMAIN d.facts}
           H == {<<"held", i>> : i \in DOMAIN d.held}
           R == {<<"derived", r.entity>> : r \in S}
           B == {<<"source">>, <<"snapshot">>}
           V1 == {"source", "snapshot"}
           V2 == V1 \cup {"chunk"}
           V3 == V2 \cup {"entity"}
           V4 == V3 \cup {"fact"}
           V5 == V4 \cup {"held"}
           nC == Len(d.chunks)
           nE == Cardinality(d.entities)
           nF == Len(d.facts)
           nH == Len(d.held)
           nR == Cardinality(S)
<1>1. IsList(d.chunks) /\ IsList(d.facts) /\ IsList(d.held) /\ IsFiniteSet(d.entities)
      /\ d.expected.nodeCount = 2 + nC + nE + nF + nH
  BY DEF Distinct, Countable
<1>2. Part(B, V1, 2)
  <2>1. <<"source">>[1] = "source" /\ <<"snapshot">>[1] = "snapshot"
    OBVIOUS
  <2>2. <<"source">> # <<"snapshot">>
    BY <2>1
  <2>3. Sized(B, 2)
    BY <2>2, SizedFacts
  <2>4. \A z \in B : z[1] \in V1
    OBVIOUS
  <2> HIDE DEF B, V1
  <2> QED BY <2>3, <2>4 DEF Part
<1>3. Part(C, {"chunk"}, nC) /\ Part(F, {"fact"}, nF) /\ Part(H, {"held"}, nH)
  BY <1>1, RowsOfPlaces
<1>4. Part(R, {"derived"}, nR)
  BY RowsOfEntities
<1>5. Part(E, {"entity"}, nE)
  <2> DEFINE D == d.entities
             f == [e \in D |-> e.id]
  <2>1. (\A x, y \in D : f[x] = f[y] => x = y) /\ E = {<<"entity", f[e]>> : e \in D}
    BY DEF Distinct
  <2>2. Sized(D, nE)
    BY <1>1, SizedFacts
  <2> HIDE DEF f, D, nE, E
  <2>3. Part({<<"entity", f[e]>> : e \in D}, {"entity"}, nE)
    BY <2>1, <2>2, RowsOfWord
  <2> QED BY <2>1, <2>3
<1>6. Tier4Nodes(d, S) = ((((B \cup C) \cup E) \cup F) \cup H) \cup R
  BY DEF Tier4Nodes
<1>7. /\ V1 \cap {"chunk"} = {} /\ V2 = V1 \cup {"chunk"}
      /\ V2 \cap {"entity"} = {} /\ V3 = V2 \cup {"entity"}
      /\ V3 \cap {"fact"} = {} /\ V4 = V3 \cup {"fact"}
      /\ V4 \cap {"held"} = {} /\ V5 = V4 \cup {"held"}
      /\ V5 \cap {"derived"} = {}
  OBVIOUS
<1> HIDE DEF B, C, E, F, H, R, V1, V2, V3, V4, V5, nC, nE, nF, nH, nR
<1>8. Part(B \cup C, V2, 2 + nC)
  BY <1>2, <1>3, <1>7, PartsJoined
<1>9. Part((B \cup C) \cup E, V3, 2 + nC + nE)
  BY <1>5, <1>7, <1>8, PartsJoined
<1>10. Part(((B \cup C) \cup E) \cup F, V4, 2 + nC + nE + nF)
  BY <1>3, <1>7, <1>9, PartsJoined
<1>11. Part((((B \cup C) \cup E) \cup F) \cup H, V5, 2 + nC + nE + nF + nH)
  BY <1>3, <1>7, <1>10, PartsJoined
<1>12. Part(((((B \cup C) \cup E) \cup F) \cup H) \cup R, V5 \cup {"derived"}, 2 + nC + nE + nF + nH + nR)
  BY <1>4, <1>7, <1>11, PartsJoined
<1>13. Cardinality(Tier4Nodes(d, S)) = 2 + nC + nE + nF + nH + nR
  BY <1>6, <1>12 DEF Part, Sized
<1> QED BY <1>1, <1>13 DEF nR

\* And as many edges.
LEMMA EdgesExact ==
  ASSUME NEW d, Distinct(d), NEW S, OneRowEach(S)
  PROVE  Cardinality(Tier4Edges(d, S))
           = d.expected.edgeCount + Cardinality(S)
             + Cardinality(UNION {{<<r, x.chunk>> : x \in r.refs} : r \in S})
<1> DEFINE O == {<<"snapshot of">>}
           P == {<<"part", c>> : c \in DOMAIN d.chunks}
           M == {<<"mentions", mentionId(m)>> : m \in ToSet(d.mentions)}
           F == {"subject", "object"} \X DOMAIN d.facts
           H == {<<"from", i>> : i \in DOMAIN d.held}
           R == {<<"summary", r.entity>> : r \in S}
           X == UNION {{<<"cites", r.entity, x.chunk>> : x \in r.refs} : r \in S}
           Y == UNION {{<<r, x.chunk>> : x \in r.refs} : r \in S}
           V1 == {"snapshot of"}
           V2 == V1 \cup {"part"}
           V3 == V2 \cup {"mentions"}
           V4 == V3 \cup {"subject", "object"}
           V5 == V4 \cup {"from"}
           V6 == V5 \cup {"summary"}
           nP == Len(d.chunks)
           nM == Len(d.mentions)
           nF == Len(d.facts)
           nH == Len(d.held)
           nR == Cardinality(S)
           nX == Cardinality(Y)
<1>1. /\ IsList(d.chunks) /\ IsList(d.mentions) /\ IsList(d.facts) /\ IsList(d.held)
      /\ d.expected.edgeCount = 1 + nP + nM + 2 * nF + nH
      /\ Countable(d) /\ Derived(S)
  BY DEF Distinct, Countable, OneRowEach
<1>2. Part(O, V1, 1)
  <2>1. Sized(O, 1)
    BY SizedFacts
  <2>2. \A z \in O : z[1] \in V1
    <3>1. <<"snapshot of">>[1] = "snapshot of"
      OBVIOUS
    <3> QED BY <3>1
  <2> HIDE DEF O, V1
  <2> QED BY <2>1, <2>2 DEF Part
<1>3. Part(P, {"part"}, nP) /\ Part(H, {"from"}, nH)
  BY <1>1, RowsOfPlaces
<1>4. Part(R, {"summary"}, nR)
  BY RowsOfEntities
<1>5. Part(M, {"mentions"}, nM)
  <2> DEFINE D == DOMAIN d.mentions
             f == [i \in D |-> mentionId(d.mentions[i])]
  <2>1. \A x, y \in D : f[x] = f[y] => x = y
    BY DEF Distinct
  <2>2. M = {<<"mentions", f[i]>> : i \in D}
    BY DEF ToSet
  <2>3. Sized(D, nM)
    BY <1>1, SizedFacts
  <2> HIDE DEF f, D, nM, M
  <2>4. Part({<<"mentions", f[i]>> : i \in D}, {"mentions"}, nM)
    BY <2>1, <2>3, RowsOfWord
  <2> QED BY <2>2, <2>4
<1>6. Part(F, {"subject", "object"}, 2 * nF)
  <2> DEFINE T == {"subject", "object"}
             D == DOMAIN d.facts
  <2>1. Sized(T, 2) /\ Sized(D, nF)
    <3>1. "subject" # "object"
      OBVIOUS
    <3> QED BY <1>1, <3>1, SizedFacts
  <2>2. F = T \X D /\ \A z \in F : z[1] \in T
    OBVIOUS
  <2> HIDE DEF T, D, nF, F
  <2>3. IsFiniteSet(T) /\ Cardinality(T) = 2 /\ IsFiniteSet(D) /\ Cardinality(D) = nF /\ nF \in Nat
    BY <2>1 DEF Sized
  <2>4. IsFiniteSet(T \X D) /\ Cardinality(T \X D) = Cardinality(T) * Cardinality(D)
    BY <2>3, FS_Product
  <2>5. Cardinality(F) = 2 * nF /\ 2 * nF \in Nat
    BY <2>2, <2>3, <2>4
  <2>6. Part(F, T, 2 * nF)
    BY <2>2, <2>4, <2>5 DEF Part, Sized
  <2> QED BY <2>6 DEF T
<1>7. Part(X, {"cites"}, nX)
  <2>1. IsFiniteSet(Y)
    BY <1>1, CitesFinite
  <2> DEFINE f == [y \in Y |-> <<"cites", y[1].entity, y[2]>>]
  <2>2. X = {f[y] : y \in Y}
    <3>1. ASSUME NEW z \in X PROVE z \in {f[y] : y \in Y}
      <4>1. PICK r \in S : \E x \in r.refs : z = <<"cites", r.entity, x.chunk>>
        BY <3>1
      <4>2. PICK x \in r.refs : z = <<"cites", r.entity, x.chunk>>
        BY <4>1
      <4>3. <<r, x.chunk>> \in Y
        OBVIOUS
      <4>4. f[<<r, x.chunk>>] = z
        BY <4>2, <4>3
      <4> QED BY <4>3, <4>4
    <3>2. ASSUME NEW y \in Y PROVE f[y] \in X
      <4>1. PICK r \in S : \E x \in r.refs : y = <<r, x.chunk>>
        BY <3>2
      <4>2. PICK x \in r.refs : y = <<r, x.chunk>>
        BY <4>1
      <4>3. f[y] = <<"cites", r.entity, x.chunk>>
        BY <4>2
      <4> QED BY <4>3
    <3> QED BY <3>1, <3>2
  <2>3. ASSUME NEW y \in Y, NEW z \in Y, f[y] = f[z] PROVE y = z
    <3>1. PICK r \in S : \E x \in r.refs : y = <<r, x.chunk>>
      OBVIOUS
    <3>2. PICK q \in S : \E x \in q.refs : z = <<q, x.chunk>>
      OBVIOUS
    <3>3. PICK a : y = <<r, a>>
      BY <3>1
    <3>4. PICK c : z = <<q, c>>
      BY <3>2
    <3>5. <<"cites", r.entity, a>> = <<"cites", q.entity, c>>
      BY <2>3, <3>3, <3>4
    <3>6. r.entity = q.entity /\ a = c
      BY <3>5
    <3>7. r = q
      BY <3>6 DEF OneRowEach
    <3> QED BY <3>3, <3>4, <3>6, <3>7
  <2>4. \A z \in X : z[1] \in {"cites"}
    OBVIOUS
  <2>5. Sized(Y, nX)
    BY <2>1, SizedFacts
  <2> HIDE DEF f, X, Y, nX
  <2>6. Sized({f[y] : y \in Y}, nX)
    BY <2>3, <2>5, SizedImage
  <2> QED BY <2>2, <2>4, <2>6 DEF Part
<1>8. Tier4Edges(d, S) = (((((O \cup P) \cup M) \cup F) \cup H) \cup R) \cup X
  BY DEF Tier4Edges
<1>9. /\ V1 \cap {"part"} = {} /\ V2 = V1 \cup {"part"}
      /\ V2 \cap {"mentions"} = {} /\ V3 = V2 \cup {"mentions"}
      /\ V3 \cap {"subject", "object"} = {} /\ V4 = V3 \cup {"subject", "object"}
      /\ V4 \cap {"from"} = {} /\ V5 = V4 \cup {"from"}
      /\ V5 \cap {"summary"} = {} /\ V6 = V5 \cup {"summary"}
      /\ V6 \cap {"cites"} = {}
  OBVIOUS
<1> HIDE DEF O, P, M, F, H, R, X, Y, V1, V2, V3, V4, V5, V6, nP, nM, nF, nH, nR, nX
<1>10. Part(O \cup P, V2, 1 + nP)
  BY <1>2, <1>3, <1>9, PartsJoined
<1>11. Part((O \cup P) \cup M, V3, 1 + nP + nM)
  BY <1>5, <1>9, <1>10, PartsJoined
<1>12. Part(((O \cup P) \cup M) \cup F, V4, 1 + nP + nM + 2 * nF)
  BY <1>6, <1>9, <1>11, PartsJoined
<1>13. Part((((O \cup P) \cup M) \cup F) \cup H, V5, 1 + nP + nM + 2 * nF + nH)
  BY <1>3, <1>9, <1>12, PartsJoined
<1>14. Part(((((O \cup P) \cup M) \cup F) \cup H) \cup R, V6, 1 + nP + nM + 2 * nF + nH + nR)
  BY <1>4, <1>9, <1>13, PartsJoined
<1>15. Part((((((O \cup P) \cup M) \cup F) \cup H) \cup R) \cup X, V6 \cup {"cites"},
            1 + nP + nM + 2 * nF + nH + nR + nX)
  BY <1>7, <1>9, <1>14, PartsJoined
<1>16. Cardinality(Tier4Edges(d, S)) = 1 + nP + nM + 2 * nF + nH + nR + nX
  BY <1>8, <1>15 DEF Part, Sized
<1> QED BY <1>1, <1>16 DEF nR, nX, Y

-----------------------------------------------------------------------------
(* What a decision refers to. *)

\* The entries of a list that are in Y, as a list.
LEMMA KeptList ==
  ASSUME NEW s, IsList(s), NEW Y, Y \subseteq ToSet(s)
  PROVE  LET q == FlattenSeq([i \in DOMAIN s |-> IF s[i] \in Y THEN <<s[i]>> ELSE <<>>])
         IN  /\ IsList(q) /\ ToSet(q) = Y /\ Len(q) = Times(s, Y)
             /\ (Y # {} => q # <<>> /\ q[1] \in Y)
<1> DEFINE f == [x \in ToSet(s) |-> IF x \in Y THEN <<x>> ELSE <<>>]
           row == [x \in ToSet(s) |-> x]
           p == [i \in DOMAIN s |-> IF s[i] \in Y THEN <<s[i]>> ELSE <<>>]
           q == FlattenSeq(p)
<1>1. \A i \in DOMAIN s : s[i] \in ToSet(s)
  BY ListShape
<1>2. p = [i \in DOMAIN s |-> f[s[i]]]
  BY <1>1
<1>3. \A x \in ToSet(s) : f[x] = IF x \in Y THEN <<row[x]>> ELSE <<>>
  OBVIOUS
<1>4. {row[x] : x \in ToSet(s) \cap Y} = Y
  OBVIOUS
<1> HIDE DEF f, row, p
<1>5. RowsOf(FlattenSeq([i \in DOMAIN s |-> f[s[i]]]), s, Y, row)
  BY <1>3, CollectedRows
<1>6. IsList(q) /\ ToSet(q) = Y /\ Len(q) = Times(s, Y)
  BY <1>2, <1>4, <1>5 DEF RowsOf
<1> HIDE DEF q
<1>7. ASSUME Y # {} PROVE q # <<>> /\ q[1] \in Y
  <2>1. q # <<>>
    <3>1. ToSet(<<>>) = {}
      BY DEF ToSet
    <3> QED BY <1>6, <1>7, <3>1
  <2>2. 1 \in DOMAIN q
    BY <1>6, <2>1, ListShape
  <2>3. q[1] \in ToSet(q)
    BY <1>6, <2>2, ListShape
  <2> QED BY <1>6, <2>1, <2>3
<1> QED BY <1>6, <1>7 DEF q, p

\* Under the refs that Stage 9 finds an id is of one identity.
LEMMA IdsApart ==
  ASSUME NEW b, b.refs = pool, NEW m, NEW n, EntityId(b, m) = EntityId(b, n)
  PROVE  Identity(m) = Identity(n)
<1> DEFINE i == Identity(m)
           j == Identity(n)
<1>1. /\ \A k, l \in DOMAIN pool : pool[k] = pool[l] => k = l
      /\ \A k \in DOMAIN pool : pool[k][1] = "entity" => pool[k][2] = k
  BY PoolAssumption
<1>2. RefOf(pool, i) = RefOf(pool, j)
  BY DEF EntityId
<1> HIDE DEF i, j
<1>3. \A k : <<"entity", k>>[1] = "entity" /\ <<"entity", k>>[2] = k
  OBVIOUS
<1>4. CASE i \in DOMAIN pool /\ j \in DOMAIN pool
  BY <1>1, <1>2, <1>4 DEF RefOf, i, j
<1>5. CASE i \in DOMAIN pool /\ j \notin DOMAIN pool
  <2>1. pool[i] = <<"entity", j>>
    BY <1>2, <1>5 DEF RefOf
  <2>2. i = j
    BY <1>1, <1>3, <1>5, <2>1
  <2> QED BY <2>2 DEF i, j
<1>6. CASE i \notin DOMAIN pool /\ j \in DOMAIN pool
  <2>1. pool[j] = <<"entity", i>>
    BY <1>2, <1>6 DEF RefOf
  <2>2. i = j
    BY <1>1, <1>3, <1>6, <2>1
  <2> QED BY <2>2 DEF i, j
<1>7. CASE i \notin DOMAIN pool /\ j \notin DOMAIN pool
  <2>1. <<"entity", i>> = <<"entity", j>>
    BY <1>2, <1>7 DEF RefOf
  <2>2. i = j
    BY <1>3, <2>1
  <2> QED BY <2>2 DEF i, j
<1> QED BY <1>4, <1>5, <1>6, <1>7

\* What the stages need of a batch: what it mentions is in its chunks, each
\* mention under an id of its own.
Sound(b) ==
  /\ Readable(b) /\ b.refs = pool
  /\ \A m \in ToSet(b.mentions) : m.at \in Int /\ m.chunk \in DOMAIN b.chunks
  /\ \A i, j \in DOMAIN b.mentions : mentionId(b.mentions[i]) = mentionId(b.mentions[j]) => i = j

\* An accepted batch is sound.
LEMMA SortedSound ==
  ASSUME NEW r \in Request, Accepted(r)
  PROVE  Sound(Sorted(r.batch))
<1> DEFINE w == r.batch
           b == Sorted(w)
           id == [i \in DOMAIN w.mentions |-> w.mentions[i].sourceMentionId]
<1>1. IsInjective(id)
  BY DEF Accepted, ValidBatch, ValidMentions
<1>2. \A i, j \in DOMAIN w.mentions : id[i] = id[j] => i = j
  BY <1>1 DEF IsInjective
<1>3. DOMAIN b.mentions = DOMAIN w.mentions /\ \A i \in DOMAIN w.mentions : b.mentions[i].id = id[i]
  BY DEF Sorted
<1>4. b.refs = pool
  BY DEF Sorted
<1>5. Readable(b) /\ \A m \in ToSet(b.mentions) : m.chunk \in DOMAIN b.chunks
  BY SortedType
<1>6. \A m \in ToSet(b.mentions) : m.at \in Int
  BY MentionsPlaced
<1> HIDE DEF b, id
<1>7. Sound(b)
  BY <1>2, <1>3, <1>4, <1>5, <1>6 DEF Sound, mentionId
<1> QED BY <1>7 DEF b

\* Its decision keeps entities and mentions apart.
LEMMA DecisionDistinct ==
  ASSUME NEW b, Sound(b), NEW version
  PROVE  /\ Distinct(Decision(b, version))
         /\ Decision(b, version).mentions = b.mentions /\ Decision(b, version).version = version
         /\ Decision(b, version).entities = {EntityOf(b, m) : m \in ToSet(b.mentions)}
<1> DEFINE d == Decision(b, version)
<1>1. Countable(d)
  BY DecisionType DEF Sound
<1>2. d.mentions = b.mentions /\ d.version = version /\ d.entities = {EntityOf(b, m) : m \in ToSet(b.mentions)}
  BY DEF Decision, DecisionOn, DecisionFrom, DecisionRow, Entities, EntityOf
<1> HIDE DEF d
<1>3. ASSUME NEW e \in d.entities, NEW x \in d.entities, e.id = x.id PROVE e = x
  <2>1. PICK m \in ToSet(b.mentions) : e = EntityOf(b, m)
    BY <1>2
  <2>2. PICK n \in ToSet(b.mentions) : x = EntityOf(b, n)
    BY <1>2
  <2>3. EntityId(b, m) = EntityId(b, n)
    BY <1>3, <2>1, <2>2 DEF EntityOf
  <2>4. Identity(m) = Identity(n)
    BY <2>3, IdsApart DEF Sound
  <2>5. m.type = n.type
    BY <2>4 DEF Identity
  <2>6. {k \in ToSet(b.mentions) : Identity(k) = Identity(m)} = {k \in ToSet(b.mentions) : Identity(k) = Identity(n)}
    BY <2>4
  <2> QED BY <2>1, <2>2, <2>3, <2>5, <2>6, Zenon DEF EntityOf
<1>4. Distinct(d)
  BY <1>1, <1>2, <1>3 DEF Distinct, Sound
<1> QED BY <1>2, <1>4 DEF d

\* Stage 14 makes one row of each entity.
LEMMA SummariesOfEntities ==
  ASSUME NEW d, Distinct(d)
  PROVE  OneRowEach(Summaries(d)) /\ Cardinality(Summaries(d)) = Cardinality(d.entities)
<1> DEFINE D == d.entities
           f == [e \in D |-> Summary(d, e)]
<1>1. Summaries(d) = {f[e] : e \in D}
  BY DEF Summaries
<1>2. \A e : Summary(d, e).entity = e.id
  BY DEF Summary
<1>3. \A e, x \in D : e.id = x.id => e = x
  BY DEF Distinct
<1>4. \A e \in D : f[e] = Summary(d, e)
  OBVIOUS
<1>5. Derived(Summaries(d))
  BY SummariesType DEF Distinct
<1>6. Sized(D, Cardinality(D))
  BY SizedFacts DEF Distinct, Countable
<1> HIDE DEF f, D
<1>7. \A e, x \in D : f[e] = f[x] => e = x
  BY <1>2, <1>3, <1>4
<1>8. Sized({f[e] : e \in D}, Cardinality(D))
  BY <1>6, <1>7, SizedImage
<1>9. \A r, q \in Summaries(d) : r.entity = q.entity => r = q
  BY <1>1, <1>2, <1>3, <1>4
<1> QED BY <1>1, <1>5, <1>8, <1>9 DEF OneRowEach, Sized, D

\* A candidate is of two mentions of its chunk, and refers to both.
Mentioned(b, c) ==
  /\ c.chunk \in DOMAIN b.chunks /\ ClaimKind(c)
  /\ \E s, o \in MentionsIn(b, c.chunk) :
       /\ c.subject = EntityId(b, s) /\ c.subjectType = TypeOf(b, EntityId(b, s))
       /\ c.object = EntityId(b, o) /\ c.objectType = TypeOf(b, EntityId(b, o))
       /\ c.refs = SourceReferences(c.chunk, {mentionId(s), mentionId(o)})

\* Every candidate is.
LEMMA CandidatesMentioned ==
  ASSUME NEW b, Sound(b)
  PROVE  IsList(Candidates(b)) /\ \A c \in ToSet(Candidates(b)) : Mentioned(b, c)
<1>1. Readable(b) /\ IsList(b.mentions) /\ \A m \in ToSet(b.mentions) : m.at \in Int
  BY DEF Sound, Readable
<1>2. IsList(Candidates(b))
  BY <1>1, CandidatesType
<1>3. ASSUME NEW c \in ToSet(Candidates(b)) PROVE Mentioned(b, c)
  <2>1. PICK k \in DOMAIN b.chunks :
           \E claim \in ToSet(ChunkClaims(b.chunks[k], Keep(b.mentions, LAMBDA m : m.chunk = k))) :
             c = Candidate(b, k, claim)
    BY <1>1, <1>3, CandidatesType
  <2> DEFINE text == b.chunks[k]
             ms == Keep(b.mentions, LAMBDA m : m.chunk = k)
             names == {m.at : m \in ToSet(ms)}
  <2>2. PICK claim \in ToSet(ChunkClaims(text, ms)) : c = Candidate(b, k, claim)
    BY <2>1
  <2>3. IsList(text)
    BY <1>1 DEF Readable
  <2>4. IsList(ms) /\ ToSet(ms) = MentionsIn(b, k)
    BY <1>1, MentionsOfChunk DEF MentionsIn
  <2> HIDE DEF ms
  <2>5. \A m \in ToSet(ms) : m.at \in Int /\ m.at \in names
    BY <1>1, <2>4 DEF MentionsIn
  <2> HIDE DEF text, names
  <2>6. ClaimKind(claim)
    BY <2>2, <2>3, ClaimKinds
  <2>7. \/ Said(text, ToSet(ms), names, claim) \/ Formed(text, ToSet(ms), claim)
        \/ Guessed(ToSet(ms), claim)
    BY <2>2, <2>3, <2>4, <2>5, ClaimsFollow
  <2> DEFINE s == claim.subject
             o == claim.object
  <2>8. s \in MentionsIn(b, k) /\ o \in MentionsIn(b, k)
    BY <2>4, <2>7 DEF Said, Formed, Guessed
  <2>9. /\ c.chunk = k /\ c.confidence = claim.confidence /\ c.hold = claim.hold
        /\ c.subject = EntityId(b, s) /\ c.subjectType = TypeOf(b, EntityId(b, s))
        /\ c.object = EntityId(b, o) /\ c.objectType = TypeOf(b, EntityId(b, o))
        /\ c.refs = SourceReferences(k, {mentionId(s), mentionId(o)})
    BY <2>2 DEF Candidate
  <2> HIDE DEF s, o
  <2>10. ClaimKind(c)
    BY <2>6, <2>9 DEF ClaimKind
  <2> QED BY <2>8, <2>9, <2>10, Zenon DEF Mentioned
<1> QED BY <1>2, <1>3

\* The type of an id is that of each mention under it.
LEMMA TypesOfIds ==
  ASSUME NEW b, Sound(b), NEW m \in ToSet(b.mentions)
  PROVE  TypeOf(b, EntityId(b, m)) = m.type
<1> DEFINE id == EntityId(b, m)
           s == b.mentions
           Y == {n \in ToSet(s) : EntityId(b, n) = id}
           p == [i \in DOMAIN s |-> IF s[i] \in Y THEN <<s[i]>> ELSE <<>>]
           q == FlattenSeq(p)
<1>1. IsList(s) /\ b.refs = pool
  BY DEF Sound, Readable
<1>2. \A i \in DOMAIN s : s[i] \in ToSet(s)
  BY <1>1, ListShape
<1>3. p = [i \in DOMAIN s |-> IF EntityId(b, s[i]) = id THEN <<s[i]>> ELSE <<>>]
  BY <1>2
<1>4. Keep(s, LAMBDA n : EntityId(b, n) = id) = q
  <2> HIDE DEF p, id, s
  <2> QED BY <1>3 DEF Keep, Collect, Each, Only
<1>5. TypeOf(b, id) = q[1].type
  <2>1. TypeOf(b, id) = Keep(s, LAMBDA n : EntityId(b, n) = id)[1].type
    BY DEF TypeOf
  <2> HIDE DEF q, id, s
  <2> QED BY <1>4, <2>1
<1>6. Y \subseteq ToSet(s) /\ Y # {}
  OBVIOUS
<1> HIDE DEF Y, s
<1>7. q[1] \in Y
  BY <1>1, <1>6, KeptList
<1> HIDE DEF p, q
<1>8. EntityId(b, q[1]) = EntityId(b, m)
  BY <1>7 DEF Y, id
<1>9. Identity(q[1]) = Identity(m)
  BY <1>1, <1>8, IdsApart
<1>10. q[1].type = m.type
  BY <1>9 DEF Identity
<1> QED BY <1>5, <1>10 DEF id

\* What a decision states and what it holds are candidates of its batch.
LEMMA RowsOfCandidates ==
  ASSUME NEW b, Sound(b), NEW version
  PROVE  /\ \A f \in ToSet(Decision(b, version).facts) :
              \E c \in ToSet(Candidates(b)) : Mapped(c, version) /\ f = Fact(b, c)
         /\ \A h \in ToSet(Decision(b, version).held) :
              \E c \in ToSet(Candidates(b)) : h.refs = c.refs
<1> DEFINE cs == Candidates(b)
           mapped == Mappable(version, cs)
           h10 == Collect(cs, Held10)
           h11 == Stage11(cs, version)
           h12 == Stage12(b, mapped)
<1>1. /\ Decision(b, version).facts = Facts(b, mapped)
      /\ Decision(b, version).held = HeldRows(b, version, cs, mapped)
  BY DEF Decision, DecisionOn, DecisionFrom, DecisionRow
<1>2. IsList(cs) /\ \A c \in ToSet(cs) : ClaimKind(c)
  BY CandidatesMentioned DEF Mentioned
<1>3. HeldRows(b, version, cs, mapped) = h10 \o h11 \o h12
  BY DEF HeldRows, Stage11, Stage12
<1> DEFINE T == ToSet(mapped)
           S == ToSet(cs)
<1> HIDE DEF cs
<1>4. IsList(mapped) /\ T = {c \in S : Mapped(c, version)}
  BY <1>2, MappableType
<1>5. /\ RowsOf(h10, cs, {c \in S : Stopped(c)}, [c \in S |-> Row10(c)])
      /\ RowsOf(h11, cs, {c \in S : ~ Stopped(c) /\ ~ Mapped(c, version)}, [c \in S |-> Row11(c)])
      /\ RowsOf(h12, mapped, {c \in T : Held12(b, c) # <<>>}, [c \in T |-> Row12(b, c)])
  BY <1>2, StageLists
<1> HIDE DEF mapped, h10, h11, h12, S, T
<1>6. \A f \in ToSet(Facts(b, mapped)) : \E c \in S : Mapped(c, version) /\ f = Fact(b, c)
  <2>1. \A f \in ToSet(Facts(b, mapped)) : \E c \in T : Held12(b, c) = <<>> /\ f = Fact(b, c)
    BY <1>4, FactsType DEF T
  <2> QED BY <1>4, <2>1
<1>7. IsList(h10) /\ IsList(h11) /\ IsList(h12)
  BY <1>5 DEF RowsOf
<1>8. /\ \A c : Row10(c).refs = c.refs /\ Row11(c).refs = c.refs /\ Row12(b, c).refs = c.refs
  BY DEF Row10, Row11, Row12, heldRecord
<1>9. \A h \in ToSet(h10) : \E c \in S : h.refs = c.refs
  <2>1. ToSet(h10) = {[c \in S |-> Row10(c)][x] : x \in ToSet(cs) \cap {c \in S : Stopped(c)}}
    BY <1>5 DEF RowsOf
  <2>2. \A h \in ToSet(h10) : \E c \in S : h = Row10(c)
    BY <2>1
  <2> QED BY <1>8, <2>2
<1>10. \A h \in ToSet(h11) : \E c \in S : h.refs = c.refs
  <2>1. ToSet(h11) = {[c \in S |-> Row11(c)][x] : x \in ToSet(cs) \cap {c \in S : ~ Stopped(c) /\ ~ Mapped(c, version)}}
    BY <1>5 DEF RowsOf
  <2>2. \A h \in ToSet(h11) : \E c \in S : h = Row11(c)
    BY <2>1
  <2> QED BY <1>8, <2>2
<1>11. \A h \in ToSet(h12) : \E c \in S : h.refs = c.refs
  <2>1. ToSet(h12) = {[c \in T |-> Row12(b, c)][x] : x \in ToSet(mapped) \cap {c \in T : Held12(b, c) # <<>>}}
    BY <1>5 DEF RowsOf
  <2>2. \A h \in ToSet(h12) : \E c \in T : h = Row12(b, c)
    BY <2>1
  <2> QED BY <1>4, <1>8, <2>2
<1>12. ToSet(h10 \o h11 \o h12) = (ToSet(h10) \cup ToSet(h11)) \cup ToSet(h12)
  <2>1. IsList(h10 \o h11) /\ ToSet(h10 \o h11) = ToSet(h10) \cup ToSet(h11)
    BY <1>7, JoinedLists, JoinedSets
  <2>2. ToSet((h10 \o h11) \o h12) = ToSet(h10 \o h11) \cup ToSet(h12)
    BY <1>7, <2>1, JoinedSets
  <2> QED BY <2>1, <2>2
<1>13. \A h \in ToSet(h10 \o h11 \o h12) : \E c \in S : h.refs = c.refs
  BY <1>9, <1>10, <1>11, <1>12
<1> QED BY <1>1, <1>3, <1>6, <1>13 DEF S, cs

\* The references of a candidate are known to its decision.
LEMMA ReferencesKnown ==
  ASSUME NEW b, Sound(b), NEW d, d.chunks = b.chunks, d.mentions = b.mentions,
         NEW c, Mentioned(b, c)
  PROVE  knownSourceReference(c.refs, d)
<1>1. PICK s \in MentionsIn(b, c.chunk), o \in MentionsIn(b, c.chunk) :
        c.refs = SourceReferences(c.chunk, {mentionId(s), mentionId(o)})
  BY DEF Mentioned
<1>2. c.refs.chunk = c.chunk /\ c.refs.mentions = {mentionId(s), mentionId(o)}
  BY <1>1 DEF SourceReferences
<1>3. /\ s \in ToSet(d.mentions) /\ s.chunk = c.chunk /\ o \in ToSet(d.mentions) /\ o.chunk = c.chunk
      /\ c.chunk \in DOMAIN d.chunks
  BY DEF MentionsIn, Mentioned
<1> QED BY <1>2, <1>3 DEF knownSourceReference

\* No row of a decision refers to what is not in it.
LEMMA RowsKnown ==
  ASSUME NEW b, Sound(b), NEW version
  PROVE  LET d == Decision(b, version)
         IN \A r \in ToSet(d.facts) \cup ToSet(d.held) : knownSourceReference(r.refs, d)
<1> DEFINE d == Decision(b, version)
<1>1. d.chunks = b.chunks /\ d.mentions = b.mentions
  BY DEF Decision, DecisionOn, DecisionFrom, DecisionRow
<1>2. /\ \A f \in ToSet(d.facts) : \E c \in ToSet(Candidates(b)) : Mapped(c, version) /\ f = Fact(b, c)
      /\ \A h \in ToSet(d.held) : \E c \in ToSet(Candidates(b)) : h.refs = c.refs
  BY RowsOfCandidates
<1>3. \A c : Fact(b, c).refs = c.refs
  BY DEF Fact
<1> HIDE DEF d
<1>4. \A c \in ToSet(Candidates(b)) : knownSourceReference(c.refs, d)
  BY <1>1, CandidatesMentioned, ReferencesKnown
<1>5. \A r \in ToSet(d.facts) \cup ToSet(d.held) : \E c \in ToSet(Candidates(b)) : r.refs = c.refs
  BY <1>2, <1>3
<1>6. \A r \in ToSet(d.facts) \cup ToSet(d.held) : knownSourceReference(r.refs, d)
  BY <1>4, <1>5
<1> QED BY <1>6 DEF d

\* What the ontology allows of a fact is what its entities are: the gate finds
\* nothing wrong with the knowledge of a decision but that it is not embedded.
LEMMA KnowledgeOfDecision ==
  ASSUME NEW b, Sound(b), NEW version \in SupportedVersions
  PROVE  KnowledgeFails(Decision(b, version)) <=> ~ b.embed
<1> DEFINE d == Decision(b, version)
           types(id) == {e.type : e \in {x \in d.entities : x.id = id}}
<1>1. d.version = version /\ d.entities = {EntityOf(b, m) : m \in ToSet(b.mentions)}
  BY DecisionDistinct
<1>2. d.embed = b.embed
  BY DecisionType DEF Sound
<1>3. \A f \in ToSet(d.facts) : \E c \in ToSet(Candidates(b)) : Mapped(c, version) /\ f = Fact(b, c)
  BY RowsOfCandidates
<1>4. KnowledgeFails(d) <=> \/ d.version \notin SupportedVersions
                            \/ \E f \in ToSet(d.facts) : \A s \in types(f.subject), o \in types(f.object) :
                                 ~ ValidEndpoint(d.version, f.predicate, s, o)
                            \/ ~ d.embed
  BY DEF KnowledgeFails
<1> HIDE DEF d
<1>5. \A m \in ToSet(b.mentions) : TypeOf(b, EntityId(b, m)) \in types(EntityId(b, m))
  <2> TAKE m \in ToSet(b.mentions)
  <2>1. EntityOf(b, m) \in d.entities /\ EntityOf(b, m).id = EntityId(b, m) /\ EntityOf(b, m).type = m.type
    BY <1>1 DEF EntityOf
  <2>2. TypeOf(b, EntityId(b, m)) = m.type
    BY TypesOfIds
  <2> QED BY <2>1, <2>2
<1> HIDE DEF types
<1>6. ASSUME NEW f \in ToSet(d.facts)
      PROVE  \E s \in types(f.subject), o \in types(f.object) : ValidEndpoint(d.version, f.predicate, s, o)
  <2>1. PICK c \in ToSet(Candidates(b)) : Mapped(c, version) /\ f = Fact(b, c)
    BY <1>3
  <2>2. Mentioned(b, c)
    BY CandidatesMentioned
  <2>3. PICK s \in MentionsIn(b, c.chunk), o \in MentionsIn(b, c.chunk) :
           /\ c.subject = EntityId(b, s) /\ c.subjectType = TypeOf(b, EntityId(b, s))
           /\ c.object = EntityId(b, o) /\ c.objectType = TypeOf(b, EntityId(b, o))
    BY <2>2 DEF Mentioned
  <2>4. s \in ToSet(b.mentions) /\ o \in ToSet(b.mentions)
    BY DEF MentionsIn
  <2>5. c.subjectType \in types(c.subject) /\ c.objectType \in types(c.object)
    BY <1>5, <2>3, <2>4
  <2>6. f.subject = c.subject /\ f.object = c.object /\ f.predicate = Alias[c.raw]
    BY <2>1 DEF Fact
  <2>7. ValidEndpoint(version, Alias[c.raw], c.subjectType, c.objectType)
    BY <2>1 DEF Mapped
  <2> QED BY <1>1, <2>5, <2>6, <2>7
<1>7. KnowledgeFails(d) <=> ~ b.embed
  BY <1>1, <1>2, <1>4, <1>6
<1> QED BY <1>7 DEF d

\* The facts of an entity.
FactsNaming(d, id) == {f \in ToSet(d.facts) : f.subject = id \/ f.object = id}

\* They are what the list of its facts has, and as many as its row counts.
LEMMA FactsOfType ==
  ASSUME NEW d, IsList(d.facts), NEW id
  PROVE  /\ ToSet(FactsOf(d, id)) = FactsNaming(d, id)
         /\ FactsOf(d, id) = <<>> <=> FactsNaming(d, id) = {}
         /\ Len(FactsOf(d, id)) = Cardinality({i \in DOMAIN d.facts : id \in {d.facts[i].subject, d.facts[i].object}})
<1> DEFINE s == d.facts
           Y == FactsNaming(d, id)
           p == [i \in DOMAIN s |-> IF s[i] \in Y THEN <<s[i]>> ELSE <<>>]
           q == FlattenSeq(p)
<1>1. \A i \in DOMAIN s : s[i] \in ToSet(s)
  BY ListShape
<1>2. \A i \in DOMAIN s : s[i] \in Y <=> s[i].subject = id \/ s[i].object = id
  BY <1>1 DEF FactsNaming
<1>3. p = [i \in DOMAIN s |-> IF s[i].subject = id \/ s[i].object = id THEN <<s[i]>> ELSE <<>>]
  BY <1>2
<1>4. FactsOf(d, id) = q
  <2>1. FactsOf(d, id) = Keep(s, LAMBDA f : f.subject = id \/ f.object = id)
    BY DEF FactsOf
  <2> HIDE DEF p, s
  <2> QED BY <1>3, <2>1 DEF Keep, Collect, Each, Only
<1>5. Times(s, Y) = Cardinality({i \in DOMAIN s : id \in {s[i].subject, s[i].object}})
  <2>1. {i \in DOMAIN s : s[i] \in Y} = {i \in DOMAIN s : id \in {s[i].subject, s[i].object}}
    BY <1>2
  <2> HIDE DEF Y, s
  <2> QED BY <2>1 DEF Times
<1>6. Y \subseteq ToSet(s)
  BY DEF FactsNaming
<1> HIDE DEF Y, s
<1>7. IsList(q) /\ ToSet(q) = Y /\ Len(q) = Times(s, Y) /\ (Y # {} => q # <<>>)
  BY <1>6, KeptList DEF s
<1> HIDE DEF p, q
<1>8. q = <<>> => Y = {}
  BY <1>7
<1>9. Y = {} => q = <<>>
  <2> SUFFICES ASSUME q # <<>> PROVE Y # {}
    OBVIOUS
  <2>1. 1 \in DOMAIN q
    BY <1>7, ListShape
  <2>2. q[1] \in ToSet(q)
    BY <1>7, <2>1, ListShape
  <2> QED BY <1>7, <2>2
<1>10. ToSet(FactsOf(d, id)) = Y /\ (FactsOf(d, id) = <<>> <=> Y = {}) /\ Len(FactsOf(d, id)) = Times(s, Y)
  BY <1>4, <1>7, <1>8, <1>9
<1> QED BY <1>5, <1>10 DEF Y, s

\* The first mention of an entity.
FirstOf(d, e) == Keep(d.mentions, LAMBDA m : mentionId(m) \in e.mentions)[1]

\* Of an entity of a decision it is one of the batch.
LEMMA FirstMention ==
  ASSUME NEW d, IsList(d.mentions), NEW e, \E m \in ToSet(d.mentions) : mentionId(m) \in e.mentions
  PROVE  FirstOf(d, e) \in ToSet(d.mentions)
<1> DEFINE s == d.mentions
           Y == {m \in ToSet(s) : mentionId(m) \in e.mentions}
           p == [i \in DOMAIN s |-> IF s[i] \in Y THEN <<s[i]>> ELSE <<>>]
<1>1. \A i \in DOMAIN s : s[i] \in ToSet(s)
  BY ListShape
<1>2. p = [i \in DOMAIN s |-> IF mentionId(s[i]) \in e.mentions THEN <<s[i]>> ELSE <<>>]
  BY <1>1
<1>3. Keep(s, LAMBDA m : mentionId(m) \in e.mentions) = FlattenSeq(p)
  <2> HIDE DEF p, s
  <2> QED BY <1>2 DEF Keep, Collect, Each, Only
<1>4. Y \subseteq ToSet(s) /\ Y # {}
  OBVIOUS
<1> HIDE DEF Y, s
<1>5. FlattenSeq(p)[1] \in Y
  BY <1>4, KeptList DEF s
<1> HIDE DEF p
<1>6. FlattenSeq(p)[1] \in ToSet(s)
  BY <1>4, <1>5
<1> QED BY <1>3, <1>6 DEF FirstOf, s

\* A derived row is of its entity, counts its chunks and facts, and refers to
\* what its decision knows.
RowOfEntity(d, e, q) ==
  /\ q.refs # {} /\ \A x \in q.refs : knownSourceReference(x, d)
  /\ q.id = <<"derived", e.id>> /\ q.entity = e.id /\ q.documentCount = 1
  /\ q.chunkCount = Cardinality({m.chunk : m \in MentionsOf(d, e)})
  /\ q.factCount = Cardinality({i \in DOMAIN d.facts : e.id \in {d.facts[i].subject, d.facts[i].object}})

\* The rows of Stage 14 are such rows.
LEMMA SummaryKnown ==
  ASSUME NEW b, Sound(b), NEW version, NEW e \in Decision(b, version).entities
  PROVE  RowOfEntity(Decision(b, version), e, Summary(Decision(b, version), e))
<1> DEFINE d == Decision(b, version)
           q == Summary(d, e)
           facts == FactsOf(d, e.id)
           first == FirstOf(d, e)
<1>1. /\ q.id = <<"derived", e.id>> /\ q.entity = e.id /\ q.documentCount = 1
      /\ q.chunkCount = Cardinality({m.chunk : m \in MentionsOf(d, e)}) /\ q.factCount = Len(facts)
      /\ q.refs = IF facts = <<>> THEN {SourceReferences(first.chunk, {mentionId(first)})}
                  ELSE {f.refs : f \in ToSet(facts)}
  BY DEF Summary, FirstOf
<1>2. /\ d.mentions = b.mentions /\ d.chunks = b.chunks
      /\ d.entities = {EntityOf(b, m) : m \in ToSet(b.mentions)}
      /\ IsList(d.facts) /\ IsList(d.mentions)
  <2>1. d.chunks = b.chunks
    BY DecisionType DEF Sound
  <2> QED BY <2>1, DecisionDistinct DEF Distinct, Countable
<1>3. \A r \in ToSet(d.facts) : knownSourceReference(r.refs, d)
  BY RowsKnown
<1>4. e \in d.entities
  OBVIOUS
<1> HIDE DEF d
<1>5. /\ ToSet(facts) = FactsNaming(d, e.id) /\ (facts = <<>> <=> FactsNaming(d, e.id) = {})
      /\ Len(facts) = Cardinality({i \in DOMAIN d.facts : e.id \in {d.facts[i].subject, d.facts[i].object}})
  BY <1>2, FactsOfType
<1>6. PICK m \in ToSet(b.mentions) : e = EntityOf(b, m)
  BY <1>2, <1>4
<1>7. mentionId(m) \in e.mentions
  BY <1>6 DEF EntityOf
<1>8. first \in ToSet(d.mentions)
  BY <1>2, <1>7, FirstMention
<1> HIDE DEF first, facts, q
<1>9. first.chunk \in DOMAIN d.chunks
  BY <1>2, <1>8 DEF Sound
<1>10. CASE facts = <<>>
  <2> DEFINE x == SourceReferences(first.chunk, {mentionId(first)})
  <2>1. x.chunk = first.chunk /\ x.mentions = {mentionId(first)}
    BY DEF SourceReferences
  <2>2. q.refs = {x}
    BY <1>1, <1>10
  <2> HIDE DEF x
  <2>3. knownSourceReference(x, d)
    BY <1>8, <1>9, <2>1 DEF knownSourceReference
  <2>4. q.refs # {} /\ \A y \in q.refs : knownSourceReference(y, d)
    BY <2>2, <2>3
  <2> QED BY <1>1, <1>5, <2>4 DEF RowOfEntity, d, q
<1>11. CASE facts # <<>>
  <2>1. q.refs = {f.refs : f \in FactsNaming(d, e.id)} /\ FactsNaming(d, e.id) # {}
    BY <1>1, <1>5, <1>11
  <2>2. \A f \in FactsNaming(d, e.id) : knownSourceReference(f.refs, d)
    BY <1>3 DEF FactsNaming
  <2>3. q.refs # {} /\ \A y \in q.refs : knownSourceReference(y, d)
    BY <2>1, <2>2
  <2> QED BY <1>1, <1>5, <2>3 DEF RowOfEntity, d, q
<1> QED BY <1>10, <1>11

\* The gate finds nothing wrong with the rows that Stages 10 to 14 made.
LEMMA DataOfDecision ==
  ASSUME NEW b, Sound(b), NEW version
  PROVE  LET d == Decision(b, version) IN DataReasons(d, Summaries(d)) = {}
<1> DEFINE d == Decision(b, version)
           S == Summaries(d)
           entity(r) == CHOOSE e \in d.entities : e.id = r.entity
           chunks(r) == Cardinality({m.chunk : m \in MentionsOf(d, entity(r))})
           facts(r) == Cardinality({i \in DOMAIN d.facts : r.entity \in {d.facts[i].subject, d.facts[i].object}})
           bad(q) == \/ \E p \in S \ {q} : p.id = q.id
                     \/ \A e \in d.entities : e.id # q.entity
                     \/ q.refs = {} \/ \E x \in q.refs : ~ knownSourceReference(x, d)
                     \/ q.documentCount # 1 \/ q.chunkCount # chunks(q) \/ q.factCount # facts(q)
           rows == ToSet(d.facts) \cup ToSet(d.held)
<1>1. DataReasons(d, S) =
        {<<"row", r.id>> : r \in {q \in rows : ~ knownSourceReference(q.refs, d)}}
        \cup IF Cardinality(S) # Cardinality(d.entities) THEN {<<"derived count">>}
             ELSE {<<"derived", r.id>> : r \in {q \in S : bad(q)}}
  BY Zenon DEF DataReasons
<1>2. \A r \in rows : knownSourceReference(r.refs, d)
  BY RowsKnown
<1>3. Distinct(d)
  BY DecisionDistinct
<1>4. OneRowEach(S) /\ Cardinality(S) = Cardinality(d.entities)
  BY <1>3, SummariesOfEntities
<1>5. ASSUME NEW q \in S PROVE ~ bad(q)
  <2>1. PICK e \in d.entities : q = Summary(d, e)
    BY DEF Summaries
  <2>2. /\ q.refs # {} /\ \A x \in q.refs : knownSourceReference(x, d)
        /\ q.id = <<"derived", e.id>> /\ q.entity = e.id /\ q.documentCount = 1
        /\ q.chunkCount = Cardinality({m.chunk : m \in MentionsOf(d, e)})
        /\ q.factCount = Cardinality({i \in DOMAIN d.facts : e.id \in {d.facts[i].subject, d.facts[i].object}})
    <3>1. e \in Decision(b, version).entities
      BY DEF d
    <3> HIDE DEF S
    <3>2. RowOfEntity(d, e, Summary(d, e))
      BY <3>1, SummaryKnown
    <3> HIDE DEF d
    <3> QED BY <2>1, <3>2 DEF RowOfEntity
  <2>3. \A x \in d.entities : x.id = e.id => x = e
    BY <1>3 DEF Distinct
  <2>4. entity(q) = e
    <3>1. \A x \in d.entities : x.id = q.entity <=> x = e
      BY <2>2, <2>3
    <3> HIDE DEF d
    <3> QED BY <3>1
  <2>5. ASSUME NEW p \in S \ {q}, p.id = q.id PROVE FALSE
    <3>1. PICK x \in d.entities : p = Summary(d, x)
      BY DEF Summaries
    <3>2. p.id = <<"derived", x.id>>
      BY <3>1 DEF Summary
    <3>3. <<"derived", x.id>>[2] = <<"derived", e.id>>[2]
      BY <2>2, <2>5, <3>2
    <3>4. x = e
      BY <2>3, <3>3
    <3> QED BY <2>1, <3>1, <3>4
  <2>6. chunks(q) = q.chunkCount
    BY <2>2, <2>4
  <2>7. facts(q) = q.factCount
    BY <2>2
  <2> HIDE DEF d, S, chunks, facts, entity
  <2> QED BY <2>2, <2>5, <2>6, <2>7
<1> HIDE DEF bad, S, d, rows
<1>6. {q \in rows : ~ knownSourceReference(q.refs, d)} = {} /\ {q \in S : bad(q)} = {}
  BY <1>2, <1>5
<1>7. DataReasons(d, S) = {}
  BY <1>1, <1>4, <1>6
<1> QED BY <1>7 DEF d, S

-----------------------------------------------------------------------------
(* A Tier 4 without a fault. *)

\* What Tier 4 holds of a decision and its derived rows is what the gate
\* expects to be read back.
LEMMA CountsAgree ==
  ASSUME NEW d, Distinct(d), NEW S, OneRowEach(S)
  PROVE  LET wants == ExpectedReadback(d, S)
         IN /\ wants.nodeCount = Cardinality(Tier4Nodes(d, S)) /\ wants.nodeCount \in Nat
            /\ wants.edgeCount = Cardinality(Tier4Edges(d, S)) /\ wants.edgeCount \in Nat
            /\ wants.vectorCount = (IF d.embed THEN Len(d.chunks) ELSE 0)
            /\ wants.citationCount = Len(d.chunks) /\ Len(d.chunks) \in Nat
<1>1. Countable(d) /\ Derived(S) /\ IsFiniteSet(S)
  BY DEF Distinct, OneRowEach, Derived
<1>2. Len(d.chunks) \in Nat
  BY <1>1, ListShape DEF Countable
<1>3. Cardinality(Tier4Nodes(d, S)) \in Nat /\ Cardinality(Tier4Edges(d, S)) \in Nat
  BY <1>1, NodesBound, EdgesBound DEF Bounded
<1>4. /\ Cardinality(Tier4Nodes(d, S)) = d.expected.nodeCount + Cardinality(S)
      /\ Cardinality(Tier4Edges(d, S)) = d.expected.edgeCount + Cardinality(S)
                                         + Cardinality(UNION {{<<r, x.chunk>> : x \in r.refs} : r \in S})
  BY NodesExact, EdgesExact
<1> QED BY <1>2, <1>3, <1>4 DEF ExpectedReadback

\* The dated facts are counted by Tier 4 as the gate counts them.
LEMMA DatedCount ==
  ASSUME NEW d, IsList(d.facts)
  PROVE  LET n == Cardinality({i \in DOMAIN d.facts : Dated(d.facts[i])})
         IN n \in Nat /\ n = Len(Keep(d.facts, Dated))
<1> DEFINE s == d.facts
           Y == {f \in ToSet(s) : Dated(f)}
           p == [i \in DOMAIN s |-> IF s[i] \in Y THEN <<s[i]>> ELSE <<>>]
<1>1. \A i \in DOMAIN s : s[i] \in ToSet(s)
  BY ListShape
<1>2. p = [i \in DOMAIN s |-> IF Dated(s[i]) THEN <<s[i]>> ELSE <<>>]
  BY <1>1
<1>3. Keep(s, Dated) = FlattenSeq(p)
  <2> HIDE DEF p, s
  <2> QED BY <1>2 DEF Keep, Collect, Each, Only
<1>4. Times(s, Y) = Cardinality({i \in DOMAIN s : Dated(s[i])})
  <2>1. {i \in DOMAIN s : s[i] \in Y} = {i \in DOMAIN s : Dated(s[i])}
    BY <1>1
  <2> HIDE DEF Y, s
  <2> QED BY <2>1 DEF Times
<1>5. Y \subseteq ToSet(s)
  OBVIOUS
<1> HIDE DEF Y, s
<1>6. Len(FlattenSeq(p)) = Times(s, Y)
  BY <1>5, KeptList DEF s
<1>7. Times(s, Y) \in Nat
  BY TimesType DEF s
<1> HIDE DEF p
<1> QED BY <1>3, <1>4, <1>6, <1>7 DEF s

\* Every lane of it is ready with what is expected, or has nothing to hold.
ReadyLanes(lanes, d, S) ==
  /\ DOMAIN lanes = Lanes
  /\ \A l \in Lanes : LET n == ExpectedLanes(d, S)[l]
                      IN /\ n \in Nat
                         /\ \/ lanes[l].status = "ready" /\ lanes[l].objects = n
                            \/ /\ l = "bitemporal" /\ n = 0
                               /\ lanes[l].status = "not_applicable" /\ lanes[l].objects = 0

\* So are the lanes of such a Tier 4.
LEMMA LanesReady ==
  ASSUME fault = "none", NEW d, Distinct(d), NEW S, OneRowEach(S)
  PROVE  ReadyLanes(Tier4Lanes(d, S), d, S)
<1> DEFINE objects(l) == CASE l = "vector" -> IF d.embed THEN Len(d.chunks) ELSE 0
                           [] l = "graph" -> Cardinality(Tier4Edges(d, S))
                           [] l = "sqlite" -> Cardinality(Tier4Nodes(d, S))
                           [] l = "bitemporal" -> Cardinality({i \in DOMAIN d.facts : Dated(d.facts[i])})
                           [] OTHER -> Len(d.chunks)
           lane(l, o) ==
             CASE fault = "laneDown" /\ l = "lexical" -> [status |-> "unsupported", objects |-> 0, reason |-> "down"]
               [] fault = "noTemporalApi" /\ l = "bitemporal" ->
                    [status |-> "unsupported", objects |-> 0, reason |-> "native_temporal_query_api_unavailable"]
               [] fault = "temporalRefused" /\ l = "bitemporal" ->
                    [status |-> "unsupported", objects |-> 0, reason |-> "refused"]
               [] l = "bitemporal" /\ o = 0 /\ fault \notin {"noTemporalApi", "temporalRefused"} ->
                    [status |-> "not_applicable", objects |-> 0, reason |-> ""]
               [] OTHER -> [status |-> "ready", reason |-> "",
                            objects |-> o - (IF fault = "laneShort" /\ l = "provenance" THEN 1 ELSE 0)]
           D == Lanes \ (IF fault = "laneMissing" THEN {"sqlite"} ELSE {})
           n(l) == ExpectedLanes(d, S)[l]
<1>1. Tier4Lanes(d, S) = [l \in D |-> lane(l, objects(l))] /\ D = Lanes
  BY DEF Tier4Lanes
<1>2. \A l, o : o \in Nat =>
        lane(l, o) = IF l = "bitemporal" /\ o = 0 THEN [status |-> "not_applicable", objects |-> 0, reason |-> ""]
                     ELSE [status |-> "ready", reason |-> "", objects |-> o]
  <2> TAKE l, o
  <2> HAVE o \in Nat
  <2>1. o - 0 = o
    OBVIOUS
  <2> QED BY <2>1
<1>3. /\ objects("vector") = IF d.embed THEN Len(d.chunks) ELSE 0
      /\ objects("graph") = Cardinality(Tier4Edges(d, S))
      /\ objects("sqlite") = Cardinality(Tier4Nodes(d, S))
      /\ objects("bitemporal") = Cardinality({i \in DOMAIN d.facts : Dated(d.facts[i])})
      /\ objects("lexical") = Len(d.chunks) /\ objects("provenance") = Len(d.chunks)
  OBVIOUS
<1>4. LET r == ExpectedReadback(d, S)
      IN /\ n("vector") = r.vectorCount /\ n("graph") = r.edgeCount /\ n("sqlite") = r.nodeCount
         /\ n("bitemporal") = Len(Keep(d.facts, Dated))
         /\ n("lexical") = Len(d.chunks) /\ n("provenance") = Len(d.chunks)
  BY Zenon DEF ExpectedLanes
<1>5. LET r == ExpectedReadback(d, S)
      IN /\ r.nodeCount = Cardinality(Tier4Nodes(d, S)) /\ r.nodeCount \in Nat
         /\ r.edgeCount = Cardinality(Tier4Edges(d, S)) /\ r.edgeCount \in Nat
         /\ r.vectorCount = (IF d.embed THEN Len(d.chunks) ELSE 0) /\ Len(d.chunks) \in Nat
  BY CountsAgree
<1>6. n("bitemporal") = objects("bitemporal") /\ n("bitemporal") \in Nat
  <2>1. IsList(d.facts)
    BY DEF Distinct, Countable
  <2>2. /\ Cardinality({i \in DOMAIN d.facts : Dated(d.facts[i])}) \in Nat
        /\ Cardinality({i \in DOMAIN d.facts : Dated(d.facts[i])}) = Len(Keep(d.facts, Dated))
    BY <2>1, DatedCount
  <2> HIDE DEF n, objects
  <2> QED BY <1>3, <1>4, <2>2
<1> HIDE DEF n, objects, lane, D
<1>7. \A l \in Lanes : n(l) = objects(l) /\ n(l) \in Nat
  BY <1>3, <1>4, <1>5, <1>6 DEF Lanes
<1>8. ASSUME NEW l \in Lanes
      PROVE  /\ n(l) \in Nat
             /\ \/ lane(l, objects(l)).status = "ready" /\ lane(l, objects(l)).objects = n(l)
                \/ /\ l = "bitemporal" /\ n(l) = 0
                   /\ lane(l, objects(l)).status = "not_applicable" /\ lane(l, objects(l)).objects = 0
  <2>1. n(l) = objects(l) /\ n(l) \in Nat
    BY <1>7
  <2> DEFINE o == objects(l)
             row == lane(l, o)
  <2>2. o \in Nat /\ n(l) = o
    BY <2>1
  <2>3. row = IF l = "bitemporal" /\ o = 0 THEN [status |-> "not_applicable", objects |-> 0, reason |-> ""]
              ELSE [status |-> "ready", reason |-> "", objects |-> o]
    BY <1>2, <2>2, Zenon
  <2> HIDE DEF o, row
  <2>4. \/ row.status = "ready" /\ row.objects = o
        \/ l = "bitemporal" /\ o = 0 /\ row.status = "not_applicable" /\ row.objects = 0
    BY <2>3
  <2> QED BY <2>2, <2>4 DEF row, o
<1> DEFINE lanes == Tier4Lanes(d, S)
<1>9. DOMAIN lanes = Lanes /\ \A l \in Lanes : lanes[l] = lane(l, objects(l))
  BY <1>1
<1> HIDE DEF lanes
<1>10. ReadyLanes(lanes, d, S)
  BY <1>8, <1>9 DEF ReadyLanes, n
<1> QED BY <1>10 DEF lanes

\* The gate has nothing to say against such lanes.
LEMMA ReadyLanesPass ==
  ASSUME NEW d, NEW S, NEW lanes, ReadyLanes(lanes, d, S)
  PROVE  LaneReasons(d, S, lanes) = {}
BY DEF LaneReasons, ReadyLanes

\* What the receipts of such a worker say.
HonestRow(g, d, S) ==
  /\ g.ok /\ g.run /\ g.derived = S /\ g.receipt = d.expected
  /\ g.readback["nodeCount"] = d.expected["nodeCount"] /\ g.readback["edgeCount"] = d.expected["edgeCount"]
HonestFinal(f, g, d, S) ==
  /\ f.ok /\ f.run
  /\ LET wants == ExpectedReadback(d, S)
     IN \A k \in {"nodeCount", "edgeCount", "vectorCount", "citationCount"} : f[k] = wants[k] /\ f[k] \in Nat
  /\ f.graphHash = hashPipelineGraphReceipt(g.receipt) /\ f.derivedHash = sha256Json(S)
  /\ ReadyLanes(f.lanes, d, S)
  /\ f.queryCount = 1 /\ f.recallAt5 = minRecallAt5 /\ f.mrr = minMrr /\ f.citation = minCitation /\ f.leaks = 0

\* The final receipt of such a worker is of this kind.
LEMMA FinalHonest ==
  ASSUME fault = "none", NEW d, Distinct(d), NEW S, OneRowEach(S), NEW g, g.derived = S
  PROVE  HonestFinal(Tier4Final(d, g), g, d, S)
<1> DEFINE f == Tier4Final(d, g)
           wants == ExpectedReadback(d, S)
<1>1. \A x : x # "none" => short(x) = 0
  BY DEF short
<1>2. /\ wants.nodeCount = Cardinality(Tier4Nodes(d, S)) /\ wants.nodeCount \in Nat
      /\ wants.edgeCount = Cardinality(Tier4Edges(d, S)) /\ wants.edgeCount \in Nat
      /\ wants.vectorCount = (IF d.embed THEN Len(d.chunks) ELSE 0)
      /\ wants.citationCount = Len(d.chunks) /\ Len(d.chunks) \in Nat
  BY CountsAgree
<1>3. /\ f.ok = TRUE /\ f.run = TRUE
      /\ f.nodeCount = Cardinality(Tier4Nodes(d, S))
      /\ f.edgeCount = Cardinality(Tier4Edges(d, S)) - short("derivedEdgeLost")
      /\ f.vectorCount = (IF d.embed THEN Len(d.chunks) ELSE 0) + short("vectorTwice")
      /\ f.citationCount = Len(d.chunks) - short("citationLost")
      /\ f.graphHash = hashPipelineGraphReceipt(g.receipt)
      /\ f.derivedHash = sha256Json(S \cup {NoDecision : n \in 1 .. short("otherDerivedHash")})
      /\ f.lanes = Tier4Lanes(d, S)
      /\ f.queryCount = 1 - short("noQueries")
      /\ f.recallAt5 = minRecallAt5 - short("lowRecall") /\ f.mrr = minMrr - short("lowMrr")
      /\ f.citation = minCitation - short("badCitation") /\ f.leaks = short("leak")
  BY DEF Tier4Final
<1>4. ReadyLanes(f.lanes, d, S)
  BY <1>3, LanesReady
<1>5. S \cup {NoDecision : n \in 1 .. short("otherDerivedHash")} = S
  <2>1. short("otherDerivedHash") = 0
    BY <1>1
  <2> QED BY <2>1
<1> HIDE DEF f, wants
<1>6. f.nodeCount = wants.nodeCount /\ f.citationCount = wants.citationCount
  <2> DEFINE n == Len(d.chunks)
  <2>1. f.citationCount = n - short("citationLost") /\ wants.citationCount = n /\ n \in Nat
    BY <1>2, <1>3
  <2> HIDE DEF n
  <2>2. f.citationCount = n
    BY <1>1, <2>1
  <2> QED BY <1>2, <1>3, <2>1, <2>2
<1>7. f.edgeCount = wants.edgeCount
  <2> DEFINE n == Cardinality(Tier4Edges(d, S))
  <2>1. f.edgeCount = n - short("derivedEdgeLost") /\ wants.edgeCount = n /\ n \in Nat
    BY <1>2, <1>3
  <2> HIDE DEF n
  <2> QED BY <1>1, <2>1
<1>8. f.vectorCount = wants.vectorCount /\ wants.vectorCount \in Nat
  <2> DEFINE n == IF d.embed THEN Len(d.chunks) ELSE 0
  <2>1. n \in Nat
    BY <1>2
  <2>2. f.vectorCount = n + short("vectorTwice") /\ wants.vectorCount = n
    BY <1>2, <1>3
  <2> HIDE DEF n
  <2> QED BY <1>1, <2>1, <2>2
<1>9. /\ f.queryCount = 1 /\ f.recallAt5 = minRecallAt5 /\ f.mrr = minMrr /\ f.citation = minCitation
      /\ f.leaks = 0
  BY <1>1, <1>3 DEF minRecallAt5, minMrr, minCitation
<1>10. \A k \in {"nodeCount", "edgeCount", "vectorCount", "citationCount"} : f[k] = wants[k] /\ f[k] \in Nat
  BY <1>2, <1>6, <1>7, <1>8
<1>11. f.derivedHash = sha256Json(S)
  BY <1>3, <1>5
<1>12. HonestFinal(f, g, d, S)
  BY <1>3, <1>4, <1>9, <1>10, <1>11 DEF HonestFinal, wants
<1> QED BY <1>12 DEF f

\* Nor has it against the receipts of such a worker.
LEMMA HonestReceiptsPass ==
  ASSUME NEW d, NEW S, NEW g, graph = {g}, HonestRow(g, d, S), NEW f, final = {f}, HonestFinal(f, g, d, S)
  PROVE  GraphReasons(d) = {} /\ ~ SecurityFails /\ ~ RetrievalFails
<1> DEFINE T == UNION {h.derived : h \in graph}
           wants == ExpectedReadback(d, T)
           ofGraph(x) == (IF ~ x.run THEN {"graph identity"} ELSE {})
             \cup (IF ~ x.ok THEN {"graph not ok"}
                   ELSE {k \in {"nodeCount", "edgeCount"} : x.readback[k] # d.expected[k]})
           ofFinal(x) == (IF ~ x.run THEN {"final identity"} ELSE {})
             \cup (IF ~ x.ok THEN {"final not ok"}
                   ELSE {k \in DOMAIN wants : x[k] # wants[k]})
             \cup {h \in {"graphHash"} : \A y \in graph : x.graphHash # hashPipelineGraphReceipt(y.receipt)}
             \cup {h \in {"derivedHash"} : \A y \in graph : x.derivedHash # sha256Json(y.derived)}
             \cup LaneReasons(d, T, x.lanes)
<1>1. GraphReasons(d) = (IF graph = {} THEN {"graph receipt missing"} ELSE UNION {ofGraph(x) : x \in graph})
                        \cup (IF final = {} THEN {"final receipt missing"} ELSE UNION {ofFinal(x) : x \in final})
  BY DEF GraphReasons
<1>2. T = S
  <2>1. T = g.derived
    OBVIOUS
  <2> QED BY <2>1 DEF HonestRow
<1> HIDE DEF T
<1>3. ofGraph(g) = {}
  BY DEF HonestRow
<1>4. LaneReasons(d, T, f.lanes) = {}
  BY <1>2, ReadyLanesPass DEF HonestFinal
<1>5. DOMAIN wants = {"nodeCount", "edgeCount", "vectorCount", "citationCount"}
  BY DEF ExpectedReadback
<1>6. \A k \in DOMAIN wants : f[k] = wants[k]
  BY <1>2, <1>5 DEF HonestFinal
<1> HIDE DEF wants
<1>7. f.run /\ f.ok /\ f.graphHash = hashPipelineGraphReceipt(g.receipt) /\ f.derivedHash = sha256Json(g.derived)
  BY DEF HonestRow, HonestFinal
<1>8. ofFinal(f) = {}
  BY <1>4, <1>6, <1>7
<1> HIDE DEF ofGraph, ofFinal
<1>9. GraphReasons(d) = {}
  BY <1>1, <1>3, <1>8
<1>10. f.queryCount = 1 /\ f.recallAt5 = minRecallAt5 /\ f.mrr = minMrr /\ f.citation = minCitation /\ f.leaks = 0
  BY DEF HonestFinal
<1>11. ~ SecurityFails /\ ~ RetrievalFails
  BY <1>10 DEF SecurityFails, RetrievalFails, minRecallAt5, minMrr, minCitation, maxLeaks
<1> QED BY <1>9, <1>11

\* What is a hash.
LEMMA Hashes == \A x : ValidHash(sha256Json(x)) /\ sha256Json(x) # <<>>
<1> TAKE x
<1>1. sha256Json(x) = <<"sha256", canonicalJsonString(x)>>
  BY DEF sha256Json, sha256Text
<1> DEFINE y == canonicalJsonString(x)
<1>2. Len(<<"sha256", y>>) = 2 /\ <<"sha256", y>>[1] = "sha256"
  OBVIOUS
<1>3. <<"sha256", y>> # <<>>
  OBVIOUS
<1> QED BY <1>1, <1>2, <1>3 DEF ValidHash

\* The stage identities of an accepted batch are valid in reverse, and the same.
LEMMA StagesEchoed ==
  ASSUME request \in Request, Accepted(request), fault = "none"
  PROVE  /\ ValidStages(Tier4Stages, request.batch.runId, FALSE)
         /\ sameStageIdentity(request.batch.stages, Tier4Stages)
<1> DEFINE s == request.batch.stages
           t == Reverse(s)
           run == request.batch.runId
           num == [i \in DOMAIN s |-> s[i].number]
           mun == [i \in DOMAIN t |-> t[i].number]
<1>1. Tier4Stages = t
  BY DEF Tier4Stages
<1>2. IsList(s) /\ Len(s) = 9
  BY BatchType
<1>3. ValidStages(s, run, TRUE)
  BY DEF Accepted, ValidBatch
<1>4. DOMAIN s = 1 .. 9 /\ t = [i \in 1 .. 9 |-> s[(9 - i) + 1]]
  BY <1>2, ListShape DEF Reverse
<1>5. \A i, j \in 1 .. 9 : s[i].number = s[j].number => i = j
  <2>1. IsInjective(num)
    BY <1>3 DEF ValidStages
  <2>2. \A i, j \in DOMAIN num : num[i] = num[j] => i = j
    BY <2>1 DEF IsInjective
  <2> QED BY <1>4, <2>2
<1>6. \A i \in 1 .. 9 : /\ s[i].number \in ToSet(StageCatalog) /\ s[i].pipelineStageId = s[i].number
                        /\ s[i].run = run /\ s[i].step # "" /\ s[i].attempt # ""
  BY <1>3, <1>4 DEF ValidStages
<1> HIDE DEF s, run
<1>7. DOMAIN t = 1 .. 9 /\ \A i \in 1 .. 9 : (9 - i) + 1 \in 1 .. 9 /\ t[i] = s[(9 - i) + 1]
  BY <1>4
<1>8. t = [i \in 1 .. 9 |-> t[i]]
  BY <1>4
<1> HIDE DEF t
<1>9. Len(t) = 9
  BY <1>8, ListIntro
<1>10. ToSet(s) = ToSet(t)
  <2>1. ASSUME NEW x \in ToSet(s) PROVE x \in ToSet(t)
    <3>1. PICK i \in 1 .. 9 : x = s[i]
      BY <1>4 DEF ToSet
    <3>2. (9 - i) + 1 \in 1 .. 9 /\ (9 - ((9 - i) + 1)) + 1 = i
      OBVIOUS
    <3>3. t[(9 - i) + 1] = x
      BY <1>7, <3>1, <3>2
    <3> QED BY <1>7, <3>2, <3>3 DEF ToSet
  <2>2. ASSUME NEW x \in ToSet(t) PROVE x \in ToSet(s)
    <3>1. PICK i \in 1 .. 9 : x = t[i]
      BY <1>7 DEF ToSet
    <3> QED BY <1>4, <1>7, <3>1 DEF ToSet
  <2> QED BY <2>1, <2>2
<1>11. IsInjective(mun)
  <2>1. ASSUME NEW i \in 1 .. 9, NEW j \in 1 .. 9, t[i].number = t[j].number PROVE i = j
    <3>1. (9 - i) + 1 = (9 - j) + 1
      BY <1>5, <1>7, <2>1
    <3> QED BY <3>1
  <2>2. DOMAIN mun = 1 .. 9 /\ \A i \in 1 .. 9 : mun[i] = t[i].number
    BY <1>7
  <2> HIDE DEF mun
  <2> QED BY <2>1, <2>2 DEF IsInjective
<1>12. \A i \in DOMAIN t : /\ t[i].number \in ToSet(StageCatalog) /\ t[i].pipelineStageId = t[i].number
                           /\ t[i].run = run /\ t[i].step # "" /\ t[i].attempt # ""
  <2> TAKE i \in DOMAIN t
  <2> DEFINE j == (9 - i) + 1
  <2>1. i \in 1 .. 9
    BY <1>7
  <2>2. j \in 1 .. 9 /\ t[i] = s[j]
    BY <1>7, <2>1
  <2> HIDE DEF j
  <2> QED BY <1>6, <2>2
<1>13. Len(StageCatalog) = 9
  BY DEF StageCatalog
<1>14. ValidStages(t, run, FALSE)
  BY <1>9, <1>11, <1>12, <1>13 DEF ValidStages
<1>15. sameStageIdentity(s, t)
  BY <1>2, <1>9, <1>10 DEF sameStageIdentity, s
<1> QED BY <1>1, <1>14, <1>15 DEF s, run

\* The worker may call, and what its messages name is this decision.
LEMMA HonestCaller ==
  ASSUME request \in Request, Accepted(request), fault = "none"
  PROVE  /\ WorkerMay /\ ValidScope(request.batch.scope) /\ request.batch.runId # ""
         /\ Tier4Decision(decision) = hashPipelineDecision(decision)
<1>1. ValidScope(request.batch.scope) /\ request.batch.runId # ""
  BY DEF Accepted, ValidBatch
<1>2. /\ Tier4Envelope.credential = credentials.worker /\ Tier4Envelope.scope = {}
      /\ Tier4Envelope.principal.id = "tier4" /\ Tier4Envelope.principal.role = "worker"
      /\ Tier4Envelope.principal.scope = request.batch.scope
  BY DEF Tier4Envelope
<1>3. credentials.worker # ""
  BY ServiceAssumption
<1>4. Tier4Decision(decision) = hashPipelineDecision(decision)
  BY DEF Tier4Decision
<1>5. WorkerMay
  BY <1>1, <1>2, <1>3 DEF WorkerMay, Authorized, samePipelineScope
<1> QED BY <1>1, <1>4, <1>5

\* The head of its receipts is valid.
LEMMA HonestHead ==
  ASSUME request \in Request, Accepted(request), fault = "none",
         NEW r, r.schemaVersion = SchemaVersion, r.stages = Tier4Stages, r.runId = request.batch.runId,
         r.decisionId = "d", r.decisionHash = Tier4Decision(decision), r.transaction = Tier4Transaction
  PROVE  ValidHead(r, request.batch.scope) /\ OfDecision(r)
<1>1. /\ ValidScope(request.batch.scope) /\ request.batch.runId # ""
      /\ Tier4Decision(decision) = hashPipelineDecision(decision)
  BY HonestCaller
<1>2. /\ ValidStages(Tier4Stages, request.batch.runId, FALSE)
      /\ sameStageIdentity(request.batch.stages, Tier4Stages)
  BY StagesEchoed
<1>3. ValidHash(r.decisionHash)
  BY <1>1, Hashes DEF hashPipelineDecision
<1>4. ValidTransaction(r.transaction)
  <2>1. /\ Tier4Transaction["id"] # "" /\ Tier4Transaction["frontier"] # ""
        /\ Tier4Transaction["checkpoint"] # ""
    BY DEF Tier4Transaction
  <2>2. \A field \in {"id", "frontier", "checkpoint"} : Tier4Transaction[field] # ""
    BY <2>1
  <2> QED BY <2>2 DEF ValidTransaction
<1>5. ValidReference(r, request.batch.scope)
  BY <1>1, <1>3 DEF ValidReference
<1>6. ValidHead(r, request.batch.scope)
  BY <1>2, <1>4, <1>5 DEF ValidHead
<1>7. OfDecision(r)
  BY <1>1, <1>2 DEF OfDecision
<1> QED BY <1>6, <1>7

\* Its measurements are valid.
LEMMA HonestMeasures ==
  /\ ValidMetrics(Tier4Metrics)
  /\ fault = "none" => \A n \in WorkerStages : Tier4Time(n) = [started |-> n, finished |-> n] /\ ValidInterval(Tier4Time(n))
<1>1. ValidMetrics(Tier4Metrics)
  BY DEF ValidMetrics, Tier4Metrics, Metrics
<1>2. fault = "none" => \A n \in WorkerStages : Tier4Time(n) = [started |-> n, finished |-> n]
  BY DEF Tier4Time, WorkerStages
<1>3. \A n \in WorkerStages : n > 0 /\ n >= n
  BY DEF WorkerStages
<1> QED BY <1>1, <1>2, <1>3 DEF ValidInterval

\* The store takes its graph receipt.
LEMMA HonestGraphTaken ==
  ASSUME request \in Request, Accepted(request), fault = "none", Distinct(decision)
  PROVE  LET r == Tier4GraphReadback(decision)
             counts == [k \in {"nodeCount", "edgeCount"} |-> r[k]]
         IN /\ WorkerMay /\ ValidGraphReceipt(r, request.batch.scope) /\ OfDecision(r) /\ r.ok /\ r.run
            /\ counts = decision.expected /\ r.time = Tier4Time(13)
<1> DEFINE r == Tier4GraphReadback(decision)
           counts == [k \in {"nodeCount", "edgeCount"} |-> r[k]]
           e == decision.expected
           nodes == Cardinality(Tier4Nodes(decision, {}))
           edges == Cardinality(Tier4Edges(decision, {}))
<1>1. /\ r.schemaVersion = SchemaVersion /\ r.stages = Tier4Stages /\ r.runId = request.batch.runId
      /\ r.decisionId = "d" /\ r.decisionHash = Tier4Decision(decision) /\ r.transaction = Tier4Transaction
      /\ r.metrics = Tier4Metrics /\ r.time = Tier4Time(13) /\ r.ok = TRUE /\ r.run = TRUE
      /\ r.nodeCount = nodes - short("nodeLost") /\ r.edgeCount = edges - short("edgeLost")
  BY DEF Tier4GraphReadback
<1>2. /\ short("nodeLost") = 0 /\ short("edgeLost") = 0
  BY DEF short
<1>3. nodes = e.nodeCount /\ nodes \in Nat /\ edges = e.edgeCount /\ edges \in Nat
  <2>1. OneRowEach({}) /\ Cardinality({}) = 0
    BY FS_EmptySet DEF OneRowEach, Derived
  <2>2. UNION {{<<q, x.chunk>> : x \in q.refs} : q \in {}} = {}
    OBVIOUS
  <2> DEFINE wants == ExpectedReadback(decision, {})
  <2>3. wants.nodeCount = nodes /\ nodes \in Nat /\ wants.edgeCount = edges /\ edges \in Nat
    BY <2>1, CountsAgree
  <2>4. nodes = e.nodeCount + Cardinality({})
    BY <2>1, NodesExact
  <2>5. edges = e.edgeCount + Cardinality({}) + Cardinality(UNION {{<<q, x.chunk>> : x \in q.refs} : q \in {}})
    BY <2>1, EdgesExact
  <2>6. edges = e.edgeCount + 0 + 0
    BY <2>1, <2>2, <2>5
  <2>7. e.nodeCount \in Int /\ e.edgeCount \in Int
    <3>1. Countable(decision)
      BY DEF Distinct
    <3>2. /\ Len(decision.chunks) \in Nat /\ Len(decision.mentions) \in Nat
          /\ Len(decision.facts) \in Nat /\ Len(decision.held) \in Nat
      BY <3>1, ListShape DEF Countable
    <3>3. Cardinality(decision.entities) \in Nat
      BY <3>1, FS_CardinalityType DEF Countable
    <3>4. /\ e.nodeCount = 2 + Len(decision.chunks) + Cardinality(decision.entities) + Len(decision.facts) + Len(decision.held)
          /\ e.edgeCount = 1 + Len(decision.chunks) + Len(decision.mentions) + 2 * Len(decision.facts) + Len(decision.held)
      BY <3>1 DEF Countable
    <3> DEFINE a == Len(decision.chunks)
               c == Len(decision.mentions)
               f == Len(decision.facts)
               h == Len(decision.held)
               k == Cardinality(decision.entities)
    <3>5. a \in Nat /\ c \in Nat /\ f \in Nat /\ h \in Nat /\ k \in Nat
      BY <3>2, <3>3
    <3>6. e.nodeCount = 2 + a + k + f + h /\ e.edgeCount = 1 + a + c + 2 * f + h
      BY <3>4
    <3> HIDE DEF a, c, f, h, k, e
    <3> QED BY <3>5, <3>6
  <2> HIDE DEF nodes, edges, wants, e
  <2> QED BY <2>1, <2>3, <2>4, <2>6, <2>7
<1>4. e = [k \in {"nodeCount", "edgeCount"} |-> e[k]]
  <2>1. Countable(decision)
    BY DEF Distinct
  <2> QED BY <2>1 DEF Countable
<1>5. ValidHead(r, request.batch.scope) /\ OfDecision(r)
  <2> HIDE DEF r
  <2> QED BY <1>1, HonestHead
<1> HIDE DEF r, nodes, edges, e
<1>6. r.nodeCount = e.nodeCount /\ r.edgeCount = e.edgeCount /\ r.nodeCount \in Nat /\ r.edgeCount \in Nat
  BY <1>1, <1>2, <1>3
<1>7. counts = e
  BY <1>4, <1>6
<1>8. ValidMetrics(r.metrics) /\ ValidInterval(r.time)
  BY <1>1, HonestMeasures DEF WorkerStages
<1>9. ValidGraphReceipt(r, request.batch.scope)
  BY <1>5, <1>6, <1>8 DEF ValidGraphReceipt
<1>10. WorkerMay
  BY HonestCaller
<1> QED BY <1>1, <1>5, <1>7, <1>9, <1>10 DEF r, e

\* What a final receipt of it projects.
Projected(f) == f.snapshotId = "s1" /\ f.generation = "g1" /\ f.model = Model /\ f.transaction.frontier = "f1"

\* The store takes that receipt as well.
LEMMA HonestFinalTaken ==
  ASSUME request \in Request, Accepted(request), fault = "none", Distinct(decision),
         NEW g, OneRowEach(g.derived), g.time = Tier4Time(13), g.metrics = Tier4Metrics
  PROVE  LET f == Tier4Final(decision, g)
         IN /\ WorkerMay /\ ValidReceipt(f, request.batch.scope) /\ f.run /\ OfDecision(f)
            /\ f.graphHash = hashPipelineGraphReceipt(g.receipt) /\ f.derivedHash = sha256Json(g.derived)
            /\ f.times[13] = g.time /\ f.metrics[13] = g.metrics /\ Projected(f)
<1> DEFINE f == Tier4Final(decision, g)
           S == g.derived
<1>1. HonestFinal(f, g, decision, S)
  BY FinalHonest
<1>2. /\ f.schemaVersion = SchemaVersion /\ f.stages = Tier4Stages /\ f.runId = request.batch.runId
      /\ f.decisionId = "d" /\ f.decisionHash = Tier4Decision(decision) /\ f.transaction = Tier4Transaction
      /\ f.snapshotId = "s1" /\ f.generation = "g1" /\ f.model = Model
      /\ f.metrics = [n \in WorkerStages |-> Tier4Metrics] /\ f.times = [n \in WorkerStages |-> Tier4Time(n)]
  <2>1. \A n \in WorkerStages : Tier4FinalMetrics(n) = Tier4Metrics
    BY DEF Tier4FinalMetrics, Tier4Metrics
  <2>2. f.metrics = [n \in WorkerStages |-> Tier4FinalMetrics(n)]
    BY DEF Tier4Final
  <2>3. f.metrics = [n \in WorkerStages |-> Tier4Metrics]
    BY <2>1, <2>2
  <2> QED BY <2>3 DEF Tier4Final
<1> HIDE DEF f
<1>3. ValidHead(f, request.batch.scope) /\ OfDecision(f)
  BY <1>2, HonestHead
<1>4. ValidHash(f.graphHash) /\ ValidHash(f.derivedHash)
  BY <1>1, Hashes DEF HonestFinal, hashPipelineGraphReceipt
<1>5. /\ DOMAIN f.times = WorkerStages /\ (\A n \in WorkerStages : ValidInterval(f.times[n]))
      /\ f.times[13].finished <= f.times[15].started /\ f.times[15].finished <= f.times[16].started
      /\ DOMAIN f.metrics = WorkerStages /\ \A n \in WorkerStages : ValidMetrics(f.metrics[n])
  <2>1. 13 \in WorkerStages /\ 15 \in WorkerStages /\ 16 \in WorkerStages
    BY DEF WorkerStages
  <2>2. \A n \in WorkerStages : f.times[n] = [started |-> n, finished |-> n] /\ ValidInterval(f.times[n])
    BY <1>2, HonestMeasures
  <2>3. f.times[13].finished = 13 /\ f.times[15].started = 15 /\ f.times[15].finished = 15 /\ f.times[16].started = 16
    <3>1. /\ f.times[13] = [started |-> 13, finished |-> 13] /\ f.times[15] = [started |-> 15, finished |-> 15]
          /\ f.times[16] = [started |-> 16, finished |-> 16]
      BY <2>1, <2>2, Zenon
    <3> DEFINE a == f.times[13]
               b == f.times[15]
               c == f.times[16]
    <3>2. a = [started |-> 13, finished |-> 13] /\ b = [started |-> 15, finished |-> 15]
          /\ c = [started |-> 16, finished |-> 16]
      BY <3>1
    <3> HIDE DEF a, b, c
    <3>3. a.finished = 13 /\ b.started = 15 /\ b.finished = 15 /\ c.started = 16
      BY <3>2
    <3> QED BY <3>3 DEF a, b, c
  <2>5. f.times[13].finished <= f.times[15].started /\ f.times[15].finished <= f.times[16].started
    <3> DEFINE a == f.times[13].finished
               b == f.times[15].started
               c == f.times[15].finished
               e == f.times[16].started
    <3>1. a = 13 /\ b = 15 /\ c = 15 /\ e = 16
      BY <2>3
    <3> HIDE DEF a, b, c, e
    <3>2. a <= b /\ c <= e
      BY <3>1
    <3> QED BY <3>2 DEF a, b, c, e
  <2>6. DOMAIN f.metrics = WorkerStages /\ \A n \in WorkerStages : f.metrics[n] = Tier4Metrics
    BY <1>2
  <2>7. DOMAIN f.times = WorkerStages
    BY <1>2
  <2>8. ValidMetrics(Tier4Metrics)
    BY HonestMeasures
  <2>9. \A n \in WorkerStages : ValidMetrics(f.metrics[n])
    BY <2>6, <2>8
  <2>10. \A n \in WorkerStages : ValidInterval(f.times[n])
    BY <2>2
  <2> QED BY <2>5, <2>6, <2>7, <2>9, <2>10, Zenon
<1>6. \A k \in {"nodeCount", "edgeCount", "vectorCount", "citationCount", "queryCount", "leaks"} : f[k] >= 0
  <2>1. \A k \in {"nodeCount", "edgeCount", "vectorCount", "citationCount"} : f[k] \in Nat
    BY <1>1 DEF HonestFinal
  <2>2. f["queryCount"] \in Nat /\ f["leaks"] \in Nat
    BY <1>1 DEF HonestFinal
  <2>3. \A k \in {"nodeCount", "edgeCount", "vectorCount", "citationCount", "queryCount", "leaks"} : f[k] \in Nat
    BY <2>1, <2>2
  <2> QED BY <2>3
<1>7. /\ DOMAIN f.lanes = Lanes
      /\ \A l \in Lanes : f.lanes[l].status \in {"ready", "not_applicable", "unsupported"} /\ f.lanes[l].objects >= 0
  BY <1>1 DEF HonestFinal, ReadyLanes
<1>8. \A k \in {"recallAt5", "mrr", "citation"} : 0 <= f[k] /\ f[k] <= 100
  BY <1>1 DEF HonestFinal, minRecallAt5, minMrr, minCitation
<1>9. ValidReceipt(f, request.batch.scope)
  BY <1>2, <1>3, <1>4, <1>5, <1>6, <1>7, <1>8 DEF ValidReceipt
<1>10. f.times[13] = g.time /\ f.metrics[13] = g.metrics
  BY <1>2 DEF WorkerStages
<1>11. WorkerMay
  BY HonestCaller
<1>12. Projected(f)
  BY <1>2 DEF Projected, Tier4Transaction
<1> QED BY <1>1, <1>3, <1>9, <1>10, <1>11, <1>12 DEF HonestFinal, f

\* What it publishes is the projection that was judged.
LEMMA HonestPublishes ==
  ASSUME request \in Request, Accepted(request), fault = "none", failed = {}, NEW f, Projected(f)
  PROVE  Publishes(Tier4Publication(decision, f), f) <=> \E v \in verdict : v.result = "PASS" /\ v.allowPublication
<1> DEFINE p == Tier4Publication(decision, f)
<1>1. /\ f.snapshotId = "s1" /\ f.generation = "g1" /\ f.model = Model /\ f.transaction.frontier = "f1"
  BY DEF Projected
<1>2. /\ p.schemaVersion = SchemaVersion /\ p.runId = request.batch.runId /\ p.decisionId = "d"
      /\ p.decisionHash = Tier4Decision(decision) /\ p.snapshotId = "s1" /\ p.generation = "g1"
      /\ p.modelRevision = Model /\ p.frontier = "f1" /\ p.receiptHash = sha256Json(f)
      /\ p.pointerHash = sha256Json("pointer") /\ p.publishedAt = 18 * (1 - short("publishedNever")) /\ p.ok = TRUE
  BY DEF Tier4Publication
<1>3. p.publishedAt = 18
  BY <1>2 DEF short
<1>4. /\ WorkerMay /\ ValidScope(request.batch.scope) /\ request.batch.runId # ""
      /\ Tier4Decision(decision) = hashPipelineDecision(decision)
  BY HonestCaller
<1> HIDE DEF p
<1>5. ValidReference(p, request.batch.scope)
  BY <1>2, <1>4, Hashes DEF ValidReference, hashPipelineDecision
<1>6. ValidHash(p.receiptHash) /\ ValidHash(p.pointerHash)
  BY <1>2, Hashes
<1>7. \A k \in {"snapshotId", "generation", "modelRevision", "frontier"} : p[k] # ""
  BY <1>2 DEF Model
<1>8. ValidPublication(p, request.batch.scope)
  <2>1. p.publishedAt > 0
    BY <1>3
  <2>2. p.ok
    BY <1>2
  <2> QED BY <1>5, <1>6, <1>7, <2>1, <2>2, Zenon DEF ValidPublication
<1>9. Publishes(p, f) <=> \E v \in verdict : v.result = "PASS" /\ v.allowPublication
  BY <1>1, <1>2, <1>4, <1>8 DEF Publishes, hashPipelineReceipt
<1> QED BY <1>9 DEF p

\* The gate takes its request.
LEMMA HonestAsks ==
  ASSUME request \in Request, Accepted(request), fault = "none"
  PROVE  LET r == Tier4GateRequest(decision)
         IN ValidGateRequest(r) /\ r.decisionHash = hashPipelineDecision(decision)
<1> DEFINE r == Tier4GateRequest(decision)
<1>1. /\ r.schemaVersion = SchemaVersion /\ r.scope = request.batch.scope /\ r.decisionId = "d"
      /\ r.decisionHash = Tier4Decision(decision)
  BY DEF Tier4GateRequest
<1>2. ValidScope(request.batch.scope) /\ Tier4Decision(decision) = hashPipelineDecision(decision)
  BY HonestCaller
<1>3. ValidHash(r.decisionHash)
  BY <1>1, <1>2, Hashes DEF hashPipelineDecision
<1> QED BY <1>1, <1>2, <1>3 DEF ValidGateRequest

\* What a run with such a worker keeps: nothing failed; a receipt is stored as
\* soon as it was sent, and says what the decision expects; the one verdict is
\* that of the policy and of the held rows.
HonestGraphs == \A g \in graph : /\ graph = {g} /\ HonestRow(g, decision, Summaries(decision))
                                 /\ g.time = [started |-> 13, finished |-> 13]
                                 /\ g.metrics = Tier4Metrics
HonestFinals == \A f \in final : /\ final = {f} /\ Projected(f)
                                 /\ \E g \in graph : HonestFinal(f, g, decision, Summaries(decision))
HonestVerdicts ==
  \A v \in verdict :
    /\ verdict = {v}
    /\ v.allowPublication <=> batch.publish /\ v.result = "PASS"
    /\ final # {} => /\ v.fails = IF batch.embed THEN {} ELSE {"knowledge"}
                     /\ v.result = "PASS" <=> batch.embed /\ decision.held = <<>>
HonestInv ==
  /\ failed = {}
  /\ stage \in {"loaded", "indexed"} => graph # {}
  /\ stage = "indexed" => final # {}
  /\ HonestGraphs /\ HonestFinals /\ HonestVerdicts
  /\ stage = "published" => \A v \in verdict : final # {} => (published # {} <=> v.result = "PASS" /\ batch.publish)

\* What is known of a decision once it is made.
LEMMA HonestDecided ==
  ASSUME GateInv, stage \notin {"idle", "refused"}
  PROVE  /\ request \in Request /\ Accepted(request)
         /\ Distinct(decision) /\ OneRowEach(Summaries(decision))
         /\ decision.embed = batch.embed /\ decision.publish = batch.publish
         /\ DataReasons(decision, Summaries(decision)) = {}
         /\ KnowledgeFails(decision) <=> ~ batch.embed
<1>1. request \in Request /\ Accepted(request) /\ batch = Sorted(request.batch)
  BY DEF GateInv, DecisionInv
<1>2. PICK v \in Version : decision = Decision(batch, v)
  BY DEF GateInv, DecisionInv
<1>3. decision.embed = batch.embed /\ decision.publish = batch.publish
  BY DecidedType DEF GateInv
<1>4. Sound(batch)
  BY <1>1, SortedSound
<1>5. Distinct(decision)
  BY <1>2, <1>4, DecisionDistinct
<1>6. OneRowEach(Summaries(decision))
  BY <1>5, SummariesOfEntities
<1>7. v \in SupportedVersions
  BY ServiceAssumption
<1>8. KnowledgeFails(Decision(batch, v)) <=> ~ batch.embed
  BY <1>4, <1>7, KnowledgeOfDecision
<1>9. DataReasons(Decision(batch, v), Summaries(Decision(batch, v))) = {}
  BY <1>4, DataOfDecision
<1> QED BY <1>1, <1>2, <1>3, <1>5, <1>6, <1>8, <1>9

\* What the gate says of such a run, both receipts stored.
LEMMA HonestJudged ==
  ASSUME GateInv, stage \notin {"idle", "refused"}, HonestGraphs, HonestFinals, final # {}
  PROVE  LET v == Evaluate(decision)
         IN /\ v.fails = IF batch.embed THEN {} ELSE {"knowledge"}
            /\ v.result = "PASS" <=> batch.embed /\ decision.held = <<>>
<1> DEFINE S == Summaries(decision)
           T == UNION {g.derived : g \in graph}
           fails == {k \in {"data", "graph", "knowledge", "security", "retrieval"} :
                       \/ k = "data" /\ DataReasons(decision, T) # {}
                       \/ k = "graph" /\ GraphReasons(decision) # {}
                       \/ k = "knowledge" /\ KnowledgeFails(decision)
                       \/ k = "security" /\ SecurityFails
                       \/ k = "retrieval" /\ RetrievalFails}
           result == IF fails # {} THEN "FAIL" ELSE IF decision.held # <<>> THEN "WARN" ELSE "PASS"
<1>1. PICK f \in final : final = {f} /\ \E g \in graph : HonestFinal(f, g, decision, S)
  BY DEF HonestFinals
<1>2. PICK g \in graph : HonestFinal(f, g, decision, S)
  BY <1>1
<1>3. graph = {g} /\ HonestRow(g, decision, S)
  BY DEF HonestGraphs
<1>4. T = S
  <2>1. T = g.derived
    BY <1>3
  <2> QED BY <1>3, <2>1 DEF HonestRow
<1>5. GraphReasons(decision) = {} /\ ~ SecurityFails /\ ~ RetrievalFails
  BY <1>1, <1>2, <1>3, HonestReceiptsPass
<1>6. DataReasons(decision, S) = {} /\ (KnowledgeFails(decision) <=> ~ batch.embed)
  BY HonestDecided
<1>7. Evaluate(decision).fails = fails /\ Evaluate(decision).result = result
  BY DEF Evaluate
<1> HIDE DEF S, T
<1>8. fails = IF batch.embed THEN {} ELSE {"knowledge"}
  BY <1>4, <1>5, <1>6
<1> HIDE DEF fails
<1>9. result = "PASS" <=> batch.embed /\ decision.held = <<>>
  BY <1>8
<1> HIDE DEF result
<1> QED BY <1>7, <1>8, <1>9

\* The graph receipt is stored, and is what the decision expects.
LEMMA LoadGraphHonest == ASSUME GateInv, fault = "none", HonestInv, LoadGraph PROVE HonestInv'
<1> DEFINE r == Tier4GraphReadback(decision)
           counts == [k \in {"nodeCount", "edgeCount"} |-> r[k]]
           g == [ok |-> TRUE, run |-> TRUE, readback |-> counts, time |-> r.time, metrics |-> r.metrics,
                 receipt |-> counts, derived |-> Summaries(decision)]
<1>1. /\ stage = "submitted" /\ stage' = "loaded"
      /\ graph' = IF /\ WorkerMay /\ ValidGraphReceipt(r, request.batch.scope)
                     /\ failed = {} /\ OfDecision(r)
                     /\ r.ok /\ r.run /\ counts = decision.expected
                  THEN {g} ELSE {}
      /\ UNCHANGED <<request, fault, batch, decision, claimed, failed, final, verdict, published>>
  BY DEF LoadGraph
<1>2. final = {} /\ verdict = {} /\ failed = {}
  BY <1>1 DEF GateInv, StageInv, HonestInv
<1>3. request \in Request /\ Accepted(request) /\ Distinct(decision)
  BY <1>1, HonestDecided
<1>4. /\ WorkerMay /\ ValidGraphReceipt(r, request.batch.scope) /\ OfDecision(r) /\ r.ok /\ r.run
      /\ counts = decision.expected /\ r.time = Tier4Time(13)
  BY <1>3, HonestGraphTaken
<1>5. Tier4Time(13) = [started |-> 13, finished |-> 13]
  BY HonestMeasures DEF WorkerStages
<1>12. r.metrics = Tier4Metrics
  BY DEF Tier4GraphReadback
<1> HIDE DEF r
<1>6. /\ g.ok /\ g.run /\ g.derived = Summaries(decision) /\ g.receipt = counts /\ g.readback = counts
      /\ g.time = r.time /\ g.metrics = r.metrics
  OBVIOUS
<1> HIDE DEF g, counts
<1>7. graph' = {g}
  BY <1>1, <1>2, <1>4
<1>8. HonestRow(g, decision, Summaries(decision))
  BY <1>4, <1>6 DEF HonestRow
<1>9. decision' = decision /\ g.time = [started |-> 13, finished |-> 13] /\ g.metrics = Tier4Metrics'
  BY <1>1, <1>4, <1>5, <1>6, <1>12 DEF Tier4Metrics
<1>10. HonestGraphs'
  BY <1>7, <1>8, <1>9 DEF HonestGraphs
<1>11. HonestFinals' /\ HonestVerdicts'
  BY <1>1, <1>2 DEF HonestFinals, HonestVerdicts
<1> QED BY <1>1, <1>2, <1>7, <1>10, <1>11 DEF HonestInv

\* So is the final receipt.
LEMMA IndexHonest == ASSUME GateInv, fault = "none", HonestInv, Index PROVE HonestInv'
<1> DEFINE takes(f) == /\ WorkerMay /\ ValidReceipt(f, request.batch.scope) /\ f.run
                       /\ failed = {} /\ OfDecision(f)
                       /\ \A h \in graph : /\ f.graphHash = hashPipelineGraphReceipt(h.receipt)
                                           /\ f.derivedHash = sha256Json(h.derived)
                                           /\ f.times[13] = h.time /\ f.metrics[13] = h.metrics
<1>1. /\ stage = "loaded" /\ stage' = "indexed"
      /\ final' = {f \in {Tier4Final(decision, h) : h \in graph} : takes(f)}
      /\ UNCHANGED <<request, fault, batch, decision, claimed, failed, graph, verdict, published>>
  BY DEF Index
<1>2. verdict = {} /\ failed = {} /\ graph # {} /\ HonestGraphs
  BY <1>1 DEF GateInv, StageInv, HonestInv
<1>3. request \in Request /\ Accepted(request) /\ Distinct(decision) /\ OneRowEach(Summaries(decision))
  BY <1>1, HonestDecided
<1>4. PICK g \in graph : /\ graph = {g} /\ HonestRow(g, decision, Summaries(decision))
                         /\ g.time = [started |-> 13, finished |-> 13] /\ g.metrics = Tier4Metrics
  BY <1>2 DEF HonestGraphs
<1>5. g.derived = Summaries(decision)
  BY <1>4 DEF HonestRow
<1>6. g.time = Tier4Time(13)
  BY <1>4, HonestMeasures DEF WorkerStages
<1> DEFINE f == Tier4Final(decision, g)
<1>7. /\ WorkerMay /\ ValidReceipt(f, request.batch.scope) /\ f.run /\ OfDecision(f)
      /\ f.graphHash = hashPipelineGraphReceipt(g.receipt) /\ f.derivedHash = sha256Json(g.derived)
      /\ f.times[13] = g.time /\ f.metrics[13] = g.metrics /\ Projected(f)
  BY <1>3, <1>4, <1>5, <1>6, HonestFinalTaken
<1>8. HonestFinal(f, g, decision, Summaries(decision))
  BY <1>3, <1>5, FinalHonest
<1>9. takes(f)
  <2> HIDE DEF f
  <2> QED BY <1>2, <1>4, <1>7
<1>10. {Tier4Final(decision, h) : h \in graph} = {f}
  <2>1. {Tier4Final(decision, h) : h \in {g}} = {f}
    OBVIOUS
  <2> QED BY <1>4, <2>1
<1> HIDE DEF f, takes
<1>11. final' = {f}
  BY <1>1, <1>9, <1>10
<1>12. HonestFinals'
  BY <1>1, <1>4, <1>7, <1>8, <1>11 DEF HonestFinals
<1>13. HonestGraphs' /\ HonestVerdicts'
  BY <1>1, <1>2 DEF HonestGraphs, HonestVerdicts
<1> QED BY <1>1, <1>2, <1>11, <1>12, <1>13 DEF HonestInv

\* The gate judges it, whenever it is asked.
LEMMA GateHonest == ASSUME GateInv, fault = "none", HonestInv, Gate PROVE HonestInv'
<1> DEFINE v == Evaluate(decision)
<1>1. /\ stage \in {"submitted", "loaded", "indexed"} /\ stage' = "judged"
      /\ verdict' \subseteq {v}
      /\ UNCHANGED <<request, fault, batch, decision, claimed, failed, graph, final, published>>
  BY DEF Gate
<1>2. failed = {} /\ HonestGraphs /\ HonestFinals
  BY DEF HonestInv
<1>3. decision.publish = batch.publish
  BY <1>1, HonestDecided
<1>4. v.allowPublication <=> batch.publish /\ v.result = "PASS"
  BY <1>3 DEF Evaluate
<1>5. final # {} => /\ v.fails = IF batch.embed THEN {} ELSE {"knowledge"}
                    /\ v.result = "PASS" <=> batch.embed /\ decision.held = <<>>
  BY <1>1, <1>2, HonestJudged
<1> HIDE DEF v
<1>6. HonestVerdicts'
  BY <1>1, <1>4, <1>5 DEF HonestVerdicts
<1>7. HonestGraphs' /\ HonestFinals'
  BY <1>1, <1>2 DEF HonestGraphs, HonestFinals
<1> QED BY <1>1, <1>2, <1>6, <1>7 DEF HonestInv

\* A PASS is published where the policy allows it, and nothing else is.
LEMMA PublishHonest == ASSUME GateInv, fault = "none", HonestInv, Publish PROVE HonestInv'
<1>1. /\ stage = "judged" /\ stage' = "published"
      /\ published' = {Tier4Publication(decision, f) : f \in {h \in final : Publishes(Tier4Publication(decision, h), h)}}
      /\ UNCHANGED <<request, fault, batch, decision, claimed, failed, graph, final, verdict>>
  BY DEF Publish
<1>2. failed = {} /\ HonestGraphs /\ HonestFinals /\ HonestVerdicts
  BY DEF HonestInv
<1>3. request \in Request /\ Accepted(request)
  BY <1>1, HonestDecided
<1>4. HonestGraphs' /\ HonestFinals' /\ HonestVerdicts'
  BY <1>1, <1>2 DEF HonestGraphs, HonestFinals, HonestVerdicts
<1>5. ASSUME NEW v \in verdict, final # {} PROVE published' # {} <=> v.result = "PASS" /\ batch.publish
  <2>1. PICK f \in final : final = {f} /\ Projected(f)
    BY <1>2, <1>5 DEF HonestFinals
  <2>2. Publishes(Tier4Publication(decision, f), f) <=> \E u \in verdict : u.result = "PASS" /\ u.allowPublication
    BY <1>2, <1>3, <2>1, HonestPublishes
  <2>3. verdict = {v} /\ (v.allowPublication <=> batch.publish /\ v.result = "PASS")
    BY <1>2 DEF HonestVerdicts
  <2>4. published' # {} <=> Publishes(Tier4Publication(decision, f), f)
    BY <1>1, <2>1
  <2> QED BY <2>2, <2>3, <2>4
<1>6. (stage = "published" => \A v \in verdict : final # {} => (published # {} <=> v.result = "PASS" /\ batch.publish))'
  BY <1>1, <1>5
<1> QED BY <1>1, <1>2, <1>4, <1>6 DEF HonestInv

\* A Tier 4 that loads what it is given and counts what it loaded is believed,
\* whatever the text, the mentions and the policy are: its receipts are stored,
\* the gate fails no dimension but knowledge, and that only where the policy
\* forbids embedding; nothing but a held row keeps the run from PASS, and nothing
\* but the policy keeps a PASS from being published.  Builder, summaries,
\* expectations and evaluatePipelineQuality count the same graph.
THEOREM HonestWorkersPass == Spec => []HonestWorkerPasses
<1> DEFINE Honest == fault = "none" => HonestInv
<1>1. Init => Honest
  BY DEF Init, HonestInv, HonestGraphs, HonestFinals, HonestVerdicts
<1>2. GateInv /\ Honest /\ [Next]_vars => Honest'
  <2> SUFFICES ASSUME GateInv, Honest, [Next]_vars, fault' = "none" PROVE HonestInv'
    OBVIOUS
  <2>1. CASE Submit
    <3>1. /\ graph = {} /\ final = {} /\ verdict = {} /\ failed = {}
          /\ stage' = "submitted" /\ UNCHANGED <<failed, graph, final, verdict>>
      BY <2>1 DEF Submit, GateInv, StageInv
    <3> QED BY <3>1 DEF HonestInv, HonestGraphs, HonestFinals, HonestVerdicts
  <2>2. CASE Refuse
    <3>1. HonestInv /\ stage' = "refused"
          /\ UNCHANGED <<batch, decision, failed, graph, final, verdict>>
      BY <2>2 DEF Refuse
    <3> QED BY <3>1 DEF HonestInv, HonestGraphs, HonestFinals, HonestVerdicts
  <2>3. CASE Claim
    <3>1. HonestInv /\ UNCHANGED <<stage, batch, decision, failed, graph, final, verdict, published>>
      BY <2>3 DEF Claim
    <3> QED BY <3>1 DEF HonestInv, HonestGraphs, HonestFinals, HonestVerdicts
  <2>4. ASSUME NEW n \in {13, 14, 15, 16}, FailStage(n) PROVE FALSE
    <3>1. fault \in {"fails", "failsOtherAttempt", "failureUnexplained", "relayCredential", "otherDecision"}
          /\ fault' = fault
      BY <2>4 DEF FailStage
    <3> QED BY <3>1
  <2>5. CASE LoadGraph
    <3>1. fault = "none"
      BY <2>5 DEF LoadGraph
    <3> QED BY <2>5, <3>1, LoadGraphHonest
  <2>6. CASE Index
    <3>1. fault = "none"
      BY <2>6 DEF Index
    <3> QED BY <2>6, <3>1, IndexHonest
  <2>7. CASE Gate
    <3>1. fault = "none"
      BY <2>7 DEF Gate
    <3> QED BY <2>7, <3>1, GateHonest
  <2>8. CASE Publish
    <3>1. fault = "none"
      BY <2>8 DEF Publish
    <3> QED BY <2>8, <3>1, PublishHonest
  <2>9. CASE UNCHANGED vars
    <3>1. HonestInv /\ UNCHANGED <<stage, batch, decision, failed, graph, final, verdict, published>>
      BY <2>9 DEF vars
    <3> QED BY <3>1 DEF HonestInv, HonestGraphs, HonestFinals, HonestVerdicts
  <2> QED BY <2>1, <2>2, <2>3, <2>4, <2>5, <2>6, <2>7, <2>8, <2>9 DEF Next
<1>3. GateInv /\ Honest => HonestWorkerPasses
  BY DEF HonestInv, HonestVerdicts, HonestWorkerPasses
<1> QED BY <1>1, <1>2, <1>3, GateInvariant, PTL DEF Spec
=============================================================================
