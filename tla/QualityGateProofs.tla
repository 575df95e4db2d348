------------------------- MODULE QualityGateProofs -------------------------
(***************************************************************************)
(* What the quality gate lets through, proved for every request, every     *)
(* vocabulary, every fault of a Tier 4 and both versions of the rules.     *)
(*                                                                         *)
(* The gate compares the counts of two receipts with counts of its own.    *)
(* That it notices a lost or a doubled object whatever the decision is     *)
(* rests on an argument about cardinalities: the decision is made of       *)
(* finite lists (Countable), so what Tier 4 stores of it is bounded by     *)
(* what the builder counts (NodesBound, EdgesBound), and a fault moves one *)
(* of the two numbers away from the other (GraphRefused, FinalRefused,     *)
(* PassRefused). GateInv carries that through the run.                     *)
(***************************************************************************)
EXTENDS QualityGate, FiniteSetTheorems, FunctionTheorems, WellFoundedInduction, TLAPS

\* The order the least element is taken in.
LessThan == {ss \in Nat \X Nat : ss[1] < ss[2]}

\* Every nonempty set of natural numbers has a least element.
LEMMA LeastElement ==
  ASSUME NEW T \in SUBSET Nat, T # {}
  PROVE  \E n \in T : \A k \in T : n <= k
<1>1. IsWellFoundedOn(LessThan, Nat)
  BY NatLessThanWellFounded DEF OpToRel, LessThan
<1>2. PICK n \in T : \A k \in T : ~(<<k, n>> \in LessThan)
  BY <1>1, WFMin
<1>3. \A k \in T : ~(k < n)
  BY <1>2 DEF LessThan
<1>4. QED
  BY <1>3

\* A set that holds 0 and with each number the next one holds them all.
LEMMA Induction ==
  ASSUME NEW S, 0 \in S, \A n \in Nat : n \in S => n + 1 \in S
  PROVE  Nat \subseteq S
<1>1. SUFFICES ASSUME Nat \ S # {} PROVE FALSE
  OBVIOUS
<1>2. PICK n \in Nat \ S : \A k \in Nat \ S : n <= k
  BY <1>1, LeastElement
<1>3. n # 0 /\ n - 1 \in Nat
  BY <1>2
<1>4. n - 1 \in S
  BY <1>2, <1>3
<1>5. (n - 1) + 1 = n
  BY <1>2
<1>6. QED
  BY <1>2, <1>3, <1>4, <1>5

-----------------------------------------------------------------------------
(* Lists that are joined. *)

\* g[i] is the first i lists of q, one after the other.
Joins(g, q, S) ==
  /\ g \in [0 .. Len(q) -> Seq(S)] /\ g[0] = <<>>
  /\ \A i \in 1 .. Len(q) : g[i] = g[i - 1] \o q[i]
  /\ FlattenSeq(q) = g[Len(q)]

\* FlattenSeq joins its lists from left to right.
LEMMA FlattenJoins ==
  ASSUME NEW S, NEW q \in Seq(Seq(S))
  PROVE  \E g : Joins(g, q, S)
<1> DEFINE Cat(u, v) == u \o v
           n == Len(q)
           Is(h, k) == h = [i \in 1 .. k |-> IF i = 1 THEN q[i] ELSE Cat(h[i - 1], q[i])]
           M == {k \in Nat : k <= n => \E h : Is(h, k)}
<1>1. n \in Nat /\ \A i \in 1 .. n : q[i] \in Seq(S)
  OBVIOUS
<1>2. CASE n = 0
  <2>1. q = <<>>
    BY <1>2
  <2>2. Joins([i \in 0 .. 0 |-> <<>>], q, S)
    BY <2>1, <1>2 DEF Joins, FlattenSeq
  <2> QED BY <2>2
<1>3. CASE n # 0
  <2>1. FlattenSeq(q) = (CHOOSE h : Is(h, n))[n]
    BY <1>3, <1>1 DEF FlattenSeq
  <2>2. \A u, v \in Seq(S) : Cat(u, v) \in Seq(S)
    OBVIOUS
  <2>3. \A v \in Seq(S) : Cat(<<>>, v) = v
    OBVIOUS
  <2>4. \A u, v : Cat(u, v) = u \o v
    OBVIOUS
  <2> HIDE DEF Cat
  <2>5. 0 \in M
    <3>1. Is([i \in 1 .. 0 |-> <<>>], 0)
      OBVIOUS
    <3> QED BY <3>1
  <2>6. ASSUME NEW k \in Nat, k \in M PROVE k + 1 \in M
    <3>1. SUFFICES ASSUME k + 1 <= n PROVE \E h : Is(h, k + 1)
      OBVIOUS
    <3>2. PICK h : Is(h, k)
      BY <1>1, <2>6, <3>1
    <3> DEFINE e == [i \in 1 .. k + 1 |->
                       IF i = k + 1 THEN (IF i = 1 THEN q[i] ELSE Cat(h[k], q[i])) ELSE h[i]]
    <3>3. ASSUME NEW i \in 1 .. k + 1 PROVE e[i] = IF i = 1 THEN q[i] ELSE Cat(e[i - 1], q[i])
      <4>1. CASE i = k + 1
        BY <4>1
      <4>2. CASE i # k + 1
        <5>1. i \in 1 .. k /\ (i # 1 => i - 1 \in 1 .. k + 1 /\ i - 1 # k + 1)
          BY <4>2
        <5>2. h[i] = IF i = 1 THEN q[i] ELSE Cat(h[i - 1], q[i])
          BY <3>2, <5>1
        <5> QED BY <4>2, <5>1, <5>2
      <4> QED BY <4>1, <4>2
    <3>4. DOMAIN e = 1 .. k + 1 /\ e = [i \in 1 .. k + 1 |-> e[i]]
      OBVIOUS
    <3> HIDE DEF e
    <3>5. Is(e, k + 1)
      BY <3>3, <3>4
    <3> QED BY <3>5
  <2>7. n \in M
    <3> HIDE DEF M
    <3> QED BY <1>1, <2>5, <2>6, Induction
  <2>8. PICK h : Is(h, n)
    BY <1>1, <2>7
  <2> DEFINE f == CHOOSE g : Is(g, n)
  <2>9. Is(f, n) /\ FlattenSeq(q) = f[n]
    BY <2>1, <2>8
  <2> HIDE DEF f
  <2>10. f[1] = q[1] /\ \A i \in 2 .. n : f[i] = Cat(f[i - 1], q[i])
    <3>1. 1 \in 1 .. n /\ \A i \in 2 .. n : i \in 1 .. n /\ i # 1
      BY <1>1, <1>3
    <3>2. \A i \in 1 .. n : f[i] = IF i = 1 THEN q[i] ELSE Cat(f[i - 1], q[i])
      BY <2>9
    <3> QED BY <3>1, <3>2
  <2> HIDE DEF Is
  <2>11. \A i \in 1 .. n : f[i] \in Seq(S)
    <3> DEFINE T == {k \in Nat : k + 1 <= n => f[k + 1] \in Seq(S)}
    <3>1. 0 \in T
      BY <1>1, <1>3, <2>10
    <3>2. ASSUME NEW k \in Nat, k \in T PROVE k + 1 \in T
      <4>1. SUFFICES ASSUME k + 2 <= n PROVE f[k + 2] \in Seq(S)
        BY <1>1
      <4>2. f[k + 1] \in Seq(S)
        BY <1>1, <3>2, <4>1
      <4>3. f[k + 2] = Cat(f[k + 1], q[k + 2])
        <5>1. k + 2 \in 2 .. n /\ (k + 2) - 1 = k + 1
          BY <1>1, <4>1
        <5> QED BY <2>10, <5>1
      <4>4. q[k + 2] \in Seq(S)
        BY <1>1, <4>1
      <4> QED BY <2>2, <4>2, <4>3, <4>4
    <3>3. Nat \subseteq T
      <4> HIDE DEF T
      <4> QED BY <3>1, <3>2, Induction
    <3>4. ASSUME NEW i \in 1 .. n PROVE f[i] \in Seq(S)
      <4>1. PICK k \in Nat : k + 1 = i
        BY <1>1
      <4>2. k \in T /\ k + 1 <= n
        BY <1>1, <3>3, <4>1
      <4>3. f[k + 1] \in Seq(S)
        BY <4>2
      <4> QED BY <4>1, <4>3
    <3> QED BY <3>4
  <2> DEFINE g == [i \in 0 .. n |-> IF i = 0 THEN <<>> ELSE f[i]]
  <2>12. g \in [0 .. n -> Seq(S)] /\ g[0] = <<>> /\ g[n] = f[n]
    BY <1>1, <1>3, <2>11
  <2>13. ASSUME NEW i \in 1 .. n PROVE g[i] = Cat(g[i - 1], q[i])
    <3>1. CASE i = 1
      <4>1. g[1] = q[1] /\ g[1 - 1] = <<>> /\ q[1] \in Seq(S)
        BY <1>1, <1>3, <2>10
      <4>2. Cat(<<>>, q[1]) = q[1]
        BY <4>1, <2>3
      <4> HIDE DEF g
      <4> QED BY <3>1, <4>1, <4>2
    <3>2. CASE i # 1
      BY <3>2, <2>10, <1>1
    <3> QED BY <3>1, <3>2
  <2> HIDE DEF g
  <2>14. Joins(g, q, S)
    BY <2>4, <2>9, <2>12, <2>13 DEF Joins
  <2> QED BY <2>14
<1> QED BY <1>2, <1>3

\* Two lists, one after the other.
LEMMA TwoLists ==
  ASSUME NEW S, NEW u \in Seq(S), NEW v \in Seq(S)
  PROVE  /\ u \o v \in Seq(S) /\ Len(u) \in Nat /\ Len(v) \in Nat
         /\ DOMAIN (u \o v) = 1 .. Len(u) + Len(v)
         /\ DOMAIN u = 1 .. Len(u) /\ DOMAIN v = 1 .. Len(v)
         /\ \A k \in 1 .. Len(u) : (u \o v)[k] = u[k]
         /\ \A k \in 1 .. Len(v) : (u \o v)[Len(u) + k] = v[k]
  OBVIOUS

\* What is joined is a list of what is on the lists.
LEMMA FlattenType ==
  ASSUME NEW S, NEW q \in Seq(Seq(S))
  PROVE  /\ FlattenSeq(q) \in Seq(S)
         /\ \A k \in DOMAIN FlattenSeq(q) : \E i \in DOMAIN q : \E j \in DOMAIN q[i] :
              FlattenSeq(q)[k] = q[i][j]
         /\ \A i \in DOMAIN q : \A j \in DOMAIN q[i] : \E k \in DOMAIN FlattenSeq(q) :
              FlattenSeq(q)[k] = q[i][j]
<1> DEFINE n == Len(q)
<1>1. PICK g : Joins(g, q, S)
  BY FlattenJoins
<1>2. n \in Nat /\ DOMAIN q = 1 .. n /\ \A i \in 1 .. n : q[i] \in Seq(S)
  OBVIOUS
<1> DEFINE In(i) == /\ \A k \in DOMAIN g[i] : \E l \in 1 .. i : \E j \in DOMAIN q[l] : g[i][k] = q[l][j]
                    /\ \A l \in 1 .. i : \A j \in DOMAIN q[l] : \E k \in DOMAIN g[i] : g[i][k] = q[l][j]
           T == {i \in Nat : i <= n => In(i)}
<1>3. 0 \in T
  BY <1>1 DEF Joins
<1>4. ASSUME NEW i \in Nat, i \in T PROVE i + 1 \in T
  <2>1. SUFFICES ASSUME i + 1 <= n PROVE In(i + 1)
    OBVIOUS
  <2>1a. i \in 0 .. n /\ i + 1 \in 1 .. n /\ (i + 1) - 1 = i
    BY <1>2, <2>1
  <2>1b. g[i] \in Seq(S) /\ q[i + 1] \in Seq(S) /\ g[i + 1] = g[i] \o q[i + 1]
    BY <1>1, <1>2, <2>1a DEF Joins
  <2>1c. In(i)
    BY <1>4, <2>1a
  <2>2. In(i) /\ g[i] \in Seq(S) /\ q[i + 1] \in Seq(S) /\ g[i + 1] = g[i] \o q[i + 1]
    BY <2>1b, <2>1c
  <2> DEFINE u == g[i]
             v == q[i + 1]
             w == u \o v
  <2>3. /\ DOMAIN w = 1 .. Len(u) + Len(v) /\ Len(u) \in Nat /\ Len(v) \in Nat
        /\ DOMAIN u = 1 .. Len(u) /\ DOMAIN v = 1 .. Len(v)
        /\ \A k \in 1 .. Len(u) : w[k] = u[k]
        /\ \A k \in 1 .. Len(v) : w[Len(u) + k] = v[k]
    <3>1. u \in Seq(S) /\ v \in Seq(S)
      BY <2>1b
    <3> HIDE DEF u, v
    <3> QED BY <3>1, TwoLists
  <2>3a. g[i + 1] = w
    BY <2>1b
  <2>3b. /\ \A k \in DOMAIN u : \E l \in 1 .. i : \E j \in DOMAIN q[l] : u[k] = q[l][j]
         /\ \A l \in 1 .. i : \A j \in DOMAIN q[l] : \E k \in DOMAIN u : u[k] = q[l][j]
    BY <2>1c
  <2> HIDE DEF u, w
  <2>4. ASSUME NEW k \in DOMAIN w PROVE \E l \in 1 .. i + 1 : \E j \in DOMAIN q[l] : w[k] = q[l][j]
    <3>1. CASE k <= Len(u)
      <4>1. k \in DOMAIN u /\ w[k] = u[k]
        BY <2>3, <3>1
      <4>2. PICK l \in 1 .. i : \E j \in DOMAIN q[l] : u[k] = q[l][j]
        BY <2>3b, <4>1
      <4>3. l \in 1 .. i + 1
        OBVIOUS
      <4> QED BY <4>1, <4>2, <4>3
    <3>2. CASE ~(k <= Len(u))
      <4>1. k - Len(u) \in DOMAIN v /\ w[k] = v[k - Len(u)]
        BY <2>3, <3>2
      <4> QED BY <4>1
    <3> QED BY <3>1, <3>2
  <2>5. ASSUME NEW l \in 1 .. i + 1, NEW j \in DOMAIN q[l] PROVE \E k \in DOMAIN w : w[k] = q[l][j]
    <3>1. CASE l = i + 1
      <4>1. j \in 1 .. Len(v) /\ Len(u) + j \in DOMAIN w
        BY <2>3, <3>1
      <4> QED BY <2>3, <3>1, <4>1
    <3>2. CASE l # i + 1
      <4>1. l \in 1 .. i
        BY <3>2
      <4>2. PICK k \in DOMAIN u : u[k] = q[l][j]
        BY <2>3b, <4>1
      <4>3. k \in DOMAIN w /\ w[k] = u[k]
        BY <2>3
      <4> QED BY <4>2, <4>3
    <3> QED BY <3>1, <3>2
  <2> QED BY <2>3a, <2>4, <2>5
<1>5. In(n)
  <2>1. n \in T
    <3> HIDE DEF T
    <3> QED BY <1>2, <1>3, <1>4, Induction
  <2> QED BY <1>2, <2>1
<1>6. FlattenSeq(q) = g[n] /\ g[n] \in Seq(S)
  BY <1>1, <1>2 DEF Joins
<1> DEFINE r == g[n]
<1>7. /\ \A k \in DOMAIN r : \E i \in DOMAIN q : \E j \in DOMAIN q[i] : r[k] = q[i][j]
      /\ \A i \in DOMAIN q : \A j \in DOMAIN q[i] : \E k \in DOMAIN r : r[k] = q[i][j]
  BY <1>2, <1>5
<1> HIDE DEF r
<1> QED BY <1>6, <1>7 DEF r

\* A function on 1 .. n is a list.
LEMMA ListIntro ==
  ASSUME NEW n \in Nat, NEW u, u = [i \in 1 .. n |-> u[i]]
  PROVE  IsList(u) /\ Len(u) = n /\ DOMAIN u = 1 .. n
<1> DEFINE T == ToSet(u)
<1>1. DOMAIN u = 1 .. n
  OBVIOUS
<1>2. \A i \in 1 .. n : u[i] \in T
  BY <1>1 DEF ToSet
<1> HIDE DEF T
<1>3. u \in [1 .. n -> T]
  BY <1>2
<1>4. u \in Seq(T) /\ Len(u) = n
  BY <1>3
<1> QED BY <1>1, <1>4 DEF IsList, T

\* A list is a function from its positions to what is in it.
LEMMA ListShape ==
  ASSUME NEW s, IsList(s)
  PROVE  /\ Len(s) \in Nat /\ DOMAIN s = 1 .. Len(s) /\ s = [i \in 1 .. Len(s) |-> s[i]]
         /\ (s = <<>> <=> Len(s) = 0)
         /\ \A i \in DOMAIN s : s[i] \in ToSet(s)
<1> DEFINE T == ToSet(s)
<1>1. s \in Seq(T)
  BY DEF IsList
<1>2. \A i \in DOMAIN s : s[i] \in T
  BY DEF ToSet
<1> HIDE DEF T
<1>3. /\ Len(s) \in Nat /\ DOMAIN s = 1 .. Len(s) /\ s = [i \in 1 .. Len(s) |-> s[i]]
      /\ (s = <<>> <=> Len(s) = 0)
  BY <1>1
<1> QED BY <1>2, <1>3 DEF T

\* What is a list.
LEMMA SmallLists ==
  /\ IsList(<<>>) /\ Len(<<>>) = 0
  /\ \A x : IsList(<<x>>) /\ ToSet(<<x>>) = {x}
<1>1. <<>> = [i \in 1 .. 0 |-> <<>>[i]]
  OBVIOUS
<1>2. ASSUME NEW x PROVE IsList(<<x>>) /\ ToSet(<<x>>) = {x}
  <2>1. <<x>> = [i \in 1 .. 1 |-> <<x>>[i]]
    OBVIOUS
  <2>2. ToSet(<<x>>) = {x}
    BY DEF ToSet
  <2> QED BY <2>1, <2>2, ListIntro
<1> QED BY <1>1, <1>2, ListIntro

\* The join of two lists is a list, the second after the first.
LEMMA JoinedLists ==
  ASSUME NEW s, NEW t, IsList(s), IsList(t)
  PROVE  /\ IsList(s \o t) /\ Len(s \o t) = Len(s) + Len(t)
         /\ \A k \in 1 .. Len(s) : (s \o t)[k] = s[k]
         /\ \A k \in 1 .. Len(t) : (s \o t)[Len(s) + k] = t[k]
<1> DEFINE S == ToSet(s) \cup ToSet(t)
           u == s \o t
<1>1. \A i \in 1 .. Len(s) : s[i] \in S
  BY ListShape
<1>2. \A i \in 1 .. Len(t) : t[i] \in S
  BY ListShape
<1> HIDE DEF S
<1>3. s \in Seq(S) /\ t \in Seq(S)
  <2>1. /\ Len(s) \in Nat /\ s = [i \in 1 .. Len(s) |-> s[i]]
        /\ Len(t) \in Nat /\ t = [i \in 1 .. Len(t) |-> t[i]]
    BY ListShape
  <2>2. s \in [1 .. Len(s) -> S] /\ t \in [1 .. Len(t) -> S]
    BY <1>1, <1>2, <2>1
  <2> QED BY <2>1, <2>2
<1>4. /\ u \in Seq(S) /\ Len(s) \in Nat /\ Len(t) \in Nat /\ DOMAIN u = 1 .. Len(s) + Len(t)
      /\ \A k \in 1 .. Len(s) : u[k] = s[k]
      /\ \A k \in 1 .. Len(t) : u[Len(s) + k] = t[k]
  BY <1>3, TwoLists
<1> HIDE DEF u
<1>5. u = [i \in 1 .. Len(s) + Len(t) |-> u[i]] /\ Len(s) + Len(t) \in Nat
  BY <1>4
<1>6. IsList(u) /\ Len(u) = Len(s) + Len(t)
  BY <1>5, ListIntro
<1> QED BY <1>4, <1>6 DEF u

\* A list with one element more is a list.
LEMMA AppendedList ==
  ASSUME NEW s, NEW x, IsList(s)
  PROVE  /\ IsList(Append(s, x)) /\ Len(Append(s, x)) = Len(s) + 1
         /\ Append(s, x)[Len(s) + 1] = x /\ \A k \in 1 .. Len(s) : Append(s, x)[k] = s[k]
<1> DEFINE S == ToSet(s) \cup {x}
           u == Append(s, x)
<1>1. Len(s) \in Nat /\ s = [i \in 1 .. Len(s) |-> s[i]]
  BY ListShape
<1>2. x \in S /\ \A i \in 1 .. Len(s) : s[i] \in S
  BY ListShape
<1> HIDE DEF S
<1>3. s \in Seq(S)
  <2>1. s \in [1 .. Len(s) -> S]
    BY <1>1, <1>2
  <2> QED BY <1>1, <2>1
<1>4. u \in Seq(S) /\ Len(u) = Len(s) + 1
  BY <1>2, <1>3
<1>5. u[Len(s) + 1] = x
  BY <1>2, <1>3
<1>6. \A k \in 1 .. Len(s) : u[k] = s[k]
  BY <1>2, <1>3
<1> HIDE DEF u
<1>7. u = [i \in 1 .. Len(s) + 1 |-> u[i]]
  BY <1>4
<1>8. IsList(u) /\ Len(u) = Len(s) + 1
  BY <1>1, <1>7, ListIntro
<1> QED BY <1>5, <1>6, <1>8 DEF u

\* Lists joined into one.
LEMMA FlattenLists ==
  ASSUME NEW q, IsList(q), \A i \in DOMAIN q : IsList(q[i])
  PROVE  /\ IsList(FlattenSeq(q))
         /\ \A x : x \in ToSet(FlattenSeq(q)) <=> \E i \in DOMAIN q : x \in ToSet(q[i])
<1> DEFINE S == UNION {ToSet(q[i]) : i \in DOMAIN q}
<1>1. \A i \in DOMAIN q : q[i] \in Seq(S)
  <2> TAKE i \in DOMAIN q
  <2>1. \A j \in 1 .. Len(q[i]) : q[i][j] \in S
    BY ListShape
  <2>2. Len(q[i]) \in Nat /\ q[i] = [j \in 1 .. Len(q[i]) |-> q[i][j]]
    BY ListShape
  <2> HIDE DEF S
  <2>3. q[i] \in [1 .. Len(q[i]) -> S]
    BY <2>1, <2>2
  <2> QED BY <2>2, <2>3
<1> HIDE DEF S
<1>2. q \in Seq(Seq(S))
  <2>1. Len(q) \in Nat /\ DOMAIN q = 1 .. Len(q) /\ q = [i \in 1 .. Len(q) |-> q[i]]
    BY ListShape
  <2>2. q \in [1 .. Len(q) -> Seq(S)]
    BY <1>1, <2>1
  <2> QED BY <2>1, <2>2
<1> DEFINE r == FlattenSeq(q)
<1>3. /\ r \in Seq(S)
      /\ \A k \in DOMAIN r : \E i \in DOMAIN q : \E j \in DOMAIN q[i] : r[k] = q[i][j]
      /\ \A i \in DOMAIN q : \A j \in DOMAIN q[i] : \E k \in DOMAIN r : r[k] = q[i][j]
  BY <1>2, FlattenType
<1> HIDE DEF r
<1>4. Len(r) \in Nat /\ r = [i \in 1 .. Len(r) |-> r[i]]
  BY <1>3
<1>5. IsList(r)
  BY <1>4, ListIntro
<1>6. \A x : x \in ToSet(r) <=> \E i \in DOMAIN q : x \in ToSet(q[i])
  BY <1>3 DEF ToSet
<1> QED BY <1>5, <1>6 DEF r

\* A list whose entries are functions of those of another one.
LEMMA MappedList ==
  ASSUME NEW s, IsList(s), NEW u, u = [i \in DOMAIN s |-> u[i]]
  PROVE  IsList(u) /\ Len(u) = Len(s) /\ DOMAIN u = DOMAIN s
<1>1. Len(s) \in Nat /\ DOMAIN s = 1 .. Len(s)
  BY ListShape
<1>2. u = [i \in 1 .. Len(s) |-> u[i]]
  BY <1>1
<1> QED BY <1>1, <1>2, ListIntro

\* What passes a test, or each entry that does under another form.
LEMMA FilteredList ==
  ASSUME NEW s, IsList(s), NEW test, NEW row
  PROVE  LET q == FlattenSeq([i \in DOMAIN s |-> IF test[i] THEN <<row[i]>> ELSE <<>>])
         IN  IsList(q) /\ ToSet(q) = {row[i] : i \in {j \in DOMAIN s : test[j]}}
<1> DEFINE p == [i \in DOMAIN s |-> IF test[i] THEN <<row[i]>> ELSE <<>>]
           q == FlattenSeq(p)
<1>1. DOMAIN p = DOMAIN s /\ p = [i \in DOMAIN s |-> p[i]]
  OBVIOUS
<1>2. ASSUME NEW i \in DOMAIN p
      PROVE  IsList(p[i]) /\ \A x : x \in ToSet(p[i]) <=> test[i] /\ x = row[i]
  <2>1. ToSet(<<>>) = {}
    BY DEF ToSet
  <2> QED BY <1>2, <2>1, SmallLists
<1> HIDE DEF p
<1>3. IsList(p)
  BY <1>1, MappedList
<1>4. IsList(q) /\ \A x : x \in ToSet(q) <=> \E i \in DOMAIN p : x \in ToSet(p[i])
  BY <1>2, <1>3, FlattenLists
<1> HIDE DEF q
<1>5. ToSet(q) = {row[i] : i \in {j \in DOMAIN s : test[j]}}
  BY <1>1, <1>2, <1>4
<1> QED BY <1>4, <1>5 DEF p, q

-----------------------------------------------------------------------------
(* Sets that are no larger than a number. *)

\* S is finite and has at most n elements.
Bounded(S, n) == IsFiniteSet(S) /\ Cardinality(S) \in Nat /\ n \in Nat /\ Cardinality(S) <= n

\* What a function makes of a set is no larger than the set.
LEMMA BoundedImage ==
  ASSUME NEW S, NEW n, Bounded(S, n), NEW f
  PROVE  Bounded({f[x] : x \in S}, n)
<1> DEFINE T == {f[x] : x \in S}
           g == [x \in S |-> f[x]]
<1>1. g \in Surjection(S, T)
  BY DEF Surjection
<1>2. IsFiniteSet(S) /\ Cardinality(S) \in Nat /\ n \in Nat /\ Cardinality(S) <= n
  BY DEF Bounded
<1> HIDE DEF g, T
<1>3. IsFiniteSet(T) /\ Cardinality(T) <= Cardinality(S)
  BY <1>1, <1>2, FS_Surjection
<1>4. Cardinality(T) \in Nat
  BY <1>3, FS_CardinalityType
<1>5. Bounded(T, n)
  BY <1>2, <1>3, <1>4 DEF Bounded
<1> QED BY <1>5 DEF T

\* The bounds of two sets together bound their union.
LEMMA BoundedUnion ==
  ASSUME NEW S, NEW T, NEW m, NEW n, Bounded(S, m), Bounded(T, n)
  PROVE  Bounded(S \cup T, m + n)
<1>1. /\ IsFiniteSet(S) /\ Cardinality(S) \in Nat /\ m \in Nat /\ Cardinality(S) <= m
      /\ IsFiniteSet(T) /\ Cardinality(T) \in Nat /\ n \in Nat /\ Cardinality(T) <= n
  BY DEF Bounded
<1>2. /\ IsFiniteSet(S \cup T)
      /\ Cardinality(S \cup T) = Cardinality(S) + Cardinality(T) - Cardinality(S \cap T)
  BY <1>1, FS_Union
<1>3. IsFiniteSet(S \cap T)
  BY <1>1, FS_Intersection
<1>4. Cardinality(S \cap T) \in Nat /\ Cardinality(S \cup T) \in Nat
  BY <1>2, <1>3, FS_CardinalityType
<1>5. Cardinality(S \cup T) <= m + n /\ m + n \in Nat
  BY <1>1, <1>2, <1>4
<1> QED BY <1>2, <1>4, <1>5 DEF Bounded

\* Intervals, singletons, pairs and finite sets are bounded.
LEMMA BoundedFacts ==
  /\ \A n \in Nat : Bounded(1 .. n, n)
  /\ \A x : Bounded({x}, 1)
  /\ \A x, y : Bounded({x, y}, 2)
  /\ \A S : IsFiniteSet(S) => Bounded(S, Cardinality(S))
<1>1. ASSUME NEW n \in Nat PROVE Bounded(1 .. n, n)
  <2>1. IsFiniteSet(1 .. n) /\ Cardinality(1 .. n) = IF 1 > n THEN 0 ELSE n - 1 + 1
    BY FS_Interval
  <2> QED BY <2>1 DEF Bounded
<1>2. ASSUME NEW x PROVE Bounded({x}, 1)
  <2>1. IsFiniteSet({x}) /\ Cardinality({x}) = 1
    BY FS_Singleton
  <2> QED BY <2>1 DEF Bounded
<1>3. ASSUME NEW x, NEW y PROVE Bounded({x, y}, 2)
  <2>1. Bounded({x} \cup {y}, 1 + 1)
    BY <1>2, BoundedUnion
  <2>2. {x} \cup {y} = {x, y}
    OBVIOUS
  <2>3. 1 + 1 = 2
    OBVIOUS
  <2> QED BY <2>1, <2>2, <2>3
<1>4. ASSUME NEW S, IsFiniteSet(S) PROVE Bounded(S, Cardinality(S))
  BY <1>4, FS_CardinalityType DEF Bounded
<1> QED BY <1>1, <1>2, <1>3, <1>4

\* A list names no more things than it is long.
LEMMA BoundedList ==
  ASSUME NEW s, IsList(s)
  PROVE  Bounded(DOMAIN s, Len(s)) /\ Bounded(ToSet(s), Len(s))
<1>1. Len(s) \in Nat /\ DOMAIN s = 1 .. Len(s)
  BY ListShape
<1>2. Bounded(DOMAIN s, Len(s))
  BY <1>1, BoundedFacts
<1>3. Bounded({s[i] : i \in DOMAIN s}, Len(s))
  BY <1>2, BoundedImage
<1> QED BY <1>2, <1>3 DEF ToSet

-----------------------------------------------------------------------------
(* The graph that is counted twice: by the builder and by Tier 4. *)

\* What the rows of a decision are, and what they say is to be loaded.
Countable(d) ==
  /\ IsList(d.chunks) /\ IsList(d.mentions) /\ IsList(d.facts) /\ IsList(d.held)
  /\ IsFiniteSet(d.entities)
  /\ d.expected = [nodeCount |-> 2 + Len(d.chunks) + Cardinality(d.entities) + Len(d.facts) + Len(d.held),
                   edgeCount |-> 1 + Len(d.chunks) + Len(d.mentions) + 2 * Len(d.facts) + Len(d.held)]

\* Derived rows, each with its references.
Derived(S) == IsFiniteSet(S) /\ \A r \in S : IsFiniteSet(r.refs)

\* Tier 4 cannot hold more nodes than the builder and Stage 14 count.
LEMMA NodesBound ==
  ASSUME NEW d, Countable(d), NEW S, IsFiniteSet(S)
  PROVE  Bounded(Tier4Nodes(d, S), d.expected.nodeCount + Cardinality(S))
<1> DEFINE C == {<<"chunk", c>> : c \in DOMAIN d.chunks}
           E == {<<"entity", e.id>> : e \in d.entities}
           F == {<<"fact", i>> : i \in DOMAIN d.facts}
           H == {<<"held", i>> : i \in DOMAIN d.held}
           R == {<<"derived", r.entity>> : r \in S}
           B == {<<"source">>, <<"snapshot">>}
<1>1. Bounded(B, 2)
  BY BoundedFacts
<1>2. Bounded(C, Len(d.chunks))
  <2> DEFINE f == [c \in DOMAIN d.chunks |-> <<"chunk", c>>]
  <2>1. Bounded({f[c] : c \in DOMAIN d.chunks}, Len(d.chunks))
    <3> HIDE DEF f
    <3> QED BY BoundedList, BoundedImage DEF Countable
  <2> QED BY <2>1
<1>3. Bounded(E, Cardinality(d.entities))
  <2> DEFINE f == [e \in d.entities |-> <<"entity", e.id>>]
  <2>1. Bounded({f[e] : e \in d.entities}, Cardinality(d.entities))
    <3> HIDE DEF f
    <3> QED BY BoundedFacts, BoundedImage DEF Countable
  <2> QED BY <2>1
<1>4. Bounded(F, Len(d.facts))
  <2> DEFINE f == [i \in DOMAIN d.facts |-> <<"fact", i>>]
  <2>1. Bounded({f[i] : i \in DOMAIN d.facts}, Len(d.facts))
    <3> HIDE DEF f
    <3> QED BY BoundedList, BoundedImage DEF Countable
  <2> QED BY <2>1
<1>5. Bounded(H, Len(d.held))
  <2> DEFINE f == [i \in DOMAIN d.held |-> <<"held", i>>]
  <2>1. Bounded({f[i] : i \in DOMAIN d.held}, Len(d.held))
    <3> HIDE DEF f
    <3> QED BY BoundedList, BoundedImage DEF Countable
  <2> QED BY <2>1
<1>6. Bounded(R, Cardinality(S))
  <2> DEFINE f == [r \in S |-> <<"derived", r.entity>>]
  <2>1. Bounded({f[r] : r \in S}, Cardinality(S))
    <3> HIDE DEF f
    <3> QED BY BoundedFacts, BoundedImage
  <2> QED BY <2>1
<1>7. Tier4Nodes(d, S) = ((((B \cup C) \cup E) \cup F) \cup H) \cup R
  BY DEF Tier4Nodes
<1> HIDE DEF B, C, E, F, H, R
<1>8. Bounded(B \cup C, 2 + Len(d.chunks))
  BY <1>1, <1>2, BoundedUnion
<1>9. Bounded((B \cup C) \cup E, 2 + Len(d.chunks) + Cardinality(d.entities))
  BY <1>3, <1>8, BoundedUnion
<1>10. Bounded(((B \cup C) \cup E) \cup F, 2 + Len(d.chunks) + Cardinality(d.entities) + Len(d.facts))
  BY <1>4, <1>9, BoundedUnion
<1>11. Bounded((((B \cup C) \cup E) \cup F) \cup H,
               2 + Len(d.chunks) + Cardinality(d.entities) + Len(d.facts) + Len(d.held))
  BY <1>5, <1>10, BoundedUnion
<1>12. Bounded(((((B \cup C) \cup E) \cup F) \cup H) \cup R,
               2 + Len(d.chunks) + Cardinality(d.entities) + Len(d.facts) + Len(d.held) + Cardinality(S))
  BY <1>6, <1>11, BoundedUnion
<1>13. d.expected.nodeCount = 2 + Len(d.chunks) + Cardinality(d.entities) + Len(d.facts) + Len(d.held)
  BY DEF Countable
<1> QED BY <1>7, <1>12, <1>13

\* Derived rows refer to finitely many chunks.
LEMMA CitesFinite ==
  ASSUME NEW S, Derived(S)
  PROVE  IsFiniteSet(UNION {{<<r, x.chunk>> : x \in r.refs} : r \in S})
<1> DEFINE Z == {{<<r, x.chunk>> : x \in r.refs} : r \in S}
           g == [r \in S |-> {<<r, x.chunk>> : x \in r.refs}]
<1>1. \A r \in S : IsFiniteSet(g[r])
  <2> TAKE r \in S
  <2> DEFINE f == [x \in r.refs |-> <<r, x.chunk>>]
  <2>1. IsFiniteSet({f[x] : x \in r.refs})
    <3>1. Bounded(r.refs, Cardinality(r.refs))
      BY BoundedFacts DEF Derived
    <3> HIDE DEF f
    <3> QED BY <3>1, BoundedImage DEF Bounded
  <2> QED BY <2>1
<1>2. IsFiniteSet({g[r] : r \in S})
  <2>1. Bounded(S, Cardinality(S))
    BY BoundedFacts DEF Derived
  <2> HIDE DEF g
  <2> QED BY <2>1, BoundedImage DEF Bounded
<1>3. Z = {g[r] : r \in S}
  OBVIOUS
<1>4. \A T \in Z : IsFiniteSet(T)
  BY <1>1
<1> HIDE DEF Z, g
<1>5. IsFiniteSet(UNION Z)
  BY <1>2, <1>3, <1>4, FS_UNION
<1> QED BY <1>5 DEF Z

\* Nor more edges: each mention, each end of a fact and each chunk a summary
\* refers to is one edge.
LEMMA EdgesBound ==
  ASSUME NEW d, Countable(d), NEW S, Derived(S)
  PROVE  Bounded(Tier4Edges(d, S), d.expected.edgeCount + Cardinality(S)
                   + Cardinality(UNION {{<<r, x.chunk>> : x \in r.refs} : r \in S}))
<1> DEFINE O == {<<"snapshot of">>}
           P == {<<"part", c>> : c \in DOMAIN d.chunks}
           M == {<<"mentions", mentionId(m)>> : m \in ToSet(d.mentions)}
           F == {"subject", "object"} \X DOMAIN d.facts
           H == {<<"from", i>> : i \in DOMAIN d.held}
           R == {<<"summary", r.entity>> : r \in S}
           X == UNION {{<<"cites", r.entity, x.chunk>> : x \in r.refs} : r \in S}
           Y == UNION {{<<r, x.chunk>> : x \in r.refs} : r \in S}
<1>1. Bounded(O, 1)
  BY BoundedFacts
<1>2. Bounded(P, Len(d.chunks))
  <2> DEFINE f == [c \in DOMAIN d.chunks |-> <<"part", c>>]
  <2>1. Bounded({f[c] : c \in DOMAIN d.chunks}, Len(d.chunks))
    <3> HIDE DEF f
    <3> QED BY BoundedList, BoundedImage DEF Countable
  <2> QED BY <2>1
<1>3. Bounded(M, Len(d.mentions))
  <2> DEFINE f == [m \in ToSet(d.mentions) |-> <<"mentions", mentionId(m)>>]
  <2>1. Bounded({f[m] : m \in ToSet(d.mentions)}, Len(d.mentions))
    <3> HIDE DEF f
    <3> QED BY BoundedList, BoundedImage DEF Countable
  <2> QED BY <2>1
<1>4. Bounded(F, 2 * Len(d.facts))
  <2>1. Bounded({"subject", "object"}, 2) /\ Bounded(DOMAIN d.facts, Len(d.facts))
    BY BoundedFacts, BoundedList DEF Countable
  <2> DEFINE T == {"subject", "object"}
  <2>2. T # {}
    OBVIOUS
  <2> HIDE DEF T
  <2>3. /\ IsFiniteSet(T) /\ Cardinality(T) \in Nat /\ Cardinality(T) <= 2
        /\ IsFiniteSet(DOMAIN d.facts) /\ Cardinality(DOMAIN d.facts) \in Nat
        /\ Len(d.facts) \in Nat /\ Cardinality(DOMAIN d.facts) <= Len(d.facts)
    BY <2>1 DEF Bounded, T
  <2>4. IsFiniteSet(F) /\ Cardinality(F) = Cardinality(T) * Cardinality(DOMAIN d.facts)
    BY <2>3, FS_Product DEF T
  <2>5. Cardinality(F) \in Nat /\ Cardinality(F) <= 2 * Len(d.facts) /\ 2 * Len(d.facts) \in Nat
    <3>1. Cardinality(T) \in {0, 1, 2}
      BY <2>3
    <3> HIDE DEF F
    <3>2. CASE Cardinality(T) = 0
      BY <3>2, <2>3, <2>4
    <3>3. CASE Cardinality(T) = 1
      BY <3>3, <2>3, <2>4
    <3>4. CASE Cardinality(T) = 2
      BY <3>4, <2>3, <2>4
    <3> QED BY <3>1, <3>2, <3>3, <3>4
  <2> QED BY <2>4, <2>5 DEF Bounded
<1>5. Bounded(H, Len(d.held))
  <2> DEFINE f == [i \in DOMAIN d.held |-> <<"from", i>>]
  <2>1. Bounded({f[i] : i \in DOMAIN d.held}, Len(d.held))
    <3> HIDE DEF f
    <3> QED BY BoundedList, BoundedImage DEF Countable
  <2> QED BY <2>1
<1>6. Bounded(R, Cardinality(S))
  <2> DEFINE f == [r \in S |-> <<"summary", r.entity>>]
  <2>1. Bounded({f[r] : r \in S}, Cardinality(S))
    <3> HIDE DEF f
    <3> QED BY BoundedFacts, BoundedImage DEF Derived
  <2> QED BY <2>1
<1>7. Bounded(X, Cardinality(Y))
  <2>1. IsFiniteSet(Y)
    BY CitesFinite
  <2> DEFINE f == [y \in Y |-> <<"cites", y[1].entity, y[2]>>]
  <2>2. X = {f[y] : y \in Y}
    <3>1. ASSUME NEW z \in X PROVE z \in {f[y] : y \in Y}
      <4>1. PICK r \in S : \E x \in r.refs : z = <<"cites", r.entity, x.chunk>>
        BY <3>1
      <4>2. PICK x \in r.refs : z = <<"cites", r.entity, x.chunk>>
        BY <4>1
      <4>3. <<r, x.chunk>> \in Y
        OBVIOUS
      <4>4. f[<<r, x.chunk>>] = z
        BY <4>2, <4>3
      <4> QED BY <4>3, <4>4
    <3>2. ASSUME NEW y \in Y PROVE f[y] \in X
      <4>1. PICK r \in S : \E x \in r.refs : y = <<r, x.chunk>>
        BY <3>2
      <4>2. PICK x \in r.refs : y = <<r, x.chunk>>
        BY <4>1
      <4>3. f[y] = <<"cites", r.entity, x.chunk>>
        BY <4>2
      <4> QED BY <4>3
    <3> QED BY <3>1, <3>2
  <2>3. Bounded(Y, Cardinality(Y))
    BY <2>1, BoundedFacts
  <2> HIDE DEF f, X, Y
  <2>4. Bounded({f[y] : y \in Y}, Cardinality(Y))
    BY <2>3, BoundedImage
  <2> QED BY <2>2, <2>4
<1>8. Tier4Edges(d, S) = (((((O \cup P) \cup M) \cup F) \cup H) \cup R) \cup X
  BY DEF Tier4Edges
<1> HIDE DEF O, P, M, F, H, R, X
<1>9. Bounded(O \cup P, 1 + Len(d.chunks))
  BY <1>1, <1>2, BoundedUnion
<1>10. Bounded((O \cup P) \cup M, 1 + Len(d.chunks) + Len(d.mentions))
  BY <1>3, <1>9, BoundedUnion
<1>11. Bounded(((O \cup P) \cup M) \cup F, 1 + Len(d.chunks) + Len(d.mentions) + 2 * Len(d.facts))
  BY <1>4, <1>10, BoundedUnion
<1>12. Bounded((((O \cup P) \cup M) \cup F) \cup H,
               1 + Len(d.chunks) + Len(d.mentions) + 2 * Len(d.facts) + Len(d.held))
  BY <1>5, <1>11, BoundedUnion
<1>13. Bounded(((((O \cup P) \cup M) \cup F) \cup H) \cup R,
               1 + Len(d.chunks) + Len(d.mentions) + 2 * Len(d.facts) + Len(d.held) + Cardinality(S))
  BY <1>6, <1>12, BoundedUnion
<1>14. Bounded((((((O \cup P) \cup M) \cup F) \cup H) \cup R) \cup X,
               1 + Len(d.chunks) + Len(d.mentions) + 2 * Len(d.facts) + Len(d.held) + Cardinality(S)
                 + Cardinality(Y))
  BY <1>7, <1>13, BoundedUnion
<1>15. d.expected.edgeCount = 1 + Len(d.chunks) + Len(d.mentions) + 2 * Len(d.facts) + Len(d.held)
  BY DEF Countable
<1> QED BY <1>8, <1>14, <1>15

-----------------------------------------------------------------------------
(* Decisions are lists of rows. *)

\* The claims of a text are found from left to right.
LEMMA ExplicitFromLeft ==
  ASSUME NEW text, NEW ms, IsList(text)
  PROVE  LET u == ExplicitUpTo(text, ms)
         IN /\ u[0] = [claims |-> <<>>, prev |-> {}]
            /\ \A p \in 1 .. Len(text) :
                 u[p] = IF text[p] \in RelationWord THEN ExplicitStep(text, ms, u[p - 1], p) ELSE u[p - 1]
<1> DEFINE n == Len(text)
           z == [claims |-> <<>>, prev |-> {}]
           Nxt(a, p) == IF text[p] \in RelationWord THEN ExplicitStep(text, ms, a, p) ELSE a
           Is(h, k) == h = [p \in 0 .. k |-> IF p = 0 THEN z ELSE Nxt(h[p - 1], p)]
           M == {k \in Nat : \E h : Is(h, k)}
           u == ExplicitUpTo(text, ms)
<1>1. n \in Nat
  BY ListShape
<1>2. u = CHOOSE h : Is(h, n)
  BY DEF ExplicitUpTo
<1>3. \A a, p : Nxt(a, p) = IF text[p] \in RelationWord THEN ExplicitStep(text, ms, a, p) ELSE a
  OBVIOUS
<1> HIDE DEF u, z, Nxt
<1>4. 0 \in M
  <2>1. Is([p \in 0 .. 0 |-> z], 0)
    OBVIOUS
  <2> QED BY <2>1
<1>5. ASSUME NEW k \in Nat, k \in M PROVE k + 1 \in M
  <2>1. PICK h : Is(h, k)
    BY <1>5
  <2> DEFINE e == [p \in 0 .. k + 1 |-> IF p = k + 1 THEN Nxt(h[k], p) ELSE h[p]]
  <2>2. ASSUME NEW p \in 0 .. k + 1 PROVE e[p] = IF p = 0 THEN z ELSE Nxt(e[p - 1], p)
    <3>1. CASE p = k + 1
      BY <3>1
    <3>2. CASE p # k + 1
      <4>1. p \in 0 .. k /\ (p # 0 => p - 1 \in 0 .. k + 1 /\ p - 1 # k + 1)
        BY <3>2
      <4>2. h[p] = IF p = 0 THEN z ELSE Nxt(h[p - 1], p)
        BY <2>1, <4>1
      <4> QED BY <3>2, <4>1, <4>2
    <3> QED BY <3>1, <3>2
  <2>3. DOMAIN e = 0 .. k + 1 /\ e = [p \in 0 .. k + 1 |-> e[p]]
    OBVIOUS
  <2> HIDE DEF e
  <2>4. Is(e, k + 1)
    BY <2>2, <2>3
  <2> QED BY <2>4
<1>6. n \in M
  <2> HIDE DEF M
  <2> QED BY <1>1, <1>4, <1>5, Induction
<1>7. Is(u, n)
  <2>1. PICK h : Is(h, n)
    BY <1>6
  <2> HIDE DEF Is, n
  <2> QED BY <1>2, <2>1
<1>8. u[0] = z /\ \A p \in 1 .. n : u[p] = Nxt(u[p - 1], p)
  <2>1. 0 \in 0 .. n /\ \A p \in 1 .. n : p \in 0 .. n /\ p # 0
    BY <1>1
  <2>2. \A p \in 0 .. n : u[p] = IF p = 0 THEN z ELSE Nxt(u[p - 1], p)
    BY <1>7
  <2> QED BY <2>1, <2>2
<1> QED BY <1>3, <1>8 DEF u, z

\* A chunk makes a list of claims, whatever its text and its mentions.
LEMMA ClaimsType ==
  ASSUME NEW text, NEW ms, IsList(text)
  PROVE  IsList(ChunkClaims(text, ms))
<1> DEFINE u == ExplicitUpTo(text, ms)
           n == Len(text)
           T == {p \in Nat : p <= n => IsList(u[p].claims)}
<1>1. n \in Nat
  BY ListShape
<1>2. u[0] = [claims |-> <<>>, prev |-> {}]
  BY ExplicitFromLeft
<1>3. \A p \in 1 .. n :
        u[p] = IF text[p] \in RelationWord THEN ExplicitStep(text, ms, u[p - 1], p) ELSE u[p - 1]
  BY ExplicitFromLeft
<1> HIDE DEF u
<1>4. ASSUME NEW a, IsList(a.claims), NEW p
      PROVE  IsList(ExplicitStep(text, ms, a, p).claims)
  <2>1. \A x : IsList(Append(a.claims, x))
    BY <1>4, AppendedList
  <2> QED BY <1>4, <2>1 DEF ExplicitStep
<1>5. 0 \in T
  BY <1>2, SmallLists
<1>6. ASSUME NEW p \in Nat, p \in T PROVE p + 1 \in T
  <2>1. SUFFICES ASSUME p + 1 <= n PROVE IsList(u[p + 1].claims)
    OBVIOUS
  <2>2. p + 1 \in 1 .. n /\ (p + 1) - 1 = p /\ IsList(u[p].claims)
    BY <1>1, <1>6, <2>1
  <2>3. u[p + 1] = IF text[p + 1] \in RelationWord THEN ExplicitStep(text, ms, u[p], p + 1) ELSE u[p]
    BY <1>3, <2>2
  <2> QED BY <1>4, <2>2, <2>3
<1>7. IsList(ExplicitClaims(text, ms))
  <2>1. n \in T
    <3> HIDE DEF T
    <3> QED BY <1>1, <1>5, <1>6, Induction
  <2> QED BY <1>1, <2>1 DEF ExplicitClaims, u
<1>8. IsList(StructuredClaims(text, ms))
  BY SmallLists DEF StructuredClaims
<1>9. \A x : IsList(<<x>>)
  BY SmallLists
<1>10. IsList(<<>>)
  BY SmallLists
<1> DEFINE s == StructuredClaims(text, ms)
           e == ExplicitClaims(text, ms)
           i == [subject |-> ms[1], object |-> ms[2], predicate |-> "INFERRED",
                 confidence |-> inferredMax, basis |-> "inferred", hold |-> ""]
<1>11. IsList(<<i>>)
  BY <1>9
<1>12. ChunkClaims(text, ms) = CASE s # <<>> -> s
                                 [] s = <<>> /\ e # <<>> -> e
                                 [] s = <<>> /\ e = <<>> /\ Len(ms) >= 2 -> <<i>>
                                 [] OTHER -> <<>>
  BY DEF ChunkClaims
<1> HIDE DEF s, e, i
<1>13. ChunkClaims(text, ms) \in {s, e, <<i>>, <<>>}
  BY <1>12
<1> QED BY <1>7, <1>8, <1>10, <1>11, <1>13 DEF s, e

\* What the stages read: the texts and the mentions of a batch.
Readable(b) ==
  IsList(b.chunks) /\ IsList(b.mentions) /\ \A k \in DOMAIN b.chunks : IsList(b.chunks[k])

\* Every candidate is the claim of a chunk.
LEMMA CandidatesType ==
  ASSUME NEW b, Readable(b)
  PROVE  /\ IsList(Candidates(b))
         /\ \A c \in ToSet(Candidates(b)) : \E k \in DOMAIN b.chunks :
              \E claim \in ToSet(ChunkClaims(b.chunks[k], Keep(b.mentions, LAMBDA m : m.chunk = k))) :
                c = Candidate(b, k, claim)
<1> DEFINE ms(k) == Keep(b.mentions, LAMBDA m : m.chunk = k)
           cl(k) == ChunkClaims(b.chunks[k], ms(k))
           e(k) == [i \in DOMAIN cl(k) |-> Candidate(b, k, cl(k)[i])]
           q == [k \in DOMAIN b.chunks |-> e(k)]
<1>1. Candidates(b) = FlattenSeq(q)
  BY DEF Candidates, Each
<1>2. \A k \in DOMAIN b.chunks : IsList(cl(k))
  BY ClaimsType DEF Readable
<1>3. \A k \in DOMAIN q : IsList(q[k])
  <2> TAKE k \in DOMAIN q
  <2>1. IsList(cl(k))
    BY <1>2
  <2> HIDE DEF cl
  <2>2. e(k) = [i \in DOMAIN cl(k) |-> e(k)[i]]
    OBVIOUS
  <2> HIDE DEF e
  <2>3. IsList(e(k))
    BY <2>1, <2>2, MappedList
  <2> QED BY <2>3
<1>4. IsList(q)
  <2>1. q = [k \in DOMAIN b.chunks |-> q[k]]
    OBVIOUS
  <2> HIDE DEF q
  <2> QED BY <2>1, MappedList DEF Readable
<1>5. \A c \in ToSet(FlattenSeq(q)) : \E k \in DOMAIN q : c \in ToSet(q[k])
  <2> HIDE DEF q
  <2> QED BY <1>3, <1>4, FlattenLists
<1>6. IsList(FlattenSeq(q))
  <2> HIDE DEF q
  <2> QED BY <1>3, <1>4, FlattenLists
<1>7. ASSUME NEW c \in ToSet(FlattenSeq(q))
      PROVE  \E k \in DOMAIN b.chunks : \E claim \in ToSet(cl(k)) : c = Candidate(b, k, claim)
  <2>1. PICK k \in DOMAIN b.chunks : c \in ToSet(e(k))
    BY <1>5
  <2> HIDE DEF cl
  <2>2. PICK i \in DOMAIN cl(k) : c = Candidate(b, k, cl(k)[i])
    BY <2>1 DEF ToSet
  <2>3. cl(k)[i] \in ToSet(cl(k))
    BY DEF ToSet
  <2> QED BY <2>2, <2>3
<1> QED BY <1>1, <1>6, <1>7

\* What is collected from the entries of a list.
LEMMA CollectedList ==
  ASSUME NEW s, IsList(s), NEW f, \A x \in ToSet(s) : IsList(f[x])
  PROVE  LET q == FlattenSeq([i \in DOMAIN s |-> f[s[i]]])
         IN  IsList(q) /\ \A y : y \in ToSet(q) <=> \E x \in ToSet(s) : y \in ToSet(f[x])
<1> DEFINE p == [i \in DOMAIN s |-> f[s[i]]]
<1>1. \A i \in DOMAIN s : s[i] \in ToSet(s)
  BY ListShape
<1>2. DOMAIN p = DOMAIN s /\ p = [i \in DOMAIN s |-> p[i]] /\ \A i \in DOMAIN s : p[i] = f[s[i]]
  OBVIOUS
<1>3. \A x \in ToSet(s) : \E i \in DOMAIN s : x = s[i]
  BY DEF ToSet
<1> HIDE DEF p
<1>4. IsList(p) /\ \A i \in DOMAIN p : IsList(p[i])
  BY <1>1, <1>2, MappedList
<1>5. /\ IsList(FlattenSeq(p))
      /\ \A y : y \in ToSet(FlattenSeq(p)) <=> \E i \in DOMAIN p : y \in ToSet(p[i])
  BY <1>4, FlattenLists
<1>6. \A y : (\E i \in DOMAIN p : y \in ToSet(p[i])) <=> \E x \in ToSet(s) : y \in ToSet(f[x])
  BY <1>1, <1>2, <1>3
<1>7. \A y : y \in ToSet(FlattenSeq(p)) <=> \E x \in ToSet(s) : y \in ToSet(f[x])
  BY <1>5, <1>6
<1> QED BY <1>5, <1>7 DEF p

\* Only is a list of one row or of none.
LEMMA OnlyRows ==
  \A condition \in BOOLEAN : \A row :
     /\ IsList(Only(condition, row))
     /\ \A y : y \in ToSet(Only(condition, row)) <=> condition /\ y = row
<1>1. ToSet(<<>>) = {}
  BY DEF ToSet
<1> QED BY <1>1, SmallLists DEF Only

\* What is mapped are candidates, the others are passed over.
LEMMA MappableType ==
  ASSUME NEW version, NEW candidates, IsList(candidates)
  PROVE  /\ IsList(Mappable(version, candidates))
         /\ ToSet(Mappable(version, candidates)) = {c \in ToSet(candidates) : Mapped(c, version)}
<1> DEFINE f == [c \in ToSet(candidates) |-> Only(Mapped(c, version), c)]
           q == FlattenSeq([i \in DOMAIN candidates |-> f[candidates[i]]])
           T == ToSet(candidates)
<1>1. \A c : Mapped(c, version) \in BOOLEAN
  BY DEF Mapped
<1>2. \A c \in T : IsList(f[c]) /\ \A y : y \in ToSet(f[c]) <=> Mapped(c, version) /\ y = c
  BY <1>1, OnlyRows
<1>3. Mappable(version, candidates) = q
  <2>1. \A i \in DOMAIN candidates : candidates[i] \in T
    BY ListShape
  <2>2. \A i \in DOMAIN candidates : f[candidates[i]] = Only(Mapped(candidates[i], version), candidates[i])
    BY <2>1
  <2>3. [i \in DOMAIN candidates |-> f[candidates[i]]]
          = [i \in DOMAIN candidates |-> Only(Mapped(candidates[i], version), candidates[i])]
    BY <2>2
  <2> QED BY <2>3 DEF Mappable, Keep, Collect, Each
<1> HIDE DEF f
<1>4. IsList(q) /\ \A y : y \in ToSet(q) <=> \E c \in T : y \in ToSet(f[c])
  BY <1>2, CollectedList
<1> HIDE DEF q, T
<1>5. \A y : y \in ToSet(q) <=> y \in T /\ Mapped(y, version)
  BY <1>2, <1>4
<1>6. ToSet(q) = {c \in T : Mapped(c, version)}
  BY <1>5
<1> QED BY <1>3, <1>4, <1>6 DEF T

\* Every fact is a mapped candidate that Stage 12 did not hold.
LEMMA FactsType ==
  ASSUME NEW b, NEW mapped, IsList(mapped)
  PROVE  /\ IsList(Facts(b, mapped))
         /\ \A r \in ToSet(Facts(b, mapped)) : \E c \in ToSet(mapped) : Held12(b, c) = <<>> /\ r = Fact(b, c)
<1> DEFINE T == ToSet(mapped)
           f == [c \in T |-> Only(Held12(b, c) = <<>>, Fact(b, c))]
           q == FlattenSeq([i \in DOMAIN mapped |-> f[mapped[i]]])
<1>1. \A c \in T : IsList(f[c]) /\ \A y : y \in ToSet(f[c]) <=> Held12(b, c) = <<>> /\ y = Fact(b, c)
  BY OnlyRows
<1>2. Facts(b, mapped) = q
  <2>1. \A i \in DOMAIN mapped : mapped[i] \in T
    BY ListShape
  <2>2. \A i \in DOMAIN mapped :
          f[mapped[i]] = Only(Held12(b, mapped[i]) = <<>>, Fact(b, mapped[i]))
    BY <2>1
  <2>3. [i \in DOMAIN mapped |-> f[mapped[i]]]
          = [i \in DOMAIN mapped |-> Only(Held12(b, mapped[i]) = <<>>, Fact(b, mapped[i]))]
    BY <2>2
  <2> QED BY <2>3 DEF Facts, Collect, Each
<1> HIDE DEF f, T
<1>3. IsList(q) /\ \A y : y \in ToSet(q) <=> \E c \in T : y \in ToSet(f[c])
  <2>1. \A c \in ToSet(mapped) : IsList(f[c])
    BY <1>1 DEF T
  <2> QED BY <2>1, CollectedList DEF T
<1> HIDE DEF q
<1>4. \A r \in ToSet(q) : \E c \in T : Held12(b, c) = <<>> /\ r = Fact(b, c)
  BY <1>1, <1>3
<1> QED BY <1>2, <1>3, <1>4 DEF T

\* The rows a decision holds are a list.
LEMMA HeldType ==
  ASSUME NEW b, NEW version, NEW candidates, NEW mapped, IsList(candidates), IsList(mapped)
  PROVE  IsList(HeldRows(b, version, candidates, mapped))
<1> DEFINE S == ToSet(candidates)
           T == ToSet(mapped)
           f == [c \in S |-> Held10(c)]
           g == [c \in S |-> Held11(c, version)]
           h == [c \in T |-> Held12(b, c)]
<1>1. \A c : IsList(Held10(c))
  <2> TAKE c
  <2>1. /\ IsList(Only(c.hold # "", heldRecord(c, c.hold)))
        /\ IsList(Only(c.confidence < writeFloor, heldRecord(c, "confidence_below_write_floor")))
    BY SmallLists DEF Only
  <2> QED BY <2>1, JoinedLists DEF Held10
<1>2. \A c : IsList(Held11(c, version)) /\ IsList(Held12(b, c))
  BY SmallLists DEF Held11, Held12
<1>3. (\A i \in DOMAIN candidates : candidates[i] \in S) /\ \A i \in DOMAIN mapped : mapped[i] \in T
  BY ListShape
<1>4. [i \in DOMAIN candidates |-> f[candidates[i]]] = [i \in DOMAIN candidates |-> Held10(candidates[i])]
  BY <1>3
<1>5. [i \in DOMAIN candidates |-> g[candidates[i]]]
        = [i \in DOMAIN candidates |-> Held11(candidates[i], version)]
  BY <1>3
<1>6. [i \in DOMAIN mapped |-> h[mapped[i]]] = [i \in DOMAIN mapped |-> Held12(b, mapped[i])]
  BY <1>3
<1>7. /\ \A c \in S : IsList(f[c]) /\ IsList(g[c])
      /\ \A c \in T : IsList(h[c])
  BY <1>1, <1>2
<1> HIDE DEF f, g, h
<1>8. IsList(FlattenSeq([i \in DOMAIN candidates |-> f[candidates[i]]]))
  BY <1>7, CollectedList
<1>9. IsList(FlattenSeq([i \in DOMAIN candidates |-> g[candidates[i]]]))
  BY <1>7, CollectedList
<1>10. IsList(FlattenSeq([i \in DOMAIN mapped |-> h[mapped[i]]]))
  BY <1>7, CollectedList
<1>11. /\ IsList(Collect(candidates, Held10))
       /\ IsList(Collect(candidates, LAMBDA c : Held11(c, version)))
       /\ IsList(Collect(mapped, LAMBDA c : Held12(b, c)))
  BY <1>4, <1>5, <1>6, <1>8, <1>9, <1>10 DEF Collect, Each
<1> QED BY <1>11, JoinedLists DEF HeldRows

\* A decision of what can be read can be counted, and its facts are of its texts.
LEMMA DecisionType ==
  ASSUME NEW b, Readable(b), NEW version
  PROVE  LET d == Decision(b, version)
         IN /\ Countable(d) /\ d.embed = b.embed /\ d.publish = b.publish /\ d.chunks = b.chunks
            /\ d # NoDecision
            /\ \A r \in ToSet(d.facts) : \E k \in DOMAIN b.chunks : \E claim :
                 LET c == Candidate(b, k, claim) IN Held12(b, c) = <<>> /\ r = Fact(b, c)
<1> DEFINE cs == Candidates(b)
           mapped == Mappable(version, cs)
           facts == Facts(b, mapped)
           held == HeldRows(b, version, cs, mapped)
           entities == Entities(b)
           d == DecisionRow(b, version, cs, entities, mapped, facts, held)
<1>1. Decision(b, version) = d
  BY DEF Decision, DecisionOn, DecisionFrom
<1>2. IsList(cs) /\ \A c \in ToSet(cs) : \E k \in DOMAIN b.chunks : \E claim : c = Candidate(b, k, claim)
  <2>1. IsList(cs)
    BY CandidatesType
  <2>2. ASSUME NEW c \in ToSet(cs) PROVE \E k \in DOMAIN b.chunks : \E claim : c = Candidate(b, k, claim)
    <3>1. PICK k \in DOMAIN b.chunks :
            \E claim \in ToSet(ChunkClaims(b.chunks[k], Keep(b.mentions, LAMBDA m : m.chunk = k))) :
              c = Candidate(b, k, claim)
      BY CandidatesType
    <3>2. PICK claim : c = Candidate(b, k, claim)
      BY <3>1
    <3> QED BY <3>2
  <2> QED BY <2>1, <2>2
<1>3. IsList(mapped) /\ ToSet(mapped) \subseteq ToSet(cs)
  <2> HIDE DEF cs
  <2> QED BY <1>2, MappableType
<1>4. IsList(facts)
      /\ \A r \in ToSet(facts) : \E c \in ToSet(mapped) : Held12(b, c) = <<>> /\ r = Fact(b, c)
  <2> HIDE DEF mapped
  <2> QED BY <1>3, FactsType
<1>5. IsList(held)
  <2> HIDE DEF cs, mapped
  <2> QED BY <1>2, <1>3, HeldType
<1>6. IsFiniteSet(entities)
  <2> DEFINE f == [m \in ToSet(b.mentions) |->
        [id |-> EntityId(b, m), type |-> m.type,
         mentions |-> {mentionId(n) : n \in {k \in ToSet(b.mentions) : Identity(k) = Identity(m)}}]]
  <2>1. entities = {f[m] : m \in ToSet(b.mentions)}
    BY DEF Entities
  <2> HIDE DEF f, entities
  <2>2. Bounded(ToSet(b.mentions), Len(b.mentions))
    BY BoundedList DEF Readable
  <2> QED BY <2>1, <2>2, BoundedImage DEF Bounded
<1> HIDE DEF cs, mapped, facts, held, entities
<1>7. Countable(d)
  BY <1>4, <1>5, <1>6 DEF Countable, DecisionRow, ExpectedGraph, Readable
<1>8. d.embed = b.embed /\ d.publish = b.publish /\ d.chunks = b.chunks /\ d.facts = facts
  BY DEF DecisionRow
<1>9. d # NoDecision
  <2>1. "chunks" \in DOMAIN d /\ "chunks" \notin DOMAIN NoDecision
    BY DEF DecisionRow, NoDecision
  <2> QED BY <2>1
<1>10. \A r \in ToSet(facts) : \E k \in DOMAIN b.chunks : \E claim :
         Held12(b, Candidate(b, k, claim)) = <<>> /\ r = Fact(b, Candidate(b, k, claim))
  BY <1>2, <1>3, <1>4
<1> HIDE DEF d
<1> QED BY <1>1, <1>7, <1>8, <1>9, <1>10

-----------------------------------------------------------------------------
(* Batches. *)

\* Of two chunks one comes first, and so each has a place of its own.
LEMMA PlacesAreTaken ==
  ASSUME NEW n \in Nat, NEW ord \in [1 .. n -> Int]
  PROVE  LET before(i, j) == ord[i] < ord[j] \/ (ord[i] = ord[j] /\ i < j)
             place == [i \in 1 .. n |-> Cardinality({j \in 1 .. n : before(j, i)}) + 1]
         IN  /\ \A i \in 1 .. n : place[i] \in 1 .. n
             /\ \A k \in 1 .. n : \E i \in 1 .. n : place[i] = k
<1> DEFINE before(i, j) == ord[i] < ord[j] \/ (ord[i] = ord[j] /\ i < j)
           D == 1 .. n
           Earlier(i) == {j \in D : before(j, i)}
           place == [i \in D |-> Cardinality(Earlier(i)) + 1]
<1>1. /\ \A i \in D : ~ before(i, i)
      /\ \A i, j \in D : i # j => before(i, j) \/ before(j, i)
      /\ \A i, j, k \in D : before(i, j) /\ before(j, k) => before(i, k)
  <2>1. \A i \in D : i \in Int /\ ord[i] \in Int
    OBVIOUS
  <2> HIDE DEF D
  <2>2. \A i \in D : ~ before(i, i)
    BY <2>1
  <2>3. \A i, j \in D : i # j => before(i, j) \/ before(j, i)
    <3> TAKE i, j \in D
    <3>1. i \in Int /\ j \in Int /\ ord[i] \in Int /\ ord[j] \in Int
      BY <2>1
    <3> QED BY <3>1
  <2>4. \A i, j, k \in D : before(i, j) /\ before(j, k) => before(i, k)
    <3> TAKE i, j, k \in D
    <3>1. /\ i \in Int /\ j \in Int /\ k \in Int
          /\ ord[i] \in Int /\ ord[j] \in Int /\ ord[k] \in Int
      BY <2>1
    <3> QED BY <3>1
  <2> QED BY <2>2, <2>3, <2>4
<1> HIDE DEF before
<1>2. IsFiniteSet(D) /\ Cardinality(D) = n
  BY FS_Interval
<1> HIDE DEF D
<1>3. \A i \in D : IsFiniteSet(Earlier(i)) /\ Cardinality(Earlier(i)) \in Nat
  <2> TAKE i \in D
  <2>1. Earlier(i) \in SUBSET D
    OBVIOUS
  <2>2. IsFiniteSet(Earlier(i))
    BY <1>2, <2>1, FS_Subset
  <2> QED BY <2>2, FS_CardinalityType
<1>4. ASSUME NEW i \in D, NEW T, IsFiniteSet(T), Earlier(i) \subseteq T, i \in T
      PROVE  Cardinality(Earlier(i)) + 1 <= Cardinality(T)
  <2>1. i \notin Earlier(i)
    BY <1>1
  <2> DEFINE U == Earlier(i) \cup {i}
  <2>2. IsFiniteSet(U) /\ Cardinality(U) = Cardinality(Earlier(i)) + 1
    BY <1>3, <2>1, FS_AddElement
  <2>3. U \in SUBSET T
    BY <1>4
  <2> HIDE DEF U
  <2>4. Cardinality(U) <= Cardinality(T)
    BY <1>4, <2>3, FS_Subset
  <2> QED BY <2>2, <2>4
<1>5. \A i \in D : Cardinality(Earlier(i)) + 1 \in 1 .. n
  <2> TAKE i \in D
  <2>1. Earlier(i) \subseteq D
    OBVIOUS
  <2>2. Cardinality(Earlier(i)) + 1 <= n
    BY <1>2, <1>4, <2>1
  <2>3. Cardinality(Earlier(i)) \in Nat
    BY <1>3
  <2> HIDE DEF Earlier
  <2> QED BY <2>2, <2>3
<1>6. \A i, j \in D : before(i, j) => Cardinality(Earlier(i)) < Cardinality(Earlier(j))
  <2> TAKE i, j \in D
  <2> HAVE before(i, j)
  <2>1. Earlier(i) \subseteq Earlier(j) /\ i \in Earlier(j)
    BY <1>1
  <2>2. IsFiniteSet(Earlier(j)) /\ Cardinality(Earlier(i)) \in Nat /\ Cardinality(Earlier(j)) \in Nat
    BY <1>3
  <2> HIDE DEF Earlier
  <2>3. Cardinality(Earlier(i)) + 1 <= Cardinality(Earlier(j))
    BY <1>4, <2>1, <2>2
  <2> QED BY <2>2, <2>3
<1>7. place \in [D -> D]
  BY <1>5 DEF D
<1>8. \A i, j \in D : place[i] = place[j] => i = j
  <2>1. \A i \in D : place[i] = Cardinality(Earlier(i)) + 1 /\ Cardinality(Earlier(i)) \in Nat
    BY <1>3
  <2> HIDE DEF place, Earlier
  <2> QED BY <1>1, <1>6, <2>1
<1>9. place \in Injection(D, D)
  <2> HIDE DEF place
  <2> QED BY <1>7, <1>8 DEF Injection, IsInjective
<1>10. place \in Surjection(D, D)
  <2> HIDE DEF place
  <2> QED BY <1>2, <1>9, FS_Injection
<1>11. \A k \in D : \E i \in D : place[i] = k
  <2> HIDE DEF place
  <2> QED BY <1>10 DEF Surjection
<1>12. \A i \in D : place[i] \in D
  <2> HIDE DEF place
  <2> QED BY <1>7
<1> QED BY <1>11, <1>12 DEF D, before

\* What an accepted batch is made of.
LEMMA BatchType ==
  ASSUME NEW r \in Request, Accepted(r)
  PROVE  /\ IsList(r.batch.chunks) /\ IsList(r.batch.mentions) /\ IsList(r.batch.source.content)
         /\ IsList(r.batch.stages) /\ Len(r.batch.stages) = 9
         /\ ValidScope(r.batch.scope) /\ r.batch.scope["tenantId"] # "other"
         /\ \A s \in ToSet(r.batch.stages) : "attempt" \in DOMAIN s /\ s.attempt # "other"
<1>1. /\ IsList(r.batch.chunks) /\ IsList(r.batch.mentions) /\ IsList(r.batch.stages)
      /\ IsList(r.batch.source.content)
      /\ \A s \in ToSet(r.batch.stages) : "attempt" \in DOMAIN s
  BY RequestAssumption
<1>2. /\ r.batch.scope["tenantId"] # "other"
      /\ \A s \in ToSet(r.batch.stages) : s.attempt # "other"
  BY FaultAssumption
<1>3. ValidBatch(r.batch)
  BY DEF Accepted
<1>4. ValidScope(r.batch.scope)
  BY <1>3 DEF ValidBatch
<1>5. Len(r.batch.stages) = Len(StageCatalog)
  BY <1>3 DEF ValidBatch, ValidStages
<1>6. Len(StageCatalog) = 9
  BY DEF StageCatalog
<1> QED BY <1>1, <1>2, <1>4, <1>5, <1>6

\* A slice of a list is a list.
LEMMA SliceType ==
  ASSUME NEW s, IsList(s), NEW from \in Int, NEW to \in Int, Spans(from, to, Len(s))
  PROVE  /\ IsList(Slice(s, from, to)) /\ Len(Slice(s, from, to)) = to - from
         /\ \A i \in 1 .. to - from : Slice(s, from, to)[i] = s[from + i]
<1> DEFINE T == ToSet(s)
           u == SubSeq(s, from + 1, to)
<1>1. s \in Seq(T) /\ Len(s) \in Nat
  BY ListShape DEF IsList
<1>2. 0 <= from /\ from < to /\ to <= Len(s)
  BY DEF Spans
<1> HIDE DEF T
<1>3. u \in Seq(T) /\ Len(u) = to - from
  BY <1>1, <1>2
<1>4. \A i \in 1 .. to - from : u[i] = s[from + i]
  BY <1>1, <1>2
<1> HIDE DEF u
<1>5. u = [i \in 1 .. to - from |-> u[i]] /\ to - from \in Nat
  BY <1>2, <1>3
<1>6. IsList(u)
  BY <1>5, ListIntro
<1> QED BY <1>3, <1>4, <1>6 DEF Slice, u

\* The chunk of an accepted batch is a slice of its source.
LEMMA ChunkType ==
  ASSUME NEW r \in Request, Accepted(r), NEW i \in DOMAIN r.batch.chunks
  PROVE  LET c == r.batch.chunks[i]
         IN /\ c.startOffset \in Int /\ c.endOffset \in Int /\ c.ordinal \in Int
            /\ Spans(c.startOffset, c.endOffset, Len(r.batch.source.content))
            /\ c.text = Slice(r.batch.source.content, c.startOffset, c.endOffset)
            /\ IsList(c.text) /\ Len(c.text) = c.endOffset - c.startOffset /\ WellFormed(c.text)
<1> DEFINE c == r.batch.chunks[i]
<1>1. IsList(r.batch.chunks) /\ IsList(r.batch.source.content)
  BY BatchType
<1>2. c \in ToSet(r.batch.chunks)
  BY <1>1, ListShape
<1>3. c.ordinal \in Int /\ c.startOffset \in Int /\ c.endOffset \in Int
  BY <1>2, RequestAssumption
<1>4. ValidChunks(r.batch.chunks, r.batch.source)
  BY DEF Accepted, ValidBatch
<1>5. /\ Spans(c.startOffset, c.endOffset, Len(r.batch.source.content))
      /\ c.text = Slice(r.batch.source.content, c.startOffset, c.endOffset)
      /\ WellFormed(c.text)
  BY <1>4 DEF ValidChunks
<1>6. IsList(c.text) /\ Len(c.text) = c.endOffset - c.startOffset
  <2> DEFINE from == c.startOffset
             to == c.endOffset
             s == r.batch.source.content
  <2>1. IsList(s) /\ from \in Int /\ to \in Int /\ Spans(from, to, Len(s)) /\ c.text = Slice(s, from, to)
    BY <1>1, <1>3, <1>5
  <2>2. c.endOffset - c.startOffset = to - from
    OBVIOUS
  <2> HIDE DEF from, to, s, c
  <2>3. IsList(Slice(s, from, to)) /\ Len(Slice(s, from, to)) = to - from
    BY <2>1, SliceType
  <2> QED BY <2>1, <2>2, <2>3
<1> QED BY <1>3, <1>5, <1>6

\* What the stages read of an accepted batch are its own texts.
LEMMA SortedType ==
  ASSUME NEW r \in Request, Accepted(r)
  PROVE  LET b == Sorted(r.batch)
         IN /\ Readable(b)
            /\ \A k \in DOMAIN b.chunks : \E i \in DOMAIN r.batch.chunks :
                 b.chunks[k] = r.batch.chunks[i].text
            /\ \A m \in ToSet(b.mentions) : m.chunk \in DOMAIN b.chunks
            /\ b.embed = r.batch.policy.allowEmbedding /\ b.publish = r.batch.policy.allowPublication
<1> DEFINE w == r.batch
           n == Len(w.chunks)
           ord == [i \in 1 .. n |-> w.chunks[i].ordinal]
           before(i, j) == \/ w.chunks[i].ordinal < w.chunks[j].ordinal
                           \/ w.chunks[i].ordinal = w.chunks[j].ordinal /\ i < j
           place == [i \in DOMAIN w.chunks |-> Cardinality({j \in DOMAIN w.chunks : before(j, i)}) + 1]
           at(k) == CHOOSE i \in DOMAIN w.chunks : place[i] = k
           of(m) == CHOOSE i \in DOMAIN w.chunks : w.chunks[i].chunkId = m.chunkId
           texts == [k \in DOMAIN w.chunks |-> w.chunks[at(k)].text]
           ms == [i \in DOMAIN w.mentions |->
                    [id |-> w.mentions[i].sourceMentionId,
                     chunk |-> place[of(w.mentions[i])], at |-> w.mentions[i].startOffset + 1,
                     key |-> w.mentions[i].resolutionKey, type |-> w.mentions[i].semanticType]]
<1>1. Sorted(w) = [chunks |-> texts, mentions |-> ms, refs |-> pool,
                   embed |-> w.policy.allowEmbedding, publish |-> w.policy.allowPublication]
  BY DEF Sorted
<1>2. IsList(w.chunks) /\ IsList(w.mentions)
  BY BatchType
<1>3. n \in Nat /\ DOMAIN w.chunks = 1 .. n
  BY <1>2, ListShape
<1>4. \A i \in DOMAIN w.chunks : w.chunks[i].ordinal \in Int /\ IsList(w.chunks[i].text)
  BY ChunkType
<1>5. ord \in [1 .. n -> Int]
  BY <1>3, <1>4
<1>6. /\ \A i \in 1 .. n : place[i] \in 1 .. n
      /\ \A k \in 1 .. n : \E i \in 1 .. n : place[i] = k
  <2> DEFINE earlier(i, j) == ord[i] < ord[j] \/ (ord[i] = ord[j] /\ i < j)
             rank == [i \in 1 .. n |-> Cardinality({j \in 1 .. n : earlier(j, i)}) + 1]
  <2>1. /\ \A i \in 1 .. n : rank[i] \in 1 .. n
        /\ \A k \in 1 .. n : \E i \in 1 .. n : rank[i] = k
    <3> HIDE DEF n, ord
    <3> QED BY <1>3, <1>5, PlacesAreTaken
  <2>2. \A i, j \in 1 .. n : before(j, i) <=> earlier(j, i)
    <3>1. \A i \in 1 .. n : ord[i] = w.chunks[i].ordinal
      OBVIOUS
    <3> HIDE DEF ord
    <3> QED BY <3>1
  <2>3. \A i \in 1 .. n : {j \in 1 .. n : before(j, i)} = {j \in 1 .. n : earlier(j, i)}
    <3> HIDE DEF before, earlier
    <3> QED BY <2>2
  <2>4. \A i \in 1 .. n : place[i] = rank[i]
    BY <1>3, <2>3
  <2> HIDE DEF place, rank
  <2> QED BY <2>1, <2>4
<1>12. \A m \in ToSet(w.mentions) : of(m) \in DOMAIN w.chunks
  <2>1. ValidMentions(w.mentions, w.chunks)
    BY DEF Accepted, ValidBatch
  <2>2. ASSUME NEW i \in DOMAIN w.mentions PROVE \E j \in DOMAIN w.chunks : w.chunks[j].chunkId = w.mentions[i].chunkId
    BY <2>1 DEF ValidMentions
  <2> QED BY <2>2 DEF ToSet
<1> HIDE DEF place, of
<1>13. \A i \in DOMAIN w.mentions : ms[i].chunk \in DOMAIN w.chunks
  <2>1. ASSUME NEW i \in DOMAIN w.mentions PROVE ms[i].chunk \in DOMAIN w.chunks
    <3>1. w.mentions[i] \in ToSet(w.mentions)
      BY DEF ToSet
    <3>2. of(w.mentions[i]) \in 1 .. n
      BY <1>3, <1>12, <3>1
    <3>3. place[of(w.mentions[i])] \in 1 .. n
      BY <1>6, <3>2
    <3>4. ms[i].chunk = place[of(w.mentions[i])]
      OBVIOUS
    <3> QED BY <1>3, <3>3, <3>4
  <2> QED BY <2>1
<1>7. \A k \in DOMAIN w.chunks : at(k) \in DOMAIN w.chunks
  BY <1>3, <1>6
<1> HIDE DEF at
<1>8. \A k \in DOMAIN texts : at(k) \in DOMAIN w.chunks /\ texts[k] = w.chunks[at(k)].text /\ IsList(texts[k])
  BY <1>4, <1>7
<1>9. texts = [k \in DOMAIN w.chunks |-> texts[k]] /\ ms = [i \in DOMAIN w.mentions |-> ms[i]]
  OBVIOUS
<1>14. DOMAIN texts = DOMAIN w.chunks /\ DOMAIN ms = DOMAIN w.mentions
  OBVIOUS
<1> HIDE DEF texts, ms
<1>15. \A m \in ToSet(ms) : m.chunk \in DOMAIN texts
  BY <1>13, <1>14 DEF ToSet
<1>10. IsList(texts) /\ IsList(ms)
  BY <1>2, <1>9, MappedList
<1> QED BY <1>1, <1>8, <1>10, <1>15 DEF Readable

-----------------------------------------------------------------------------
(* What the contract and the store refuse. *)

\* Hashes of different values differ.
LEMMA HashesDiffer ==
  \A x, y : sha256Json(x) = sha256Json(y) => x = y
<1>1. \A x, y : <<"sha256", x>> = <<"sha256", y>> => x = y
  <2> TAKE x, y
  <2> HAVE <<"sha256", x>> = <<"sha256", y>>
  <2>1. <<"sha256", x>>[2] = <<"sha256", y>>[2]
    OBVIOUS
  <2> QED BY <2>1
<1>2. \A x, y : <<"json", x>> = <<"json", y>> => x = y
  <2> TAKE x, y
  <2> HAVE <<"json", x>> = <<"json", y>>
  <2>1. <<"json", x>>[2] = <<"json", y>>[2]
    OBVIOUS
  <2> QED BY <2>1
<1> QED BY <1>1, <1>2 DEF sha256Json, sha256Text, canonicalJsonString

\* The faults of a caller that is not the worker of the scope.
CallerFault == {"sourceRole", "otherPrincipal", "otherEnvelope"}
               \cup (IF CompatibilityMode THEN {} ELSE {"relayCredential"})

\* Who may not call is none of the worker of the scope.
LEMMA WorkersCall ==
  ASSUME request \in Request, Accepted(request), WorkerMay
  PROVE  fault \notin CallerFault
<1> DEFINE e == Tier4Envelope
           s == request.batch.scope
<1>1. /\ \A t \in e.scope : t = s
      /\ e.credential = credentials.worker
      /\ e.principal.role = "worker"
      /\ e.principal.scope = s
  BY DEF WorkerMay, Authorized, samePipelineScope
<1>2. "tenantId" \in DOMAIN s /\ s["tenantId"] # "other"
  <2>1. ValidScope(s) /\ s["tenantId"] # "other"
    BY BatchType
  <2> QED BY <2>1 DEF ValidScope, ScopeKeys
<1>3. OtherScope # s
  <2>1. OtherScope["tenantId"] = "other"
    <3>1. OtherScope = [s EXCEPT !["tenantId"] = "other"]
      BY DEF OtherScope
    <3> HIDE DEF s
    <3> QED BY <1>2, <3>1
  <2> QED BY <1>2, <2>1
<1>4. fault = "relayCredential" => CompatibilityMode
  BY <1>1 DEF Tier4Envelope, CompatibilityMode
<1>5. fault # "sourceRole"
  BY <1>1 DEF Tier4Envelope
<1>6. fault # "otherPrincipal"
  BY <1>1, <1>3 DEF Tier4Envelope
<1>7. fault # "otherEnvelope"
  BY <1>1, <1>3 DEF Tier4Envelope
<1> QED BY <1>4, <1>5, <1>6, <1>7 DEF CallerFault

\* Another decision is known by its hash.
LEMMA DecisionsDiffer ==
  ASSUME decision # NoDecision, Tier4Decision(decision) = hashPipelineDecision(decision)
  PROVE  fault # "otherDecision"
BY HashesDiffer DEF Tier4Decision, hashPipelineDecision

\* Other stages are known by their number and their attempts.
LEMMA StagesDiffer ==
  ASSUME request \in Request, Accepted(request),
         sameStageIdentity(request.batch.stages, Tier4Stages)
  PROVE  fault \notin {"stageMissing", "otherAttempt"}
<1> DEFINE s == request.batch.stages
<1>1. IsList(s) /\ Len(s) = 9 /\ \A x \in ToSet(s) : "attempt" \in DOMAIN x /\ x.attempt # "other"
  BY BatchType
<1>2. Len(s) = Len(Tier4Stages) /\ ToSet(s) = ToSet(Tier4Stages)
  BY DEF sameStageIdentity
<1>3. DOMAIN s = 1 .. 9 /\ \A i \in 1 .. 9 : s[i] \in ToSet(s)
  BY <1>1, ListShape
<1>4. fault # "stageMissing"
  <2> SUFFICES ASSUME fault = "stageMissing" PROVE FALSE
    OBVIOUS
  <2>1. Tier4Stages = Tail(s)
    BY DEF Tier4Stages
  <2>2. s \in Seq(ToSet(s))
    BY <1>1 DEF IsList
  <2>3. Len(Tail(s)) = 8
    <3> DEFINE T == ToSet(s)
    <3>1. s \in Seq(T) /\ Len(s) = 9
      BY <1>1, <2>2
    <3> HIDE DEF s, T
    <3>2. s # <<>>
      BY <1>1, ListShape
    <3>3. Len(Tail(s)) = Len(s) - 1
      BY <3>1, <3>2
    <3> QED BY <3>1, <3>3
  <2> QED BY <1>1, <1>2, <2>1, <2>3
<1>5. fault # "otherAttempt"
  <2> SUFFICES ASSUME fault = "otherAttempt" PROVE FALSE
    OBVIOUS
  <2> DEFINE t == [s EXCEPT ![7].attempt = "other"]
  <2>1. Tier4Stages = t
    BY DEF Tier4Stages
  <2>2. 7 \in DOMAIN s /\ "attempt" \in DOMAIN s[7]
    BY <1>1, <1>3
  <2>3. 7 \in DOMAIN t /\ t[7].attempt = "other"
    <3> DEFINE x == [s[7] EXCEPT !.attempt = "other"]
    <3>1. x.attempt = "other"
      BY <2>2
    <3>2. t = [s EXCEPT ![7] = x]
      OBVIOUS
    <3> HIDE DEF s, t, x
    <3>3. DOMAIN t = DOMAIN s /\ t[7] = x
      BY <2>2, <3>2
    <3> QED BY <2>2, <3>1, <3>3
  <2>4. t[7] \in ToSet(t)
    BY <2>3 DEF ToSet
  <2> HIDE DEF t
  <2> QED BY <1>1, <1>2, <2>1, <2>3, <2>4
<1> QED BY <1>4, <1>5

\* The rows of Stage 14 are finite sets, and none of them is no decision.
LEMMA SummariesType ==
  ASSUME NEW d, Countable(d)
  PROVE  Derived(Summaries(d)) /\ NoDecision \notin Summaries(d)
<1> DEFINE f == [e \in d.entities |-> Summary(d, e)]
<1>1. Summaries(d) = {f[e] : e \in d.entities}
  BY DEF Summaries
<1>2. IsFiniteSet(Summaries(d))
  <2> HIDE DEF f
  <2>1. Bounded(d.entities, Cardinality(d.entities))
    BY BoundedFacts DEF Countable
  <2> QED BY <1>1, <2>1, BoundedImage DEF Bounded
<1>3. ASSUME NEW e PROVE IsFiniteSet(Summary(d, e).refs) /\ Summary(d, e) # NoDecision
  <2> DEFINE facts == FactsOf(d, e.id)
             test == [i \in DOMAIN d.facts |-> d.facts[i].subject = e.id \/ d.facts[i].object = e.id]
  <2>1. IsList(facts)
    <3>1. facts = FlattenSeq([i \in DOMAIN d.facts |->
                    IF d.facts[i].subject = e.id \/ d.facts[i].object = e.id THEN <<d.facts[i]>> ELSE <<>>])
      BY DEF FactsOf, Keep, Collect, Each, Only
    <3>2. [i \in DOMAIN d.facts |->
             IF d.facts[i].subject = e.id \/ d.facts[i].object = e.id THEN <<d.facts[i]>> ELSE <<>>]
          = [i \in DOMAIN d.facts |-> IF test[i] THEN <<d.facts[i]>> ELSE <<>>]
      OBVIOUS
    <3>3. IsList(d.facts)
      BY DEF Countable
    <3> DEFINE row == d.facts
    <3> HIDE DEF facts, test, row
    <3>4. IsList(FlattenSeq([i \in DOMAIN row |-> IF test[i] THEN <<row[i]>> ELSE <<>>]))
      BY <3>3, FilteredList DEF row
    <3> QED BY <3>1, <3>2, <3>4 DEF row
  <2> DEFINE g == [x \in ToSet(facts) |-> x.refs]
             first == Keep(d.mentions, LAMBDA m : mentionId(m) \in e.mentions)[1]
             ref == SourceReferences(first.chunk, {mentionId(first)})
  <2>2. IsFiniteSet({x.refs : x \in ToSet(facts)})
    <3>1. Bounded(ToSet(facts), Len(facts))
      BY <2>1, BoundedList
    <3> HIDE DEF g, facts
    <3>2. IsFiniteSet({g[x] : x \in ToSet(facts)})
      BY <3>1, BoundedImage DEF Bounded
    <3> QED BY <3>2 DEF g
  <2>3. Summary(d, e).refs = IF facts = <<>> THEN {ref} ELSE {x.refs : x \in ToSet(facts)}
    BY DEF Summary
  <2>4. "id" \in DOMAIN Summary(d, e) /\ "id" \notin DOMAIN NoDecision
    BY DEF Summary, NoDecision
  <2> HIDE DEF facts, first, ref
  <2>5. IsFiniteSet({ref})
    BY FS_Singleton
  <2> QED BY <2>2, <2>3, <2>4, <2>5
<1>4. \A r \in Summaries(d) : IsFiniteSet(r.refs) /\ r # NoDecision
  BY <1>1, <1>3
<1> QED BY <1>2, <1>4 DEF Derived

\* What the store sees in a graph receipt, in a final receipt, and the gate
\* in what is read back and measured.
GraphFault == {"nodeLost", "edgeLost", "graphNotOk", "graphOfOtherRun", "stageMissing", "otherAttempt", "otherDecision"}
FinalFault == {"finalOfOtherRun", "otherGraphHash", "otherDerivedHash", "noGraphHash", "otherModel",
               "laneMissing", "stillIndexing", "otherMetrics"}
ReadFault == {"finalNotOk", "derivedEdgeLost", "vectorTwice", "citationLost", "laneDown", "laneShort",
              "temporalRefused", "noQueries", "lowRecall", "lowMrr", "badCitation", "leak"}

\* A fault takes away one object, or none.
LEMMA ShortType == \A f : short(f) \in {0, 1} /\ (fault = f => short(f) = 1)
BY DEF short

\* The store refuses a graph receipt with one of its faults: the counts of
\* the builder are those of a graph that lost nothing.
LEMMA GraphRefused ==
  ASSUME request \in Request, Accepted(request), Countable(decision), decision # NoDecision,
         OfDecision(Tier4GraphReadback(decision)),
         Tier4GraphReadback(decision).ok, Tier4GraphReadback(decision).run,
         [k \in {"nodeCount", "edgeCount"} |-> Tier4GraphReadback(decision)[k]] = decision.expected
  PROVE  fault \notin GraphFault
<1> DEFINE r == Tier4GraphReadback(decision)
           e == decision.expected
           nodes == Cardinality(Tier4Nodes(decision, {}))
           edges == Cardinality(Tier4Edges(decision, {}))
<1>1. /\ r.ok = (fault # "graphNotOk") /\ r.run = (fault # "graphOfOtherRun")
      /\ r.stages = Tier4Stages /\ r.decisionHash = Tier4Decision(decision)
      /\ r.nodeCount = nodes - short("nodeLost")
      /\ r.edgeCount = edges - short("edgeLost")
  BY DEF Tier4GraphReadback
<1>2. fault \notin {"stageMissing", "otherAttempt"}
  <2>1. sameStageIdentity(request.batch.stages, Tier4Stages)
    BY <1>1 DEF OfDecision
  <2> QED BY <2>1, StagesDiffer
<1>3. fault # "otherDecision"
  <2>1. Tier4Decision(decision) = hashPipelineDecision(decision)
    BY <1>1 DEF OfDecision
  <2> QED BY <2>1, DecisionsDiffer
<1>4. e.nodeCount = nodes - short("nodeLost") /\ e.edgeCount = edges - short("edgeLost")
  <2> DEFINE c == [k \in {"nodeCount", "edgeCount"} |-> r[k]]
  <2>1. c.nodeCount = r.nodeCount /\ c.edgeCount = r.edgeCount
    OBVIOUS
  <2>2. c = e
    OBVIOUS
  <2> HIDE DEF c, e, r
  <2> QED BY <1>1, <2>1, <2>2
<1>5. nodes \in Nat /\ e.nodeCount \in Nat /\ nodes <= e.nodeCount
  <2>1. IsFiniteSet({}) /\ Cardinality({}) = 0
    BY FS_EmptySet
  <2>2. Bounded(Tier4Nodes(decision, {}), e.nodeCount + 0)
    BY <2>1, NodesBound
  <2>3. e.nodeCount \in Nat
    <3>1. /\ Len(decision.chunks) \in Nat /\ Len(decision.facts) \in Nat /\ Len(decision.held) \in Nat
          /\ Cardinality(decision.entities) \in Nat
      BY ListShape, FS_CardinalityType DEF Countable
    <3>2. e.nodeCount = 2 + Len(decision.chunks) + Cardinality(decision.entities) + Len(decision.facts)
                          + Len(decision.held)
      BY DEF Countable
    <3> HIDE DEF e
    <3> QED BY <3>1, <3>2
  <2> HIDE DEF e
  <2> QED BY <2>2, <2>3 DEF Bounded
<1>6. edges \in Nat /\ e.edgeCount \in Nat /\ edges <= e.edgeCount
  <2>1. Cardinality({}) = 0 /\ Derived({})
    BY FS_EmptySet DEF Derived
  <2> DEFINE Y == UNION {{<<q, x.chunk>> : x \in q.refs} : q \in {}}
  <2>2. Y = {}
    OBVIOUS
  <2>3. Bounded(Tier4Edges(decision, {}), e.edgeCount + Cardinality({}) + Cardinality(Y))
    BY <2>1, EdgesBound
  <2>4. e.edgeCount \in Nat
    <3>1. /\ Len(decision.chunks) \in Nat /\ Len(decision.facts) \in Nat /\ Len(decision.held) \in Nat
          /\ Len(decision.mentions) \in Nat
      BY ListShape DEF Countable
    <3>2. e.edgeCount = 1 + Len(decision.chunks) + Len(decision.mentions) + 2 * Len(decision.facts)
                          + Len(decision.held)
      BY DEF Countable
    <3> DEFINE a == Len(decision.chunks)
               b == Len(decision.mentions)
               c == Len(decision.facts)
               h == Len(decision.held)
    <3>3. e.edgeCount = 1 + a + b + 2 * c + h /\ a \in Nat /\ b \in Nat /\ c \in Nat /\ h \in Nat
      BY <3>1, <3>2
    <3> HIDE DEF e, a, b, c, h
    <3> QED BY <3>3
  <2> HIDE DEF e, Y
  <2> QED BY <2>1, <2>2, <2>3, <2>4 DEF Bounded
<1> HIDE DEF nodes, edges, e
<1>7. fault # "nodeLost"
  BY <1>4, <1>5, ShortType
<1>8. fault # "edgeLost"
  BY <1>4, <1>6, ShortType
<1> QED BY <1>1, <1>2, <1>3, <1>7, <1>8 DEF GraphFault

\* The store refuses a final receipt with one of its faults.
LEMMA FinalRefused ==
  ASSUME Countable(decision), NEW g, g.receipt = decision.expected, g.derived = Summaries(decision),
         ValidReceipt(Tier4Final(decision, g), request.batch.scope), Tier4Final(decision, g).run,
         Tier4Final(decision, g).graphHash = hashPipelineGraphReceipt(g.receipt),
         Tier4Final(decision, g).derivedHash = sha256Json(g.derived),
         Tier4Final(decision, g).metrics[13] = Tier4Metrics
  PROVE  fault \notin FinalFault
<1> DEFINE f == Tier4Final(decision, g)
<1>1. /\ f.run = (fault # "finalOfOtherRun") /\ f.model = (IF fault = "otherModel" THEN "other" ELSE Model)
      /\ f.times = [n \in WorkerStages |-> Tier4Time(n)]
      /\ f.lanes = Tier4Lanes(decision, g.derived)
      /\ f.derivedHash = sha256Json(g.derived \cup {NoDecision : n \in 1 .. short("otherDerivedHash")})
      /\ f.graphHash = CASE fault = "otherGraphHash" -> sha256Json([g.receipt EXCEPT !.nodeCount = @ + 1])
                         [] fault = "noGraphHash" -> <<>>
                         [] OTHER -> hashPipelineGraphReceipt(g.receipt)
  BY DEF Tier4Final
<1>1a. fault # "otherMetrics"
  <2> SUFFICES ASSUME fault = "otherMetrics" PROVE FALSE
    OBVIOUS
  <2>1. f.metrics = [n \in WorkerStages |-> Tier4FinalMetrics(n)] /\ 13 \in WorkerStages
    BY DEF Tier4Final, WorkerStages
  <2>2. Tier4FinalMetrics(13) = [Tier4Metrics EXCEPT !["records_in"] = 1]
    BY DEF Tier4FinalMetrics
  <2>3. Tier4Metrics["records_in"] = 0 /\ "records_in" \in DOMAIN Tier4Metrics
    BY DEF Tier4Metrics, Metrics
  <2> HIDE DEF f
  <2>4. [Tier4Metrics EXCEPT !["records_in"] = 1] = Tier4Metrics
    BY <2>1, <2>2 DEF f
  <2> QED BY <2>3, <2>4
<1> HIDE DEF f
<1>2. /\ f.model = Model /\ DOMAIN f.lanes = Lanes
      /\ f.times[15].finished <= f.times[16].started
  BY DEF ValidReceipt, f
<1>3. fault # "finalOfOtherRun"
  BY <1>1 DEF f
<1>4. fault # "otherModel"
  BY <1>1, <1>2 DEF Model
<1>5. fault # "laneMissing"
  <2> SUFFICES ASSUME fault = "laneMissing" PROVE FALSE
    OBVIOUS
  <2>1. DOMAIN f.lanes = Lanes \ {"sqlite"}
    BY <1>1 DEF Tier4Lanes
  <2>2. "sqlite" \in Lanes
    BY DEF Lanes
  <2> QED BY <1>2, <2>1, <2>2
<1>6. fault # "stillIndexing"
  <2> SUFFICES ASSUME fault = "stillIndexing" PROVE FALSE
    OBVIOUS
  <2>1. f.times[15] = Tier4Time(15) /\ f.times[16] = Tier4Time(16)
    BY <1>1 DEF WorkerStages
  <2>2. Tier4Time(15).finished = 17 /\ Tier4Time(16).started = 16
    BY DEF Tier4Time
  <2> QED BY <1>2, <2>1, <2>2
<1>7. fault # "noGraphHash"
  <2> SUFFICES ASSUME fault = "noGraphHash" PROVE FALSE
    OBVIOUS
  <2>1. f.graphHash = <<>>
    BY <1>1
  <2>2. sha256Json(g.receipt)[1] = "sha256" /\ DOMAIN sha256Json(g.receipt) = 1 .. 2
    BY DEF sha256Json, sha256Text
  <2>3. sha256Json(g.receipt) # <<>>
    BY <2>2
  <2> QED BY <2>1, <2>3 DEF f, hashPipelineGraphReceipt
<1>8. fault # "otherGraphHash"
  <2> SUFFICES ASSUME fault = "otherGraphHash" PROVE FALSE
    OBVIOUS
  <2> DEFINE e == g.receipt
  <2>1. f.graphHash = sha256Json([e EXCEPT !.nodeCount = @ + 1])
    BY <1>1
  <2>2. [e EXCEPT !.nodeCount = @ + 1] = e
    <3>1. sha256Json([e EXCEPT !.nodeCount = @ + 1]) = sha256Json(e)
      BY <2>1 DEF f, hashPipelineGraphReceipt
    <3> HIDE DEF e
    <3> QED BY <3>1, HashesDiffer
  <2>3. e.nodeCount \in Int /\ "nodeCount" \in DOMAIN e
    <3>1. /\ Len(decision.chunks) \in Nat /\ Len(decision.facts) \in Nat /\ Len(decision.held) \in Nat
          /\ Cardinality(decision.entities) \in Nat
      BY ListShape, FS_CardinalityType DEF Countable
    <3>2. e.nodeCount = 2 + Len(decision.chunks) + Cardinality(decision.entities) + Len(decision.facts)
                          + Len(decision.held)
      BY DEF Countable
    <3>3. "nodeCount" \in DOMAIN e
      BY DEF Countable
    <3> HIDE DEF e
    <3> QED BY <3>1, <3>2, <3>3
  <2> HIDE DEF e
  <2>4. [e EXCEPT !.nodeCount = @ + 1].nodeCount = e.nodeCount + 1
    BY <2>3
  <2> QED BY <2>2, <2>3, <2>4
<1>9. fault # "otherDerivedHash"
  <2> SUFFICES ASSUME fault = "otherDerivedHash" PROVE FALSE
    OBVIOUS
  <2> DEFINE S == g.derived
             T == S \cup {NoDecision : n \in 1 .. short("otherDerivedHash")}
  <2>1. NoDecision \in T
    <3>1. 1 \in 1 .. short("otherDerivedHash")
      BY DEF short
    <3> QED BY <3>1
  <2>2. NoDecision \notin S
    BY SummariesType
  <2>3. sha256Json(T) = sha256Json(S)
    BY <1>1 DEF f
  <2>4. T = S
    <3> HIDE DEF T, S
    <3> QED BY <2>3, HashesDiffer
  <2> QED BY <2>1, <2>2, <2>4
<1> QED BY <1>1a, <1>3, <1>4, <1>5, <1>6, <1>7, <1>8, <1>9 DEF FinalFault

\* What passes has no failing dimension and no held row.
LEMMA PassMeans ==
  ASSUME Evaluate(decision).result = "PASS"
  PROVE  /\ GraphReasons(decision) = {} /\ ~ KnowledgeFails(decision) /\ ~ RetrievalFails
         /\ decision.held = <<>>
<1> DEFINE fails == {k \in {"data", "graph", "knowledge", "security", "retrieval"} :
                       \/ k = "data" /\ DataReasons(decision, UNION {g.derived : g \in graph}) # {}
                       \/ k = "graph" /\ GraphReasons(decision) # {}
                       \/ k = "knowledge" /\ KnowledgeFails(decision)
                       \/ k = "security" /\ SecurityFails
                       \/ k = "retrieval" /\ RetrievalFails}
           result == IF fails # {} THEN "FAIL" ELSE IF decision.held # <<>> THEN "WARN" ELSE "PASS"
<1>1. Evaluate(decision).result = result
  BY DEF Evaluate
<1>2. fails = {} /\ decision.held = <<>>
  <2> HIDE DEF fails
  <2> QED BY <1>1
<1>3. "graph" \notin fails /\ "knowledge" \notin fails /\ "retrieval" \notin fails
  BY <1>2
<1> QED BY <1>2, <1>3

\* The lanes that these faults are about.
LEMMA LaneValues ==
  ASSUME NEW d, NEW S
  PROVE  LET lanes == Tier4Lanes(d, S)
         IN /\ fault = "laneDown" => lanes["lexical"].status = "unsupported"
            /\ fault = "laneShort" => lanes["provenance"].objects = Len(d.chunks) - 1
            /\ fault = "temporalRefused" => /\ lanes["bitemporal"].status = "unsupported"
                                            /\ lanes["bitemporal"].reason = "refused"
<1> DEFINE objects(l) == CASE l = "vector" -> IF d.embed THEN Len(d.chunks) ELSE 0
                           [] l = "graph" -> Cardinality(Tier4Edges(d, S))
                           [] l = "sqlite" -> Cardinality(Tier4Nodes(d, S))
                           [] l = "bitemporal" -> Cardinality({i \in DOMAIN d.facts : Dated(d.facts[i])})
                           [] OTHER -> Len(d.chunks)
           lane(l, o) ==
             CASE fault = "laneDown" /\ l = "lexical" -> [status |-> "unsupported", objects |-> 0, reason |-> "down"]
               [] fault = "noTemporalApi" /\ l = "bitemporal" ->
                    [status |-> "unsupported", objects |-> 0, reason |-> "native_temporal_query_api_unavailable"]
               [] fault = "temporalRefused" /\ l = "bitemporal" ->
                    [status |-> "unsupported", objects |-> 0, reason |-> "refused"]
               [] l = "bitemporal" /\ o = 0 /\ fault \notin {"noTemporalApi", "temporalRefused"} ->
                    [status |-> "not_applicable", objects |-> 0, reason |-> ""]
               [] OTHER -> [status |-> "ready", reason |-> "",
                            objects |-> o - (IF fault = "laneShort" /\ l = "provenance" THEN 1 ELSE 0)]
           D == Lanes \ (IF fault = "laneMissing" THEN {"sqlite"} ELSE {})
<1>1. Tier4Lanes(d, S) = [l \in D |-> lane(l, objects(l))]
  BY DEF Tier4Lanes
<1>2. "lexical" \in D /\ "provenance" \in D /\ "bitemporal" \in D
  BY DEF Lanes
<1>3. \A o : fault = "laneDown" => lane("lexical", o).status = "unsupported"
  OBVIOUS
<1>4. \A o : fault = "laneShort" => lane("provenance", o).objects = o - 1
  OBVIOUS
<1>5. \A o : fault = "temporalRefused" => /\ lane("bitemporal", o).status = "unsupported"
                                          /\ lane("bitemporal", o).reason = "refused"
  OBVIOUS
<1>6. objects("provenance") = Len(d.chunks)
  OBVIOUS
<1> HIDE DEF objects, lane, D
<1> QED BY <1>1, <1>2, <1>3, <1>4, <1>5, <1>6

\* What the gate can see of a fault in a final receipt.
OneIf(condition) == IF condition THEN 1 ELSE 0
FinalRow(f, d, S, x) ==
  /\ f.ok = (x # "finalNotOk") /\ f.transaction.frontier = "f1"
  /\ "snapshotId" \in DOMAIN f /\ f.snapshotId = "s1"
  /\ f.edgeCount = Cardinality(Tier4Edges(d, S)) - OneIf(x = "derivedEdgeLost")
  /\ f.vectorCount = (IF d.embed THEN Len(d.chunks) ELSE 0) + OneIf(x = "vectorTwice")
  /\ f.citationCount = Len(d.chunks) - OneIf(x = "citationLost")
  /\ x = "laneDown" => f.lanes["lexical"].status = "unsupported"
  /\ x = "laneShort" => f.lanes["provenance"].objects = Len(d.chunks) - 1
  /\ x = "temporalRefused" => f.lanes["bitemporal"].status = "unsupported" /\ f.lanes["bitemporal"].reason = "refused"
  /\ f.queryCount = 1 - OneIf(x = "noQueries")
  /\ f.recallAt5 = minRecallAt5 - OneIf(x = "lowRecall") /\ f.mrr = minMrr - OneIf(x = "lowMrr")
  /\ f.citation = minCitation - OneIf(x = "badCitation") /\ f.leaks = OneIf(x = "leak")

\* A final receipt shows its fault in its row.
LEMMA FinalShows ==
  ASSUME NEW d, NEW g
  PROVE  FinalRow(Tier4Final(d, g), d, g.derived, fault)
<1> DEFINE f == Tier4Final(d, g)
           S == g.derived
<1>1. \A x : short(x) = OneIf(fault = x)
  BY DEF short, OneIf
<1>2. /\ f.ok = (fault # "finalNotOk") /\ f.transaction = Tier4Transaction
      /\ "snapshotId" \in DOMAIN f /\ f.snapshotId = "s1"
      /\ f.edgeCount = Cardinality(Tier4Edges(d, S)) - short("derivedEdgeLost")
      /\ f.vectorCount = (IF d.embed THEN Len(d.chunks) ELSE 0) + short("vectorTwice")
      /\ f.citationCount = Len(d.chunks) - short("citationLost")
      /\ f.lanes = Tier4Lanes(d, S)
      /\ f.queryCount = 1 - short("noQueries")
      /\ f.recallAt5 = minRecallAt5 - short("lowRecall") /\ f.mrr = minMrr - short("lowMrr")
      /\ f.citation = minCitation - short("badCitation") /\ f.leaks = short("leak")
  BY DEF Tier4Final
<1>3. Tier4Transaction.frontier = "f1"
  BY DEF Tier4Transaction
<1> HIDE DEF f, S
<1>4. FinalRow(f, d, S, fault)
  BY <1>1, <1>2, <1>3, LaneValues DEF FinalRow
<1> QED BY <1>4 DEF f, S

\* The gate fails a run whose projection has one of these faults.
LEMMA PassRefused ==
  ASSUME Countable(decision), NEW g, graph = {g}, g.derived = Summaries(decision),
         NEW f, final = {f}, FinalRow(f, decision, g.derived, fault), Evaluate(decision).result = "PASS"
  PROVE  fault \notin ReadFault /\ decision.held = <<>> /\ decision.embed
<1> DEFINE d == decision
           S == g.derived
           wants == ExpectedReadback(d, S)
           lanes == f.lanes
           expected == ExpectedLanes(d, S)
<1>1. GraphReasons(d) = {} /\ ~ KnowledgeFails(d) /\ ~ RetrievalFails /\ d.held = <<>>
  BY PassMeans
<1>2. d.embed
  BY <1>1 DEF KnowledgeFails
<1>3. UNION {h.derived : h \in graph} = S
  OBVIOUS
<1>4. f.ok /\ (\A k \in DOMAIN wants : f[k] = wants[k]) /\ LaneReasons(d, S, lanes) = {}
  <2> DEFINE T == UNION {h.derived : h \in graph}
             of(x) == (IF ~ x.run THEN {"final identity"} ELSE {})
                \cup (IF ~ x.ok THEN {"final not ok"}
                      ELSE {k \in DOMAIN ExpectedReadback(d, T) : x[k] # ExpectedReadback(d, T)[k]})
                \cup {h \in {"graphHash"} : \A y \in graph : x.graphHash # hashPipelineGraphReceipt(y.receipt)}
                \cup {h \in {"derivedHash"} : \A y \in graph : x.derivedHash # sha256Json(y.derived)}
                \cup LaneReasons(d, T, x.lanes)
  <2>1. (IF final = {} THEN {"final receipt missing"} ELSE UNION {of(x) : x \in final}) \subseteq GraphReasons(d)
    BY DEF GraphReasons
  <2>2. of(f) = {}
    <3> HIDE DEF of
    <3> QED BY <1>1, <2>1
  <2>3. T = S
    BY <1>3
  <2> HIDE DEF T
  <2>4. f.ok
    BY <2>2
  <2>5. {k \in DOMAIN ExpectedReadback(d, T) : f[k] # ExpectedReadback(d, T)[k]} = {}
    BY <2>2, <2>4
  <2>6. LaneReasons(d, T, f.lanes) = {}
    BY <2>2
  <2> HIDE DEF S
  <2> QED BY <2>3, <2>4, <2>5, <2>6
<1>5. /\ f.ok = (fault # "finalNotOk")
      /\ f.edgeCount = Cardinality(Tier4Edges(d, S)) - OneIf(fault = "derivedEdgeLost")
      /\ f.vectorCount = (IF d.embed THEN Len(d.chunks) ELSE 0) + OneIf(fault = "vectorTwice")
      /\ f.citationCount = Len(d.chunks) - OneIf(fault = "citationLost")
      /\ f.queryCount = 1 - OneIf(fault = "noQueries")
      /\ f.recallAt5 = minRecallAt5 - OneIf(fault = "lowRecall") /\ f.mrr = minMrr - OneIf(fault = "lowMrr")
      /\ f.citation = minCitation - OneIf(fault = "badCitation") /\ f.leaks = OneIf(fault = "leak")
  BY DEF FinalRow
<1>6. /\ f.edgeCount = wants.edgeCount /\ f.vectorCount = wants.vectorCount
      /\ f.citationCount = wants.citationCount
  BY <1>4 DEF ExpectedReadback
<1>7. /\ wants.vectorCount = Len(d.chunks) /\ wants.citationCount = Len(d.chunks) /\ Len(d.chunks) \in Nat
      /\ wants.edgeCount = d.expected.edgeCount + Cardinality(S)
                           + Cardinality(UNION {{<<r, x.chunk>> : x \in r.refs} : r \in S})
  <2>1. Len(d.chunks) \in Nat
    BY ListShape DEF Countable
  <2> QED BY <1>2, <2>1 DEF ExpectedReadback
<1>8. Cardinality(Tier4Edges(d, S)) \in Nat /\ wants.edgeCount \in Nat
      /\ Cardinality(Tier4Edges(d, S)) <= wants.edgeCount
  <2>1. Derived(S)
    BY SummariesType
  <2> HIDE DEF S, wants
  <2>2. Bounded(Tier4Edges(d, S), wants.edgeCount)
    BY <1>7, <2>1, EdgesBound
  <2> QED BY <2>2 DEF Bounded
<1> HIDE DEF wants
<1>9. fault # "finalNotOk"
  BY <1>4, <1>5
<1>10. fault # "derivedEdgeLost"
  <2> HIDE DEF S
  <2> QED BY <1>5, <1>6, <1>8 DEF OneIf
<1>11. fault # "vectorTwice" /\ fault # "citationLost"
  <2> DEFINE n == Len(d.chunks)
  <2>1. n \in Nat
    BY <1>7
  <2>2. n = n + OneIf(fault = "vectorTwice")
    BY <1>2, <1>5, <1>6, <1>7
  <2>3. n = n - OneIf(fault = "citationLost")
    BY <1>5, <1>6, <1>7
  <2> HIDE DEF n
  <2> QED BY <2>1, <2>2, <2>3 DEF OneIf
<1>13. fault \notin {"noQueries", "lowRecall", "lowMrr", "badCitation", "leak"}
  <2>1. /\ ~ (f.queryCount <= 0) /\ ~ (f.recallAt5 < minRecallAt5) /\ ~ (f.mrr < minMrr)
        /\ f.citation = minCitation /\ f.leaks = maxLeaks
    BY <1>1 DEF RetrievalFails
  <2> QED BY <1>5, <2>1 DEF OneIf, minRecallAt5, minMrr, minCitation, maxLeaks
<1>14. \A l \in Lanes :
         \/ l = "bitemporal" /\ (lanes[l].status = "not_applicable"
                                 \/ lanes[l].reason \in OptionalTemporalUnsupported)
         \/ lanes[l].status = "ready" /\ lanes[l].objects = expected[l]
  BY <1>4 DEF LaneReasons
<1>15. fault # "laneDown"
  <2> SUFFICES ASSUME fault = "laneDown" PROVE FALSE
    OBVIOUS
  <2>1. lanes["lexical"].status = "unsupported"
    BY DEF FinalRow
  <2> HIDE DEF lanes, expected
  <2> QED BY <1>14, <2>1 DEF Lanes
<1>16. fault # "laneShort"
  <2> SUFFICES ASSUME fault = "laneShort" PROVE FALSE
    OBVIOUS
  <2>1. lanes["provenance"].objects = Len(d.chunks) - 1
    BY DEF FinalRow
  <2>2. expected["provenance"] = Len(d.chunks)
    BY DEF ExpectedLanes
  <2> HIDE DEF lanes, expected
  <2> QED BY <1>7, <1>14, <2>1, <2>2 DEF Lanes
<1>17. fault # "temporalRefused"
  <2> SUFFICES ASSUME fault = "temporalRefused" PROVE FALSE
    OBVIOUS
  <2>1. lanes["bitemporal"].status = "unsupported" /\ lanes["bitemporal"].reason = "refused"
    BY DEF FinalRow
  <2> HIDE DEF lanes, expected
  <2> QED BY <1>14, <2>1 DEF Lanes, OptionalTemporalUnsupported
<1> QED BY <1>1, <1>2, <1>9, <1>10, <1>11, <1>13, <1>15, <1>16, <1>17 DEF ReadFault

-----------------------------------------------------------------------------
(* The run. *)

\* What the store sees in a call to publish.
PublishFault == {"publishesOtherReceipt", "publishesOtherSnapshot", "publishesOtherFrontier",
                 "publishedNever", "publicationNotOk"}

\* Where a run has got to says what is not there yet.
StageInv ==
  /\ stage \in {"idle", "refused", "submitted", "loaded", "indexed", "judged", "published"}
  /\ stage \in {"idle", "refused"} => decision = NoDecision /\ ~ claimed /\ failed = {}
  /\ stage \in {"idle", "refused", "submitted"} => graph = {}
  /\ stage \in {"idle", "refused", "submitted", "loaded"} => final = {}
  /\ stage \notin {"judged", "published"} => verdict = {}
  /\ stage # "published" => published = {}

\* A decision is that of the accepted request.
DecisionInv ==
  stage \notin {"idle", "refused"} =>
    /\ Accepted(request) /\ batch = Sorted(request.batch)
    /\ \E v \in Version : decision = Decision(batch, v)

\* At most one graph receipt is stored, with the counts of the decision and
\* its summaries.
GraphInv ==
  graph # {} => /\ fault \notin GraphFault
                /\ \E g \in graph : /\ graph = {g} /\ g.receipt = decision.expected
                                    /\ g.derived = Summaries(decision) /\ g.metrics = Tier4Metrics

\* And at most one final receipt, on that graph.
FinalInv ==
  final # {} => /\ fault \notin FinalFault /\ graph # {}
                /\ \E f \in final : final = {f} /\ FinalRow(f, decision, Summaries(decision), fault)

\* A PASS is of such receipts, and is the only verdict that publishes.
VerdictInv ==
  \A v \in verdict :
    /\ v.result = "PASS" => /\ graph # {} /\ final # {} /\ failed = {} /\ fault \notin ReadFault
                            /\ decision.held = <<>> /\ batch.embed
    /\ v.allowPublication => batch.publish

\* What is published was passed, and without a fault.
PublishedInv ==
  published # {} => /\ fault \notin PublishFault /\ batch.publish
                    /\ \E v \in verdict : v.result = "PASS"

\* Only a stage of Tier 4 that has not succeeded is recorded as failed.
FailedInv == failed \subseteq {13, 15, 16} \ Succeeded

\* The inductive invariant of a run.
GateInv ==
  /\ request \in Request /\ fault \in FaultOn[request]
  /\ StageInv /\ DecisionInv /\ GraphInv /\ FinalInv /\ VerdictInv /\ PublishedInv /\ FailedInv
  /\ ReceiptsComeFromTheWorker

\* Once a run is submitted its decision is countable and of a readable batch.
LEMMA DecidedType ==
  ASSUME request \in Request, DecisionInv, stage \notin {"idle", "refused"}
  PROVE  /\ Accepted(request) /\ Readable(batch)
         /\ Countable(decision) /\ decision # NoDecision
         /\ decision.embed = batch.embed /\ decision.publish = batch.publish /\ decision.chunks = batch.chunks
<1>1. Accepted(request) /\ batch = Sorted(request.batch)
  BY DEF DecisionInv
<1>2. PICK v \in Version : decision = Decision(batch, v)
  BY DEF DecisionInv
<1>3. Readable(batch)
  BY <1>1, SortedType
<1> QED BY <1>1, <1>2, <1>3, DecisionType

\* A run starts with the invariant.
LEMMA GateInit == Init => GateInv
<1> SUFFICES ASSUME Init PROVE GateInv
  OBVIOUS
<1> USE DEF Init
<1>1. StageInv
  BY DEF StageInv
<1>2. DecisionInv /\ GraphInv /\ FinalInv /\ VerdictInv /\ PublishedInv /\ FailedInv
  BY DEF DecisionInv, GraphInv, FinalInv, VerdictInv, PublishedInv, FailedInv
<1>3. ReceiptsComeFromTheWorker
  BY DEF ReceiptsComeFromTheWorker
<1> QED BY <1>1, <1>2, <1>3 DEF GateInv

\* A submission, accepted and decided, keeps the invariant.
LEMMA SubmitKeeps == ASSUME GateInv, Submit PROVE GateInv'
<1> USE DEF Submit
<1>1. /\ graph = {} /\ final = {} /\ verdict = {} /\ published = {} /\ failed = {} /\ ~ claimed
  BY DEF GateInv, StageInv
<1>2. request' \in Request /\ fault' \in FaultOn[request']
  BY DEF GateInv
<1>3. StageInv'
  BY <1>1 DEF StageInv
<1>4. DecisionInv'
  BY DEF DecisionInv
<1>5. GraphInv' /\ FinalInv' /\ VerdictInv' /\ PublishedInv' /\ FailedInv'
  BY <1>1 DEF GraphInv, FinalInv, VerdictInv, PublishedInv, FailedInv
<1>6. ReceiptsComeFromTheWorker'
  BY <1>1 DEF ReceiptsComeFromTheWorker
<1> QED BY <1>2, <1>3, <1>4, <1>5, <1>6 DEF GateInv

\* So does a refused one.
LEMMA RefuseKeeps == ASSUME GateInv, Refuse PROVE GateInv'
<1> USE DEF Refuse
<1>1. request' \in Request /\ fault' \in FaultOn[request']
  BY DEF GateInv
<1>2. StageInv' /\ DecisionInv'
  BY DEF GateInv, StageInv, DecisionInv
<1>3. GraphInv' /\ FinalInv' /\ VerdictInv' /\ PublishedInv' /\ FailedInv'
  BY DEF GateInv, GraphInv, FinalInv, VerdictInv, PublishedInv, FailedInv, Succeeded
<1>4. ReceiptsComeFromTheWorker'
  BY DEF GateInv, ReceiptsComeFromTheWorker
<1> QED BY <1>1, <1>2, <1>3, <1>4 DEF GateInv

\* So does a claim, by the worker or refused.
LEMMA ClaimKeeps == ASSUME GateInv, Claim PROVE GateInv'
<1> USE DEF Claim
<1>1. request \in Request /\ Accepted(request) /\ request' \in Request /\ fault' \in FaultOn[request']
  BY DEF GateInv, DecisionInv
<1>2. StageInv' /\ DecisionInv'
  BY DEF GateInv, StageInv, DecisionInv
<1>3. GraphInv' /\ FinalInv' /\ VerdictInv' /\ PublishedInv' /\ FailedInv'
  BY DEF GateInv, GraphInv, FinalInv, VerdictInv, PublishedInv, FailedInv, Succeeded
<1>4. ReceiptsComeFromTheWorker'
  <2>1. ReceiptsComeFromTheWorker
    BY DEF GateInv
  <2>2. WorkerMay => fault \notin CallerFault
    BY <1>1, WorkersCall
  <2> QED BY <2>1, <2>2 DEF ReceiptsComeFromTheWorker, CallerFault
<1> QED BY <1>1, <1>2, <1>3, <1>4 DEF GateInv

\* So does a stage that Tier 4 reports as failed.
LEMMA FailStageKeeps == ASSUME GateInv, NEW n \in {13, 14, 15, 16}, FailStage(n) PROVE GateInv'
<1> DEFINE f == Tier4Failure(decision, n)
           taken == ValidStageFailure(f, request.batch.scope) /\ WorkerMay /\ AcceptsFailure(f)
<1>1. /\ stage \in {"submitted", "loaded", "indexed"} /\ failed = {}
      /\ failed' = IF taken THEN {n} ELSE {}
      /\ UNCHANGED <<stage, request, fault, batch, decision, claimed, graph, final, verdict, published>>
  BY DEF FailStage
<1>2. request \in Request /\ Accepted(request) /\ decision # NoDecision
      /\ request' \in Request /\ fault' \in FaultOn[request']
  BY <1>1, DecidedType DEF GateInv
<1>3. verdict = {} /\ published = {}
  BY <1>1 DEF GateInv, StageInv
<1>4. StageInv' /\ DecisionInv'
  BY <1>1 DEF GateInv, StageInv, DecisionInv
<1>5. GraphInv' /\ FinalInv' /\ VerdictInv' /\ PublishedInv'
  BY <1>1, <1>3 DEF GateInv, GraphInv, FinalInv, VerdictInv, PublishedInv
<1>6. taken => n \in {13, 15, 16} \ Succeeded
  <2> SUFFICES ASSUME taken PROVE n \in {13, 15, 16} \ Succeeded
    OBVIOUS
  <2>1. f.stage.number \in {13, 15, 16} \ Succeeded
    BY DEF ValidStageFailure, AcceptsFailure, WorkerStages
  <2>2. f.stage = [StageOf(n) EXCEPT !.attempt = IF fault = "failsOtherAttempt" THEN "other" ELSE @]
    BY DEF Tier4Failure
  <2>3. StageOf(n).number = n
    <3>1. \E s \in ToSet(request.batch.stages) : s.number = n
      <4>1. ValidStages(request.batch.stages, request.batch.runId, TRUE)
        BY <1>2 DEF Accepted, ValidBatch
      <4>2. IsList(request.batch.stages) /\ Len(request.batch.stages) = 9
        BY <1>2, BatchType
      <4>3. DOMAIN request.batch.stages = 1 .. 9 /\ \A i \in 1 .. 9 : request.batch.stages[i] \in ToSet(request.batch.stages)
        BY <4>2, ListShape
      <4>4. \A i \in 1 .. 9 : request.batch.stages[i].number = StageCatalog[i]
        BY <4>1, <4>3 DEF ValidStages
      <4>5. \E i \in 1 .. 9 : StageCatalog[i] = n
        <5>1. StageCatalog[5] = 13 /\ StageCatalog[6] = 14 /\ StageCatalog[7] = 15 /\ StageCatalog[8] = 16
          BY DEF StageCatalog
        <5> QED BY <5>1
      <4> QED BY <4>3, <4>4, <4>5
    <3> QED BY <3>1 DEF StageOf
  <2>4. f.stage.number = StageOf(n).number
    <3> DEFINE s == StageOf(n)
    <3> HIDE DEF s, f
    <3>1. f.stage = [s EXCEPT !.attempt = IF fault = "failsOtherAttempt" THEN "other" ELSE @]
      BY <2>2 DEF s
    <3>2. "number" # "attempt"
      OBVIOUS
    <3>3. [s EXCEPT !.attempt = IF fault = "failsOtherAttempt" THEN "other" ELSE @].number = s.number
      OBVIOUS
    <3> QED BY <3>1, <3>3 DEF s
  <2> QED BY <2>1, <2>3, <2>4
<1>7. FailedInv'
  BY <1>1, <1>6 DEF FailedInv, Succeeded
<1>8. ReceiptsComeFromTheWorker'
  <2>1. ReceiptsComeFromTheWorker
    BY DEF GateInv
  <2>2. taken => fault \notin CallerFault
    BY <1>2, WorkersCall
  <2>3. taken => fault # "otherDecision"
    <3> SUFFICES ASSUME taken PROVE fault # "otherDecision"
      OBVIOUS
    <3>1. f.decisionHash = Tier4Decision(decision)
      BY DEF Tier4Failure
    <3>2. Tier4Decision(decision) = hashPipelineDecision(decision)
      BY <3>1 DEF AcceptsFailure
    <3> QED BY <1>2, <3>2, DecisionsDiffer
  <2> HIDE DEF taken
  <2> QED BY <1>1, <2>1, <2>2, <2>3 DEF ReceiptsComeFromTheWorker, CallerFault
<1> QED BY <1>2, <1>4, <1>5, <1>7, <1>8 DEF GateInv

\* So does a graph receipt: stored, it has the counts of the decision.
LEMMA LoadGraphKeeps == ASSUME GateInv, LoadGraph PROVE GateInv'
<1> DEFINE r == Tier4GraphReadback(decision)
           counts == [k \in {"nodeCount", "edgeCount"} |-> r[k]]
           row == [ok |-> TRUE, run |-> TRUE, readback |-> counts, time |-> r.time, metrics |-> r.metrics,
                   receipt |-> counts, derived |-> Summaries(decision)]
           taken == /\ WorkerMay /\ ValidGraphReceipt(r, request.batch.scope)
                    /\ failed = {} /\ OfDecision(r) /\ r.ok /\ r.run /\ counts = decision.expected
<1>1. /\ stage = "submitted" /\ stage' = "loaded" /\ graph' = IF taken THEN {row} ELSE {}
      /\ UNCHANGED <<request, fault, batch, decision, claimed, failed, final, verdict, published>>
  BY DEF LoadGraph
<1>2. /\ request \in Request /\ Accepted(request) /\ Countable(decision) /\ decision # NoDecision
      /\ request' \in Request /\ fault' \in FaultOn[request']
  BY <1>1, DecidedType DEF GateInv
<1>3. graph = {} /\ final = {} /\ verdict = {} /\ published = {}
  BY <1>1 DEF GateInv, StageInv
<1>4. taken => fault \notin GraphFault
  BY <1>2, GraphRefused
<1>5. taken => fault \notin CallerFault
  BY <1>2, WorkersCall
<1>6. taken => /\ row.receipt = decision.expected /\ row.derived = Summaries(decision)
               /\ row.metrics = Tier4Metrics
  <2>1. r.metrics = Tier4Metrics
    BY DEF Tier4GraphReadback
  <2> QED BY <2>1
<1>7. taken => failed = {}
  OBVIOUS
<1> HIDE DEF taken, row
<1>8. StageInv' /\ DecisionInv'
  BY <1>1, <1>3 DEF GateInv, StageInv, DecisionInv
<1>9. GraphInv'
  BY <1>1, <1>4, <1>6 DEF GraphInv
<1>10. FinalInv' /\ VerdictInv' /\ PublishedInv'
  BY <1>1, <1>3 DEF FinalInv, VerdictInv, PublishedInv
<1>11. FailedInv'
  BY <1>1, <1>3, <1>7 DEF GateInv, FailedInv, Succeeded
<1>12. ReceiptsComeFromTheWorker'
  <2>1. ReceiptsComeFromTheWorker
    BY DEF GateInv
  <2>2. taken => fault # "otherDecision"
    BY <1>4 DEF GraphFault
  <2> QED BY <1>1, <1>3, <1>5, <2>1, <2>2 DEF ReceiptsComeFromTheWorker, CallerFault
<1> QED BY <1>2, <1>8, <1>9, <1>10, <1>11, <1>12 DEF GateInv

\* So does a final receipt: stored, it is on the stored graph.
LEMMA IndexKeeps == ASSUME GateInv, Index PROVE GateInv'
<1> DEFINE Taken(f) == /\ WorkerMay /\ ValidReceipt(f, request.batch.scope) /\ f.run
                       /\ failed = {} /\ OfDecision(f)
                       /\ \A g \in graph : /\ f.graphHash = hashPipelineGraphReceipt(g.receipt)
                                           /\ f.derivedHash = sha256Json(g.derived)
                                           /\ f.times[13] = g.time /\ f.metrics[13] = g.metrics
<1>1. /\ stage = "loaded" /\ stage' = "indexed"
      /\ final' = {f \in {Tier4Final(decision, g) : g \in graph} : Taken(f)}
      /\ UNCHANGED <<request, fault, batch, decision, claimed, failed, graph, verdict, published>>
  BY DEF Index
<1>2. /\ request \in Request /\ Accepted(request) /\ Countable(decision)
      /\ request' \in Request /\ fault' \in FaultOn[request']
  BY <1>1, DecidedType DEF GateInv
<1>3. final = {} /\ verdict = {} /\ published = {}
  BY <1>1 DEF GateInv, StageInv
<1>4. ASSUME final' # {}
      PROVE  /\ fault \notin FinalFault /\ graph # {} /\ failed = {}
             /\ \E f \in final' : final' = {f} /\ FinalRow(f, decision, Summaries(decision), fault)
  <2>1. PICK g \in graph : /\ graph = {g} /\ g.receipt = decision.expected
                           /\ g.derived = Summaries(decision) /\ g.metrics = Tier4Metrics
    BY <1>1, <1>4 DEF GateInv, GraphInv
  <2> DEFINE f == Tier4Final(decision, g)
  <2>2. final' = {f} /\ Taken(f)
    <3> HIDE DEF Taken
    <3> QED BY <1>1, <1>4, <2>1
  <2>3. fault \notin FinalFault
    BY <1>2, <2>1, <2>2, FinalRefused
  <2>4. FinalRow(f, decision, Summaries(decision), fault)
    BY <2>1, FinalShows
  <2>5. failed = {}
    BY <2>2
  <2> HIDE DEF f, Taken
  <2> QED BY <2>1, <2>2, <2>3, <2>4, <2>5
<1> HIDE DEF Taken
<1>5. StageInv' /\ DecisionInv'
  BY <1>1, <1>3 DEF GateInv, StageInv, DecisionInv
<1>6. GraphInv' /\ VerdictInv' /\ PublishedInv'
  BY <1>1, <1>3 DEF GateInv, GraphInv, VerdictInv, PublishedInv
<1>7. FinalInv'
  <2> SUFFICES ASSUME final' # {}
               PROVE  /\ fault' \notin FinalFault /\ graph' # {}
                      /\ \E f \in final' : final' = {f} /\ FinalRow(f, decision', Summaries(decision'), fault')
    BY DEF FinalInv
  <2>1. PICK f \in final' : final' = {f} /\ FinalRow(f, decision, Summaries(decision), fault)
    BY <1>4
  <2>2. fault' = fault /\ graph' = graph /\ decision' = decision
    BY <1>1
  <2>3. fault' \notin FinalFault /\ graph' # {}
    BY <1>4, <2>2
  <2>4. FinalRow(f, decision', Summaries(decision'), fault')
    BY <2>1, <2>2
  <2> QED BY <2>1, <2>3, <2>4
<1>8. FailedInv'
  BY <1>1, <1>3, <1>4 DEF GateInv, FailedInv, Succeeded
<1>9. ReceiptsComeFromTheWorker'
  <2>1. ReceiptsComeFromTheWorker
    BY DEF GateInv
  <2> QED BY <1>1, <1>3, <1>4, <2>1 DEF ReceiptsComeFromTheWorker
<1> QED BY <1>2, <1>5, <1>6, <1>7, <1>8, <1>9 DEF GateInv

\* So does the verdict: a PASS is of receipts without a fault.
LEMMA GateKeeps == ASSUME GateInv, Gate PROVE GateInv'
<1> DEFINE r == Tier4GateRequest(decision)
           e == Evaluate(decision)
           Taken == /\ ValidGateRequest(r) /\ WorkerMay /\ r.decisionHash = hashPipelineDecision(decision)
                    /\ (failed = {} \/ e.result # "PASS")
<1>1. /\ stage \in {"submitted", "loaded", "indexed"} /\ stage' = "judged"
      /\ verdict' = {v \in {e} : Taken}
      /\ UNCHANGED <<request, fault, batch, decision, claimed, failed, graph, final, published>>
  BY DEF Gate
<1>2. /\ request \in Request /\ Accepted(request) /\ Countable(decision) /\ decision # NoDecision
      /\ decision.embed = batch.embed /\ decision.publish = batch.publish
      /\ request' \in Request /\ fault' \in FaultOn[request']
  BY <1>1, DecidedType DEF GateInv
<1>3. published = {}
  BY <1>1 DEF GateInv, StageInv
<1>4. Taken => fault \notin CallerFault /\ fault # "otherDecision"
  <2> SUFFICES ASSUME Taken PROVE fault \notin CallerFault /\ fault # "otherDecision"
    OBVIOUS
  <2>1. fault \notin CallerFault
    BY <1>2, WorkersCall
  <2>2. Tier4Decision(decision) = hashPipelineDecision(decision)
    BY DEF Tier4GateRequest
  <2> QED BY <1>2, <2>1, <2>2, DecisionsDiffer
<1>5. e.allowPublication => decision.publish
  BY DEF Evaluate
<1>6. ASSUME e.result = "PASS", Taken
      PROVE  /\ graph # {} /\ final # {} /\ failed = {} /\ fault \notin ReadFault
             /\ decision.held = <<>> /\ decision.embed
  <2>1. GraphReasons(decision) = {}
    BY <1>6, PassMeans
  <2>2. graph # {} /\ final # {}
    <3>1. graph = {} => "graph receipt missing" \in GraphReasons(decision)
      BY DEF GraphReasons
    <3>2. final = {} => "final receipt missing" \in GraphReasons(decision)
      BY DEF GraphReasons
    <3> QED BY <2>1, <3>1, <3>2
  <2>3. failed = {}
    BY <1>6
  <2>4. PICK g \in graph : graph = {g} /\ g.receipt = decision.expected /\ g.derived = Summaries(decision)
    BY <2>2 DEF GateInv, GraphInv
  <2>5. PICK f \in final : final = {f} /\ FinalRow(f, decision, Summaries(decision), fault)
    BY <2>2 DEF GateInv, FinalInv
  <2>6. fault \notin ReadFault /\ decision.held = <<>> /\ decision.embed
    BY <1>2, <1>6, <2>4, <2>5, PassRefused
  <2> QED BY <2>2, <2>3, <2>6
<1> HIDE DEF Taken, e
<1>7. StageInv' /\ DecisionInv'
  BY <1>1, <1>3 DEF GateInv, StageInv, DecisionInv
<1>8. GraphInv' /\ FinalInv' /\ PublishedInv' /\ FailedInv'
  BY <1>1, <1>3 DEF GateInv, GraphInv, FinalInv, PublishedInv, FailedInv, Succeeded
<1>9. VerdictInv'
  BY <1>1, <1>2, <1>5, <1>6 DEF VerdictInv
<1>10. ReceiptsComeFromTheWorker'
  <2>1. ReceiptsComeFromTheWorker
    BY DEF GateInv
  <2> QED BY <1>1, <1>3, <1>4, <2>1 DEF ReceiptsComeFromTheWorker, CallerFault
<1> QED BY <1>2, <1>7, <1>8, <1>9, <1>10 DEF GateInv

\* So does a publication: only what was passed is published.
LEMMA PublishKeeps == ASSUME GateInv, Publish PROVE GateInv'
<1>1. /\ stage = "judged" /\ stage' = "published"
      /\ published' = {Tier4Publication(decision, f) :
                         f \in {g \in final : Publishes(Tier4Publication(decision, g), g)}}
      /\ UNCHANGED <<request, fault, batch, decision, claimed, failed, graph, final, verdict>>
  BY DEF Publish
<1>2. request' \in Request /\ fault' \in FaultOn[request']
  BY <1>1 DEF GateInv
<1>3. published = {}
  BY <1>1 DEF GateInv, StageInv
<1>4. ASSUME published' # {}
      PROVE  fault \notin PublishFault /\ batch.publish /\ \E v \in verdict : v.result = "PASS"
  <2>1. PICK f \in final : Publishes(Tier4Publication(decision, f), f)
    BY <1>1, <1>4
  <2>2. "snapshotId" \in DOMAIN f /\ f.snapshotId = "s1" /\ f.transaction.frontier = "f1"
    BY <2>1 DEF GateInv, FinalInv, FinalRow
  <2>3. PICK v \in verdict : v.result = "PASS" /\ v.allowPublication
    BY <2>1 DEF Publishes
  <2>4. batch.publish
    BY <2>3 DEF GateInv, VerdictInv
  <2> DEFINE p == Tier4Publication(decision, f)
  <2>5. /\ p.publishedAt > 0 /\ p.ok /\ p.receiptHash = sha256Json(f)
        /\ p.snapshotId = f.snapshotId /\ p.frontier = f.transaction.frontier
    BY <2>1 DEF Publishes, ValidPublication, hashPipelineReceipt
  <2>6. /\ p.publishedAt = 18 * (1 - short("publishedNever")) /\ p.ok = (fault # "publicationNotOk")
        /\ p.receiptHash = sha256Json(IF fault = "publishesOtherReceipt" THEN [f EXCEPT !.snapshotId = "s0"] ELSE f)
        /\ p.snapshotId = (IF fault = "publishesOtherSnapshot" THEN "s0" ELSE "s1")
        /\ p.frontier = (IF fault = "publishesOtherFrontier" THEN "f0" ELSE "f1")
    BY DEF Tier4Publication
  <2> HIDE DEF p
  <2>7. fault # "publishedNever"
    BY <2>5, <2>6 DEF short
  <2>8. fault \notin {"publicationNotOk", "publishesOtherSnapshot", "publishesOtherFrontier"}
    BY <2>2, <2>5, <2>6
  <2>9. fault # "publishesOtherReceipt"
    <3> SUFFICES ASSUME fault = "publishesOtherReceipt" PROVE FALSE
      OBVIOUS
    <3>1. [f EXCEPT !.snapshotId = "s0"] = f
      BY <2>5, <2>6, HashesDiffer
    <3>2. [f EXCEPT !.snapshotId = "s0"].snapshotId = "s0"
      BY <2>2
    <3> QED BY <2>2, <3>1, <3>2
  <2> QED BY <2>3, <2>4, <2>7, <2>8, <2>9 DEF PublishFault
<1>5. StageInv' /\ DecisionInv'
  BY <1>1 DEF GateInv, StageInv, DecisionInv
<1>6. GraphInv' /\ FinalInv' /\ VerdictInv' /\ FailedInv'
  BY <1>1 DEF GateInv, GraphInv, FinalInv, VerdictInv, FailedInv, Succeeded
<1>7. PublishedInv'
  BY <1>1, <1>4 DEF PublishedInv
<1>8. ReceiptsComeFromTheWorker'
  <2>1. ReceiptsComeFromTheWorker
    BY DEF GateInv
  <2> QED BY <1>1, <1>3, <1>4, <2>1 DEF ReceiptsComeFromTheWorker
<1> QED BY <1>2, <1>5, <1>6, <1>7, <1>8 DEF GateInv

\* GateInv holds of every state of the run: what is stored is of the
\* accepted request, its decision and its worker.
THEOREM GateInvariant == Spec => []GateInv
<1>1. Init => GateInv
  BY GateInit
<1>2. GateInv /\ [Next]_vars => GateInv'
  <2> SUFFICES ASSUME GateInv, [Next]_vars PROVE GateInv'
    OBVIOUS
  <2>1. CASE Submit
    BY <2>1, SubmitKeeps
  <2>2. CASE Refuse
    BY <2>2, RefuseKeeps
  <2>3. CASE Claim
    BY <2>3, ClaimKeeps
  <2>4. ASSUME NEW n \in {13, 14, 15, 16}, FailStage(n) PROVE GateInv'
    BY <2>4, FailStageKeeps
  <2>5. CASE LoadGraph
    BY <2>5, LoadGraphKeeps
  <2>6. CASE Index
    BY <2>6, IndexKeeps
  <2>7. CASE Gate
    BY <2>7, GateKeeps
  <2>8. CASE Publish
    BY <2>8, PublishKeeps
  <2>9. CASE UNCHANGED vars
    BY <2>9 DEF vars, GateInv, StageInv, DecisionInv, GraphInv, FinalInv, VerdictInv, PublishedInv,
                FailedInv, Succeeded, ReceiptsComeFromTheWorker
  <2> QED BY <2>1, <2>2, <2>3, <2>4, <2>5, <2>6, <2>7, <2>8, <2>9 DEF Next
<1> QED BY <1>1, <1>2, PTL DEF Spec

\* Nothing is given to or stored for a caller that is not the worker of the
\* scope, or, where the credentials are split, does not hold the worker's; and
\* nothing is stored that quotes another decision.
THEOREM ReceiptsOfTheWorker == Spec => []ReceiptsComeFromTheWorker
<1>1. GateInv => ReceiptsComeFromTheWorker
  BY DEF GateInv
<1> QED BY <1>1, GateInvariant, PTL

\* PASS is earned, and nothing is published that did not pass.
THEOREM EveryPassIsEarned == Spec => []PassIsEarned
<1>1. GateInv => PassIsEarned
  <2> SUFFICES ASSUME GateInv PROVE PassIsEarned
    OBVIOUS
  <2> DEFINE later == {"claimsTwo", "fails", "failsOtherAttempt", "failureUnexplained", "publishesOtherReceipt",
                       "publishesOtherSnapshot", "publishesOtherFrontier", "publishedNever", "publicationNotOk"}
             harmless == {"none", "noTemporalApi", "claimsTwo", "fails", "failsOtherAttempt", "failureUnexplained"}
                         \cup (IF CompatibilityMode THEN {"relayCredential"} ELSE {})
  <2>1. fault \in Fault
    BY FaultAssumption DEF GateInv
  <2>2. ASSUME NEW v \in verdict, v.result = "PASS"
        PROVE  /\ graph # {} /\ final # {} /\ failed = {} /\ fault \in harmless \cup later
               /\ decision.held = <<>> /\ batch.embed
    <3>1. /\ graph # {} /\ final # {} /\ failed = {} /\ fault \notin ReadFault
          /\ decision.held = <<>> /\ batch.embed
      BY <2>2 DEF GateInv, VerdictInv
    <3>2. fault \notin GraphFault /\ fault \notin FinalFault
      BY <3>1 DEF GateInv, GraphInv, FinalInv
    <3>3. fault \notin CallerFault
      <4>1. ReceiptsComeFromTheWorker /\ graph # {}
        BY <3>1 DEF GateInv
      <4>2. /\ fault \notin {"sourceRole", "otherPrincipal", "otherEnvelope"}
            /\ fault = "relayCredential" => CompatibilityMode
        BY <4>1 DEF ReceiptsComeFromTheWorker
      <4> QED BY <4>2 DEF CallerFault
    <3>4. fault \notin {"otherDecision"}
      <4>1. ReceiptsComeFromTheWorker /\ graph # {}
        BY <3>1 DEF GateInv
      <4> QED BY <4>1 DEF ReceiptsComeFromTheWorker
    <3> QED BY <2>1, <3>1, <3>2, <3>3, <3>4 DEF Fault, GraphFault, FinalFault, ReadFault, CallerFault
  <2>3. failed \subseteq {13, 15, 16} \ Succeeded
    BY DEF GateInv, FailedInv
  <2>4. ASSUME NEW p \in published
        PROVE  fault \in harmless /\ batch.publish /\ \E v \in verdict : v.result = "PASS"
    <3>1. fault \notin PublishFault /\ batch.publish /\ \E v \in verdict : v.result = "PASS"
      BY DEF GateInv, PublishedInv
    <3>2. fault \in harmless \cup later
      BY <2>2, <3>1
    <3> QED BY <3>1, <3>2 DEF PublishFault
  <2> QED BY <2>2, <2>3, <2>4 DEF PassIsEarned
<1> QED BY <1>1, GateInvariant, PTL

\* What an accepted batch says, its source says.
THEOREM SourceSaysIt == Spec => []AcceptedTextIsTheSource
<1>1. GateInv => AcceptedTextIsTheSource
  <2> SUFFICES ASSUME GateInv, decision # NoDecision
               PROVE  LET b == request.batch
                      IN /\ \A i \in DOMAIN b.mentions : \E j \in DOMAIN b.chunks :
                              /\ b.chunks[j].chunkId = b.mentions[i].chunkId
                              /\ \A k \in DOMAIN b.chunks \ {j} : b.chunks[k].chunkId # b.mentions[i].chunkId
                              /\ Slice(b.source.content, b.chunks[j].startOffset + b.mentions[i].startOffset,
                                                         b.chunks[j].startOffset + b.mentions[i].endOffset)
                                   = b.mentions[i].name
                         /\ \A c \in ToSet(batch.chunks) : c[Len(c)] # "hi" /\ c[1] # "lo"
    BY DEF AcceptedTextIsTheSource
  <2> DEFINE b == request.batch
             s == b.source.content
  <2>1. /\ request \in Request /\ stage \notin {"idle", "refused"} /\ Accepted(request)
        /\ batch = Sorted(request.batch)
    BY DEF GateInv, StageInv, DecisionInv
  <2>2. ValidMentions(b.mentions, b.chunks) /\ ValidChunks(b.chunks, b.source)
    BY <2>1 DEF Accepted, ValidBatch
  <2>3. IsList(b.mentions) /\ IsList(s)
    BY <2>1, BatchType
  <2>4. ASSUME NEW i \in DOMAIN b.mentions
        PROVE  \E j \in DOMAIN b.chunks :
                 /\ b.chunks[j].chunkId = b.mentions[i].chunkId
                 /\ \A k \in DOMAIN b.chunks \ {j} : b.chunks[k].chunkId # b.mentions[i].chunkId
                 /\ Slice(s, b.chunks[j].startOffset + b.mentions[i].startOffset,
                             b.chunks[j].startOffset + b.mentions[i].endOffset) = b.mentions[i].name
    <3> DEFINE m == b.mentions[i]
    <3>1. PICK j \in DOMAIN b.chunks :
            /\ b.chunks[j].chunkId = m.chunkId
            /\ Spans(m.startOffset, m.endOffset, Len(b.chunks[j].text))
            /\ Slice(b.chunks[j].text, m.startOffset, m.endOffset) = m.name
      BY <2>2 DEF ValidMentions
    <3>2. \A k \in DOMAIN b.chunks \ {j} : b.chunks[k].chunkId # m.chunkId
      <4> DEFINE ids == [k \in DOMAIN b.chunks |-> b.chunks[k].chunkId]
      <4>1. \A k, l \in DOMAIN ids : ids[k] = ids[l] => k = l
        BY <2>2 DEF ValidChunks, IsInjective
      <4> QED BY <3>1, <4>1
    <3> DEFINE c == b.chunks[j]
               t == c.text
               from == c.startOffset + m.startOffset
               to == c.startOffset + m.endOffset
    <3>3. /\ c.startOffset \in Int /\ c.endOffset \in Int /\ Spans(c.startOffset, c.endOffset, Len(s))
          /\ t = Slice(s, c.startOffset, c.endOffset) /\ IsList(t) /\ Len(t) = c.endOffset - c.startOffset
      BY <2>1, ChunkType
    <3>4. m.startOffset \in Int /\ m.endOffset \in Int
      <4>1. m \in ToSet(b.mentions)
        BY <2>3, ListShape
      <4> QED BY <2>1, <4>1, RequestAssumption
    <3>5. \A k \in 1 .. Len(t) : t[k] = s[c.startOffset + k]
      <4> DEFINE start == c.startOffset
                 end == c.endOffset
      <4>1. \A k \in 1 .. end - start : Slice(s, start, end)[k] = s[start + k]
        <5>1. start \in Int /\ end \in Int /\ Spans(start, end, Len(s)) /\ IsList(s)
          BY <2>3, <3>3
        <5> HIDE DEF start, end, s
        <5> QED BY <5>1, SliceType
      <4> QED BY <3>3, <4>1
    <3>6. Slice(t, m.startOffset, m.endOffset) = Slice(s, from, to)
      <4> DEFINE start == c.startOffset
                 p == m.startOffset
                 q == m.endOffset
                 u == Slice(t, p, q)
                 w == Slice(s, start + p, start + q)
      <4>1. /\ IsList(t) /\ IsList(s) /\ start \in Int /\ p \in Int /\ q \in Int /\ Spans(p, q, Len(t))
            /\ Len(s) \in Nat /\ Len(t) \in Nat
            /\ 0 <= start /\ start + Len(t) <= Len(s)
        <5>1. Len(s) \in Nat /\ Len(t) \in Nat
          BY <2>3, <3>3, ListShape
        <5>2. 0 <= c.startOffset /\ c.endOffset <= Len(s)
          BY <3>3 DEF Spans
        <5> DEFINE end == c.endOffset
        <5>3. end \in Int /\ start \in Int /\ Len(t) = end - start /\ end <= Len(s)
          BY <3>3, <5>2
        <5>4. start + Len(t) <= Len(s)
          <6> HIDE DEF end, start, t, s
          <6> QED BY <5>1, <5>3
        <5> QED BY <2>3, <3>1, <3>3, <3>4, <5>1, <5>2, <5>4
      <4>2. \A k \in 1 .. Len(t) : t[k] = s[start + k]
        BY <3>5
      <4> HIDE DEF t, s, start, p, q
      <4>3. Spans(start + p, start + q, Len(s)) /\ start + p \in Int /\ start + q \in Int
        BY <4>1 DEF Spans
      <4>4. IsList(u) /\ Len(u) = q - p /\ \A k \in 1 .. q - p : u[k] = t[p + k]
        BY <4>1, SliceType
      <4>5. (start + q) - (start + p) = q - p
        BY <4>1
      <4>6. IsList(w) /\ Len(w) = q - p /\ \A k \in 1 .. q - p : w[k] = s[(start + p) + k]
        <5>1. /\ IsList(w) /\ Len(w) = (start + q) - (start + p)
              /\ \A k \in 1 .. (start + q) - (start + p) : w[k] = s[(start + p) + k]
          BY <4>1, <4>3, SliceType
        <5> QED BY <4>5, <5>1
      <4>7. \A k \in 1 .. q - p : u[k] = w[k]
        <5> TAKE k \in 1 .. q - p
        <5>1. p + k \in 1 .. Len(t) /\ start + (p + k) = (start + p) + k
          BY <4>1 DEF Spans
        <5> QED BY <4>2, <4>4, <4>6, <5>1
      <4>8. u = [k \in 1 .. q - p |-> u[k]] /\ w = [k \in 1 .. q - p |-> w[k]]
        <5> HIDE DEF u, w
        <5>1. u = [k \in 1 .. Len(u) |-> u[k]] /\ w = [k \in 1 .. Len(w) |-> w[k]]
          BY <4>4, <4>6, ListShape
        <5> QED BY <4>4, <4>6, <5>1
      <4>9. u = w
        <5> HIDE DEF u, w
        <5> QED BY <4>7, <4>8
      <4> QED BY <4>9 DEF start, p, q, t, s
    <3>7. Slice(s, from, to) = m.name
      BY <3>1, <3>6
    <3> QED BY <3>1, <3>2, <3>7
  <2>5. ASSUME NEW c \in ToSet(batch.chunks) PROVE c[Len(c)] # "hi" /\ c[1] # "lo"
    <3>1. PICK k \in DOMAIN batch.chunks : c = batch.chunks[k]
      BY DEF ToSet
    <3>2. PICK j \in DOMAIN b.chunks : c = b.chunks[j].text
      BY <2>1, <3>1, SortedType
    <3>3. /\ IsList(c) /\ WellFormed(c) /\ Len(c) = b.chunks[j].endOffset - b.chunks[j].startOffset
          /\ b.chunks[j].startOffset \in Int /\ b.chunks[j].endOffset \in Int
          /\ Spans(b.chunks[j].startOffset, b.chunks[j].endOffset, Len(s))
      BY <2>1, <3>2, ChunkType
    <3>4. Len(c) \in Nat /\ Len(c) > 0 /\ DOMAIN c = 1 .. Len(c)
      <4>1. Len(c) \in Nat /\ DOMAIN c = 1 .. Len(c)
        BY <3>3, ListShape
      <4> QED BY <3>3, <4>1 DEF Spans
    <3>5. 1 \in DOMAIN c /\ Len(c) \in DOMAIN c
      BY <3>4
    <3>6. c[Len(c)] = "hi" => Len(c) < Len(c)
      BY <3>3, <3>5 DEF WellFormed
    <3>7. c[1] = "lo" => 1 > 1
      BY <3>3, <3>5 DEF WellFormed
    <3> QED BY <3>4, <3>6, <3>7
  <2> QED BY <2>4, <2>5
<1> QED BY <1>1, GateInvariant, PTL

-----------------------------------------------------------------------------
(* Valid time. *)

\* The dates of a text are those of its words that look like days.
LEMMA DatesType ==
  ASSUME NEW text, IsList(text)
  PROVE  IsList(Dates(text)) /\ ToSet(Dates(text)) = ToSet(text) \cap DOMAIN Day
<1> DEFINE T == ToSet(text)
           f == [w \in T |-> Only(w \in DOMAIN Day, w)]
           q == FlattenSeq([i \in DOMAIN text |-> f[text[i]]])
<1>1. ASSUME NEW w \in T PROVE IsList(f[w]) /\ \A y : y \in ToSet(f[w]) <=> w \in DOMAIN Day /\ y = w
  <2>1. CASE w \in DOMAIN Day
    <3>1. f[w] = <<w>>
      BY <2>1 DEF Only
    <3> QED BY <2>1, <3>1, SmallLists
  <2>2. CASE w \notin DOMAIN Day
    <3>1. f[w] = <<>>
      BY <2>2 DEF Only
    <3>2. ToSet(<<>>) = {}
      BY DEF ToSet
    <3> QED BY <2>2, <3>1, <3>2, SmallLists
  <2> QED BY <2>1, <2>2
<1>2. Dates(text) = q
  <2>1. \A i \in DOMAIN text : text[i] \in T
    BY ListShape
  <2>2. \A i \in DOMAIN text : f[text[i]] = Only(text[i] \in DOMAIN Day, text[i])
    BY <2>1
  <2>3. [i \in DOMAIN text |-> f[text[i]]] = [i \in DOMAIN text |-> Only(text[i] \in DOMAIN Day, text[i])]
    BY <2>2
  <2> QED BY <2>3 DEF Dates, Keep, Collect, Each
<1> HIDE DEF f
<1>3. IsList(q) /\ \A y : y \in ToSet(q) <=> \E w \in T : y \in ToSet(f[w])
  BY <1>1, CollectedList
<1> HIDE DEF q, T
<1>4. \A y : y \in ToSet(q) <=> y \in T /\ y \in DOMAIN Day
  BY <1>1, <1>3
<1> QED BY <1>2, <1>3, <1>4 DEF T

\* A text whose time is no reason to hold a claim states a valid time or none.
LEMMA TimeOfText ==
  ASSUME NEW text, IsList(text), temporalClaim(text).status # "unmapped", temporalClaim(text).errors = {}
  PROVE  LET t == temporalClaim(text)
             words == ToSet(text)
         IN /\ t.from = "" <=> words \cap DOMAIN Day = {}
            /\ t.from = "" => words \cap VagueTime = {}
            /\ t.from # "" => Day[t.from] > 0
            /\ t.to # "" => Day[t.to] >= Day[t.from]
<1> DEFINE ds == Dates(text)
           words == ToSet(text)
           from == IF ds = <<>> THEN "" ELSE ds[1]
           to == IF Len(ds) > 1 THEN ds[2] ELSE ""
           status == CASE ds # <<>> -> "mapped"
                       [] ds = <<>> /\ words \cap VagueTime # {} -> "unmapped"
                       [] OTHER -> "not_applicable"
<1>1. temporalClaim(text) = [from |-> from, to |-> to, status |-> status, errors |-> TemporalErrors(from, to)]
  BY DEF temporalClaim
<1>2. IsList(ds) /\ ToSet(ds) = words \cap DOMAIN Day
  BY DatesType
<1>3. /\ Len(ds) \in Nat /\ (ds = <<>> <=> Len(ds) = 0)
      /\ \A i \in 1 .. Len(ds) : ds[i] \in words \cap DOMAIN Day
  BY <1>2, ListShape
<1>4. "" \notin DOMAIN Day /\ \A d \in DOMAIN Day : Day[d] \in Nat
  BY DayAssumption
<1> HIDE DEF ds
<1>5. /\ ds = <<>> => from = "" /\ to = ""
      /\ ds # <<>> => from = ds[1] /\ from \in DOMAIN Day
      /\ to # "" => ds # <<>> /\ to \in DOMAIN Day
  <2>1. ds = <<>> => from = "" /\ to = ""
    BY <1>3
  <2>2. ds # <<>> => from = ds[1] /\ ds[1] \in DOMAIN Day
    <3>1. ds # <<>> => 1 \in 1 .. Len(ds)
      BY <1>3
    <3> QED BY <1>3, <3>1
  <2>3. CASE Len(ds) > 1
    <3>1. 2 \in 1 .. Len(ds) /\ ds # <<>> /\ to = ds[2]
      BY <1>3, <2>3
    <3>2. ds[2] \in DOMAIN Day
      BY <1>3, <3>1
    <3> QED BY <2>1, <2>2, <3>1, <3>2
  <2>4. CASE ~ (Len(ds) > 1)
    <3>1. to = ""
      BY <2>4
    <3> QED BY <2>1, <2>2, <3>1
  <2> QED BY <2>3, <2>4
<1> HIDE DEF from, to
<1>6. from = "" <=> ds = <<>>
  BY <1>4, <1>5
<1>7. from = "" <=> words \cap DOMAIN Day = {}
  <2>1. ASSUME ds = <<>> PROVE words \cap DOMAIN Day = {}
    <3>1. ToSet(<<>>) = {}
      BY DEF ToSet
    <3> QED BY <1>2, <2>1, <3>1
  <2>2. ASSUME ds # <<>> PROVE words \cap DOMAIN Day # {}
    <3>1. 1 \in 1 .. Len(ds)
      BY <1>3, <2>2
    <3> QED BY <1>3, <3>1
  <2> QED BY <1>6, <2>1, <2>2
<1>8. from = "" => words \cap VagueTime = {}
  <2> SUFFICES ASSUME ds = <<>> PROVE words \cap VagueTime = {}
    BY <1>6
  <2>1. status # "unmapped"
    BY <1>1
  <2> QED BY <2>1
<1>9. TemporalErrors(from, to) = {}
  BY <1>1
<1> HIDE DEF status, words
<1>10. from # "" => from \in DOMAIN Day /\ Day[from] \in Nat /\ Day[from] # 0
  <2>1. ASSUME from # "" PROVE from \in DOMAIN Day /\ Day[from] \in Nat
    BY <1>4, <1>5, <1>6, <2>1
  <2>2. ~ (from # "" /\ Day[from] = 0)
    BY <1>9 DEF TemporalErrors
  <2> QED BY <2>1, <2>2
<1>11. to # "" => Day[to] \in Nat /\ Day[to] # 0 /\ from # ""
  <2>1. ASSUME to # "" PROVE Day[to] \in Nat /\ from # ""
    BY <1>4, <1>5, <1>6, <2>1
  <2>2. ~ (to # "" /\ Day[to] = 0)
    BY <1>9 DEF TemporalErrors
  <2> QED BY <2>1, <2>2
<1> DEFINE x == Day[from]
           y == Day[to]
<1>12. from # "" => x \in Nat /\ x # 0
  BY <1>10
<1>13. to # "" => x \in Nat /\ x # 0 /\ y \in Nat /\ y # 0
  BY <1>10, <1>11
<1>14. ASSUME from # "", to # "", x > 0, y > 0 PROVE ~ (x > y)
  <2> SUFFICES ASSUME x > y PROVE FALSE
    OBVIOUS
  <2>1. "order" \in TemporalErrors(from, to)
    BY <1>14, Zenon DEF TemporalErrors
  <2> QED BY <1>9, <2>1
<1> HIDE DEF x, y
<1>15. \A n \in Nat : n # 0 => n > 0
  OBVIOUS
<1>16. \A n \in Nat, m \in Nat : ~ (n > m) => m >= n
  OBVIOUS
<1>17. from # "" => x > 0
  BY <1>12, <1>15, Zenon
<1>18. to # "" => y >= x
  <2> SUFFICES ASSUME to # "" PROVE y >= x
    OBVIOUS
  <2>1. x \in Nat /\ x # 0 /\ y \in Nat /\ y # 0 /\ from # ""
    BY <1>11, <1>13, Zenon
  <2>2. x > 0 /\ y > 0
    BY <1>15, <2>1, Zenon
  <2>3. ~ (x > y)
    BY <1>14, <2>1, <2>2, Zenon
  <2> QED BY <1>16, <2>1, <2>3, Zenon
<1>19. temporalClaim(text).from = from /\ temporalClaim(text).to = to
  BY <1>1
<1>20. from # "" => Day[from] > 0
  BY <1>17 DEF x
<1>21. to # "" => Day[to] >= Day[from]
  BY <1>18 DEF x, y
<1>22. words = ToSet(text)
  BY DEF words
<1> QED BY <1>7, <1>8, <1>19, <1>20, <1>21, <1>22, Zenon

\* No fact states an impossible or an unreadable time.
THEOREM ValidTimeOfFacts == Spec => []FactsHaveValidTime
<1>1. GateInv => FactsHaveValidTime
  <2> SUFFICES ASSUME GateInv, decision # NoDecision, NEW f \in ToSet(decision.facts)
               PROVE  LET words == ToSet(batch.chunks[f.id[1]])
                      IN /\ f.temporal.from = "" <=> words \cap DOMAIN Day = {}
                         /\ f.temporal.from = "" => words \cap VagueTime = {}
                         /\ f.temporal.from # "" => Day[f.temporal.from] > 0
                         /\ f.temporal.to # "" => Day[f.temporal.to] >= Day[f.temporal.from]
    BY DEF FactsHaveValidTime
  <2>1. request \in Request /\ stage \notin {"idle", "refused"} /\ DecisionInv
    BY DEF GateInv, StageInv
  <2>2. Readable(batch)
    BY <2>1, DecidedType
  <2>3. PICK v \in Version : decision = Decision(batch, v)
    BY <2>1 DEF DecisionInv
  <2>4. PICK k \in DOMAIN batch.chunks : \E claim :
          Held12(batch, Candidate(batch, k, claim)) = <<>> /\ f = Fact(batch, Candidate(batch, k, claim))
    BY <2>2, <2>3, DecisionType
  <2>5. PICK claim : /\ Held12(batch, Candidate(batch, k, claim)) = <<>>
                     /\ f = Fact(batch, Candidate(batch, k, claim))
    BY <2>4
  <2> DEFINE c == Candidate(batch, k, claim)
             text == batch.chunks[k]
             t == temporalClaim(text)
  <2>6. c.chunk = k /\ c.id[1] = k
    BY DEF Candidate, factId
  <2>7. f.id[1] = k /\ f.temporal = [from |-> t.from, to |-> t.to]
    BY <2>5, <2>6 DEF Fact
  <2>8. t.status # "unmapped" /\ t.errors = {}
    <3>1. \A r : <<r>> # <<>>
      OBVIOUS
    <3> QED BY <2>5, <2>6, <3>1 DEF Held12
  <2>9. IsList(text)
    BY <2>2 DEF Readable
  <2>10. f.temporal.from = t.from /\ f.temporal.to = t.to
    BY <2>7
  <2> HIDE DEF c, t
  <2> QED BY <2>7, <2>8, <2>9, <2>10, TimeOfText DEF t
<1> QED BY <1>1, GateInvariant, PTL

-----------------------------------------------------------------------------
(* How often something is in a list. *)

\* How many places of q have an entry in X.
Times(q, X) == Cardinality({i \in DOMAIN q : q[i] \in X})

\* How often is a number, at most the length.
LEMMA TimesType ==
  ASSUME NEW q, IsList(q), NEW X
  PROVE  IsFiniteSet({i \in DOMAIN q : q[i] \in X}) /\ Times(q, X) \in Nat
<1>1. IsFiniteSet(DOMAIN q)
  BY BoundedList DEF Bounded
<1>2. IsFiniteSet({i \in DOMAIN q : q[i] \in X})
  BY <1>1, FS_Subset
<1> QED BY <1>2, FS_CardinalityType DEF Times

\* Lists with the same kind of entry at each place.
LEMMA TimesSame ==
  ASSUME NEW s, NEW t, NEW X, NEW Y, DOMAIN s = DOMAIN t, \A i \in DOMAIN s : s[i] \in X <=> t[i] \in Y
  PROVE  Times(s, X) = Times(t, Y)
<1>1. {i \in DOMAIN s : s[i] \in X} = {i \in DOMAIN t : t[i] \in Y}
  OBVIOUS
<1> QED BY <1>1 DEF Times

\* All and nothing.
LEMMA TimesAll ==
  ASSUME NEW q, IsList(q), NEW X
  PROVE  /\ (\A x \in ToSet(q) : x \in X) => Times(q, X) = Len(q)
         /\ (\A x \in ToSet(q) : x \notin X) => Times(q, X) = 0
<1>1. Len(q) \in Nat /\ DOMAIN q = 1 .. Len(q) /\ \A i \in DOMAIN q : q[i] \in ToSet(q)
  BY ListShape
<1>2. ASSUME \A x \in ToSet(q) : x \in X PROVE Times(q, X) = Len(q)
  <2>1. {i \in DOMAIN q : q[i] \in X} = 1 .. Len(q)
    BY <1>1, <1>2
  <2> DEFINE n == Len(q)
  <2>2. Cardinality(1 .. n) = IF 1 > n THEN 0 ELSE n - 1 + 1
    BY <1>1, FS_Interval
  <2>3. n \in Nat
    BY <1>1
  <2>4. Times(q, X) = Cardinality(1 .. n)
    BY <2>1 DEF Times
  <2> HIDE DEF n
  <2>5. Times(q, X) = n
    BY <2>2, <2>3, <2>4
  <2> QED BY <2>5 DEF n
<1>3. ASSUME \A x \in ToSet(q) : x \notin X PROVE Times(q, X) = 0
  <2>1. {i \in DOMAIN q : q[i] \in X} = {}
    BY <1>1, <1>3
  <2> QED BY <2>1, FS_EmptySet DEF Times
<1> QED BY <1>2, <1>3

\* A list of one entry, and one of none.
LEMMA TimesSmall ==
  ASSUME NEW X
  PROVE  /\ Times(<<>>, X) = 0
         /\ \A x : Times(<<x>>, X) = IF x \in X THEN 1 ELSE 0
<1>1. ToSet(<<>>) = {} /\ IsList(<<>>) /\ Len(<<>>) = 0
  BY SmallLists DEF ToSet
<1>2. ASSUME NEW x PROVE Times(<<x>>, X) = IF x \in X THEN 1 ELSE 0
  <2>1. ToSet(<<x>>) = {x} /\ IsList(<<x>>) /\ Len(<<x>>) = 1
    BY SmallLists
  <2> QED BY <2>1, TimesAll
<1> QED BY <1>1, <1>2, TimesAll

\* What is of one kind or of another one is counted with each.
LEMMA TimesSplit ==
  ASSUME NEW q, IsList(q), NEW X, NEW Y, \A x \in ToSet(q) : ~ (x \in X /\ x \in Y)
  PROVE  Times(q, X \cup Y) = Times(q, X) + Times(q, Y)
<1> DEFINE P == {i \in DOMAIN q : q[i] \in X}
           Q == {i \in DOMAIN q : q[i] \in Y}
<1>1. IsFiniteSet(P) /\ IsFiniteSet(Q)
  BY TimesType
<1>2. {i \in DOMAIN q : q[i] \in X \cup Y} = P \cup Q
  OBVIOUS
<1>3. P \cap Q = {}
  <2>1. \A i \in DOMAIN q : q[i] \in ToSet(q)
    BY ListShape
  <2> QED BY <2>1
<1>4. Times(q, X \cup Y) = Cardinality(P \cup Q) /\ Times(q, X) = Cardinality(P) /\ Times(q, Y) = Cardinality(Q)
  BY <1>2 DEF Times
<1> HIDE DEF P, Q
<1>5. Cardinality(P \cup Q) = Cardinality(P) + Cardinality(Q) - Cardinality(P \cap Q)
  BY <1>1, FS_Union
<1>6. Cardinality(P) \in Nat /\ Cardinality(Q) \in Nat
  BY <1>1, FS_CardinalityType
<1>7. Cardinality({}) = 0
  BY FS_EmptySet
<1>8. Cardinality(P \cap Q) = 0
  BY <1>3, <1>7
<1> DEFINE a == Cardinality(P)
           b == Cardinality(Q)
<1>9. Cardinality(P \cup Q) = a + b
  <2>1. Cardinality(P \cup Q) = a + b - 0 /\ a \in Nat /\ b \in Nat
    BY <1>5, <1>6, <1>8
  <2> HIDE DEF a, b
  <2> QED BY <2>1
<1> QED BY <1>4, <1>9

\* A join is counted part by part.
LEMMA TimesJoined ==
  ASSUME NEW s, NEW t, IsList(s), IsList(t), NEW X
  PROVE  Times(s \o t, X) = Times(s, X) + Times(t, X)
<1> DEFINE u == s \o t
           n == Len(s)
           m == Len(t)
           P == {i \in DOMAIN s : s[i] \in X}
           Q == {j \in DOMAIN t : t[j] \in X}
           R == {n + j : j \in Q}
           f == [j \in Q |-> n + j]
<1>1. n \in Nat /\ m \in Nat /\ DOMAIN s = 1 .. n /\ DOMAIN t = 1 .. m
  BY ListShape
<1>2. /\ IsList(u) /\ Len(u) = n + m
      /\ \A k \in 1 .. n : u[k] = s[k]
      /\ \A k \in 1 .. m : u[n + k] = t[k]
  BY JoinedLists
<1>3. DOMAIN u = 1 .. n + m
  BY <1>2, ListShape
<1>4. P \subseteq 1 .. n /\ Q \subseteq 1 .. m /\ IsFiniteSet(P) /\ IsFiniteSet(Q)
  BY <1>1, TimesType
<1>5. Times(s, X) = Cardinality(P) /\ Times(t, X) = Cardinality(Q)
  BY DEF Times
<1> HIDE DEF u, n, m
<1>6. {i \in DOMAIN u : u[i] \in X} = P \cup R
  <2>1. ASSUME NEW i \in DOMAIN u, u[i] \in X PROVE i \in P \cup R
    <3>1. CASE i \in 1 .. n
      BY <1>1, <1>2, <2>1, <3>1
    <3>2. CASE i \notin 1 .. n
      <4>1. i \in 1 .. n + m /\ i - n \in 1 .. m /\ n + (i - n) = i
        BY <1>1, <1>3, <3>2
      <4>2. i - n \in Q
        BY <1>1, <1>2, <2>1, <4>1
      <4> QED BY <4>1, <4>2
    <3> QED BY <3>1, <3>2
  <2>2. ASSUME NEW i \in P PROVE i \in DOMAIN u /\ u[i] \in X
    <3>1. i \in 1 .. n /\ s[i] \in X
      BY <1>1
    <3>2. i \in 1 .. n + m
      BY <1>1, <3>1
    <3> QED BY <1>2, <1>3, <3>1, <3>2
  <2>3. ASSUME NEW j \in Q PROVE n + j \in DOMAIN u /\ u[n + j] \in X
    <3>1. j \in 1 .. m /\ t[j] \in X
      BY <1>1
    <3>2. n + j \in 1 .. n + m
      BY <1>1, <3>1
    <3> QED BY <1>2, <1>3, <3>1, <3>2
  <2> HIDE DEF P, Q
  <2> QED BY <2>1, <2>2, <2>3
<1> HIDE DEF P, Q
<1>7. P \cap R = {}
  BY <1>1, <1>4
<1>8. IsFiniteSet(R) /\ Cardinality(R) = Cardinality(Q)
  <2>1. f \in Bijection(Q, R)
    <3>1. f \in [Q -> R]
      OBVIOUS
    <3>2. \A a, b \in Q : f[a] = f[b] => a = b
      BY <1>1, <1>4
    <3>3. \A r \in R : \E a \in Q : f[a] = r
      OBVIOUS
    <3> HIDE DEF f, R
    <3>4. f \in Injection(Q, R)
      BY <3>1, <3>2 DEF Injection, IsInjective
    <3>5. f \in Surjection(Q, R)
      BY <3>1, <3>3 DEF Surjection
    <3> QED BY <3>4, <3>5 DEF Bijection
  <2>2. ExistsBijection(Q, R)
    BY <2>1 DEF ExistsBijection
  <2> HIDE DEF R
  <2> QED BY <1>4, <2>2, FS_Bijection
<1>9. Times(u, X) = Cardinality(P \cup R)
  BY <1>6 DEF Times
<1> HIDE DEF R
<1>10. Cardinality(P \cup R) = Cardinality(P) + Cardinality(R) - Cardinality(P \cap R)
  BY <1>4, <1>8, FS_Union
<1>11. Cardinality(P) \in Nat /\ Cardinality(Q) \in Nat
  BY <1>4, FS_CardinalityType
<1>12. Cardinality({}) = 0
  BY FS_EmptySet
<1>13. Times(u, X) = Cardinality(P) + Cardinality(Q)
  <2> DEFINE a == Cardinality(P)
             b == Cardinality(Q)
  <2>1. Cardinality(P \cap R) = 0
    BY <1>7, <1>12
  <2>2. Times(u, X) = a + b - 0 /\ a \in Nat /\ b \in Nat
    BY <1>8, <1>9, <1>10, <1>11, <2>1
  <2> HIDE DEF a, b
  <2>3. Times(u, X) = a + b
    BY <2>2
  <2> QED BY <2>3 DEF a, b
<1> QED BY <1>5, <1>13 DEF u

\* What is in a join is in one of its parts.
LEMMA JoinedSets ==
  ASSUME NEW s, NEW t, IsList(s), IsList(t)
  PROVE  ToSet(s \o t) = ToSet(s) \cup ToSet(t)
<1> DEFINE u == s \o t
           n == Len(s)
           m == Len(t)
<1>1. n \in Nat /\ m \in Nat /\ DOMAIN s = 1 .. n /\ DOMAIN t = 1 .. m
  BY ListShape
<1>2. /\ IsList(u) /\ Len(u) = n + m
      /\ \A k \in 1 .. n : u[k] = s[k]
      /\ \A k \in 1 .. m : u[n + k] = t[k]
  BY JoinedLists
<1>3. DOMAIN u = 1 .. n + m
  BY <1>2, ListShape
<1> HIDE DEF u, n, m
<1>4. ASSUME NEW x \in ToSet(u) PROVE x \in ToSet(s) \cup ToSet(t)
  <2>1. PICK i \in 1 .. n + m : x = u[i]
    BY <1>3 DEF ToSet
  <2>2. CASE i \in 1 .. n
    BY <1>1, <1>2, <2>1, <2>2 DEF ToSet
  <2>3. CASE i \notin 1 .. n
    <3>1. i - n \in 1 .. m /\ n + (i - n) = i
      BY <1>1, <2>3
    <3> QED BY <1>1, <1>2, <2>1, <3>1 DEF ToSet
  <2> QED BY <2>2, <2>3
<1>5. ASSUME NEW x \in ToSet(s) PROVE x \in ToSet(u)
  <2>1. PICK i \in 1 .. n : x = s[i]
    BY <1>1 DEF ToSet
  <2>2. i \in 1 .. n + m
    BY <1>1
  <2> QED BY <1>2, <1>3, <2>1, <2>2 DEF ToSet
<1>6. ASSUME NEW x \in ToSet(t) PROVE x \in ToSet(u)
  <2>1. PICK i \in 1 .. m : x = t[i]
    BY <1>1 DEF ToSet
  <2>2. n + i \in 1 .. n + m
    BY <1>1
  <2> QED BY <1>2, <1>3, <2>1, <2>2 DEF ToSet
<1> QED BY <1>4, <1>5, <1>6 DEF u

\* q has a row, row[x], of each entry x of s in Y, as often as s has it.
RowsOf(q, s, Y, row) ==
  /\ IsList(q) /\ ToSet(q) = {row[x] : x \in ToSet(s) \cap Y}
  /\ Len(q) = Times(s, Y)
  /\ \A X : Times(q, X) = Times(s, {x \in ToSet(s) \cap Y : row[x] \in X})

\* Rows that the entries of one kind are made into, one row each: there are as
\* many of a kind as entries they are made of.
LEMMA CollectedRows ==
  ASSUME NEW s, IsList(s), NEW f, NEW row, NEW Y,
         \A x \in ToSet(s) : f[x] = IF x \in Y THEN <<row[x]>> ELSE <<>>
  PROVE  RowsOf(FlattenSeq([i \in DOMAIN s |-> f[s[i]]]), s, Y, row)
<1> DEFINE p == [i \in DOMAIN s |-> f[s[i]]]
           n == Len(s)
           S == {row[x] : x \in ToSet(s) \cap Y}
           q == FlattenSeq(p)
<1>1. n \in Nat /\ DOMAIN s = 1 .. n /\ \A i \in 1 .. n : s[i] \in ToSet(s)
  BY ListShape
<1>2. \A i \in 1 .. n : p[i] = IF s[i] \in Y THEN <<row[s[i]]>> ELSE <<>>
  BY <1>1
<1>3. \A x \in ToSet(s) : IsList(f[x]) /\ \A y : y \in ToSet(f[x]) <=> x \in Y /\ y = row[x]
  <2> SUFFICES ASSUME NEW x \in ToSet(s)
               PROVE  IsList(f[x]) /\ \A y : y \in ToSet(f[x]) <=> x \in Y /\ y = row[x]
    OBVIOUS
  <2>1. ToSet(<<>>) = {}
    BY DEF ToSet
  <2>2. CASE x \in Y
    BY <2>2, SmallLists
  <2>3. CASE x \notin Y
    BY <2>1, <2>3, SmallLists
  <2> QED BY <2>2, <2>3
<1>4. IsList(q) /\ \A y : y \in ToSet(q) <=> \E x \in ToSet(s) : y \in ToSet(f[x])
  BY <1>3, CollectedList
<1>5. ToSet(q) = S
  <2> HIDE DEF q
  <2>1. \A y : y \in ToSet(q) <=> \E x \in ToSet(s) : x \in Y /\ y = row[x]
    BY <1>3, <1>4
  <2>2. \A y : y \in S <=> \E x \in ToSet(s) : x \in Y /\ y = row[x]
    OBVIOUS
  <2> HIDE DEF S
  <2> QED BY <2>1, <2>2
<1>6. p \in Seq(Seq(S)) /\ Len(p) = n
  <2>1. \A i \in 1 .. n : p[i] \in Seq(S)
    <3> SUFFICES ASSUME NEW i \in 1 .. n PROVE p[i] \in Seq(S)
      OBVIOUS
    <3>1. CASE s[i] \in Y
      <4>1. p[i] = <<row[s[i]]>> /\ row[s[i]] \in S
        BY <1>1, <1>2, <3>1
      <4> HIDE DEF S
      <4> QED BY <4>1
    <3>2. CASE s[i] \notin Y
      <4>1. p[i] = <<>>
        BY <1>2, <3>2
      <4> HIDE DEF S, p, q
      <4>2. <<>> \in Seq(S)
        OBVIOUS
      <4> QED BY <4>1, <4>2
    <3> QED BY <3>1, <3>2
  <2>2. DOMAIN p = 1 .. n /\ p = [i \in 1 .. n |-> p[i]]
    BY <1>1
  <2> HIDE DEF p, S
  <2>3. p \in [1 .. n -> Seq(S)]
    BY <2>1, <2>2
  <2> QED BY <1>1, <2>2, <2>3
<1> HIDE DEF p, S
<1>7. PICK g : Joins(g, p, S)
  BY <1>6, FlattenJoins
<1>8. g[0] = <<>> /\ q = g[n] /\ \A i \in 1 .. n : g[i] = g[i - 1] \o p[i]
  BY <1>6, <1>7 DEF Joins
<1>9. ASSUME NEW i \in 0 .. n PROVE IsList(g[i])
  <2>1. g[i] \in Seq(S)
    BY <1>6, <1>7 DEF Joins
  <2>2. Len(g[i]) \in Nat /\ g[i] = [j \in 1 .. Len(g[i]) |-> g[i][j]]
    BY <2>1
  <2> QED BY <2>2, ListIntro
<1> HIDE DEF q, n
<1>10. ASSUME NEW X
       PROVE  Times(q, X) = Times(s, {x \in ToSet(s) \cap Y : row[x] \in X})
  <2> DEFINE Z == {x \in ToSet(s) \cap Y : row[x] \in X}
             C(k) == {i \in 1 .. k : s[i] \in Z}
             T == {k \in Nat : k <= n => Times(g[k], X) = Cardinality(C(k))}
  <2>1. 0 \in T
    <3>1. C(0) = {}
      OBVIOUS
    <3>2. Times(g[0], X) = 0
      BY <1>8, TimesSmall
    <3> QED BY <3>1, <3>2, FS_EmptySet
  <2>2. ASSUME NEW k \in Nat, k \in T PROVE k + 1 \in T
    <3>1. SUFFICES ASSUME k + 1 <= n PROVE Times(g[k + 1], X) = Cardinality(C(k + 1))
      OBVIOUS
    <3>2. k + 1 \in 1 .. n /\ k \in 0 .. n /\ (k + 1) - 1 = k /\ Times(g[k], X) = Cardinality(C(k))
      BY <1>1, <2>2, <3>1
    <3>3. g[k + 1] = g[k] \o p[k + 1]
      BY <1>8, <3>2
    <3>4. s[k + 1] \in ToSet(s) /\ p[k + 1] = IF s[k + 1] \in Y THEN <<row[s[k + 1]]>> ELSE <<>>
      BY <1>1, <1>2, <3>2
    <3>5. IsList(p[k + 1])
      BY <3>4, SmallLists
    <3>6. Times(g[k + 1], X) = Times(g[k], X) + Times(p[k + 1], X)
      BY <1>9, <3>2, <3>3, <3>5, TimesJoined
    <3>7. Times(p[k + 1], X) = IF s[k + 1] \in Z THEN 1 ELSE 0
      <4>1. CASE s[k + 1] \in Y
        <5>1. Times(p[k + 1], X) = IF row[s[k + 1]] \in X THEN 1 ELSE 0
          BY <3>4, <4>1, TimesSmall
        <5>2. s[k + 1] \in Z <=> row[s[k + 1]] \in X
          BY <3>4, <4>1
        <5> QED BY <5>1, <5>2
      <4>2. CASE s[k + 1] \notin Y
        <5>1. Times(p[k + 1], X) = 0
          BY <3>4, <4>2, TimesSmall
        <5>2. s[k + 1] \notin Z
          BY <4>2
        <5> QED BY <5>1, <5>2
      <4> QED BY <4>1, <4>2
    <3> HIDE DEF Z
    <3>8. IsFiniteSet(C(k)) /\ Cardinality(C(k)) \in Nat /\ k + 1 \notin C(k)
      <4>1. C(k) \in SUBSET (1 .. k) /\ IsFiniteSet(1 .. k)
        BY FS_Interval
      <4>2. IsFiniteSet(C(k))
        <5> HIDE DEF C
        <5> QED BY <4>1, FS_Subset
      <4>3. k + 1 \notin C(k)
        BY <4>1
      <4> QED BY <4>2, <4>3, FS_CardinalityType
    <3>9. CASE s[k + 1] \in Z
      <4>1. C(k + 1) = C(k) \cup {k + 1}
        BY <3>9
      <4> HIDE DEF C
      <4>2. Cardinality(C(k + 1)) = Cardinality(C(k)) + 1
        BY <3>8, <4>1, FS_AddElement
      <4> QED BY <3>2, <3>6, <3>7, <3>9, <4>2
    <3>10. CASE s[k + 1] \notin Z
      <4>1. C(k + 1) = C(k)
        <5>1. \A i : i \in 1 .. k + 1 <=> i \in 1 .. k \/ i = k + 1
          OBVIOUS
        <5> QED BY <3>10, <5>1
      <4> HIDE DEF C
      <4> QED BY <3>2, <3>6, <3>7, <3>8, <3>10, <4>1
    <3> QED BY <3>9, <3>10
  <2>3. n \in T
    <3> HIDE DEF T
    <3> QED BY <1>1, <2>1, <2>2, Induction
  <2>4. Times(s, Z) = Cardinality(C(n))
    BY <1>1 DEF Times
  <2>5. Times(q, X) = Cardinality(C(n))
    <3> HIDE DEF C
    <3>1. Times(g[n], X) = Cardinality(C(n))
      BY <1>1, <2>3
    <3> QED BY <1>8, <3>1
  <2> QED BY <2>4, <2>5
<1>11. Len(q) = Times(s, Y)
  <2>1. Times(q, S) = Len(q)
    BY <1>4, <1>5, TimesAll
  <2>2. Times(q, S) = Times(s, {x \in ToSet(s) \cap Y : row[x] \in S})
    BY <1>10
  <2>3. \A i \in DOMAIN s : s[i] \in {x \in ToSet(s) \cap Y : row[x] \in S} <=> s[i] \in Y
    BY <1>1 DEF S
  <2>4. Times(s, {x \in ToSet(s) \cap Y : row[x] \in S}) = Times(s, Y)
    BY <2>3, TimesSame
  <2> QED BY <2>1, <2>2, <2>4
<1>12. RowsOf(q, s, Y, row)
  BY <1>4, <1>5, <1>10, <1>11 DEF RowsOf, S
<1> QED BY <1>12 DEF q, p

-----------------------------------------------------------------------------
(* Every candidate lands. *)

\* Only a claim of the explicit form may be ambiguous.
ClaimKind(c) ==
  /\ c.confidence \in {explicit, structured, inferredMax}
  /\ c.hold \in {"", "ambiguous_subject_binding"}
  /\ c.hold # "" => c.confidence = explicit

\* The claims of a text are of these kinds.
LEMMA ClaimKinds ==
  ASSUME NEW text, NEW ms, IsList(text)
  PROVE  \A c \in ToSet(ChunkClaims(text, ms)) : ClaimKind(c)
<1> DEFINE u == ExplicitUpTo(text, ms)
           n == Len(text)
           Good(q) == IsList(q) /\ \A c \in ToSet(q) : ClaimKind(c)
           T == {p \in Nat : p <= n => Good(u[p].claims)}
<1>1. n \in Nat
  BY ListShape
<1>2. u[0] = [claims |-> <<>>, prev |-> {}]
  BY ExplicitFromLeft
<1>3. \A p \in 1 .. n :
        u[p] = IF text[p] \in RelationWord THEN ExplicitStep(text, ms, u[p - 1], p) ELSE u[p - 1]
  BY ExplicitFromLeft
<1> HIDE DEF u
<1>4. ASSUME NEW q, Good(q), NEW x, ClaimKind(x) PROVE Good(Append(q, x))
  <2> DEFINE r == Append(q, x)
  <2>1. /\ IsList(r) /\ Len(r) = Len(q) + 1
        /\ r[Len(q) + 1] = x /\ \A k \in 1 .. Len(q) : r[k] = q[k]
    BY <1>4, AppendedList
  <2>2. Len(q) \in Nat /\ DOMAIN q = 1 .. Len(q) /\ DOMAIN r = 1 .. Len(q) + 1
    BY <1>4, <2>1, ListShape
  <2> HIDE DEF r
  <2>3. ASSUME NEW c \in ToSet(r) PROVE ClaimKind(c)
    <3>1. PICK k \in 1 .. Len(q) + 1 : c = r[k]
      BY <2>2 DEF ToSet
    <3>2. CASE k \in 1 .. Len(q)
      <4>1. q[k] \in ToSet(q)
        BY <2>2, <3>2 DEF ToSet
      <4> HIDE DEF ClaimKind
      <4> QED BY <1>4, <2>1, <3>1, <3>2, <4>1
    <3>3. CASE k \notin 1 .. Len(q)
      <4>1. k = Len(q) + 1
        BY <2>2, <3>3
      <4> QED BY <1>4, <2>1, <3>1, <4>1
    <3> QED BY <3>2, <3>3
  <2> QED BY <2>1, <2>3 DEF r
<1>5. ASSUME NEW a, Good(a.claims), NEW p
      PROVE  Good(ExplicitStep(text, ms, a, p).claims)
  <2>1. PICK x : /\ ClaimKind(x)
                 /\ \/ ExplicitStep(text, ms, a, p) = a
                    \/ ExplicitStep(text, ms, a, p).claims = Append(a.claims, x)
    <3>1. \A sub, obj, w, h : h \in {"", "ambiguous_subject_binding"} =>
            ClaimKind([subject |-> sub, object |-> obj, predicate |-> w,
                       confidence |-> explicit, basis |-> "explicit", hold |-> h])
      BY DEF ClaimKind
    <3> HIDE DEF Good
    <3> QED BY <3>1 DEF ExplicitStep
  <2> HIDE DEF Good
  <2> QED BY <1>4, <1>5, <2>1
<1>6. Good(<<>>)
  <2>1. ToSet(<<>>) = {}
    BY DEF ToSet
  <2> QED BY <2>1, SmallLists
<1>7. \A x : ClaimKind(x) => Good(<<x>>)
  <2> SUFFICES ASSUME NEW x, ClaimKind(x) PROVE Good(<<x>>)
    BY Zenon
  <2>1. IsList(<<x>>) /\ ToSet(<<x>>) = {x}
    BY SmallLists
  <2> QED BY <2>1
<1> HIDE DEF Good
<1>8. 0 \in T
  BY <1>2, <1>6
<1>9. ASSUME NEW p \in Nat, p \in T PROVE p + 1 \in T
  <2>1. SUFFICES ASSUME p + 1 <= n PROVE Good(u[p + 1].claims)
    OBVIOUS
  <2>2. p + 1 \in 1 .. n /\ (p + 1) - 1 = p /\ Good(u[p].claims)
    BY <1>1, <1>9, <2>1
  <2>3. u[p + 1] = IF text[p + 1] \in RelationWord THEN ExplicitStep(text, ms, u[p], p + 1) ELSE u[p]
    BY <1>3, <2>2
  <2> QED BY <1>5, <2>2, <2>3
<1>10. Good(ExplicitClaims(text, ms))
  <2>1. n \in T
    <3> HIDE DEF T
    <3> QED BY <1>1, <1>8, <1>9, Induction
  <2> QED BY <1>1, <2>1 DEF ExplicitClaims, u
<1> DEFINE one(x, y, w) == [subject |-> x, object |-> y, predicate |-> w,
                            confidence |-> structured, basis |-> "structured", hold |-> ""]
           i == [subject |-> ms[1], object |-> ms[2], predicate |-> "INFERRED",
                 confidence |-> inferredMax, basis |-> "inferred", hold |-> ""]
<1>11. (\A x, y, w : ClaimKind(one(x, y, w))) /\ ClaimKind(i)
  BY DEF ClaimKind
<1>12. Good(StructuredClaims(text, ms))
  <2>1. \/ StructuredClaims(text, ms) = <<>>
        \/ \E x, y, w : StructuredClaims(text, ms) = <<one(x, y, w)>>
    BY DEF StructuredClaims
  <2> HIDE DEF one
  <2> QED BY <1>6, <1>7, <1>11, <2>1
<1> DEFINE s == StructuredClaims(text, ms)
           e == ExplicitClaims(text, ms)
<1>13. ChunkClaims(text, ms) = CASE s # <<>> -> s
                                 [] s = <<>> /\ e # <<>> -> e
                                 [] s = <<>> /\ e = <<>> /\ Len(ms) >= 2 -> <<i>>
                                 [] OTHER -> <<>>
  BY DEF ChunkClaims
<1>14. Good(<<i>>)
  BY <1>7, <1>11
<1> HIDE DEF s, e, i
<1>15. ChunkClaims(text, ms) \in {s, e, <<i>>, <<>>}
  BY <1>13
<1>16. Good(ChunkClaims(text, ms))
  BY <1>6, <1>10, <1>12, <1>14, <1>15 DEF s, e
<1> QED BY <1>16 DEF Good

\* What a stage makes of a candidate: no two stages decide on one.
LEMMA CandidateLands ==
  ASSUME NEW c, ClaimKind(c), NEW version, NEW b
  PROVE  LET low == c.confidence < writeFloor
             stopped == c.hold # "" \/ low
             timed == Held12(b, c) # <<>>
         IN /\ Held10(c) = IF stopped
                           THEN <<heldRecord(c, IF c.hold # "" THEN c.hold ELSE "confidence_below_write_floor")>>
                           ELSE <<>>
            /\ Mapped(c, version) => ~ stopped
            /\ Held11(c, version) = IF ~ stopped /\ ~ Mapped(c, version)
                                    THEN <<heldRecord(c, IF c.raw \notin DOMAIN Alias THEN "unknown_predicate"
                                                         ELSE "invalid_endpoint")>>
                                    ELSE <<>>
            /\ Held12(b, c) = IF timed
                              THEN <<heldRecord(c, IF temporalClaim(b.chunks[c.chunk]).status = "unmapped"
                                                   THEN "temporal_unmapped" ELSE "invalid_temporal_order")>>
                              ELSE <<>>
<1>1. \A x \in {explicit, structured, inferredMax} :
         (x = explicit => ~ (x < writeFloor)) /\ (x >= writeFloor => ~ (x < writeFloor))
  BY DEF explicit, structured, inferredMax, writeFloor
<1>2. c.hold # "" => ~ (c.confidence < writeFloor)
  BY <1>1, Zenon DEF ClaimKind
<1>3. Mapped(c, version) => c.hold = "" /\ ~ (c.confidence < writeFloor)
  BY <1>1, Zenon DEF Mapped, ClaimKind
<1>4. (\A q : <<>> \o <<q>> = <<q>> /\ <<q>> \o <<>> = <<q>>) /\ <<>> \o <<>> = <<>>
  <2>1. ASSUME NEW q PROVE <<>> \o <<q>> = <<q>> /\ <<q>> \o <<>> = <<q>>
    <3> DEFINE S == {q}
    <3>1. q \in S
      OBVIOUS
    <3> HIDE DEF S
    <3>2. <<q>> \in Seq(S)
      BY <3>1
    <3>3. \A v \in Seq(S) : <<>> \o v = v /\ v \o <<>> = v
      OBVIOUS
    <3> QED BY <3>2, <3>3
  <2>2. <<>> \o <<>> = <<>>
    <3> DEFINE S == {1}
    <3>1. \A v \in Seq(S) : <<>> \o v = v
      OBVIOUS
    <3>2. <<>> \in Seq(S)
      OBVIOUS
    <3> QED BY <3>1, <3>2
  <2> QED BY <2>1, <2>2
<1>5. Held10(c) = IF c.hold # "" \/ c.confidence < writeFloor
                  THEN <<heldRecord(c, IF c.hold # "" THEN c.hold ELSE "confidence_below_write_floor")>>
                  ELSE <<>>
  <2>1. CASE c.hold # ""
    <3>1. ~ (c.confidence < writeFloor)
      BY <1>2, <2>1
    <3>2. Held10(c) = <<heldRecord(c, c.hold)>> \o <<>>
      BY <2>1, <3>1 DEF Held10, Only
    <3> QED BY <1>4, <2>1, <3>2
  <2>2. CASE c.hold = "" /\ c.confidence < writeFloor
    <3>1. Held10(c) = <<>> \o <<heldRecord(c, "confidence_below_write_floor")>>
      BY <2>2 DEF Held10, Only
    <3> QED BY <1>4, <2>2, <3>1
  <2>3. CASE c.hold = "" /\ ~ (c.confidence < writeFloor)
    <3>1. Held10(c) = <<>> \o <<>>
      BY <2>3 DEF Held10, Only
    <3> QED BY <1>4, <2>3, <3>1
  <2> QED BY <2>1, <2>2, <2>3
<1>6. Held11(c, version) = IF ~ (c.hold # "" \/ c.confidence < writeFloor) /\ ~ Mapped(c, version)
                           THEN <<heldRecord(c, IF c.raw \notin DOMAIN Alias THEN "unknown_predicate"
                                                ELSE "invalid_endpoint")>>
                           ELSE <<>>
  BY DEF Held11
<1>7. Held12(b, c) = IF Held12(b, c) # <<>>
                     THEN <<heldRecord(c, IF temporalClaim(b.chunks[c.chunk]).status = "unmapped"
                                          THEN "temporal_unmapped" ELSE "invalid_temporal_order")>>
                     ELSE <<>>
  <2> DEFINE t == temporalClaim(b.chunks[c.chunk])
  <2>1. Held12(b, c) = CASE t.status = "unmapped" -> <<heldRecord(c, "temporal_unmapped")>>
                         [] t.status # "unmapped" /\ t.errors # {} -> <<heldRecord(c, "invalid_temporal_order")>>
                         [] OTHER -> <<>>
    BY DEF Held12
  <2> HIDE DEF t
  <2>2. CASE t.status = "unmapped"
    BY <2>1, <2>2 DEF t
  <2>3. CASE t.status # "unmapped" /\ t.errors # {}
    BY <2>1, <2>3 DEF t
  <2>4. CASE t.status # "unmapped" /\ t.errors = {}
    BY <2>1, <2>4 DEF t
  <2> QED BY <2>2, <2>3, <2>4
<1> QED BY <1>3, <1>5, <1>6, <1>7, Zenon

\* What each stage makes of the candidates, one row of each it stops.
Stopped(c) == c.hold # "" \/ c.confidence < writeFloor
Row10(c) == heldRecord(c, IF c.hold # "" THEN c.hold ELSE "confidence_below_write_floor")
Row11(c) == heldRecord(c, IF c.raw \notin DOMAIN Alias THEN "unknown_predicate" ELSE "invalid_endpoint")
Row12(b, c) == heldRecord(c, IF temporalClaim(b.chunks[c.chunk]).status = "unmapped"
                             THEN "temporal_unmapped" ELSE "invalid_temporal_order")

\* What Stages 11 and 12 hold.
Stage11(cs, version) == Collect(cs, LAMBDA c : Held11(c, version))
Stage12(b, mapped) == Collect(mapped, LAMBDA c : Held12(b, c))

\* The lists of the stages are such rows.
LEMMA StageLists ==
  ASSUME NEW b, NEW version, NEW cs, IsList(cs), \A c \in ToSet(cs) : ClaimKind(c)
  PROVE  LET S == ToSet(cs)
             mapped == Mappable(version, cs)
             T == ToSet(mapped)
         IN /\ RowsOf(mapped, cs, {c \in S : Mapped(c, version)}, [c \in S |-> c])
            /\ RowsOf(Collect(cs, Held10), cs, {c \in S : Stopped(c)}, [c \in S |-> Row10(c)])
            /\ RowsOf(Stage11(cs, version), cs,
                      {c \in S : ~ Stopped(c) /\ ~ Mapped(c, version)}, [c \in S |-> Row11(c)])
            /\ RowsOf(Stage12(b, mapped), mapped,
                      {c \in T : Held12(b, c) # <<>>}, [c \in T |-> Row12(b, c)])
            /\ RowsOf(Facts(b, mapped), mapped,
                      {c \in T : Held12(b, c) = <<>>}, [c \in T |-> Fact(b, c)])
<1> DEFINE S == ToSet(cs)
           mapped == Mappable(version, cs)
           T == ToSet(mapped)
<1>1. \A i \in DOMAIN cs : cs[i] \in S
  BY ListShape
<1>3. RowsOf(mapped, cs, {c \in S : Mapped(c, version)}, [c \in S |-> c])
  <2> DEFINE f == [c \in S |-> Only(Mapped(c, version), c)]
             row == [c \in S |-> c]
             Y == {c \in S : Mapped(c, version)}
  <2>1. \A x \in ToSet(cs) : f[x] = IF x \in Y THEN <<row[x]>> ELSE <<>>
    BY DEF Only
  <2>2. [i \in DOMAIN cs |-> f[cs[i]]] = [i \in DOMAIN cs |-> Only(Mapped(cs[i], version), cs[i])]
    BY <1>1
  <2>3. mapped = FlattenSeq([i \in DOMAIN cs |-> f[cs[i]]])
    BY <2>2 DEF Mappable, Keep, Collect, Each
  <2> HIDE DEF f, row, Y, mapped
  <2>4. RowsOf(FlattenSeq([i \in DOMAIN cs |-> f[cs[i]]]), cs, Y, row)
    BY <2>1, CollectedRows
  <2> QED BY <2>3, <2>4 DEF row, Y
<1>4. IsList(mapped) /\ \A i \in DOMAIN mapped : mapped[i] \in T
  <2>1. IsList(mapped)
    BY <1>3 DEF RowsOf
  <2> QED BY <2>1, ListShape
<1>5. T \subseteq S
  <2> HIDE DEF mapped
  <2>1. T = {[c \in S |-> c][x] : x \in S \cap {c \in S : Mapped(c, version)}}
    BY <1>3 DEF RowsOf
  <2> QED BY <2>1
<1>6. RowsOf(Collect(cs, Held10), cs, {c \in S : Stopped(c)}, [c \in S |-> Row10(c)])
  <2> DEFINE f == [c \in S |-> Held10(c)]
             row == [c \in S |-> Row10(c)]
             Y == {c \in S : Stopped(c)}
  <2>1. \A x \in ToSet(cs) : f[x] = IF x \in Y THEN <<row[x]>> ELSE <<>>
    BY CandidateLands DEF Stopped, Row10
  <2>2. [i \in DOMAIN cs |-> f[cs[i]]] = [i \in DOMAIN cs |-> Held10(cs[i])]
    BY <1>1
  <2>3. Collect(cs, Held10) = FlattenSeq([i \in DOMAIN cs |-> f[cs[i]]])
    BY <2>2 DEF Collect, Each
  <2> HIDE DEF f, row, Y
  <2>4. RowsOf(FlattenSeq([i \in DOMAIN cs |-> f[cs[i]]]), cs, Y, row)
    BY <2>1, CollectedRows
  <2> QED BY <2>3, <2>4 DEF row, Y
<1>7. RowsOf(Stage11(cs, version), cs,
             {c \in S : ~ Stopped(c) /\ ~ Mapped(c, version)}, [c \in S |-> Row11(c)])
  <2> DEFINE f == [c \in S |-> Held11(c, version)]
             row == [c \in S |-> Row11(c)]
             Y == {c \in S : ~ Stopped(c) /\ ~ Mapped(c, version)}
  <2>1. \A x \in ToSet(cs) : f[x] = IF x \in Y THEN <<row[x]>> ELSE <<>>
    BY CandidateLands DEF Stopped, Row11
  <2>2. [i \in DOMAIN cs |-> f[cs[i]]] = [i \in DOMAIN cs |-> Held11(cs[i], version)]
    BY <1>1
  <2>3. Stage11(cs, version) = FlattenSeq([i \in DOMAIN cs |-> f[cs[i]]])
    BY <2>2 DEF Stage11, Collect, Each
  <2> HIDE DEF f, row, Y
  <2>4. RowsOf(FlattenSeq([i \in DOMAIN cs |-> f[cs[i]]]), cs, Y, row)
    BY <2>1, CollectedRows
  <2> QED BY <2>3, <2>4 DEF row, Y
<1> HIDE DEF mapped
<1>8. RowsOf(Stage12(b, mapped), mapped,
             {c \in T : Held12(b, c) # <<>>}, [c \in T |-> Row12(b, c)])
  <2> DEFINE f == [c \in T |-> Held12(b, c)]
             row == [c \in T |-> Row12(b, c)]
             Y == {c \in T : Held12(b, c) # <<>>}
  <2>1. \A x \in ToSet(mapped) : f[x] = IF x \in Y THEN <<row[x]>> ELSE <<>>
    BY <1>5, CandidateLands DEF Row12
  <2>2. [i \in DOMAIN mapped |-> f[mapped[i]]] = [i \in DOMAIN mapped |-> Held12(b, mapped[i])]
    BY <1>4
  <2>3. Stage12(b, mapped) = FlattenSeq([i \in DOMAIN mapped |-> f[mapped[i]]])
    BY <2>2 DEF Stage12, Collect, Each
  <2> HIDE DEF f, row, Y
  <2>4. RowsOf(FlattenSeq([i \in DOMAIN mapped |-> f[mapped[i]]]), mapped, Y, row)
    BY <1>4, <2>1, CollectedRows
  <2> QED BY <2>3, <2>4 DEF row, Y
<1>9. RowsOf(Facts(b, mapped), mapped, {c \in T : Held12(b, c) = <<>>}, [c \in T |-> Fact(b, c)])
  <2> DEFINE f == [c \in T |-> Only(Held12(b, c) = <<>>, Fact(b, c))]
             row == [c \in T |-> Fact(b, c)]
             Y == {c \in T : Held12(b, c) = <<>>}
  <2>1. \A x \in ToSet(mapped) : f[x] = IF x \in Y THEN <<row[x]>> ELSE <<>>
    BY DEF Only
  <2>2. [i \in DOMAIN mapped |-> f[mapped[i]]]
          = [i \in DOMAIN mapped |-> Only(Held12(b, mapped[i]) = <<>>, Fact(b, mapped[i]))]
    BY <1>4
  <2>3. Facts(b, mapped) = FlattenSeq([i \in DOMAIN mapped |-> f[mapped[i]]])
    BY <2>2 DEF Facts, Collect, Each
  <2> HIDE DEF f, row, Y
  <2>4. RowsOf(FlattenSeq([i \in DOMAIN mapped |-> f[mapped[i]]]), mapped, Y, row)
    BY <1>4, <2>1, CollectedRows
  <2> QED BY <2>3, <2>4 DEF row, Y
<1> QED BY <1>3, <1>6, <1>7, <1>8, <1>9, Zenon DEF mapped

\* The entries of q that have an id.
WithId(q, id) == {x \in ToSet(q) : x.id = id}

\* The entries of s in Y that have an id.
Those(s, Y, id) == {x \in ToSet(s) \cap Y : x.id = id}

\* Rows of one stage with an id are of the candidates it stops with that id.
LEMMA RowsWithId ==
  ASSUME NEW q, NEW s, NEW Y, NEW row, RowsOf(q, s, Y, row), NEW id, NEW X,
         \A x \in ToSet(s) \cap Y : row[x].id = x.id,
         \A y \in ToSet(q) : y \in X <=> y.id = id
  PROVE  Times(q, X) = Times(s, Those(s, Y, id))
<1>1. \A x \in ToSet(s) \cap Y : row[x] \in ToSet(q)
  BY DEF RowsOf
<1>2. {x \in ToSet(s) \cap Y : row[x] \in X} = Those(s, Y, id)
  BY <1>1 DEF Those
<1> QED BY <1>2 DEF RowsOf

\* The held rows of the temporal stage.
TimeRows(held) == {h \in ToSet(held) : h.reason \in {"temporal_unmapped", "invalid_temporal_order"}}

\* The candidates are counted: each is one fact or one held row of its id, and
\* each mapped one is a fact or held for its time.
Landed(cs, mapped, facts, held) ==
  /\ IsList(mapped) /\ IsList(facts) /\ IsList(held)
  /\ \A id : Times(facts, WithId(facts, id)) + Times(held, WithId(held, id)) = Times(cs, WithId(cs, id))
  /\ Len(mapped) = Len(facts) + Times(held, TimeRows(held))

\* The lists Stages 10 to 12 make of the candidates account for each of them.
LEMMA CandidatesLand ==
  ASSUME NEW b, NEW version, NEW cs, IsList(cs), \A c \in ToSet(cs) : ClaimKind(c)
  PROVE  LET mapped == Mappable(version, cs)
         IN Landed(cs, mapped, Facts(b, mapped), HeldRows(b, version, cs, mapped))
<1> DEFINE S == ToSet(cs)
           mapped == Mappable(version, cs)
           T == ToSet(mapped)
           facts == Facts(b, mapped)
           h10 == Collect(cs, Held10)
           h11 == Stage11(cs, version)
           h12 == Stage12(b, mapped)
           held == HeldRows(b, version, cs, mapped)
           M == {c \in S : Mapped(c, version)}
           Y10 == {c \in S : Stopped(c)}
           Y11 == {c \in S : ~ Stopped(c) /\ ~ Mapped(c, version)}
           Y12 == {c \in T : Held12(b, c) # <<>>}
           YF == {c \in T : Held12(b, c) = <<>>}
           r10 == [c \in S |-> Row10(c)]
           r11 == [c \in S |-> Row11(c)]
           r12 == [c \in T |-> Row12(b, c)]
           rF == [c \in T |-> Fact(b, c)]
           rM == [c \in S |-> c]
           time == {"temporal_unmapped", "invalid_temporal_order"}
<1>1. /\ RowsOf(mapped, cs, M, rM) /\ RowsOf(h10, cs, Y10, r10) /\ RowsOf(h11, cs, Y11, r11)
      /\ RowsOf(h12, mapped, Y12, r12) /\ RowsOf(facts, mapped, YF, rF)
  BY StageLists, Zenon
<1>2. held = (h10 \o h11) \o h12
  BY DEF HeldRows, Stage11, Stage12
<1>3. /\ \A c \in Y10 : r10[c].id = c.id /\ r10[c].reason \notin time
      /\ \A c \in Y11 : r11[c].id = c.id /\ r11[c].reason \notin time
      /\ \A c \in Y12 : r12[c].id = c.id /\ r12[c].reason \in time
      /\ \A c \in YF : rF[c].id = c.id
  BY DEF Row10, Row11, Row12, Fact, heldRecord, ClaimKind
<1>4. \A c \in S : Mapped(c, version) => ~ Stopped(c)
  BY CandidateLands DEF Stopped
<1>5. T = M
  <2>1. T = {rM[x] : x \in S \cap M}
    <3> HIDE DEF mapped, rM, M
    <3> QED BY <1>1 DEF RowsOf
  <2> HIDE DEF T
  <2> QED BY <2>1
<1>6. M \subseteq S /\ Y10 \subseteq S /\ Y11 \subseteq S /\ Y12 \subseteq T /\ YF \subseteq T
  OBVIOUS
<1>7. Y12 \cup YF = T /\ Y12 \cap YF = {}
  OBVIOUS
<1>8. /\ Y10 \cap Y11 = {} /\ (Y10 \cup Y11) \cap M = {} /\ Y10 \cup Y11 \cup M = S
  BY <1>4
<1> HIDE DEF mapped, facts, h10, h11, h12, held, M, Y10, Y11, Y12, YF, r10, r11, r12, rF
<1>9. IsList(mapped) /\ IsList(facts) /\ IsList(h10) /\ IsList(h11) /\ IsList(h12)
  BY <1>1 DEF RowsOf
<1>10. IsList(h10 \o h11) /\ IsList(held)
  BY <1>2, <1>9, JoinedLists
<1>11. \A X : Times(held, X) = (Times(h10, X) + Times(h11, X)) + Times(h12, X)
  BY <1>2, <1>9, <1>10, TimesJoined
<1>12. ToSet(held) = (ToSet(h10) \cup ToSet(h11)) \cup ToSet(h12)
  BY <1>2, <1>9, <1>10, JoinedSets
<1>13. ASSUME NEW Z, Z \subseteq T PROVE Times(mapped, Z) = Times(cs, Z)
  <2>1. {x \in ToSet(cs) \cap M : rM[x] \in Z} = Z
    BY <1>5, <1>6, <1>13
  <2> HIDE DEF rM
  <2> QED BY <1>1, <2>1 DEF RowsOf
<1>14. ASSUME NEW id
       PROVE  Times(facts, WithId(facts, id)) + Times(held, WithId(held, id)) = Times(cs, WithId(cs, id))
  <2> DEFINE A == {x \in S \cap Y10 : x.id = id}
             B == {x \in S \cap Y11 : x.id = id}
             C == {x \in T \cap Y12 : x.id = id}
             D == {x \in T \cap YF : x.id = id}
             X == WithId(held, id)
  <2>1. /\ \A y \in ToSet(h10) : y \in X <=> y.id = id
        /\ \A y \in ToSet(h11) : y \in X <=> y.id = id
        /\ \A y \in ToSet(h12) : y \in X <=> y.id = id
    BY <1>12 DEF WithId
  <2>2. \A y \in ToSet(facts) : y \in WithId(facts, id) <=> y.id = id
    BY DEF WithId
  <2> HIDE DEF X
  <2>3. Times(h10, X) = Times(cs, A) /\ Times(h11, X) = Times(cs, B)
    <3>1. \A x \in ToSet(cs) \cap Y10 : r10[x].id = x.id
      BY <1>3
    <3>2. \A x \in ToSet(cs) \cap Y11 : r11[x].id = x.id
      BY <1>3
    <3>3. Times(h10, X) = Times(cs, Those(cs, Y10, id))
      BY <1>1, <2>1, <3>1, RowsWithId
    <3>4. Times(h11, X) = Times(cs, Those(cs, Y11, id))
      BY <1>1, <2>1, <3>2, RowsWithId
    <3> QED BY <3>3, <3>4 DEF Those
  <2>4. Times(h12, X) = Times(mapped, C) /\ Times(facts, WithId(facts, id)) = Times(mapped, D)
    <3>1. \A x \in ToSet(mapped) \cap Y12 : r12[x].id = x.id
      BY <1>3
    <3>2. \A x \in ToSet(mapped) \cap YF : rF[x].id = x.id
      BY <1>3
    <3>3. Times(h12, X) = Times(mapped, Those(mapped, Y12, id))
      BY <1>1, <2>1, <3>1, RowsWithId
    <3>4. Times(facts, WithId(facts, id)) = Times(mapped, Those(mapped, YF, id))
      BY <1>1, <2>2, <3>2, RowsWithId
    <3> QED BY <3>3, <3>4 DEF Those
  <2>5. Times(mapped, C) = Times(cs, C) /\ Times(mapped, D) = Times(cs, D)
    BY <1>13
  <2>6. /\ A \cap B = {} /\ (A \cup B) \cap C = {} /\ ((A \cup B) \cup C) \cap D = {}
        /\ ((A \cup B) \cup C) \cup D = WithId(cs, id)
    BY <1>5, <1>6, <1>7, <1>8 DEF WithId
  <2> HIDE DEF A, B, C, D
  <2>7. Times(cs, A \cup B) = Times(cs, A) + Times(cs, B)
    BY <2>6, TimesSplit
  <2>8. Times(cs, (A \cup B) \cup C) = Times(cs, A \cup B) + Times(cs, C)
    BY <2>6, TimesSplit
  <2>9. Times(cs, ((A \cup B) \cup C) \cup D) = Times(cs, (A \cup B) \cup C) + Times(cs, D)
    BY <2>6, TimesSplit
  <2>10. Times(held, X) = (Times(cs, A) + Times(cs, B)) + Times(cs, C)
    BY <1>11, <2>3, <2>4, <2>5
  <2>11. Times(facts, WithId(facts, id)) = Times(cs, D)
    BY <2>4, <2>5
  <2>12. Times(cs, WithId(cs, id)) = ((Times(cs, A) + Times(cs, B)) + Times(cs, C)) + Times(cs, D)
    BY <2>6, <2>7, <2>8, <2>9
  <2>13. Times(cs, A) \in Nat /\ Times(cs, B) \in Nat /\ Times(cs, C) \in Nat /\ Times(cs, D) \in Nat
    BY TimesType
  <2> DEFINE p == (Times(cs, A) + Times(cs, B)) + Times(cs, C)
             q == Times(cs, D)
  <2>14. p \in Nat /\ q \in Nat
    BY <2>13
  <2>15. Times(facts, WithId(facts, id)) + Times(held, X) = q + p
    BY <2>10, <2>11
  <2>16. Times(cs, WithId(cs, id)) = p + q
    BY <2>12
  <2> HIDE DEF p, q
  <2>17. p + q = q + p
    BY <2>14
  <2> QED BY <2>15, <2>16, <2>17 DEF X
<1>15. Len(mapped) = Len(facts) + Times(held, TimeRows(held))
  <2> DEFINE X == {h \in ToSet(held) : h.reason \in time}
             none == {}
  <2>1. (\A y \in ToSet(h10) : y \notin X) /\ (\A y \in ToSet(h11) : y \notin X) /\ \A y \in ToSet(h12) : y \in X
    BY <1>1, <1>3, <1>12 DEF RowsOf
  <2> HIDE DEF X
  <2>2. Times(h10, X) = 0 /\ Times(h11, X) = 0 /\ Times(h12, X) = Len(h12)
    BY <1>9, <2>1, TimesAll
  <2>3. Len(h12) = Times(mapped, Y12) /\ Len(facts) = Times(mapped, YF)
    BY <1>1 DEF RowsOf
  <2>4. Times(mapped, Y12 \cup YF) = Times(mapped, Y12) + Times(mapped, YF)
    BY <1>7, <1>9, TimesSplit
  <2>5. Times(mapped, Y12 \cup YF) = Len(mapped)
    BY <1>7, <1>9, TimesAll
  <2>6. Times(mapped, Y12) \in Nat /\ Times(mapped, YF) \in Nat
    BY <1>9, TimesType
  <2>7. Times(held, X) = (0 + 0) + Times(mapped, Y12)
    BY <1>11, <2>2, <2>3
  <2> DEFINE p == Times(mapped, Y12)
             q == Times(mapped, YF)
  <2>8. p \in Nat /\ q \in Nat /\ Times(held, X) = (0 + 0) + p /\ Len(facts) = q /\ Len(mapped) = p + q
    BY <2>3, <2>4, <2>5, <2>6, <2>7
  <2> HIDE DEF p, q
  <2>9. Len(mapped) = Len(facts) + Times(held, X)
    BY <2>8
  <2>10. X = TimeRows(held)
    BY DEF X, TimeRows
  <2> QED BY <2>9, <2>10
<1>16. Landed(cs, mapped, facts, held)
  BY <1>9, <1>10, <1>14, <1>15 DEF Landed
<1> QED BY <1>16, Zenon DEF mapped, facts, held

\* The metrics of Stages 11 and 12.
LEMMA MetricsCount ==
  ASSUME NEW b, NEW entities, NEW candidates, NEW mapped, NEW facts, NEW held, IsList(held)
  PROVE  LET m == StageMetrics(b, entities, candidates, mapped, facts, held)
         IN /\ m["s11"] = <<Len(candidates), Len(mapped), Len(candidates) - Len(mapped)>>
            /\ m["s12"] = <<Len(mapped), Len(facts), Times(held, TimeRows(held))>>
<1> DEFINE R == {"temporal_unmapped", "invalid_temporal_order"}
           H == ToSet(held)
           Y == {h \in H : h.reason \in R}
           f == [h \in H |-> Only(h.reason \in R, h)]
           row == [h \in H |-> h]
           kept == Keep(held, LAMBDA h : h.reason \in R)
           m == StageMetrics(b, entities, candidates, mapped, facts, held)
<1>1. \A h \in ToSet(held) : f[h] = IF h \in Y THEN <<row[h]>> ELSE <<>>
  BY DEF Only
<1>2. [i \in DOMAIN held |-> f[held[i]]] = [i \in DOMAIN held |-> Only(held[i].reason \in R, held[i])]
  <2>1. \A i \in DOMAIN held : held[i] \in H
    BY ListShape
  <2> QED BY <2>1
<1>3. kept = FlattenSeq([i \in DOMAIN held |-> f[held[i]]])
  BY <1>2 DEF Keep, Collect, Each
<1>4. m["s11"] = <<Len(candidates), Len(mapped), Len(candidates) - Len(mapped)>>
      /\ m["s12"] = <<Len(mapped), Len(facts), Len(kept)>>
  BY DEF StageMetrics
<1>5. Len(kept) = Times(held, Y)
  <2> HIDE DEF f, row, Y, kept
  <2>1. RowsOf(kept, held, Y, row)
    BY <1>1, <1>3, CollectedRows
  <2> QED BY <2>1 DEF RowsOf
<1>6. Y = TimeRows(held)
  BY DEF TimeRows
<1> HIDE DEF kept, m, Y
<1> QED BY <1>4, <1>5, <1>6 DEF m

\* The ids of the entries of a list.
OfIds(q) == [i \in DOMAIN q |-> q[i].id]

\* The ids of a list, counted as its rows.
LEMMA IdsCount ==
  ASSUME NEW q, IsList(q), NEW id
  PROVE  IsList(OfIds(q)) /\ Times(OfIds(q), {id}) = Times(q, WithId(q, id))
<1> DEFINE u == OfIds(q)
<1>1. DOMAIN u = DOMAIN q /\ (\A i \in DOMAIN q : u[i] = q[i].id) /\ u = [i \in DOMAIN q |-> u[i]]
  BY DEF OfIds
<1>2. \A i \in DOMAIN q : q[i] \in ToSet(q)
  BY ListShape
<1> HIDE DEF u
<1>3. IsList(u)
  BY <1>1, MappedList
<1>4. \A i \in DOMAIN u : u[i] \in {id} <=> q[i] \in WithId(q, id)
  BY <1>1, <1>2 DEF WithId
<1>5. Times(u, {id}) = Times(q, WithId(q, id))
  BY <1>1, <1>4, TimesSame
<1> QED BY <1>3, <1>5 DEF u

\* No candidate is lost and none is decided twice, whatever the batch says: each
\* is one fact or one held row, and the metrics of Stages 11 and 12 add up
\* (buildPipelineDecision).
THEOREM CandidatesDecided == Spec => []EveryCandidateLands
<1>1. GateInv => EveryCandidateLands
  <2> SUFFICES ASSUME GateInv, decision # NoDecision PROVE EveryCandidateLands
    BY DEF EveryCandidateLands
  <2>1. request \in Request /\ stage \notin {"idle", "refused"} /\ DecisionInv
    BY DEF GateInv, StageInv
  <2>2. Readable(batch)
    BY <2>1, DecidedType
  <2>3. PICK v \in Version : decision = Decision(batch, v)
    BY <2>1 DEF DecisionInv
  <2> DEFINE cs == Candidates(batch)
             mapped == Mappable(v, cs)
  <2>4. decision = DecisionRow(batch, v, cs, Entities(batch), mapped,
                               Facts(batch, mapped), HeldRows(batch, v, cs, mapped))
    BY <2>3 DEF Decision, DecisionOn, DecisionFrom
  <2>5. IsList(cs) /\ \A c \in ToSet(cs) : ClaimKind(c)
    <3>1. IsList(cs)
      BY <2>2, CandidatesType
    <3>2. ASSUME NEW c \in ToSet(cs) PROVE ClaimKind(c)
      <4>1. PICK k \in DOMAIN batch.chunks :
              \E claim \in ToSet(ChunkClaims(batch.chunks[k], Keep(batch.mentions, LAMBDA m : m.chunk = k))) :
                c = Candidate(batch, k, claim)
        BY <2>2, CandidatesType
      <4> DEFINE ms == Keep(batch.mentions, LAMBDA m : m.chunk = k)
      <4>2. PICK claim \in ToSet(ChunkClaims(batch.chunks[k], ms)) : c = Candidate(batch, k, claim)
        BY <4>1
      <4> HIDE DEF ms
      <4>3. ClaimKind(claim)
        BY <2>2, ClaimKinds DEF Readable
      <4>4. c.confidence = claim.confidence /\ c.hold = claim.hold
        BY <4>2 DEF Candidate
      <4> QED BY <4>3, <4>4 DEF ClaimKind
    <3> QED BY <3>1, <3>2
  <2> HIDE DEF cs
  <2>6. Landed(cs, mapped, Facts(batch, mapped), HeldRows(batch, v, cs, mapped))
    BY <2>5, CandidatesLand, Zenon
  <2> HIDE DEF mapped
  <2>7. /\ decision.candidates = cs /\ decision.facts = Facts(batch, mapped)
        /\ decision.held = HeldRows(batch, v, cs, mapped)
        /\ decision.metrics = StageMetrics(batch, Entities(batch), cs, mapped, decision.facts, decision.held)
    BY <2>4 DEF DecisionRow
  <2> DEFINE candidates == decision.candidates
             facts == decision.facts
             held == decision.held
  <2>8. IsList(candidates) /\ Landed(candidates, mapped, facts, held)
    BY <2>5, <2>6, <2>7
  <2>9. ASSUME NEW id
        PROVE  Cardinality({i \in DOMAIN (OfIds(facts) \o OfIds(held)) : (OfIds(facts) \o OfIds(held))[i] = id})
                 = Cardinality({i \in DOMAIN OfIds(candidates) : OfIds(candidates)[i] = id})
    <3> HIDE DEF candidates, facts, held
    <3> DEFINE rows == OfIds(facts) \o OfIds(held)
               ids == OfIds(candidates)
    <3>1. /\ IsList(OfIds(facts)) /\ Times(OfIds(facts), {id}) = Times(facts, WithId(facts, id))
          /\ IsList(OfIds(held)) /\ Times(OfIds(held), {id}) = Times(held, WithId(held, id))
          /\ Times(ids, {id}) = Times(candidates, WithId(candidates, id))
      BY <2>8, IdsCount DEF Landed
    <3>2. Times(rows, {id}) = Times(OfIds(facts), {id}) + Times(OfIds(held), {id})
      BY <3>1, TimesJoined
    <3> HIDE DEF rows, ids
    <3>3. Times(rows, {id}) = Times(ids, {id})
      BY <2>8, <3>1, <3>2 DEF Landed
    <3>4. /\ {i \in DOMAIN rows : rows[i] \in {id}} = {i \in DOMAIN rows : rows[i] = id}
          /\ {i \in DOMAIN ids : ids[i] \in {id}} = {i \in DOMAIN ids : ids[i] = id}
      OBVIOUS
    <3>5. Cardinality({i \in DOMAIN rows : rows[i] = id}) = Cardinality({i \in DOMAIN ids : ids[i] = id})
      BY <3>3, <3>4 DEF Times
    <3> QED BY <3>5 DEF rows, ids
  <2>10. \A k \in {"s11", "s12"} : LET m == decision.metrics[k] IN m[1] = m[2] + m[3]
    <3> DEFINE a == Len(cs)
               p == Len(mapped)
               q == Len(facts)
               l == Times(held, TimeRows(held))
    <3>1. IsList(held)
      BY <2>8 DEF Landed
    <3>2. decision.metrics["s11"] = <<a, p, a - p>> /\ decision.metrics["s12"] = <<p, q, l>>
      BY <2>7, <3>1, MetricsCount
    <3>3. a \in Nat /\ p \in Nat /\ p = q + l
      BY <2>5, <2>8, ListShape DEF Landed
    <3> HIDE DEF a, p, q, l
    <3>4. a = p + (a - p)
      BY <3>3
    <3> QED BY <3>2, <3>3, <3>4
  <2> QED BY <2>9, <2>10 DEF EveryCandidateLands, OfIds
<1> QED BY <1>1, GateInvariant, PTL

-----------------------------------------------------------------------------
(* The words of a claim. *)

\* The greatest and the least of some numbers up to n.
LEMMA Extremes ==
  ASSUME NEW n \in Nat, NEW S \in SUBSET (0 .. n), S # {}
  PROVE  /\ Max(S) \in S /\ \A y \in S : y <= Max(S)
         /\ Min(S) \in S /\ \A y \in S : Min(S) <= y
<1>1. \E x \in S : \A y \in S : x <= y
  <2>1. S \in SUBSET Nat
    OBVIOUS
  <2> QED BY <2>1, LeastElement
<1>2. \E x \in S : \A y \in S : x >= y
  <2> DEFINE T == {k \in Nat : n - k \in S}
  <2>1. T \in SUBSET Nat /\ T # {}
    <3>1. PICK x \in S : TRUE
      OBVIOUS
    <3>2. n - x \in Nat /\ n - (n - x) = x
      OBVIOUS
    <3>3. n - x \in T
      BY <3>1, <3>2
    <3> QED BY <3>3
  <2>2. PICK k \in T : \A l \in T : k <= l
    <3> HIDE DEF T
    <3> QED BY <2>1, LeastElement
  <2>3. n - k \in S
    BY <2>2
  <2>4. ASSUME NEW y \in S PROVE n - k >= y
    <3>1. y \in Nat /\ y <= n /\ n - y \in Nat /\ n - (n - y) = y
      OBVIOUS
    <3>2. n - y \in T
      BY <3>1
    <3>3. k <= n - y
      BY <2>2, <3>2
    <3>4. k \in Nat
      BY <2>2
    <3> QED BY <3>1, <3>3, <3>4
  <2> QED BY <2>3, <2>4
<1>3. S \subseteq Int
  OBVIOUS
<1>4. Max(S) \in S /\ \A y \in S : Max(S) >= y
  BY <1>2, Zenon DEF Max
<1>5. Min(S) \in S /\ \A y \in S : Min(S) <= y
  BY <1>1, Zenon DEF Min
<1> QED BY <1>3, <1>4, <1>5

\* The sentence around a word: no mark stands between its ends.
LEMMA SentenceBounds ==
  ASSUME NEW text, IsList(text), NEW p \in 1 .. Len(text)
  PROVE  LET a == SentenceFrom(text, p)
             b == SentenceTo(text, p)
         IN /\ a \in 1 .. p /\ b \in p .. Len(text)
            /\ \A i \in a .. p - 1 : text[i] \notin SentenceEnd
            /\ \A i \in p + 1 .. b - 1 : text[i] \notin SentenceEnd
            /\ b = Len(text) \/ text[b] \in SentenceEnd
            /\ \A i \in 1 .. p - 1 : (\A j \in i .. p - 1 : text[j] \notin SentenceEnd) => a <= i
<1> DEFINE n == Len(text)
           A == {0} \cup {i \in 1 .. p - 1 : text[i] \in SentenceEnd}
           B == {n} \cup {i \in p + 1 .. n : text[i] \in SentenceEnd}
           x == Max(A)
           b == Min(B)
<1>1. n \in Nat /\ p \in 1 .. n
  BY ListShape
<1>2. SentenceFrom(text, p) = x + 1 /\ SentenceTo(text, p) = b
  BY DEF SentenceFrom, SentenceTo
<1>3. A \in SUBSET (0 .. n) /\ A # {} /\ B \in SUBSET (0 .. n) /\ B # {}
  <2> HIDE DEF n
  <2> QED BY <1>1
<1>4. x \in A /\ (\A y \in A : y <= x) /\ b \in B /\ \A y \in B : b <= y
  <2> HIDE DEF A, B, n
  <2> QED BY <1>1, <1>3, Extremes
<1> HIDE DEF x, b, n
<1>5. x \in 0 .. p - 1 /\ b \in p .. n
  BY <1>1, <1>4
<1>6. \A i \in x + 1 .. p - 1 : text[i] \notin SentenceEnd
  <2> SUFFICES ASSUME NEW i \in x + 1 .. p - 1, text[i] \in SentenceEnd PROVE FALSE
    OBVIOUS
  <2>1. i \in A /\ i > x
    BY <1>1, <1>5
  <2> QED BY <1>4, <1>5, <2>1
<1>7. \A i \in p + 1 .. b - 1 : text[i] \notin SentenceEnd
  <2> SUFFICES ASSUME NEW i \in p + 1 .. b - 1, text[i] \in SentenceEnd PROVE FALSE
    OBVIOUS
  <2>1. i \in B /\ i < b
    BY <1>1, <1>5
  <2> QED BY <1>4, <1>5, <2>1
<1>8. b = n \/ text[b] \in SentenceEnd
  BY <1>4
<1>9. ASSUME NEW i \in 1 .. p - 1, \A j \in i .. p - 1 : text[j] \notin SentenceEnd PROVE x + 1 <= i
  <2>1. SUFFICES ASSUME x >= i PROVE FALSE
    BY <1>5
  <2>2. x \in i .. p - 1 /\ x # 0
    BY <1>5, <2>1
  <2>3. text[x] \in SentenceEnd
    BY <1>4, <2>2
  <2> QED BY <1>9, <2>2, <2>3
<1> QED BY <1>1, <1>2, <1>5, <1>6, <1>7, <1>8, <1>9 DEF n

\* A relation word w binds s to o: they stand in one sentence around it that
\* neither asks nor denies, but for what the names between them are made of.
Binds(text, names, s, o, w) ==
  /\ s \in DOMAIN text /\ o \in DOMAIN text /\ s < o
  /\ \A i \in DOMAIN text : s < i /\ i < o /\ i \notin names => text[i] \notin SentenceEnd \cup Negation
  /\ \E i \in DOMAIN text : s < i /\ i < o /\ text[i] = w
  /\ \E e \in o .. Len(text) + 1 : /\ e = Len(text) + 1 \/ text[e] = "."
                                   /\ \A i \in o .. e - 1 : text[i] \notin SentenceEnd

\* A claim of the explicit form does so, between two mentions.
Said(text, ms, names, c) ==
  /\ c.confidence = explicit /\ c.subject \in ms /\ c.object \in ms
  /\ Binds(text, names, c.subject.at, c.object.at, c.predicate)

\* The words of a joint.
JointWord == {"and", ","}

\* No relation word is a mark or denies, and the marks are two.
LEMMA WordsApart ==
  /\ \A w \in RelationWord : w \notin SentenceEnd \cup Negation
  /\ \A w \in JointWord : w \notin SentenceEnd \cup Negation
  /\ \A w \in SentenceEnd : w = "." \/ w = "?"
  BY DEF RelationWord, SentenceEnd, Negation, JointWord

\* A relation word binds a subject before it, with no sentence between, to an
\* object of its sentence that neither asks nor denies.
LEMMA BoundHere ==
  ASSUME NEW text, IsList(text), NEW names, NEW p \in 1 .. Len(text), text[p] \in RelationWord,
         NEW s \in Int, NEW o \in Int,
         1 <= s, s < p, p < o, o <= SentenceTo(text, p),
         \A i \in s + 1 .. p - 1 : i \notin names => text[i] \notin SentenceEnd \cup Negation,
         "?" \notin TokensAt(text, SentenceFrom(text, p), SentenceTo(text, p)),
         TokensAt(text, SentenceFrom(text, p), o - 1) \cap Negation = {}
  PROVE  Binds(text, names, s, o, text[p])
<1> DEFINE a == SentenceFrom(text, p)
           b == SentenceTo(text, p)
           n == Len(text)
<1>1. n \in Nat /\ DOMAIN text = 1 .. n
  BY ListShape
<1>2. /\ a \in 1 .. p /\ b \in p .. n
      /\ \A i \in a .. p - 1 : text[i] \notin SentenceEnd
      /\ \A i \in p + 1 .. b - 1 : text[i] \notin SentenceEnd
      /\ b = n \/ text[b] \in SentenceEnd
  BY SentenceBounds
<1>3. o <= b /\ p \in 1 .. n /\ "?" \notin TokensAt(text, a, b) /\ TokensAt(text, a, o - 1) \cap Negation = {}
  OBVIOUS
<1> HIDE DEF a, b, n
<1>4. p \in 1 .. n /\ a \in Int /\ b \in Int
  BY <1>1, <1>2, <1>3
<1>5. s \in 1 .. n /\ o \in 1 .. n
  BY <1>1, <1>2, <1>3, <1>4
<1>6. ASSUME NEW i \in a .. b PROVE text[i] # "?" /\ (i < o => text[i] \notin Negation)
  <2>1. i \in 1 .. n /\ a <= i /\ i <= b /\ (i < o => i <= o - 1)
    BY <1>1, <1>2, <1>4, <1>5
  <2>2. text[i] \in TokensAt(text, a, b) /\ (i < o => text[i] \in TokensAt(text, a, o - 1))
    BY <1>1, <2>1 DEF TokensAt
  <2> QED BY <1>3, <2>2
<1>7. ASSUME NEW i \in 1 .. n, s < i, i < o, i \notin names PROVE text[i] \notin SentenceEnd \cup Negation
  <2>1. CASE i < p
    <3>1. i \in s + 1 .. p - 1
      BY <1>4, <1>7, <2>1
    <3> QED BY <1>7, <3>1
  <2>2. CASE i = p
    BY <2>2, WordsApart
  <2>3. CASE i > p
    <3>1. i \in a .. b /\ i \in p + 1 .. b - 1
      BY <1>1, <1>2, <1>3, <1>4, <1>7, <2>3
    <3> QED BY <1>2, <1>6, <1>7, <3>1
  <2> QED BY <1>4, <2>1, <2>2, <2>3
<1>8. \E e \in o .. n + 1 : (e = n + 1 \/ text[e] = ".") /\ \A i \in o .. e - 1 : text[i] \notin SentenceEnd
  <2>1. \A i \in o .. b - 1 : text[i] \notin SentenceEnd
    BY <1>2, <1>3, <1>4, <1>5
  <2>2. CASE text[b] \in SentenceEnd
    <3>1. b \in a .. b /\ b \in o .. n + 1
      BY <1>1, <1>2, <1>3, <1>4, <1>5
    <3>2. text[b] = "."
      BY <1>6, <2>2, <3>1, WordsApart
    <3> QED BY <2>1, <3>1, <3>2
  <2>3. CASE text[b] \notin SentenceEnd
    <3>1. b = n /\ n + 1 \in o .. n + 1
      BY <1>1, <1>2, <1>3, <1>4, <1>5, <2>3
    <3>2. \A i \in o .. (n + 1) - 1 : text[i] \notin SentenceEnd
      <4> TAKE i \in o .. (n + 1) - 1
      <4>1. i \in o .. b - 1 \/ i = b
        BY <1>1, <1>5, <3>1
      <4> QED BY <2>1, <2>3, <4>1
    <3> QED BY <3>1, <3>2
  <2> QED BY <2>2, <2>3
<1> QED BY <1>1, <1>4, <1>5, <1>7, <1>8 DEF Binds, n

\* The joints of a coordination.
Joint(u) == u \in {<<"and">>, <<",", "and">>}

\* A list of words out of W that is not empty.
WordsOf(u, W) == Len(u) # 0 /\ \A i \in 1 .. Len(u) : u[i] \in W

\* One word, and two words, are such lists.
LEMMA ShortWords ==
  ASSUME NEW W, NEW x \in W, NEW y \in W
  PROVE  WordsOf(<<x>>, W) /\ WordsOf(<<x, y>>, W)
<1>1. WordsOf(<<x>>, W)
  BY DEF WordsOf
<1>2. WordsOf(<<x, y>>, W)
  BY DEF WordsOf
<1> QED BY <1>1, <1>2

\* The words of a joint.
LEMMA JointsOnly == \A u : Joint(u) => WordsOf(u, JointWord)
<1>1. "and" \in JointWord /\ "," \in JointWord
  BY Zenon DEF JointWord
<1>2. WordsOf(<<"and">>, JointWord) /\ WordsOf(<<",", "and">>, JointWord)
  BY <1>1, ShortWords, Zenon
<1> QED BY <1>2, Zenon DEF Joint

\* What stands between two places, when it is one of the supported joints.
LEMMA JointWords ==
  ASSUME NEW text, IsList(text), NEW o \in 1 .. Len(text), NEW p \in 1 .. Len(text),
         Joint(SubSeq(text, o + 1, p - 1))
  PROVE  o < p /\ \A i \in o + 1 .. p - 1 : text[i] \in JointWord
<1> DEFINE T == ToSet(text)
           u == SubSeq(text, o + 1, p - 1)
           n == Len(text)
<1>1. text \in Seq(T) /\ n \in Nat /\ o \in 1 .. n /\ p \in 1 .. n
  BY ListShape DEF IsList
<1>2. Len(u) # 0 /\ \A i \in 1 .. Len(u) : u[i] \in JointWord
  <2>1. WordsOf(u, JointWord)
    BY JointsOnly, Zenon
  <2> HIDE DEF u
  <2> QED BY <2>1 DEF WordsOf
<1> HIDE DEF T
<1>3. CASE o + 1 > p - 1
  <2>1. Len(u) = 0
    BY <1>1, <1>3
  <2> QED BY <1>2, <2>1
<1>4. CASE o + 1 <= p - 1
  <2>1. o < p
    BY <1>1, <1>4
  <2>2. Len(u) = (p - 1) - o /\ \A i \in 1 .. (p - 1) - o : u[i] = text[o + i]
    BY <1>1, <1>4
  <2> HIDE DEF u, n
  <2>3. ASSUME NEW i \in o + 1 .. p - 1 PROVE text[i] \in JointWord
    <3>1. i - o \in 1 .. (p - 1) - o /\ o + (i - o) = i
      BY <1>1
    <3>2. i - o \in 1 .. Len(u) /\ u[i - o] = text[i]
      BY <2>2, <3>1
    <3>3. u[i - o] \in JointWord
      BY <1>2, <3>2
    <3> QED BY <3>2, <3>3
  <2> QED BY <2>1, <2>3
<1>5. o + 1 > p - 1 \/ o + 1 <= p - 1
  BY <1>1
<1> QED BY <1>3, <1>4, <1>5, Zenon

\* The subject that is carried is that of a previous claim, over a joint.
LEMMA CarriedOver ==
  ASSUME NEW text, NEW prev, NEW p, NEW x \in Coordinated(text, prev, p)
  PROVE  \E d \in prev : x = d.subject /\ Joint(SubSeq(text, d.object.at + 1, p - 1))
  BY Zenon DEF Coordinated, Joint

\* The first of some mentions of a list is one of them.
LEMMA FirstType ==
  ASSUME NEW ms, IsList(ms), NEW S, S \subseteq ToSet(ms), S # {}
  PROVE  First(ms, S) \in S
<1> DEFINE q == Keep(ms, LAMBDA m : m \in S)
           test == [i \in DOMAIN ms |-> ms[i] \in S]
           p == [i \in DOMAIN ms |-> IF test[i] THEN <<ms[i]>> ELSE <<>>]
<1>1. p = [i \in DOMAIN ms |-> IF ms[i] \in S THEN <<ms[i]>> ELSE <<>>]
  OBVIOUS
<1>2. q = FlattenSeq(p)
  <2> HIDE DEF p
  <2> QED BY <1>1 DEF Keep, Collect, Each, Only
<1>3. IsList(q) /\ ToSet(q) = {ms[i] : i \in {j \in DOMAIN ms : test[j]}}
  <2> HIDE DEF q, test
  <2> QED BY <1>2, FilteredList
<1>4. ToSet(q) = S
  <2>1. \A x \in ToSet(ms) : \E i \in DOMAIN ms : x = ms[i]
    BY DEF ToSet
  <2> HIDE DEF q
  <2> QED BY <1>3, <2>1
<1>5. First(ms, S) = q[1]
  BY DEF First
<1> HIDE DEF q, test
<1>6. q # <<>>
  <2>1. ToSet(<<>>) = {}
    BY DEF ToSet
  <2> QED BY <1>4, <2>1
<1>7. 1 \in DOMAIN q
  BY <1>3, <1>6, ListShape
<1> QED BY <1>4, <1>5, <1>7 DEF ToSet

\* Each step of the parser makes at most one claim more, and the words say it:
\* a subject that is carried is bound by the words of the previous claim, of
\* the joint and up to the object.
LEMMA SaidStep ==
  ASSUME NEW text, IsList(text), NEW ms, IsList(ms), NEW names,
         \A m \in ToSet(ms) : m.at \in Int /\ m.at \in names,
         NEW p \in 1 .. Len(text), text[p] \in RelationWord,
         NEW acc, \A c \in acc.prev : Said(text, ToSet(ms), names, c)
  PROVE  \/ ExplicitStep(text, ms, acc, p) = acc
         \/ \E x : /\ Said(text, ToSet(ms), names, x)
                   /\ ExplicitStep(text, ms, acc, p).claims = Append(acc.claims, x)
                   /\ ExplicitStep(text, ms, acc, p).prev \subseteq {x}
<1> DEFINE a == SentenceFrom(text, p)
           b == SentenceTo(text, p)
           inside == {m \in ToSet(ms) : a <= m.at /\ m.at <= b}
           carried == Coordinated(text, acc.prev, p)
           subjects == IF carried # {} THEN carried ELSE NearestBefore(inside, p)
           objects == NearestAfter(inside, p)
           subject == First(ms, subjects)
           object == First(ms, objects)
           claim(h) == [subject |-> subject, object |-> object, predicate |-> text[p],
                        confidence |-> explicit, basis |-> "explicit", hold |-> h]
<1>1. \/ ExplicitStep(text, ms, acc, p) = acc
      \/ /\ ~ Denied(text, p, objects) /\ subjects # {} /\ objects # {}
         /\ \E h : /\ ExplicitStep(text, ms, acc, p).claims = Append(acc.claims, claim(h))
                   /\ ExplicitStep(text, ms, acc, p).prev \subseteq {claim(h)}
  BY DEF ExplicitStep
<1>2. SUFFICES ASSUME ~ Denied(text, p, objects), subjects # {}, objects # {}, NEW h
               PROVE  Said(text, ToSet(ms), names, claim(h))
  <2> HIDE DEF claim, objects, subjects
  <2> QED BY <1>1
<1>3. subject \in subjects /\ object \in objects
  <2>1. inside \subseteq ToSet(ms) /\ objects \subseteq ToSet(ms)
    BY DEF NearestAfter
  <2>2. subjects \subseteq ToSet(ms)
    <3>1. carried \subseteq ToSet(ms)
      <4>1. ASSUME NEW x \in carried PROVE x \in ToSet(ms)
        <5>1. PICK d \in acc.prev : x = d.subject
          BY CarriedOver
        <5> QED BY <5>1 DEF Said
      <4> QED BY <4>1
    <3> HIDE DEF carried, inside
    <3> QED BY <2>1, <3>1 DEF NearestBefore
  <2> HIDE DEF subjects, objects
  <2> QED BY <1>2, <2>1, <2>2, FirstType
<1>4. "?" \notin TokensAt(text, a, b) /\ TokensAt(text, a, object.at - 1) \cap Negation = {}
  <2> DEFINE any == CHOOSE x \in objects : TRUE
  <2>1. any \in objects
    <3> HIDE DEF objects
    <3> QED BY <1>3
  <2>2. any.at = object.at
    <3>1. \A x, y \in objects : x.at >= y.at /\ x.at \in Int
      BY DEF NearestAfter
    <3> HIDE DEF objects, any, object
    <3> QED BY <1>3, <2>1, <3>1
  <2> HIDE DEF objects, object
  <2> QED BY <1>2, <2>2 DEF Denied
<1>5. /\ object \in ToSet(ms) /\ p < object.at /\ object.at <= b
      /\ carried = {} => subject \in ToSet(ms) /\ a <= subject.at /\ subject.at < p
  <2> HIDE DEF subject, object, a, b, carried
  <2> QED BY <1>3 DEF NearestBefore, NearestAfter
<1>6. /\ a \in 1 .. p /\ b \in p .. Len(text)
      /\ \A i \in a .. p - 1 : text[i] \notin SentenceEnd
      /\ Len(text) \in Nat /\ DOMAIN text = 1 .. Len(text)
  BY SentenceBounds, ListShape
<1>7. carried # {} => subject \in carried
  <2> HIDE DEF subject, carried
  <2> QED BY <1>3
<1> HIDE DEF a, b, inside, carried, subjects, objects, subject, object
<1>8. object.at \in Int
  BY <1>5
<1>9. /\ subject \in ToSet(ms) /\ subject.at \in Int /\ 1 <= subject.at /\ subject.at < p
      /\ \A i \in subject.at + 1 .. p - 1 : i \notin names => text[i] \notin SentenceEnd \cup Negation
  <2>1. CASE carried = {}
    <3>1. subject \in ToSet(ms) /\ subject.at \in Int /\ a <= subject.at /\ subject.at < p
      BY <1>5, <2>1
    <3>2. ASSUME NEW i \in subject.at + 1 .. p - 1 PROVE text[i] \notin SentenceEnd \cup Negation
      <4>1. i \in a .. p - 1 /\ i \in 1 .. Len(text) /\ a <= i /\ i <= object.at - 1
        BY <1>5, <1>6, <1>8, <3>1
      <4>2. text[i] \in TokensAt(text, a, object.at - 1)
        BY <1>6, <4>1 DEF TokensAt
      <4> QED BY <1>4, <1>6, <4>1, <4>2
    <3>3. 1 <= subject.at
      BY <1>6, <3>1
    <3> QED BY <3>1, <3>2, <3>3
  <2>2. CASE carried # {}
    <3>1. PICK d \in acc.prev : subject = d.subject /\ Joint(SubSeq(text, d.object.at + 1, p - 1))
      <4>1. subject \in Coordinated(text, acc.prev, p)
        BY <1>7, <2>2 DEF carried
      <4> QED BY <4>1, CarriedOver, Zenon
    <3> DEFINE s == d.subject.at
               o == d.object.at
    <3>2. Said(text, ToSet(ms), names, d)
      BY <3>1
    <3>3. /\ s \in 1 .. Len(text) /\ o \in 1 .. Len(text) /\ s < o /\ o \in names /\ d.subject \in ToSet(ms)
          /\ \A i \in 1 .. Len(text) : s < i /\ i < o /\ i \notin names => text[i] \notin SentenceEnd \cup Negation
      BY <1>6, <3>2 DEF Said, Binds
    <3>4. o < p /\ \A i \in o + 1 .. p - 1 : text[i] \in JointWord
      BY <3>1, <3>3, JointWords
    <3> HIDE DEF s, o
    <3>5. ASSUME NEW i \in s + 1 .. p - 1, i \notin names PROVE text[i] \notin SentenceEnd \cup Negation
      <4>1. CASE i < o
        <5>1. i \in 1 .. Len(text) /\ s < i
          BY <1>6, <3>3
        <5> QED BY <3>3, <3>5, <4>1, <5>1
      <4>2. CASE i = o
        BY <3>3, <3>5, <4>2
      <4>3. CASE i > o
        <5>1. i \in o + 1 .. p - 1
          BY <1>6, <3>3, <4>3
        <5> QED BY <3>4, <5>1, WordsApart
      <4> QED BY <3>3, <4>1, <4>2, <4>3
    <3>6. s \in Int /\ 1 <= s /\ s < p
      BY <1>6, <3>3, <3>4
    <3> QED BY <3>1, <3>3, <3>5, <3>6 DEF s
  <2> QED BY <2>1, <2>2
<1>10. Binds(text, names, subject.at, object.at, text[p])
  BY <1>4, <1>5, <1>8, <1>9, BoundHere DEF a, b
<1>11. LET x == claim(h) IN /\ x.confidence = explicit /\ x.subject = subject /\ x.object = object
                            /\ x.predicate = text[p]
  OBVIOUS
<1> HIDE DEF claim
<1> QED BY <1>5, <1>9, <1>10, <1>11 DEF Said

\* Every claim of the explicit form is said by the words of its text.
LEMMA ExplicitSaid ==
  ASSUME NEW text, IsList(text), NEW ms, IsList(ms), NEW names,
         \A m \in ToSet(ms) : m.at \in Int /\ m.at \in names
  PROVE  \A c \in ToSet(ExplicitClaims(text, ms)) : Said(text, ToSet(ms), names, c)
<1> DEFINE u == ExplicitUpTo(text, ms)
           n == Len(text)
           Ok(c) == Said(text, ToSet(ms), names, c)
           Good(a) == IsList(a.claims) /\ (\A c \in ToSet(a.claims) : Ok(c)) /\ \A c \in a.prev : Ok(c)
           T == {p \in Nat : p <= n => Good(u[p])}
<1>1. n \in Nat
  BY ListShape
<1>2. u[0] = [claims |-> <<>>, prev |-> {}]
  BY ExplicitFromLeft
<1>3. \A p \in 1 .. n :
        u[p] = IF text[p] \in RelationWord THEN ExplicitStep(text, ms, u[p - 1], p) ELSE u[p - 1]
  BY ExplicitFromLeft
<1> HIDE DEF u
<1>4. ASSUME NEW q, IsList(q), \A c \in ToSet(q) : Ok(c), NEW x, Ok(x)
      PROVE  IsList(Append(q, x)) /\ \A c \in ToSet(Append(q, x)) : Ok(c)
  <2> DEFINE r == Append(q, x)
  <2>1. /\ IsList(r) /\ Len(r) = Len(q) + 1
        /\ r[Len(q) + 1] = x /\ \A k \in 1 .. Len(q) : r[k] = q[k]
    BY <1>4, AppendedList
  <2>2. Len(q) \in Nat /\ DOMAIN q = 1 .. Len(q) /\ DOMAIN r = 1 .. Len(q) + 1
    BY <1>4, <2>1, ListShape
  <2> HIDE DEF r, Ok
  <2>3. ASSUME NEW c \in ToSet(r) PROVE Ok(c)
    <3>1. PICK k \in 1 .. Len(q) + 1 : c = r[k]
      BY <2>2 DEF ToSet
    <3>2. CASE k \in 1 .. Len(q)
      <4>1. q[k] \in ToSet(q)
        BY <2>2, <3>2 DEF ToSet
      <4> QED BY <1>4, <2>1, <3>1, <3>2, <4>1
    <3>3. CASE k \notin 1 .. Len(q)
      <4>1. k = Len(q) + 1
        BY <2>2, <3>3
      <4> QED BY <1>4, <2>1, <3>1, <4>1
    <3> QED BY <3>2, <3>3
  <2> QED BY <2>1, <2>3 DEF r
<1>5. ASSUME NEW a, Good(a), NEW p \in 1 .. n, text[p] \in RelationWord
      PROVE  Good(ExplicitStep(text, ms, a, p))
  <2> DEFINE r == ExplicitStep(text, ms, a, p)
  <2>1. \/ r = a
        \/ \E x : Ok(x) /\ r.claims = Append(a.claims, x) /\ r.prev \subseteq {x}
    BY <1>5, SaidStep
  <2> SUFFICES Good(r)
    OBVIOUS
  <2> HIDE DEF r, Ok
  <2>2. CASE r = a
    BY <1>5, <2>2
  <2>3. CASE r # a
    <3>1. PICK x : Ok(x) /\ r.claims = Append(a.claims, x) /\ r.prev \subseteq {x}
      BY <2>1, <2>3
    <3>2. IsList(Append(a.claims, x)) /\ \A c \in ToSet(Append(a.claims, x)) : Ok(c)
      BY <1>4, <1>5, <3>1
    <3> QED BY <3>1, <3>2
  <2> QED BY <2>2, <2>3
<1>6. Good(u[0])
  <2>1. ToSet(<<>>) = {}
    BY DEF ToSet
  <2>2. u[0].claims = <<>> /\ u[0].prev = {}
    BY <1>2
  <2> HIDE DEF Ok
  <2> QED BY <2>1, <2>2, SmallLists
<1> HIDE DEF Good
<1>7. 0 \in T
  BY <1>6
<1>8. ASSUME NEW p \in Nat, p \in T PROVE p + 1 \in T
  <2>1. SUFFICES ASSUME p + 1 <= n PROVE Good(u[p + 1])
    OBVIOUS
  <2>2. p + 1 \in 1 .. n /\ (p + 1) - 1 = p /\ Good(u[p])
    BY <1>1, <1>8, <2>1
  <2>3. u[p + 1] = IF text[p + 1] \in RelationWord THEN ExplicitStep(text, ms, u[p], p + 1) ELSE u[p]
    BY <1>3, <2>2
  <2> QED BY <1>5, <2>2, <2>3
<1>9. Good(u[n])
  <2>1. n \in T
    <3> HIDE DEF T
    <3> QED BY <1>1, <1>7, <1>8, Induction
  <2> QED BY <1>1, <2>1
<1> QED BY <1>9 DEF Good, ExplicitClaims, u

\* A claim of the structured form has the names of that form, and no word of
\* its text denies it.
Formed(text, ms, c) ==
  /\ c.confidence = structured /\ c.subject \in ms /\ c.object \in ms
  /\ \E h \in DOMAIN text : /\ text[h] = "record" /\ h + 3 <= Len(text)
                            /\ text[h + 1] = text[c.subject.at] /\ text[h + 3] = text[c.object.at]
  /\ ToSet(text) \cap {"?", "never"} = {}

\* The occurrences of a name are mentions that read it.
LEMMA OccurrencesType ==
  ASSUME NEW text, NEW ms, IsList(ms), NEW name
  PROVE  LET q == Occurrences(text, ms, name)
         IN q # <<>> => q[1] \in ToSet(ms) /\ text[q[1].at] = name
<1> DEFINE q == Occurrences(text, ms, name)
           test == [i \in DOMAIN ms |-> text[ms[i].at] = name]
           p == [i \in DOMAIN ms |-> IF test[i] THEN <<ms[i]>> ELSE <<>>]
<1>1. p = [i \in DOMAIN ms |-> IF text[ms[i].at] = name THEN <<ms[i]>> ELSE <<>>]
  OBVIOUS
<1>2. q = FlattenSeq(p)
  <2> HIDE DEF p
  <2> QED BY <1>1 DEF Occurrences, Keep, Collect, Each, Only
<1>3. IsList(q) /\ ToSet(q) = {ms[i] : i \in {j \in DOMAIN ms : test[j]}}
  <2> HIDE DEF q, test
  <2> QED BY <1>2, FilteredList
<1> HIDE DEF q
<1>4. q # <<>> => q[1] \in ToSet(q)
  <2>1. q # <<>> => 1 \in DOMAIN q
    BY <1>3, ListShape
  <2> QED BY <2>1 DEF ToSet
<1>5. \A i \in DOMAIN ms : ms[i] \in ToSet(ms)
  BY DEF ToSet
<1> QED BY <1>3, <1>4, <1>5 DEF q

\* What the structured form claims.
LEMMA StructuredFormed ==
  ASSUME NEW text, IsList(text), NEW ms, IsList(ms)
  PROVE  \A c \in ToSet(StructuredClaims(text, ms)) : Formed(text, ToSet(ms), c)
<1> DEFINE heads == {i \in DOMAIN text : text[i] = "record" /\ i + 3 <= Len(text)}
           h == Min(heads)
           subjects == Occurrences(text, ms, text[h + 1])
           objects == Occurrences(text, ms, text[h + 3])
           claim == [subject |-> subjects[1], object |-> objects[1], predicate |-> text[h + 2],
                     confidence |-> structured, basis |-> "structured", hold |-> ""]
<1>1. \/ StructuredClaims(text, ms) = <<>>
      \/ /\ StructuredClaims(text, ms) = <<claim>>
         /\ heads # {} /\ subjects # <<>> /\ objects # <<>>
         /\ \A i \in DOMAIN text : text[i] \notin {"?"} \cup DenialOfRecord
  BY DEF StructuredClaims
<1>2. ToSet(<<>>) = {}
  BY DEF ToSet
<1>3. SUFFICES ASSUME heads # {}, subjects # <<>>, objects # <<>>,
                      \A i \in DOMAIN text : text[i] \notin {"?"} \cup DenialOfRecord
               PROVE  Formed(text, ToSet(ms), claim)
  <2>1. ToSet(<<claim>>) = {claim}
    BY SmallLists
  <2> HIDE DEF claim, heads, subjects, objects
  <2> QED BY <1>1, <1>2, <2>1
<1>4. h \in DOMAIN text /\ text[h] = "record" /\ h + 3 <= Len(text)
  <2>1. Len(text) \in Nat /\ DOMAIN text = 1 .. Len(text)
    BY ListShape
  <2>2. heads \in SUBSET (0 .. Len(text))
    BY <2>1
  <2>3. h \in heads
    <3> HIDE DEF heads
    <3> QED BY <1>3, <2>1, <2>2, Extremes
  <2> QED BY <2>3
<1>5. subjects[1] \in ToSet(ms) /\ text[subjects[1].at] = text[h + 1]
  BY <1>3, OccurrencesType
<1>6. objects[1] \in ToSet(ms) /\ text[objects[1].at] = text[h + 3]
  BY <1>3, OccurrencesType
<1>7. ToSet(text) \cap {"?", "never"} = {}
  <2>1. {"?"} \cup DenialOfRecord = {"?", "never"}
    BY DEF DenialOfRecord
  <2> QED BY <1>3, <2>1 DEF ToSet
<1> HIDE DEF h, subjects, objects
<1>8. claim.confidence = structured /\ claim.subject = subjects[1] /\ claim.object = objects[1]
  OBVIOUS
<1> HIDE DEF claim
<1> QED BY <1>4, <1>5, <1>6, <1>7, <1>8 DEF Formed

\* A claim between two mentions that nothing says.
Guessed(ms, c) == c.confidence = inferredMax /\ c.subject \in ms /\ c.object \in ms

\* A claim is said by the words, or formed, or inferred.
LEMMA ClaimsFollow ==
  ASSUME NEW text, IsList(text), NEW ms, IsList(ms), NEW names,
         \A m \in ToSet(ms) : m.at \in Int /\ m.at \in names
  PROVE  \A c \in ToSet(ChunkClaims(text, ms)) :
            \/ Said(text, ToSet(ms), names, c) \/ Formed(text, ToSet(ms), c)
            \/ Guessed(ToSet(ms), c)
<1> DEFINE s == StructuredClaims(text, ms)
           e == ExplicitClaims(text, ms)
           i == [subject |-> ms[1], object |-> ms[2], predicate |-> "INFERRED",
                 confidence |-> inferredMax, basis |-> "inferred", hold |-> ""]
           Ok(c) == \/ Said(text, ToSet(ms), names, c) \/ Formed(text, ToSet(ms), c)
                    \/ Guessed(ToSet(ms), c)
<1>1. ChunkClaims(text, ms) = CASE s # <<>> -> s
                                [] s = <<>> /\ e # <<>> -> e
                                [] s = <<>> /\ e = <<>> /\ Len(ms) >= 2 -> <<i>>
                                [] OTHER -> <<>>
  BY DEF ChunkClaims
<1>2. (\A c \in ToSet(s) : Ok(c)) /\ \A c \in ToSet(e) : Ok(c)
  <2>1. \A c \in ToSet(e) : Said(text, ToSet(ms), names, c)
    BY ExplicitSaid
  <2>2. \A c \in ToSet(s) : Formed(text, ToSet(ms), c)
    BY StructuredFormed
  <2> HIDE DEF s, e
  <2> QED BY <2>1, <2>2
<1>3. ToSet(<<i>>) = {i} /\ ToSet(<<>>) = {}
  <2>1. ToSet(<<>>) = {}
    BY DEF ToSet
  <2> HIDE DEF i
  <2> QED BY <2>1, SmallLists
<1>4. Len(ms) >= 2 => Ok(i)
  <2> SUFFICES ASSUME Len(ms) >= 2 PROVE Ok(i)
    OBVIOUS
  <2>1. ms[1] \in ToSet(ms) /\ ms[2] \in ToSet(ms)
    <3>1. Len(ms) \in Nat /\ DOMAIN ms = 1 .. Len(ms)
      BY ListShape
    <3>2. 1 \in DOMAIN ms /\ 2 \in DOMAIN ms
      BY <3>1
    <3> QED BY <3>2, ListShape
  <2>2. i.confidence = inferredMax /\ i.subject = ms[1] /\ i.object = ms[2]
    OBVIOUS
  <2> HIDE DEF i
  <2> QED BY <2>1, <2>2 DEF Guessed
<1> HIDE DEF s, e, i, Ok
<1>5. ChunkClaims(text, ms) \in {s, e, <<>>} \/ (Len(ms) >= 2 /\ ChunkClaims(text, ms) = <<i>>)
  BY <1>1
<1>6. \A c \in ToSet(ChunkClaims(text, ms)) : Ok(c)
  <2>1. CASE ChunkClaims(text, ms) \in {s, e, <<>>}
    BY <1>2, <1>3, <2>1
  <2>2. CASE Len(ms) >= 2 /\ ChunkClaims(text, ms) = <<i>>
    <3>1. Ok(i) /\ ChunkClaims(text, ms) = <<i>>
      BY <1>4, <2>2
    <3> QED BY <1>3, <3>1
  <2> QED BY <1>5, <2>1, <2>2
<1> QED BY <1>6 DEF Ok

\* The mentions of a chunk are those of the batch that are in it.
LEMMA MentionsOfChunk ==
  ASSUME NEW ms, IsList(ms), NEW k
  PROVE  LET q == Keep(ms, LAMBDA m : m.chunk = k)
         IN IsList(q) /\ ToSet(q) = {m \in ToSet(ms) : m.chunk = k}
<1> DEFINE q == Keep(ms, LAMBDA m : m.chunk = k)
           test == [i \in DOMAIN ms |-> ms[i].chunk = k]
           p == [i \in DOMAIN ms |-> IF test[i] THEN <<ms[i]>> ELSE <<>>]
<1>1. p = [i \in DOMAIN ms |-> IF ms[i].chunk = k THEN <<ms[i]>> ELSE <<>>]
  OBVIOUS
<1>2. q = FlattenSeq(p)
  <2> HIDE DEF p
  <2> QED BY <1>1 DEF Keep, Collect, Each, Only
<1>3. IsList(q) /\ ToSet(q) = {ms[i] : i \in {j \in DOMAIN ms : test[j]}}
  <2> HIDE DEF q, test
  <2> QED BY <1>2, FilteredList
<1>4. {ms[i] : i \in {j \in DOMAIN ms : test[j]}} = {m \in ToSet(ms) : m.chunk = k}
  BY DEF ToSet
<1> QED BY <1>3, <1>4

\* A mention of an accepted batch has its place, a number.
LEMMA MentionsPlaced ==
  ASSUME NEW r \in Request, Accepted(r)
  PROVE  \A m \in ToSet(Sorted(r.batch).mentions) : m.at \in Int
<1> DEFINE w == r.batch
           b == Sorted(w)
<1>1. ASSUME NEW i \in DOMAIN w.mentions PROVE w.mentions[i].startOffset \in Int
  <2>1. w.mentions[i] \in ToSet(w.mentions)
    BY DEF ToSet
  <2> QED BY <2>1, RequestAssumption
<1>2. DOMAIN b.mentions = DOMAIN w.mentions
  BY DEF Sorted
<1>3. \A i \in DOMAIN w.mentions : b.mentions[i].at = w.mentions[i].startOffset + 1
  BY DEF Sorted
<1> HIDE DEF b
<1>4. ASSUME NEW m \in ToSet(b.mentions) PROVE m.at \in Int
  <2>1. PICK i \in DOMAIN w.mentions : m = b.mentions[i]
    BY <1>2 DEF ToSet
  <2> QED BY <1>1, <1>3, <2>1
<1> QED BY <1>4 DEF b

\* The mentions of a chunk.
MentionsIn(b, k) == {m \in ToSet(b.mentions) : m.chunk = k}

\* Only what is said or formed is mapped, and its fact is warranted.
LEMMA FactWarranted ==
  ASSUME NEW b, Readable(b), \A m \in ToSet(b.mentions) : m.at \in Int,
         NEW version, NEW f \in ToSet(Decision(b, version).facts)
  PROVE  Warranted(b.chunks[f.id[1]], MentionsIn(b, f.id[1]), f)
<1> DEFINE cs == Candidates(b)
           mapped == Mappable(version, cs)
<1>1. Decision(b, version).facts = Facts(b, mapped)
  BY DEF Decision, DecisionOn, DecisionFrom, DecisionRow
<1>2. /\ IsList(cs)
      /\ \A c \in ToSet(cs) : \E k \in DOMAIN b.chunks :
           \E claim \in ToSet(ChunkClaims(b.chunks[k], Keep(b.mentions, LAMBDA m : m.chunk = k))) :
             c = Candidate(b, k, claim)
  BY CandidatesType
<1>3. IsList(mapped) /\ ToSet(mapped) = {c \in ToSet(cs) : Mapped(c, version)}
  <2> HIDE DEF cs
  <2> QED BY <1>2, MappableType
<1> HIDE DEF mapped
<1>4. PICK c \in ToSet(mapped) : f = Fact(b, c)
  BY <1>1, <1>3, FactsType
<1>5. c \in ToSet(cs) /\ Mapped(c, version)
  BY <1>3
<1>6. PICK k \in DOMAIN b.chunks :
         \E claim \in ToSet(ChunkClaims(b.chunks[k], Keep(b.mentions, LAMBDA m : m.chunk = k))) :
           c = Candidate(b, k, claim)
  BY <1>2, <1>5
<1> HIDE DEF cs
<1> DEFINE text == b.chunks[k]
           ms == Keep(b.mentions, LAMBDA m : m.chunk = k)
           names == {m.at : m \in ToSet(ms)}
<1>7. PICK claim \in ToSet(ChunkClaims(text, ms)) : c = Candidate(b, k, claim)
  BY <1>6
<1> DEFINE s == claim.subject
           o == claim.object
<1>8. f.id = <<k, mentionId(s), mentionId(o), claim.predicate>> /\ f.confidence = claim.confidence
  BY <1>4, <1>7 DEF Candidate, factId, Fact
<1>9. IsList(text)
  BY DEF Readable
<1>10. IsList(ms) /\ ToSet(ms) = MentionsIn(b, k)
  BY MentionsOfChunk DEF Readable, MentionsIn
<1> HIDE DEF ms
<1>11. \A m \in ToSet(ms) : m.at \in Int /\ m.at \in names
  BY <1>10 DEF MentionsIn
<1> HIDE DEF text, names
<1>12. \/ Said(text, ToSet(ms), names, claim) \/ Formed(text, ToSet(ms), claim)
       \/ claim.confidence = inferredMax
  <2>1. \/ Said(text, ToSet(ms), names, claim) \/ Formed(text, ToSet(ms), claim)
        \/ Guessed(ToSet(ms), claim)
    BY <1>7, <1>9, <1>10, <1>11, ClaimsFollow
  <2> QED BY <2>1 DEF Guessed
<1>13. claim.confidence # inferredMax
  <2>1. c.confidence = claim.confidence
    BY <1>7 DEF Candidate
  <2>2. c.confidence >= writeFloor
    BY <1>5 DEF Mapped
  <2>3. ~ (inferredMax >= writeFloor)
    BY DEF inferredMax, writeFloor
  <2> QED BY <2>1, <2>2, <2>3, Zenon
<1>14. f.id[1] = k /\ f.id[2] = mentionId(s) /\ f.id[3] = mentionId(o) /\ f.id[4] = claim.predicate
  BY <1>8
<1>15. s \in ToSet(ms) /\ o \in ToSet(ms)
  BY <1>12, <1>13 DEF Said, Formed
<1>16. ASSUME Formed(text, ToSet(ms), claim) PROVE WarrantedAt(text, names, s.at, o.at, f)
  <2>1. /\ f.confidence = structured
        /\ \E h \in DOMAIN text : /\ text[h] = "record" /\ h + 3 <= Len(text)
                                  /\ text[h + 1] = text[s.at] /\ text[h + 3] = text[o.at]
        /\ ToSet(text) \cap {"?", "never"} = {}
    BY <1>8, <1>16 DEF Formed
  <2> HIDE DEF s, o
  <2> QED BY <2>1 DEF WarrantedAt
<1>17. ASSUME Said(text, ToSet(ms), names, claim) PROVE WarrantedAt(text, names, s.at, o.at, f)
  <2>1. f.confidence = explicit /\ Binds(text, names, s.at, o.at, claim.predicate)
    BY <1>8, <1>17 DEF Said
  <2> HIDE DEF s, o
  <2> QED BY <1>14, <2>1 DEF WarrantedAt, Binds
<1>18. WarrantedAt(text, names, s.at, o.at, f)
  BY <1>12, <1>13, <1>16, <1>17
<1> HIDE DEF s, o
<1>19. Warranted(text, ToSet(ms), f)
  BY <1>14, <1>15, <1>18 DEF Warranted, names
<1> QED BY <1>10, <1>14, <1>19 DEF text

\* Every fact says what the words of its chunk say, for every text and whatever
\* it mentions: a subject is carried no further than a joint, and nothing that
\* is asked or denied is a fact (parseStructuredClaim, parseExplicitClaims).
THEOREM FactsFollowTheText == Spec => []ClaimsFollowTheText
<1>1. GateInv => ClaimsFollowTheText
  <2> SUFFICES ASSUME GateInv, decision # NoDecision, NEW f \in ToSet(decision.facts)
               PROVE  Warranted(batch.chunks[f.id[1]], MentionsIn(batch, f.id[1]), f)
    BY DEF ClaimsFollowTheText, MentionsIn
  <2>1. request \in Request /\ stage \notin {"idle", "refused"} /\ DecisionInv
    BY DEF GateInv, StageInv
  <2>2. Readable(batch) /\ Accepted(request) /\ batch = Sorted(request.batch)
    BY <2>1, DecidedType DEF DecisionInv
  <2>3. PICK v \in Version : decision = Decision(batch, v)
    BY <2>1 DEF DecisionInv
  <2>4. \A m \in ToSet(batch.mentions) : m.at \in Int
    BY <2>1, <2>2, MentionsPlaced
  <2>5. f \in ToSet(Decision(batch, v).facts)
    BY <2>3
  <2> QED BY <2>2, <2>4, <2>5, FactWarranted
<1> QED BY <1>1, GateInvariant, PTL

-----------------------------------------------------------------------------
(* The names of a run. *)

\* The last place of x, and the first, with something outside A; next to x when
\* there is none.
LastOutside(x, A) == Max({0} \cup {i \in 1 .. Len(x) : x[i] \notin A})
FirstOutside(x, A) == Min({Len(x) + 1} \cup {i \in 1 .. Len(x) : x[i] \notin A})

\* x up to that place, and x from it.
UpToOutside(x, A) == SubSeq(x, 1, LastOutside(x, A))
FromOutside(x, A) == SubSeq(x, FirstOutside(x, A), Len(x))

\* After the last place outside A there is only A, and no other place is such.
LEMMA LastOutsideIs ==
  ASSUME NEW T, NEW x \in Seq(T), NEW A
  PROVE  LET e == LastOutside(x, A)
         IN /\ e \in 0 .. Len(x) /\ (e # 0 => x[e] \notin A)
            /\ \A i \in 1 .. Len(x) : e < i => x[i] \in A
            /\ \A k \in 0 .. Len(x) : (k # 0 => x[k] \notin A)
                                      /\ (\A i \in 1 .. Len(x) : k < i => x[i] \in A) => k = e
<1> DEFINE n == Len(x)
           S == {0} \cup {i \in 1 .. n : x[i] \notin A}
           e == LastOutside(x, A)
<1>1. n \in Nat
  OBVIOUS
<1>2. S \in SUBSET (0 .. n) /\ S # {} /\ e = Max(S)
  BY <1>1 DEF LastOutside
<1>3. \A i : i \in S <=> i = 0 \/ (i \in 1 .. n /\ x[i] \notin A)
  OBVIOUS
<1> HIDE DEF n, S, e
<1>4. e \in S /\ \A y \in S : y <= e
  BY <1>1, <1>2, Extremes
<1>5. e \in 0 .. n /\ (e # 0 => x[e] \notin A)
  BY <1>1, <1>3, <1>4
<1>6. \A i \in 1 .. n : e < i => x[i] \in A
  BY <1>1, <1>3, <1>4, <1>5
<1>7. ASSUME NEW k \in 0 .. n, k # 0 => x[k] \notin A, \A i \in 1 .. n : k < i => x[i] \in A
      PROVE  k = e
  <2>1. k \in S
    BY <1>1, <1>3, <1>7
  <2>2. k <= e
    BY <1>4, <2>1
  <2>3. ~ (k < e)
    BY <1>1, <1>5, <1>7
  <2> QED BY <1>1, <1>5, <2>2, <2>3
<1> QED BY <1>5, <1>6, <1>7 DEF e, n

\* Before the first place outside A there is only A, and no other place is such.
LEMMA FirstOutsideIs ==
  ASSUME NEW T, NEW x \in Seq(T), NEW A
  PROVE  LET s == FirstOutside(x, A)
         IN /\ s \in 1 .. Len(x) + 1 /\ (s # Len(x) + 1 => x[s] \notin A)
            /\ \A i \in 1 .. Len(x) : i < s => x[i] \in A
            /\ \A k \in 1 .. Len(x) + 1 : (k # Len(x) + 1 => x[k] \notin A)
                                          /\ (\A i \in 1 .. Len(x) : i < k => x[i] \in A) => k = s
<1> DEFINE n == Len(x)
           S == {n + 1} \cup {i \in 1 .. n : x[i] \notin A}
           s == FirstOutside(x, A)
<1>1. n \in Nat /\ n + 1 \in Nat
  OBVIOUS
<1>2. S \in SUBSET (0 .. n + 1) /\ S # {} /\ s = Min(S)
  BY <1>1 DEF FirstOutside
<1>3. \A i : i \in S <=> i = n + 1 \/ (i \in 1 .. n /\ x[i] \notin A)
  OBVIOUS
<1> HIDE DEF n, S, s
<1>4. s \in S /\ \A y \in S : s <= y
  BY <1>1, <1>2, Extremes
<1>5. s \in 1 .. n + 1 /\ (s # n + 1 => x[s] \notin A)
  BY <1>1, <1>3, <1>4
<1>6. \A i \in 1 .. n : i < s => x[i] \in A
  BY <1>1, <1>3, <1>4, <1>5
<1>7. ASSUME NEW k \in 1 .. n + 1, k # n + 1 => x[k] \notin A, \A i \in 1 .. n : i < k => x[i] \in A
      PROVE  k = s
  <2>1. k \in S
    BY <1>1, <1>3, <1>7
  <2>2. s <= k
    BY <1>4, <2>1
  <2>3. ~ (s < k)
    BY <1>1, <1>5, <1>7
  <2> QED BY <1>1, <1>5, <2>2, <2>3
<1> QED BY <1>5, <1>6, <1>7 DEF s, n

\* A piece of a list.
LEMMA Piece ==
  ASSUME NEW T, NEW x \in Seq(T), NEW a \in 1 .. Len(x) + 1, NEW b \in 0 .. Len(x)
  PROVE  /\ SubSeq(x, a, b) \in Seq(T)
         /\ Len(SubSeq(x, a, b)) = IF a <= b THEN b - a + 1 ELSE 0
         /\ \A i \in 1 .. Len(SubSeq(x, a, b)) : SubSeq(x, a, b)[i] = x[a + i - 1]
<1>1. Len(x) \in Nat
  OBVIOUS
<1>2. CASE a <= b
  BY <1>1, <1>2
<1>3. CASE ~ (a <= b)
  BY <1>1, <1>3
<1> QED BY <1>2, <1>3

\* Lists of the same length with the same entries are the same.
LEMMA SameList ==
  ASSUME NEW T, NEW x \in Seq(T), NEW y \in Seq(T), Len(x) = Len(y), \A i \in 1 .. Len(x) : x[i] = y[i]
  PROVE  x = y
<1> DEFINE n == Len(x)
<1>1. n \in Nat /\ x = [i \in 1 .. n |-> x[i]] /\ y = [i \in 1 .. n |-> y[i]]
  OBVIOUS
<1>2. \A i \in 1 .. n : x[i] = y[i]
  OBVIOUS
<1> HIDE DEF n
<1> QED BY <1>1, <1>2

\* From its beginning to its end a list is whole.
LEMMA WholeList ==
  ASSUME NEW T, NEW x \in Seq(T)
  PROVE  SubSeq(x, 1, Len(x)) = x
<1>1. Len(x) \in Nat /\ 1 \in 1 .. Len(x) + 1 /\ Len(x) \in 0 .. Len(x)
  OBVIOUS
<1> DEFINE y == SubSeq(x, 1, Len(x))
<1>2. /\ y \in Seq(T) /\ Len(y) = IF 1 <= Len(x) THEN Len(x) - 1 + 1 ELSE 0
      /\ \A i \in 1 .. Len(y) : y[i] = x[1 + i - 1]
  BY <1>1, Piece
<1> HIDE DEF y
<1>3. Len(y) = Len(x) /\ \A i \in 1 .. Len(y) : y[i] = x[i]
  BY <1>1, <1>2
<1>4. y = x
  BY <1>2, <1>3, SameList
<1> QED BY <1>4 DEF y

\* One turn of a loop that takes A off the end of a list.
LEMMA OffTheEnd ==
  ASSUME NEW T, NEW x \in Seq(T), NEW A
  PROVE  /\ x # <<>> /\ Last(x) \in A =>
               /\ Front(x) \in Seq(T) /\ Len(Front(x)) = Len(x) - 1
               /\ UpToOutside(x, A) = UpToOutside(Front(x), A)
         /\ ~ (x # <<>> /\ Last(x) \in A) => UpToOutside(x, A) = x
<1> DEFINE n == Len(x)
           e == LastOutside(x, A)
           y == Front(x)
<1>1. n \in Nat /\ (x = <<>> <=> n = 0) /\ Last(x) = x[n]
  BY DEF Last
<1>2. e \in 0 .. n /\ (e # 0 => x[e] \notin A) /\ \A i \in 1 .. n : e < i => x[i] \in A
  BY LastOutsideIs
<1>3. CASE n # 0 /\ x[n] \in A
  <2>1. 1 \in 1 .. n + 1 /\ n - 1 \in 0 .. n
    BY <1>1, <1>3
  <2>2. /\ y \in Seq(T) /\ Len(y) = IF 1 <= n - 1 THEN n - 1 - 1 + 1 ELSE 0
        /\ \A i \in 1 .. Len(y) : y[i] = x[1 + i - 1]
    BY <2>1, Piece DEF Front
  <2> HIDE DEF y, e
  <2> HIDE DEF n
  <2>3. Len(y) = n - 1 /\ \A i \in 1 .. n - 1 : y[i] = x[i]
    <3>1. Len(y) = n - 1
      BY <1>1, <1>3, <2>2
    <3>2. ASSUME NEW i \in 1 .. n - 1 PROVE y[i] = x[i]
      <4>1. i \in 1 .. Len(y) /\ 1 + i - 1 = i
        BY <1>1, <3>1
      <4> QED BY <2>2, <4>1
    <3> QED BY <3>1, <3>2
  <2>4. e # n
    BY <1>1, <1>2, <1>3
  <2>5. e \in 0 .. Len(y) /\ (e # 0 => y[e] \notin A)
    BY <1>1, <1>2, <2>3, <2>4
  <2>6. \A i \in 1 .. Len(y) : e < i => y[i] \in A
    <3> SUFFICES ASSUME NEW i \in 1 .. Len(y), e < i PROVE y[i] \in A
      OBVIOUS
    <3>1. i \in 1 .. n /\ i \in 1 .. n - 1
      BY <1>1, <2>3
    <3> QED BY <1>2, <2>3, <3>1
  <2>7. e = LastOutside(y, A)
    BY <2>2, <2>5, <2>6, LastOutsideIs
  <2> DEFINE u == SubSeq(x, 1, e)
             v == SubSeq(y, 1, e)
  <2>8. 1 \in 1 .. n + 1 /\ 1 \in 1 .. Len(y) + 1 /\ e \in Int
    BY <1>1, <1>2, <2>3, <1>3
  <2>9. /\ u \in Seq(T) /\ Len(u) = IF 1 <= e THEN e - 1 + 1 ELSE 0
        /\ \A i \in 1 .. Len(u) : u[i] = x[1 + i - 1]
    BY <1>2, <2>8, Piece DEF n
  <2>10. /\ v \in Seq(T) /\ Len(v) = IF 1 <= e THEN e - 1 + 1 ELSE 0
         /\ \A i \in 1 .. Len(v) : v[i] = y[1 + i - 1]
    BY <2>2, <2>5, <2>8, Piece
  <2> HIDE DEF u, v
  <2>11. Len(u) = Len(v) /\ Len(u) = e
    BY <1>2, <2>8, <2>9, <2>10
  <2>12. \A i \in 1 .. Len(u) : u[i] = v[i]
    <3> SUFFICES ASSUME NEW i \in 1 .. Len(u) PROVE u[i] = v[i]
      OBVIOUS
    <3>1. i \in 1 .. n - 1 /\ 1 + i - 1 = i
      BY <1>1, <2>3, <2>5, <2>11
    <3> QED BY <2>3, <2>9, <2>10, <2>11, <3>1
  <2>13. u = v
    BY <2>9, <2>10, <2>11, <2>12, SameList
  <2> QED BY <1>1, <1>3, <2>2, <2>3, <2>7, <2>13 DEF UpToOutside, u, v, y, e, n
<1>4. CASE ~ (n # 0 /\ x[n] \in A)
  <2>1. e = n
    <3>1. n \in 0 .. n /\ (n # 0 => x[n] \notin A) /\ \A i \in 1 .. n : n < i => x[i] \in A
      BY <1>1, <1>4
    <3> HIDE DEF e
    <3> QED BY <3>1, LastOutsideIs DEF e
  <2>2. UpToOutside(x, A) = x
    BY <2>1, WholeList DEF UpToOutside
  <2> QED BY <1>1, <1>4, <2>2
<1> QED BY <1>3, <1>4

\* One turn of a loop that takes A off the beginning of a list.
LEMMA OffTheStart ==
  ASSUME NEW T, NEW x \in Seq(T), NEW A
  PROVE  /\ x # <<>> /\ Head(x) \in A =>
               /\ Tail(x) \in Seq(T) /\ Len(Tail(x)) = Len(x) - 1
               /\ FromOutside(x, A) = FromOutside(Tail(x), A)
         /\ ~ (x # <<>> /\ Head(x) \in A) => FromOutside(x, A) = x
<1> DEFINE n == Len(x)
           s == FirstOutside(x, A)
           y == Tail(x)
<1>1. n \in Nat /\ (x = <<>> <=> n = 0) /\ (n # 0 => Head(x) = x[1])
  OBVIOUS
<1>2. s \in 1 .. n + 1 /\ (s # n + 1 => x[s] \notin A) /\ \A i \in 1 .. n : i < s => x[i] \in A
  BY FirstOutsideIs
<1>3. CASE n # 0 /\ x[1] \in A
  <2>1. x # <<>>
    BY <1>1, <1>3
  <2>2. y \in Seq(T) /\ Len(y) = n - 1 /\ \A i \in 1 .. n - 1 : y[i] = x[i + 1]
    BY <1>1, <2>1
  <2> HIDE DEF y, s
  <2> HIDE DEF n
  <2>3. s # 1
    BY <1>1, <1>2, <1>3
  <2>4. s - 1 \in 1 .. Len(y) + 1 /\ (s - 1 # Len(y) + 1 => y[s - 1] \notin A)
    <3>1. s \in Int /\ s - 1 \in 1 .. n /\ s - 1 + 1 = s
      BY <1>1, <1>2, <2>3
    <3>2. s - 1 # n => s - 1 \in 1 .. n - 1 /\ s # n + 1
      BY <1>1, <3>1
    <3> QED BY <1>1, <1>2, <2>2, <3>1, <3>2
  <2>5. \A i \in 1 .. Len(y) : i < s - 1 => y[i] \in A
    <3> SUFFICES ASSUME NEW i \in 1 .. Len(y), i < s - 1 PROVE y[i] \in A
      OBVIOUS
    <3>1. i \in 1 .. n - 1 /\ i + 1 \in 1 .. n /\ i + 1 < s
      BY <1>1, <1>2, <2>2
    <3> QED BY <1>2, <2>2, <3>1
  <2>6. s - 1 = FirstOutside(y, A)
    BY <2>2, <2>4, <2>5, FirstOutsideIs
  <2> DEFINE u == SubSeq(x, s, n)
             v == SubSeq(y, s - 1, n - 1)
  <2>7. n \in 0 .. n /\ n - 1 \in 0 .. Len(y) /\ s \in Int
    BY <1>1, <1>2, <1>3, <2>2
  <2>8. /\ u \in Seq(T) /\ Len(u) = IF s <= n THEN n - s + 1 ELSE 0
        /\ \A i \in 1 .. Len(u) : u[i] = x[s + i - 1]
    BY <1>2, <2>7, Piece DEF n
  <2>9. /\ v \in Seq(T) /\ Len(v) = IF s - 1 <= n - 1 THEN n - 1 - (s - 1) + 1 ELSE 0
        /\ \A i \in 1 .. Len(v) : v[i] = y[s - 1 + i - 1]
    BY <2>2, <2>4, <2>7, Piece
  <2> HIDE DEF u, v
  <2>10. Len(u) = Len(v) /\ (Len(u) # 0 => Len(u) = n - s + 1) /\ Len(u) \in Nat
    BY <1>1, <2>7, <2>8, <2>9
  <2>11. \A i \in 1 .. Len(u) : u[i] = v[i]
    <3> SUFFICES ASSUME NEW i \in 1 .. Len(u) PROVE u[i] = v[i]
      OBVIOUS
    <3>1. s - 1 + i - 1 \in 1 .. n - 1 /\ s - 1 + i - 1 + 1 = s + i - 1
      BY <1>1, <1>2, <2>3, <2>7, <2>10
    <3> QED BY <2>2, <2>8, <2>9, <2>10, <3>1
  <2>12. u = v
    BY <2>8, <2>9, <2>10, <2>11, SameList
  <2> QED BY <1>1, <1>3, <2>2, <2>6, <2>12 DEF FromOutside, u, v, y, s, n
<1>4. CASE ~ (n # 0 /\ x[1] \in A)
  <2>1. s = 1
    <3>1. 1 \in 1 .. n + 1 /\ (1 # n + 1 => x[1] \notin A) /\ \A i \in 1 .. n : i < 1 => x[i] \in A
      BY <1>1, <1>4
    <3> HIDE DEF s
    <3> QED BY <3>1, FirstOutsideIs DEF s
  <2>2. FromOutside(x, A) = x
    BY <2>1, WholeList DEF FromOutside
  <2> QED BY <1>1, <1>4, <2>2
<1> QED BY <1>3, <1>4

\* Tokens without the legal forms that go wherever they stand.
Kept(tokens) == Keep(tokens, LAMBDA t : t \notin ThaiLegalForms)

\* Those are gone, and tokens without them stay as they are.
LEMMA KeptTokens ==
  ASSUME NEW T, NEW x \in Seq(T)
  PROVE  /\ Kept(x) \in Seq(T)
         /\ \A i \in 1 .. Len(Kept(x)) : Kept(x)[i] \notin ThaiLegalForms
         /\ (\A i \in 1 .. Len(x) : x[i] \notin ThaiLegalForms) => Kept(x) = x
<1> DEFINE n == Len(x)
           q == [i \in 1 .. n |-> IF x[i] \notin ThaiLegalForms THEN <<x[i]>> ELSE <<>>]
           r == FlattenSeq(q)
<1>1. n \in Nat /\ DOMAIN x = 1 .. n /\ \A i \in 1 .. n : x[i] \in T
  OBVIOUS
<1>2. Kept(x) = r
  BY <1>1 DEF Kept, Keep, Collect, Each, Only
<1>3. \A i \in 1 .. n : /\ q[i] \in Seq(T)
                        /\ x[i] \notin ThaiLegalForms => q[i] = <<x[i]>>
                        /\ \A j \in DOMAIN q[i] : q[i][j] \notin ThaiLegalForms
  BY <1>1
<1>4. q \in Seq(Seq(T)) /\ Len(q) = n /\ DOMAIN q = 1 .. n
  <2>1. q = [i \in 1 .. n |-> q[i]]
    OBVIOUS
  <2> HIDE DEF q
  <2>2. q \in [1 .. n -> Seq(T)]
    BY <1>3, <2>1
  <2> HIDE DEF n
  <2> QED BY <1>1, <2>2
<1> HIDE DEF q
<1>5. r \in Seq(T) /\ \A k \in DOMAIN r : \E i \in DOMAIN q : \E j \in DOMAIN q[i] : r[k] = q[i][j]
  BY <1>4, FlattenType
<1>6. \A i \in 1 .. Len(r) : r[i] \notin ThaiLegalForms
  <2> HIDE DEF r
  <2>1. DOMAIN r = 1 .. Len(r)
    BY <1>5
  <2> QED BY <1>3, <1>4, <1>5, <2>1
<1>7. ASSUME \A i \in 1 .. n : x[i] \notin ThaiLegalForms PROVE r = x
  <2>1. PICK g : Joins(g, q, T)
    BY <1>4, FlattenJoins
  <2>2. /\ \A k \in 0 .. n : g[k] \in Seq(T)
        /\ g[0] = <<>> /\ \A i \in 1 .. n : g[i] = g[i - 1] \o <<x[i]>>
        /\ r = g[n]
    BY <1>3, <1>4, <1>7, <2>1 DEF Joins
  <2> HIDE DEF n, r
  <2> DEFINE M == {k \in Nat : k <= n => Len(g[k]) = k /\ \A i \in 1 .. k : g[k][i] = x[i]}
  <2>3. 0 \in M
    BY <2>2
  <2>4. ASSUME NEW k \in Nat, k \in M PROVE k + 1 \in M
    <3> SUFFICES ASSUME k + 1 <= n
                 PROVE  Len(g[k + 1]) = k + 1 /\ \A i \in 1 .. k + 1 : g[k + 1][i] = x[i]
      OBVIOUS
    <3>1. k \in 0 .. n /\ k + 1 \in 1 .. n /\ k + 1 - 1 = k
      BY <1>1
    <3> DEFINE u == g[k]
               v == <<x[k + 1]>>
    <3>2. u \in Seq(T) /\ Len(u) = k /\ \A i \in 1 .. k : u[i] = x[i]
      BY <1>1, <2>4, <3>1, <2>2
    <3>3. v \in Seq(T) /\ Len(v) = 1 /\ v[1] = x[k + 1]
      BY <1>1, <3>1
    <3>4. g[k + 1] = u \o v
      BY <2>2, <3>1
    <3> HIDE DEF u, v
    <3> DEFINE w == u \o v
    <3>5. /\ w \in Seq(T) /\ DOMAIN w = 1 .. Len(u) + Len(v)
          /\ \A i \in 1 .. Len(u) : w[i] = u[i]
          /\ \A i \in 1 .. Len(v) : w[Len(u) + i] = v[i]
      <4>1. u \in Seq(T) /\ v \in Seq(T)
        BY <3>2, <3>3
      <4> QED BY <4>1, TwoLists
    <3> HIDE DEF w
    <3>6. Len(w) = k + 1
      BY <3>2, <3>3, <3>5
    <3>7. ASSUME NEW i \in 1 .. k + 1 PROVE w[i] = x[i]
      <4>1. CASE i \in 1 .. k
        BY <3>2, <3>5, <4>1
      <4>2. CASE i = k + 1
        BY <3>2, <3>3, <3>5, <4>2
      <4> QED BY <4>1, <4>2
    <3>8. g[k + 1] = w
      BY <3>4 DEF w
    <3> QED BY <3>6, <3>7, <3>8
  <2>5. n \in M
    <3> HIDE DEF M
    <3> QED BY <1>1, <2>3, <2>4, Induction
  <2>6. Len(g[n]) = n /\ \A i \in 1 .. n : g[n][i] = x[i]
    BY <1>1, <2>5
  <2>7. r \in Seq(T) /\ Len(r) = Len(x) /\ \A i \in 1 .. Len(r) : r[i] = x[i]
    BY <1>5, <2>2, <2>6 DEF n
  <2> QED BY <2>7, SameList
<1> QED BY <1>2, <1>5, <1>6, <1>7

\* One turn of step 5.
Pass(tokens) == FromOutside(UpToOutside(Kept(tokens), InternationalLegalForms), Articles)

\* The places between which a pass leaves the tokens it keeps.
CoreEnd(tokens) == LastOutside(Kept(tokens), InternationalLegalForms)
CoreStart(tokens) == FirstOutside(Kept(tokens), Articles)

\* A pass leaves the tokens from the first that is no article to the last that
\* is no legal form, if there are any.
LEMMA PassIs ==
  ASSUME NEW T, NEW x \in Seq(T)
  PROVE  LET k == Kept(x)
             s == CoreStart(x)
             e == CoreEnd(x)
         IN /\ k \in Seq(T) /\ s \in 1 .. Len(k) + 1 /\ e \in 0 .. Len(k)
            /\ (s # Len(k) + 1 => k[s] \notin Articles) /\ \A i \in 1 .. Len(k) : i < s => k[i] \in Articles
            /\ (e # 0 => k[e] \notin InternationalLegalForms)
            /\ \A i \in 1 .. Len(k) : e < i => k[i] \in InternationalLegalForms
            /\ Pass(x) = IF s <= e THEN SubSeq(k, s, e) ELSE <<>>
<1> DEFINE k == Kept(x)
           n == Len(k)
           s == CoreStart(x)
           e == CoreEnd(x)
           y == SubSeq(k, 1, e)
<1>1. k \in Seq(T) /\ n \in Nat
  BY KeptTokens
<1> HIDE DEF k
<1>2. /\ s \in 1 .. n + 1 /\ (s # n + 1 => k[s] \notin Articles)
      /\ \A i \in 1 .. n : i < s => k[i] \in Articles
  BY <1>1, FirstOutsideIs DEF CoreStart, k
<1>3. /\ e \in 0 .. n /\ (e # 0 => k[e] \notin InternationalLegalForms)
      /\ \A i \in 1 .. n : e < i => k[i] \in InternationalLegalForms
  BY <1>1, LastOutsideIs DEF CoreEnd, k
<1>4. Pass(x) = FromOutside(y, Articles)
  BY DEF Pass, UpToOutside, CoreEnd, k
<1> HIDE DEF s, e
<1>5. /\ y \in Seq(T) /\ Len(y) = IF 1 <= e THEN e - 1 + 1 ELSE 0
      /\ \A i \in 1 .. Len(y) : y[i] = k[1 + i - 1]
  <2>1. 1 \in 1 .. n + 1
    BY <1>1
  <2> QED BY <1>1, <1>3, <2>1, Piece
<1> HIDE DEF y, n
<1>6. Len(y) = e /\ e \in Nat /\ e <= n
  BY <1>1, <1>3, <1>5
<1>7. ASSUME NEW i \in 1 .. e PROVE y[i] = k[i] /\ i \in 1 .. n
  <2>1. 1 + i - 1 = i /\ i \in 1 .. Len(y)
    BY <1>6
  <2> QED BY <1>1, <1>5, <1>6, <2>1
<1>8. CASE s <= e
  <2>1. s \in 1 .. e + 1 /\ s # e + 1 /\ s # n + 1 /\ s \in 1 .. e
    BY <1>1, <1>2, <1>6, <1>8
  <2>2. y[s] \notin Articles /\ \A i \in 1 .. e : i < s => y[i] \in Articles
    BY <1>2, <1>7, <2>1
  <2>3. s = FirstOutside(y, Articles)
    BY <1>5, <1>6, <2>1, <2>2, FirstOutsideIs
  <2> DEFINE u == SubSeq(y, s, e)
             v == SubSeq(k, s, e)
  <2>4. /\ u \in Seq(T) /\ Len(u) = e - s + 1
        /\ \A i \in 1 .. Len(u) : u[i] = y[s + i - 1]
    <3>1. e \in 0 .. Len(y) /\ s \in 1 .. Len(y) + 1
      BY <1>6, <2>1
    <3> QED BY <1>5, <1>8, <3>1, Piece
  <2>5. /\ v \in Seq(T) /\ Len(v) = e - s + 1
        /\ \A i \in 1 .. Len(v) : v[i] = k[s + i - 1]
    BY <1>1, <1>2, <1>3, <1>8, Piece DEF n
  <2> HIDE DEF u, v
  <2>6. \A i \in 1 .. Len(u) : u[i] = v[i]
    <3> SUFFICES ASSUME NEW i \in 1 .. Len(u) PROVE u[i] = v[i]
      OBVIOUS
    <3>1. s + i - 1 \in 1 .. e
      BY <1>6, <2>1, <2>4
    <3> QED BY <1>7, <2>4, <2>5, <3>1
  <2>7. u = v
    BY <2>4, <2>5, <2>6, SameList
  <2>8. FromOutside(y, Articles) = u
    BY <1>6, <2>3 DEF FromOutside, u
  <2> QED BY <1>1, <1>2, <1>3, <1>4, <1>8, <2>7, <2>8 DEF v, k, n, s, e
<1>9. CASE ~ (s <= e)
  <2>1. e + 1 \in 1 .. e + 1 /\ \A i \in 1 .. e : i < s
    BY <1>1, <1>2, <1>6, <1>9
  <2>2. \A i \in 1 .. e : y[i] \in Articles
    BY <1>2, <1>7, <2>1
  <2>3. e + 1 = FirstOutside(y, Articles)
    BY <1>5, <1>6, <2>1, <2>2, FirstOutsideIs
  <2> DEFINE u == SubSeq(y, e + 1, e)
  <2>4. u \in Seq(T) /\ Len(u) = 0
    <3>1. e \in 0 .. Len(y) /\ e + 1 \in 1 .. Len(y) + 1 /\ ~ (e + 1 <= e)
      BY <1>6
    <3> QED BY <1>5, <3>1, Piece
  <2>5. FromOutside(y, Articles) = u
    BY <1>6, <2>3 DEF FromOutside
  <2> HIDE DEF u
  <2>6. u = <<>>
    BY <2>4
  <2> QED BY <1>1, <1>2, <1>3, <1>4, <1>9, <2>5, <2>6 DEF k, n, s, e
<1> QED BY <1>8, <1>9

\* A pass leaves what it left before.
LEMMA PassTwice ==
  ASSUME NEW T, NEW x \in Seq(T)
  PROVE  Pass(x) \in Seq(T) /\ Pass(Pass(x)) = Pass(x)
<1> DEFINE k == Kept(x)
           s == CoreStart(x)
           e == CoreEnd(x)
           y == Pass(x)
<1>1. /\ k \in Seq(T) /\ s \in 1 .. Len(k) + 1 /\ e \in 0 .. Len(k)
      /\ (s # Len(k) + 1 => k[s] \notin Articles)
      /\ (e # 0 => k[e] \notin InternationalLegalForms)
      /\ y = IF s <= e THEN SubSeq(k, s, e) ELSE <<>>
  BY PassIs
<1>2. \A i \in 1 .. Len(k) : k[i] \notin ThaiLegalForms
  BY KeptTokens
<1> HIDE DEF k, s, e, y
<1>3. Len(k) \in Nat
  BY <1>1
<1>4. /\ y \in Seq(T) /\ \A i \in 1 .. Len(y) : y[i] \notin ThaiLegalForms
      /\ y # <<>> => y[1] \notin Articles /\ y[Len(y)] \notin InternationalLegalForms
  <2>1. CASE s <= e
    <3>1. /\ y \in Seq(T) /\ Len(y) = e - s + 1
          /\ \A i \in 1 .. Len(y) : y[i] = k[s + i - 1]
      BY <1>1, <2>1, Piece
    <3>2. 1 \in 1 .. Len(y) /\ s + 1 - 1 = s /\ Len(y) \in 1 .. Len(y) /\ s + Len(y) - 1 = e
      BY <1>1, <1>3, <2>1, <3>1
    <3>3. y[1] = k[s] /\ y[Len(y)] = k[e] /\ s # Len(k) + 1 /\ e # 0
      BY <1>1, <1>3, <2>1, <3>1, <3>2
    <3>4. ASSUME NEW i \in 1 .. Len(y) PROVE y[i] \notin ThaiLegalForms
      <4>1. s + i - 1 \in 1 .. Len(k)
        BY <1>1, <1>3, <2>1, <3>1
      <4> QED BY <1>2, <3>1, <4>1
    <3> QED BY <1>1, <3>1, <3>3, <3>4
  <2>2. CASE ~ (s <= e)
    <3>1. y = <<>>
      BY <1>1, <2>2
    <3> QED BY <3>1
  <2> QED BY <2>1, <2>2
<1>5. Kept(y) = y
  BY <1>4, KeptTokens
<1>6. UpToOutside(y, InternationalLegalForms) = y
  BY <1>4, OffTheEnd DEF Last
<1>7. FromOutside(y, Articles) = y
  <2>1. y # <<>> => Head(y) = y[1]
    BY <1>4
  <2> QED BY <1>4, <2>1, OffTheStart
<1>8. Pass(y) = y
  BY <1>5, <1>6, <1>7 DEF Pass
<1> QED BY <1>4, <1>8 DEF y

\* The loop over the end of the tokens.
LEMMA PopsToCore ==
  \A x \in Seq(Token) : PopLegalForms[x] = UpToOutside(x, InternationalLegalForms)
<1> DEFINE A == InternationalLegalForms
           Is(h) == h = [x \in Seq(Token) |-> IF x # <<>> /\ Last(x) \in A THEN h[Front(x)] ELSE x]
           g == [x \in Seq(Token) |-> UpToOutside(x, A)]
           p == PopLegalForms
<1>1. p = CHOOSE h : Is(h)
  BY DEF PopLegalForms
<1> HIDE DEF p, A
<1>2. Is(g)
  <2>1. ASSUME NEW x \in Seq(Token)
        PROVE  g[x] = IF x # <<>> /\ Last(x) \in A THEN g[Front(x)] ELSE x
    BY OffTheEnd
  <2> QED BY <2>1
<1>3. \E h : Is(h)
  BY <1>2
<1>4. Is(p)
  <2> HIDE DEF Is
  <2> QED BY <1>1, <1>3
<1>5. \A x \in Seq(Token) : p[x] = IF x # <<>> /\ Last(x) \in A THEN p[Front(x)] ELSE x
  BY <1>4
<1> HIDE DEF Is, g
<1> DEFINE M == {n \in Nat : \A x \in Seq(Token) : Len(x) = n => p[x] = UpToOutside(x, A)}
<1>6. 0 \in M
  <2>1. ASSUME NEW x \in Seq(Token), Len(x) = 0 PROVE p[x] = UpToOutside(x, A)
    <3>1. x = <<>>
      BY <2>1
    <3> QED BY <1>5, <3>1, OffTheEnd
  <2> QED BY <2>1
<1>7. ASSUME NEW n \in Nat, n \in M PROVE n + 1 \in M
  <2>1. ASSUME NEW x \in Seq(Token), Len(x) = n + 1 PROVE p[x] = UpToOutside(x, A)
    <3>1. CASE x # <<>> /\ Last(x) \in A
      <4>1. /\ Front(x) \in Seq(Token) /\ Len(Front(x)) = n + 1 - 1
            /\ UpToOutside(x, A) = UpToOutside(Front(x), A)
        BY <2>1, <3>1, OffTheEnd
      <4>2. Len(Front(x)) = n
        BY <4>1
      <4> QED BY <1>5, <1>7, <3>1, <4>1, <4>2
    <3>2. CASE ~ (x # <<>> /\ Last(x) \in A)
      BY <1>5, <3>2, OffTheEnd
    <3> QED BY <3>1, <3>2
  <2> QED BY <2>1
<1>8. Nat \subseteq M
  <2> HIDE DEF M
  <2> QED BY <1>6, <1>7, Induction
<1>9. \A x \in Seq(Token) : p[x] = UpToOutside(x, A)
  <2> TAKE x \in Seq(Token)
  <2>1. Len(x) \in Nat
    OBVIOUS
  <2> QED BY <1>8, <2>1
<1> QED BY <1>9 DEF p, A

\* The loop over the beginning of the tokens.
LEMMA ShiftsToCore ==
  \A x \in Seq(Token) : ShiftArticles[x] = FromOutside(x, Articles)
<1> DEFINE A == Articles
           Is(h) == h = [x \in Seq(Token) |-> IF x # <<>> /\ Head(x) \in A THEN h[Tail(x)] ELSE x]
           g == [x \in Seq(Token) |-> FromOutside(x, A)]
           p == ShiftArticles
<1>1. p = CHOOSE h : Is(h)
  BY DEF ShiftArticles
<1> HIDE DEF p, A
<1>2. Is(g)
  <2>1. ASSUME NEW x \in Seq(Token)
        PROVE  g[x] = IF x # <<>> /\ Head(x) \in A THEN g[Tail(x)] ELSE x
    BY OffTheStart
  <2> QED BY <2>1
<1>3. \E h : Is(h)
  BY <1>2
<1>4. Is(p)
  <2> HIDE DEF Is
  <2> QED BY <1>1, <1>3
<1>5. \A x \in Seq(Token) : p[x] = IF x # <<>> /\ Head(x) \in A THEN p[Tail(x)] ELSE x
  BY <1>4
<1> HIDE DEF Is, g
<1> DEFINE M == {n \in Nat : \A x \in Seq(Token) : Len(x) = n => p[x] = FromOutside(x, A)}
<1>6. 0 \in M
  <2>1. ASSUME NEW x \in Seq(Token), Len(x) = 0 PROVE p[x] = FromOutside(x, A)
    <3>1. x = <<>>
      BY <2>1
    <3> QED BY <1>5, <3>1, OffTheStart
  <2> QED BY <2>1
<1>7. ASSUME NEW n \in Nat, n \in M PROVE n + 1 \in M
  <2>1. ASSUME NEW x \in Seq(Token), Len(x) = n + 1 PROVE p[x] = FromOutside(x, A)
    <3>1. CASE x # <<>> /\ Head(x) \in A
      <4>1. /\ Tail(x) \in Seq(Token) /\ Len(Tail(x)) = n + 1 - 1
            /\ FromOutside(x, A) = FromOutside(Tail(x), A)
        BY <2>1, <3>1, OffTheStart
      <4>2. Len(Tail(x)) = n
        BY <4>1
      <4> QED BY <1>5, <1>7, <3>1, <4>1, <4>2
    <3>2. CASE ~ (x # <<>> /\ Head(x) \in A)
      BY <1>5, <3>2, OffTheStart
    <3> QED BY <3>1, <3>2
  <2> QED BY <2>1
<1>8. Nat \subseteq M
  <2> HIDE DEF M
  <2> QED BY <1>6, <1>7, Induction
<1>9. \A x \in Seq(Token) : p[x] = FromOutside(x, A)
  <2> TAKE x \in Seq(Token)
  <2>1. Len(x) \in Nat
    OBVIOUS
  <2> QED BY <1>8, <2>1
<1> QED BY <1>9 DEF p, A

\* The loop of step 5 ends after one pass.
LEMMA RemovesToCore ==
  \A x \in Seq(Token) : removeTokens[x] = Pass(x)
<1> DEFINE Is(h) == h = [x \in Seq(Token) |-> IF Pass(x) = x THEN x ELSE h[Pass(x)]]
           g == [x \in Seq(Token) |-> Pass(x)]
           p == removeTokens
<1>1. \A x \in Seq(Token) : ShiftArticles[PopLegalForms[Keep(x, LAMBDA t : t \notin ThaiLegalForms)]] = Pass(x)
  <2> TAKE x \in Seq(Token)
  <2>1. Kept(x) \in Seq(Token)
    BY KeptTokens
  <2> DEFINE u == UpToOutside(Kept(x), InternationalLegalForms)
  <2>2. PopLegalForms[Kept(x)] = u
    BY <2>1, PopsToCore
  <2>3. u \in Seq(Token)
    <3> DEFINE k == Kept(x)
               e == LastOutside(k, InternationalLegalForms)
    <3>1. e \in 0 .. Len(k)
      BY <2>1, LastOutsideIs
    <3> HIDE DEF k, e
    <3>2. 1 \in 1 .. Len(k) + 1
      BY <2>1 DEF k
    <3>3. SubSeq(k, 1, e) \in Seq(Token)
      BY <2>1, <3>1, <3>2, Piece DEF k
    <3> QED BY <3>3 DEF UpToOutside, k, e
  <2> HIDE DEF u
  <2>4. ShiftArticles[u] = FromOutside(u, Articles)
    BY <2>3, ShiftsToCore
  <2> QED BY <2>2, <2>4 DEF Pass, Kept, u
<1>2. p = CHOOSE h : Is(h)
  <2> DEFINE Code(x) == ShiftArticles[PopLegalForms[Keep(x, LAMBDA t : t \notin ThaiLegalForms)]]
             Written(h) == h = [x \in Seq(Token) |-> IF Code(x) = x THEN x ELSE h[Code(x)]]
  <2>1. p = CHOOSE h : Written(h)
    BY DEF removeTokens
  <2>2. \A x \in Seq(Token) : Code(x) = Pass(x)
    BY <1>1
  <2> HIDE DEF Code
  <2>3. \A h : [x \in Seq(Token) |-> IF Code(x) = x THEN x ELSE h[Code(x)]]
               = [x \in Seq(Token) |-> IF Pass(x) = x THEN x ELSE h[Pass(x)]]
    BY <2>2
  <2>4. \A h : Written(h) <=> Is(h)
    BY <2>3
  <2> HIDE DEF Written, Is, p
  <2>5. (CHOOSE h : Written(h)) = CHOOSE h : Is(h)
    BY <2>4
  <2> QED BY <2>1, <2>5
<1> HIDE DEF p
<1>3. \A x \in Seq(Token) : Pass(x) \in Seq(Token) /\ Pass(Pass(x)) = Pass(x)
  BY PassTwice
<1>4. Is(g)
  <2>1. ASSUME NEW x \in Seq(Token) PROVE g[x] = IF Pass(x) = x THEN x ELSE g[Pass(x)]
    BY <1>3
  <2> QED BY <2>1
<1>5. \E h : Is(h)
  BY <1>4
<1>6. Is(p)
  <2> HIDE DEF Is
  <2> QED BY <1>2, <1>5
<1>7. \A x \in Seq(Token) : p[x] = IF Pass(x) = x THEN x ELSE p[Pass(x)]
  BY <1>6
<1> HIDE DEF Is, g
<1>8. \A x \in Seq(Token) : p[x] = Pass(x)
  BY <1>3, <1>7
<1> QED BY <1>8 DEF p

\* What a pass leaves is the core of the rule table.
LEMMA CoreIsPass ==
  ASSUME NEW T, NEW x \in Seq(T)
  PROVE  Core(x) = Pass(x)
<1> DEFINE k == Kept(x)
           n == Len(k)
           s == CoreStart(x)
           e == CoreEnd(x)
           runs == {SubSeq(k, i, j) : i \in DOMAIN k, j \in DOMAIN k}
           kept == {r \in runs : r # <<>> /\ Head(r) \notin Articles /\ Last(r) \notin InternationalLegalForms}
<1>1. Core(x) = IF kept = {} THEN <<>> ELSE CHOOSE r \in kept : \A q \in kept : Len(q) <= Len(r)
  BY DEF Core, Kept
<1>2. /\ k \in Seq(T) /\ s \in 1 .. n + 1 /\ e \in 0 .. n
      /\ (s # n + 1 => k[s] \notin Articles) /\ \A i \in 1 .. n : i < s => k[i] \in Articles
      /\ (e # 0 => k[e] \notin InternationalLegalForms)
      /\ \A i \in 1 .. n : e < i => k[i] \in InternationalLegalForms
      /\ Pass(x) = IF s <= e THEN SubSeq(k, s, e) ELSE <<>>
  BY PassIs
<1> HIDE DEF k, s, e
<1>3. n \in Nat /\ DOMAIN k = 1 .. n /\ s \in Int /\ e \in Int
  BY <1>2
<1> DEFINE Cut(i, j) == SubSeq(k, i, j)
           Good(r) == r # <<>> /\ Head(r) \notin Articles /\ Last(r) \notin InternationalLegalForms
<1>3a. \A r : r \in runs <=> \E i \in 1 .. n : \E j \in 1 .. n : r = Cut(i, j)
  <2>1. \A r : r \in runs <=> \E i \in DOMAIN k, j \in DOMAIN k : r = Cut(i, j)
    OBVIOUS
  <2> HIDE DEF runs, Cut
  <2> QED BY <1>3, <2>1
<1>3b. \A r : r \in kept <=> r \in runs /\ Good(r)
  <2> HIDE DEF runs
  <2> QED OBVIOUS
<1> HIDE DEF runs, kept, Good
<1>4. ASSUME NEW i \in 1 .. n, NEW j \in 1 .. n
      PROVE  LET r == SubSeq(k, i, j)
             IN /\ r # <<>> <=> i <= j
                /\ r # <<>> => Len(r) = j - i + 1 /\ Head(r) = k[i] /\ Last(r) = k[j]
  <2> DEFINE r == SubSeq(k, i, j)
  <2>1. /\ r \in Seq(T) /\ Len(r) = IF i <= j THEN j - i + 1 ELSE 0
        /\ \A h \in 1 .. Len(r) : r[h] = k[i + h - 1]
    <3>1. i \in 1 .. n + 1 /\ j \in 0 .. n
      BY <1>3
    <3> QED BY <1>2, <3>1, Piece
  <2> HIDE DEF r
  <2>2. (r = <<>> <=> Len(r) = 0) /\ (r # <<>> => Head(r) = r[1] /\ Last(r) = r[Len(r)])
    BY <2>1 DEF Last
  <2>3. CASE i <= j
    <3>1. Len(r) = j - i + 1 /\ Len(r) # 0 /\ 1 \in 1 .. Len(r) /\ Len(r) \in 1 .. Len(r)
          /\ i + 1 - 1 = i /\ i + Len(r) - 1 = j
      BY <1>3, <2>1, <2>3
    <3>2. r[1] = k[i] /\ r[Len(r)] = k[j]
      BY <2>1, <3>1
    <3> QED BY <2>2, <2>3, <3>1, <3>2 DEF r
  <2>4. CASE ~ (i <= j)
    BY <2>1, <2>2, <2>4 DEF r
  <2> QED BY <2>3, <2>4
<1>5. ASSUME NEW i \in 1 .. n, NEW j \in 1 .. n, SubSeq(k, i, j) \in kept
      PROVE  /\ s <= i /\ j <= e /\ i <= j /\ s <= e
             /\ Len(SubSeq(k, i, j)) = j - i + 1
  <2> DEFINE r == SubSeq(k, i, j)
  <2>1. r # <<>> /\ Head(r) \notin Articles /\ Last(r) \notin InternationalLegalForms
    BY <1>3b, <1>5 DEF Good
  <2>2. i <= j /\ Len(r) = j - i + 1 /\ k[i] \notin Articles /\ k[j] \notin InternationalLegalForms
    BY <1>4, <2>1
  <2> HIDE DEF r, kept
  <2>3. ~ (i < s) /\ ~ (e < j)
    BY <1>2, <2>2
  <2> QED BY <1>3, <2>2, <2>3 DEF r
<1>6. CASE s <= e
  <2> DEFINE r == SubSeq(k, s, e)
  <2>1. s \in 1 .. n /\ e \in 1 .. n /\ s # n + 1 /\ e # 0
    BY <1>2, <1>3, <1>6
  <2>2. r # <<>> /\ Len(r) = e - s + 1 /\ Head(r) = k[s] /\ Last(r) = k[e]
    BY <1>4, <1>6, <2>1
  <2>3. r \in runs
    BY <1>3a, <2>1
  <2>4. r \in kept
    BY <1>2, <1>3b, <2>1, <2>2, <2>3 DEF Good
  <2>5. ASSUME NEW q \in kept
        PROVE  Len(q) <= Len(r) /\ (Len(r) <= Len(q) => q = r)
    <3>1. PICK i \in 1 .. n, j \in 1 .. n : q = Cut(i, j)
      <4> HIDE DEF Cut
      <4> QED BY <1>3a, <1>3b, <2>5
    <3>2. s <= i /\ j <= e /\ i <= j /\ Len(q) = j - i + 1
      <4>1. Cut(i, j) \in kept
        BY <2>5, <3>1
      <4> QED BY <1>5, <3>1, <4>1
    <3> HIDE DEF r, kept, runs
    <3>3. Len(q) <= Len(r)
      BY <1>3, <2>2, <3>2
    <3>4. Len(r) <= Len(q) => i = s /\ j = e
      BY <1>3, <2>2, <3>2
    <3> QED BY <3>1, <3>3, <3>4 DEF r
  <2> HIDE DEF r, kept
  <2>6. \A q \in kept : Len(q) <= Len(r)
    BY <2>5
  <2> DEFINE c == CHOOSE a \in kept : \A q \in kept : Len(q) <= Len(a)
  <2>7. c \in kept /\ \A q \in kept : Len(q) <= Len(c)
    BY <2>4, <2>6
  <2>8. Core(x) = c
    BY <1>1, <2>4
  <2> HIDE DEF c
  <2>9. c = r
    BY <2>4, <2>5, <2>7
  <2> QED BY <1>2, <1>6, <2>8, <2>9 DEF r
<1>7. CASE ~ (s <= e)
  <2>1. ASSUME NEW r \in kept PROVE FALSE
    <3>1. PICK i \in 1 .. n, j \in 1 .. n : r = Cut(i, j)
      <4> HIDE DEF Cut
      <4> QED BY <1>3a, <1>3b, <2>1
    <3>2. Cut(i, j) \in kept
      BY <2>1, <3>1
    <3> QED BY <1>5, <1>7, <3>2
  <2> HIDE DEF kept
  <2>2. Core(x) = <<>>
    BY <1>1, <2>1
  <2> QED BY <1>2, <1>7, <2>2
<1> QED BY <1>6, <1>7

\* The tokens of a name.
LEMMA SurfaceType ==
  ASSUME NEW name \in Seq(DOMAIN folded)
  PROVE  surfaceKey(name) \in Seq(Token)
<1> DEFINE n == Len(name)
           q == [i \in DOMAIN name |-> folded[name[i]]]
<1>1. n \in Nat /\ DOMAIN name = 1 .. n /\ \A i \in 1 .. n : name[i] \in DOMAIN folded
  OBVIOUS
<1>2. ASSUME NEW word \in DOMAIN folded PROVE folded[word] \in Seq(Token)
  <2> DEFINE S == ToSet(folded[word])
  <2>1. S \subseteq Token
    <3> HIDE DEF S
    <3> QED BY DEF Token, S
  <2>2. folded[word] \in Seq(S)
    BY FoldedAssumption DEF IsList
  <2> HIDE DEF S
  <2> QED BY <2>1, <2>2
<1>3. \A i \in 1 .. n : q[i] \in Seq(Token)
  BY <1>1, <1>2
<1>4. q = [i \in 1 .. n |-> q[i]]
  BY <1>1
<1>5. surfaceKey(name) = FlattenSeq(q)
  BY DEF surfaceKey
<1> HIDE DEF q
<1>6. q \in [1 .. n -> Seq(Token)]
  BY <1>3, <1>4
<1> HIDE DEF n
<1>7. q \in Seq(Seq(Token))
  BY <1>1, <1>6
<1> QED BY <1>5, <1>7, FlattenType

\* Names have one key when the rule table says that they are one.
LEMMA KeysOfNames ==
  ASSUME NEW m \in Seq(DOMAIN folded), NEW n \in Seq(DOMAIN folded)
  PROVE  normKey(m) = normKey(n) <=> SameName(m, n)
<1> DEFINE a == surfaceKey(m)
           b == surfaceKey(n)
<1>1. a \in Seq(Token) /\ b \in Seq(Token)
  BY SurfaceType
<1>2. /\ normKey(m) = IF removeTokens[a] = <<>> THEN a ELSE removeTokens[a]
      /\ normKey(n) = IF removeTokens[b] = <<>> THEN b ELSE removeTokens[b]
  BY DEF normKey
<1>3. SameName(m, n) <=> IF Core(a) = <<>> \/ Core(b) = <<>> THEN a = b ELSE Core(a) = Core(b)
  BY DEF SameName
<1> HIDE DEF a, b
<1>4. removeTokens[a] = Pass(a) /\ removeTokens[b] = Pass(b)
  BY <1>1, RemovesToCore
<1>5. Core(a) = Pass(a) /\ Core(b) = Pass(b)
  BY <1>1, CoreIsPass
<1>6. Pass(Pass(a)) = Pass(a) /\ Pass(Pass(b)) = Pass(b)
  BY <1>1, PassTwice
<1>7. CASE Pass(a) = <<>> /\ Pass(b) = <<>>
  BY <1>2, <1>3, <1>4, <1>5, <1>7
<1>8. CASE Pass(a) = <<>> /\ Pass(b) # <<>>
  BY <1>2, <1>3, <1>4, <1>5, <1>6, <1>8
<1>9. CASE Pass(a) # <<>> /\ Pass(b) = <<>>
  BY <1>2, <1>3, <1>4, <1>5, <1>6, <1>9
<1>10. CASE Pass(a) # <<>> /\ Pass(b) # <<>>
  BY <1>2, <1>3, <1>4, <1>5, <1>10
<1> QED BY <1>7, <1>8, <1>9, <1>10

\* An accepted batch has a mention for each id, under a name that is written.
LEMMA MentionsNamed ==
  ASSUME NEW r \in Request, Accepted(r)
  PROVE  \A m \in ToSet(Sorted(r.batch).mentions) :
           /\ m.key \in Seq(DOMAIN folded)
           /\ \A n \in ToSet(Sorted(r.batch).mentions) : mentionId(m) = mentionId(n) => m = n
<1> DEFINE w == r.batch
           b == Sorted(w)
           id == [i \in DOMAIN w.mentions |-> w.mentions[i].sourceMentionId]
<1>1. IsInjective(id)
  BY DEF Accepted, ValidBatch, ValidMentions
<1>2. ASSUME NEW i \in DOMAIN w.mentions PROVE w.mentions[i].resolutionKey \in Seq(DOMAIN folded)
  <2>1. w.mentions[i] \in ToSet(w.mentions)
    BY DEF ToSet
  <2> QED BY <2>1, RequestAssumption
<1>3. DOMAIN b.mentions = DOMAIN w.mentions
  BY DEF Sorted
<1>4. \A i \in DOMAIN w.mentions : /\ b.mentions[i].key = w.mentions[i].resolutionKey
                                   /\ b.mentions[i].id = id[i]
  BY DEF Sorted
<1>5. \A i, j \in DOMAIN w.mentions : id[i] = id[j] => i = j
  BY <1>1 DEF IsInjective
<1> HIDE DEF b, id
<1>6. ASSUME NEW m \in ToSet(b.mentions), NEW n \in ToSet(b.mentions)
      PROVE  m.key \in Seq(DOMAIN folded) /\ (mentionId(m) = mentionId(n) => m = n)
  <2>1. PICK i \in DOMAIN w.mentions : m = b.mentions[i]
    BY <1>3 DEF ToSet
  <2>2. PICK j \in DOMAIN w.mentions : n = b.mentions[j]
    BY <1>3 DEF ToSet
  <2> QED BY <1>2, <1>4, <1>5, <2>1, <2>2 DEF mentionId
<1> QED BY <1>6 DEF b

\* The entity that Stage 9 makes of the mentions of one identity.
EntityOf(b, m) ==
  [id |-> EntityId(b, m), type |-> m.type,
   mentions |-> {mentionId(n) : n \in {k \in ToSet(b.mentions) : Identity(k) = Identity(m)}}]

\* A mention is of the entity of its identity, and of no other.
LEMMA MentionOfEntity ==
  ASSUME NEW b, \A k, l \in ToSet(b.mentions) : mentionId(k) = mentionId(l) => k = l,
         NEW m \in ToSet(b.mentions), NEW n \in ToSet(b.mentions)
  PROVE  /\ mentionId(m) \in EntityOf(b, n).mentions <=> Identity(m) = Identity(n)
         /\ Identity(m) = Identity(n) => EntityOf(b, m) = EntityOf(b, n)
<1>1. mentionId(m) \in EntityOf(b, n).mentions
      <=> \E k \in ToSet(b.mentions) : Identity(k) = Identity(n) /\ mentionId(m) = mentionId(k)
  BY DEF EntityOf
<1>2. ASSUME Identity(m) = Identity(n) PROVE EntityOf(b, m) = EntityOf(b, n)
  <2>1. m.type = n.type
    BY <1>2 DEF Identity
  <2>2. EntityId(b, m) = EntityId(b, n)
    BY <1>2, Zenon DEF EntityId
  <2>3. {k \in ToSet(b.mentions) : Identity(k) = Identity(m)} = {k \in ToSet(b.mentions) : Identity(k) = Identity(n)}
    BY <1>2
  <2> QED BY <2>1, <2>2, <2>3, Zenon DEF EntityOf
<1> QED BY <1>1, <1>2

\* Stage 9 keeps names apart exactly as the rule table does, whatever words there
\* are and however they fold: the mentions of one entity are those whose types
\* agree and whose names do, legal forms and articles apart
\* (buildPipelineDecision, norm_v1).
THEOREM NamesAreEntities == Spec => []OneEntityPerName
<1>1. GateInv => OneEntityPerName
  <2> SUFFICES ASSUME GateInv, decision # NoDecision, NEW m \in ToSet(batch.mentions), NEW n \in ToSet(batch.mentions)
               PROVE  LET of(x) == {e \in decision.entities : mentionId(x) \in e.mentions}
                      IN /\ Cardinality(of(m)) = 1
                         /\ of(m) = of(n) <=> m.type = n.type /\ SameName(m.key, n.key)
    BY DEF OneEntityPerName
  <2>1. request \in Request /\ stage \notin {"idle", "refused"} /\ DecisionInv
    BY DEF GateInv, StageInv
  <2>2. Accepted(request) /\ batch = Sorted(request.batch)
    BY <2>1 DEF DecisionInv
  <2>3. PICK v \in Version : decision = Decision(batch, v)
    BY <2>1 DEF DecisionInv
  <2> DEFINE ms == ToSet(batch.mentions)
             of(x) == {e \in decision.entities : mentionId(x) \in e.mentions}
             E(x) == EntityOf(batch, x)
  <2>4. decision.entities = {E(x) : x \in ms}
    BY <2>3 DEF Decision, DecisionOn, DecisionFrom, DecisionRow, Entities, EntityOf
  <2>5. \A k, l \in ms : mentionId(k) = mentionId(l) => k = l
    BY <2>1, <2>2, MentionsNamed
  <2>6. \A k, l \in ms : /\ mentionId(k) \in E(l).mentions <=> Identity(k) = Identity(l)
                         /\ Identity(k) = Identity(l) => E(k) = E(l)
    BY <2>5, MentionOfEntity
  <2> HIDE DEF E
  <2>7. ASSUME NEW x \in ms PROVE of(x) = {E(x)}
    <3>1. ASSUME NEW e \in decision.entities, mentionId(x) \in e.mentions PROVE e = E(x)
      <4>1. PICK l \in ms : e = E(l)
        BY <2>4, <3>1
      <4> QED BY <2>6, <3>1, <4>1
    <3>2. E(x) \in decision.entities /\ mentionId(x) \in E(x).mentions
      BY <2>4, <2>6
    <3> QED BY <3>1, <3>2
  <2>8. Cardinality(of(m)) = 1
    BY <2>7, FS_Singleton
  <2>9. of(m) = of(n) <=> Identity(m) = Identity(n)
    <3>1. of(m) = of(n) <=> E(m) = E(n)
      BY <2>7
    <3>2. E(m) = E(n) => Identity(m) = Identity(n)
      BY <2>6
    <3> QED BY <2>6, <3>1, <3>2
  <2>10. m.key \in Seq(DOMAIN folded) /\ n.key \in Seq(DOMAIN folded)
    BY <2>1, <2>2, MentionsNamed
  <2>11. Identity(m) = Identity(n) <=> normKey(m.key) = normKey(n.key) /\ m.type = n.type
    BY DEF Identity
  <2>12. normKey(m.key) = normKey(n.key) <=> SameName(m.key, n.key)
    BY <2>10, KeysOfNames
  <2> HIDE DEF of
  <2>13. of(m) = of(n) <=> m.type = n.type /\ SameName(m.key, n.key)
    BY <2>9, <2>11, <2>12
  <2> QED BY <2>8, <2>13 DEF of
<1> QED BY <1>1, GateInvariant, PTL
=============================================================================
