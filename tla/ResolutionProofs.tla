-------------------------- MODULE ResolutionProofs --------------------------
(***************************************************************************)
(* First, what the operators of Resolution do: the tables that a           *)
(* transaction goes through, chains of merges, the decisions of the ladder, *)
(* and the rows that are created, filled and told apart.  Facts about      *)
(* recursive functions are proved by looking at the least number without   *)
(* them.  Then the inductive invariant of Resolution, that every action    *)
(* keeps it, and what follows from it: the safety properties, that writes  *)
(* only add, and that Resolution implements IdentityClasses.               *)
(***************************************************************************)
EXTENDS Resolution, WellFoundedInduction, TLAPS

-----------------------------------------------------------------------------
(* Induction.  A property of the numbers is proved by looking at the least *)
(* number that does not have it.                                           *)

LessThan == {ss \in Nat \X Nat : ss[1] < ss[2]}

\* Every nonempty set of natural numbers has a least element.
LEMMA LeastElement ==
  ASSUME NEW T \in SUBSET Nat, T # {}
  PROVE  \E n \in T : \A k \in T : n <= k
<1>1. IsWellFoundedOn(LessThan, Nat)
  BY NatLessThanWellFounded DEF OpToRel, LessThan
<1>2. PICK n \in T : \A k \in T : ~(<<k, n>> \in LessThan)
  BY <1>1, WFMin
<1>3. \A k \in T : ~(k < n)
  BY <1>2 DEF LessThan
<1>4. QED
  BY <1>3

\* A set that holds 0 and with each number the next one holds them all.
LEMMA Induction ==
  ASSUME NEW S, 0 \in S, \A n \in Nat : n \in S => n + 1 \in S
  PROVE  Nat \subseteq S
<1>1. SUFFICES ASSUME Nat \ S # {} PROVE FALSE
  OBVIOUS
<1>2. PICK n \in Nat \ S : \A k \in Nat \ S : n <= k
  BY <1>1, LeastElement
<1>3. n # 0 /\ n - 1 \in Nat
  BY <1>2
<1>4. n - 1 \in S
  BY <1>2, <1>3
<1>5. (n - 1) + 1 = n
  BY <1>2
<1>6. QED
  BY <1>2, <1>3, <1>4, <1>5

-----------------------------------------------------------------------------
(* The tables that a transaction goes through. *)

\* The table before the first candidate is the one that is stored, and each
\* candidate leaves the next one (transactPromotion's loop).
LEMMA TablesStep ==
  ASSUME NEW env \in Envelope, NEW made
  PROVE  LET n == Len(env.entities)
             t == Tables(env, made)
         IN  /\ n \in Nat /\ DOMAIN env.entities = 1..n
             /\ t[1] = entities
             /\ \A i \in 1..n : t[i + 1] = Store(t[i], env, env.entities[i], made[i])
<1> DEFINE n == Len(env.entities)
           Is(g, k) == g = [i \in 1..k + 1 |->
                              IF i = 1 THEN entities
                              ELSE Store(g[i - 1], env, env.entities[i - 1], made[i - 1])]
           S == {k \in Nat : \E g : Is(g, k)}
<1>1. n \in Nat /\ DOMAIN env.entities = 1..n
  BY EnvelopeAssumption
<1>2. 0 \in S
  <2>1. Is([i \in 1..0 + 1 |-> entities], 0)
    OBVIOUS
  <2>2. QED
    BY <2>1
<1>3. ASSUME NEW k \in Nat, k \in S PROVE k + 1 \in S
  <2>1. PICK g : Is(g, k)
    BY <1>3
  <2> DEFINE h == [i \in 1..(k + 1) + 1 |->
                     IF i = (k + 1) + 1 THEN Store(g[k + 1], env, env.entities[k + 1], made[k + 1])
                     ELSE g[i]]
  <2>2. \A i \in 1..(k + 1) + 1 : i # 1 => h[i - 1] = g[i - 1]
    OBVIOUS
  <2>3. ASSUME NEW i \in 1..(k + 1) + 1
        PROVE  h[i] = IF i = 1 THEN entities
                      ELSE Store(h[i - 1], env, env.entities[i - 1], made[i - 1])
    <3>1. CASE i = (k + 1) + 1
      BY <3>1, <2>2
    <3>2. CASE i # (k + 1) + 1
      <4>1. i \in 1..k + 1
        BY <3>2
      <4>2. g[i] = IF i = 1 THEN entities
                   ELSE Store(g[i - 1], env, env.entities[i - 1], made[i - 1])
        BY <2>1, <4>1
      <4>3. QED
        BY <3>2, <4>2, <2>2
    <3>3. QED
      BY <3>1, <3>2
  <2> HIDE DEF h
  <2>4. DOMAIN h = 1..(k + 1) + 1 /\ h = [i \in 1..(k + 1) + 1 |-> h[i]]
    BY DEF h
  <2>5. Is(h, k + 1)
    BY <2>3, <2>4
  <2>6. QED
    BY <2>5
<1>4. n \in S
  <2> HIDE DEF S
  <2>1. QED BY <1>1, <1>2, <1>3, Induction
<1>5. Is(Tables(env, made), n)
  BY <1>4 DEF Tables
<1>6. QED
  <2>1. \A i \in 1..n + 1 :
          Tables(env, made)[i] =
            IF i = 1 THEN entities
            ELSE Store(Tables(env, made)[i - 1], env, env.entities[i - 1], made[i - 1])
    BY <1>5
  <2>2. \A i \in 1..n : i + 1 \in 1..n + 1 /\ i + 1 # 1 /\ (i + 1) - 1 = i
    BY <1>1
  <2>3. QED
    BY <1>1, <2>1, <2>2

\* The working pools of an envelope: the first is the pool that was read, and
\* each candidate that is CREATED joins the next one (promoteCandidate's map).
LEMMA PoolsStep ==
  ASSUME NEW env \in Envelope, NEW pool
  PROVE  LET n == Len(env.entities)
             w == WorkingPools(env, pool)
         IN  /\ n \in Nat /\ DOMAIN env.entities = 1..n
             /\ w[1] = pool
             /\ \A i \in 1..n : w[i + 1] = Joined(w[i], env, env.entities[i])
<1> DEFINE n == Len(env.entities)
           Is(g, k) == g = [i \in 1..k + 1 |->
                              IF i = 1 THEN pool ELSE Joined(g[i - 1], env, env.entities[i - 1])]
           S == {k \in Nat : \E g : Is(g, k)}
<1>1. n \in Nat /\ DOMAIN env.entities = 1..n
  BY EnvelopeAssumption
<1>2. 0 \in S
  <2>1. Is([i \in 1..0 + 1 |-> pool], 0)
    OBVIOUS
  <2>2. QED
    BY <2>1
<1>3. ASSUME NEW k \in Nat, k \in S PROVE k + 1 \in S
  <2>1. PICK g : Is(g, k)
    BY <1>3
  <2> DEFINE h == [i \in 1..(k + 1) + 1 |->
                     IF i = (k + 1) + 1 THEN Joined(g[k + 1], env, env.entities[k + 1])
                     ELSE g[i]]
  <2>2. \A i \in 1..(k + 1) + 1 : i # 1 => h[i - 1] = g[i - 1]
    OBVIOUS
  <2>3. ASSUME NEW i \in 1..(k + 1) + 1
        PROVE  h[i] = IF i = 1 THEN pool ELSE Joined(h[i - 1], env, env.entities[i - 1])
    <3>1. CASE i = (k + 1) + 1
      BY <3>1, <2>2
    <3>2. CASE i # (k + 1) + 1
      <4>1. i \in 1..k + 1
        BY <3>2
      <4>2. g[i] = IF i = 1 THEN pool ELSE Joined(g[i - 1], env, env.entities[i - 1])
        BY <2>1, <4>1
      <4>3. QED
        BY <3>2, <4>2, <2>2
    <3>3. QED
      BY <3>1, <3>2
  <2> HIDE DEF h
  <2>4. DOMAIN h = 1..(k + 1) + 1 /\ h = [i \in 1..(k + 1) + 1 |-> h[i]]
    BY DEF h
  <2>5. Is(h, k + 1)
    BY <2>3, <2>4
  <2>6. QED
    BY <2>5
<1>4. n \in S
  <2> HIDE DEF S
  <2>1. QED BY <1>1, <1>2, <1>3, Induction
<1>5. Is(WorkingPools(env, pool), n)
  BY <1>4 DEF WorkingPools
<1>6. QED
  <2>1. \A i \in 1..n + 1 :
          WorkingPools(env, pool)[i] =
            IF i = 1 THEN pool
            ELSE Joined(WorkingPools(env, pool)[i - 1], env, env.entities[i - 1])
    BY <1>5
  <2>2. \A i \in 1..n : i + 1 \in 1..n + 1 /\ i + 1 # 1 /\ (i + 1) - 1 = i
    BY <1>1
  <2>3. QED
    BY <1>1, <2>1, <2>2

-----------------------------------------------------------------------------
(* Chains of merges. *)

\* Merges lead from an entity to one of lower rank: no chain runs in a circle.
RankedBy(ents, rank, bound) ==
  /\ bound \in Nat /\ rank \in [DOMAIN ents -> 0..bound]
  /\ \A e \in DOMAIN ents :
       ents[e].superseded # NoRef =>
         /\ ents[e].superseded \in DOMAIN ents
         /\ rank[ents[e].superseded] < rank[e]
Ranked(ents) == \E bound, rank : RankedBy(ents, rank, bound)

\* h leads every entity to the end of its chain.
HeadMap(ents, h) ==
  h = [e \in DOMAIN ents |-> IF ents[e].superseded = NoRef THEN e ELSE h[ents[e].superseded]]

\* Where merges are ranked two head maps are the same, and lead to heads.
LEMMA HeadMapUnique ==
  ASSUME NEW ents, Ranked(ents), NEW g, HeadMap(ents, g), NEW h, HeadMap(ents, h)
  PROVE  /\ g = h
         /\ \A e \in DOMAIN ents : h[e] \in DOMAIN ents /\ ents[h[e]].superseded = NoRef
<1>1. PICK bound, rank : RankedBy(ents, rank, bound)
  BY DEF Ranked
<1> DEFINE Good(e) == g[e] = h[e] /\ h[e] \in DOMAIN ents /\ ents[h[e]].superseded = NoRef
           S == {k \in Nat : \A e \in DOMAIN ents : rank[e] < k => Good(e)}
<1>2. 0 \in S
  BY <1>1 DEF RankedBy
<1>3. ASSUME NEW k \in Nat, k \in S PROVE k + 1 \in S
  <2>1. ASSUME NEW e \in DOMAIN ents, rank[e] < k + 1 PROVE Good(e)
    <3>1. CASE ents[e].superseded = NoRef
      BY <3>1 DEF HeadMap
    <3>2. CASE ents[e].superseded # NoRef
      <4>1. ents[e].superseded \in DOMAIN ents /\ rank[ents[e].superseded] < k
        BY <1>1, <2>1, <3>2 DEF RankedBy
      <4>2. Good(ents[e].superseded)
        BY <1>3, <4>1
      <4>3. g[e] = g[ents[e].superseded] /\ h[e] = h[ents[e].superseded]
        BY <3>2 DEF HeadMap
      <4>4. QED
        BY <4>2, <4>3
    <3>3. QED
      BY <3>1, <3>2
  <2> HIDE DEF Good
  <2>2. QED
    BY <2>1
<1>4. Nat \subseteq S
  <2> HIDE DEF S
  <2>1. QED BY <1>2, <1>3, Induction
<1>5. \A e \in DOMAIN ents : Good(e)
  <2> HIDE DEF Good
  <2>1. bound + 1 \in S
    BY <1>1, <1>4 DEF RankedBy
  <2>2. \A e \in DOMAIN ents : rank[e] < bound + 1
    BY <1>1 DEF RankedBy
  <2>3. QED
    BY <2>1, <2>2
<1>6. g = h
  <2>1. DOMAIN g = DOMAIN ents /\ DOMAIN h = DOMAIN ents
    BY DEF HeadMap
  <2>2. g = [e \in DOMAIN ents |-> g[e]] /\ h = [e \in DOMAIN ents |-> h[e]]
    BY <2>1 DEF HeadMap
  <2>3. QED
    BY <1>5, <2>1, <2>2
<1>7. QED
  BY <1>5, <1>6

\* Where merges are ranked there is a head map.
LEMMA HeadMapExists ==
  ASSUME NEW ents, Ranked(ents)
  PROVE  \E h : HeadMap(ents, h)
<1>1. PICK bound, rank : RankedBy(ents, rank, bound)
  BY DEF Ranked
<1> DEFINE Low(k) == {e \in DOMAIN ents : rank[e] < k}
           Is(h, k) == h = [e \in Low(k) |-> IF ents[e].superseded = NoRef THEN e
                                             ELSE h[ents[e].superseded]]
           S == {k \in Nat : \E h : Is(h, k)}
<1>2. 0 \in S
  <2>1. Low(0) = {}
    BY <1>1 DEF RankedBy
  <2>2. Is([e \in {} |-> e], 0)
    BY <2>1
  <2>3. QED
    BY <2>2
<1>3. ASSUME NEW k \in Nat, k \in S PROVE k + 1 \in S
  <2>1. PICK g : Is(g, k)
    BY <1>3
  <2> DEFINE h == [e \in Low(k + 1) |-> IF ents[e].superseded = NoRef THEN e
                                        ELSE g[ents[e].superseded]]
  <2>2. ASSUME NEW e \in Low(k + 1)
        PROVE  h[e] = IF ents[e].superseded = NoRef THEN e ELSE h[ents[e].superseded]
    <3>1. CASE ents[e].superseded = NoRef
      BY <3>1
    <3>2. CASE ents[e].superseded # NoRef
      <4> DEFINE f == ents[e].superseded
      <4>1. f \in DOMAIN ents /\ rank[f] < rank[e] /\ rank[e] \in Nat /\ rank[f] \in Nat
        BY <1>1, <3>2 DEF RankedBy
      <4>2. f \in Low(k) /\ f \in Low(k + 1)
        BY <4>1
      <4>3. g[f] = IF ents[f].superseded = NoRef THEN f ELSE g[ents[f].superseded]
        BY <2>1, <4>2
      <4>4. QED
        BY <3>2, <4>2, <4>3
    <3>3. QED
      BY <3>1, <3>2
  <2> HIDE DEF h
  <2>3. h = [e \in Low(k + 1) |-> h[e]]
    BY DEF h
  <2>4. Is(h, k + 1)
    <3> HIDE DEF Low
    <3>1. QED BY <2>2, <2>3
  <2>5. QED
    BY <2>4
<1>4. bound + 1 \in S
  <2> HIDE DEF S
  <2>1. QED BY <1>1, <1>2, <1>3, Induction DEF RankedBy
<1>5. Low(bound + 1) = DOMAIN ents
  BY <1>1 DEF RankedBy
<1>6. QED
  BY <1>4, <1>5 DEF HeadMap

\* Survivor is that head map (followSupersession).
LEMMA SurvivorIsHead ==
  ASSUME NEW ents, Ranked(ents)
  PROVE  /\ \A e \in DOMAIN ents :
              Survivor(ents, e) = IF ents[e].superseded = NoRef THEN e
                                  ELSE Survivor(ents, ents[e].superseded)
         /\ \A e \in DOMAIN ents :
              /\ Survivor(ents, e) \in DOMAIN ents
              /\ ents[Survivor(ents, e)].superseded = NoRef
<1> DEFINE h == CHOOSE g : HeadMap(ents, g)
<1>1. HeadMap(ents, h)
  BY HeadMapExists
<1>2. \A e : Survivor(ents, e) = h[e]
  BY DEF Survivor, HeadMap
<1> HIDE DEF h
<1>3. \A e \in DOMAIN ents : h[e] \in DOMAIN ents /\ ents[h[e]].superseded = NoRef
  BY <1>1, HeadMapUnique
<1>4. QED
  BY <1>1, <1>2, <1>3 DEF HeadMap

\* Whatever leads every entity of a ranked table to the end of its chain is
\* Survivor.
LEMMA SurvivorByMap ==
  ASSUME NEW ents, Ranked(ents), NEW h, HeadMap(ents, h)
  PROVE  \A e \in DOMAIN ents : Survivor(ents, e) = h[e]
<1> DEFINE g == CHOOSE f : HeadMap(ents, f)
<1>1. HeadMap(ents, g)
  OBVIOUS
<1>2. \A e : Survivor(ents, e) = g[e]
  BY DEF Survivor, HeadMap
<1>3. QED
  BY <1>1, <1>2, HeadMapUnique

\* Chains of merges as a table grows by rows that no one is merged into: they
\* stay ranked and end where they did.
NoMerge(e1, e2) ==
  /\ DOMAIN e1 \subseteq DOMAIN e2
  /\ \A r \in DOMAIN e1 : e2[r].superseded = e1[r].superseded
  /\ \A r \in DOMAIN e2 \ DOMAIN e1 : e2[r].superseded = NoRef

LEMMA RankedNoMerge ==
  ASSUME NEW e1, NEW e2, Ranked(e1), NoMerge(e1, e2)
  PROVE  Ranked(e2)
<1>1. PICK bound, rank : RankedBy(e1, rank, bound)
  BY DEF Ranked
<1> DEFINE new == [e \in DOMAIN e2 |-> IF e \in DOMAIN e1 THEN rank[e] ELSE 0]
<1>2. new \in [DOMAIN e2 -> 0..bound]
  BY <1>1 DEF RankedBy
<1>3. ASSUME NEW e \in DOMAIN e2, e2[e].superseded # NoRef
      PROVE  e2[e].superseded \in DOMAIN e2 /\ new[e2[e].superseded] < new[e]
  BY <1>1, <1>3 DEF RankedBy, NoMerge
<1> HIDE DEF new
<1>4. RankedBy(e2, new, bound)
  BY <1>1, <1>2, <1>3 DEF RankedBy
<1>5. QED
  BY <1>4 DEF Ranked

LEMMA SurvivorNoMerge ==
  ASSUME NEW e1, NEW e2, Ranked(e1), NoMerge(e1, e2)
  PROVE  /\ \A e \in DOMAIN e1 : Survivor(e2, e) = Survivor(e1, e)
         /\ \A e \in DOMAIN e2 \ DOMAIN e1 : Survivor(e2, e) = e
<1> DEFINE h == [e \in DOMAIN e2 |-> IF e \in DOMAIN e1 THEN Survivor(e1, e) ELSE e]
<1>1. ASSUME NEW e \in DOMAIN e2
      PROVE  h[e] = IF e2[e].superseded = NoRef THEN e ELSE h[e2[e].superseded]
  <2>1. CASE e \in DOMAIN e1
    <3>1. CASE e1[e].superseded = NoRef
      BY <2>1, <3>1, SurvivorIsHead DEF NoMerge
    <3>2. CASE e1[e].superseded # NoRef
      <4>1. e1[e].superseded \in DOMAIN e1
        BY <2>1, <3>2 DEF Ranked, RankedBy
      <4>2. Survivor(e1, e) = Survivor(e1, e1[e].superseded)
        BY <2>1, <3>2, SurvivorIsHead
      <4>3. e2[e].superseded = e1[e].superseded /\ e1[e].superseded \in DOMAIN e2
        BY <2>1, <4>1 DEF NoMerge
      <4>4. QED
        BY <2>1, <3>2, <4>1, <4>2, <4>3
    <3>3. QED
      BY <3>1, <3>2
  <2>2. CASE e \notin DOMAIN e1
    BY <2>2 DEF NoMerge
  <2>3. QED
    BY <2>1, <2>2
<1> HIDE DEF h
<1>2. h = [e \in DOMAIN e2 |-> h[e]]
  BY DEF h
<1>3. HeadMap(e2, h)
  BY <1>1, <1>2 DEF HeadMap
<1>4. \A e \in DOMAIN e2 : Survivor(e2, e) = h[e]
  BY <1>3, RankedNoMerge, SurvivorByMap
<1>5. QED
  BY <1>4 DEF h, NoMerge

\* A merge of one live entity into another: the chains that ended at the loser
\* end at the survivor.
Merged(e1, e2, v, l) ==
  /\ v # l /\ v # NoRef /\ {v, l} \subseteq DOMAIN e1 /\ DOMAIN e2 = DOMAIN e1
  /\ e1[v].superseded = NoRef /\ e1[l].superseded = NoRef
  /\ e2[l].superseded = v
  /\ \A r \in DOMAIN e1 \ {l} : e2[r].superseded = e1[r].superseded

LEMMA RankedMerged ==
  ASSUME NEW e1, NEW e2, NEW v, NEW l, Ranked(e1), Merged(e1, e2, v, l)
  PROVE  Ranked(e2)
<1>1. PICK bound, rank : RankedBy(e1, rank, bound)
  BY DEF Ranked
<1> DEFINE new == [e \in DOMAIN e2 |-> IF e = v THEN 0 ELSE rank[e] + 1]
<1>2. bound + 1 \in Nat /\ new \in [DOMAIN e2 -> 0..(bound + 1)]
  BY <1>1 DEF RankedBy, Merged
<1>3. ASSUME NEW e \in DOMAIN e2, e2[e].superseded # NoRef
      PROVE  e2[e].superseded \in DOMAIN e2 /\ new[e2[e].superseded] < new[e]
  <2>1. e # v
    BY <1>3 DEF Merged
  <2>2. e2[e].superseded \in DOMAIN e2
    BY <1>1, <1>3 DEF RankedBy, Merged
  <2>3. rank[e] \in Nat
    BY <1>1 DEF RankedBy, Merged
  <2>4. CASE e = l
    BY <2>1, <2>2, <2>3, <2>4 DEF Merged
  <2>5. CASE e # l
    <3>1. rank[e2[e].superseded] < rank[e] /\ rank[e2[e].superseded] \in Nat
      BY <1>1, <1>3, <2>5 DEF RankedBy, Merged
    <3>2. QED
      BY <2>1, <2>2, <2>3, <3>1
  <2>6. QED
    BY <2>4, <2>5
<1> HIDE DEF new
<1>4. RankedBy(e2, new, bound + 1)
  BY <1>2, <1>3 DEF RankedBy
<1>5. QED
  BY <1>4 DEF Ranked

LEMMA SurvivorMerged ==
  ASSUME NEW e1, NEW e2, NEW v, NEW l, Ranked(e1), Merged(e1, e2, v, l)
  PROVE  \A e \in DOMAIN e1 :
           Survivor(e2, e) = IF Survivor(e1, e) = l THEN v ELSE Survivor(e1, e)
<1> DEFINE h == [e \in DOMAIN e2 |-> IF Survivor(e1, e) = l THEN v ELSE Survivor(e1, e)]
<1>1. ASSUME NEW e \in DOMAIN e2
      PROVE  h[e] = IF e2[e].superseded = NoRef THEN e ELSE h[e2[e].superseded]
  <2>1. e \in DOMAIN e1
    BY DEF Merged
  <2>2. CASE e1[e].superseded = NoRef
    <3>1. Survivor(e1, e) = e
      BY <2>1, <2>2, SurvivorIsHead
    <3>2. Survivor(e1, v) = v /\ v \in DOMAIN e2
      BY SurvivorIsHead DEF Merged
    <3>3. CASE e = l
      BY <3>1, <3>2, <3>3 DEF Merged
    <3>4. CASE e # l
      BY <2>1, <2>2, <3>1, <3>4 DEF Merged
    <3>5. QED
      BY <3>3, <3>4
  <2>3. CASE e1[e].superseded # NoRef
    <3>1. e1[e].superseded \in DOMAIN e1
      BY <2>1, <2>3 DEF Ranked, RankedBy
    <3>2. Survivor(e1, e) = Survivor(e1, e1[e].superseded)
      BY <2>1, <2>3, SurvivorIsHead
    <3>3. e2[e].superseded = e1[e].superseded /\ e1[e].superseded \in DOMAIN e2
      BY <2>1, <2>3, <3>1 DEF Merged
    <3>4. QED
      BY <2>3, <3>1, <3>2, <3>3
  <2>4. QED
    BY <2>2, <2>3
<1> HIDE DEF h
<1>2. h = [e \in DOMAIN e2 |-> h[e]]
  BY DEF h
<1>3. HeadMap(e2, h)
  BY <1>1, <1>2 DEF HeadMap
<1>4. \A e \in DOMAIN e2 : Survivor(e2, e) = h[e]
  BY <1>3, RankedMerged, SurvivorByMap
<1>5. QED
  BY <1>4 DEF h, Merged

-----------------------------------------------------------------------------
(* The ladder. *)

StringStrategy == DOMAIN Confidence

LEMMA StringStrategies ==
  /\ StringStrategy = {"EXTERNAL_REF", "EXACT", "ALIAS", "DETERMINISTIC"}
  /\ DOMAIN Rungs = 1..4 /\ \A i \in 1..4 : Rungs[i] \in StringStrategy
BY DEF StringStrategy, Confidence, Rungs

LEMMA RefsAreNoRef == NoRef \notin Ref
BY PipelineAssumption DEF Ref, NoRef, EntityRef

\* What a decision says of the pool it was taken on.
Sound(d, cand, s, pool) ==
  /\ d = Decision(d.ref, d.outcome, d.strategy)
  /\ d.outcome \in Outcome /\ d.strategy \in Strategy \ {"HUMAN"}
  /\ d.outcome \notin {"MATCHED", "CREATED"} => d.ref = NoRef
  /\ d.outcome = "CREATED" => d.ref = EntityRef(s, cand.name) /\ d.strategy = "CREATED"
  /\ d.outcome = "MATCHED" =>
       /\ d.ref \in DOMAIN pool
       /\ d.strategy \in StringStrategy => ~Contradicts(cand, pool[d.ref])

\* The overlay: a string rung that has hits refuses or agrees with its hit
\* (decideStringRung).
LEMMA StringRungSound ==
  ASSUME NEW rung \in StringStrategy, NEW cand, NEW s, NEW pool,
         NEW hits \in SUBSET DOMAIN pool, hits # {}
  PROVE  Sound(StringRung(rung, hits, cand, pool), cand, s, pool)
<1> DEFINE r == CHOOSE h \in hits : TRUE
<1>1. r \in hits /\ r \in DOMAIN pool
  OBVIOUS
<1> HIDE DEF r
<1>2. rung \in Strategy \ {"HUMAN"}
  BY StringStrategies DEF Strategy
<1>3. StringRung(rung, hits, cand, pool) =
        IF Cardinality(hits) > 1 THEN Decision(NoRef, "AMBIGUOUS", rung)
        ELSE IF Contradicts(cand, pool[r]) \/ Confidence[rung] < Floor
             THEN Decision(NoRef, "REVIEW_REQUIRED", rung)
             ELSE Decision(r, "MATCHED", rung)
  BY DEF StringRung, r
<1>4. CASE Cardinality(hits) > 1
  BY <1>2, <1>3, <1>4 DEF Sound, Decision, Outcome
<1>5. CASE ~(Cardinality(hits) > 1) /\ (Contradicts(cand, pool[r]) \/ Confidence[rung] < Floor)
  BY <1>2, <1>3, <1>5 DEF Sound, Decision, Outcome
<1>6. CASE ~(Cardinality(hits) > 1) /\ ~(Contradicts(cand, pool[r]) \/ Confidence[rung] < Floor)
  BY <1>1, <1>2, <1>3, <1>6 DEF Sound, Decision, Outcome
<1>7. QED
  BY <1>4, <1>5, <1>6

\* Whatever rung decides, the decision is sound (resolveEntity).
LEMMA ResolveEntitySound ==
  ASSUME NEW cand, NEW s, NEW pool
  PROVE  Sound(ResolveEntity(cand, s, pool), cand, s, pool)
<1> DEFINE hits(i) == {r \in DOMAIN pool : Matches(Rungs[i], cand, pool[r])}
           decisive == {i \in DOMAIN Rungs : hits(i) # {}}
           first == CHOOSE i \in decisive : \A j \in decisive : i <= j
           close == Cardinality(Near(cand, pool))
           d == ResolveEntity(cand, s, pool)
<1> SUFFICES Sound(d, cand, s, pool)
  OBVIOUS
<1>1. CASE cand.resolveTo # NoRef
  <2>1. d = IF cand.resolveTo \in DOMAIN pool
            THEN Decision(cand.resolveTo, "MATCHED", "CANONICAL_REF")
            ELSE Decision(NoRef, "REJECTED", "CANONICAL_REF")
    BY <1>1 DEF ResolveEntity
  <2> HIDE DEF d
  <2>2. QED
    BY <2>1, StringStrategies DEF Sound, Decision, Outcome, Strategy
<1>2. CASE cand.resolveTo = NoRef /\ decisive # {}
  <2>1. d = StringRung(Rungs[first], hits(first), cand, pool)
    BY <1>2 DEF ResolveEntity
  <2>2. first \in decisive
    <3>1. decisive \subseteq Nat
      BY StringStrategies
    <3>2. \E i \in decisive : \A j \in decisive : i <= j
      <4> HIDE DEF decisive
      <4>1. QED BY <1>2, <3>1, LeastElement
    <3> HIDE DEF decisive
    <3>3. QED
      BY <3>2
  <2>3. hits(first) # {} /\ hits(first) \in SUBSET DOMAIN pool /\ first \in DOMAIN Rungs
    <3> HIDE DEF first
    <3>1. QED BY <2>2
  <2>4. Rungs[first] \in StringStrategy
    <3> HIDE DEF first
    <3>1. QED BY <2>3, StringStrategies
  <2> HIDE DEF d, first, hits
  <2>5. QED
    BY <2>1, <2>3, <2>4, StringRungSound
<1>3. CASE cand.resolveTo = NoRef /\ decisive = {} /\ close > 0
  <2>1. d = Decision(NoRef, IF close = 1 THEN "REVIEW_REQUIRED" ELSE "AMBIGUOUS", "FUZZY")
    BY <1>3 DEF ResolveEntity
  <2> HIDE DEF d, close
  <2>2. QED
    BY <2>1 DEF Sound, Decision, Outcome, Strategy
<1>4. CASE cand.resolveTo = NoRef /\ decisive = {} /\ ~(close > 0)
  <2>1. d = Decision(EntityRef(s, cand.name), "CREATED", "CREATED")
    BY <1>4 DEF ResolveEntity
  <2> HIDE DEF d, close
  <2>2. QED
    BY <2>1 DEF Sound, Decision, Outcome, Strategy
<1>5. QED
  BY <1>1, <1>2, <1>3, <1>4

\* What decision i of an envelope rests on: a stored entity that its scope may
\* see, or a candidate before it that is to be created.
Shown(ents, pub, r) == ents[r].origin = "legacy" \/ r \in pub
OnStored(ents, pub, env, made, i) ==
  /\ made[i].ref \in DOMAIN ents /\ Shown(ents, pub, made[i].ref)
  /\ ents[made[i].ref].scope \in broader[env.scope]
  /\ made[i].strategy \in StringStrategy =>
       ~Contradicts(env.entities[i], ents[made[i].ref])
OnCandidate(env, made, i) ==
  \E j \in 1..(i - 1) :
    /\ made[j].outcome = "CREATED" /\ made[j].ref = made[i].ref
    /\ made[i].strategy \in StringStrategy =>
         ~Contradicts(env.entities[i], NewRow(env.entities[j], env.scope))

\* A decision has the form the ladder gives it.
Formed(d, cand, s) ==
  /\ d = Decision(d.ref, d.outcome, d.strategy)
  /\ d.outcome \in Outcome /\ d.strategy \in Strategy \ {"HUMAN"}
  /\ d.outcome \notin {"MATCHED", "CREATED"} => d.ref = NoRef
  /\ d.outcome = "CREATED" => d.ref = EntityRef(s, cand.name) /\ d.strategy = "CREATED"

DecisionsSound(ents, pub, env, made) ==
  /\ DOMAIN made = DOMAIN env.entities
  /\ \A i \in DOMAIN env.entities :
       /\ Formed(made[i], env.entities[i], env.scope)
       /\ made[i].outcome = "MATCHED" => OnStored(ents, pub, env, made, i) \/ OnCandidate(env, made, i)

\* What stands in a working pool was read, or was created before.
LEMMA PoolRows ==
  ASSUME NEW env \in Envelope, NEW pool
  PROVE  LET w == WorkingPools(env, pool)
             made == Decide(env, pool)
         IN  \A i \in 1..Len(env.entities) : \A r \in DOMAIN w[i] :
               \/ r \in DOMAIN pool /\ w[i][r] = pool[r]
               \/ \E j \in 1..(i - 1) :
                    /\ made[j].outcome = "CREATED" /\ made[j].ref = r
                    /\ w[i][r] = NewRow(env.entities[j], env.scope)
<1> DEFINE n == Len(env.entities)
           w == WorkingPools(env, pool)
           made == Decide(env, pool)
           From(i, r) == \/ r \in DOMAIN pool /\ w[i][r] = pool[r]
                         \/ \E j \in 1..(i - 1) :
                              /\ made[j].outcome = "CREATED" /\ made[j].ref = r
                              /\ w[i][r] = NewRow(env.entities[j], env.scope)
           S == {k \in Nat : k + 1 \in 1..n => \A r \in DOMAIN w[k + 1] : From(k + 1, r)}
<1>1. /\ n \in Nat /\ DOMAIN env.entities = 1..n /\ w[1] = pool
      /\ \A i \in 1..n : w[i + 1] = Joined(w[i], env, env.entities[i])
  BY PoolsStep
<1>2. \A i \in 1..n : made[i] = ResolveEntity(env.entities[i], env.scope, w[i])
  BY <1>1 DEF Decide
<1> HIDE DEF n, w, made
<1>3. 0 \in S
  BY <1>1
<1>4. ASSUME NEW k \in Nat, k \in S PROVE k + 1 \in S
  <2> DEFINE i == k + 1
  <2>1. SUFFICES ASSUME i + 1 \in 1..n, NEW r \in DOMAIN w[i + 1] PROVE From(i + 1, r)
    OBVIOUS
  <2>2. i \in 1..n /\ (i + 1) - 1 = i
    BY <1>1, <2>1
  <2>3. w[i + 1] = IF made[i].outcome = "CREATED"
                   THEN Put(w[i], made[i].ref, NewRow(env.entities[i], env.scope)) ELSE w[i]
    BY <1>1, <1>2, <2>2 DEF Joined
  <2>4. \A q \in DOMAIN w[i] : From(i, q)
    BY <1>4, <2>2
  <2>5. CASE made[i].outcome = "CREATED" /\ r = made[i].ref
    <3>1. w[i + 1][r] = NewRow(env.entities[i], env.scope)
      BY <2>1, <2>3, <2>5 DEF Put
    <3>2. i \in 1..((i + 1) - 1)
      BY <2>2
    <3>3. QED
      BY <2>5, <3>1, <3>2
  <2>6. CASE ~(made[i].outcome = "CREATED" /\ r = made[i].ref)
    <3>1. r \in DOMAIN w[i] /\ w[i + 1][r] = w[i][r]
      BY <2>1, <2>3, <2>6 DEF Put
    <3>2. \A j \in 1..(i - 1) : j \in 1..((i + 1) - 1)
      BY <2>2
    <3> HIDE DEF i
    <3>3. QED
      BY <2>4, <3>1, <3>2
  <2>7. QED
    BY <2>5, <2>6
<1>5. Nat \subseteq S
  <2> HIDE DEF S
  <2>1. QED BY <1>3, <1>4, Induction
<1>6. ASSUME NEW i \in 1..n PROVE \A r \in DOMAIN w[i] : From(i, r)
  <2>1. i - 1 \in Nat /\ (i - 1) + 1 = i
    BY <1>1
  <2>2. i - 1 \in S
    BY <1>5, <2>1
  <2> HIDE DEF From
  <2>3. QED
    BY <2>1, <2>2
<1>7. QED
  BY <1>6 DEF n, w, made

\* The decisions of a lookup rest on what it read (promoteCandidate).
LEMMA DecideSound ==
  ASSUME NEW env \in Envelope
  PROVE  DecisionsSound(entities, published, env, Decide(env, Pool(env.scope)))
<1> DEFINE n == Len(env.entities)
           pool == Pool(env.scope)
           w == WorkingPools(env, pool)
           made == Decide(env, pool)
<1>1. n \in Nat /\ DOMAIN env.entities = 1..n
  BY EnvelopeAssumption
<1>2. DOMAIN made = DOMAIN env.entities
  BY DEF Decide
<1>3. \A i \in 1..n : Sound(made[i], env.entities[i], env.scope, w[i])
  BY <1>1, ResolveEntitySound DEF Decide
<1>4. \A r \in DOMAIN pool :
        /\ r \in DOMAIN entities /\ Visible(r) /\ entities[r].scope \in broader[env.scope]
        /\ pool[r] = entities[r]
  BY DEF Pool
<1>5. \A i \in 1..n : \A r \in DOMAIN w[i] :
        \/ r \in DOMAIN pool /\ w[i][r] = pool[r]
        \/ \E j \in 1..(i - 1) :
             /\ made[j].outcome = "CREATED" /\ made[j].ref = r
             /\ w[i][r] = NewRow(env.entities[j], env.scope)
  BY PoolRows
<1> HIDE DEF n, pool, w, made
<1>6. ASSUME NEW i \in 1..n
      PROVE  /\ Formed(made[i], env.entities[i], env.scope)
             /\ made[i].outcome = "MATCHED" => OnStored(entities, published, env, made, i) \/ OnCandidate(env, made, i)
  <2>1. Formed(made[i], env.entities[i], env.scope)
    BY <1>3 DEF Sound, Formed
  <2>2. ASSUME made[i].outcome = "MATCHED"
        PROVE  OnStored(entities, published, env, made, i) \/ OnCandidate(env, made, i)
    <3>1. /\ made[i].ref \in DOMAIN w[i]
          /\ made[i].strategy \in StringStrategy =>
               ~Contradicts(env.entities[i], w[i][made[i].ref])
      BY <1>3, <2>2 DEF Sound
    <3>2. CASE made[i].ref \in DOMAIN pool /\ w[i][made[i].ref] = pool[made[i].ref]
      BY <1>4, <3>1, <3>2 DEF OnStored, Shown, Visible
    <3>3. CASE \E j \in 1..(i - 1) :
                 /\ made[j].outcome = "CREATED" /\ made[j].ref = made[i].ref
                 /\ w[i][made[i].ref] = NewRow(env.entities[j], env.scope)
      BY <3>1, <3>3 DEF OnCandidate
    <3>4. QED
      BY <1>5, <3>1, <3>2, <3>3
  <2>3. QED
    BY <2>1, <2>2
<1>7. QED
  BY <1>1, <1>2, <1>6 DEF DecisionsSound, made, pool

-----------------------------------------------------------------------------
(* What is always so of the table of entities. *)

\* A stored row: its columns, the mention its key may be told apart by (one of
\* ids), and the pipeline entity that such a key was told apart from.
RowOK(ents, ids, r) ==
  LET row == ents[r]
  IN  /\ IsRow(row)
      /\ row.scope \in Scope /\ row.name \in Name /\ row.type \in EntityType
      /\ row.aliases \subseteq Alias /\ row.origin \in {"legacy", "pipeline"}
      /\ row.origin = "legacy" => row.norm.base \in Key
      /\ row.superseded \in DOMAIN ents \cup {NoRef}
      /\ row.norm.mention \in ids \cup {Nothing}
      /\ row.norm.mention # Nothing =>
           \E p \in DOMAIN ents : /\ ents[p].scope = row.scope
                                  /\ ents[p].norm = PlainKey(row.norm.base)
                                  /\ ents[p].origin = "pipeline"

\* UNIQUE (scope_key, norm_key)
KeysUnique(ents) ==
  \A a, b \in DOMAIN ents :
    a # b /\ ents[a].scope = ents[b].scope => ents[a].norm # ents[b].norm

\* What a promotion creates is of its scope.
RefsTell(ents) ==
  \A s \in Scope, n \in Name :
    EntityRef(s, n) \in DOMAIN ents =>
      ents[EntityRef(s, n)].scope = s /\ ents[EntityRef(s, n)].origin = "legacy"

TableOK(ents, ids) ==
  /\ DOMAIN ents \subseteq Ref
  /\ \A r \in DOMAIN ents : RowOK(ents, ids, r)
  /\ KeysUnique(ents) /\ RefsTell(ents)

-----------------------------------------------------------------------------
(* How the table grows. *)

\* A row that is written again keeps what identifies it and loses nothing.
Kept(old, new) ==
  /\ IsRow(new)
  /\ new.scope = old.scope /\ new.name = old.name /\ new.type = old.type
  /\ new.title = old.title /\ new.norm = old.norm /\ new.origin = old.origin
  /\ old.summary \in {"", new.summary}
  /\ old.aliases \subseteq new.aliases /\ old.externalRefs \subseteq new.externalRefs
Keeps(e1, e2) ==
  DOMAIN e1 \subseteq DOMAIN e2 /\ \A r \in DOMAIN e1 : Kept(e1[r], e2[r])
Grows(e1, e2) == Keeps(e1, e2) /\ NoMerge(e1, e2)

LEMMA GrowsReflexive ==
  ASSUME NEW e, \A r \in DOMAIN e : IsRow(e[r])
  PROVE  Grows(e, e)
BY DEF Grows, Keeps, Kept, NoMerge

LEMMA GrowsTransitive ==
  ASSUME NEW e1, NEW e2, NEW e3, Grows(e1, e2), Grows(e2, e3)
  PROVE  Grows(e1, e3)
<1>1. NoMerge(e1, e3)
  BY DEF Grows, NoMerge
<1>2. ASSUME NEW r \in DOMAIN e1 PROVE r \in DOMAIN e3 /\ Kept(e1[r], e3[r])
  <2>1. r \in DOMAIN e2 /\ r \in DOMAIN e3 /\ Kept(e1[r], e2[r]) /\ Kept(e2[r], e3[r])
    BY <1>2 DEF Grows, Keeps
  <2>2. QED
    BY <2>1 DEF Kept
<1>3. QED
  BY <1>1, <1>2 DEF Grows, Keeps

\* A row as its columns.
Row(scope, name, type, title, summary, base, mention, aliases, externalRefs, superseded, origin) ==
  [scope |-> scope, name |-> name, type |-> type, title |-> title, summary |-> summary,
   norm |-> [base |-> base, mention |-> mention], aliases |-> aliases,
   externalRefs |-> externalRefs, superseded |-> superseded, origin |-> origin]

LEMMA RowIsRow ==
  ASSUME NEW c1, NEW c2, NEW c3, NEW c4, NEW c5, NEW c6, NEW c7, NEW c8, NEW c9, NEW c10, NEW c11
  PROVE  LET x == Row(c1, c2, c3, c4, c5, c6, c7, c8, c9, c10, c11)
         IN  /\ IsRow(x)
             /\ x.scope = c1 /\ x.name = c2 /\ x.type = c3 /\ x.title = c4 /\ x.summary = c5
             /\ x.norm = [base |-> c6, mention |-> c7] /\ x.aliases = c8
             /\ x.externalRefs = c9 /\ x.superseded = c10 /\ x.origin = c11
<1> DEFINE n == [base |-> c6, mention |-> c7]
           x == [scope |-> c1, name |-> c2, type |-> c3, title |-> c4, summary |-> c5,
                 norm |-> n, aliases |-> c8, externalRefs |-> c9, superseded |-> c10,
                 origin |-> c11]
<1>1. x = Row(c1, c2, c3, c4, c5, c6, c7, c8, c9, c10, c11)
  BY DEF Row
<1>2. n = [base |-> n.base, mention |-> n.mention]
  OBVIOUS
<1>3. /\ x.scope = c1 /\ x.name = c2 /\ x.type = c3 /\ x.title = c4 /\ x.summary = c5
      /\ x.norm = n /\ x.aliases = c8
      /\ x.externalRefs = c9 /\ x.superseded = c10 /\ x.origin = c11
  <2> HIDE DEF n
  <2>1. QED OBVIOUS
<1>4. x = [scope |-> x.scope, name |-> x.name, type |-> x.type, title |-> x.title,
           summary |-> x.summary, norm |-> n, aliases |-> x.aliases,
           externalRefs |-> x.externalRefs, superseded |-> x.superseded, origin |-> x.origin]
  <2> HIDE DEF n
  <2>1. QED OBVIOUS
<1> HIDE DEF x
<1>5. IsRow(x)
  <2>1. n = [base |-> x.norm.base, mention |-> x.norm.mention]
    BY <1>2, <1>3
  <2> HIDE DEF n
  <2>2. QED
    BY <1>4, <2>1 DEF IsRow
<1>6. QED
  BY <1>1, <1>3, <1>5

\* The columns of a row after an update of those that may change.
Updated(row, s, a, e, u) ==
  [row EXCEPT !.summary = s, !.aliases = a, !.externalRefs = e, !.superseded = u]

\* IsRow in terms of the names of the columns.
Columns == {"scope", "name", "type", "title", "summary", "norm", "aliases", "externalRefs",
            "superseded", "origin"}

LEMMA RowColumns ==
  ASSUME NEW x
  PROVE  IsRow(x) <=> /\ DOMAIN x = Columns /\ x = [k \in DOMAIN x |-> x[k]]
                      /\ x.norm = [base |-> x.norm.base, mention |-> x.norm.mention]
<1> DEFINE n == [base |-> x.norm.base, mention |-> x.norm.mention]
           lit(v) == [scope |-> x.scope, name |-> x.name, type |-> x.type, title |-> x.title,
                      summary |-> x.summary, norm |-> v, aliases |-> x.aliases,
                      externalRefs |-> x.externalRefs, superseded |-> x.superseded,
                      origin |-> x.origin]
<1>1. IsRow(x) <=> x = lit(n)
  BY DEF IsRow
<1>2. ASSUME NEW v PROVE /\ lit(v).norm = v /\ DOMAIN lit(v) = Columns
                         /\ lit(v) = [k \in DOMAIN lit(v) |-> lit(v)[k]]
  BY DEF Columns
<1>3. ASSUME DOMAIN x = Columns, x = [k \in DOMAIN x |-> x[k]], x.norm = n PROVE x = lit(n)
  <2>1. x = lit(x.norm)
    BY <1>3 DEF Columns
  <2> HIDE DEF lit, n
  <2>2. QED BY <1>3, <2>1
<1> HIDE DEF lit, n
<1>4. ASSUME x = lit(n) PROVE DOMAIN x = Columns /\ x = [k \in DOMAIN x |-> x[k]] /\ x.norm = n
  BY <1>2, <1>4
<1>5. QED
  BY <1>1, <1>3, <1>4 DEF n

LEMMA UpdatedRow ==
  ASSUME NEW row, IsRow(row), NEW s, NEW a, NEW e, NEW u
  PROVE  LET new == Updated(row, s, a, e, u)
         IN  /\ IsRow(new)
             /\ new.scope = row.scope /\ new.name = row.name /\ new.type = row.type
             /\ new.title = row.title /\ new.norm = row.norm /\ new.origin = row.origin
             /\ new.summary = s /\ new.aliases = a /\ new.externalRefs = e
             /\ new.superseded = u
<1> DEFINE new == Updated(row, s, a, e, u)
<1>1. DOMAIN row = Columns /\ row.norm = [base |-> row.norm.base, mention |-> row.norm.mention]
  BY RowColumns
<1>2. DOMAIN new = Columns /\ new = [k \in DOMAIN new |-> new[k]]
  BY <1>1 DEF Updated
<1>3. /\ new.scope = row.scope /\ new.name = row.name /\ new.type = row.type
      /\ new.title = row.title /\ new.norm = row.norm /\ new.origin = row.origin
      /\ new.summary = s /\ new.aliases = a /\ new.externalRefs = e
      /\ new.superseded = u
  BY <1>1 DEF Updated, Columns
<1> HIDE DEF new
<1>4. IsRow(new)
  BY <1>1, <1>2, <1>3, RowColumns
<1>5. QED
  BY <1>3, <1>4 DEF new

\* The columns of rows that are filled, created and told apart.
LEMMA FilledRow ==
  ASSUME NEW row, IsRow(row), NEW cand
  PROVE  LET new == Fill(row, cand)
         IN  /\ Kept(row, new) /\ new.superseded = row.superseded
             /\ new.aliases = row.aliases \cup {normKey[cand.name]}
<1> DEFINE s == IF row.summary = "" THEN cand.summary ELSE row.summary
           a == row.aliases \cup {normKey[cand.name]}
           e == row.externalRefs \cup cand.externalRefs
           new == Updated(row, s, a, e, row.superseded)
<1>1. new = Fill(row, cand)
  BY DEF Fill, IsRow, Updated
<1>2. /\ IsRow(new)
      /\ new.scope = row.scope /\ new.name = row.name /\ new.type = row.type
      /\ new.title = row.title /\ new.norm = row.norm /\ new.origin = row.origin
      /\ new.summary = s /\ new.aliases = a /\ new.externalRefs = e
      /\ new.superseded = row.superseded
  <2>1. \A s1, a1, e1, u1 :
          LET x == Updated(row, s1, a1, e1, u1)
          IN  /\ IsRow(x)
              /\ x.scope = row.scope /\ x.name = row.name /\ x.type = row.type
              /\ x.title = row.title /\ x.norm = row.norm /\ x.origin = row.origin
              /\ x.summary = s1 /\ x.aliases = a1 /\ x.externalRefs = e1
              /\ x.superseded = u1
    BY UpdatedRow
  <2> HIDE DEF s, a, e
  <2>2. QED BY <2>1
<1> HIDE DEF new
<1>3. QED
  BY <1>1, <1>2 DEF Kept

LEMMA CreatedRow ==
  ASSUME NEW ents, NEW env, NEW cand
  PROVE  LET new == InsertedRow(ents, env, cand)
         IN  /\ IsRow(new) /\ new.scope = env.scope /\ new.name = cand.name
             /\ new.type = cand.type /\ new.title = cand.title
             /\ new.aliases = {} /\ new.superseded = NoRef /\ new.origin = "legacy"
             /\ new.norm = [base |-> normKey[cand.name],
                            mention |-> IF Holders(ents, NewRow(cand, env.scope)) = {}
                                        THEN Nothing ELSE MentionId(env, cand.name)]
<1> DEFINE row == NewRow(cand, env.scope)
<1>1. /\ IsRow(row) /\ row.scope = env.scope /\ row.name = cand.name
      /\ row.type = cand.type /\ row.title = cand.title
      /\ row.aliases = {} /\ row.superseded = NoRef /\ row.origin = "legacy"
      /\ row.norm = [base |-> normKey[cand.name], mention |-> Nothing]
  BY DEF NewRow, IsRow, PlainKey
<1>2. InsertedRow(ents, env, cand) =
        IF Holders(ents, row) = {} THEN row
        ELSE [row EXCEPT !.norm.mention = MentionId(env, cand.name)]
  BY DEF InsertedRow
<1> HIDE DEF row
<1>3. CASE Holders(ents, row) = {}
  BY <1>1, <1>2, <1>3 DEF row
<1>4. CASE Holders(ents, row) # {}
  <2> DEFINE new == [row EXCEPT !.norm.mention = MentionId(env, cand.name)]
  <2>1. /\ new.scope = row.scope /\ new.name = row.name /\ new.type = row.type
        /\ new.title = row.title /\ new.aliases = row.aliases
        /\ new.superseded = row.superseded /\ new.origin = row.origin
        /\ new.norm = [row.norm EXCEPT !.mention = MentionId(env, cand.name)]
    BY <1>1 DEF IsRow
  <2>2. new.norm = [base |-> normKey[cand.name], mention |-> MentionId(env, cand.name)]
    BY <1>1, <2>1
  <2>3. IsRow(new)
    BY <1>1, <2>2 DEF IsRow
  <2> HIDE DEF new
  <2>4. InsertedRow(ents, env, cand) = new
    BY <1>2, <1>4 DEF new
  <2>5. QED
    BY <1>1, <1>4, <2>1, <2>2, <2>3, <2>4 DEF row
<1>5. QED
  BY <1>3, <1>4

\* A mention id is no missing value, and tells names and promotions apart.
LEMMA MentionIds ==
  /\ \A env, n : MentionId(env, n) # Nothing
  /\ \A env, n : /\ MentionId(env, n)[1] = env.scope /\ MentionId(env, n)[2] = env.key
                 /\ MentionId(env, n)[3] = n
                 /\ MentionId(env, n) = <<env.scope, env.key, n>>
BY DEF MentionId, Nothing

\* Refs of entities tell scopes and names apart.
LEMMA EntityRefs ==
  \A s1, n1, s2, n2 : EntityRef(s1, n1) = EntityRef(s2, n2) => s1 = s2 /\ n1 = n2
BY DEF EntityRef

\* One candidate of a transaction that meets no visible holder of its key
\* leaves a table as good as it found it, in which only names are added.
LEMMA StoreKeeps ==
  ASSUME NEW ents, NEW ids, TableOK(ents, ids),
         NEW env, NEW cand, NEW d, env.scope \in Scope, cand.name \in Name,
         cand.type \in EntityType, MentionId(env, cand.name) \notin ids,
         d.ref \in DOMAIN ents \cup {NoRef, EntityRef(env.scope, cand.name)},
         ~Loses(ents, env, cand, d)
  PROVE  LET new == Store(ents, env, cand, d)
         IN  /\ TableOK(new, ids \cup {MentionId(env, cand.name)}) /\ Grows(ents, new)
             /\ d.ref # NoRef => d.ref \in DOMAIN new
<1> DEFINE new == Store(ents, env, cand, d)
           id == MentionId(env, cand.name)
           more == ids \cup {id}
<1>0. \A r \in DOMAIN ents : IsRow(ents[r])
  BY DEF TableOK, RowOK
<1>a. normKey[cand.name] \in Key /\ normKey[cand.name] \in Alias
  BY DEF Key, Alias
<1> SUFFICES TableOK(new, more) /\ Grows(ents, new) /\ (d.ref # NoRef => d.ref \in DOMAIN new)
  OBVIOUS
<1> HIDE DEF new, id
<1>1. CASE d.ref = NoRef
  <2>1. new = ents
    BY <1>1 DEF Store, new
  <2>2. TableOK(ents, more)
    BY DEF TableOK, RowOK
  <2>3. QED
    BY <1>0, <1>1, <2>1, <2>2, GrowsReflexive
<1>2. CASE d.ref # NoRef /\ d.ref \in DOMAIN ents
  <2> DEFINE row == ents[d.ref]
             fill == Fill(row, cand)
  <2>1. new = [y \in DOMAIN ents \cup {d.ref} |-> IF y = d.ref THEN fill ELSE ents[y]]
    BY <1>2 DEF Store, Inserts, Put, new
  <2>2. DOMAIN new = DOMAIN ents
    BY <1>2, <2>1
  <2>3. /\ new[d.ref] = fill
        /\ \A y \in DOMAIN ents : y # d.ref => new[y] = ents[y]
    BY <1>2, <2>1
  <2>4. /\ Kept(row, fill) /\ fill.superseded = row.superseded
        /\ fill.aliases = row.aliases \cup {normKey[cand.name]}
    BY <1>0, <1>2, FilledRow
  <2> HIDE DEF fill
  <2>5. \A y \in DOMAIN ents : /\ Kept(ents[y], new[y]) /\ new[y].superseded = ents[y].superseded
                               /\ new[y].aliases \subseteq ents[y].aliases \cup {normKey[cand.name]}
    <3>1. \A y \in DOMAIN ents : Kept(ents[y], ents[y])
      BY <1>0 DEF Kept
    <3>2. QED
      BY <2>3, <2>4, <3>1
  <2>6. Grows(ents, new)
    BY <2>2, <2>5 DEF Grows, Keeps, NoMerge
  <2>7. TableOK(new, more)
    <3>1. ASSUME NEW r \in DOMAIN new PROVE RowOK(new, more, r)
      <4>1. RowOK(ents, ids, r)
        BY <2>2, <3>1 DEF TableOK
      <4>2. \A y \in DOMAIN ents : /\ new[y].scope = ents[y].scope /\ new[y].norm = ents[y].norm
                                   /\ new[y].origin = ents[y].origin
        BY <2>5 DEF Kept
      <4>3. /\ IsRow(new[r]) /\ new[r].name = ents[r].name /\ new[r].type = ents[r].type
            /\ new[r].superseded = ents[r].superseded
            /\ new[r].aliases \subseteq ents[r].aliases \cup {normKey[cand.name]}
        BY <2>2, <2>5, <3>1 DEF Kept
      <4>4. QED
        BY <1>a, <2>2, <3>1, <4>1, <4>2, <4>3 DEF RowOK
    <3>x. \A y \in DOMAIN ents : /\ new[y].scope = ents[y].scope /\ new[y].norm = ents[y].norm
                                 /\ new[y].origin = ents[y].origin
      BY <2>5 DEF Kept
    <3>2. KeysUnique(new)
      BY <2>2, <3>x DEF TableOK, KeysUnique
    <3>3. RefsTell(new)
      BY <2>2, <3>x DEF TableOK, RefsTell
    <3>4. QED
      BY <2>2, <3>1, <3>2, <3>3 DEF TableOK
  <2>8. QED
    BY <1>2, <2>2, <2>6, <2>7
<1>3. CASE d.ref # NoRef /\ d.ref \notin DOMAIN ents
  <2> DEFINE row == InsertedRow(ents, env, cand)
             hold == Holders(ents, NewRow(cand, env.scope))
             r0 == EntityRef(env.scope, cand.name)
  <2>1. d.ref = r0
    BY <1>3
  <2>2. new = [y \in DOMAIN ents \cup {r0} |-> IF y = r0 THEN row ELSE ents[y]]
    BY <1>3, <2>1 DEF Store, Inserts, Put, new
  <2>3. DOMAIN new = DOMAIN ents \cup {r0}
    BY <2>2
  <2>4. new[r0] = row /\ \A y \in DOMAIN ents : new[y] = ents[y] /\ y # r0
    BY <1>3, <2>1, <2>2
  <2>5. /\ IsRow(row) /\ row.scope = env.scope /\ row.name = cand.name
        /\ row.type = cand.type /\ row.aliases = {} /\ row.superseded = NoRef
        /\ row.origin = "legacy"
        /\ row.norm = [base |-> normKey[cand.name],
                       mention |-> IF hold = {} THEN Nothing ELSE id]
    <3>1. \A e1, c1 :
            LET x == InsertedRow(ents, e1, c1)
            IN  /\ IsRow(x) /\ x.scope = e1.scope /\ x.name = c1.name
                /\ x.type = c1.type /\ x.aliases = {} /\ x.superseded = NoRef
                /\ x.origin = "legacy"
                /\ x.norm = [base |-> normKey[c1.name],
                             mention |-> IF Holders(ents, NewRow(c1, e1.scope)) = {}
                                         THEN Nothing ELSE MentionId(e1, c1.name)]
      BY CreatedRow
    <3>2. QED
      BY <3>1 DEF id
  <2>6. \A p \in hold : /\ p \in DOMAIN ents /\ ents[p].scope = env.scope
                        /\ ents[p].norm = PlainKey(normKey[cand.name])
                        /\ ents[p].origin = "pipeline"
    BY <1>3 DEF Loses, Inserts, Hidden, Holders, NewRow
  <2>7. \A p \in DOMAIN ents :
          ents[p].scope = env.scope /\ ents[p].norm = PlainKey(normKey[cand.name]) => p \in hold
    BY DEF Holders, NewRow
  <2> HIDE DEF row, hold, r0
  <2>8. Grows(ents, new)
    <3>1. \A y \in DOMAIN ents : Kept(ents[y], new[y])
      BY <1>0, <2>4 DEF Kept
    <3>2. NoMerge(ents, new)
      BY <2>3, <2>4, <2>5 DEF NoMerge
    <3>3. QED
      BY <2>3, <3>1, <3>2 DEF Grows, Keeps
  <2>9. KeysUnique(new)
    <3>1. id # Nothing
      BY MentionIds DEF id
    <3>2. ASSUME NEW a \in DOMAIN ents, ents[a].scope = env.scope PROVE ents[a].norm # row.norm
      <4>1. ents[a].norm.mention \in ids \cup {Nothing}
        BY <3>2 DEF TableOK, RowOK
      <4>2. CASE hold = {}
        BY <2>5, <2>7, <3>2, <4>2 DEF PlainKey
      <4>3. CASE hold # {}
        <5>1. row.norm.mention = id /\ id \notin ids
          BY <2>5, <4>3 DEF id
        <5>2. QED
          BY <3>1, <4>1, <5>1
      <4>4. QED
        BY <4>2, <4>3
    <3>3. \A a, b \in DOMAIN ents :
            a # b /\ ents[a].scope = ents[b].scope => ents[a].norm # ents[b].norm
      BY DEF TableOK, KeysUnique
    <3>4. QED
      BY <2>3, <2>4, <2>5, <3>2, <3>3 DEF KeysUnique
  <2>10. ASSUME NEW r \in DOMAIN new PROVE RowOK(new, more, r)
    <3>1. CASE r \in DOMAIN ents
      <4>1. RowOK(ents, ids, r)
        BY <3>1 DEF TableOK
      <4>2. QED
        BY <2>3, <2>4, <3>1, <4>1 DEF RowOK
    <3>2. CASE r = r0
      <4>1. row.norm.base = normKey[cand.name]
        BY <2>5
      <4>2. row.norm.mention \in {Nothing, id}
        BY <2>5
      <4>3. row.norm.mention # Nothing =>
              \E p \in DOMAIN new : /\ new[p].scope = row.scope
                                    /\ new[p].norm = PlainKey(row.norm.base)
                                    /\ new[p].origin = "pipeline"
        <5>1. row.norm.mention # Nothing => hold # {}
          BY <2>5
        <5>2. QED
          BY <2>3, <2>4, <2>5, <2>6, <4>1, <5>1
      <4>4. QED
        BY <1>a, <2>3, <2>4, <2>5, <3>2, <4>1, <4>2, <4>3 DEF RowOK
    <3>3. QED
      BY <2>3, <3>1, <3>2
  <2>11. RefsTell(new)
    <3>1. ASSUME NEW s \in Scope, NEW n \in Name, EntityRef(s, n) = r0
          PROVE  row.scope = s /\ row.origin = "legacy"
      BY <2>5, <3>1, EntityRefs DEF r0
    <3>2. QED
      BY <2>3, <2>4, <3>1 DEF TableOK, RefsTell
  <2>12. r0 \in Ref
    BY DEF Ref, r0
  <2>13. QED
    BY <2>1, <2>3, <2>8, <2>9, <2>10, <2>11, <2>12 DEF TableOK
<1>4. QED
  BY <1>1, <1>2, <1>3

\* A transaction that loses no race leaves a table as good as it found it, in
\* which every ref of its decisions is found and nothing but names was added
\* to what was there (transactPromotion).
LEMMA TablesKeep ==
  ASSUME NEW env \in Envelope, NEW made, TableOK(entities, DOMAIN mentions),
         ValidPromotion(env), DecisionsSound(entities, published, env, made), ~NormKeyConflict(env, made),
         \A i \in DOMAIN env.entities :
           MentionId(env, env.entities[i].name) \notin DOMAIN mentions
  PROVE  LET n == Len(env.entities)
             t == Tables(env, made)
         IN  /\ TableOK(t[n + 1], DOMAIN mentions \cup
                          {MentionId(env, env.entities[i].name) : i \in DOMAIN env.entities})
             /\ Grows(entities, t[n + 1])
             /\ \A i \in 1..n : made[i].ref # NoRef => made[i].ref \in DOMAIN t[n + 1]
<1> DEFINE n == Len(env.entities)
           t == Tables(env, made)
           cand(i) == env.entities[i]
           ids(k) == DOMAIN mentions \cup {MentionId(env, cand(i).name) : i \in 1..k}
           Good(k) == /\ TableOK(t[k + 1], ids(k)) /\ Grows(entities, t[k + 1])
                      /\ \A i \in 1..k : made[i].ref # NoRef => made[i].ref \in DOMAIN t[k + 1]
           S == {k \in Nat : k \in 0..n => Good(k)}
<1>1. /\ n \in Nat /\ DOMAIN env.entities = 1..n /\ t[1] = entities
      /\ \A i \in 1..n : t[i + 1] = Store(t[i], env, cand(i), made[i])
  BY TablesStep
<1>2. /\ env.scope \in Scope
      /\ \A i \in 1..n : /\ cand(i).name \in Name /\ cand(i).type \in EntityType
                         /\ MentionId(env, cand(i).name) \notin DOMAIN mentions
                         /\ \A j \in 1..n : cand(i).name = cand(j).name => i = j
  BY <1>1, EnvelopeAssumption DEF ValidPromotion, ValidCandidate
<1>3. \A i \in 1..n : ~Loses(t[i], env, cand(i), made[i])
  BY <1>1 DEF NormKeyConflict, DecisionsSound
<1>4. ASSUME NEW i \in 1..n
      PROVE  \/ made[i].ref \in DOMAIN entities \cup {NoRef, EntityRef(env.scope, cand(i).name)}
             \/ \E j \in 1..(i - 1) : made[j].ref = made[i].ref
  <2>1. /\ Formed(made[i], cand(i), env.scope)
        /\ made[i].outcome = "MATCHED" => OnStored(entities, published, env, made, i) \/ OnCandidate(env, made, i)
    BY <1>1 DEF DecisionsSound
  <2>2. CASE made[i].outcome = "MATCHED"
    BY <2>1, <2>2 DEF OnStored, OnCandidate
  <2>3. CASE made[i].outcome # "MATCHED"
    BY <2>1, <2>3 DEF Formed
  <2>4. QED
    BY <2>2, <2>3
<1> HIDE DEF n, t, cand
<1>5. 0 \in S
  <2>1. ids(0) = DOMAIN mentions
    <3>1. 1..0 = {}
      OBVIOUS
    <3>2. QED BY <3>1
  <2>2. Grows(entities, entities)
    BY GrowsReflexive DEF TableOK, RowOK
  <2>3. QED
    BY <1>1, <2>1, <2>2
<1>6. ASSUME NEW k \in Nat, k \in S PROVE k + 1 \in S
  <2> DEFINE i == k + 1
  <2>1. SUFFICES ASSUME i \in 1..n PROVE Good(i)
    BY <1>1
  <2>2. Good(k)
    BY <1>1, <1>6, <2>1
  <2>3. ids(i) = ids(k) \cup {MentionId(env, cand(i).name)}
    <3>1. 1..i = 1..k \cup {i}
      OBVIOUS
    <3> HIDE DEF i
    <3>2. QED
      BY <3>1
  <2>4. MentionId(env, cand(i).name) \notin ids(k)
    <3>1. ASSUME NEW j \in 1..k PROVE MentionId(env, cand(i).name) # MentionId(env, cand(j).name)
      <4>1. j \in 1..n /\ i # j
        BY <1>1, <2>1
      <4>2. cand(i).name # cand(j).name
        BY <1>2, <2>1, <4>1
      <4>3. QED
        BY <4>2, MentionIds
    <3>2. QED
      BY <1>2, <2>1, <3>1
  <2>5. made[i].ref \in DOMAIN t[i] \cup {NoRef, EntityRef(env.scope, cand(i).name)}
    <3>1. DOMAIN entities \subseteq DOMAIN t[i]
      BY <2>2 DEF Grows, Keeps
    <3>2. CASE made[i].ref \in DOMAIN entities \cup {NoRef, EntityRef(env.scope, cand(i).name)}
      BY <3>1, <3>2
    <3>3. CASE \E j \in 1..(i - 1) : made[j].ref = made[i].ref
      BY <2>2, <3>3
    <3>4. QED
      BY <1>4, <2>1, <3>2, <3>3
  <2>6. /\ TableOK(t[i + 1], ids(i)) /\ Grows(t[i], t[i + 1])
        /\ made[i].ref # NoRef => made[i].ref \in DOMAIN t[i + 1]
    <3>1. t[i + 1] = Store(t[i], env, cand(i), made[i])
      BY <1>1, <2>1
    <3>2. TableOK(t[i], ids(k)) /\ ~Loses(t[i], env, cand(i), made[i])
      BY <1>3, <2>1, <2>2
    <3>3. cand(i).name \in Name /\ cand(i).type \in EntityType /\ env.scope \in Scope
      BY <1>2, <2>1
    <3> HIDE DEF i, ids
    <3>4. QED
      BY <2>3, <2>4, <2>5, <3>1, <3>2, <3>3, StoreKeeps
  <2>7. Grows(entities, t[i + 1])
    <3>1. Grows(entities, t[i])
      BY <2>2
    <3> HIDE DEF i
    <3>2. QED
      BY <2>6, <3>1, GrowsTransitive
  <2>8. ASSUME NEW j \in 1..i, made[j].ref # NoRef PROVE made[j].ref \in DOMAIN t[i + 1]
    <3>1. CASE j = i
      BY <2>6, <2>8, <3>1
    <3>2. CASE j \in 1..k
      <4>1. made[j].ref \in DOMAIN t[i]
        BY <2>2, <2>8, <3>2
      <4> HIDE DEF i
      <4>2. QED
        BY <2>6, <4>1 DEF Grows, Keeps
    <3>3. QED
      BY <2>8, <3>1, <3>2
  <2> HIDE DEF i, ids
  <2>9. QED
    BY <2>6, <2>7, <2>8
<1>7. Good(n)
  <2>1. Nat \subseteq S
    <3> HIDE DEF S
    <3>1. QED BY <1>5, <1>6, Induction
  <2> HIDE DEF Good
  <2>2. n \in 0..n
    BY <1>1
  <2>3. QED
    BY <1>1, <2>1, <2>2
<1>8. QED
  BY <1>1, <1>7 DEF n, t, cand

-----------------------------------------------------------------------------
(* The inductive invariant. *)

\* A promotion in flight has been validated, and its decisions rest on what is
\* stored since or is its own.
InFlight(ents, pub, x) ==
  /\ x = [at |-> x.at, env |-> x.env, attempt |-> x.attempt, made |-> x.made]
  /\ x.at \in {"decided", "again"}
  /\ x.env \in Envelope /\ ValidPromotion(x.env) /\ DecisionsSound(ents, pub, x.env, x.made)
CallsOK ==
  /\ DOMAIN call = Caller
  /\ \A c \in Caller : call[c] = Idle \/ InFlight(entities, published, call[c])

\* A mention has a ref exactly if it is decided, and may read what it refers to.
MentionOK(m) ==
  LET row == mentions[m]
  IN  /\ m = <<m[1], m[2], m[3]>> /\ m[1] \in Scope /\ m[3] \in Name
      /\ row = [ref |-> row.ref, outcome |-> row.outcome, strategy |-> row.strategy,
                diffs |-> row.diffs]
      /\ row.outcome \in Outcome /\ row.strategy \in Strategy
      /\ row.ref = NoRef <=> row.outcome \notin {"MATCHED", "CREATED"}
      /\ row.ref # NoRef =>
           /\ row.ref \in DOMAIN entities /\ Visible(row.ref)
           /\ entities[row.ref].scope \in broader[m[1]]

\* Every mention is one of a stored promotion's, and the other way round.
PromotionOK(p) ==
  /\ DOMAIN p.mappings = DOMAIN p.candidate
  /\ \A i \in DOMAIN p.mappings : p.mappings[i].name = p.candidate[i].name
MentionsOfPromotions ==
  DOMAIN mentions =
    UNION {{<<p.scope, p.key, p.mappings[i].name>> : i \in DOMAIN p.mappings} : p \in promotions}

\* Relations and merges stay within a tenant.
RelationOK(r) ==
  /\ r.scope \in Scope /\ {r.from, r.to} \subseteq DOMAIN entities
  /\ tenant[entities[r.from].scope] = tenant[r.scope]
  /\ tenant[entities[r.to].scope] = tenant[r.scope]
MergesStay(ents) ==
  \A e \in DOMAIN ents :
    ents[e].superseded # NoRef =>
      tenant[ents[ents[e].superseded].scope] = tenant[ents[e].scope]

\* A held relation waits for two mentions of its scope.
PendingOK(p) ==
  /\ p = [scope |-> p.scope, from |-> p.from, to |-> p.to, status |-> p.status]
  /\ p.status \in {"PENDING", "MATERIALIZED"}
  /\ {p.from, p.to} \subseteq DOMAIN mentions
  /\ p.scope = p.from[1] /\ p.scope = p.to[1]

IInv ==
  /\ TableOK(entities, DOMAIN mentions) /\ published \subseteq DOMAIN entities
  /\ Ranked(entities) /\ MergesStay(entities)
  /\ CallsOK
  /\ \A m \in DOMAIN mentions : MentionOK(m)
  /\ MentionsOfPromotions /\ \A p \in promotions : PromotionOK(p)
  /\ \A r \in relations : RelationOK(r)
  /\ \A p \in pending : PendingOK(p)
  /\ MatchesAgree /\ SurvivorAnswers /\ HeldRelations

-----------------------------------------------------------------------------
(* What steps that only add leave alone. *)

\* A chain of merges ends in the tenant it began in.
LEMMA SurvivorStays ==
  ASSUME NEW ents, Ranked(ents), MergesStay(ents)
  PROVE  \A e \in DOMAIN ents : tenant[ents[Survivor(ents, e)].scope] = tenant[ents[e].scope]
<1>1. PICK bound, rank : RankedBy(ents, rank, bound)
  BY DEF Ranked
<1> DEFINE Good(e) == tenant[ents[Survivor(ents, e)].scope] = tenant[ents[e].scope]
           S == {k \in Nat : \A e \in DOMAIN ents : rank[e] < k => Good(e)}
<1>2. 0 \in S
  BY <1>1 DEF RankedBy
<1>3. ASSUME NEW k \in Nat, k \in S PROVE k + 1 \in S
  <2>1. ASSUME NEW e \in DOMAIN ents, rank[e] < k + 1 PROVE Good(e)
    <3>1. CASE ents[e].superseded = NoRef
      BY <3>1, SurvivorIsHead
    <3>2. CASE ents[e].superseded # NoRef
      <4>1. ents[e].superseded \in DOMAIN ents /\ rank[ents[e].superseded] < k
        BY <1>1, <2>1, <3>2 DEF RankedBy
      <4>2. Good(ents[e].superseded)
        BY <1>3, <4>1
      <4>3. Survivor(ents, e) = Survivor(ents, ents[e].superseded)
        BY <3>2, SurvivorIsHead
      <4>4. QED
        BY <3>2, <4>2, <4>3 DEF MergesStay
    <3>3. QED
      BY <3>1, <3>2
  <2> HIDE DEF Good
  <2>2. QED
    BY <2>1
<1>4. \A e \in DOMAIN ents : Good(e)
  <2>1. Nat \subseteq S
    <3> HIDE DEF S
    <3>1. QED BY <1>2, <1>3, Induction
  <2> HIDE DEF Good
  <2>2. bound + 1 \in S
    BY <1>1, <2>1 DEF RankedBy
  <2>3. \A e \in DOMAIN ents : rank[e] < bound + 1
    BY <1>1 DEF RankedBy
  <2>4. QED
    BY <2>2, <2>3
<1>5. QED
  BY <1>4

\* What a decision rests on is still there when rows are filled and added.
LEMMA SoundKept ==
  ASSUME NEW e1, NEW p1, NEW e2, NEW p2, Keeps(e1, e2), p1 \subseteq p2,
         NEW env, NEW made, DecisionsSound(e1, p1, env, made)
  PROVE  DecisionsSound(e2, p2, env, made)
<1>1. ASSUME NEW i, OnStored(e1, p1, env, made, i) PROVE OnStored(e2, p2, env, made, i)
  BY <1>1 DEF OnStored, Shown, Keeps, Kept, Contradicts
<1>2. QED
  BY <1>1 DEF DecisionsSound

LEMMA FlightKept ==
  ASSUME NEW e1, NEW p1, NEW e2, NEW p2, Keeps(e1, e2), p1 \subseteq p2,
         NEW x, InFlight(e1, p1, x)
  PROVE  InFlight(e2, p2, x)
BY SoundKept DEF InFlight

LEMMA CallsKept ==
  ASSUME CallsOK, Keeps(entities, entities'), published \subseteq published',
         DOMAIN call' = Caller, \A c \in Caller : call'[c] \in {call[c], Idle}
  PROVE  CallsOK'
<1>1. ASSUME NEW c \in Caller PROVE call'[c] = Idle \/ InFlight(entities', published', call'[c])
  <2>1. CASE call'[c] = Idle
    BY <2>1
  <2>2. CASE call'[c] = call[c]
    <3>1. call[c] = Idle \/ InFlight(entities, published, call[c])
      BY DEF CallsOK
    <3>2. InFlight(entities, published, call[c]) => InFlight(entities', published', call[c])
      BY FlightKept
    <3>3. QED
      BY <2>2, <3>1, <3>2
  <2>3. QED
    BY <2>1, <2>2
<1>2. QED
  BY <1>1 DEF CallsOK

\* A mention that is not written again is as good as before.
LEMMA MentionKept ==
  ASSUME NEW m, MentionOK(m), mentions'[m] = mentions[m],
         Keeps(entities, entities'), published \subseteq published'
  PROVE  MentionOK(m)'
BY DEF MentionOK, Visible, Keeps, Kept

\* The mention of a stored candidate.
LEMMA MentionOfCandidate ==
  ASSUME MentionsOfPromotions, NEW p \in promotions, NEW i \in DOMAIN p.mappings, PromotionOK(p)
  PROVE  <<p.scope, p.key, p.candidate[i].name>> \in DOMAIN mentions
BY DEF MentionsOfPromotions, PromotionOK

\* What MatchesAgree says of one candidate of a stored promotion.
Agrees(p, i) ==
  LET cand == p.candidate[i]
      row == mentions[<<p.scope, p.key, cand.name>>]
  IN  /\ \/ row.ref = p.mappings[i].ref /\ row.outcome = p.mappings[i].outcome
         \/ p.mappings[i].ref = NoRef /\ row.strategy = "HUMAN"
      /\ row.outcome = "MATCHED" /\ row.strategy \in DOMAIN Confidence =>
           \/ ~Contradicts(cand, entities[row.ref])
           \/ \E j \in 1..(i - 1) : /\ p.mappings[j].outcome = "CREATED"
                                    /\ p.mappings[j].ref = row.ref
                                    /\ Contradicts(p.candidate[j], entities[row.ref])

LEMMA MatchesAgreeIs ==
  /\ MatchesAgree <=> \A p \in promotions : \A i \in DOMAIN p.mappings : Agrees(p, i)
  /\ MatchesAgree' <=> \A p \in promotions' : \A i \in DOMAIN p.mappings : Agrees(p, i)'
BY DEF MatchesAgree, Agrees

LEMMA AgreesKept ==
  ASSUME NEW p, NEW i, Agrees(p, i), Keeps(entities, entities'),
         NEW m, m = <<p.scope, p.key, p.candidate[i].name>>,
         MentionOK(m), mentions'[m] = mentions[m]
  PROVE  Agrees(p, i)'
<1> DEFINE row == mentions[m]
<1>1. row.outcome = "MATCHED" => row.ref \in DOMAIN entities
  BY DEF MentionOK
<1>2. row.outcome = "MATCHED" =>
        \A cand : Contradicts(cand, entities'[row.ref]) <=> Contradicts(cand, entities[row.ref])
  BY <1>1 DEF Keeps, Kept, Contradicts
<1> HIDE DEF row
<1>3. QED
  BY <1>2 DEF Agrees, row

\* What SurvivorAnswers says of one entity that was merged away.
Answered(ents, pub, decs, e) ==
  LET s == Survivor(ents, e)
  IN  /\ ents[s].superseded = NoRef /\ Shown(ents, pub, s)
      /\ beforeHash[ents[e].norm.base] \subseteq ents[s].aliases
      /\ [action |-> "MERGE", what |-> e, ref |-> ents[e].superseded] \in decs
AllAnswered(ents, pub, decs) ==
  \A e \in DOMAIN ents : ents[e].superseded # NoRef => Answered(ents, pub, decs, e)

LEMMA SurvivorAnswersIs ==
  /\ SurvivorAnswers <=> AllAnswered(entities, published, decisions)
  /\ SurvivorAnswers' <=> AllAnswered(entities', published', decisions')
BY DEF SurvivorAnswers, AllAnswered, Answered, Shown, Visible

\* Merges that were made stay answered while nothing is merged.
LEMMA AnswersKept ==
  ASSUME NEW e1, NEW p1, NEW d1, NEW e2, NEW p2, NEW d2, AllAnswered(e1, p1, d1), Ranked(e1),
         Grows(e1, e2), p1 \subseteq p2, d1 \subseteq d2
  PROVE  AllAnswered(e2, p2, d2)
<1>1. SUFFICES ASSUME NEW e \in DOMAIN e2, e2[e].superseded # NoRef
               PROVE  Answered(e2, p2, d2, e)
  BY DEF AllAnswered
<1> DEFINE s == Survivor(e1, e)
<1>2. e \in DOMAIN e1 /\ e2[e].superseded = e1[e].superseded
  BY <1>1 DEF Grows, NoMerge
<1>3. s \in DOMAIN e1 /\ Survivor(e2, e) = s
  BY <1>2, SurvivorIsHead, SurvivorNoMerge DEF Grows
<1>4. /\ e1[s].superseded = NoRef /\ Shown(e1, p1, s)
      /\ beforeHash[e1[e].norm.base] \subseteq e1[s].aliases
      /\ [action |-> "MERGE", what |-> e, ref |-> e1[e].superseded] \in d1
  BY <1>1, <1>2 DEF AllAnswered, Answered
<1> HIDE DEF s
<1>5. /\ e2[s].superseded = NoRef /\ e2[s].origin = e1[s].origin
      /\ e1[s].aliases \subseteq e2[s].aliases
      /\ e2[e].norm = e1[e].norm
  BY <1>2, <1>3, <1>4 DEF Grows, Keeps, Kept, NoMerge
<1>6. QED
  BY <1>2, <1>3, <1>4, <1>5 DEF Answered, Shown

\* What HeldRelations says of one held relation.
HeldOK(p) ==
  LET from == mentions[p.from].ref
      to == mentions[p.to].ref
  IN  /\ p.status = "PENDING" <=> NoRef \in {from, to}
      /\ p.status = "MATERIALIZED" =>
           Relation(p.scope, Survivor(entities, from), Survivor(entities, to)) \in relations

LEMMA HeldRelationsIs ==
  /\ HeldRelations <=> \A p \in pending : HeldOK(p)
  /\ HeldRelations' <=> \A p \in pending' : HeldOK(p)'
BY DEF HeldRelations, HeldOK

LEMMA HeldKept ==
  ASSUME NEW p, HeldOK(p), PendingOK(p), \A m \in DOMAIN mentions : MentionOK(m),
         Ranked(entities), Grows(entities, entities'), relations \subseteq relations',
         mentions'[p.from].ref = mentions[p.from].ref, mentions'[p.to].ref = mentions[p.to].ref
  PROVE  HeldOK(p)'
<1> DEFINE from == mentions[p.from].ref
           to == mentions[p.to].ref
<1>1. from # NoRef => from \in DOMAIN entities
  BY DEF PendingOK, MentionOK
<1>2. to # NoRef => to \in DOMAIN entities
  BY DEF PendingOK, MentionOK
<1>3. p.status = "MATERIALIZED" => from # NoRef /\ to # NoRef
  BY DEF HeldOK
<1>4. p.status = "MATERIALIZED" =>
        /\ Survivor(entities', from) = Survivor(entities, from)
        /\ Survivor(entities', to) = Survivor(entities, to)
  BY <1>1, <1>2, <1>3, SurvivorNoMerge DEF Grows
<1> HIDE DEF from, to
<1>5. QED
  BY <1>4 DEF HeldOK, from, to

-----------------------------------------------------------------------------
(* The invariant is kept: the actions that change nothing but a promotion in *)
(* flight.                                                                  *)

LEMMA InvIfCallsOK ==
  ASSUME IInv, CallsOK',
         UNCHANGED <<entities, published, mentions, relations, pending, promotions, decisions>>
  PROVE  IInv'
<1>1. /\ TableOK(entities', DOMAIN mentions') /\ published' \subseteq DOMAIN entities'
      /\ Ranked(entities') /\ MergesStay(entities')
  BY DEF IInv
<1>2. \A m \in DOMAIN mentions' : MentionOK(m)'
  BY DEF IInv, MentionOK, Visible
<1>3. MentionsOfPromotions' /\ \A p \in promotions' : PromotionOK(p)
  BY DEF IInv, MentionsOfPromotions
<1>4. (\A r \in relations' : RelationOK(r)') /\ (\A p \in pending' : PendingOK(p)')
  BY DEF IInv, RelationOK, PendingOK
<1>5. MatchesAgree' /\ SurvivorAnswers' /\ HeldRelations'
  BY DEF IInv, MatchesAgree, SurvivorAnswers, HeldRelations, Visible
<1>6. QED
  BY <1>1, <1>2, <1>3, <1>4, <1>5 DEF IInv, PromotionOK

\* The start of a promotion and a new attempt: the lookup.
LEMMA LookupInFlight ==
  ASSUME NEW env \in Envelope, ValidPromotion(env), NEW attempt
  PROVE  InFlight(entities, published,
                  [at |-> "decided", env |-> env, attempt |-> attempt,
                   made |-> Decide(env, Pool(env.scope))])
<1> DEFINE made == Decide(env, Pool(env.scope))
           x == [at |-> "decided", env |-> env, attempt |-> attempt, made |-> made]
<1> SUFFICES InFlight(entities, published, x)
  OBVIOUS
<1>1. DecisionsSound(entities, published, env, made)
  BY DecideSound
<1> HIDE DEF made
<1>2. x.at = "decided" /\ x.env = env /\ x.attempt = attempt /\ x.made = made
  OBVIOUS
<1>3. x = [at |-> x.at, env |-> x.env, attempt |-> x.attempt, made |-> x.made]
  OBVIOUS
<1> HIDE DEF x
<1>4. QED
  BY <1>1, <1>2, <1>3 DEF InFlight

LEMMA CallWritten ==
  ASSUME CallsOK, UNCHANGED <<entities, published>>, NEW c \in Caller, NEW x,
         x = Idle \/ InFlight(entities, published, x), call' = [call EXCEPT ![c] = x]
  PROVE  CallsOK'
<1>1. DOMAIN call' = Caller /\ \A d \in Caller : call'[d] = IF d = c THEN x ELSE call[d]
  BY DEF CallsOK
<1>2. QED
  BY <1>1 DEF CallsOK

LEMMA PromoteKeeps ==
  ASSUME IInv, NEW c \in Caller, Promote(c)
  PROVE  IInv'
<1>1. PICK env \in Envelope : ValidPromotion(env) /\ Lookup(c, env, 1)
  BY DEF Promote
<1> DEFINE x == [at |-> "decided", env |-> env, attempt |-> 1,
                 made |-> Decide(env, Pool(env.scope))]
<1>2. InFlight(entities, published, x)
  BY <1>1, LookupInFlight
<1>3. call' = [call EXCEPT ![c] = x]
  BY <1>1 DEF Lookup
<1> HIDE DEF x
<1>4. CallsOK'
  BY <1>2, <1>3, CallWritten DEF IInv, Promote
<1>5. QED
  BY <1>4, InvIfCallsOK DEF Promote

LEMMA InFlightIfNotIdle ==
  ASSUME CallsOK, NEW c \in Caller, call[c].at # "idle"
  PROVE  InFlight(entities, published, call[c])
BY DEF CallsOK, Idle

LEMMA RetryKeeps ==
  ASSUME IInv, NEW c \in Caller, Retry(c)
  PROVE  IInv'
<1> DEFINE env == call[c].env
           x == [at |-> "decided", env |-> env, attempt |-> call[c].attempt + 1,
                 made |-> Decide(env, Pool(env.scope))]
<1>1. env \in Envelope /\ ValidPromotion(env)
  BY InFlightIfNotIdle DEF IInv, Retry, InFlight
<1>2. InFlight(entities, published, x)
  BY <1>1, LookupInFlight
<1>3. call' = [call EXCEPT ![c] = x]
  BY DEF Retry, Lookup
<1> HIDE DEF x
<1>4. CallsOK'
  BY <1>2, <1>3, CallWritten DEF IInv, Retry
<1>5. QED
  BY <1>4, InvIfCallsOK DEF Retry

LEMMA ReplayKeeps ==
  ASSUME IInv, NEW c \in Caller, Replay(c)
  PROVE  IInv'
<1>1. CallsOK'
  BY CallWritten DEF IInv, Replay
<1>2. QED
  BY <1>1, InvIfCallsOK DEF Replay

LEMMA LoseRaceKeeps ==
  ASSUME IInv, NEW c \in Caller, LoseRace(c)
  PROVE  IInv'
<1> DEFINE old == call[c]
           x == [old EXCEPT !.at = "again"]
<1>1. InFlight(entities, published, old)
  BY InFlightIfNotIdle DEF IInv, LoseRace
<1>2. InFlight(entities, published, x)
  <2>1. x = [at |-> "again", env |-> old.env, attempt |-> old.attempt, made |-> old.made]
    BY <1>1 DEF InFlight
  <2> HIDE DEF x, old
  <2>2. QED
    BY <1>1, <2>1 DEF InFlight
<1>3. call' = [call EXCEPT ![c] = x] \/ call' = [call EXCEPT ![c] = Idle]
  BY DEF LoseRace
<1> HIDE DEF x
<1>4. CallsOK'
  BY <1>2, <1>3, CallWritten DEF IInv, LoseRace
<1>5. QED
  BY <1>4, InvIfCallsOK DEF LoseRace

-----------------------------------------------------------------------------
(* The actions of the pipeline.                                             *)

LEMMA PublishKeeps ==
  ASSUME IInv, NEW r \in DOMAIN Pipeline, PipelinePublish(r)
  PROVE  IInv'
<1> USE DEF PipelinePublish
<1>1. /\ TableOK(entities', DOMAIN mentions') /\ published' \subseteq DOMAIN entities'
      /\ Ranked(entities') /\ MergesStay(entities')
  BY DEF IInv
<1>2. Grows(entities, entities') /\ published \subseteq published'
  BY GrowsReflexive DEF IInv, TableOK, RowOK
<1>3. CallsOK'
  BY <1>2, CallsKept DEF IInv, Grows, CallsOK
<1>4. \A m \in DOMAIN mentions' : MentionOK(m)'
  BY DEF IInv, MentionOK, Visible
<1>5. MentionsOfPromotions' /\ \A p \in promotions' : PromotionOK(p)
  BY DEF IInv, MentionsOfPromotions
<1>6. (\A q \in relations' : RelationOK(q)') /\ (\A p \in pending' : PendingOK(p)')
  BY DEF IInv, RelationOK, PendingOK
<1>7. MatchesAgree' /\ HeldRelations'
  BY DEF IInv, MatchesAgree, HeldRelations
<1>8. SurvivorAnswers'
  BY <1>2, AnswersKept, SurvivorAnswersIs DEF IInv
<1>9. QED
  BY <1>1, <1>3, <1>4, <1>5, <1>6, <1>7, <1>8 DEF IInv, PromotionOK

\* What a step that fills rows and adds some without merging keeps for the rows,
\* mentions and promotions that it does not write.
LEMMA AddedRows ==
  ASSUME IInv, Grows(entities, entities'), UNCHANGED published
  PROVE  /\ published' \subseteq DOMAIN entities' /\ Ranked(entities')
         /\ MergesStay(entities')
         /\ \A r \in relations : RelationOK(r)'
<1>1. published' \subseteq DOMAIN entities'
  BY DEF IInv, Grows, Keeps
<1>2. Ranked(entities')
  BY RankedNoMerge DEF IInv, Grows
<1>3. \A r \in DOMAIN entities : r \in DOMAIN entities' /\ entities'[r].scope = entities[r].scope
  BY DEF Grows, Keeps, Kept
<1>4. MergesStay(entities')
  <2>1. SUFFICES ASSUME NEW e \in DOMAIN entities', entities'[e].superseded # NoRef
                 PROVE  tenant[entities'[entities'[e].superseded].scope]
                          = tenant[entities'[e].scope]
    BY DEF MergesStay
  <2>2. e \in DOMAIN entities /\ entities'[e].superseded = entities[e].superseded
    BY <2>1 DEF Grows, NoMerge
  <2>3. entities[e].superseded \in DOMAIN entities
    BY <2>1, <2>2 DEF IInv, TableOK, RowOK
  <2>4. tenant[entities[entities[e].superseded].scope] = tenant[entities[e].scope]
    BY <2>1, <2>2 DEF IInv, MergesStay
  <2>5. QED
    BY <1>3, <2>2, <2>3, <2>4
<1>5. \A r \in relations : RelationOK(r)'
  BY <1>3 DEF IInv, RelationOK
<1>6. QED
  BY <1>1, <1>2, <1>4, <1>5

LEMMA SubmitGrows ==
  ASSUME IInv, NEW r \in DOMAIN Pipeline, PipelineSubmit(r)
  PROVE  Grows(entities, entities') /\ TableOK(entities', DOMAIN mentions')
<1> DEFINE row == Pipeline[r]
<1>1. /\ r \notin DOMAIN entities
      /\ \A s \in Scope, n \in Name : r # EntityRef(s, n)
      /\ IsRow(row) /\ row.scope \in Scope /\ row.name \in Name /\ row.type \in EntityType
      /\ row.norm.mention = Nothing /\ row.aliases \subseteq Alias
      /\ row.superseded = NoRef /\ row.origin = "pipeline"
  BY PipelineAssumption DEF PipelineSubmit, NoRef, Nothing
<1>2. \A a \in DOMAIN entities : entities[a].scope = row.scope => entities[a].norm # row.norm
  BY DEF PipelineSubmit, Holders
<1>3. entities' = [y \in DOMAIN entities \cup {r} |-> IF y = r THEN row ELSE entities[y]]
  BY DEF PipelineSubmit, Put
<1> HIDE DEF row
<1>4. DOMAIN entities' = DOMAIN entities \cup {r}
  BY <1>3
<1>5. entities'[r] = row /\ \A y \in DOMAIN entities : entities'[y] = entities[y] /\ y # r
  BY <1>1, <1>3
<1>6. TableOK(entities, DOMAIN mentions)
  BY DEF IInv
<1>7. Grows(entities, entities')
  <2>1. \A y \in DOMAIN entities : Kept(entities[y], entities'[y])
    BY <1>5, <1>6 DEF TableOK, RowOK, Kept
  <2>2. NoMerge(entities, entities')
    BY <1>1, <1>4, <1>5 DEF NoMerge
  <2>3. QED
    BY <1>4, <2>1, <2>2 DEF Grows, Keeps
<1>8. ASSUME NEW e \in DOMAIN entities' PROVE RowOK(entities', DOMAIN mentions, e)
  <2>1. CASE e \in DOMAIN entities
    <3>1. RowOK(entities, DOMAIN mentions, e)
      BY <1>6, <2>1 DEF TableOK
    <3>2. QED
      BY <1>4, <1>5, <2>1, <3>1 DEF RowOK
  <2>2. CASE e = r
    BY <1>1, <1>4, <1>5, <2>2 DEF RowOK
  <2>3. QED
    BY <1>4, <2>1, <2>2
<1>9. KeysUnique(entities')
  BY <1>2, <1>4, <1>5, <1>6 DEF TableOK, KeysUnique
<1>10. RefsTell(entities')
  BY <1>1, <1>4, <1>5, <1>6 DEF TableOK, RefsTell
<1>11. DOMAIN entities' \subseteq Ref
  BY <1>4, <1>6 DEF TableOK, Ref
<1>12. QED
  BY <1>7, <1>8, <1>9, <1>10, <1>11 DEF TableOK, PipelineSubmit

LEMMA SubmitKeeps ==
  ASSUME IInv, NEW r \in DOMAIN Pipeline, PipelineSubmit(r)
  PROVE  IInv'
<1>0. UNCHANGED <<published, mentions, relations, pending, promotions, decisions, call>>
  BY DEF PipelineSubmit
<1>1. Grows(entities, entities') /\ TableOK(entities', DOMAIN mentions')
  BY SubmitGrows
<1>a. Keeps(entities, entities')
  BY <1>1 DEF Grows
<1>2. /\ published' \subseteq DOMAIN entities' /\ Ranked(entities') /\ MergesStay(entities')
      /\ \A q \in relations' : RelationOK(q)'
  BY <1>0, <1>1, AddedRows
<1>3. CallsOK'
  BY <1>0, <1>a, CallsKept DEF IInv, CallsOK
<1>4. \A m \in DOMAIN mentions' : MentionOK(m)'
  BY <1>0, <1>a, MentionKept DEF IInv
<1>5. MentionsOfPromotions' /\ \A p \in promotions' : PromotionOK(p)
  BY <1>0 DEF IInv, MentionsOfPromotions
<1>6. \A p \in pending' : PendingOK(p)'
  BY <1>0 DEF IInv, PendingOK
<1>7. MatchesAgree'
  <2>1. ASSUME NEW p \in promotions, NEW i \in DOMAIN p.mappings PROVE Agrees(p, i)'
    <3> DEFINE m == <<p.scope, p.key, p.candidate[i].name>>
    <3>1. m \in DOMAIN mentions /\ MentionOK(m) /\ Agrees(p, i)
      BY MentionOfCandidate, MatchesAgreeIs DEF IInv
    <3>2. mentions'[m] = mentions[m]
      BY <1>0
    <3> HIDE DEF m
    <3>3. QED
      BY <1>a, <3>1, <3>2, AgreesKept DEF m
  <2>2. QED
    BY <1>0, <2>1, MatchesAgreeIs
<1>8. SurvivorAnswers'
  BY <1>0, <1>1, AnswersKept, SurvivorAnswersIs DEF IInv
<1>9. HeldRelations'
  BY <1>0, <1>1, HeldKept, HeldRelationsIs DEF IInv
<1>10. QED
  BY <1>1, <1>2, <1>3, <1>4, <1>5, <1>6, <1>7, <1>8, <1>9 DEF IInv, PromotionOK

-----------------------------------------------------------------------------
(* The transaction of a promotion.                                          *)

\* The mention ids of a request.
Ids(env) == {MentionId(env, env.entities[i].name) : i \in DOMAIN env.entities}

\* What a commit is, in terms of its request and decisions.
Commits(c, env, made) ==
  /\ env \in Envelope /\ ValidPromotion(env) /\ DecisionsSound(entities, published, env, made)
  /\ ~NormKeyConflict(env, made)
  /\ Ids(env) \cap DOMAIN mentions = {}
  /\ entities' = Tables(env, made)[Len(env.entities) + 1]
  /\ DOMAIN mentions' = DOMAIN mentions \cup Ids(env)
  /\ \A m \in DOMAIN mentions : mentions'[m] = mentions[m]
  /\ \A i \in DOMAIN env.entities :
       mentions'[MentionId(env, env.entities[i].name)]
         = MentionRow(Tables(env, made)[i], env.entities[i], made[i])
  /\ relations' = relations \cup
       {Relation(env.scope, Made(env, made, r.from).ref, Made(env, made, r.to).ref) :
          r \in Bound(env, made)}
  /\ pending' = pending \cup {Held(env, r) : r \in env.relations \ Bound(env, made)}
  /\ promotions' = promotions \cup {PromotionRow(env, made)}
  /\ call' = [call EXCEPT ![c] = Idle]
  /\ UNCHANGED <<published, decisions>>

\* The mentions of a promotion that is not stored are not either.
LEMMA IdsAreNew ==
  ASSUME MentionsOfPromotions, NEW env, ~Stored(env)
  PROVE  Ids(env) \cap DOMAIN mentions = {}
<1>1. ASSUME NEW m \in DOMAIN mentions, NEW n PROVE m # MentionId(env, n)
  <2>1. PICK p \in promotions : \E i \in DOMAIN p.mappings :
          m = <<p.scope, p.key, p.mappings[i].name>>
    BY <1>1 DEF MentionsOfPromotions
  <2>2. m[1] = p.scope /\ m[2] = p.key
    BY <2>1
  <2>3. QED
    BY <2>2, MentionIds DEF Stored
<1>2. QED
  BY <1>1 DEF Ids

LEMMA CommitIs ==
  ASSUME IInv, NEW c \in Caller, Commit(c)
  PROVE  \E env, made : Commits(c, env, made)
<1> DEFINE env == call[c].env
           made == call[c].made
           t == Tables(env, made)
           ids == {MentionId(env, env.entities[i].name) : i \in DOMAIN made}
           row(m) == LET i == CHOOSE j \in DOMAIN made : env.entities[j].name = m[3]
                     IN  MentionRow(t[i], env.entities[i], made[i])
<1>1. InFlight(entities, published, call[c])
  BY InFlightIfNotIdle DEF IInv, Commit
<1>2. /\ env \in Envelope /\ ValidPromotion(env)
      /\ DecisionsSound(entities, published, env, made)
      /\ DOMAIN made = DOMAIN env.entities
  BY <1>1 DEF InFlight, DecisionsSound
<1>3. /\ ~Stored(env) /\ ~NormKeyConflict(env, made)
      /\ entities' = t[Len(env.entities) + 1]
      /\ mentions' = [m \in DOMAIN mentions \cup ids |-> IF m \in ids THEN row(m) ELSE mentions[m]]
      /\ relations' = relations \cup
           {Relation(env.scope, Made(env, made, r.from).ref, Made(env, made, r.to).ref) :
              r \in Bound(env, made)}
      /\ pending' = pending \cup {Held(env, r) : r \in env.relations \ Bound(env, made)}
      /\ promotions' = promotions \cup {PromotionRow(env, made)}
      /\ call' = [call EXCEPT ![c] = Idle]
      /\ UNCHANGED <<published, decisions>>
  BY DEF Commit
<1> HIDE DEF env, made, t
<1>4. ids = Ids(env)
  BY <1>2 DEF Ids
<1>5. Ids(env) \cap DOMAIN mentions = {}
  BY <1>3, IdsAreNew DEF IInv
<1>6. ASSUME NEW i \in DOMAIN env.entities
      PROVE  row(MentionId(env, env.entities[i].name)) = MentionRow(t[i], env.entities[i], made[i])
  <2> DEFINE m == MentionId(env, env.entities[i].name)
             k == CHOOSE j \in DOMAIN made : env.entities[j].name = m[3]
  <2>1. m[3] = env.entities[i].name
    BY MentionIds
  <2>2. i \in DOMAIN made /\ env.entities[i].name = m[3]
    BY <1>2, <2>1
  <2>3. k \in DOMAIN made /\ env.entities[k].name = m[3]
    BY <2>2
  <2> HIDE DEF k, m
  <2>4. k = i
    BY <1>2, <2>2, <2>3 DEF ValidPromotion
  <2>5. QED
    BY <2>4 DEF k, m
<1> HIDE DEF ids, row
<1>7. DOMAIN mentions' = DOMAIN mentions \cup Ids(env)
  BY <1>3, <1>4
<1>8. \A m \in DOMAIN mentions : mentions'[m] = mentions[m]
  BY <1>3, <1>4, <1>5
<1>9. ASSUME NEW i \in DOMAIN env.entities
      PROVE  mentions'[MentionId(env, env.entities[i].name)]
               = MentionRow(t[i], env.entities[i], made[i])
  <2>1. MentionId(env, env.entities[i].name) \in ids
    BY <1>4 DEF Ids
  <2>2. QED
    BY <1>3, <1>6, <2>1
<1>10. Commits(c, env, made)
  BY <1>2, <1>3, <1>5, <1>7, <1>8, <1>9 DEF Commits, t
<1>11. QED
  BY <1>10

\* The table that a commit leaves.
LEMMA CommitTable ==
  ASSUME IInv, NEW c, NEW env, NEW made, Commits(c, env, made)
  PROVE  /\ TableOK(entities', DOMAIN mentions') /\ Grows(entities, entities')
         /\ \A i \in DOMAIN env.entities : made[i].ref # NoRef => made[i].ref \in DOMAIN entities'
<1>1. /\ env \in Envelope /\ ValidPromotion(env)
      /\ DecisionsSound(entities, published, env, made) /\ ~NormKeyConflict(env, made)
      /\ \A i \in DOMAIN env.entities :
           MentionId(env, env.entities[i].name) \notin DOMAIN mentions
      /\ TableOK(entities, DOMAIN mentions)
  BY DEF Commits, Ids, IInv
<1> DEFINE n == Len(env.entities)
           t == Tables(env, made)
<1>2. DOMAIN env.entities = 1..n
  BY <1>1, TablesStep
<1>3. /\ TableOK(t[n + 1], DOMAIN mentions \cup Ids(env))
      /\ Grows(entities, t[n + 1])
      /\ \A i \in 1..n : made[i].ref # NoRef => made[i].ref \in DOMAIN t[n + 1]
  BY <1>1, TablesKeep DEF Ids
<1>4. entities' = t[n + 1] /\ DOMAIN mentions' = DOMAIN mentions \cup Ids(env)
  BY DEF Commits
<1> HIDE DEF n, t
<1>5. QED
  BY <1>2, <1>3, <1>4

\* A decision with a ref leads to what its scope may see.
LEMMA DecisionReads ==
  ASSUME IInv, NEW c, NEW env, NEW made, Commits(c, env, made), NEW i \in DOMAIN env.entities
  PROVE  /\ Formed(made[i], env.entities[i], env.scope)
         /\ made[i].ref = NoRef <=> made[i].outcome \notin {"MATCHED", "CREATED"}
         /\ made[i].ref # NoRef =>
              /\ made[i].ref \in DOMAIN entities' /\ Shown(entities', published', made[i].ref)
              /\ entities'[made[i].ref].scope \in broader[env.scope]
<1>1. /\ env \in Envelope /\ DecisionsSound(entities, published, env, made)
      /\ published' = published
  BY DEF Commits
<1>2. /\ TableOK(entities', DOMAIN mentions') /\ Keeps(entities, entities')
      /\ \A j \in DOMAIN env.entities : made[j].ref # NoRef => made[j].ref \in DOMAIN entities'
  BY CommitTable DEF Grows
<1>3. /\ Formed(made[i], env.entities[i], env.scope)
      /\ made[i].outcome = "MATCHED" =>
           OnStored(entities, published, env, made, i) \/ OnCandidate(env, made, i)
  BY <1>1 DEF DecisionsSound
<1>4. env.scope \in Scope /\ env.scope \in broader[env.scope]
      /\ \A j \in DOMAIN env.entities : env.entities[j].name \in Name
  BY <1>1, EnvelopeAssumption, TenantAssumption
<1>5. ASSUME NEW j \in DOMAIN env.entities, made[j].outcome = "CREATED"
      PROVE  /\ made[j].ref # NoRef /\ Shown(entities', published', made[j].ref)
             /\ entities'[made[j].ref].scope \in broader[env.scope]
  <2>1. Formed(made[j], env.entities[j], env.scope)
    BY <1>1 DEF DecisionsSound
  <2>2. made[j].ref = EntityRef(env.scope, env.entities[j].name)
    BY <1>5, <2>1 DEF Formed
  <2>3. made[j].ref \in Ref /\ made[j].ref # NoRef
    BY <1>4, <2>2, RefsAreNoRef DEF Ref
  <2>4. made[j].ref \in DOMAIN entities'
    BY <1>2, <2>3
  <2>5. entities'[made[j].ref].scope = env.scope /\ entities'[made[j].ref].origin = "legacy"
    BY <1>2, <1>4, <2>2, <2>4 DEF TableOK, RefsTell
  <2>6. QED
    BY <1>4, <2>3, <2>5 DEF Shown
<1>6. CASE made[i].outcome = "CREATED"
  BY <1>2, <1>3, <1>5, <1>6
<1>7. CASE made[i].outcome = "MATCHED"
  <2>1. CASE OnStored(entities, published, env, made, i)
    <3>1. made[i].ref \in DOMAIN entities /\ made[i].ref # NoRef
      BY <2>1, RefsAreNoRef DEF OnStored, IInv, TableOK
    <3>2. QED
      BY <1>1, <1>2, <1>3, <1>7, <2>1, <3>1 DEF OnStored, Shown, Keeps, Kept
  <2>2. CASE OnCandidate(env, made, i)
    <3>1. PICK j \in 1..(i - 1) : made[j].outcome = "CREATED" /\ made[j].ref = made[i].ref
      BY <2>2 DEF OnCandidate
    <3>2. j \in DOMAIN env.entities
      <4>1. Len(env.entities) \in Nat /\ DOMAIN env.entities = 1..Len(env.entities)
        BY <1>1, TablesStep
      <4>2. QED
        BY <4>1
    <3>3. QED
      BY <1>2, <1>3, <1>5, <1>7, <3>1, <3>2
  <2>3. QED
    BY <1>3, <1>7, <2>1, <2>2
<1>8. CASE made[i].outcome \notin {"MATCHED", "CREATED"}
  BY <1>3, <1>8 DEF Formed
<1>9. QED
  BY <1>6, <1>7, <1>8

LEMMA CommitMentions ==
  ASSUME IInv, NEW c, NEW env, NEW made, Commits(c, env, made)
  PROVE  \A m \in DOMAIN mentions' : MentionOK(m)'
<1>1. Keeps(entities, entities') /\ published \subseteq published'
  BY CommitTable DEF Grows, Commits
<1>2. ASSUME NEW m \in DOMAIN mentions PROVE MentionOK(m)'
  BY <1>1, <1>2, MentionKept DEF IInv, Commits
<1>3. ASSUME NEW i \in DOMAIN env.entities
      PROVE  MentionOK(MentionId(env, env.entities[i].name))'
  <2> DEFINE m == MentionId(env, env.entities[i].name)
             row == MentionRow(Tables(env, made)[i], env.entities[i], made[i])
  <2>1. /\ Formed(made[i], env.entities[i], env.scope)
        /\ made[i].ref = NoRef <=> made[i].outcome \notin {"MATCHED", "CREATED"}
        /\ made[i].ref # NoRef =>
             /\ made[i].ref \in DOMAIN entities' /\ Shown(entities', published', made[i].ref)
             /\ entities'[made[i].ref].scope \in broader[env.scope]
    BY DecisionReads
  <2>2. /\ row.ref = made[i].ref /\ row.outcome = made[i].outcome
        /\ row.strategy = made[i].strategy
        /\ row = [ref |-> row.ref, outcome |-> row.outcome, strategy |-> row.strategy,
                  diffs |-> row.diffs]
    BY DEF MentionRow
  <2>3. mentions'[m] = row
    BY DEF Commits
  <2>4. m = <<m[1], m[2], m[3]>> /\ m[1] = env.scope /\ m[3] = env.entities[i].name
    BY MentionIds
  <2>5. env.scope \in Scope /\ env.entities[i].name \in Name
    BY EnvelopeAssumption DEF Commits
  <2> HIDE DEF m, row
  <2>6. row.outcome \in Outcome /\ row.strategy \in Strategy
    BY <2>1, <2>2 DEF Formed
  <2>7. MentionOK(m)'
    BY <2>1, <2>2, <2>3, <2>4, <2>5, <2>6 DEF MentionOK, Visible, Shown
  <2>8. QED
    BY <2>7 DEF m
<1>4. DOMAIN mentions' = DOMAIN mentions \cup Ids(env)
  BY DEF Commits
<1>5. QED
  BY <1>2, <1>3, <1>4 DEF Ids

LEMMA CommitPromotions ==
  ASSUME IInv, NEW c, NEW env, NEW made, Commits(c, env, made)
  PROVE  MentionsOfPromotions' /\ (\A p \in promotions' : PromotionOK(p)) /\ MatchesAgree'
<1> DEFINE new == PromotionRow(env, made)
           of(p) == {<<p.scope, p.key, p.mappings[i].name>> : i \in DOMAIN p.mappings}
<1>1. /\ env \in Envelope /\ DecisionsSound(entities, published, env, made)
      /\ DOMAIN made = DOMAIN env.entities
      /\ promotions' = promotions \cup {new}
      /\ DOMAIN mentions' = DOMAIN mentions \cup Ids(env)
  BY DEF Commits, DecisionsSound
<1>2. /\ new.scope = env.scope /\ new.key = env.key /\ new.candidate = env.entities
      /\ DOMAIN new.mappings = DOMAIN env.entities
      /\ \A i \in DOMAIN env.entities :
           /\ new.mappings[i].name = env.entities[i].name
           /\ new.mappings[i].ref = made[i].ref /\ new.mappings[i].outcome = made[i].outcome
  BY <1>1 DEF PromotionRow, Mappings
<1> HIDE DEF new
<1>3. of(new) = Ids(env)
  BY <1>2, MentionIds DEF Ids
<1>4. MentionsOfPromotions'
  <2>1. DOMAIN mentions = UNION {of(p) : p \in promotions}
    BY DEF IInv, MentionsOfPromotions
  <2> HIDE DEF of
  <2>2. DOMAIN mentions' = UNION {of(p) : p \in promotions'}
    BY <1>1, <1>3, <2>1
  <2>3. QED
    BY <2>2 DEF MentionsOfPromotions, of
<1>5. \A p \in promotions' : PromotionOK(p)
  BY <1>1, <1>2 DEF IInv, PromotionOK
<1>6. Keeps(entities, entities')
  BY CommitTable DEF Grows
<1>7. ASSUME NEW p \in promotions, NEW i \in DOMAIN p.mappings PROVE Agrees(p, i)'
  <2> DEFINE m == <<p.scope, p.key, p.candidate[i].name>>
  <2>1. m \in DOMAIN mentions /\ MentionOK(m) /\ Agrees(p, i)
    BY MentionOfCandidate, MatchesAgreeIs DEF IInv
  <2> HIDE DEF m
  <2>2. mentions'[m] = mentions[m]
    BY <2>1 DEF Commits
  <2>3. QED
    BY <1>6, <2>1, <2>2, AgreesKept DEF m
<1>8. ASSUME NEW i \in DOMAIN env.entities PROVE Agrees(new, i)'
  <2> DEFINE m == MentionId(env, env.entities[i].name)
             cand == env.entities[i]
             d == made[i]
  <2>1. mentions'[m] = MentionRow(Tables(env, made)[i], cand, d)
    BY DEF Commits
  <2>2. m = <<new.scope, new.key, new.candidate[i].name>>
    BY <1>2, MentionIds
  <2>3. mentions'[m].ref = d.ref /\ mentions'[m].outcome = d.outcome
        /\ mentions'[m].strategy = d.strategy
    BY <2>1 DEF MentionRow
  <2>4. d.outcome = "MATCHED" =>
          OnStored(entities, published, env, made, i) \/ OnCandidate(env, made, i)
    BY <1>1 DEF DecisionsSound
  <2>5. new.mappings[i].ref = d.ref /\ new.mappings[i].outcome = d.outcome
        /\ new.candidate[i] = cand
    BY <1>2
  <2> HIDE DEF m, cand, d
  <2>6. ASSUME d.outcome = "MATCHED", d.strategy \in StringStrategy
        PROVE  \/ ~Contradicts(cand, entities'[d.ref])
               \/ \E j \in 1..(i - 1) : /\ new.mappings[j].outcome = "CREATED"
                                        /\ new.mappings[j].ref = d.ref
                                        /\ Contradicts(new.candidate[j], entities'[d.ref])
    <3>1. CASE OnStored(entities, published, env, made, i)
      BY <1>6, <2>6, <3>1 DEF OnStored, Keeps, Kept, Contradicts, cand, d
    <3>2. CASE OnCandidate(env, made, i)
      <4>1. PICK j \in 1..(i - 1) :
              /\ made[j].outcome = "CREATED" /\ made[j].ref = d.ref
              /\ ~Contradicts(cand, NewRow(env.entities[j], env.scope))
        BY <2>6, <3>2 DEF OnCandidate, cand, d
      <4>2. j \in DOMAIN env.entities
        <5>1. Len(env.entities) \in Nat /\ DOMAIN env.entities = 1..Len(env.entities)
          BY <1>1, TablesStep
        <5>2. QED
          BY <5>1
      <4>3. cand.type = env.entities[j].type /\ cand.title = env.entities[j].title
        BY <4>1 DEF Contradicts, NewRow
      <4>4. new.mappings[j].outcome = "CREATED" /\ new.mappings[j].ref = d.ref
            /\ new.candidate[j] = env.entities[j]
        BY <1>2, <4>1, <4>2
      <4>5. QED
        BY <4>1, <4>3, <4>4 DEF Contradicts
    <3>3. QED
      BY <2>4, <2>6, <3>1, <3>2
  <2>7. QED
    BY <2>2, <2>3, <2>5, <2>6 DEF Agrees, StringStrategy
<1>9. MatchesAgree'
  BY <1>1, <1>2, <1>7, <1>8, MatchesAgreeIs
<1>10. QED
  BY <1>4, <1>5, <1>9

\* The decision that is made of a name.
LEMMA MadeIs ==
  ASSUME NEW c, NEW env, NEW made, Commits(c, env, made), NEW r \in env.relations
  PROVE  \E i, j \in DOMAIN env.entities :
           /\ env.entities[i].name = r.from /\ Made(env, made, r.from) = made[i]
           /\ env.entities[j].name = r.to /\ Made(env, made, r.to) = made[j]
<1>1. ValidPromotion(env) /\ DOMAIN made = DOMAIN env.entities
  BY DEF Commits, DecisionsSound
<1>2. ASSUME NEW n \in {env.entities[i].name : i \in DOMAIN env.entities}
      PROVE  \E i \in DOMAIN env.entities : env.entities[i].name = n /\ Made(env, made, n) = made[i]
  <2> DEFINE k == CHOOSE i \in DOMAIN made : env.entities[i].name = n
  <2>1. k \in DOMAIN env.entities /\ env.entities[k].name = n
    BY <1>1, <1>2
  <2>2. Made(env, made, n) = made[k]
    BY DEF Made
  <2> HIDE DEF k
  <2>3. QED
    BY <2>1, <2>2
<1>3. {r.from, r.to} \subseteq {env.entities[i].name : i \in DOMAIN env.entities}
  BY <1>1 DEF ValidPromotion, ValidRelation
<1>4. QED
  BY <1>2, <1>3

LEMMA CommitRelations ==
  ASSUME IInv, NEW c, NEW env, NEW made, Commits(c, env, made)
  PROVE  /\ \A r \in relations' : RelationOK(r)'
         /\ \A p \in pending' : PendingOK(p)'
         /\ HeldRelations'
<1>1. /\ env \in Envelope /\ env.scope \in Scope
      /\ \A b \in broader[env.scope] : tenant[b] = tenant[env.scope]
      /\ Grows(entities, entities') /\ Keeps(entities, entities')
      /\ DOMAIN mentions' = DOMAIN mentions \cup Ids(env)
      /\ published' = published /\ relations \subseteq relations'
  BY CommitTable, EnvelopeAssumption, TenantAssumption DEF Commits, Grows
<1>2. \A r \in relations : RelationOK(r)'
  BY <1>1, AddedRows
<1>3. ASSUME NEW r \in Bound(env, made)
      PROVE  RelationOK(Relation(env.scope, Made(env, made, r.from).ref,
                                 Made(env, made, r.to).ref))'
  <2>1. r \in env.relations /\ Made(env, made, r.from).ref # NoRef
        /\ Made(env, made, r.to).ref # NoRef
    BY <1>3 DEF Bound
  <2>2. PICK i, j \in DOMAIN env.entities :
          /\ Made(env, made, r.from) = made[i] /\ Made(env, made, r.to) = made[j]
    BY <2>1, MadeIs
  <2>3. /\ made[i].ref \in DOMAIN entities' /\ entities'[made[i].ref].scope \in broader[env.scope]
        /\ made[j].ref \in DOMAIN entities' /\ entities'[made[j].ref].scope \in broader[env.scope]
    BY <2>1, <2>2, DecisionReads
  <2>4. QED
    BY <1>1, <2>2, <2>3 DEF RelationOK, Relation
<1>4. ASSUME NEW r \in env.relations \ Bound(env, made)
      PROVE  PendingOK(Held(env, r))' /\ HeldOK(Held(env, r))'
  <2> DEFINE p == Held(env, r)
  <2>1. PICK i, j \in DOMAIN env.entities :
          /\ env.entities[i].name = r.from /\ Made(env, made, r.from) = made[i]
          /\ env.entities[j].name = r.to /\ Made(env, made, r.to) = made[j]
    BY <1>4, MadeIs
  <2>2. made[i].ref = NoRef \/ made[j].ref = NoRef
    BY <1>4, <2>1 DEF Bound
  <2>3. /\ p.scope = env.scope /\ p.from = MentionId(env, r.from) /\ p.to = MentionId(env, r.to)
        /\ p.status = "PENDING"
        /\ p = [scope |-> p.scope, from |-> p.from, to |-> p.to, status |-> p.status]
    BY DEF Held
  <2> HIDE DEF p
  <2>4. p.from \in DOMAIN mentions' /\ p.to \in DOMAIN mentions'
    BY <1>1, <2>1, <2>3 DEF Ids
  <2>5. mentions'[p.from].ref = made[i].ref /\ mentions'[p.to].ref = made[j].ref
    <3>1. \A k \in DOMAIN env.entities :
            mentions'[MentionId(env, env.entities[k].name)]
              = MentionRow(Tables(env, made)[k], env.entities[k], made[k])
      BY DEF Commits
    <3>2. \A ents, cand, d : MentionRow(ents, cand, d).ref = d.ref
      BY DEF MentionRow
    <3>3. QED
      BY <2>1, <2>3, <3>1, <3>2
  <2>6. p.from[1] = env.scope /\ p.to[1] = env.scope
    BY <2>3, MentionIds
  <2>7. PendingOK(p)'
    BY <2>3, <2>4, <2>6 DEF PendingOK
  <2>8. HeldOK(p)'
    BY <2>2, <2>3, <2>5 DEF HeldOK
  <2>9. QED
    BY <2>7, <2>8 DEF p
<1>5. ASSUME NEW p \in pending PROVE PendingOK(p)' /\ HeldOK(p)'
  <2>1. PendingOK(p) /\ HeldOK(p)
    BY HeldRelationsIs DEF IInv
  <2>2. mentions'[p.from] = mentions[p.from] /\ mentions'[p.to] = mentions[p.to]
    BY <2>1 DEF PendingOK, Commits
  <2>3. PendingOK(p)'
    BY <1>1, <2>1 DEF PendingOK
  <2>4. HeldOK(p)'
    BY <1>1, <2>1, <2>2, HeldKept DEF IInv
  <2>5. QED
    BY <2>3, <2>4
<1>6. /\ relations' = relations \cup
           {Relation(env.scope, Made(env, made, r.from).ref, Made(env, made, r.to).ref) :
              r \in Bound(env, made)}
      /\ pending' = pending \cup {Held(env, r) : r \in env.relations \ Bound(env, made)}
  BY DEF Commits
<1>7. \A r \in relations' : RelationOK(r)'
  BY <1>2, <1>3, <1>6
<1>8. \A p \in pending' : PendingOK(p)' /\ HeldOK(p)'
  BY <1>4, <1>5, <1>6
<1>9. QED
  BY <1>7, <1>8, HeldRelationsIs

LEMMA CommitKeeps ==
  ASSUME IInv, NEW c \in Caller, Commit(c)
  PROVE  IInv'
<1>1. PICK env, made : Commits(c, env, made)
  BY CommitIs
<1>2. /\ TableOK(entities', DOMAIN mentions') /\ Grows(entities, entities')
      /\ Keeps(entities, entities') /\ UNCHANGED <<published, decisions>>
  BY <1>1, CommitTable DEF Grows, Commits
<1>3. published' \subseteq DOMAIN entities' /\ Ranked(entities') /\ MergesStay(entities')
  BY <1>2, AddedRows
<1>4. CallsOK'
  <2>1. call' = [call EXCEPT ![c] = Idle]
    BY <1>1 DEF Commits
  <2>2. DOMAIN call' = Caller /\ \A d \in Caller : call'[d] \in {call[d], Idle}
    BY <2>1 DEF IInv, CallsOK
  <2>3. QED
    BY <1>2, <2>2, CallsKept DEF IInv
<1>5. SurvivorAnswers'
  BY <1>2, AnswersKept, SurvivorAnswersIs DEF IInv
<1>6. QED
  BY <1>1, <1>2, <1>3, <1>4, <1>5, CommitMentions, CommitPromotions, CommitRelations DEF IInv

-----------------------------------------------------------------------------
(* The decisions of humans.                                                 *)

\* unionIdentityEvidence only adds names.
LEMMA EvidenceRow ==
  ASSUME NEW row, IsRow(row), NEW a, NEW e
  PROVE  LET new == WithEvidence(row, a, e)
         IN  /\ Kept(row, new) /\ new.superseded = row.superseded
             /\ new.aliases = row.aliases \cup a
<1> DEFINE more == row.aliases \cup a
           refs == row.externalRefs \cup e
           new == Updated(row, row.summary, more, refs, row.superseded)
<1>1. new = WithEvidence(row, a, e)
  <2>1. DOMAIN row = Columns /\ row = [k \in DOMAIN row |-> row[k]]
    BY RowColumns
  <2>2. QED
    BY <2>1 DEF WithEvidence, Updated, Columns
<1>2. /\ IsRow(new)
      /\ new.scope = row.scope /\ new.name = row.name /\ new.type = row.type
      /\ new.title = row.title /\ new.norm = row.norm /\ new.origin = row.origin
      /\ new.summary = row.summary /\ new.aliases = more /\ new.externalRefs = refs
      /\ new.superseded = row.superseded
  <2>1. \A s1, a1, e1, u1 :
          LET x == Updated(row, s1, a1, e1, u1)
          IN  /\ IsRow(x)
              /\ x.scope = row.scope /\ x.name = row.name /\ x.type = row.type
              /\ x.title = row.title /\ x.norm = row.norm /\ x.origin = row.origin
              /\ x.summary = s1 /\ x.aliases = a1 /\ x.externalRefs = e1
              /\ x.superseded = u1
    BY UpdatedRow
  <2> HIDE DEF more, refs
  <2>2. QED BY <2>1
<1> HIDE DEF new
<1>3. QED
  BY <1>1, <1>2 DEF Kept

\* A table whose rows are only written again is as good as before.
LEMMA RowsKept ==
  ASSUME NEW e1, NEW ids, TableOK(e1, ids), NEW e2, DOMAIN e2 = DOMAIN e1, Keeps(e1, e2),
         \A r \in DOMAIN e1 : /\ e2[r].aliases \subseteq Alias
                              /\ e2[r].superseded \in DOMAIN e1 \cup {NoRef}
  PROVE  TableOK(e2, ids)
<1>1. \A r \in DOMAIN e1 :
        /\ IsRow(e2[r]) /\ e2[r].scope = e1[r].scope /\ e2[r].name = e1[r].name
        /\ e2[r].type = e1[r].type /\ e2[r].norm = e1[r].norm /\ e2[r].origin = e1[r].origin
  BY DEF Keeps, Kept
<1>2. ASSUME NEW r \in DOMAIN e2 PROVE RowOK(e2, ids, r)
  <2>1. RowOK(e1, ids, r)
    BY <1>2 DEF TableOK
  <2>2. QED
    BY <1>1, <1>2, <2>1 DEF RowOK
<1>3. KeysUnique(e2)
  BY <1>1 DEF TableOK, KeysUnique
<1>4. RefsTell(e2)
  BY <1>1 DEF TableOK, RefsTell
<1>5. QED
  BY <1>2, <1>3, <1>4 DEF TableOK

LEMMA BindGrows ==
  ASSUME IInv, NEW s \in Scope, NEW m \in DOMAIN mentions, NEW r \in DOMAIN entities, Bind(s, m, r)
  PROVE  /\ Grows(entities, entities') /\ DOMAIN entities' = DOMAIN entities
         /\ TableOK(entities', DOMAIN mentions')
         /\ \A e \in DOMAIN entities : Survivor(entities', e) = Survivor(entities, e)
<1> DEFINE row == WithEvidence(entities[r], {MentionKey(m)}, {})
<1>1. entities' = [entities EXCEPT ![r] = row] /\ DOMAIN mentions' = DOMAIN mentions
  BY DEF Bind
<1>2. /\ Kept(entities[r], row) /\ row.superseded = entities[r].superseded
      /\ row.aliases = entities[r].aliases \cup {MentionKey(m)}
  BY EvidenceRow DEF IInv, TableOK, RowOK
<1> HIDE DEF row
<1>3. MentionKey(m) \in Alias
  BY DEF IInv, MentionOK, MentionKey, Key, Alias
<1>4. /\ DOMAIN entities' = DOMAIN entities /\ entities'[r] = row
      /\ \A e \in DOMAIN entities : e # r => entities'[e] = entities[e]
  BY <1>1
<1>5. ASSUME NEW e \in DOMAIN entities
      PROVE  /\ Kept(entities[e], entities'[e])
             /\ entities'[e].superseded = entities[e].superseded
             /\ entities[e].aliases \subseteq Alias /\ entities'[e].aliases \subseteq Alias
             /\ entities[e].superseded \in DOMAIN entities \cup {NoRef}
  <2>1. RowOK(entities, DOMAIN mentions, e)
    BY DEF IInv, TableOK
  <2>2. Kept(entities[e], entities[e])
    BY <2>1 DEF RowOK, Kept
  <2>3. QED
    BY <1>2, <1>3, <1>4, <2>1, <2>2 DEF RowOK
<1>6. Grows(entities, entities')
  BY <1>4, <1>5 DEF Grows, Keeps, NoMerge
<1>7. TableOK(entities', DOMAIN mentions')
  BY <1>1, <1>4, <1>5, <1>6, RowsKept DEF IInv, Grows
<1>8. \A e \in DOMAIN entities : Survivor(entities', e) = Survivor(entities, e)
  BY <1>6, SurvivorNoMerge DEF Grows, IInv
<1>9. QED
  BY <1>4, <1>6, <1>7, <1>8

LEMMA BindMentions ==
  ASSUME IInv, NEW s \in Scope, NEW m \in DOMAIN mentions, NEW r \in DOMAIN entities, Bind(s, m, r)
  PROVE  /\ DOMAIN mentions' = DOMAIN mentions
         /\ \A x \in DOMAIN mentions : x # m => mentions'[x] = mentions[x]
         /\ mentions[m].ref = NoRef
         /\ mentions'[m].ref = r /\ mentions'[m].outcome = "MATCHED"
         /\ mentions'[m].strategy = "HUMAN"
         /\ \A x \in DOMAIN mentions' : MentionOK(x)'
<1> DEFINE old == mentions[m]
           row == HumanDecision(old, r)
<1>1. mentions' = [mentions EXCEPT ![m] = row] /\ mentions[m].ref = NoRef
  BY DEF Bind, Unresolved
<1>2. MentionOK(m)
  BY DEF IInv
<1>3. /\ row.ref = r /\ row.outcome = "MATCHED" /\ row.strategy = "HUMAN"
      /\ row = [ref |-> row.ref, outcome |-> row.outcome, strategy |-> row.strategy,
                diffs |-> row.diffs]
  <2>1. DOMAIN old = {"ref", "outcome", "strategy", "diffs"}
    BY <1>2 DEF MentionOK
  <2>2. row.ref = r /\ row.outcome = "MATCHED" /\ row.strategy = "HUMAN"
    BY <2>1 DEF HumanDecision
  <2>3. DOMAIN row = {"ref", "outcome", "strategy", "diffs"} /\ row = [k \in DOMAIN row |-> row[k]]
    BY <2>1 DEF HumanDecision
  <2> HIDE DEF row
  <2>4. row = [ref |-> row.ref, outcome |-> row.outcome, strategy |-> row.strategy,
               diffs |-> row.diffs]
    BY <2>3
  <2>5. QED
    BY <2>2, <2>4
<1>4. /\ Visible(r) /\ entities[r].scope \in broader[m[1]] /\ UNCHANGED published
  BY DEF Bind, Within, MentionScope
<1>5. r # NoRef
  BY RefsAreNoRef DEF IInv, TableOK
<1> HIDE DEF row, old
<1>6. /\ DOMAIN mentions' = DOMAIN mentions
      /\ \A x \in DOMAIN mentions : x # m => mentions'[x] = mentions[x]
      /\ mentions'[m] = row
  BY <1>1
<1>7. Keeps(entities, entities')
  BY BindGrows DEF Grows
<1>8. ASSUME NEW x \in DOMAIN mentions, x # m PROVE MentionOK(x)'
  BY <1>4, <1>6, <1>7, <1>8, MentionKept DEF IInv
<1>9. MentionOK(m)'
  <2>1. r \in DOMAIN entities' /\ entities'[r].scope = entities[r].scope
        /\ entities'[r].origin = entities[r].origin
    BY <1>7 DEF Keeps, Kept
  <2>2. row.outcome \in Outcome /\ row.strategy \in Strategy
    BY <1>3 DEF Outcome, Strategy
  <2>3. QED
    BY <1>2, <1>3, <1>4, <1>5, <1>6, <2>1, <2>2 DEF MentionOK, Visible
<1>10. QED
  BY <1>1, <1>3, <1>6, <1>8, <1>9

LEMMA BindPromotions ==
  ASSUME IInv, NEW s \in Scope, NEW m \in DOMAIN mentions, NEW r \in DOMAIN entities, Bind(s, m, r)
  PROVE  MentionsOfPromotions' /\ (\A p \in promotions' : PromotionOK(p)) /\ MatchesAgree'
<1>1. promotions' = promotions /\ DOMAIN mentions' = DOMAIN mentions
  BY BindMentions DEF Bind
<1>2. MentionsOfPromotions' /\ \A p \in promotions' : PromotionOK(p)
  BY <1>1 DEF IInv, MentionsOfPromotions
<1>3. ASSUME NEW p \in promotions, NEW i \in DOMAIN p.mappings PROVE Agrees(p, i)'
  <2> DEFINE x == <<p.scope, p.key, p.candidate[i].name>>
  <2>1. x \in DOMAIN mentions /\ MentionOK(x) /\ Agrees(p, i)
    BY MentionOfCandidate, MatchesAgreeIs DEF IInv
  <2>2. CASE x = m
    <3>1. mentions[m].ref = NoRef /\ mentions'[m].strategy = "HUMAN"
      BY BindMentions
    <3>2. p.mappings[i].ref = NoRef
      BY <2>1, <2>2, <3>1 DEF Agrees
    <3>3. QED
      BY <2>2, <3>1, <3>2, StringStrategies DEF Agrees, StringStrategy
  <2>3. CASE x # m
    <3> HIDE DEF x
    <3>1. mentions'[x] = mentions[x] /\ Keeps(entities, entities')
      BY <2>1, <2>3, BindMentions, BindGrows DEF Grows
    <3>2. QED
      BY <2>1, <3>1, AgreesKept DEF x
  <2>4. QED
    BY <2>2, <2>3
<1>4. QED
  BY <1>1, <1>2, <1>3, MatchesAgreeIs

LEMMA BindRelations ==
  ASSUME IInv, NEW s \in Scope, NEW m \in DOMAIN mentions, NEW r \in DOMAIN entities, Bind(s, m, r)
  PROVE  /\ \A q \in relations' : RelationOK(q)'
         /\ \A p \in pending' : PendingOK(p)'
         /\ HeldRelations'
<1> DEFINE now == Materialized(m, mentions')
           rel(p) == Relation(p.scope, Survivor(entities, mentions'[p.from].ref),
                                       Survivor(entities, mentions'[p.to].ref))
           set(p) == IF p \in now THEN [p EXCEPT !.status = "MATERIALIZED"] ELSE p
<1>1. /\ relations' = relations \cup {rel(p) : p \in now}
      /\ pending' = {set(p) : p \in pending}
      /\ published' = published
  BY DEF Bind
<1>2. /\ Grows(entities, entities') /\ DOMAIN entities' = DOMAIN entities
      /\ \A e \in DOMAIN entities : Survivor(entities', e) = Survivor(entities, e)
      /\ \A e \in DOMAIN entities : entities'[e].scope = entities[e].scope
  BY BindGrows DEF Grows, Keeps, Kept
<1>3. /\ DOMAIN mentions' = DOMAIN mentions
      /\ \A x \in DOMAIN mentions : x # m => mentions'[x] = mentions[x]
      /\ mentions[m].ref = NoRef
      /\ \A x \in DOMAIN mentions : MentionOK(x)'
  BY BindMentions
<1>4. \A p \in now : /\ p \in pending /\ p.status = "PENDING"
                     /\ mentions'[p.from].ref # NoRef /\ mentions'[p.to].ref # NoRef
  BY DEF Materialized
<1>5. \A p \in pending : /\ p \notin now /\ p.status = "PENDING"
                         /\ m \in {p.from, p.to}
                         => mentions'[p.from].ref = NoRef \/ mentions'[p.to].ref = NoRef
  BY DEF Materialized
<1> HIDE DEF now
<1>6. ASSUME NEW x \in DOMAIN mentions, mentions'[x].ref # NoRef
      PROVE  LET e == Survivor(entities, mentions'[x].ref)
             IN  e \in DOMAIN entities /\ tenant[entities[e].scope] = tenant[x[1]]
  <2> DEFINE f == mentions'[x].ref
  <2>1. f \in DOMAIN entities /\ entities[f].scope \in broader[x[1]] /\ x[1] \in Scope
    BY <1>2, <1>3, <1>6 DEF MentionOK
  <2>2. tenant[entities[f].scope] = tenant[x[1]]
    BY <2>1, TenantAssumption
  <2> HIDE DEF f
  <2>3. Survivor(entities, f) \in DOMAIN entities
        /\ tenant[entities[Survivor(entities, f)].scope] = tenant[entities[f].scope]
    BY <2>1, SurvivorIsHead, SurvivorStays DEF IInv
  <2>4. QED
    BY <2>2, <2>3 DEF f
<1>7. \A p \in pending : PendingOK(p) /\ HeldOK(p)
  BY HeldRelationsIs DEF IInv
<1>8. ASSUME NEW p \in now, NEW q, q = rel(p) PROVE RelationOK(q)'
  <2>1. /\ p.from \in DOMAIN mentions /\ p.to \in DOMAIN mentions
        /\ p.scope = p.from[1] /\ p.scope = p.to[1]
    BY <1>4, <1>7 DEF PendingOK
  <2> DEFINE a == Survivor(entities, mentions'[p.from].ref)
             b == Survivor(entities, mentions'[p.to].ref)
  <2>2. /\ a \in DOMAIN entities /\ tenant[entities[a].scope] = tenant[p.scope]
        /\ b \in DOMAIN entities /\ tenant[entities[b].scope] = tenant[p.scope]
    BY <1>4, <1>6, <2>1
  <2>3. p.scope \in Scope
    BY <2>1 DEF IInv, MentionOK
  <2> HIDE DEF a, b
  <2>4. q = Relation(p.scope, a, b)
    BY <1>8 DEF a, b
  <2>5. QED
    BY <1>2, <2>2, <2>3, <2>4 DEF RelationOK, Relation
<1>9. \A q \in relations : RelationOK(q)'
  BY <1>1, <1>2, AddedRows
<1>10. ASSUME NEW p \in now, NEW x, x = set(p) PROVE PendingOK(x)' /\ HeldOK(x)'
  <2>1. PendingOK(p) /\ p \in pending
    BY <1>4, <1>7
  <2>2. x = [p EXCEPT !.status = "MATERIALIZED"]
    BY <1>10
  <2>3. x.scope = p.scope /\ x.from = p.from /\ x.to = p.to /\ x.status = "MATERIALIZED"
        /\ x = [scope |-> x.scope, from |-> x.from, to |-> x.to, status |-> x.status]
    <3>1. DOMAIN p = {"scope", "from", "to", "status"}
      BY <2>1 DEF PendingOK
    <3>2. DOMAIN x = {"scope", "from", "to", "status"} /\ x = [k \in DOMAIN x |-> x[k]]
      BY <2>2, <3>1
    <3>3. QED
      BY <2>2, <3>1, <3>2
  <2>4. rel(p) \in relations'
    BY <1>1
  <2> HIDE DEF set
  <2>5. PendingOK(x)'
    BY <1>3, <2>1, <2>3 DEF PendingOK
  <2>6. /\ mentions'[p.from].ref \in DOMAIN entities /\ mentions'[p.to].ref \in DOMAIN entities
    BY <1>2, <1>3, <1>4, <2>1 DEF PendingOK, MentionOK
  <2>7. HeldOK(x)'
    BY <1>2, <1>4, <2>3, <2>4, <2>6 DEF HeldOK
  <2>8. QED
    BY <2>5, <2>7
<1>11. ASSUME NEW p \in pending, p \notin now PROVE set(p) = p /\ PendingOK(p)' /\ HeldOK(p)'
  <2>1. set(p) = p
    BY <1>11
  <2>2. PendingOK(p) /\ HeldOK(p)
    BY <1>7
  <2> HIDE DEF set
  <2>3. PendingOK(p)'
    BY <1>3, <2>2 DEF PendingOK
  <2>4. CASE m \notin {p.from, p.to}
    <3>1. mentions'[p.from] = mentions[p.from] /\ mentions'[p.to] = mentions[p.to]
      BY <1>3, <2>2, <2>4 DEF PendingOK
    <3>2. relations \subseteq relations'
      BY <1>1
    <3>3. HeldOK(p)'
      BY <1>2, <2>2, <3>1, <3>2, HeldKept DEF IInv
    <3>4. QED
      BY <2>1, <2>3, <3>3
  <2>5. CASE m \in {p.from, p.to}
    <3>1. p.status = "PENDING"
      BY <1>3, <2>2, <2>5 DEF HeldOK
    <3>2. mentions'[p.from].ref = NoRef \/ mentions'[p.to].ref = NoRef
      BY <1>5, <1>11, <2>5, <3>1
    <3>3. HeldOK(p)'
      BY <3>1, <3>2 DEF HeldOK
    <3>4. QED
      BY <2>1, <2>3, <3>3
  <2>6. QED
    BY <2>4, <2>5
<1>12. \A q \in relations' : RelationOK(q)'
  <2> HIDE DEF rel
  <2>1. QED BY <1>1, <1>8, <1>9
<1>13. \A p \in pending' : PendingOK(p)' /\ HeldOK(p)'
  <2> HIDE DEF set
  <2>1. QED BY <1>1, <1>10, <1>11
<1>14. QED
  BY <1>12, <1>13, HeldRelationsIs

LEMMA BindKeeps ==
  ASSUME IInv, NEW s \in Scope, NEW m \in DOMAIN mentions, NEW r \in DOMAIN entities, Bind(s, m, r)
  PROVE  IInv'
<1>1. /\ UNCHANGED <<published, promotions, call>> /\ decisions \subseteq decisions'
  BY DEF Bind
<1>2. Grows(entities, entities') /\ TableOK(entities', DOMAIN mentions')
  BY BindGrows
<1>3. published' \subseteq DOMAIN entities' /\ Ranked(entities') /\ MergesStay(entities')
  BY <1>1, <1>2, AddedRows
<1>4. CallsOK'
  BY <1>1, <1>2, CallsKept DEF IInv, CallsOK, Grows
<1>5. SurvivorAnswers'
  BY <1>1, <1>2, AnswersKept, SurvivorAnswersIs DEF IInv
<1>6. QED
  BY <1>2, <1>3, <1>4, <1>5, BindMentions, BindPromotions, BindRelations DEF IInv

\* What a merge does to the table.
LEMMA MergeTable ==
  ASSUME IInv, NEW s \in Scope, NEW v \in DOMAIN entities, NEW l \in DOMAIN entities,
         Merge(s, v, l)
  PROVE  /\ Merged(entities, entities', v, l) /\ Keeps(entities, entities')
         /\ TableOK(entities', DOMAIN mentions')
         /\ entities[l].aliases \cup beforeHash[entities[l].norm.base] \subseteq entities'[v].aliases
<1> DEFINE old == entities[l]
           a == Absorb(entities[v], old)
           b == Updated(old, old.summary, old.aliases, old.externalRefs, v)
           names == beforeHash[old.norm.base] \cup old.aliases
<1>1. /\ v # l /\ entities[v].superseded = NoRef /\ old.superseded = NoRef
      /\ old.origin # "pipeline" /\ mentions' = mentions
  BY DEF Merge, Mergeable, ValidMerge
<1>2. \A e \in DOMAIN entities : RowOK(entities, DOMAIN mentions, e)
  BY DEF IInv, TableOK
<1>3. /\ IsRow(old) /\ old.norm.base \in Key /\ old.aliases \subseteq Alias
      /\ IsRow(entities[v]) /\ entities[v].aliases \subseteq Alias
  BY <1>1, <1>2 DEF RowOK
<1>4. /\ Kept(entities[v], a) /\ a.superseded = NoRef
      /\ a.aliases = entities[v].aliases \cup names
  BY <1>1, <1>3, EvidenceRow DEF Absorb, Alias
<1>5. b = [old EXCEPT !.superseded = v]
  <2>1. DOMAIN old = Columns /\ old = [k \in DOMAIN old |-> old[k]]
    BY <1>3, RowColumns
  <2>2. QED
    BY <2>1 DEF Updated, Columns
<1>6. /\ IsRow(b)
      /\ b.scope = old.scope /\ b.name = old.name /\ b.type = old.type
      /\ b.title = old.title /\ b.norm = old.norm /\ b.origin = old.origin
      /\ b.summary = old.summary /\ b.aliases = old.aliases
      /\ b.externalRefs = old.externalRefs /\ b.superseded = v
  BY <1>3, UpdatedRow
<1> HIDE DEF b
<1>7. Kept(old, b)
  BY <1>6 DEF Kept
<1> HIDE DEF a
<1>8. entities' = [entities EXCEPT ![l].superseded = v, ![v] = Absorb(@, entities[l])]
  BY DEF Merge
<1>9. /\ DOMAIN entities' = DOMAIN entities /\ entities'[v] = a /\ entities'[l] = b
      /\ \A e \in DOMAIN entities : e # v /\ e # l => entities'[e] = entities[e]
  BY <1>1, <1>5, <1>8 DEF a
<1>10. ASSUME NEW e \in DOMAIN entities
       PROVE  /\ Kept(entities[e], entities'[e])
              /\ entities'[e].aliases \subseteq Alias
              /\ entities'[e].superseded \in DOMAIN entities \cup {NoRef}
  <2>1. CASE e = v
    <3>1. names \subseteq Alias
      BY <1>3 DEF Alias
    <3>2. QED
      BY <1>3, <1>4, <1>9, <2>1, <3>1
  <2>2. CASE e = l
    BY <1>3, <1>6, <1>7, <1>9, <2>2
  <2>3. CASE e # v /\ e # l
    <3>1. RowOK(entities, DOMAIN mentions, e) /\ entities'[e] = entities[e]
      BY <1>2, <1>9, <2>3
    <3>2. QED
      BY <3>1 DEF RowOK, Kept
  <2>4. QED
    BY <2>1, <2>2, <2>3
<1>11. Keeps(entities, entities')
  BY <1>9, <1>10 DEF Keeps
<1>12. TableOK(entities', DOMAIN mentions')
  BY <1>1, <1>9, <1>10, <1>11, RowsKept DEF IInv
<1>13. v # NoRef
  BY RefsAreNoRef DEF IInv, TableOK
<1>14. Merged(entities, entities', v, l)
  BY <1>1, <1>4, <1>6, <1>9, <1>13 DEF Merged
<1>15. QED
  BY <1>4, <1>9, <1>11, <1>12, <1>14

LEMMA MergeAnswers ==
  ASSUME IInv, NEW s \in Scope, NEW v \in DOMAIN entities, NEW l \in DOMAIN entities,
         Merge(s, v, l)
  PROVE  SurvivorAnswers'
<1>1. /\ Merged(entities, entities', v, l) /\ Keeps(entities, entities')
      /\ entities[l].aliases \cup beforeHash[entities[l].norm.base] \subseteq entities'[v].aliases
  BY MergeTable
<1>2. /\ published' = published /\ Shown(entities, published, v)
      /\ decisions' = decisions \cup {[action |-> "MERGE", what |-> l, ref |-> v]}
  BY DEF Merge, Mergeable, Visible, Shown
<1>3. AllAnswered(entities, published, decisions)
  BY SurvivorAnswersIs DEF IInv
<1>4. \A e \in DOMAIN entities :
        Survivor(entities', e) = IF Survivor(entities, e) = l THEN v ELSE Survivor(entities, e)
  BY <1>1, SurvivorMerged DEF IInv
<1>5. /\ DOMAIN entities' = DOMAIN entities
      /\ entities'[v].superseded = NoRef /\ entities'[l].superseded = v
      /\ \A e \in DOMAIN entities : e # l => entities'[e].superseded = entities[e].superseded
      /\ entities[l].superseded = NoRef
  BY <1>1 DEF Merged
<1>6. \A e \in DOMAIN entities :
        /\ entities'[e].origin = entities[e].origin /\ entities'[e].norm = entities[e].norm
        /\ entities[e].aliases \subseteq entities'[e].aliases
  BY <1>1 DEF Keeps, Kept
<1>7. ASSUME NEW e \in DOMAIN entities, entities'[e].superseded # NoRef
      PROVE  Answered(entities', published', decisions', e)
  <2>1. CASE e = l
    <3>1. Survivor(entities', l) = v
      BY <1>4, <1>5, SurvivorIsHead DEF IInv
    <3>2. QED
      BY <1>1, <1>2, <1>5, <1>6, <2>1, <3>1 DEF Answered, Shown
  <2>2. CASE e # l
    <3> DEFINE t == Survivor(entities, e)
    <3>1. entities[e].superseded # NoRef /\ entities'[e].superseded = entities[e].superseded
      BY <1>5, <1>7, <2>2
    <3>2. /\ t \in DOMAIN entities /\ entities[t].superseded = NoRef
          /\ Shown(entities, published, t)
          /\ beforeHash[entities[e].norm.base] \subseteq entities[t].aliases
          /\ [action |-> "MERGE", what |-> e, ref |-> entities[e].superseded] \in decisions
      BY <1>3, <3>1, SurvivorIsHead DEF IInv, AllAnswered, Answered
    <3>3. Survivor(entities', e) = IF t = l THEN v ELSE t
      BY <1>4
    <3> HIDE DEF t
    <3>4. CASE t = l
      BY <1>1, <1>2, <1>5, <1>6, <3>1, <3>2, <3>3, <3>4 DEF Answered, Shown
    <3>5. CASE t # l
      BY <1>2, <1>5, <1>6, <3>1, <3>2, <3>3, <3>5 DEF Answered, Shown
    <3>6. QED
      BY <3>4, <3>5
  <2>3. QED
    BY <2>1, <2>2
<1>8. QED
  BY <1>5, <1>7, SurvivorAnswersIs DEF AllAnswered

LEMMA MergeRelations ==
  ASSUME IInv, NEW s \in Scope, NEW v \in DOMAIN entities, NEW l \in DOMAIN entities,
         Merge(s, v, l)
  PROVE  /\ MergesStay(entities')
         /\ \A q \in relations' : RelationOK(q)'
         /\ \A p \in pending' : PendingOK(p)'
         /\ HeldRelations'
<1>1. Merged(entities, entities', v, l) /\ Keeps(entities, entities')
  BY MergeTable
<1>2. /\ relations' = {Repointed(q, v, l) : q \in relations}
      /\ pending' = pending /\ mentions' = mentions
      /\ entities[v].scope \in broader[s] /\ entities[l].scope \in broader[s]
  BY DEF Merge, Mergeable, Within
<1>3. tenant[entities[v].scope] = tenant[entities[l].scope]
  BY <1>2, TenantAssumption
<1>4. /\ DOMAIN entities' = DOMAIN entities /\ entities'[l].superseded = v
      /\ \A e \in DOMAIN entities : e # l => entities'[e].superseded = entities[e].superseded
      /\ \A e \in DOMAIN entities : entities'[e].scope = entities[e].scope
  BY <1>1 DEF Merged, Keeps, Kept
<1>5. MergesStay(entities')
  <2>1. SUFFICES ASSUME NEW e \in DOMAIN entities, entities'[e].superseded # NoRef
                 PROVE  tenant[entities'[entities'[e].superseded].scope]
                          = tenant[entities'[e].scope]
    BY <1>4 DEF MergesStay
  <2>2. CASE e = l
    BY <1>3, <1>4, <2>2
  <2>3. CASE e # l
    <3>1. entities[e].superseded # NoRef /\ entities'[e].superseded = entities[e].superseded
      BY <1>4, <2>1, <2>3
    <3>2. entities[e].superseded \in DOMAIN entities
      BY <3>1 DEF IInv, TableOK, RowOK
    <3>3. tenant[entities[entities[e].superseded].scope] = tenant[entities[e].scope]
      BY <3>1 DEF IInv, MergesStay
    <3>4. QED
      BY <1>4, <3>1, <3>2, <3>3
  <2>4. QED
    BY <2>2, <2>3
<1>6. ASSUME NEW q \in relations PROVE RelationOK(Repointed(q, v, l))'
  <2>1. RelationOK(q)
    BY DEF IInv
  <2> DEFINE x == Repointed(q, v, l)
  <2>2. /\ x.scope = q.scope
        /\ x.from = IF q.from = l THEN v ELSE q.from
        /\ x.to = IF q.to = l THEN v ELSE q.to
    BY DEF Repointed, Relation
  <2> HIDE DEF x
  <2>3. RelationOK(x)'
    BY <1>3, <1>4, <2>1, <2>2 DEF RelationOK
  <2>4. QED
    BY <2>3 DEF x
<1>7. \A p \in pending : PendingOK(p)'
  BY <1>2 DEF IInv, PendingOK
<1>8. \A e \in DOMAIN entities :
        Survivor(entities', e) = IF Survivor(entities, e) = l THEN v ELSE Survivor(entities, e)
  BY <1>1, SurvivorMerged DEF IInv
<1>9. ASSUME NEW p \in pending PROVE HeldOK(p)'
  <2> DEFINE from == mentions[p.from].ref
             to == mentions[p.to].ref
  <2>1. HeldOK(p) /\ PendingOK(p)
    BY HeldRelationsIs DEF IInv
  <2>2. p.status = "PENDING" <=> NoRef \in {from, to}
    BY <2>1 DEF HeldOK
  <2>3. ASSUME p.status = "MATERIALIZED"
        PROVE  Relation(p.scope, Survivor(entities', from), Survivor(entities', to)) \in relations'
    <3> DEFINE q == Relation(p.scope, Survivor(entities, from), Survivor(entities, to))
    <3>1. from # NoRef /\ to # NoRef
      BY <2>2, <2>3
    <3>2. from \in DOMAIN entities /\ to \in DOMAIN entities
      BY <2>1, <3>1 DEF IInv, PendingOK, MentionOK
    <3>3. q \in relations
      BY <2>1, <2>3 DEF HeldOK
    <3>4. Repointed(q, v, l) = Relation(p.scope, Survivor(entities', from), Survivor(entities', to))
      BY <1>8, <3>2 DEF Repointed, Relation
    <3> HIDE DEF q, from, to
    <3>5. QED
      BY <1>2, <3>3, <3>4
  <2>4. QED
    BY <1>2, <2>2, <2>3 DEF HeldOK
<1>10. QED
  BY <1>2, <1>5, <1>6, <1>7, <1>9, HeldRelationsIs

LEMMA MergeKeeps ==
  ASSUME IInv, NEW s \in Scope, NEW v \in DOMAIN entities, NEW l \in DOMAIN entities,
         Merge(s, v, l)
  PROVE  IInv'
<1>1. UNCHANGED <<published, mentions, promotions, call>>
  BY DEF Merge
<1>2. /\ Merged(entities, entities', v, l) /\ Keeps(entities, entities')
      /\ TableOK(entities', DOMAIN mentions')
  BY MergeTable
<1>3. published' \subseteq DOMAIN entities' /\ Ranked(entities')
  BY <1>1, <1>2, RankedMerged DEF IInv, Merged
<1>4. CallsOK'
  BY <1>1, <1>2, CallsKept DEF IInv, CallsOK
<1>5. \A m \in DOMAIN mentions' : MentionOK(m)'
  BY <1>1, <1>2, MentionKept DEF IInv
<1>6. MentionsOfPromotions' /\ \A p \in promotions' : PromotionOK(p)
  BY <1>1 DEF IInv, MentionsOfPromotions
<1>7. MatchesAgree'
  <2>1. ASSUME NEW p \in promotions, NEW i \in DOMAIN p.mappings PROVE Agrees(p, i)'
    <3> DEFINE m == <<p.scope, p.key, p.candidate[i].name>>
    <3>1. m \in DOMAIN mentions /\ MentionOK(m) /\ Agrees(p, i)
      BY MentionOfCandidate, MatchesAgreeIs DEF IInv
    <3>2. mentions'[m] = mentions[m]
      BY <1>1
    <3> HIDE DEF m
    <3>3. QED
      BY <1>2, <3>1, <3>2, AgreesKept DEF m
  <2>2. QED
    BY <1>1, <2>1, MatchesAgreeIs
<1>8. QED
  BY <1>2, <1>3, <1>4, <1>5, <1>6, <1>7, MergeAnswers, MergeRelations DEF IInv, PromotionOK

-----------------------------------------------------------------------------
(* The invariant.                                                           *)

LEMMA InvInit == Init => IInv
<1> SUFFICES ASSUME Init PROVE IInv
  OBVIOUS
<1> USE DEF Init, EmptyTable
<1>1. DOMAIN entities = {} /\ DOMAIN mentions = {}
  OBVIOUS
<1>2. TableOK(entities, DOMAIN mentions) /\ MergesStay(entities)
  BY <1>1 DEF TableOK, KeysUnique, RefsTell, MergesStay
<1>3. Ranked(entities)
  <2>1. RankedBy(entities, [e \in {} |-> 0], 0)
    BY <1>1 DEF RankedBy
  <2>2. QED
    BY <2>1 DEF Ranked
<1>4. CallsOK
  BY DEF CallsOK
<1>5. MentionsOfPromotions
  BY <1>1 DEF MentionsOfPromotions
<1>6. MatchesAgree /\ SurvivorAnswers /\ HeldRelations
  BY <1>1 DEF MatchesAgree, SurvivorAnswers, HeldRelations
<1>7. QED
  BY <1>1, <1>2, <1>3, <1>4, <1>5, <1>6 DEF IInv

LEMMA InvStep == IInv /\ [Next]_vars => IInv'
<1> SUFFICES ASSUME IInv, [Next]_vars PROVE IInv'
  OBVIOUS
<1>1. ASSUME NEW c \in Caller, Promote(c) PROVE IInv'
  BY <1>1, PromoteKeeps
<1>2. ASSUME NEW c \in Caller, Replay(c) PROVE IInv'
  BY <1>2, ReplayKeeps
<1>3. ASSUME NEW c \in Caller, Commit(c) PROVE IInv'
  BY <1>3, CommitKeeps
<1>4. ASSUME NEW c \in Caller, LoseRace(c) PROVE IInv'
  BY <1>4, LoseRaceKeeps
<1>5. ASSUME NEW c \in Caller, Retry(c) PROVE IInv'
  BY <1>5, RetryKeeps
<1>6. ASSUME NEW s \in Scope, NEW m \in DOMAIN mentions, NEW r \in DOMAIN entities,
             Bind(s, m, r)
      PROVE  IInv'
  BY <1>6, BindKeeps
<1>7. ASSUME NEW s \in Scope, NEW v \in DOMAIN entities, NEW l \in DOMAIN entities,
             Merge(s, v, l)
      PROVE  IInv'
  BY <1>7, MergeKeeps
<1>8. ASSUME NEW r \in DOMAIN Pipeline, PipelineSubmit(r) PROVE IInv'
  BY <1>8, SubmitKeeps
<1>9. ASSUME NEW r \in DOMAIN Pipeline, PipelinePublish(r) PROVE IInv'
  BY <1>9, PublishKeeps
<1>10. CASE UNCHANGED vars
  <2>1. CallsOK'
    BY <1>10 DEF IInv, CallsOK, vars
  <2>2. QED
    BY <1>10, <2>1, InvIfCallsOK DEF vars
<1>11. QED
  BY <1>1, <1>2, <1>3, <1>4, <1>5, <1>6, <1>7, <1>8, <1>9, <1>10 DEF Next

\* The invariant of entity resolution holds in every reachable state.
THEOREM ResolutionInvariant == Spec => []IInv
<1>1. QED
  BY InvInit, InvStep, PTL DEF Spec

-----------------------------------------------------------------------------
(* What follows from it.                                                    *)

\* Rows have the shape of their tables and refs point at rows, whatever the
\* envelopes, scopes, names and pipeline entities.
THEOREM TypeCorrect == Spec => []TypeOK
<1>1. IInv => TypeOK
  <2> SUFFICES ASSUME IInv PROVE TypeOK
    OBVIOUS
  <2>1. DOMAIN entities \subseteq Ref /\ published \subseteq DOMAIN entities
    BY DEF IInv, TableOK
  <2>2. \A r \in DOMAIN entities :
          /\ entities[r].scope \in Scope /\ entities[r].name \in Name
          /\ entities[r].type \in EntityType
          /\ entities[r].aliases \subseteq Alias
          /\ entities[r].superseded \in DOMAIN entities \cup {NoRef}
    BY DEF IInv, TableOK, RowOK
  <2>3. \A m \in DOMAIN mentions :
          /\ mentions[m].ref \in DOMAIN entities \cup {NoRef}
          /\ mentions[m].outcome \in Outcome /\ mentions[m].strategy \in Strategy
          /\ mentions[m].ref = NoRef <=> mentions[m].outcome \notin {"MATCHED", "CREATED"}
    BY DEF IInv, MentionOK
  <2>4. \A r \in relations : r.scope \in Scope /\ {r.from, r.to} \subseteq DOMAIN entities
    BY DEF IInv, RelationOK
  <2>5. \A p \in pending : {p.from, p.to} \subseteq DOMAIN mentions
    BY DEF IInv, PendingOK
  <2>6. \A c \in Caller : call[c].at \in {"idle", "decided", "again"}
    BY DEF IInv, CallsOK, InFlight, Idle
  <2>7. DOMAIN mentions =
          UNION {{<<p.scope, p.key, p.mappings[i].name>> : i \in DOMAIN p.mappings} : p \in promotions}
    BY DEF IInv, MentionsOfPromotions
  <2>8. QED
    BY <2>1, <2>2, <2>3, <2>4, <2>5, <2>6, <2>7 DEF TypeOK
<1>2. QED
  BY <1>1, ResolutionInvariant, PTL

\* However promotions and the pipeline race for a key, no scope holds it twice
\* and no entity is split silently.
THEOREM OneEntityPerKeyAlways == Spec => []OneEntityPerKey
<1>1. IInv => OneEntityPerKey
  <2> SUFFICES ASSUME IInv, NEW a \in DOMAIN entities, NEW b \in DOMAIN entities,
                      a # b, entities[a].scope = entities[b].scope
               PROVE  /\ entities[a].norm # entities[b].norm
                      /\ entities[a].norm.base = entities[b].norm.base =>
                           \E p \in DOMAIN entities :
                             /\ entities[p].scope = entities[a].scope
                             /\ entities[p].norm = PlainKey(entities[a].norm.base)
                             /\ entities[p].origin = "pipeline"
    BY DEF OneEntityPerKey
  <2>1. /\ RowOK(entities, DOMAIN mentions, a) /\ RowOK(entities, DOMAIN mentions, b)
        /\ entities[a].norm # entities[b].norm
    BY DEF IInv, TableOK, KeysUnique
  <2>2. /\ entities[a].norm = [base |-> entities[a].norm.base, mention |-> entities[a].norm.mention]
        /\ entities[b].norm = [base |-> entities[b].norm.base, mention |-> entities[b].norm.mention]
    BY <2>1, RowColumns DEF RowOK
  <2>3. ASSUME entities[a].norm.base = entities[b].norm.base
        PROVE  entities[a].norm.mention # Nothing \/ entities[b].norm.mention # Nothing
    BY <2>1, <2>2, <2>3
  <2>4. QED
    BY <2>1, <2>3 DEF RowOK
<1>2. QED
  BY <1>1, ResolutionInvariant, PTL

\* No rung matches across a type or title, and no answer that was given is
\* taken back, whatever is committed between a lookup and its transaction.
THEOREM MatchesAgreeAlways == Spec => []MatchesAgree
<1>1. IInv => MatchesAgree
  BY DEF IInv
<1>2. QED
  BY <1>1, ResolutionInvariant, PTL

\* No decision, race, merge or read crosses the wall between tenants.
THEOREM TenantWallAlways == Spec => []TenantWall
<1>1. IInv => TenantWall
  <2> SUFFICES ASSUME IInv PROVE TenantWall
    OBVIOUS
  <2>1. \A m \in DOMAIN mentions :
          mentions[m].ref # NoRef => mentions[m].ref \in getEntity(mentions[m].ref, MentionScope(m))
    <3>1. SUFFICES ASSUME NEW m \in DOMAIN mentions, mentions[m].ref # NoRef
                   PROVE  mentions[m].ref \in getEntity(mentions[m].ref, MentionScope(m))
      OBVIOUS
    <3>2. /\ mentions[m].ref \in DOMAIN entities /\ Visible(mentions[m].ref)
          /\ entities[mentions[m].ref].scope \in broader[m[1]]
      BY <3>1 DEF IInv, MentionOK
    <3>3. QED
      BY <3>2 DEF getEntity, Denied, VisibleByRef, VisibleFrom, MentionScope
  <2>2. ASSUME NEW s \in Scope
        PROVE  LET read(r) == getEntity(r, s) \cup UNION {{q.from, q.to} : q \in getRelations(r, s)}
                   seen == (UNION {read(r) : r \in DOMAIN entities}) \cup
                             UNION {search(n, s) : n \in Name}
               IN  /\ \A e \in seen : tenant[entities[e].scope] = tenant[s] /\ Visible(e)
                   /\ \A m \in listUnresolvedMentions(s) : tenant[MentionScope(m)] = tenant[s]
    <3>1. \A b \in broader[s] : tenant[b] = tenant[s]
      BY TenantAssumption
    <3>2. ASSUME NEW r \in DOMAIN entities, NEW e \in getEntity(r, s)
          PROVE  tenant[entities[e].scope] = tenant[s] /\ Visible(e)
      BY <3>1 DEF getEntity, Denied, VisibleByRef, VisibleFrom
    <3>3. ASSUME NEW r \in DOMAIN entities, NEW q \in getRelations(r, s), NEW e \in {q.from, q.to}
          PROVE  tenant[entities[e].scope] = tenant[s] /\ Visible(e)
      <4>1. q \in Touching(r) /\ VisibleFrom(q.scope, s)
        BY DEF getRelations
      <4>2. q \in relations /\ (e \in DOMAIN entities => Visible(e))
        BY <4>1 DEF Touching
      <4>3. e \in DOMAIN entities /\ tenant[entities[e].scope] = tenant[q.scope]
        BY <4>2 DEF IInv, RelationOK
      <4>4. tenant[q.scope] = tenant[s]
        BY <3>1, <4>1 DEF VisibleFrom
      <4>5. QED
        BY <4>2, <4>3, <4>4
    <3>4. ASSUME NEW n \in Name, NEW e \in search(n, s)
          PROVE  tenant[entities[e].scope] = tenant[s] /\ Visible(e)
      BY DEF search, Found
    <3>5. \A m \in listUnresolvedMentions(s) : tenant[MentionScope(m)] = tenant[s]
      BY <3>1 DEF listUnresolvedMentions, Within
    <3> DEFINE read(r) == getEntity(r, s) \cup UNION {{q.from, q.to} : q \in getRelations(r, s)}
               seen == (UNION {read(r) : r \in DOMAIN entities}) \cup
                         UNION {search(n, s) : n \in Name}
    <3>6. ASSUME NEW e \in seen PROVE tenant[entities[e].scope] = tenant[s] /\ Visible(e)
      <4>1. CASE \E n \in Name : e \in search(n, s)
        BY <3>4, <4>1
      <4>2. CASE \E r \in DOMAIN entities : e \in read(r)
        <5>1. PICK r \in DOMAIN entities : e \in read(r)
          BY <4>2
        <5>2. CASE e \in getEntity(r, s)
          BY <3>2, <5>2
        <5>3. CASE \E q \in getRelations(r, s) : e \in {q.from, q.to}
          BY <3>3, <5>3
        <5>4. QED
          BY <5>1, <5>2, <5>3
      <4>3. (\E r \in DOMAIN entities : e \in read(r)) \/ (\E n \in Name : e \in search(n, s))
        BY <3>6
      <4>4. QED
        BY <4>1, <4>2, <4>3
    <3> HIDE DEF read, seen
    <3>7. (\A e \in seen : tenant[entities[e].scope] = tenant[s] /\ Visible(e))
          /\ \A m \in listUnresolvedMentions(s) : tenant[MentionScope(m)] = tenant[s]
      BY <3>5, <3>6
    <3>8. QED
      BY <3>7 DEF read, seen
  <2>3. \A r \in relations, e \in DOMAIN entities :
          e \in {r.from, r.to} => tenant[entities[e].scope] = tenant[r.scope]
    BY DEF IInv, RelationOK
  <2>4. \A e \in DOMAIN entities :
          entities[e].superseded # NoRef =>
            tenant[entities[entities[e].superseded].scope] = tenant[entities[e].scope]
    BY DEF IInv, MergesStay
  <2>5. QED
    BY <2>1, <2>2, <2>3, <2>4 DEF TenantWall
<1>2. QED
  BY <1>1, ResolutionInvariant, PTL

\* Through chains of merges of any length the survivor answers to the key of
\* every entity it absorbed.
THEOREM SurvivorAnswersAlways == Spec => []SurvivorAnswers
<1>1. IInv => SurvivorAnswers
  BY DEF IInv
<1>2. QED
  BY <1>1, ResolutionInvariant, PTL

\* A relation is held exactly as long as an end is open, and stands between
\* what its ends mean now once it is materialised.
THEOREM HeldRelationsAlways == Spec => []HeldRelations
<1>1. IInv => HeldRelations
  BY DEF IInv
<1>2. QED
  BY <1>1, ResolutionInvariant, PTL

-----------------------------------------------------------------------------
(* Writes only add.                                                         *)

\* Rows with the same columns are the same row.
LEMMA KeptIsUpdate ==
  ASSUME NEW old, NEW new, IsRow(old), Kept(old, new)
  PROVE  new = [old EXCEPT !.summary = new.summary, !.aliases = new.aliases,
                           !.externalRefs = new.externalRefs, !.superseded = new.superseded]
<1> DEFINE x == Updated(old, new.summary, new.aliases, new.externalRefs, new.superseded)
<1>1. /\ IsRow(x)
      /\ x.scope = old.scope /\ x.name = old.name /\ x.type = old.type
      /\ x.title = old.title /\ x.norm = old.norm /\ x.origin = old.origin
      /\ x.summary = new.summary /\ x.aliases = new.aliases
      /\ x.externalRefs = new.externalRefs /\ x.superseded = new.superseded
  BY UpdatedRow
<1>2. x = [old EXCEPT !.summary = new.summary, !.aliases = new.aliases,
                      !.externalRefs = new.externalRefs, !.superseded = new.superseded]
  BY DEF Updated
<1> HIDE DEF x
<1>3. /\ DOMAIN x = Columns /\ x = [k \in DOMAIN x |-> x[k]]
      /\ DOMAIN new = Columns /\ new = [k \in DOMAIN new |-> new[k]]
  BY <1>1, RowColumns DEF Kept
<1>4. \A k \in Columns : x[k] = new[k]
  BY <1>1 DEF Kept, Columns
<1>5. x = new
  BY <1>3, <1>4
<1>6. QED
  BY <1>2, <1>5

LEMMA KeepsAdds ==
  ASSUME IInv, Keeps(entities, entities'),
         \A r \in DOMAIN entities : entities[r].superseded \in {NoRef, entities'[r].superseded}
  PROVE  RowsAdd
<1>1. ASSUME NEW r \in DOMAIN entities
      PROVE  /\ r \in DOMAIN entities' /\ IsRow(entities[r]) /\ Kept(entities[r], entities'[r])
  BY DEF IInv, TableOK, RowOK, Keeps
<1>2. ASSUME NEW r \in DOMAIN entities
      PROVE  LET old == entities[r]
                 new == entities'[r]
             IN  new = [old EXCEPT !.summary = new.summary, !.aliases = new.aliases,
                                   !.externalRefs = new.externalRefs,
                                   !.superseded = new.superseded]
  BY <1>1, KeptIsUpdate
<1>3. ASSUME NEW r \in DOMAIN entities
      PROVE  /\ entities[r].summary \in {"", entities'[r].summary}
             /\ entities[r].aliases \subseteq entities'[r].aliases
             /\ entities[r].externalRefs \subseteq entities'[r].externalRefs
  BY <1>1 DEF Kept
<1>4. QED
  BY <1>1, <1>2, <1>3 DEF RowsAdd

LEMMA GrowsAdds ==
  ASSUME IInv, Grows(entities, entities')
  PROVE  RowsAdd
BY KeepsAdds DEF Grows, NoMerge

LEMMA StepAdds ==
  ASSUME IInv, [Next]_vars
  PROVE  RowsAdd /\ MentionsAdd
<1>0. ASSUME entities' = entities PROVE RowsAdd
  BY <1>0, GrowsReflexive, GrowsAdds DEF IInv, TableOK, RowOK
<1>a. ASSUME mentions' = mentions PROVE MentionsAdd
  BY <1>a DEF MentionsAdd
<1>1. ASSUME NEW c \in Caller, Promote(c) \/ Replay(c) \/ LoseRace(c) \/ Retry(c)
      PROVE  RowsAdd /\ MentionsAdd
  BY <1>0, <1>a, <1>1 DEF Promote, Replay, LoseRace, Retry
<1>2. ASSUME NEW c \in Caller, Commit(c) PROVE RowsAdd /\ MentionsAdd
  <2>1. PICK env, made : Commits(c, env, made)
    BY <1>2, CommitIs
  <2>2. RowsAdd
    BY <2>1, CommitTable, GrowsAdds
  <2>3. MentionsAdd
    BY <2>1 DEF Commits, MentionsAdd
  <2>4. QED
    BY <2>2, <2>3
<1>3. ASSUME NEW s \in Scope, NEW m \in DOMAIN mentions, NEW r \in DOMAIN entities, Bind(s, m, r)
      PROVE  RowsAdd /\ MentionsAdd
  <2>1. RowsAdd
    BY <1>3, BindGrows, GrowsAdds
  <2>2. /\ DOMAIN mentions' = DOMAIN mentions /\ mentions'[m].ref = r
        /\ \A x \in DOMAIN mentions : x # m => mentions'[x] = mentions[x]
    BY <1>3, BindMentions
  <2>3. Unresolved(m) /\ [action |-> "BIND", what |-> m, ref |-> r] \in decisions'
    BY <1>3 DEF Bind
  <2>4. QED
    BY <2>1, <2>2, <2>3 DEF MentionsAdd
<1>4. ASSUME NEW s \in Scope, NEW v \in DOMAIN entities, NEW l \in DOMAIN entities, Merge(s, v, l)
      PROVE  RowsAdd /\ MentionsAdd
  <2>1. Keeps(entities, entities') /\ Merged(entities, entities', v, l)
    BY <1>4, MergeTable
  <2>2. \A r \in DOMAIN entities : entities[r].superseded \in {NoRef, entities'[r].superseded}
    BY <2>1 DEF Merged
  <2>3. RowsAdd
    BY <2>1, <2>2, KeepsAdds
  <2>4. MentionsAdd
    BY <1>4, <1>a DEF Merge
  <2>5. QED
    BY <2>3, <2>4
<1>5. ASSUME NEW r \in DOMAIN Pipeline, PipelineSubmit(r) PROVE RowsAdd /\ MentionsAdd
  BY <1>5, <1>a, SubmitGrows, GrowsAdds DEF PipelineSubmit
<1>6. ASSUME NEW r \in DOMAIN Pipeline, PipelinePublish(r) PROVE RowsAdd /\ MentionsAdd
  BY <1>0, <1>a, <1>6 DEF PipelinePublish
<1>7. CASE UNCHANGED vars
  BY <1>0, <1>a, <1>7 DEF vars
<1>8. QED
  BY <1>1, <1>2, <1>3, <1>4, <1>5, <1>6, <1>7 DEF Next

\* Nothing that is stored is overwritten, undecided again or unmerged by any
\* step of any caller, human or run.
THEOREM OnlyAddsAlways == Spec => OnlyAdds
<1>1. IInv /\ [Next]_vars => RowsAdd /\ MentionsAdd
  BY StepAdds
<1>2. QED
  BY <1>1, ResolutionInvariant, PTL DEF Spec, OnlyAdds

-----------------------------------------------------------------------------
(* Resolution implements IdentityClasses.                                   *)

\* The state that IdentityClasses sees.
Reps == [r \in DOMAIN entities |-> Survivor(entities, r)]
Meanings == [m \in DOMAIN mentions |-> Meaning(m)]
IsHead(r) == r \in DOMAIN entities /\ Survivor(entities, r) = r

LEMMA AbstractState ==
  /\ DOMAIN Reps = DOMAIN entities /\ DOMAIN Meanings = DOMAIN mentions
  /\ \A r \in DOMAIN entities : Reps[r] = Survivor(entities, r)
  /\ \A m \in DOMAIN mentions : Meanings[m] = Meaning(m)
  /\ DOMAIN Reps' = DOMAIN entities' /\ DOMAIN Meanings' = DOMAIN mentions'
  /\ \A r \in DOMAIN entities' : Reps'[r] = Survivor(entities', r)
  /\ \A m \in DOMAIN mentions' : Meanings'[m] = Meaning(m)'
BY DEF Reps, Meanings

\* Entities and mentions that are added, and rows that are filled, are learnt.
LEMMA LearnStep ==
  ASSUME IInv, IInv', Grows(entities, entities'), DOMAIN mentions \subseteq DOMAIN mentions',
         \A m \in DOMAIN mentions : mentions'[m] = mentions[m]
  PROVE  Identity!Learn
<1>1. /\ DOMAIN entities \subseteq DOMAIN entities'
      /\ \A r \in DOMAIN entities : Survivor(entities', r) = Survivor(entities, r)
      /\ \A r \in DOMAIN entities' \ DOMAIN entities : Survivor(entities', r) = r
  BY SurvivorNoMerge DEF Grows, NoMerge, IInv
<1>2. ASSUME NEW m \in DOMAIN mentions PROVE Meaning(m)' = Meaning(m)
  <2>1. mentions[m].ref # NoRef => mentions[m].ref \in DOMAIN entities
    BY DEF IInv, MentionOK
  <2>2. mentions'[m].ref = mentions[m].ref
    OBVIOUS
  <2>3. QED
    BY <1>1, <2>1, <2>2 DEF Meaning
<1>3. ASSUME NEW m \in DOMAIN mentions' PROVE Meaning(m)' = NoRef \/ IsHead(Meaning(m))'
  <2>1. Ranked(entities') /\ MentionOK(m)'
    BY DEF IInv
  <2> DEFINE r == mentions'[m].ref
             h == Survivor(entities', r)
  <2>2. CASE r = NoRef
    BY <2>2 DEF Meaning
  <2>3. CASE r # NoRef
    <3>1. r \in DOMAIN entities'
      BY <2>1, <2>3 DEF MentionOK
    <3>2. h \in DOMAIN entities' /\ entities'[h].superseded = NoRef
      BY <2>1, <3>1, SurvivorIsHead
    <3>3. Meaning(m)' = h
      BY <2>3 DEF Meaning
    <3> HIDE DEF h, r
    <3>4. Survivor(entities', h) = h
      BY <2>1, <3>2, SurvivorIsHead
    <3>5. QED
      BY <3>2, <3>3, <3>4 DEF IsHead
  <2>4. QED
    BY <2>2, <2>3
<1>4. Identity!Keeps(Reps, Reps') /\ Identity!Keeps(Meanings, Meanings')
  BY <1>1, <1>2, AbstractState DEF Identity!Keeps
<1>5. \A r \in DOMAIN Reps' \ DOMAIN Reps : Reps'[r] = r
  BY <1>1, AbstractState
<1>6. ASSUME NEW m \in DOMAIN Meanings'
      PROVE  Meanings'[m] = NoRef \/ (Meanings'[m] \in DOMAIN Reps' /\ Reps'[Meanings'[m]] = Meanings'[m])
  BY <1>3, AbstractState DEF IsHead
<1>7. QED
  BY <1>4, <1>5, <1>6 DEF Identity!Learn, Identity!Heads, Reps, Meanings

\* A human decision on a mention settles it.
LEMMA SettleStep ==
  ASSUME IInv, NEW s \in Scope, NEW m \in DOMAIN mentions, NEW r \in DOMAIN entities, Bind(s, m, r)
  PROVE  Identity!Settle
<1>1. /\ DOMAIN entities' = DOMAIN entities
      /\ \A e \in DOMAIN entities : Survivor(entities', e) = Survivor(entities, e)
  BY BindGrows
<1>2. /\ DOMAIN mentions' = DOMAIN mentions /\ mentions[m].ref = NoRef /\ mentions'[m].ref = r
      /\ \A x \in DOMAIN mentions : x # m => mentions'[x] = mentions[x]
  BY BindMentions
<1>3. Survivor(entities, r) = r /\ r # NoRef
  BY SurvivorIsHead, RefsAreNoRef DEF Bind, IInv, TableOK
<1>4. Reps' = Reps
  BY <1>1 DEF Reps
<1>5. Meaning(m) = NoRef /\ Meaning(m)' = r
  BY <1>1, <1>2, <1>3 DEF Meaning
<1>6. ASSUME NEW x \in DOMAIN mentions, x # m PROVE Meaning(x)' = Meaning(x)
  <2>1. mentions[x].ref # NoRef => mentions[x].ref \in DOMAIN entities
    BY DEF IInv, MentionOK
  <2>2. mentions'[x].ref = mentions[x].ref
    BY <1>2, <1>6
  <2>3. QED
    BY <1>1, <2>1, <2>2 DEF Meaning
<1>7. Meanings' = [Meanings EXCEPT ![m] = r]
  <2>1. Meanings' = [x \in DOMAIN mentions |-> IF x = m THEN r ELSE Meaning(x)]
    BY <1>2, <1>5, <1>6 DEF Meanings
  <2>2. QED
    BY <2>1 DEF Meanings
<1>8. m \in DOMAIN Meanings /\ Meanings[m] = NoRef /\ r \in DOMAIN Reps /\ Reps[r] = r
  BY <1>3, <1>5, AbstractState
<1>9. QED
  BY <1>4, <1>7, <1>8 DEF Identity!Settle, Identity!Heads, Reps, Meanings

\* A merge unites two representatives.
LEMMA UniteStep ==
  ASSUME IInv, NEW s \in Scope, NEW v \in DOMAIN entities, NEW l \in DOMAIN entities,
         Merge(s, v, l)
  PROVE  Identity!Unite
<1> DEFINE move(x) == IF x = l THEN v ELSE x
<1>1. Merged(entities, entities', v, l)
  BY MergeTable
<1>2. \A e \in DOMAIN entities : Survivor(entities', e) = move(Survivor(entities, e))
  BY <1>1, SurvivorMerged DEF IInv
<1>3. /\ Survivor(entities, v) = v /\ Survivor(entities, l) = l /\ v # l
      /\ DOMAIN entities' = DOMAIN entities /\ l # NoRef /\ mentions' = mentions
  BY <1>1, SurvivorIsHead, RefsAreNoRef DEF Merged, Merge, IInv, TableOK
<1>4. Reps' = [r \in DOMAIN Reps |-> move(Reps[r])]
  BY <1>2, <1>3 DEF Reps
<1>5. ASSUME NEW m \in DOMAIN mentions PROVE Meaning(m)' = move(Meaning(m))
  <2>1. mentions[m].ref # NoRef => mentions[m].ref \in DOMAIN entities
    BY DEF IInv, MentionOK
  <2>2. QED
    BY <1>2, <1>3, <2>1 DEF Meaning
<1>6. Meanings' = [m \in DOMAIN Meanings |-> move(Meanings[m])]
  BY <1>3, <1>5 DEF Meanings
<1>7. v \in DOMAIN Reps /\ Reps[v] = v /\ l \in DOMAIN Reps /\ Reps[l] = l
  BY <1>3, AbstractState
<1>8. QED
  BY <1>3, <1>4, <1>6, <1>7 DEF Identity!Unite, Identity!Heads, Reps, Meanings

LEMMA AbstractSame ==
  ASSUME entities' = entities, mentions' = mentions
  PROVE  UNCHANGED Identity!vars
BY DEF Identity!vars, Meaning

\* Every step teaches, settles or unites, or changes nothing that is promised.
LEMMA StepImplements ==
  ASSUME IInv, IInv', [Next]_vars
  PROVE  [Identity!Next]_(Identity!vars)
<1>1. ASSUME NEW c \in Caller, Promote(c) \/ Replay(c) \/ LoseRace(c) \/ Retry(c)
      PROVE  UNCHANGED Identity!vars
  BY <1>1, AbstractSame DEF Promote, Replay, LoseRace, Retry
<1>2. ASSUME NEW c \in Caller, Commit(c) PROVE Identity!Learn
  <2>1. PICK env, made : Commits(c, env, made)
    BY <1>2, CommitIs
  <2>2. QED
    BY <2>1, CommitTable, LearnStep DEF Commits
<1>3. ASSUME NEW s \in Scope, NEW m \in DOMAIN mentions, NEW r \in DOMAIN entities, Bind(s, m, r)
      PROVE  Identity!Settle
  BY <1>3, SettleStep
<1>4. ASSUME NEW s \in Scope, NEW v \in DOMAIN entities, NEW l \in DOMAIN entities, Merge(s, v, l)
      PROVE  Identity!Unite
  BY <1>4, UniteStep
<1>5. ASSUME NEW r \in DOMAIN Pipeline, PipelineSubmit(r) PROVE Identity!Learn
  BY <1>5, SubmitGrows, LearnStep DEF PipelineSubmit
<1>6. ASSUME NEW r \in DOMAIN Pipeline, PipelinePublish(r) PROVE UNCHANGED Identity!vars
  BY <1>6, AbstractSame DEF PipelinePublish
<1>7. CASE UNCHANGED vars
  BY <1>7, AbstractSame DEF vars
<1>8. QED
  BY <1>1, <1>2, <1>3, <1>4, <1>5, <1>6, <1>7 DEF Next, Identity!Next

\* Promotions, human decisions and the pipeline implement what entity
\* resolution promises about identity: nothing is split, forgotten or given a
\* new meaning but by settling what was open or uniting two representatives.
THEOREM ResolutionImplementsIdentity == Spec => ImplementsIdentityClasses
<1>1. Init => Identity!Init
  BY DEF Init, EmptyTable, Identity!Init
<1>2. IInv /\ IInv' /\ [Next]_vars => [Identity!Next]_(Identity!vars)
  BY StepImplements
<1>3. QED
  BY <1>1, <1>2, ResolutionInvariant, PTL DEF Spec, ImplementsIdentityClasses, Identity!Spec

=============================================================================
