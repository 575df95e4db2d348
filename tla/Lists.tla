------------------------------- MODULE Lists -------------------------------
(***************************************************************************)
(* What the pipeline does to its lists: map, flatMap and filter, as joins  *)
(* of short lists.                                                         *)
(***************************************************************************)
EXTENDS Integers, Sequences, SequencesExt

IsList(s) == s \in Seq(ToSet(s))

Each(s, F(_)) == [i \in DOMAIN s |-> F(s[i])]
Collect(s, F(_)) == FlattenSeq(Each(s, F))
Only(condition, row) == IF condition THEN <<row>> ELSE <<>>
Keep(s, Test(_)) == Collect(s, LAMBDA row : Only(Test(row), row))
=============================================================================
