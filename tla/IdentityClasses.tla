--------------------------- MODULE IdentityClasses ---------------------------
(***************************************************************************)
(* What entity resolution promises about identity.  Every known entity has *)
(* a representative, the entity it is taken to be; every mention means a   *)
(* representative or is still open.  A promotion makes new entities known, *)
(* each its own representative, and new mentions; a human settles an open  *)
(* mention or unites two representatives, and what meant the one means the *)
(* other from then on.  Nothing is forgotten, split or given a new meaning *)
(* otherwise.                                                              *)
(***************************************************************************)
CONSTANT Open  \* the meaning of a mention that is not settled

VARIABLES rep, meaning
vars == <<rep, meaning>>

Heads == {r \in DOMAIN rep : rep[r] = r}

Init == DOMAIN rep = {} /\ DOMAIN meaning = {}

Keeps(f, g) == DOMAIN f \subseteq DOMAIN g /\ \A x \in DOMAIN f : g[x] = f[x]

\* New entities, and new mentions of heads new and old.
Learn ==
  /\ Keeps(rep, rep') /\ \A r \in DOMAIN rep' \ DOMAIN rep : rep'[r] = r
  /\ Keeps(meaning, meaning')
  /\ \A m \in DOMAIN meaning' \ DOMAIN meaning : meaning'[m] \in Heads' \cup {Open}

\* An open mention gets its meaning.
Settle ==
  \E m \in DOMAIN meaning, r \in Heads :
    /\ meaning[m] = Open
    /\ meaning' = [meaning EXCEPT ![m] = r]
    /\ UNCHANGED rep

\* Head a is taken to be head b.
Unite ==
  \E a, b \in Heads :
    LET move(x) == IF x = a THEN b ELSE x
    IN  /\ a # b
        /\ rep' = [r \in DOMAIN rep |-> move(rep[r])]
        /\ meaning' = [m \in DOMAIN meaning |-> move(meaning[m])]

Next == Learn \/ Settle \/ Unite
Spec == Init /\ [][Next]_vars
=============================================================================
