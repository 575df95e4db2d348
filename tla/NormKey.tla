------------------------------ MODULE NormKey ------------------------------
(***************************************************************************)
(* norm_v1, the key under which an entity is unique in its scope           *)
(* (packages/gks-contracts/src/norm-v1.mjs).  A name is a sequence of      *)
(* words as they are written; folded says which tokens a written word      *)
(* becomes once case, compatibility forms and separators are folded        *)
(* (steps 1 to 4).                                                         *)
(***************************************************************************)
EXTENDS Lists

CONSTANT folded      \* written word -> the tokens it becomes

ASSUME FoldedAssumption == \A word \in DOMAIN folded : IsList(folded[word])

ThaiLegalForms          == {"borisat", "chamkat"}     \* removed anywhere
InternationalLegalForms == {"co", "ltd", "as"}        \* removed at the end
Articles                == {"the", "a"}               \* removed at the start

surfaceKey(name) == FlattenSeq([i \in DOMAIN name |-> folded[name[i]]])

Token == UNION {ToSet(folded[word]) : word \in DOMAIN folded}

PopLegalForms[tokens \in Seq(Token)] ==
  IF tokens # <<>> /\ Last(tokens) \in InternationalLegalForms
  THEN PopLegalForms[Front(tokens)] ELSE tokens

ShiftArticles[tokens \in Seq(Token)] ==
  IF tokens # <<>> /\ Head(tokens) \in Articles THEN ShiftArticles[Tail(tokens)] ELSE tokens

(* Step 5, repeated until nothing changes.                                  *)
removeTokens[tokens \in Seq(Token)] ==
  LET pass == ShiftArticles[PopLegalForms[Keep(tokens, LAMBDA t : t \notin ThaiLegalForms)]]
  IN IF pass = tokens THEN tokens ELSE removeTokens[pass]

(* Variant: without the guard of step 6 a name of scaffolding has no key.   *)
normKeyUnguarded(name) == removeTokens[surfaceKey(name)]

(* Step 6: a name that is nothing but scaffolding keeps its surface.        *)
normKey(name) ==
  LET stripped == removeTokens[surfaceKey(name)]
  IN IF stripped = <<>> THEN surfaceKey(name) ELSE stripped

-----------------------------------------------------------------------------
(* The rule table's own account (docs/NORM-V1-RULE-TABLE.md): the core of a *)
(* name is the longest run of its tokens, Thai legal forms left out, that   *)
(* neither begins with an article nor ends with a legal form.               *)
Core(tokens) ==
  LET t == Keep(tokens, LAMBDA w : w \notin ThaiLegalForms)
      runs == {SubSeq(t, i, j) : i \in DOMAIN t, j \in DOMAIN t}
      kept == {r \in runs : r # <<>> /\ Head(r) \notin Articles /\ Last(r) \notin InternationalLegalForms}
  IN IF kept = {} THEN <<>> ELSE CHOOSE r \in kept : \A q \in kept : Len(q) <= Len(r)

(* Two names are one when their cores agree; names without a core are one   *)
(* only when they read the same.                                            *)
SameName(m, n) ==
  LET a == surfaceKey(m)
      b == surfaceKey(n)
  IN IF Core(a) = <<>> \/ Core(b) = <<>>
     THEN a = b
     ELSE Core(a) = Core(b)
=============================================================================
