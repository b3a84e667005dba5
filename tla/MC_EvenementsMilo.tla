------------------------- MODULE MC_EvenementsMilo --------------------------
(***************************************************************************)
(* One appointment, or two instances of sessions of which the second has an *)
(* id that starts with the id of the first, and two workers.                *)
(***************************************************************************)
EXTENDS EvenementsMilo, TLC

CONSTANTS r1, s1, s2, w1, w2

MCWorkers == {w1, w2}
Aucune == [s \in {} |-> {}]
SansPrefixe == [s \in {s1} |-> {s1}]
PremierPrefixe == [s \in {s1, s2} |-> IF s = s1 THEN {s1, s2} ELSE {s2}]
SymetrieWorkers == Permutations(MCWorkers)
=============================================================================
