------------------------------- MODULE Suivi --------------------------------
(***************************************************************************)
(* What the commands promise about who follows a young person: each one     *)
(* hands a young person over from the counsellor who follows them at that   *)
(* moment, and the counsellor of origin of a temporary follow-up is kept    *)
(* until the young person comes back or leaves for good.  Nothing is        *)
(* promised of a young person once operations on them have overlapped or    *)
(* failed (perturbes).                                                      *)
(***************************************************************************)
CONSTANTS Jeunes, Conseillers, Aucun, Absent

VARIABLES
  suivi,      \* who follows each young person, and for whom
  perturbes   \* those of whom nothing is promised any more

vars == <<suivi, perturbes>>

LigneSuivi == [conseiller : Conseillers, initial : Conseillers \cup {Aucun}]

Init ==
  /\ suivi \in [Jeunes -> LigneSuivi]
  /\ \A j \in Jeunes : suivi[j].initial = Aucun
  /\ perturbes = {}

(* For good, or back to the counsellor of origin.                           *)
Confier(j, c) ==
  suivi' = [suivi EXCEPT ![j] = [conseiller |-> c, initial |-> Aucun]]

(* For a time: the first counsellor of origin is kept.                      *)
Preter(j, c) ==
  /\ c # suivi[j].initial
  /\ suivi' = [suivi EXCEPT ![j] =
       [conseiller |-> c,
        initial |-> IF suivi[j].initial = Aucun THEN suivi[j].conseiller
                                                ELSE suivi[j].initial]]

(* The counsellor of origin leaves.                                         *)
Oublier(j) == suivi' = [suivi EXCEPT ![j].initial = Aucun]

(* The young person leaves; nobody else can make them disappear.            *)
Partir(j) == suivi' = [suivi EXCEPT ![j] = Absent]

Commande(j) ==
  /\ suivi[j] # Absent
  /\ \/ \E c \in Conseillers : Confier(j, c) \/ Preter(j, c)
     \/ Oublier(j)
     \/ Partir(j)
  /\ UNCHANGED perturbes

Perturber ==
  /\ perturbes \subseteq perturbes'
  /\ perturbes' \subseteq Jeunes
  /\ \A j \in Jeunes \ perturbes' : suivi'[j] = suivi[j]

Next == Perturber \/ \E j \in Jeunes : Commande(j)

Spec == Init /\ [][Next]_vars
=============================================================================
