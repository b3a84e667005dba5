-------------------------- MODULE MC_Portefeuille ---------------------------
(***************************************************************************)
(* Up to three counsellors, the first one in charge of everybody, in one or *)
(* two agencies; each configuration chooses the commands that are received. *)
(***************************************************************************)
EXTENDS Portefeuille, TLC

CONSTANTS c1, c2, c3, j1, j2, a1, a2, g1, g2, l1, o1, o2

MCJeunes == {j1, j2}
UnJeune == {j1}
MCConseillers == {c1, c2, c3}
DeuxConseillers == {c1, c3}
MCAgences == {g1, g2}
MCOps == {o1, o2}

ToutesAuPremier == [j \in Jeunes |-> c1]
DeuxAgences == [c \in Conseillers |-> IF c = c3 THEN g2 ELSE g1]

Mouvements ==
  {"transferer", "recuperer", "supprimerConseiller", "supprimerJeune",
   "archiverJeune", "archiverJeuneSupport",
   "creerAnimation", "changerAgence", "modifierConseiller"}
Presences ==
  {"transferer", "creerListe", "modifierListe", "ajouterJeuneListe",
   "supprimerListe", "creerAnimation", "modifierAnimation"}

(* j1 and j2 are alike when c1 follows everybody.                           *)
Symetrie == Permutations(MCOps) \cup Permutations(MCJeunes)
=============================================================================
