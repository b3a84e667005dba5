----------------------------- MODULE MC_Actions -----------------------------
(***************************************************************************)
(* Values for the constants of Actions.                                     *)
(***************************************************************************)
EXTENDS Actions

CONSTANTS o1, o2

MCOps == {o1, o2}

Creer(statut, echeance) == [statut |-> statut, echeance |-> echeance, rappel |-> TRUE]
MCCreations == {Creer("EN_COURS", 2)}

Modifier(statut, echeance, fin, code) ==
  [statut |-> statut, echeance |-> echeance, fin |-> fin, code |-> code]
MCModifications ==
  {Modifier("TERMINEE", Inchange, 1, TRUE),
   Modifier("EN_COURS", Inchange, Inchange, FALSE),
   Modifier(Inchange, 0, Inchange, FALSE)}

Qualifier(code, debut) == [code |-> code, debut |-> debut, fin |-> Inchange]
MCQualifications == {Qualifier("SNP", 0), Qualifier("NON_SNP", Inchange)}
=============================================================================
