------------------------------- MODULE MC_Lots -------------------------------
(***************************************************************************)
(* Values for the constants of Lots.                                        *)
(***************************************************************************)
EXTENDS Lots

CONSTANTS o1, o2

(* Four handlers follow the rule of NOTIFIER_CAMPAGNE; one of them stands    *)
(* for the four.                                                            *)
TypesDistincts ==
    DOMAIN Regles \ {"NOTIFIER_BONNE_ALTERNANCE", "NOTIFIER_0_HEURES_DECLAREES",
                     "NOTIFIER_RAPPEL_CREATION_ACTIONS_DEMARCHES"}
=============================================================================
