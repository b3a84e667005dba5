----------------------------- MODULE MC_Rappels -----------------------------
(***************************************************************************)
(* One individual appointment and its reminders, over ten days.             *)
(***************************************************************************)
EXTENDS RendezVous, TLC

CONSTANTS rdv1, jeune1, op1, op2, worker1

MCRdv == {rdv1}
MCDates == {3, 10}
MCOps == {op1, op2}
MCWorkers == {worker1}

Symetrie == Permutations(MCOps)

=============================================================================
