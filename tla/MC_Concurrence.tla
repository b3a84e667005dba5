--------------------------- MODULE MC_Concurrence ---------------------------
(***************************************************************************)
(* Two group events and an individual appointment, with commands in flight     *)
(* together, over two days; the reminders are out of the picture.           *)
(***************************************************************************)
EXTENDS RendezVous, TLC

CONSTANTS ac1, ac2, rdv1, jeune1, jeune2, op1, op2

MCAC == {ac1, ac2}
MCRdv == MCAC \cup {rdv1}
MCOps == {op1, op2}
MCJeunes == {jeune1, jeune2}
MCDates == {0, 1}

Symetrie ==
  Permutations(MCOps) \cup Permutations(MCJeunes) \cup Permutations(MCAC)

=============================================================================
