-------------------------- MODULE MC_SessionsMilo ---------------------------
(***************************************************************************)
(* Two young people for one place, and two commands at a time.              *)
(***************************************************************************)
EXTENDS SessionsMilo, TLC

CONSTANTS j1, j2, o1, o2

MCJeunes == {j1, j2}
MCOps == {o1, o2}
MCReglages == {<<Inchange, TRUE>>, <<FALSE, Inchange>>}
Symetrie == Permutations(MCJeunes) \cup Permutations(MCOps)
=============================================================================
