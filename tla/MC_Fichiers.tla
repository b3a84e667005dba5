---------------------------- MODULE MC_Fichiers -----------------------------
(***************************************************************************)
(* Values for the constants of Fichiers: the file of a young person and the *)
(* file of a counsellor.                                                    *)
(***************************************************************************)
EXTENDS Fichiers

CONSTANTS f1, f2

MCFichiers == {f1, f2}
MCPiecesJeunes == {f1}
=============================================================================
