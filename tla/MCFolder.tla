------------------------------ MODULE MCFolder ------------------------------
(***************************************************************************)
(* Two files of a watched folder.                                          *)
(***************************************************************************)
EXTENDS Folder, TLC

MCSymmetry == Permutations(Path)
=============================================================================
