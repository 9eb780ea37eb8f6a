----------------------------- MODULE MCDialogue -----------------------------
(***************************************************************************)
(* Two files, one of which agents and another process change.              *)
(***************************************************************************)
EXTENDS Dialogue, TLC

MCEdited == {1}
MCSymmetry == Permutations(Contents)
=============================================================================
