------------------------------- MODULE MCScreen -------------------------------
(* Small instances of Screen for TLC.                                      *)
EXTENDS Screen, TLC

MCSymmetry == Permutations(Task)

=============================================================================
