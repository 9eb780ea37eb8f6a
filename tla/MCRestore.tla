----------------------------- MODULE MCRestore -----------------------------
(***************************************************************************)
(* Two processes, two directories, two lines: two operations and two moves *)
(* of agents, directories and deaths around them.                          *)
(***************************************************************************)
EXTENDS Restore, TLC

Symmetry == Permutations(Pids) \cup Permutations(Dirs) \cup Permutations(Lines)
=============================================================================
