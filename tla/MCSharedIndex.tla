---------------------------- MODULE MCSharedIndex ----------------------------
(* Small instances of SharedIndex for TLC.                                 *)
EXTENDS SharedIndex, TLC

CONSTANTS q1, c1

\* Two trees that disagree about the path.
MCTwoTrees == {[q \in {q1} |-> c1], [q \in {q1} |-> Absent]}

\* One tree beside `null`, of a root without files: whether a scan ends does
\* not depend on what it lists.
MCNoFiles == {[q \in {} |-> Absent]}

MCSymmetry == Permutations(Proc)

=============================================================================
