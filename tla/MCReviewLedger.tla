---------------------------- MODULE MCReviewLedger ----------------------------
(* Small instances of ReviewLedger for TLC.                                *)
EXTENDS ReviewLedger, TLC

MCTree == Tree

\* Merge bases that agree on every path.
MCPlainTrees == {[q \in Path |-> e] : e \in Entry}

MCSymmetry == Permutations(Proc) \cup Permutations(Path) \cup Permutations(Branch)

\* `shown` is a history nothing reads: runs whose properties do not name it
\* need not tell states apart by it.
MCView == <<disk, head, refs, worktree, mem, pile, pc, op, to, keys>>

=============================================================================
