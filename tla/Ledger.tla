-------------------------------- MODULE Ledger --------------------------------
(* One root's seen record and what the operations compute from it.         *)
(*                                                                         *)
(* A record is a seen tree, overrides on top of it, and an undo stack.  The *)
(* baseline of a path is its override's blob, else the tree's entry.  Blobs *)
(* are compared by id only, so the content of a file is which hunks it     *)
(* carries, and `Absent` is a file, or an entry, that is not there.        *)
(*                                                                         *)
(* Everything here is an operator; ReviewLedger is the state machine.  The *)
(* roots are repositories: what only a watched folder has (rows too large  *)
(* to read and the `released` note they leave) is left out.                *)
EXTENDS Naturals, Sequences

CONSTANTS
    Path,     \* paths of the root
    Hunk,     \* changes a file may carry
    Note,     \* flags
    Branch,   \* branch names
    Absent,   \* no file, or no entry, at a path
    None,     \* nothing recorded: no blob, no undo of a path, no record
    UndoCap   \* UNDO_CAP

Content == [Hunk -> BOOLEAN]
Empty == [h \in Hunk |-> FALSE]
Entry == Content \cup {Absent}
Tree == [Path -> Entry]

ASSUME EntryAssumption == Absent \notin Content
ASSUME NoneAssumption == None \notin Entry
ASSUME UndoCapAssumption == UndoCap \in Nat \ {0}

\* `None` is a field left out: the override of a path that is only flagged.
\* The override with nothing in it is the one the ledger does not list.
Override == [blob : Entry \cup {None}, flags : SUBSET Note]
NoOverride == [blob |-> None, flags |-> {}]

ASSUME NoneIsNothing == None \notin Override /\ None \notin Tree

\* Some paths with an entry each: an undo entry, the rows of an accept.
Some == [Path -> Entry \cup {None}]
Nothing == [q \in Path |-> None]
Keys(f) == {q \in Path : f[q] # None}

Record == [tree : Tree, over : [Path -> Override], undo : Seq(Some)]

-----------------------------------------------------------------------------
(* Baselines.                                                              *)

\* The override's blob, else the seen tree's entry.
Baseline(r) == [q \in Path |-> IF r.over[q].blob # None THEN r.over[q].blob ELSE r.tree[q]]

\* set_override, for every path f names: an entry equal to the seen tree's is
\* no override.  Flags stay.
SetOverrides(r, f) ==
    [r EXCEPT !.over = [q \in Path |->
        IF f[q] = None THEN r.over[q]
        ELSE [r.over[q] EXCEPT !.blob = IF f[q] = r.tree[q] THEN None ELSE f[q]]]]

\* A wrong variant: an override another process wrote meanwhile stays.
ReplayUnder(r, staged) ==
    [r EXCEPT !.over = [q \in Path |->
        IF staged[q] = None \/ r.over[q] # NoOverride THEN r.over[q] ELSE staged[q]]]

\* merge_from_disk: staged overrides replace those of the record, whole.
Replay(r, staged) ==
    [r EXCEPT !.over = [q \in Path |-> IF staged[q] = None THEN r.over[q] ELSE staged[q]]]

\* What the threshold of a compaction counts.
BlobOverrides(r) == {q \in Path : r.over[q].blob # None}

\* undo_paths: the baselines of some paths as the record has them.
Prior(r, keys) == [q \in Path |-> IF q \in keys THEN Baseline(r)[q] ELSE None]

\* A wrong variant: nothing is dropped.
PushUndoUncapped(r, e) == [r EXCEPT !.undo = Append(@, e)]

\* push_undo: the oldest entry is dropped past the cap.
PushUndo(r, e) ==
    [r EXCEPT !.undo = Append(IF Len(r.undo) = UndoCap THEN Tail(r.undo) ELSE r.undo, e)]

PopUndo(r) == [r EXCEPT !.undo = SubSeq(r.undo, 1, Len(r.undo) - 1)]

\* fold: a new seen tree out of the overrides and then the rows f; every blob
\* leaves its override, a flag stays.
Fold(r, f) ==
    [tree |-> [q \in Path |-> IF f[q] # None THEN f[q] ELSE Baseline(r)[q]],
     over |-> [q \in Path |-> [r.over[q] EXCEPT !.blob = None]],
     undo |-> r.undo]

=============================================================================
