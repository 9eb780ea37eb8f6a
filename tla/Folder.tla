------------------------------- MODULE Folder -------------------------------
(* The record of a watched folder: a root that is no repository.           *)
(*                                                                         *)
(* A folder covers the paths its scope admits, and reads files below the   *)
(* size limit only.  A larger file has a row, not read, while the record   *)
(* holds something at its path; accepting that row lets the path go.  That *)
(* release, and the reader's notes, must outlast everything that rewrites  *)
(* the record: undo, compaction, accept-all, and the trim to the scope.    *)
(*                                                                         *)
(* A content is its size.  One process; modes, several notes on a path,    *)
(* and rows left out at the row cap are not told apart.  What two          *)
(* processes do to one record is in ReviewLedger.                          *)
EXTENDS Naturals, Sequences, FiniteSets

CONSTANTS
    Path,
    Size,       \* of the files
    Limits,     \* values of collapse_size_bytes
    UndoCap,    \* UNDO_CAP
    Threshold,  \* compaction_threshold
    Absent,     \* nothing at a path
    Unset,      \* an override without a blob, or no override
    NoRow,
    MaxMoves    \* bound on the changes of files and settings

ASSUME SizesAssumption == Size \subseteq Nat /\ Limits \subseteq Nat
ASSUME FolderNames ==
    /\ Absent \notin Nat /\ Unset \notin Nat
    /\ Absent # Unset
ASSUME FolderBounds == UndoCap \in Nat \ {0} /\ {Threshold, MaxMoves} \subseteq Nat

VARIABLES
    disk,   \* disk[p]: the file
    scope,  \* paths the folder covers
    limit,  \* the size from which files are not read
    tree,   \* the seen tree
    blob,   \* blob[p]: of p's override
    notes,  \* paths with a flag
    undo,   \* the undo stack
    pile,   \* pile[p]: p's row on the screen
    gone,   \* history: paths the reader let go, and has not taken back
    moves   \* what has changed around the record

record == <<tree, blob, notes, undo, gone>>
world  == <<disk, scope, limit, moves>>
vars   == <<world, record, pile>>

File == Size \cup {Absent}
Entry == [baseline : File, released : BOOLEAN, gone : BOOLEAN]
Rows == [current : File, unread : BOOLEAN]
Entries == UNION {[Q -> Entry] : Q \in SUBSET Path}

TypeOK ==
    /\ disk \in [Path -> File] /\ scope \subseteq Path /\ limit \in Limits
    /\ tree \in [Path -> File] /\ blob \in [Path -> File \cup {Unset}]
    /\ notes \subseteq Path /\ gone \subseteq Path
    /\ undo \in Seq(Entries) /\ Len(undo) \leq UndoCap
    /\ pile \in [Path -> Rows \cup {NoRow}]
    /\ moves \in 0..MaxMoves

-----------------------------------------------------------------------------
(* Rows.                                                                   *)

\* Amendment v1.13, R2: at or above the limit a file is not read.
TooBig(p) == disk[p] # Absent /\ disk[p] >= limit

Baseline(p) == IF blob[p] # Unset THEN blob[p] ELSE tree[p]

\* An accepted deletion is no entry; an override with a flag alone is.
RecordHolds(p) == IF blob[p] # Unset THEN blob[p] # Absent ELSE p \in notes \/ tree[p] # Absent

\* What the index reports changed or new, and every override, within the scope.
Candidate(p) == p \in scope /\ (disk[p] # tree[p] \/ blob[p] # Unset \/ p \in notes)

NotRead == [current |-> Absent, unread |-> TRUE]

Row(p) ==
    CASE ~Candidate(p) -> NoRow
      [] Candidate(p) /\ TooBig(p) -> IF RecordHolds(p) THEN NotRead ELSE NoRow
      [] OTHER -> IF disk[p] = Baseline(p) THEN NoRow ELSE [current |-> disk[p], unread |-> FALSE]

-----------------------------------------------------------------------------
(* The record.                                                             *)

\* set_override: what the tree says already needs no blob.
Override(p, file) == IF file = tree[p] THEN Unset ELSE file

\* stage_file: a release keeps its blob, whatever the tree says.
Staged(p) == IF pile[p].unread THEN Absent ELSE Override(p, pile[p].current)

\* push_undo
Pushed(entry) ==
    IF Len(undo) < UndoCap THEN Append(undo, entry) ELSE Tail(Append(undo, entry))

Releases(p) == blob[p] = Absent /\ p \in notes

\* A wrong variant: what was released goes back as any baseline.
BeforeForgets(Q) ==
    [p \in Q |-> [baseline |-> Baseline(p), released |-> FALSE, gone |-> p \in gone]]

\* undo_paths: read off the record before the operation.
Before(Q) ==
    [p \in Q |-> [baseline |-> Baseline(p), released |-> Releases(p), gone |-> p \in gone]]

\* fold: overrides first, then the rows of R, then what the trim drops.
FoldedTree(rec, R, dropped) ==
    [p \in Path |-> CASE p \in dropped -> Absent
                      [] p \in R \ dropped -> pile[p].current
                      [] OTHER -> IF rec.blob[p] # Unset THEN rec.blob[p] ELSE rec.tree[p]]

\* A wrong variant: a fold keeps the releases it finds, not those it makes.
FoldedBlobOfBefore(rec, flagged, R, dropped) ==
    [p \in Path |->
        IF p \in flagged /\ rec.blob[p] = Absent /\ FoldedTree(rec, R, dropped)[p] = Absent
        THEN Absent ELSE Unset]

\* A wrong variant: a fold clears every override.
FoldedBlobCleared(rec, flagged, R, dropped) == [p \in Path |-> Unset]

\* Of the overrides a fold leaves the flags, and a release beside a flag.
FoldedBlob(rec, flagged, R, dropped) ==
    [p \in Path |->
        IF /\ p \in flagged
           /\ rec.blob[p] = Absent \/ (p \in R /\ pile[p].unread)
           /\ FoldedTree(rec, R, dropped)[p] = Absent
        THEN Absent ELSE Unset]

Fold(rec, flagged, R, dropped) ==
    [tree |-> FoldedTree(rec, R, dropped), blob |-> FoldedBlob(rec, flagged, R, dropped)]

\* blob_override_count: releases a fold would keep do not count.
Foldable(over, flagged) ==
    {p \in Path : over[p] # Unset /\ ~(over[p] = Absent /\ p \in flagged)}

\* commit: a compaction once there are too many overrides.
Committed(over, flagged) ==
    LET rec == [tree |-> tree, blob |-> over]
    IN  IF Cardinality(Foldable(over, flagged)) > Threshold
        THEN Fold(rec, flagged, {}, {})
        ELSE rec

\* A wrong variant: only what the tree holds is trimmed.
OutOfScopeTree(rec) == {p \in Path \ scope : rec.tree[p] # Absent}

\* Paths the scope leaves out, with content in the record.
OutOfScope(rec) ==
    {p \in Path \ scope : rec.tree[p] # Absent \/ rec.blob[p] \notin {Absent, Unset}}

\* trim: nothing is written when nothing is left to drop.
Trimmed(rec, flagged) ==
    LET dropped == OutOfScope(rec)
    IN  IF dropped = {} THEN rec ELSE Fold(rec, flagged, {}, dropped)

\* What each operation ends with, in one critical section: scan_root trims the
\* record and lists the rows.
Scanned(rec, flagged) ==
    LET kept == Trimmed(rec, flagged)
    IN  /\ tree' = kept.tree /\ blob' = kept.blob /\ notes' = flagged
        /\ UNCHANGED world
        /\ pile' = [p \in Path |-> Row(p)']

-----------------------------------------------------------------------------
Init ==
    /\ disk \in [Path -> File] /\ scope \in SUBSET Path /\ limit \in Limits
    \* first sight: draft_initial pending, or seen
    /\ \/ tree = [p \in Path |-> Absent]
       \/ tree = [p \in Path |-> IF p \in scope /\ ~TooBig(p) THEN disk[p] ELSE Absent]
    /\ blob = [p \in Path |-> Unset] /\ notes = {} /\ undo = <<>> /\ gone = {}
    /\ pile = [p \in Path |-> NoRow] /\ moves = 0

Scan ==
    /\ Scanned([tree |-> tree, blob |-> blob], notes)
    /\ UNCHANGED <<undo, gone>>

Shown == {p \in Path : pile[p] # NoRow}

\* What becomes of the paths let go when the rows of taken are accepted.
Gone(taken) == (gone \ taken) \cup {p \in taken : pile[p].unread}

\* accept_file, accept_deletion, accept_group: rows whose file is still what
\* was shown; one not read has no content to compare.
Accept(Q) ==
    LET taken == {p \in Q : pile[p].unread \/ pile[p].current = disk[p]}
        over  == [p \in Path |-> IF p \in taken THEN Staged(p) ELSE blob[p]]
    IN  /\ Q \subseteq Shown
        /\ taken # {}
        /\ undo' = Pushed(Before(taken))
        /\ gone' = Gone(taken)
        /\ Scanned(Committed(over, notes), notes)

\* accept_all: the snapshot as it was shown, folded at once.
AcceptAll ==
    /\ Shown # {}
    /\ undo' = Pushed(Before(Shown))
    /\ gone' = Gone(Shown)
    /\ Scanned(Fold([tree |-> tree, blob |-> blob], notes, Shown, {}), notes)

\* undo: baselines go back, releases as releases.
Undo ==
    /\ undo # <<>>
    /\ LET last == undo[Len(undo)]
           Back(p) == IF last[p].released THEN Absent ELSE Override(p, last[p].baseline)
           over == [p \in Path |-> IF p \in DOMAIN last THEN Back(p) ELSE blob[p]]
       IN  /\ undo' = SubSeq(undo, 1, Len(undo) - 1)
           /\ gone' = (gone \ DOMAIN last) \cup {p \in DOMAIN last : last[p].gone}
           /\ Scanned([tree |-> tree, blob |-> over], notes)

\* A flag asks for its path again, in whatever an undo may restore.
Asked(p, entry) == [q \in DOMAIN entry |-> [entry[q] EXCEPT !.gone = @ /\ q # p]]

Flag(p) ==
    /\ p \in Shown
    /\ undo' = [n \in DOMAIN undo |-> Asked(p, undo[n])]
    /\ gone' = gone \ {p}
    /\ Scanned(Committed(blob, notes \cup {p}), notes \cup {p})

Unflag(p) ==
    /\ p \in Shown \cap notes
    /\ UNCHANGED <<undo, gone>>
    /\ Scanned(Committed(blob, notes \ {p}), notes \ {p})

Move == moves < MaxMoves /\ moves' = moves + 1

Edit(p) ==
    /\ Move
    /\ \E file \in File \ {disk[p]} : disk' = [disk EXCEPT ![p] = file]
    /\ UNCHANGED <<scope, limit, record, pile>>

\* rescan and reload carry the settings onto the open root.
SetScope ==
    /\ Move
    /\ scope' \in SUBSET Path \ {scope}
    /\ UNCHANGED <<disk, limit, record, pile>>

SetLimit ==
    /\ Move
    /\ limit' \in Limits \ {limit}
    /\ UNCHANGED <<disk, scope, record, pile>>

Next ==
    \/ Scan \/ AcceptAll \/ Undo \/ SetScope \/ SetLimit
    \/ \E Q \in SUBSET Path : Accept(Q)
    \/ \E p \in Path : Flag(p) \/ Unflag(p) \/ Edit(p)

Spec == Init /\ [][Next]_vars

-----------------------------------------------------------------------------
(* Properties.                                                             *)

\* A file the reader let go stays off the list, whatever is folded, trimmed,
\* undone or noted of other accepts, until it is small enough to be read, the
\* accept that let it go is undone, or the reader flags it anew.
LetGoStaysGone == \A p \in gone : TooBig(p) => Row(p) = NoRow

\* What an act of the reader is on.
ActOn(p) ==
    \/ \E Q \in SUBSET Path : p \in Q /\ Accept(Q)
    \/ AcceptAll /\ p \in Shown
    \/ Undo /\ p \in DOMAIN undo[Len(undo)]
    \/ Flag(p) \/ Unflag(p)

\* "Pile before == pile after": what a scan's trim or an act on other paths
\* folds leaves every other row as it was (but for a file that is as it was
\* recorded and has become too large since: the index never lists it).
OthersKeepTheirRow ==
    [][UNCHANGED world =>
          \A p \in scope : \/ Row(p)' = Row(p) \/ ActOn(p)
                           \/ TooBig(p) /\ disk[p] = Baseline(p)]_vars

\* An accepted row whose file is still what was shown is off the list.
AcceptedLeaves ==
    [][\A p \in scope :
          /\ \/ AcceptAll /\ p \in Shown
             \/ \E Q \in SUBSET Path : p \in Q /\ Accept(Q)
          /\ IF pile[p].unread THEN TooBig(p) ELSE ~TooBig(p) /\ pile[p].current = disk[p]
          => Row(p)' = NoRow]_vars

\* A scan leaves the record with what the scope covers, as it was, and nothing
\* else.
TrimIsExact ==
    [][Scan => \A p \in Path : Baseline(p)' = IF p \in scope THEN Baseline(p) ELSE Absent]_vars

=============================================================================
