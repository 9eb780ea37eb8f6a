---------------------------- MODULE FolderProofs ----------------------------
(* Proofs about the record of a watched folder, for any number of paths,   *)
(* sizes, limits and changes.                                              *)
EXTENDS Folder, TLAPS

-----------------------------------------------------------------------------
(* Records.                                                                *)

Rec == [tree : [Path -> File], blob : [Path -> File \cup {Unset}]]

\* What a record says of a path.
At(rec, p) == IF rec.blob[p] # Unset THEN rec.blob[p] ELSE rec.tree[p]

\* A record without p: a file there is not listed for its size.
Without(rec, flagged, p) ==
    At(rec, p) = Absent /\ (p \in flagged => rec.blob[p] = Absent)

RowsOK == pile \in [Path -> Rows \cup {NoRow}]

\* A row not read has no content.
UnreadRows == \A p \in Shown : pile[p].unread => pile[p].current = Absent

LEMMA FileFacts ==
    /\ Absent \in File /\ Unset \notin File /\ Absent # Unset
    /\ \A file \in File : file # Absent => file \in Nat
BY SizesAssumption, FolderNames DEF File

LEMMA FoldType ==
    ASSUME RowsOK, NEW rec \in Rec, NEW flagged,
           NEW R \in SUBSET Shown, NEW dropped \in SUBSET Path
    PROVE  Fold(rec, flagged, R, dropped) \in Rec
<1>1. ASSUME NEW p \in Path
      PROVE  /\ rec.blob[p] \in File \cup {Unset} /\ rec.tree[p] \in File
             /\ p \in R => pile[p].current \in File
  BY DEF Rec, RowsOK, Rows, Shown
<1>2. FoldedTree(rec, R, dropped) \in [Path -> File]
  BY <1>1, FileFacts DEF FoldedTree
<1>3. FoldedBlob(rec, flagged, R, dropped) \in [Path -> File \cup {Unset}]
  BY FileFacts DEF FoldedBlob
<1> QED
  BY <1>2, <1>3 DEF Fold, Rec

\* A fold says of each path what the later of its sources says, and leaves a
\* path without a record as it is.
LEMMA FoldSays ==
    ASSUME RowsOK, NEW rec \in Rec, NEW flagged,
           NEW R \in SUBSET Shown, NEW dropped \in SUBSET Path, NEW p \in Path
    PROVE  LET new == Fold(rec, flagged, R, dropped)
           IN  /\ p \in dropped => At(new, p) = Absent
               /\ p \in R \ dropped => At(new, p) = pile[p].current
               /\ p \notin R \cup dropped =>
                    /\ At(new, p) = At(rec, p)
                    /\ Without(new, flagged, p) <=> Without(rec, flagged, p)
               /\ p \notin R /\ Without(rec, flagged, p) => Without(new, flagged, p)
               /\ p \in R /\ pile[p].unread /\ pile[p].current = Absent
                    => Without(new, flagged, p)
<1> DEFINE new == Fold(rec, flagged, R, dropped)
           kept == /\ p \in flagged
                   /\ rec.blob[p] = Absent \/ (p \in R /\ pile[p].unread)
                   /\ new.tree[p] = Absent
<1>1. rec.blob[p] \in File \cup {Unset} /\ rec.tree[p] \in File
  BY DEF Rec
<1>2. new.blob[p] = IF kept THEN Absent ELSE Unset
  BY DEF Fold, FoldedBlob
<1>3. new.tree[p] = CASE p \in dropped -> Absent
                      [] p \in R \ dropped -> pile[p].current
                      [] OTHER -> IF rec.blob[p] # Unset THEN rec.blob[p] ELSE rec.tree[p]
  BY DEF Fold, FoldedTree
<1>4. At(new, p) = new.tree[p]
  BY <1>2, FileFacts DEF At
<1> HIDE DEF new
<1>5. CASE p \in dropped
  <2>1. new.tree[p] = Absent
    BY <1>3, <1>5
  <2> QED
    BY <1>1, <1>2, <1>4, <1>5, <2>1, FileFacts DEF Without, At, new
<1>6. CASE p \in R \ dropped
  <2>1. new.tree[p] = pile[p].current
    BY <1>3, <1>6
  <2> QED
    BY <1>1, <1>2, <1>4, <1>6, <2>1, FileFacts DEF Without, At, new
<1>7. CASE p \notin R \cup dropped
  <2>1. new.tree[p] = At(rec, p)
    BY <1>3, <1>7 DEF At
  <2>2. new.blob[p] = IF p \in flagged /\ rec.blob[p] = Absent THEN Absent ELSE Unset
    BY <1>2, <2>1, <1>7, FileFacts DEF At
  <2> QED
    BY <1>1, <1>4, <1>7, <2>1, <2>2, FileFacts DEF Without, At, new
<1> QED
  BY <1>5, <1>6, <1>7

\* A compaction changes nothing of what the record says.
LEMMA CommittedSays ==
    ASSUME RowsOK, NEW over \in [Path -> File \cup {Unset}], NEW flagged,
           tree \in [Path -> File]
    PROVE  /\ Committed(over, flagged) \in Rec
           /\ \A p \in Path :
                LET old == [tree |-> tree, blob |-> over]
                    new == Committed(over, flagged)
                IN  /\ At(new, p) = At(old, p)
                    /\ Without(new, flagged, p) <=> Without(old, flagged, p)
<1> DEFINE old == [tree |-> tree, blob |-> over]
<1>1. old \in Rec
  BY DEF Rec
<1>2. Committed(over, flagged) \in {old, Fold(old, flagged, {}, {})}
  BY DEF Committed
<1> HIDE DEF old
<1>3. Fold(old, flagged, {}, {}) \in Rec
  BY <1>1, FoldType
<1>4. ASSUME NEW p \in Path
      PROVE  LET new == Fold(old, flagged, {}, {})
             IN  /\ At(new, p) = At(old, p)
                 /\ Without(new, flagged, p) <=> Without(old, flagged, p)
  BY <1>1, FoldSays
<1> QED
  BY <1>1, <1>2, <1>3, <1>4 DEF old

\* The trim empties what the scope leaves out and changes nothing else.
LEMMA TrimmedSays ==
    ASSUME RowsOK, NEW rec \in Rec, NEW flagged
    PROVE  /\ Trimmed(rec, flagged) \in Rec
           /\ \A p \in Path :
                LET new == Trimmed(rec, flagged)
                IN  /\ At(new, p) = IF p \in scope THEN At(rec, p) ELSE Absent
                    /\ Without(rec, flagged, p) => Without(new, flagged, p)
                    /\ p \in scope => (Without(new, flagged, p) <=> Without(rec, flagged, p))
<1> DEFINE dropped == OutOfScope(rec)
<1>1. dropped \subseteq Path \ scope
  BY DEF OutOfScope
<1>2. \A p \in Path \ scope : p \notin dropped => At(rec, p) = Absent
  BY FileFacts DEF OutOfScope, At
<1>3. Trimmed(rec, flagged) = IF dropped = {} THEN rec ELSE Fold(rec, flagged, {}, dropped)
  BY DEF Trimmed
<1> HIDE DEF dropped
<1>4. Fold(rec, flagged, {}, dropped) \in Rec
  BY <1>1, FoldType
<1>5. ASSUME NEW p \in Path
      PROVE  LET new == Fold(rec, flagged, {}, dropped)
             IN  /\ At(new, p) = IF p \in scope THEN At(rec, p) ELSE Absent
                 /\ Without(rec, flagged, p) => Without(new, flagged, p)
                 /\ p \in scope => (Without(new, flagged, p) <=> Without(rec, flagged, p))
  BY <1>1, <1>2, FoldSays
<1> QED
  BY <1>2, <1>3, <1>4, <1>5

-----------------------------------------------------------------------------
(* Types.                                                                  *)

RecordOK == /\ tree \in [Path -> File] /\ blob \in [Path -> File \cup {Unset}]
            /\ notes \subseteq Path /\ gone \subseteq Path
WorldOK == /\ disk \in [Path -> File] /\ scope \subseteq Path /\ limit \in Limits
           /\ moves \in 0..MaxMoves
UndoOK == undo \in Seq(Entries) /\ Len(undo) \leq UndoCap

LEMMA Parts == TypeOK <=> RecordOK /\ WorldOK /\ UndoOK /\ RowsOK
BY DEF TypeOK, RecordOK, WorldOK, UndoOK, RowsOK

Now == [tree |-> tree, blob |-> blob]

LEMMA NowSays ==
    ASSUME RecordOK
    PROVE  /\ Now \in Rec
           /\ \A p \in Path : /\ Baseline(p) = At(Now, p)
                              /\ RecordHolds(p) <=> ~Without(Now, notes, p)
<1>1. Now \in Rec
  BY DEF RecordOK, Now, Rec
<1>2. ASSUME NEW p \in Path
      PROVE  Baseline(p) = At(Now, p) /\ (RecordHolds(p) <=> ~Without(Now, notes, p))
  BY FileFacts DEF RecordOK, Now, Baseline, RecordHolds, At, Without
<1> QED
  BY <1>1, <1>2

\* A row is typed, and one not read has no content.
LEMMA RowTyped ==
    ASSUME disk' \in [Path -> File]
    PROVE  \A p \in Path : /\ Row(p)' \in Rows \cup {NoRow}
                           /\ Row(p)'.unread => Row(p)' = NoRow \/ Row(p)'.current = Absent
BY FileFacts DEF Row, Rows, NotRead

\* What the end of an operation leaves of the record it is given.
LEMMA ScannedSays ==
    ASSUME TypeOK, NEW rec \in Rec, NEW flagged \in SUBSET Path, Scanned(rec, flagged)
    PROVE  /\ tree' \in [Path -> File] /\ blob' \in [Path -> File \cup {Unset}]
           /\ notes' = flagged /\ UNCHANGED world
           /\ RowsOK' /\ UnreadRows'
           /\ pile' = [p \in Path |-> Row(p)']
           /\ \A p \in Path :
                /\ Baseline(p)' = IF p \in scope THEN At(rec, p) ELSE Absent
                /\ Without(rec, flagged, p) => ~RecordHolds(p)'
                /\ p \in scope => (RecordHolds(p)' <=> ~Without(rec, flagged, p))
<1> DEFINE kept == Trimmed(rec, flagged)
<1>1. /\ kept \in Rec /\ tree' = kept.tree /\ blob' = kept.blob
      /\ notes' = flagged /\ UNCHANGED world /\ pile' = [p \in Path |-> Row(p)']
  BY Parts, TrimmedSays DEF Scanned
<1>2. RowsOK' /\ UnreadRows'
  <2>1. disk' \in [Path -> File]
    BY <1>1, Parts DEF WorldOK, world
  <2> QED
    BY <1>1, <2>1, RowTyped DEF RowsOK, UnreadRows, Shown
<1>3. kept = [tree |-> kept.tree, blob |-> kept.blob]
  BY <1>1 DEF Rec
<1>4. Now' = kept
  BY <1>1, <1>3 DEF Now
<1>5. tree' \in [Path -> File] /\ blob' \in [Path -> File \cup {Unset}]
  BY <1>1 DEF Rec
<1>6. \A p \in Path : /\ Baseline(p)' = At(kept, p)
                      /\ RecordHolds(p)' <=> ~Without(kept, flagged, p)
  <2> HIDE DEF kept
  <2> QED
  BY <1>1, <1>4, <1>5, FileFacts DEF Now, Baseline, RecordHolds, At, Without
<1> HIDE DEF kept
<1>7. \A p \in Path :
         /\ At(kept, p) = IF p \in scope THEN At(rec, p) ELSE Absent
         /\ Without(rec, flagged, p) => Without(kept, flagged, p)
         /\ p \in scope => (Without(kept, flagged, p) <=> Without(rec, flagged, p))
  BY Parts, TrimmedSays DEF kept
<1> QED
  BY <1>1, <1>2, <1>5, <1>6, <1>7

-----------------------------------------------------------------------------
(* What each act makes of the record.                                      *)

\* A record that differs from the present one at the paths of Q only.
Apart(rec, flagged, Q) ==
    \A p \in Path \ Q : /\ At(rec, p) = Baseline(p)
                        /\ Without(rec, flagged, p) <=> ~RecordHolds(p)

\* The content of a row, or nothing where it was not read.
Lands(rec, p) ==
    /\ At(rec, p) = pile[p].current
    /\ pile[p].unread => Without(rec, notes, p)

Taken(Q) == {p \in Q : pile[p].unread \/ pile[p].current = disk[p]}

LEMMA AcceptSays ==
    ASSUME TypeOK, UnreadRows, NEW Q \in SUBSET Path, Accept(Q)
    PROVE  \E rec \in Rec : /\ Scanned(rec, notes) /\ Apart(rec, notes, Taken(Q))
                            /\ \A p \in Taken(Q) : Lands(rec, p)
<1> DEFINE over == [p \in Path |-> IF p \in Taken(Q) THEN Staged(p) ELSE blob[p]]
           rec == Committed(over, notes)
           old == [tree |-> tree, blob |-> over]
<1>1. Taken(Q) \subseteq Shown /\ Scanned(rec, notes)
  BY DEF Accept, Taken
<1>2. over \in [Path -> File \cup {Unset}]
  <2>1. ASSUME NEW p \in Taken(Q)
        PROVE  Staged(p) \in File \cup {Unset}
    BY <1>1, FileFacts, Parts DEF RowsOK, Rows, Shown, Staged, Override, Taken
  <2> QED
    BY <2>1, Parts DEF RecordOK
<1>3. /\ rec \in Rec
      /\ \A p \in Path : /\ At(rec, p) = At(old, p)
                         /\ Without(rec, notes, p) <=> Without(old, notes, p)
  BY <1>2, CommittedSays, Parts DEF RecordOK
<1> HIDE DEF rec
<1>4. Apart(old, notes, Taken(Q))
  BY Parts, NowSays DEF Apart, At, Without, Now
<1>5. ASSUME NEW p \in Taken(Q)
      PROVE  Lands(old, p)
  <2>1. p \in Path /\ pile[p].current \in File /\ tree[p] \in File
        /\ (pile[p].unread => pile[p].current = Absent)
    BY <1>1, Parts DEF UnreadRows, RowsOK, RecordOK, Rows, Shown, Taken
  <2>2. old.blob[p] = Staged(p) /\ old.tree[p] = tree[p]
    BY <2>1
  <2> QED
    BY <2>1, <2>2, FileFacts DEF Lands, At, Without, Staged, Override
<1> HIDE DEF old
<1>6. Apart(rec, notes, Taken(Q)) /\ \A p \in Taken(Q) : Lands(rec, p)
  BY <1>1, <1>3, <1>4, <1>5 DEF Apart, Lands, Shown
<1> QED
  BY <1>1, <1>3, <1>6

LEMMA AcceptAllSays ==
    ASSUME TypeOK, UnreadRows, AcceptAll
    PROVE  \E rec \in Rec : /\ Scanned(rec, notes) /\ Apart(rec, notes, Shown)
                            /\ \A p \in Shown : Lands(rec, p)
<1> DEFINE rec == Fold(Now, notes, Shown, {})
<1>1. Scanned(rec, notes)
  BY DEF AcceptAll, Now
<1>2. Now \in Rec /\ \A p \in Path : /\ Baseline(p) = At(Now, p)
                                     /\ RecordHolds(p) <=> ~Without(Now, notes, p)
  BY Parts, NowSays
<1>3. rec \in Rec
  BY <1>2, FoldType, Parts
<1>4. Apart(rec, notes, Shown)
  BY <1>2, FoldSays, Parts DEF Apart
<1>5. \A p \in Shown : Lands(rec, p)
  BY <1>2, FoldSays, Parts DEF Lands, Shown, UnreadRows
<1> QED
  BY <1>1, <1>3, <1>4, <1>5

\* An undo puts back the baselines of its entry, and releases as such.
LEMMA UndoSays ==
    ASSUME TypeOK, Undo
    PROVE  LET last == undo[Len(undo)]
           IN  \E rec \in Rec :
                 /\ Scanned(rec, notes) /\ Apart(rec, notes, DOMAIN last)
                 /\ \A p \in DOMAIN last :
                      /\ last[p].baseline = Absent => At(rec, p) = Absent
                      /\ last[p].released => Without(rec, notes, p)
<1> DEFINE last == undo[Len(undo)]
           Back(p) == IF last[p].released THEN Absent ELSE Override(p, last[p].baseline)
           over == [p \in Path |-> IF p \in DOMAIN last THEN Back(p) ELSE blob[p]]
           rec == [tree |-> tree, blob |-> over]
<1>1. Scanned(rec, notes)
  BY DEF Undo
<1>2. last \in Entries
  BY Parts DEF Undo, UndoOK
<1>3. DOMAIN last \subseteq Path /\ \A p \in DOMAIN last : last[p].baseline \in File
  BY <1>2 DEF Entries, Entry
<1>4. over \in [Path -> File \cup {Unset}]
  BY <1>3, FileFacts, Parts DEF RecordOK, Override
<1>5. rec \in Rec
  BY <1>4, Parts DEF Rec, RecordOK
<1>6. Apart(rec, notes, DOMAIN last)
  BY Parts, NowSays DEF Apart, At, Without, Now
<1>7. ASSUME NEW p \in DOMAIN last
      PROVE  /\ last[p].baseline = Absent => At(rec, p) = Absent
             /\ last[p].released => Without(rec, notes, p)
  <2>1. rec.blob[p] = Back(p) /\ rec.tree[p] = tree[p]
    BY <1>3
  <2> QED
    BY <2>1, FileFacts DEF At, Without, Override
<1> QED
  BY <1>1, <1>5, <1>6, <1>7

\* A flag, a flag withdrawn, and a scan change what is said of no other path.
LEMMA OthersSay ==
    ASSUME TypeOK
    PROVE  /\ \A p \in Path : Flag(p) =>
                \E rec \in Rec : /\ Scanned(rec, notes \cup {p})
                                 /\ Apart(rec, notes \cup {p}, {p})
           /\ \A p \in Path : Unflag(p) =>
                \E rec \in Rec : /\ Scanned(rec, notes \ {p})
                                 /\ Apart(rec, notes \ {p}, {p})
                                 /\ ~RecordHolds(p) => Without(rec, notes \ {p}, p)
           /\ Scan => \E rec \in Rec : Scanned(rec, notes) /\ Apart(rec, notes, {})
<1>1. Now \in Rec /\ \A p \in Path : /\ Baseline(p) = At(Now, p)
                                     /\ RecordHolds(p) <=> ~Without(Now, notes, p)
  BY Parts, NowSays
<1>2. ASSUME NEW flagged
      PROVE  /\ Committed(blob, flagged) \in Rec
             /\ \A p \in Path : /\ At(Committed(blob, flagged), p) = At(Now, p)
                                /\ Without(Committed(blob, flagged), flagged, p)
                                     <=> Without(Now, flagged, p)
  BY CommittedSays, Parts DEF RecordOK, Now
<1>3. ASSUME NEW p \in Path, Flag(p)
      PROVE  \E rec \in Rec : /\ Scanned(rec, notes \cup {p})
                              /\ Apart(rec, notes \cup {p}, {p})
  BY <1>1, <1>2, <1>3 DEF Flag, Apart, Without
<1>4. ASSUME NEW p \in Path, Unflag(p)
      PROVE  \E rec \in Rec : /\ Scanned(rec, notes \ {p})
                              /\ Apart(rec, notes \ {p}, {p})
                              /\ ~RecordHolds(p) => Without(rec, notes \ {p}, p)
  BY <1>1, <1>2, <1>4 DEF Unflag, Apart, Without
<1>5. Scan => Scanned(Now, notes) /\ Apart(Now, notes, {})
  BY <1>1 DEF Scan, Apart, Now
<1> QED
  BY <1>1, <1>3, <1>4, <1>5

-----------------------------------------------------------------------------
(* Type correctness.                                                       *)

LEMMA RecordStep ==
    ASSUME TypeOK, UnreadRows, [Next]_vars
    PROVE  (RecordOK /\ WorldOK /\ RowsOK)' /\ UnreadRows'
<1>1. ASSUME NEW rec \in Rec, NEW flagged \in SUBSET Path, Scanned(rec, flagged),
             gone' \subseteq Path
      PROVE  (RecordOK /\ WorldOK /\ RowsOK)' /\ UnreadRows'
  BY <1>1, ScannedSays, Parts DEF RecordOK, WorldOK, world
<1>2. notes \subseteq Path /\ gone \subseteq Path
  BY Parts DEF RecordOK
<1>3. ASSUME NEW Q \in SUBSET Path, Accept(Q)
      PROVE  (RecordOK /\ WorldOK /\ RowsOK)' /\ UnreadRows'
  BY <1>1, <1>2, <1>3, AcceptSays DEF Accept, Gone
<1>4. CASE AcceptAll
  BY <1>1, <1>2, <1>4, AcceptAllSays DEF AcceptAll, Gone, Shown
<1>5. CASE Undo
  <2>1. undo[Len(undo)] \in Entries
    BY <1>5, Parts DEF Undo, UndoOK
  <2>2. gone' \subseteq Path
    BY <1>2, <1>5, <2>1 DEF Undo, Entries
  <2> QED
    BY <1>1, <1>2, <1>5, <2>2, UndoSays
<1>6. CASE Scan \/ \E p \in Path : Flag(p) \/ Unflag(p)
  BY <1>1, <1>2, <1>6, OthersSay DEF Scan, Flag, Unflag
<1>7. CASE SetScope \/ SetLimit \/ \E p \in Path : Edit(p)
  <2>1. WorldOK'
    <3>1. moves' \in 0..MaxMoves
      BY <1>7, FolderBounds, Parts DEF SetScope, SetLimit, Edit, Move, WorldOK
    <3> QED
      BY <1>7, <3>1, Parts DEF SetScope, SetLimit, Edit, WorldOK
  <2> QED
    BY <1>7, <2>1, Parts DEF SetScope, SetLimit, Edit, record, RecordOK, RowsOK,
                              UnreadRows, Shown
<1>8. CASE UNCHANGED vars
  BY <1>8, Parts DEF vars, world, record, RecordOK, WorldOK, RowsOK, UnreadRows, Shown
<1> QED
  BY <1>3, <1>4, <1>5, <1>6, <1>7, <1>8 DEF Next

LEMMA BeforeTyped ==
    ASSUME TypeOK, NEW Q \in SUBSET Path
    PROVE  Before(Q) \in Entries
<1>1. \A p \in Path : Baseline(p) \in File
  BY Parts DEF RecordOK, Baseline
<1>2. Before(Q) \in [Q -> Entry]
  BY <1>1 DEF Before, Entry, Releases
<1> QED
  BY <1>2 DEF Entries

\* What is pushed lands on top of what was there.
LEMMA PushedIs ==
    ASSUME UndoOK, NEW entry \in Entries
    PROVE  /\ Pushed(entry) \in Seq(Entries) /\ Len(Pushed(entry)) \leq UndoCap
           /\ \A n \in DOMAIN Pushed(entry) :
                 \/ Pushed(entry)[n] = entry
                 \/ \E k \in DOMAIN undo : Pushed(entry)[n] = undo[k]
<1> DEFINE longer == Append(undo, entry)
<1>1. UndoCap \in Nat \ {0} /\ Len(undo) \in Nat
  BY FolderBounds DEF UndoOK
<1>2. /\ longer \in Seq(Entries) /\ Len(longer) = Len(undo) + 1
      /\ \A n \in 1..Len(longer) : longer[n] = IF n = Len(longer) THEN entry ELSE undo[n]
  BY DEF UndoOK
<1>3. /\ Tail(longer) \in Seq(Entries) /\ Len(Tail(longer)) = Len(undo)
      /\ \A n \in 1..Len(undo) : Tail(longer)[n] = longer[n + 1]
  BY <1>1, <1>2
<1> HIDE DEF longer
<1>4. DOMAIN undo = 1..Len(undo) /\ DOMAIN longer = 1..Len(longer)
      /\ DOMAIN Tail(longer) = 1..Len(undo)
  BY <1>2, <1>3 DEF UndoOK
<1>5. Pushed(entry) = IF Len(undo) < UndoCap THEN longer ELSE Tail(longer)
  BY DEF Pushed, longer
<1>6. CASE Len(undo) < UndoCap
  <2>1. Len(longer) \leq UndoCap
    BY <1>1, <1>2, <1>6
  <2> QED
    BY <1>1, <1>2, <1>4, <1>5, <1>6, <2>1
<1>7. CASE ~(Len(undo) < UndoCap)
  <2>1. \A n \in 1..Len(undo) : \/ Tail(longer)[n] = entry
                                \/ n + 1 \in 1..Len(undo) /\ Tail(longer)[n] = undo[n + 1]
    BY <1>1, <1>2, <1>3
  <2>2. Len(Tail(longer)) \leq UndoCap
    BY <1>1, <1>3 DEF UndoOK
  <2> QED
    BY <1>3, <1>4, <1>5, <1>7, <2>1, <2>2
<1> QED
  BY <1>6, <1>7

LEMMA UndoStep ==
    ASSUME TypeOK, [Next]_vars
    PROVE  UndoOK'
<1>1. ASSUME NEW Q \in SUBSET Path, undo' = Pushed(Before(Q))
      PROVE  UndoOK'
  BY <1>1, BeforeTyped, PushedIs, Parts DEF UndoOK
<1>2. ASSUME NEW Q \in SUBSET Path, Accept(Q)
      PROVE  UndoOK'
  BY <1>1, <1>2 DEF Accept
<1>3. CASE AcceptAll
  BY <1>1, <1>3 DEF AcceptAll, Shown
<1>4. CASE Undo
  BY <1>4, FolderBounds, Parts DEF Undo, UndoOK
<1>5. ASSUME NEW p \in Path, Flag(p)
      PROVE  UndoOK'
  <2>1. ASSUME NEW entry \in Entries
        PROVE  Asked(p, entry) \in Entries
    <3>1. PICK Q \in SUBSET Path : entry \in [Q -> Entry]
      BY DEF Entries
    <3>2. \A q \in Q : [entry[q] EXCEPT !.gone = @ /\ q # p] \in Entry
      BY <3>1 DEF Entry
    <3>3. Asked(p, entry) \in [Q -> Entry]
      BY <3>1, <3>2 DEF Asked
    <3> QED
      BY <3>3 DEF Entries
  <2>2. undo' \in Seq(Entries) /\ Len(undo') = Len(undo)
    BY <1>5, <2>1, Parts DEF Flag, UndoOK
  <2> QED
    BY <2>2, Parts DEF UndoOK
<1>6. CASE \/ Scan \/ SetScope \/ SetLimit
           \/ \E p \in Path : Unflag(p) \/ Edit(p)
           \/ UNCHANGED vars
  BY <1>6, Parts DEF Scan, SetScope, SetLimit, Unflag, Edit, record, vars, UndoOK
<1> QED
  BY <1>2, <1>3, <1>4, <1>5, <1>6 DEF Next

LEMMA InitTyped == Init => TypeOK /\ UnreadRows
<1> SUFFICES ASSUME Init PROVE TypeOK /\ UnreadRows
  OBVIOUS
<1>1. RecordOK /\ WorldOK
  BY FileFacts, FolderBounds DEF Init, RecordOK, WorldOK
<1>2. UndoOK
  BY FolderBounds DEF Init, UndoOK
<1>3. RowsOK /\ UnreadRows
  BY DEF Init, RowsOK, UnreadRows, Shown
<1> QED
  BY <1>1, <1>2, <1>3, Parts

\* For any paths, sizes, limits and bounds: the record, the undo stack and the
\* rows keep their types; a row not read has no content.
THEOREM TypeCorrect == Spec => [](TypeOK /\ UnreadRows)
<1>1. Init => TypeOK /\ UnreadRows
  BY InitTyped
<1>2. TypeOK /\ UnreadRows /\ [Next]_vars => (TypeOK /\ UnreadRows)'
  <2> SUFFICES ASSUME TypeOK, UnreadRows, [Next]_vars
               PROVE  TypeOK' /\ UnreadRows'
    OBVIOUS
  <2>1. (RecordOK /\ WorldOK /\ RowsOK)' /\ UnreadRows' /\ UndoOK'
    BY RecordStep, UndoStep
  <2> QED
    BY <2>1 DEF TypeOK, RecordOK, WorldOK, RowsOK, UndoOK
<1> QED
  BY <1>1, <1>2, PTL DEF Spec

-----------------------------------------------------------------------------
(* Files let go.                                                           *)

LetGo == \A p \in gone : ~RecordHolds(p)

\* What an undo would put back of paths let go before: the release, where a
\* flag would otherwise hold the path.
LetGoBefore ==
    \A n \in DOMAIN undo : \A p \in DOMAIN undo[n] :
        undo[n][p].gone => /\ undo[n][p].baseline = Absent
                           /\ p \in notes => undo[n][p].released

Inv == TypeOK /\ UnreadRows /\ LetGo /\ LetGoBefore

\* An operation on the paths of Q keeps the others away.
LEMMA LetGoKept ==
    ASSUME TypeOK, LetGo, NEW rec \in Rec, NEW flagged \in SUBSET Path, NEW Q,
           Scanned(rec, flagged), Apart(rec, flagged, Q),
           gone' \subseteq Path,
           \A p \in gone' : p \in Q => Without(rec, flagged, p),
           \A p \in gone' : p \notin Q => p \in gone
    PROVE  LetGo'
<1> SUFFICES ASSUME NEW p \in gone'
             PROVE  ~RecordHolds(p)'
  BY DEF LetGo
<1>1. p \in Path
  BY Parts DEF RecordOK
<1>2. Without(rec, flagged, p)
  BY <1>1 DEF Apart, LetGo
<1> QED
  BY <1>1, <1>2, ScannedSays

LEMMA PushedKeeps ==
    ASSUME Inv, NEW Q \in SUBSET Path, undo' = Pushed(Before(Q)), notes' = notes
    PROVE  LetGoBefore'
<1>1. UndoOK /\ Before(Q) \in Entries
  BY BeforeTyped, Parts DEF Inv
<1>2. \A p \in DOMAIN Before(Q) :
         Before(Q)[p].gone => /\ Before(Q)[p].baseline = Absent
                              /\ p \in notes => Before(Q)[p].released
  <2> SUFFICES ASSUME NEW p \in Q, p \in gone
               PROVE  Baseline(p) = Absent /\ (p \in notes => Releases(p))
    BY DEF Before
  <2>1. p \in Path /\ ~RecordHolds(p) /\ RecordOK
    BY Parts DEF Inv, LetGo
  <2> QED
    BY <2>1, NowSays, FileFacts DEF Without, Now, Releases
<1> QED
  BY <1>1, <1>2, PushedIs DEF Inv, LetGoBefore

LEMMA LetGoStep ==
    ASSUME Inv, [Next]_vars
    PROVE  LetGo' /\ LetGoBefore'
<1>1. TypeOK /\ UnreadRows /\ LetGo /\ LetGoBefore /\ RecordOK /\ UndoOK /\ RowsOK
  BY Parts DEF Inv
<1>2. notes \subseteq Path /\ gone \subseteq Path
  BY <1>1 DEF RecordOK
<1>3. ASSUME NEW Q \in SUBSET Path, Accept(Q)
      PROVE  LetGo' /\ LetGoBefore'
  <2>1. gone' = Gone(Taken(Q)) /\ undo' = Pushed(Before(Taken(Q))) /\ Taken(Q) \subseteq Path
    BY <1>3 DEF Accept, Taken
  <2>2. PICK rec \in Rec : /\ Scanned(rec, notes) /\ Apart(rec, notes, Taken(Q))
                           /\ \A p \in Taken(Q) : Lands(rec, p)
    BY <1>1, <1>3, AcceptSays
  <2>3. LetGo'
    BY <1>1, <1>2, <2>1, <2>2, LetGoKept DEF Gone, Lands
  <2>4. notes' = notes
    BY <2>2 DEF Scanned
  <2> QED
    BY <2>1, <2>3, <2>4, PushedKeeps
<1>4. CASE AcceptAll
  <2>1. gone' = Gone(Shown) /\ undo' = Pushed(Before(Shown)) /\ Shown \subseteq Path
    BY <1>4 DEF AcceptAll, Shown
  <2>2. PICK rec \in Rec : /\ Scanned(rec, notes) /\ Apart(rec, notes, Shown)
                           /\ \A p \in Shown : Lands(rec, p)
    BY <1>1, <1>4, AcceptAllSays
  <2>3. LetGo'
    BY <1>1, <1>2, <2>1, <2>2, LetGoKept DEF Gone, Lands
  <2>4. notes' = notes
    BY <2>2 DEF Scanned
  <2> QED
    BY <2>1, <2>3, <2>4, PushedKeeps
<1>5. CASE Undo
  <2> DEFINE last == undo[Len(undo)]
  <2>1. /\ gone' = (gone \ DOMAIN last) \cup {p \in DOMAIN last : last[p].gone}
        /\ undo # <<>> /\ undo' = SubSeq(undo, 1, Len(undo) - 1)
    BY <1>5 DEF Undo
  <2>2. last \in Entries /\ Len(undo) \in DOMAIN undo
    BY <1>1, <2>1 DEF UndoOK
  <2>3. DOMAIN last \subseteq Path
    BY <2>2 DEF Entries
  <2>4. PICK rec \in Rec :
           /\ Scanned(rec, notes) /\ Apart(rec, notes, DOMAIN last)
           /\ \A p \in DOMAIN last : /\ last[p].baseline = Absent => At(rec, p) = Absent
                                     /\ last[p].released => Without(rec, notes, p)
    BY <1>1, <1>5, UndoSays
  <2>5. \A p \in DOMAIN last : last[p].gone =>
           last[p].baseline = Absent /\ (p \in notes => last[p].released)
    BY <1>1, <2>2 DEF LetGoBefore
  <2> HIDE DEF last
  <2>6. \A p \in DOMAIN last : last[p].gone => Without(rec, notes, p)
    BY <2>4, <2>5 DEF Without
  <2>7. LetGo'
    BY <1>1, <1>2, <2>1, <2>3, <2>4, <2>6, LetGoKept
  <2>8. notes' = notes
    BY <2>4 DEF Scanned
  <2>9. \A n \in DOMAIN undo' : n \in DOMAIN undo /\ undo'[n] = undo[n]
    BY <1>1, <2>1 DEF UndoOK
  <2> QED
    BY <1>1, <2>7, <2>8, <2>9 DEF LetGoBefore
<1>6. ASSUME NEW p \in Path, Flag(p)
      PROVE  LetGo' /\ LetGoBefore'
  <2>1. PICK rec \in Rec : /\ Scanned(rec, notes \cup {p})
                           /\ Apart(rec, notes \cup {p}, {p})
    BY <1>1, <1>6, OthersSay
  <2>2. gone' = gone \ {p} /\ undo' = [n \in DOMAIN undo |-> Asked(p, undo[n])]
    BY <1>6 DEF Flag
  <2>3. LetGo'
    BY <1>1, <1>2, <2>1, <2>2, LetGoKept
  <2>4. notes' = notes \cup {p}
    BY <2>1 DEF Scanned
  <2>5. ASSUME NEW n \in DOMAIN undo', NEW q \in DOMAIN undo'[n], undo'[n][q].gone
        PROVE  undo'[n][q].baseline = Absent /\ (q \in notes' => undo'[n][q].released)
    <3>1. n \in DOMAIN undo /\ undo'[n] = Asked(p, undo[n])
      BY <2>2
    <3>2. undo[n] \in Entries
      BY <1>1, <3>1 DEF UndoOK
    <3>3. q \in DOMAIN undo[n] /\ undo[n][q] \in Entry
      BY <3>1, <3>2 DEF Entries, Asked
    <3>4. /\ undo'[n][q].gone <=> undo[n][q].gone /\ q # p
          /\ undo'[n][q].baseline = undo[n][q].baseline
          /\ undo'[n][q].released = undo[n][q].released
      BY <3>1, <3>3 DEF Asked, Entry
    <3> QED
      BY <1>1, <2>4, <2>5, <3>1, <3>3, <3>4 DEF LetGoBefore
  <2> QED
    BY <2>3, <2>5 DEF LetGoBefore
<1>7. ASSUME NEW p \in Path, Unflag(p)
      PROVE  LetGo' /\ LetGoBefore'
  <2>1. PICK rec \in Rec : /\ Scanned(rec, notes \ {p})
                           /\ Apart(rec, notes \ {p}, {p})
                           /\ ~RecordHolds(p) => Without(rec, notes \ {p}, p)
    BY <1>1, <1>7, OthersSay
  <2>2. gone' = gone /\ undo' = undo
    BY <1>7 DEF Unflag
  <2>3. LetGo'
    BY <1>1, <1>2, <2>1, <2>2, LetGoKept DEF LetGo
  <2>4. notes' = notes \ {p}
    BY <2>1 DEF Scanned
  <2> QED
    BY <1>1, <2>2, <2>3, <2>4 DEF LetGoBefore
<1>8. CASE Scan
  <2>1. PICK rec \in Rec : Scanned(rec, notes) /\ Apart(rec, notes, {})
    BY <1>1, <1>8, OthersSay
  <2>2. gone' = gone /\ undo' = undo
    BY <1>8 DEF Scan
  <2>3. LetGo'
    BY <1>1, <1>2, <2>1, <2>2, LetGoKept
  <2>4. notes' = notes
    BY <2>1 DEF Scanned
  <2> QED
    BY <1>1, <2>2, <2>3, <2>4 DEF LetGoBefore
<1>9. CASE SetScope \/ SetLimit \/ (\E p \in Path : Edit(p)) \/ UNCHANGED vars
  BY <1>1, <1>9 DEF SetScope, SetLimit, Edit, vars, record, LetGo, LetGoBefore, RecordHolds
<1> QED
  BY <1>3, <1>4, <1>6, <1>5, <1>7, <1>8, <1>9 DEF Next

THEOREM InvHolds == Spec => []Inv
<1>1. Init => Inv
  BY InitTyped DEF Init, Inv, LetGo, LetGoBefore
<1>2. Inv /\ [Next]_vars => LetGo' /\ LetGoBefore'
  BY LetGoStep
<1> QED
  BY <1>1, <1>2, TypeCorrect, PTL DEF Spec, Inv

\* For any paths, sizes, limits and bounds: a file let go stays off the list
\* through folds, trims, undos of other accepts and flags of other paths.
THEOREM GoneStaysGone == Spec => []LetGoStaysGone
<1>1. Inv => LetGoStaysGone
  <2> SUFFICES ASSUME Inv, NEW p \in gone, TooBig(p)
               PROVE  Row(p) = NoRow
    BY DEF LetGoStaysGone
  <2>1. ~RecordHolds(p)
    BY DEF Inv, LetGo
  <2> QED
    BY <2>1 DEF Row
<1> QED
  BY <1>1, InvHolds, PTL

-----------------------------------------------------------------------------
(* Rows.                                                                   *)

\* The trim leaves the record what the scope covers, as it was
\* (scan_root_once, trim).
THEOREM TrimExact == Spec => TrimIsExact
<1>1. Inv /\ [Next]_vars =>
        [Scan => \A p \in Path : Baseline(p)' = IF p \in scope THEN Baseline(p) ELSE Absent]_vars
  <2> SUFFICES ASSUME Inv, Scan, NEW p \in Path
               PROVE  Baseline(p)' = IF p \in scope THEN Baseline(p) ELSE Absent
    OBVIOUS
  <2>1. PICK rec \in Rec : Scanned(rec, notes) /\ Apart(rec, notes, {})
    BY OthersSay DEF Inv
  <2>2. notes \in SUBSET Path
    BY Parts DEF Inv, RecordOK
  <2> QED
    BY <2>1, <2>2, ScannedSays DEF Inv, Apart
<1> QED
  BY <1>1, InvHolds, PTL DEF Spec, TrimIsExact

\* For any paths and contents: an accepted row is off the list when its file
\* is still what was shown, compaction and trim included.
THEOREM AcceptedLeave == Spec => AcceptedLeaves
<1> DEFINE Accepts(p) == \/ AcceptAll /\ p \in Shown
                         \/ \E Q \in SUBSET Path : p \in Q /\ Accept(Q)
           Unmoved(p) == IF pile[p].unread THEN TooBig(p)
                         ELSE ~TooBig(p) /\ pile[p].current = disk[p]
<1>1. ASSUME Inv, NEW p \in scope, Accepts(p), Unmoved(p)
      PROVE  Row(p)' = NoRow
  <2>0. TypeOK /\ UnreadRows /\ WorldOK /\ RecordOK
    BY <1>1, Parts DEF Inv
  <2>1. p \in Path /\ TypeOK /\ UnreadRows /\ notes \in SUBSET Path
    BY <2>0 DEF WorldOK, RecordOK
  <2>2. PICK rec \in Rec : Scanned(rec, notes) /\ Lands(rec, p)
    BY <1>1, <2>1, AcceptSays, AcceptAllSays DEF Taken
  <2>3. /\ Baseline(p)' = pile[p].current /\ (pile[p].unread => ~RecordHolds(p)')
        /\ disk' = disk /\ limit' = limit
    BY <2>1, <2>2, ScannedSays DEF Lands, world
  <2>4. TooBig(p)' <=> TooBig(p)
    BY <2>3 DEF TooBig
  <2> QED
    BY <1>1, <2>3, <2>4 DEF Row
<1>2. Inv /\ [Next]_vars =>
        [\A p \in scope : Accepts(p) /\ Unmoved(p) => Row(p)' = NoRow]_vars
  BY <1>1
<1>3. Inv /\ [Next]_vars =>
        [\A p \in scope :
          /\ \/ AcceptAll /\ p \in Shown
             \/ \E Q \in SUBSET Path : p \in Q /\ Accept(Q)
          /\ IF pile[p].unread THEN TooBig(p) ELSE ~TooBig(p) /\ pile[p].current = disk[p]
          => Row(p)' = NoRow]_vars
  BY <1>2
<1> QED
  BY <1>3, InvHolds, PTL DEF Spec, AcceptedLeaves

\* A row is fixed by the file, its baseline and whether the record holds it,
\* but for a file too large that is as it was recorded.
LEMMA SameRow ==
    ASSUME TypeOK, NEW p \in scope, UNCHANGED world,
           Baseline(p)' = Baseline(p), RecordHolds(p)' <=> RecordHolds(p)
    PROVE  Row(p)' = Row(p) \/ (TooBig(p) /\ disk[p] = Baseline(p))
<1>1. disk' = disk /\ scope' = scope /\ (TooBig(p)' <=> TooBig(p))
  BY DEF world, TooBig
<1>2. ASSUME disk[p] # Baseline(p)
      PROVE  Candidate(p) /\ Candidate(p)'
  BY <1>1, <1>2 DEF Candidate, Baseline
<1>3. CASE TooBig(p)
  BY <1>1, <1>2, <1>3 DEF Row, NotRead
<1>4. CASE ~TooBig(p) /\ disk[p] # Baseline(p)
  BY <1>1, <1>2, <1>4 DEF Row
<1>5. CASE ~TooBig(p) /\ disk[p] = Baseline(p)
  <2>1. Row(p) = NoRow
    BY <1>5 DEF Row
  <2>2. Row(p)' = NoRow
    BY <1>1, <1>5 DEF Row
  <2> QED
    BY <2>1, <2>2
<1> QED
  BY <1>3, <1>4, <1>5

\* For any paths, sizes, limits and bounds: what a fold or an act on other
\* paths does leaves a row as it was.
THEOREM OthersKeep == Spec => OthersKeepTheirRow
<1>1. ASSUME Inv, Next, UNCHANGED world, NEW p \in scope, ~ActOn(p)
      PROVE  Row(p)' = Row(p) \/ (TooBig(p) /\ disk[p] = Baseline(p))
  <2>0. TypeOK /\ UnreadRows /\ WorldOK /\ RecordOK
    BY <1>1, Parts DEF Inv
  <2>1. /\ p \in Path /\ TypeOK /\ UnreadRows /\ notes \in SUBSET Path
        /\ moves \in Nat
    BY <2>0, FolderBounds DEF WorldOK, RecordOK
  <2>2. ASSUME NEW rec \in Rec, NEW flagged \in SUBSET Path, NEW Q,
               Scanned(rec, flagged), Apart(rec, flagged, Q), p \notin Q
        PROVE  Row(p)' = Row(p) \/ (TooBig(p) /\ disk[p] = Baseline(p))
    <3>1. Baseline(p)' = Baseline(p) /\ (RecordHolds(p)' <=> RecordHolds(p))
      BY <2>1, <2>2, ScannedSays DEF Apart
    <3> QED
      BY <1>1, <2>1, <3>1, SameRow
  <2>3. ASSUME NEW Q \in SUBSET Path, Accept(Q)
        PROVE  Row(p)' = Row(p) \/ (TooBig(p) /\ disk[p] = Baseline(p))
    BY <1>1, <2>1, <2>2, <2>3, AcceptSays DEF ActOn, Taken
  <2>4. CASE AcceptAll
    BY <1>1, <2>1, <2>2, <2>4, AcceptAllSays DEF ActOn
  <2>5. CASE Undo
    BY <1>1, <2>1, <2>2, <2>5, UndoSays DEF ActOn
  <2>6. ASSUME NEW q \in Path, Flag(q) \/ Unflag(q)
        PROVE  Row(p)' = Row(p) \/ (TooBig(p) /\ disk[p] = Baseline(p))
    <3>1. q # p
      BY <1>1, <2>6 DEF ActOn
    <3> QED
      BY <2>1, <2>2, <2>6, <3>1, OthersSay
  <2>7. CASE Scan
    BY <2>1, <2>2, <2>7, OthersSay
  <2>8. ~(SetScope \/ SetLimit \/ \E q \in Path : Edit(q))
    BY <1>1, <2>1 DEF SetScope, SetLimit, Edit, Move, world
  <2> QED
    BY <1>1, <2>3, <2>4, <2>5, <2>6, <2>7, <2>8 DEF Next
<1>2. Inv /\ [Next]_vars =>
        [UNCHANGED world =>
          \A p \in scope : \/ Row(p)' = Row(p) \/ ActOn(p)
                           \/ TooBig(p) /\ disk[p] = Baseline(p)]_vars
  BY <1>1
<1> QED
  BY <1>2, InvHolds, PTL DEF Spec, OthersKeepTheirRow
=============================================================================
