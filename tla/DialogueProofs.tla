---------------------------- MODULE DialogueProofs ----------------------------
(* Proofs about keys, layers and answers, for any number of files, contents, *)
(* agents, keys and changes.                                                 *)
EXTENDS Dialogue, FiniteSetTheorems, SequenceTheorems, WellFoundedInduction,
        TLAPS

-----------------------------------------------------------------------------
(* Questions and the editor.                                                *)

\* A key of the bare screen finds no layer open.
LEMMA BareScreen ==
    Key("screen") => /\ note = None /\ picker = None /\ ~snooze
                     /\ confirm = None /\ editor = None
BY DEF Key, Top

LEMMA QuestionStep ==
    ASSUME [Next]_vars, confirm # None
    PROVE  \/ confirm' = confirm
           \/ confirm' = None /\ (Key("confirm") \/ (here /\ ~here'))
<1> USE DEF layerVars, navVars, workVars
<1>1. CASE PressAccept \/ \E whole \in BOOLEAN : PressRestore(whole)
  BY <1>1, BareScreen DEF PressAccept, PressRestore, Press
<1>2. CASE EditorClose
  BY <1>2 DEF EditorClose, Key, Top
<1>3. CASE EditorReturned
  BY <1>3 DEF EditorReturned, MayAsk
<1>4. CASE Yes \/ No
  BY <1>4 DEF Yes, No
<1>5. CASE RootLeaves
  BY <1>5 DEF RootLeaves
<1>6. ASSUME NEW t \in tasks, \/ Accepted(t) \/ Restored(t) \/ Flagged(t)
                              \/ Snoozed(t) \/ EditRead(t) \/ Saved(t)
                              \/ Undone(t) \/ Refreshed(t)
      PROVE  confirm' = confirm
  BY <1>6 DEF Accepted, Restored, Flagged, Snoozed, EditRead, Saved,
              Undone, Refreshed
<1>7. CASE \/ \E p \in Paths \cup {0} : Select(p)
           \/ PressNote \/ PressSnooze \/ PressEdit \/ PressExternal
           \/ PressUndo \/ PressRefresh
           \/ NoteCancel \/ NoteSend \/ PickerCloses \/ SnoozeCancel
           \/ SnoozeApply \/ EditorType \/ EditorSave
  BY <1>7 DEF Select, PressNote, PressSnooze, PressEdit, PressExternal,
              PressUndo, PressRefresh,
              NoteCancel, NoteSend, PickerCloses, SnoozeCancel, SnoozeApply,
              EditorType, EditorSave
<1>8. CASE \/ Leave \/ Pile \/ \E n \in Agents : AgentsChange(n)
           \/ \E p \in Edited, c \in Contents \cup {Absent} : Edit(p, c)
           \/ OtherUndoes
           \/ \E p \in Edited : OtherAccepts(p)
  BY <1>8 DEF Leave, Pile, AgentsChange, Edit, OtherAccepts, OtherUndoes
<1>9. CASE UNCHANGED vars
  BY <1>9 DEF vars
<1> QED
  BY <1>1, <1>2, <1>3, <1>4, <1>5, <1>6, <1>7, <1>8, <1>9 DEF Next

\* For any number of files and agents: no question takes another's place
\* (App::editor_returned, App::apply, the order of the layers).
THEOREM QuestionsStand == Spec => QuestionsStay
<1>1. [Next]_vars =>
        [confirm # None => \/ confirm' = confirm
                           \/ confirm' = None /\ (Key("confirm") \/ (here /\ ~here'))]_vars
  BY QuestionStep
<1> QED
  BY <1>1, PTL DEF Spec, QuestionsStay

-----------------------------------------------------------------------------
(* The selection.                                                           *)

\* A set of rows that is not empty has a first and a last.
LEMMA FirstAndLast ==
    ASSUME NEW S, S \subseteq 0..LastPath, S # {}
    PROVE  Min(S) \in S /\ Max(S) \in S
<1> DEFINE R == OpToRel(<, Nat)
           T == {n \in 0..LastPath : LastPath - n \in S}
<1>1. LastPath \in Nat /\ S \subseteq Nat /\ T \subseteq Nat
  BY Constants
<1>2. \A x, y \in Nat : x < y => <<x, y>> \in R
  BY DEF OpToRel
<1>3. \E x \in S : \A y \in S : x =< y
  <2>1. PICK x \in S : \A y \in S : ~ (<<y, x>> \in R)
    <3> HIDE DEF R
    <3> QED BY <1>1, NatLessThanWellFounded, WFMin DEF R
  <2>2. \A y \in S : ~ (y < x)
    BY <1>1, <1>2, <2>1
  <2>3. \A y \in S : x =< y
    <3> HIDE DEF R, T
    <3> QED BY <1>1, <2>2
  <2> QED BY <2>3
<1>4. \E x \in S : \A y \in S : x >= y
  <2>1. T # {}
    <3>1. PICK x \in S : TRUE
      OBVIOUS
    <3>2. LastPath - x \in 0..LastPath /\ LastPath - (LastPath - x) = x
      BY <1>1
    <3>3. LastPath - x \in T
      BY <3>1, <3>2
    <3> QED BY <3>3
  <2>2. PICK n \in T : \A k \in T : ~ (<<k, n>> \in R)
    <3> HIDE DEF R, T
    <3> QED BY <1>1, <2>1, NatLessThanWellFounded, WFMin DEF R
  <2>3. ASSUME NEW y \in S PROVE LastPath - n >= y
    <3>1. y \in 0..LastPath /\ LastPath - y \in 0..LastPath
            /\ LastPath - (LastPath - y) = y
      BY <1>1
    <3>2. LastPath - y \in T
      BY <3>1
    <3>3. ~ (LastPath - y < n)
      BY <1>1, <1>2, <2>2, <3>2
    <3> QED BY <1>1, <3>1, <3>3
  <2> QED BY <2>2, <2>3
<1> QED
  BY <1>3, <1>4 DEF Min, Max

\* Wherever the selection was, it is reconciled to an entry that is there.
LEMMA Lands ==
    ASSUME NEW r, sel \in 0..LastPath
    PROVE  Reconciled(r) \in Listed(r) \cup {0}
<1> DEFINE entries == Listed(r)
           below == {q \in entries : q > sel}
           above == {0} \cup {q \in entries : q < sel}
<1>1. entries \subseteq 1..LastPath
  BY DEF Listed, Paths
<1>2. below \subseteq 0..LastPath /\ above \subseteq 0..LastPath /\ above # {}
  BY <1>1, Constants
<1>3. Neighbour(sel, entries) \in entries \cup {0}
  <2>1. CASE below # {}
    BY <1>2, <2>1, FirstAndLast DEF Neighbour
  <2>2. CASE below = {}
    BY <1>2, <2>2, FirstAndLast DEF Neighbour
  <2> QED BY <2>1, <2>2
<1> QED
  BY <1>3 DEF Reconciled

-----------------------------------------------------------------------------
(* Types.                                                                   *)

\* What is known of a task from its kind.
LEMMA TaskOfKind ==
    ASSUME TypeOK, NEW t \in tasks
    PROVE  /\ t.kind = "accept" => t.reqs \in Entry
           /\ t.kind = "restore" => t.path \in Paths /\ t.from \in Value /\ t.to \in Value
           /\ t.kind = "flag" => t.path \in Paths /\ t.id \in Nat
           /\ t.kind = "read" => t.path \in Paths /\ t.from \in Value /\ t.gen \in Nat
           /\ t.kind = "save" => t.path \in Paths /\ t.from \in Value
<1>1. t \in Task
  BY DEF TypeOK
<1> QED BY <1>1 DEF Task

\* What is known of the layer a key goes to.
LEMMA LayerOfKey ==
    /\ Key("note") => note # None
    /\ Key("picker") => picker # None
    /\ Key("snooze") => snooze
    /\ Key("confirm") => confirm # None
    /\ Key("editor") => editor # None /\ confirm = None
BY DEF Key, Top

LEMMA ValuesHold == {Old, Ours, Absent} \subseteq Value /\ Contents \subseteq Value
BY DEF Value

\* What an entry of the stack holds.
LEMMA EntryOf ==
    ASSUME NEW e \in Entry
    PROVE  /\ DOMAIN e \in (SUBSET Paths) \ {{}}
           /\ \A p \in DOMAIN e : e[p] \in Value
<1>1. PICK ps \in (SUBSET Paths) \ {{}} : e \in [ps -> Value]
  BY DEF Entry
<1> QED BY <1>1

LEMMA EntryTyped ==
    ASSUME NEW ps \in SUBSET Paths, ps # {}, NEW e \in [ps -> Value]
    PROVE  e \in Entry
<1>1. [ps -> Value] \in {[qs -> Value] : qs \in (SUBSET Paths) \ {{}}}
  <2>1. ps \in (SUBSET Paths) \ {{}}
    OBVIOUS
  <2> QED BY <2>1, Zenon
<1> QED BY <1>1 DEF Entry

\* What is taken goes to what is seen, and the old on top of the stack.
LEMMA Taking ==
    ASSUME FilesTyped, NEW ps \in SUBSET Paths, NEW d,
           \A p \in ps : d[p] \in Value, Take(ps, d)
    PROVE  base' \in [Paths -> Value] /\ stack' \in Seq(Entry)
<1>1. base' \in [Paths -> Value]
  BY DEF FilesTyped, Take
<1>2. CASE ps = {}
  BY <1>1, <1>2 DEF FilesTyped, Take
<1>3. CASE ps # {}
  <2>1. [p \in ps |-> base[p]] \in [ps -> Value]
    BY DEF FilesTyped
  <2>2. [p \in ps |-> base[p]] \in Entry
    BY <1>3, <2>1, EntryTyped
  <2>3. stack' = Append(stack, [p \in ps |-> base[p]])
    BY <1>3 DEF Take
  <2> QED BY <1>1, <2>2, <2>3 DEF FilesTyped
<1> QED BY <1>2, <1>3

\* The last entry leaves the stack, the others stay where they are.
LEMMA Undoing ==
    ASSUME FilesTyped, stack # <<>>, Undo
    PROVE  /\ base' \in [Paths -> Value] /\ stack' \in Seq(Entry)
           /\ Len(stack) \in Nat \ {0} /\ stack[Len(stack)] \in Entry
           /\ Len(stack') = Len(stack) - 1
           /\ \A i \in 1..Len(stack') : stack'[i] = stack[i]
<1>1. Len(stack) \in Nat \ {0} /\ stack \in Seq(Entry)
  BY EmptySeq DEF FilesTyped
<1>2. stack[Len(stack)] \in Entry
  BY <1>1
<1>3. base' \in [Paths -> Value]
  BY <1>2, EntryOf DEF FilesTyped, Undo
<1>4. /\ 1 \in Int /\ Len(stack) - 1 \in Int
      /\ \A i \in 1..Len(stack) - 1 : stack[i] \in Entry
  BY <1>1
<1>5. stack' = SubSeq(stack, 1, Len(stack) - 1)
  BY DEF Undo
<1>6. /\ stack' \in Seq(Entry) /\ Len(stack') = Len(stack) - 1
      /\ \A i \in 1..Len(stack) - 1 : stack'[i] = stack[i]
  <2> DEFINE n == Len(stack) - 1
  <2>1. /\ SubSeq(stack, 1, n) \in Seq(Entry)
        /\ Len(SubSeq(stack, 1, n)) = IF 1 <= n THEN n - 1 + 1 ELSE 0
        /\ \A i \in 1..n - 1 + 1 : SubSeq(stack, 1, n)[i] = stack[1 + i - 1]
    <3> HIDE DEF n
    <3> QED BY <1>4, SubSeqProperties DEF n
  <2>2. n \in Nat /\ n - 1 + 1 = n /\ \A i \in 1..n : 1 + i - 1 = i
    BY <1>1
  <2> HIDE DEF n
  <2> QED BY <1>5, <2>1, <2>2 DEF n
<1> QED BY <1>1, <1>2, <1>3, <1>6

\* The ledger changes with an accept, a save, an undo, here or elsewhere.
LEMMA LedgerStep ==
    ASSUME TypeOK, [Next]_vars
    PROVE  \/ UNCHANGED <<base, stack>>
           \/ stack # <<>> /\ Undo
           \/ \E t \in Asked("accept") :
                 Take({p \in DOMAIN t.reqs : disk[p] = t.reqs[p]}, disk)
           \/ \E p \in Paths : Take({p}, disk') /\ disk'[p] = Ours
           \/ \E p \in Paths : Take({p}, disk) /\ disk[p] \in shown'[p]
<1> USE DEF fileVars
<1>1. ASSUME NEW t \in tasks, Accepted(t)
      PROVE  \/ UNCHANGED <<base, stack>>
             \/ \E u \in Asked("accept") :
                   Take({p \in DOMAIN u.reqs : disk[p] = u.reqs[p]}, disk)
  <2>1. t \in Asked("accept")
    BY <1>1 DEF Accepted, Asked
  <2> QED BY <1>1, <2>1 DEF Accepted
<1>2. ASSUME NEW t \in tasks, Saved(t)
      PROVE  \/ UNCHANGED <<base, stack>>
             \/ \E p \in Paths : Take({p}, disk') /\ disk'[p] = Ours
  <2>1. t.path \in Paths
    BY <1>2, TaskOfKind DEF Saved
  <2>2. \/ UNCHANGED <<base, stack>>
        \/ Take({t.path}, disk') /\ disk' = [disk EXCEPT ![t.path] = Ours]
    BY <1>2 DEF Saved
  <2>3. disk' = [disk EXCEPT ![t.path] = Ours] => disk'[t.path] = Ours
    BY <2>1 DEF TypeOK, FilesTyped
  <2> QED BY <2>1, <2>2, <2>3
<1>3. ASSUME NEW t \in tasks, Undone(t)
      PROVE  UNCHANGED <<base, stack>> \/ (stack # <<>> /\ Undo)
  BY <1>3 DEF Undone
<1>4. CASE OtherUndoes
  BY <1>4 DEF OtherUndoes
<1>5. ASSUME NEW p \in Edited, OtherAccepts(p)
      PROVE  \E q \in Paths : Take({q}, disk) /\ disk[q] \in shown'[q]
  <2>1. p \in Paths
    BY Constants
  <2>2. shown' = [shown EXCEPT ![p] = @ \cup {disk[p]}]
    BY <1>5 DEF OtherAccepts
  <2>3. disk[p] \in shown'[p]
    BY <2>1, <2>2 DEF TypeOK, NavTyped
  <2> QED BY <1>5, <2>1, <2>3 DEF OtherAccepts
<1>6. ASSUME NEW t \in tasks, \/ Restored(t) \/ Flagged(t) \/ Snoozed(t)
                              \/ EditRead(t) \/ Refreshed(t)
      PROVE  UNCHANGED <<base, stack>>
  BY <1>6 DEF Restored, Flagged, Snoozed, EditRead, Refreshed
<1>7. CASE \/ \E p \in Paths \cup {0} : Select(p)
           \/ PressAccept \/ PressNote \/ PressSnooze \/ PressEdit \/ PressExternal
           \/ PressUndo \/ PressRefresh
           \/ \E whole \in BOOLEAN : PressRestore(whole)
           \/ NoteCancel \/ NoteSend \/ PickerCloses \/ SnoozeCancel
           \/ SnoozeApply \/ EditorType \/ EditorSave \/ EditorClose
  BY <1>7 DEF Select, PressAccept, PressNote, PressSnooze, PressEdit,
       PressExternal, PressUndo, PressRefresh, PressRestore, NoteCancel,
       NoteSend, PickerCloses, SnoozeCancel, SnoozeApply, EditorType,
       EditorSave, EditorClose
<1>8. CASE \/ Yes \/ No \/ Leave \/ EditorReturned \/ Pile \/ RootLeaves
           \/ \E n \in Agents : AgentsChange(n)
           \/ \E p \in Edited, c \in Contents \cup {Absent} : Edit(p, c)
           \/ UNCHANGED vars
  BY <1>8 DEF Yes, No, Leave, EditorReturned, Pile, RootLeaves,
       AgentsChange, Edit, vars
<1> QED
  BY <1>1, <1>2, <1>3, <1>4, <1>5, <1>6, <1>7, <1>8 DEF Next

\* Files are written with what a row, a task or the editor held.
LEMMA DiskStep ==
    ASSUME TypeOK, [Next]_vars
    PROVE  disk' \in [Paths -> Value]
<1> USE DEF fileVars
<1>0. disk \in [Paths -> Value]
  BY DEF TypeOK, FilesTyped
<1>1. ASSUME NEW t \in tasks, Restored(t) PROVE disk' \in [Paths -> Value]
  <2>1. t.path \in Paths /\ t.to \in Value
    BY <1>1, TaskOfKind DEF Restored
  <2>2. disk' = disk \/ disk' = [disk EXCEPT ![t.path] = t.to]
    BY <1>1 DEF Restored
  <2> QED BY <1>0, <2>1, <2>2
<1>2. ASSUME NEW t \in tasks, Saved(t) PROVE disk' \in [Paths -> Value]
  <2>1. disk' = disk \/ disk' = [disk EXCEPT ![t.path] = Ours]
    BY <1>2 DEF Saved
  <2> QED BY <1>0, <2>1, ValuesHold
<1>3. ASSUME NEW p \in Edited, NEW c \in Contents \cup {Absent}, Edit(p, c)
      PROVE  disk' \in [Paths -> Value]
  BY <1>0, <1>3, ValuesHold, Constants DEF Edit
<1>4. ASSUME NEW t \in tasks, \/ Accepted(t) \/ Flagged(t) \/ Snoozed(t)
                              \/ EditRead(t) \/ Undone(t) \/ Refreshed(t)
      PROVE  disk' = disk
  BY <1>4 DEF Accepted, Flagged, Snoozed, EditRead, Undone, Refreshed
<1>5. CASE \/ \E p \in Paths \cup {0} : Select(p)
           \/ PressAccept \/ PressNote \/ PressSnooze \/ PressEdit \/ PressExternal
           \/ PressUndo \/ PressRefresh
           \/ \E whole \in BOOLEAN : PressRestore(whole)
           \/ NoteCancel \/ NoteSend \/ PickerCloses \/ SnoozeCancel
           \/ SnoozeApply \/ EditorType \/ EditorSave \/ EditorClose
  BY <1>0, <1>5 DEF Select, PressAccept, PressNote, PressSnooze, PressEdit,
       PressExternal, PressUndo, PressRefresh, PressRestore, NoteCancel,
       NoteSend, PickerCloses, SnoozeCancel, SnoozeApply, EditorType,
       EditorSave, EditorClose
<1>6. CASE \/ Yes \/ No \/ Leave \/ EditorReturned \/ Pile \/ RootLeaves
           \/ \E n \in Agents : AgentsChange(n)
           \/ OtherUndoes
           \/ \E p \in Edited : OtherAccepts(p)
           \/ UNCHANGED vars
  BY <1>0, <1>6 DEF Yes, No, Leave, EditorReturned, Pile, RootLeaves,
       AgentsChange, OtherAccepts, OtherUndoes, vars
<1> QED
  BY <1>0, <1>1, <1>2, <1>3, <1>4, <1>5, <1>6 DEF Next

LEMMA FilesStep == TypeOK /\ [Next]_vars => FilesTyped'
<1> SUFFICES ASSUME TypeOK, [Next]_vars PROVE FilesTyped'
  OBVIOUS
<1>0. FilesTyped /\ disk' \in [Paths -> Value]
  BY DiskStep DEF TypeOK
<1>1. CASE UNCHANGED <<base, stack>>
  BY <1>0, <1>1 DEF FilesTyped
<1>2. CASE stack # <<>> /\ Undo
  BY <1>0, <1>2, Undoing DEF FilesTyped
<1>3. ASSUME NEW t \in Asked("accept"),
             Take({p \in DOMAIN t.reqs : disk[p] = t.reqs[p]}, disk)
      PROVE  FilesTyped'
  <2>1. t.reqs \in Entry
    BY <1>3, TaskOfKind DEF Asked
  <2>2. {p \in DOMAIN t.reqs : disk[p] = t.reqs[p]} \in SUBSET Paths
    BY <2>1, EntryOf
  <2> QED BY <1>0, <1>3, <2>2, Taking DEF FilesTyped
<1>4. ASSUME NEW p \in Paths, Take({p}, disk) \/ Take({p}, disk')
      PROVE  FilesTyped'
  BY <1>0, <1>4, Taking DEF FilesTyped
<1> QED
  BY <1>1, <1>2, <1>3, <1>4, LedgerStep

LEMMA ScannedTyped == FilesTyped => Scanned \in [Paths -> Row]
BY DEF FilesTyped, Scanned, Row

\* A pile of that shape reaches the screen, the selection on an entry of it.
Shows == \E r \in [Paths -> Row], stk \in Seq(Entry) :
            \E at \in Listed(r) \cup {0} : Show(r, stk, at)

LEMMA Applying ==
    ASSUME NavTyped, NEW r \in [Paths -> Row], NEW stk \in Seq(Entry),
           Apply(r, stk)
    PROVE  Shows
<1>1. sel \in 0..LastPath
  BY Constants DEF NavTyped, Listed, Paths
<1>2. Reconciled(r) \in Listed(r) \cup {0}
  BY <1>1, Lands
<1> QED BY <1>2 DEF Apply, Shows

\* A pile that is applied keeps the types, and what was shown stays shown.
LEMMA Showing ==
    ASSUME NavTyped, Shows
    PROVE  /\ NavTyped'
           /\ \A p \in Paths : shown[p] \subseteq shown'[p]
           /\ \A p \in Listed(rows') : rows'[p].cur \in shown'[p]
<1>1. PICK r \in [Paths -> Row], stk \in Seq(Entry) :
        \E at \in Listed(r) \cup {0} : Show(r, stk, at)
  BY DEF Shows
<1>2. rows' = r /\ known' = stk /\ sel' \in Listed(r) \cup {0}
  BY <1>1 DEF Show
<1>3. /\ shown \in [Paths -> SUBSET Value]
      /\ \A p \in Paths : r[p].cur \in Value
  BY <1>1 DEF NavTyped, Row
<1>4. shown' = [p \in Paths |-> IF p \in Listed(r)
                                THEN shown[p] \cup {r[p].cur} ELSE shown[p]]
  BY <1>1 DEF Show
<1>5. Listed(r) \subseteq Paths
  BY DEF Listed
<1>6. NavTyped'
  BY <1>1, <1>2, <1>3, <1>4 DEF NavTyped, Listed
<1> QED
  BY <1>2, <1>3, <1>4, <1>5, <1>6

\* An answer applies a pile, or leaves the screen as it is.
LEMMA Answers ==
    ASSUME TypeOK, [Next]_vars, NEW t \in tasks,
           \/ Accepted(t) \/ Restored(t) \/ Flagged(t)
           \/ Snoozed(t) \/ EditRead(t) \/ Saved(t)
           \/ Undone(t) \/ Refreshed(t)
    PROVE  KeepRows \/ Shows
<1>1. NavTyped /\ FilesTyped /\ FilesTyped'
  BY FilesStep DEF TypeOK
<1>2. stack \in Seq(Entry) /\ stack' \in Seq(Entry)
  BY <1>1 DEF FilesTyped
<1>3. ASSUME Apply(Scanned, stack) PROVE Shows
  BY <1>1, <1>2, <1>3, ScannedTyped, Applying
<1>4. CASE Accepted(t)
  <2> DEFINE r == [p \in Paths |-> [base |-> base'[p], cur |-> disk[p]]]
  <2>1. r \in [Paths -> Row]
    BY <1>1 DEF FilesTyped, Row
  <2>2. KeepRows \/ Apply(r, stack')
    BY <1>4 DEF Accepted
  <2> HIDE DEF r
  <2> QED BY <1>1, <1>2, <2>1, <2>2, Applying
<1>5. CASE Restored(t)
  <2> DEFINE r == [p \in Paths |-> [base |-> base[p], cur |-> disk'[p]]]
  <2>1. r \in [Paths -> Row]
    BY <1>1 DEF FilesTyped, Row
  <2>2. KeepRows \/ Apply(r, stack)
    BY <1>5 DEF Restored
  <2> HIDE DEF r
  <2> QED BY <1>1, <1>2, <2>1, <2>2, Applying
<1>6. CASE Saved(t)
  <2> DEFINE r == [p \in Paths |-> [base |-> base'[p], cur |-> disk'[p]]]
  <2>1. r \in [Paths -> Row]
    BY <1>1 DEF FilesTyped, Row
  <2>2. KeepRows \/ Apply(Scanned, stack) \/ Apply(r, stack')
    BY <1>6 DEF Saved
  <2> HIDE DEF r
  <2> QED BY <1>1, <1>2, <1>3, <2>1, <2>2, Applying
<1>7. CASE Undone(t)
  <2> DEFINE r == [q \in Paths |-> [base |-> base'[q], cur |-> disk[q]]]
  <2>1. r \in [Paths -> Row]
    BY <1>1 DEF FilesTyped, Row
  <2>2. \/ KeepRows \/ Apply(Scanned, stack)
        \/ \E p : Show(r, stack', IF p \in Listed(r) THEN p ELSE Reconciled(r))
    BY <1>7 DEF Undone
  <2>3. ASSUME NEW p,
               Show(r, stack', IF p \in Listed(r) THEN p ELSE Reconciled(r))
        PROVE  Shows
    <3> HIDE DEF r
    <3>1. sel \in 0..LastPath
      BY <1>1, Constants DEF NavTyped, Listed, Paths
    <3>2. (IF p \in Listed(r) THEN p ELSE Reconciled(r)) \in Listed(r) \cup {0}
      BY <3>1, Lands
    <3> QED BY <1>2, <2>1, <2>3, <3>2 DEF Shows
  <2> HIDE DEF r
  <2> QED BY <1>3, <2>2, <2>3
<1>8. CASE Flagged(t) \/ Snoozed(t) \/ EditRead(t) \/ Refreshed(t)
  BY <1>3, <1>8 DEF Flagged, Snoozed, EditRead, Refreshed
<1> QED BY <1>4, <1>5, <1>6, <1>7, <1>8

\* The selection stays an entry of the nav, whatever piles come.
LEMMA NavStep == TypeOK /\ [Next]_vars => NavTyped'
<1> SUFFICES ASSUME TypeOK, [Next]_vars PROVE NavTyped'
  OBVIOUS
<1> USE DEF navVars
<1>0. NavTyped /\ FilesTyped
  BY DEF TypeOK
<1>1. ASSUME NEW t \in tasks, \/ Accepted(t) \/ Restored(t) \/ Flagged(t)
                              \/ Snoozed(t) \/ EditRead(t) \/ Saved(t)
                              \/ Undone(t) \/ Refreshed(t)
      PROVE  NavTyped'
  <2>1. CASE KeepRows
    BY <1>0, <2>1 DEF KeepRows, NavTyped, Listed
  <2>2. CASE Shows
    BY <1>0, <2>2, Showing
  <2> QED BY <1>1, <2>1, <2>2, Answers
<1>2. CASE Pile
  BY <1>0, <1>2, ScannedTyped, Applying, Showing DEF Pile, FilesTyped
<1>3. ASSUME NEW p \in Paths \cup {0}, Select(p) PROVE NavTyped'
  BY <1>0, <1>3 DEF Select, NavTyped, Listed
<1>4. CASE EditorReturned
  <2>1. rows' = rows /\ sel' = sel /\ known' = known
    BY <1>4 DEF EditorReturned
  <2>2. \/ shown' = shown
        \/ shown' = [shown EXCEPT ![away.path] = @ \cup {disk[away.path]}]
    BY <1>4 DEF EditorReturned
  <2>3. away # None
    BY <1>4 DEF EditorReturned, Out, None
  <2>4. away.path \in Paths
    BY <2>3 DEF TypeOK, EngineTyped, Taken
  <2>5. disk[away.path] \in Value
    BY <1>0, <2>4 DEF FilesTyped
  <2>6. shown' \in [Paths -> SUBSET Value]
    BY <1>0, <2>2, <2>4, <2>5 DEF NavTyped
  <2> QED BY <1>0, <2>1, <2>6 DEF NavTyped, Listed
<1>5. ASSUME NEW p \in Edited, OtherAccepts(p) PROVE NavTyped'
  <2>1. p \in Paths /\ disk[p] \in Value
    BY <1>0, Constants DEF FilesTyped
  <2>2. /\ UNCHANGED <<rows, sel, known>>
        /\ shown' = [shown EXCEPT ![p] = @ \cup {disk[p]}]
    BY <1>5 DEF OtherAccepts
  <2>3. shown' \in [Paths -> SUBSET Value]
    BY <1>0, <2>1, <2>2 DEF NavTyped
  <2> QED BY <1>0, <2>2, <2>3 DEF NavTyped, Listed
<1>6. CASE RootLeaves
  <2>1. /\ rows' = [p \in Paths |-> [base |-> Absent, cur |-> Absent]]
        /\ known' = <<>> /\ sel' = 0 /\ shown' = shown
    BY <1>6 DEF RootLeaves
  <2>2. rows' \in [Paths -> Row] /\ known' \in Seq(Entry)
    BY <2>1, ValuesHold DEF Row
  <2> QED BY <1>0, <2>1, <2>2 DEF NavTyped
<1>7. CASE \/ PressAccept \/ PressNote \/ PressSnooze \/ PressEdit \/ PressExternal
           \/ PressUndo \/ PressRefresh
           \/ \E whole \in BOOLEAN : PressRestore(whole)
           \/ NoteCancel \/ NoteSend \/ PickerCloses \/ SnoozeCancel
           \/ SnoozeApply \/ EditorType \/ EditorSave \/ EditorClose
  <2>1. UNCHANGED <<rows, known, sel, shown>>
    BY <1>7 DEF PressAccept, PressNote, PressSnooze, PressEdit,
         PressExternal, PressUndo, PressRefresh, PressRestore, NoteCancel,
         NoteSend, PickerCloses,
         SnoozeCancel, SnoozeApply, EditorType, EditorSave, EditorClose
  <2> QED BY <1>0, <2>1 DEF NavTyped, Listed
<1>8. CASE \/ Yes \/ No \/ Leave \/ OtherUndoes \/ \E n \in Agents : AgentsChange(n)
           \/ \E p \in Edited, c \in Contents \cup {Absent} : Edit(p, c)
  <2>1. UNCHANGED <<rows, known, sel, shown>>
    BY <1>8 DEF Yes, No, Leave, OtherUndoes, AgentsChange, Edit
  <2> QED BY <1>0, <2>1 DEF NavTyped, Listed
<1>9. CASE UNCHANGED vars
  BY <1>0, <1>9 DEF vars, NavTyped, Listed
<1> QED
  BY <1>1, <1>2, <1>3, <1>4, <1>5, <1>6, <1>7, <1>8, <1>9 DEF Next

LEMMA EditedBuffer ==
    ASSUME NEW e \in Buffer
    PROVE  /\ [e EXCEPT !.text = @ + 1] \in Buffer
           /\ [e EXCEPT !.saving = TRUE] \in Buffer
<1>1. [e EXCEPT !.text = @ + 1] \in Buffer
  BY DEF Buffer
<1>2. [e EXCEPT !.saving = TRUE] \in Buffer
  BY DEF Buffer
<1> QED BY <1>1, <1>2

LEMMA OpenedBuffer ==
    ASSUME NEW p \in Paths, NEW v \in Value, NEW n \in Nat
    PROVE  [kind |-> "editor", path |-> p, from |-> v, gen |-> n, text |-> 0,
            saving |-> FALSE] \in Buffer
BY DEF Buffer

\* A layer opens on the selected row or on what a task was about.
LEMMA LayersStep == TypeOK /\ [Next]_vars => LayersTyped'
<1> SUFFICES ASSUME TypeOK, [Next]_vars PROVE LayersTyped'
  OBVIOUS
<1> USE DEF LayersTyped, layerVars
<1>0. LayersTyped /\ sel \in Paths \cup {0} /\ rows \in [Paths -> Row]
        /\ disk \in [Paths -> Value] /\ keys \in Nat /\ opened \in Nat
  BY Constants DEF TypeOK, NavTyped, FilesTyped, EngineTyped, Listed
<1>1. CASE PressAccept
  <2>1. confirm' = confirm \/ confirm' = [kind |-> "accept"]
    BY <1>1 DEF PressAccept
  <2>2. confirm' \in Question \cup {None}
    BY <1>0, <2>1 DEF Question
  <2>3. UNCHANGED <<note, picker, snooze, editor>>
    BY <1>1 DEF PressAccept
  <2> QED BY <1>0, <2>2, <2>3
<1>2. ASSUME NEW whole \in BOOLEAN, PressRestore(whole) PROVE LayersTyped'
  <2>1. confirm' = confirm \/ confirm' = [kind |-> "restore", path |-> sel]
    BY <1>2 DEF PressRestore
  <2>2. sel \in Paths
    BY <1>0, <1>2 DEF PressRestore
  <2>3. confirm' \in Question \cup {None}
    BY <1>0, <2>1, <2>2 DEF Question
  <2>4. UNCHANGED <<note, picker, snooze, editor>>
    BY <1>2 DEF PressRestore
  <2> QED BY <1>0, <2>3, <2>4
<1>3. CASE PressNote
  <2>1. /\ sel \in Paths /\ note' = [kind |-> "note", path |-> sel]
        /\ UNCHANGED <<picker, snooze, confirm, editor>>
    BY <1>0, <1>3 DEF PressNote
  <2> QED BY <1>0, <2>1
<1>4. CASE NoteCancel \/ NoteSend \/ PickerCloses
  BY <1>0, <1>4 DEF NoteCancel, NoteSend, PickerCloses
<1>5. CASE PressSnooze \/ SnoozeCancel \/ SnoozeApply \/ No
  BY <1>0, <1>5 DEF PressSnooze, SnoozeCancel, SnoozeApply, No
<1>6. CASE Yes
  <2>1. /\ confirm' = None /\ UNCHANGED <<note, picker, snooze>>
    BY <1>6 DEF Yes
  <2>2. confirm \in Question
    BY <1>0, <1>6, LayerOfKey DEF Yes
  <2>3. confirm.kind \in {"accept", "bless", "restore", "discard"}
    BY <2>2 DEF Question
  <2>4. editor' \in {editor, None}
    BY <1>6, <2>3 DEF Yes
  <2> QED BY <1>0, <2>1, <2>4
<1>7. CASE EditorType \/ EditorSave
  <2>1. editor \in Buffer
    BY <1>0, <1>7, LayerOfKey DEF EditorType, EditorSave
  <2>2. /\ [editor EXCEPT !.text = @ + 1] \in Buffer
        /\ [editor EXCEPT !.saving = TRUE] \in Buffer
    BY <2>1, EditedBuffer
  <2>3. /\ editor' \in {[editor EXCEPT !.text = @ + 1], [editor EXCEPT !.saving = TRUE]}
        /\ UNCHANGED <<note, picker, snooze, confirm>>
    BY <1>7 DEF EditorType, EditorSave
  <2> QED BY <1>0, <2>2, <2>3
<1>8. CASE EditorClose
  <2>1. confirm' \in {confirm, [kind |-> "discard"]} /\ editor' \in {editor, None}
    BY <1>8 DEF EditorClose
  <2>2. UNCHANGED <<note, picker, snooze>>
    BY <1>8 DEF EditorClose
  <2>3. confirm' \in Question \cup {None}
    BY <1>0, <2>1 DEF Question
  <2> QED BY <1>0, <2>1, <2>2, <2>3
<1>9. ASSUME NEW t \in tasks, Flagged(t) PROVE LayersTyped'
  <2>1. t.id \in Nat
    BY <1>9, TaskOfKind DEF Flagged
  <2>2. picker' \in {picker, [kind |-> "picker", id |-> t.id]}
    BY <1>9 DEF Flagged
  <2>3. UNCHANGED <<note, snooze, confirm, editor>>
    BY <1>9 DEF Flagged
  <2>4. picker' \in [kind: {"picker"}, id: Nat] \cup {None}
    BY <1>0, <2>1, <2>2
  <2> QED BY <1>0, <2>3, <2>4
<1>10. ASSUME NEW t \in tasks, EditRead(t) PROVE LayersTyped'
  <2>1. t.path \in Paths /\ t.from \in Value /\ t.gen \in Nat
    BY <1>10, TaskOfKind DEF EditRead
  <2>2. editor' \in {editor, [kind |-> "editor", path |-> t.path,
                              from |-> t.from, gen |-> t.gen, text |-> 0,
                              saving |-> FALSE]}
    BY <1>10 DEF EditRead
  <2>3. UNCHANGED <<note, picker, snooze, confirm>>
    BY <1>10 DEF EditRead
  <2>4. editor' \in Buffer \cup {None}
    BY <1>0, <2>1, <2>2, OpenedBuffer
  <2> QED BY <1>0, <2>3, <2>4
<1>11. ASSUME NEW t \in tasks, Saved(t) PROVE LayersTyped'
  <2>1. \E clean \in BOOLEAN : editor' = AfterSave(t, clean)
    BY <1>11 DEF Saved
  <2>2. editor' \in {editor, None, [editor EXCEPT !.saving = FALSE]}
           /\ (editor' \notin {editor, None} => editor # None)
    BY <2>1 DEF AfterSave, Mine
  <2>3. editor \in Buffer => [editor EXCEPT !.saving = FALSE] \in Buffer
    BY DEF Buffer
  <2>4. editor' \in Buffer \cup {None}
    BY <1>0, <2>2, <2>3
  <2>5. UNCHANGED <<note, picker, snooze, confirm>>
    BY <1>11 DEF Saved
  <2> QED BY <1>0, <2>4, <2>5
<1>12. ASSUME NEW t \in tasks, \/ Accepted(t) \/ Restored(t) \/ Snoozed(t)
                               \/ Undone(t) \/ Refreshed(t)
       PROVE  LayersTyped'
  BY <1>0, <1>12 DEF Accepted, Restored, Snoozed, Undone, Refreshed
<1>13. CASE EditorReturned
  <2>1. away # None
    BY <1>13 DEF EditorReturned, Out, None
  <2>2. away.path \in Paths
    BY <2>1 DEF TypeOK, EngineTyped, Taken
  <2>3. confirm' \in {confirm, [kind |-> "bless", path |-> away.path,
                                of |-> disk[away.path]]}
    BY <1>13 DEF EditorReturned
  <2>4. confirm' \in Question \cup {None}
    BY <1>0, <2>2, <2>3 DEF Question
  <2>5. UNCHANGED <<note, picker, snooze, editor>>
    BY <1>13 DEF EditorReturned
  <2> QED BY <1>0, <2>4, <2>5
<1>14. CASE RootLeaves \/ \E n \in Agents : AgentsChange(n)
  BY <1>0, <1>14 DEF RootLeaves, AgentsChange
<1>15. CASE \/ \E p \in Paths \cup {0} : Select(p)
            \/ PressEdit \/ PressExternal \/ PressUndo \/ PressRefresh
            \/ Leave \/ Pile
            \/ \E p \in Edited, c \in Contents \cup {Absent} : Edit(p, c)
            \/ OtherUndoes
            \/ \E p \in Edited : OtherAccepts(p)
  BY <1>0, <1>15 DEF Select, PressEdit, PressExternal, PressUndo, PressRefresh,
       Leave, Pile, Edit, OtherAccepts, OtherUndoes
<1>16. CASE UNCHANGED vars
  BY <1>0, <1>16 DEF vars
<1> QED
  BY <1>1, <1>2, <1>3, <1>4, <1>5, <1>6, <1>7, <1>8, <1>9, <1>10, <1>11, <1>12,
     <1>13, <1>14, <1>15, <1>16 DEF Next

\* The kind of an open question is one of four.
LEMMA QuestionKinds ==
    ASSUME TypeOK, confirm # None
    PROVE  /\ confirm.kind \in {"accept", "bless", "restore", "discard"}
           /\ confirm.kind = "bless" => confirm.path \in Paths /\ confirm.of \in Value
           /\ confirm.kind = "restore" => confirm.path \in Paths
BY DEF TypeOK, LayersTyped, Question

LEMMA GuardsStep == TypeOK /\ [Next]_vars => GuardsTyped'
<1> SUFFICES ASSUME TypeOK, [Next]_vars PROVE GuardsTyped'
  OBVIOUS
<1> USE DEF GuardsTyped, layerVars, navVars, workVars, guardVars
<1>0. GuardsTyped
  BY DEF TypeOK
<1>1. CASE PressAccept
  BY <1>0, <1>1 DEF PressAccept, StartAccept
<1>2. ASSUME NEW whole \in BOOLEAN, PressRestore(whole) PROVE GuardsTyped'
  BY <1>0, <1>2 DEF PressRestore, StartRestore
<1>3. CASE Yes
  <2>1. confirm # None
    BY <1>3, LayerOfKey DEF Yes
  <2>2. accepting' \in {accepting, TRUE} /\ restoring' \in {restoring, TRUE}
    BY <1>3, <2>1, QuestionKinds DEF Yes, StartAccept, StartRestore
  <2> QED BY <1>0, <1>3, <2>2 DEF Yes
<1>4. ASSUME NEW t \in tasks, \/ Accepted(t) \/ Restored(t) \/ Flagged(t)
                              \/ Snoozed(t) \/ EditRead(t) \/ Saved(t)
                              \/ Undone(t) \/ Refreshed(t)
      PROVE  GuardsTyped'
  BY <1>0, <1>4 DEF Accepted, Restored, Flagged, Snoozed, EditRead, Saved,
              Undone, Refreshed
<1>5. CASE SnoozeApply \/ RootLeaves
  BY <1>0, <1>5 DEF SnoozeApply, RootLeaves
<1>6. CASE \/ \E p \in Paths \cup {0} : Select(p)
           \/ PressNote \/ PressSnooze \/ PressEdit \/ PressExternal
           \/ PressUndo \/ PressRefresh
  BY <1>0, <1>6 DEF Select, PressNote, PressSnooze, PressEdit, PressExternal,
       PressUndo, PressRefresh
<1>7. CASE \/ NoteCancel \/ NoteSend \/ PickerCloses \/ SnoozeCancel
           \/ No \/ EditorType \/ EditorSave \/ EditorClose
  BY <1>0, <1>7 DEF NoteCancel, NoteSend, PickerCloses, SnoozeCancel, No, EditorType,
       EditorSave, EditorClose
<1>8. CASE \/ Leave \/ EditorReturned \/ Pile \/ \E n \in Agents : AgentsChange(n)
           \/ \E p \in Edited, c \in Contents \cup {Absent} : Edit(p, c)
           \/ OtherUndoes
           \/ \E p \in Edited : OtherAccepts(p)
           \/ UNCHANGED vars
  BY <1>0, <1>8 DEF Leave, EditorReturned, Pile, AgentsChange, Edit,
       OtherAccepts, OtherUndoes, vars
<1> QED
  BY <1>1, <1>2, <1>3, <1>4, <1>5, <1>6, <1>7, <1>8 DEF Next

LEMMA EngineStep == TypeOK /\ [Next]_vars => EngineTyped'
<1> SUFFICES ASSUME TypeOK, [Next]_vars PROVE EngineTyped'
  OBVIOUS
<1> USE DEF EngineTyped, layerVars
<1>0. /\ EngineTyped /\ sel \in Paths \cup {0} /\ rows \in [Paths -> Row]
      /\ MaxKeys \in Nat /\ MaxMoves \in Nat
  BY Constants DEF TypeOK, NavTyped, Listed
<1>1. CASE PressAccept \/ \E whole \in BOOLEAN : PressRestore(whole)
  <2>1. /\ UNCHANGED <<opening, opened, away, candidates, moves>>
        /\ keys < MaxKeys /\ keys' = keys + 1
    BY <1>1 DEF PressAccept, PressRestore, Press
  <2> QED BY <1>0, <2>1
<1>2. CASE PressNote \/ PressSnooze \/ PressUndo \/ PressRefresh
  BY <1>0, <1>2 DEF PressNote, PressSnooze, PressUndo, PressRefresh, Press
<1>3. CASE PressEdit
  BY <1>0, <1>3 DEF PressEdit, Press
<1>4. CASE PressExternal
  <2>1. sel \in Paths
    BY <1>0, <1>4 DEF PressExternal, Editable
  <2>2. rows[sel].cur \in Value
    BY <1>0, <2>1 DEF Row
  <2>3. away' = [kind |-> "asked", path |-> sel, from |-> rows[sel].cur]
    BY <1>4 DEF PressExternal
  <2>4. away' \in Taken
    BY <2>1, <2>2, <2>3 DEF Taken
  <2> QED BY <1>0, <1>4, <2>4 DEF PressExternal, Press
<1>5. CASE EditorType
  BY <1>0, <1>5 DEF EditorType
<1>6. ASSUME NEW t \in tasks, EditRead(t) PROVE EngineTyped'
  <2>1. /\ opening' \in {opening, 0}
        /\ UNCHANGED <<opened, away, candidates, keys, moves>>
    BY <1>6 DEF EditRead
  <2> QED BY <1>0, <2>1
<1>7. ASSUME NEW t \in tasks, \/ Accepted(t) \/ Restored(t) \/ Flagged(t)
                              \/ Snoozed(t) \/ Saved(t)
                              \/ Undone(t) \/ Refreshed(t)
      PROVE  EngineTyped'
  <2>1. UNCHANGED <<opening, opened, away, candidates, keys, moves>>
    BY <1>7 DEF Accepted, Restored, Flagged, Snoozed, Saved, Undone, Refreshed
  <2> QED BY <1>0, <2>1
<1>8. CASE Leave
  <2>1. away # None
    BY <1>8 DEF Leave, None
  <2>2. away.path \in Paths /\ away.from \in Value
    BY <1>0, <2>1 DEF Taken
  <2>3. away' \in {None, [kind |-> "out", path |-> away.path, from |-> away.from]}
    BY <1>8 DEF Leave
  <2>4. away' \in Taken \cup {None}
    BY <2>2, <2>3 DEF Taken
  <2> QED BY <1>0, <1>8, <2>4 DEF Leave
<1>9. CASE EditorReturned
  <2>1. away' = None /\ UNCHANGED <<opening, opened, candidates, keys, moves>>
    BY <1>9 DEF EditorReturned
  <2> QED BY <1>0, <2>1
<1>10. CASE RootLeaves
  BY <1>0, <1>10 DEF RootLeaves, Move
<1>11. CASE \/ \E p \in Paths \cup {0} : Select(p)
            \/ NoteCancel \/ NoteSend \/ PickerCloses \/ SnoozeCancel
            \/ SnoozeApply \/ Yes \/ No \/ EditorSave \/ EditorClose \/ Pile
  <2>1. UNCHANGED <<opening, opened, away, candidates, keys, moves>>
    BY <1>11 DEF Select, NoteCancel, NoteSend, PickerCloses, SnoozeCancel,
         SnoozeApply, Yes, No, EditorSave, EditorClose, Pile
  <2> QED BY <1>0, <2>1
<1>12. CASE \/ \E n \in Agents : AgentsChange(n)
            \/ \E p \in Edited, c \in Contents \cup {Absent} : Edit(p, c)
            \/ OtherUndoes
            \/ \E p \in Edited : OtherAccepts(p)
  <2>1. /\ UNCHANGED <<opening, opened, away, keys>>
        /\ candidates' \in Agents /\ moves < MaxMoves /\ moves' = moves + 1
    BY <1>0, <1>12 DEF AgentsChange, Edit, OtherAccepts, OtherUndoes, Move
  <2> QED BY <1>0, <2>1
<1>13. CASE UNCHANGED vars
  BY <1>0, <1>13 DEF vars
<1> QED
  BY <1>1, <1>2, <1>3, <1>4, <1>5, <1>6, <1>7, <1>8, <1>9, <1>10, <1>11, <1>12,
     <1>13 DEF Next

\* What a key asks for has the shape of a task.
LEMMA AcceptTyped ==
    ASSUME NEW reqs, NEW ps \in SUBSET Paths, ps # {}, reqs \in [ps -> Value]
    PROVE  [kind |-> "accept", reqs |-> reqs] \in Task
<1>1. reqs \in Entry
  BY EntryTyped
<1> QED BY <1>1 DEF Task

LEMMA TasksStep == TypeOK /\ [Next]_vars => tasks' \subseteq Task
<1> SUFFICES ASSUME TypeOK, [Next]_vars PROVE tasks' \subseteq Task
  OBVIOUS
<1>0. /\ tasks \subseteq Task /\ sel \in Listed(rows) \cup {0}
      /\ Listed(rows) \subseteq Paths
      /\ \A p \in Paths : rows[p].cur \in Value /\ rows[p].base \in Value
      /\ keys \in Nat /\ opened \in Nat
  BY Constants DEF TypeOK, NavTyped, EngineTyped, Listed, Row
<1>1. ASSUME NEW ps \in SUBSET Paths, StartAccept(Requests(ps))
      PROVE  tasks' \subseteq Task
  <2>1. Requests(ps) \in [ps -> Value] /\ DOMAIN Requests(ps) = ps
    BY <1>0 DEF Requests
  <2>2. CASE ps = {}
    BY <1>0, <1>1, <2>1, <2>2 DEF StartAccept
  <2>3. CASE ps # {}
    BY <1>0, <1>1, <2>1, <2>3, AcceptTyped DEF StartAccept
  <2> QED BY <2>2, <2>3
<1>2. ASSUME NEW p \in Paths, StartRestore(p) PROVE tasks' \subseteq Task
  <2>1. [kind |-> "restore", path |-> p, from |-> rows[p].cur, to |-> rows[p].base]
            \in Task
    BY <1>0 DEF Task
  <2> QED BY <1>0, <1>2, <2>1 DEF StartRestore
<1>3. CASE PressAccept
  <2>1. \/ tasks' = tasks
        \/ StartAccept(Requests(IF sel = 0 THEN Listed(rows) ELSE {sel}))
    BY <1>3 DEF PressAccept
  <2>2. (IF sel = 0 THEN Listed(rows) ELSE {sel}) \in SUBSET Paths
    BY <1>0
  <2> QED BY <1>0, <1>1, <2>1, <2>2
<1>4. ASSUME NEW whole \in BOOLEAN, PressRestore(whole)
      PROVE  tasks' \subseteq Task
  BY <1>0, <1>2, <1>4 DEF PressRestore
<1>5. CASE PressEdit
  <2>1. sel \in Paths
    BY <1>0, <1>5 DEF PressEdit, Editable
  <2>2. [kind |-> "read", path |-> sel, from |-> rows[sel].cur, gen |-> opened + 1]
            \in Task
    BY <1>0, <2>1 DEF Task
  <2> QED BY <1>0, <1>5, <2>2 DEF PressEdit
<1>6. CASE NoteSend
  <2>1. note.path \in Paths
    BY <1>6, LayerOfKey DEF NoteSend, TypeOK, LayersTyped
  <2>2. [kind |-> "flag", path |-> note.path, id |-> keys] \in Task
    BY <1>0, <2>1 DEF Task
  <2> QED BY <1>0, <1>6, <2>2 DEF NoteSend
<1>7. CASE SnoozeApply \/ PressUndo \/ PressRefresh
  <2>1. \A k \in {"snooze", "undo", "refresh"} : [kind |-> k] \in Task
    BY DEF Task
  <2> QED BY <1>0, <1>7, <2>1 DEF SnoozeApply, PressUndo, PressRefresh
<1>8. CASE EditorSave
  <2>1. editor \in Buffer
    BY <1>8, LayerOfKey DEF EditorSave, TypeOK, LayersTyped
  <2>2. [kind |-> "save", path |-> editor.path, from |-> editor.from,
         gen |-> editor.gen, text |-> editor.text] \in Task
    BY <2>1 DEF Task, Buffer
  <2> QED BY <1>0, <1>8, <2>2 DEF EditorSave
<1>9. CASE Yes
  <2>1. confirm # None
    BY <1>9, LayerOfKey DEF Yes
  <2>2. CASE confirm.kind = "accept"
    BY <1>0, <1>1, <1>9, <2>2 DEF Yes
  <2>3. CASE confirm.kind = "bless"
    <3>1. Blessed(confirm) \in [{confirm.path} -> Value]
          /\ {confirm.path} \in SUBSET Paths
      BY <2>1, <2>3, QuestionKinds DEF Blessed
    <3>2. [kind |-> "accept", reqs |-> Blessed(confirm)] \in Task
      BY <3>1, AcceptTyped
    <3>3. StartAccept(Blessed(confirm))
      BY <1>9, <2>3 DEF Yes
    <3> QED BY <1>0, <3>2, <3>3 DEF StartAccept
  <2>4. CASE confirm.kind = "restore"
    BY <1>2, <1>9, <2>1, <2>4, QuestionKinds DEF Yes
  <2>5. CASE confirm.kind = "discard"
    BY <1>0, <1>9, <2>5 DEF Yes
  <2> QED BY <2>1, <2>2, <2>3, <2>4, <2>5, QuestionKinds
<1>10. ASSUME NEW t \in tasks, \/ Accepted(t) \/ Restored(t) \/ Flagged(t)
                               \/ Snoozed(t) \/ EditRead(t) \/ Saved(t)
                               \/ Undone(t) \/ Refreshed(t)
       PROVE  tasks' \subseteq Task
  BY <1>0, <1>10 DEF Accepted, Restored, Flagged, Snoozed, EditRead, Saved,
              Undone, Refreshed, Answer
<1>11. CASE \/ \E p \in Paths \cup {0} : Select(p)
            \/ PressNote \/ PressSnooze \/ PressExternal \/ NoteCancel
            \/ PickerCloses \/ SnoozeCancel \/ No \/ EditorType \/ EditorClose
            \/ Leave \/ EditorReturned \/ Pile \/ RootLeaves
  BY <1>0, <1>11 DEF Select, PressNote, PressSnooze, PressExternal, NoteCancel,
       PickerCloses, SnoozeCancel, No, EditorType, EditorClose, Leave,
       EditorReturned, Pile, RootLeaves
<1>12. CASE \/ \E n \in Agents : AgentsChange(n)
            \/ \E p \in Edited, c \in Contents \cup {Absent} : Edit(p, c)
            \/ OtherUndoes
            \/ \E p \in Edited : OtherAccepts(p)
            \/ UNCHANGED vars
  BY <1>0, <1>12 DEF AgentsChange, Edit, OtherAccepts, OtherUndoes, vars
<1> QED
  BY <1>3, <1>4, <1>5, <1>6, <1>7, <1>8, <1>9, <1>10, <1>11, <1>12 DEF Next

\* For any number of files, agents and keys: the variables keep their types
\* and the selection is always an entry of the nav (App::reconcile_selection).
THEOREM TypeCorrect == Spec => []TypeOK
<1>1. Init => TypeOK
  <2> SUFFICES ASSUME Init PROVE TypeOK
    OBVIOUS
  <2>1. FilesTyped
    BY ValuesHold DEF Init, FilesTyped
  <2>2. NavTyped
    <3>1. shown \in [Paths -> SUBSET Value]
      BY ValuesHold, <2>1 DEF Init, FilesTyped
    <3> QED BY <2>1, <3>1, ScannedTyped DEF Init, NavTyped
  <2>3. LayersTyped
    BY DEF Init, LayersTyped
  <2>4. EngineTyped
    BY Constants DEF Init, EngineTyped
  <2>5. GuardsTyped
    BY DEF Init, GuardsTyped
  <2>6. tasks \subseteq Task
    BY DEF Init
  <2> QED BY <2>1, <2>2, <2>3, <2>4, <2>5, <2>6 DEF TypeOK
<1>2. TypeOK /\ [Next]_vars => TypeOK'
  BY FilesStep, NavStep, LayersStep, GuardsStep, EngineStep, TasksStep DEF TypeOK
<1> QED
  BY <1>1, <1>2, PTL DEF Spec

-----------------------------------------------------------------------------
(* Guards and tasks.                                                        *)

\* While its guard is up one task of the kind is under way, else none.
One(kind, up) == IF up THEN \E t : Asked(kind) = {t} ELSE Asked(kind) = {}

\* The answer to an open carries the number that is awaited, and nothing is
\* opened while an editor is, or asked for while the field for it is open.
GuardInv ==
    /\ One("accept", accepting) /\ One("restore", restoring)
    /\ One("snooze", snoozing) /\ One("read", opening # 0)
    /\ One("undo", undoing) /\ One("refresh", refreshing)
    /\ \A t \in Asked("read") : t.gen = opening
    /\ opening # 0 => editor = None
    /\ snooze => ~snoozing

LEMMA AddsTask ==
    ASSUME NEW n, tasks' = tasks \cup {n}
    PROVE  \A k : Asked(k)' = IF n.kind = k THEN Asked(k) \cup {n} ELSE Asked(k)
BY DEF Asked

LEMMA TakesTask ==
    ASSUME NEW t \in tasks, tasks' = tasks \ {t}
    PROVE  \A k : Asked(k)' = IF t.kind = k THEN Asked(k) \ {t} ELSE Asked(k)
BY DEF Asked

LEMMA KeepsTasks == tasks' = tasks => \A k : Asked(k)' = Asked(k)
BY DEF Asked

LEMMA AcceptStarts ==
    ASSUME GuardInv, ~accepting, NEW reqs, StartAccept(reqs)
    PROVE  /\ One("accept", accepting)'
           /\ \A k : k # "accept" => Asked(k)' = Asked(k)
<1> DEFINE n == [kind |-> "accept", reqs |-> reqs]
<1>1. CASE tasks' = tasks /\ accepting' = accepting
  BY <1>1, KeepsTasks DEF GuardInv, One
<1>2. CASE tasks' = tasks \cup {n} /\ accepting' = TRUE
  <2>1. n.kind = "accept"
    OBVIOUS
  <2> HIDE DEF n
  <2>2. Asked("accept")' = Asked("accept") \cup {n}
    BY <1>2, <2>1, AddsTask
  <2>3. Asked("accept")' = {n}
    BY <2>2 DEF GuardInv, One
  <2>4. \A k : k # "accept" => Asked(k)' = Asked(k)
    BY <1>2, <2>1, AddsTask
  <2> QED BY <1>2, <2>3, <2>4 DEF One
<1> QED BY <1>1, <1>2 DEF StartAccept

LEMMA RestoreStarts ==
    ASSUME GuardInv, ~restoring, NEW p, StartRestore(p)
    PROVE  /\ One("restore", restoring)'
           /\ \A k : k # "restore" => Asked(k)' = Asked(k)
<1> DEFINE n == [kind |-> "restore", path |-> p, from |-> rows[p].cur,
                 to |-> rows[p].base]
<1>1. CASE tasks' = tasks /\ restoring' = restoring
  BY <1>1, KeepsTasks DEF GuardInv, One
<1>2. CASE tasks' = tasks \cup {n} /\ restoring' = TRUE
  <2>1. n.kind = "restore"
    OBVIOUS
  <2> HIDE DEF n
  <2>2. Asked("restore")' = Asked("restore") \cup {n}
    BY <1>2, <2>1, AddsTask
  <2>3. Asked("restore")' = {n}
    BY <2>2 DEF GuardInv, One
  <2>4. \A k : k # "restore" => Asked(k)' = Asked(k)
    BY <1>2, <2>1, AddsTask
  <2> QED BY <1>2, <2>3, <2>4 DEF One
<1> QED BY <1>1, <1>2 DEF StartRestore

\* The answer to the one task of a kind leaves none.
LEMMA AnswerEnds ==
    ASSUME GuardInv, NEW t, Answer(t)
    PROVE  /\ t.kind \in {"accept", "restore", "snooze", "read", "undo", "refresh"} => Asked(t.kind)' = {}
           /\ \A k : k # t.kind => Asked(k)' = Asked(k)
<1>1. t \in tasks /\ tasks' = tasks \ {t}
  BY DEF Answer
<1>2. \A k : Asked(k)' = IF t.kind = k THEN Asked(k) \ {t} ELSE Asked(k)
  BY <1>1, TakesTask
<1>3. t \in Asked(t.kind)
  BY <1>1 DEF Asked
<1>4. ASSUME NEW up, One(t.kind, up) PROVE Asked(t.kind) = {t}
  BY <1>3, <1>4 DEF One
<1>5. t.kind \in {"accept", "restore", "snooze", "read", "undo", "refresh"} => Asked(t.kind) = {t}
  BY <1>4 DEF GuardInv
<1> QED BY <1>2, <1>5

\* Each guard is raised with the task it is for and falls with its answer.
LEMMA GuardStep == TypeOK /\ GuardInv /\ [Next]_vars => GuardInv'
<1> SUFFICES ASSUME TypeOK, GuardInv, [Next]_vars PROVE GuardInv'
  OBVIOUS
<1> USE DEF layerVars, navVars, workVars, guardVars
<1>1. CASE PressAccept
  <2>1. ~accepting /\ UNCHANGED <<restoring, snoozing, opening, editor, snooze, workVars>>
    BY <1>1 DEF PressAccept
  <2>2. CASE UNCHANGED <<accepting, tasks>>
    BY <2>1, <2>2, KeepsTasks DEF GuardInv, One
  <2>3. ASSUME NEW ps, StartAccept(Requests(ps)) PROVE GuardInv'
    BY <2>1, <2>3, AcceptStarts DEF GuardInv, One
  <2> QED BY <1>1, <2>2, <2>3 DEF PressAccept
<1>2. ASSUME NEW whole \in BOOLEAN, PressRestore(whole) PROVE GuardInv'
  <2>1. ~restoring /\ UNCHANGED <<accepting, snoozing, opening, editor, snooze, workVars>>
    BY <1>2 DEF PressRestore
  <2>2. CASE UNCHANGED <<restoring, tasks>>
    BY <2>1, <2>2, KeepsTasks DEF GuardInv, One
  <2>3. CASE StartRestore(sel)
    BY <2>1, <2>3, RestoreStarts DEF GuardInv, One
  <2> QED BY <1>2, <2>2, <2>3 DEF PressRestore
<1>3. CASE PressEdit
  <2> DEFINE n == [kind |-> "read", path |-> sel, from |-> rows[sel].cur,
                   gen |-> opened + 1]
  <2>1. /\ opening = 0 /\ opening' = opened + 1 /\ tasks' = tasks \cup {n}
        /\ UNCHANGED <<accepting, restoring, snoozing, editor, snooze, workVars>>
    BY <1>3 DEF PressEdit
  <2>2. n.kind = "read" /\ n.gen = opening'
    BY <2>1
  <2>3. opening' # 0
    BY <2>1 DEF TypeOK, EngineTyped
  <2>4. editor = None
    BY <1>3, BareScreen DEF PressEdit, Press
  <2> HIDE DEF n
  <2>5. Asked("read")' = {n} /\ \A k : k # "read" => Asked(k)' = Asked(k)
    BY <2>1, <2>2, AddsTask DEF GuardInv, One
  <2> QED BY <2>1, <2>2, <2>3, <2>4, <2>5 DEF GuardInv, One
<1>4. CASE NoteSend
  <2> DEFINE n == [kind |-> "flag", path |-> note.path, id |-> keys]
  <2>1. /\ tasks' = tasks \cup {n} /\ n.kind = "flag"
        /\ UNCHANGED <<guardVars, opening, editor, snooze>>
    BY <1>4 DEF NoteSend
  <2> HIDE DEF n
  <2>2. \A k : k # "flag" => Asked(k)' = Asked(k)
    BY <2>1, AddsTask
  <2> QED BY <2>1, <2>2 DEF GuardInv, One
<1>5. CASE PressSnooze \/ SnoozeCancel
  <2>1. /\ UNCHANGED <<guardVars, opening, editor, tasks>>
        /\ snooze' => ~snoozing
    BY <1>5 DEF PressSnooze, SnoozeCancel
  <2> QED BY <2>1, KeepsTasks DEF GuardInv, One
<1>6. CASE SnoozeApply
  <2> DEFINE n == [kind |-> "snooze"]
  <2>1. /\ tasks' = tasks \cup {n} /\ n.kind = "snooze" /\ ~snooze' /\ snoozing'
        /\ UNCHANGED <<accepting, restoring, opening, editor, workVars>>
    BY <1>6 DEF SnoozeApply
  <2> HIDE DEF n
  <2>2. ~snoozing
    BY <1>6, LayerOfKey DEF SnoozeApply, GuardInv
  <2>3. Asked("snooze")' = {n} /\ \A k : k # "snooze" => Asked(k)' = Asked(k)
    BY <2>1, <2>2, AddsTask DEF GuardInv, One
  <2> QED BY <2>1, <2>3 DEF GuardInv, One
<1>7. CASE EditorSave
  <2> DEFINE n == [kind |-> "save", path |-> editor.path, from |-> editor.from,
                   gen |-> editor.gen, text |-> editor.text]
  <2>1. /\ tasks' = tasks \cup {n} /\ n.kind = "save"
        /\ UNCHANGED <<guardVars, opening, snooze>>
    BY <1>7 DEF EditorSave
  <2> HIDE DEF n
  <2>2. \A k : k # "save" => Asked(k)' = Asked(k)
    BY <2>1, AddsTask
  <2>3. editor # None
    BY <1>7, LayerOfKey DEF EditorSave
  <2> QED BY <2>1, <2>2, <2>3 DEF GuardInv, One
<1>8. CASE Yes
  <2>1. /\ MayAnswer(confirm) /\ confirm # None
        /\ UNCHANGED <<snoozing, opening, snooze, workVars>>
    BY <1>8, LayerOfKey DEF Yes
  <2>2. CASE confirm.kind = "accept"
    <3>1. ~accepting /\ StartAccept(Requests(Listed(rows)))
          /\ UNCHANGED <<restoring, editor>>
      BY <1>8, <2>1, <2>2 DEF Yes, MayAnswer
    <3> QED BY <2>1, <3>1, AcceptStarts DEF GuardInv, One
  <2>3. CASE confirm.kind = "bless"
    <3>1. ~accepting /\ StartAccept(Blessed(confirm)) /\ UNCHANGED <<restoring, editor>>
      BY <1>8, <2>1, <2>3 DEF Yes, MayAnswer
    <3> QED BY <2>1, <3>1, AcceptStarts DEF GuardInv, One
  <2>4. CASE confirm.kind = "restore"
    <3>1. ~restoring /\ StartRestore(confirm.path) /\ UNCHANGED <<accepting, editor>>
      BY <1>8, <2>1, <2>4 DEF Yes, MayAnswer
    <3> QED BY <2>1, <3>1, RestoreStarts DEF GuardInv, One
  <2>5. CASE confirm.kind = "discard"
    <3>1. editor' = None /\ UNCHANGED <<accepting, restoring, tasks>>
      BY <1>8, <2>1, <2>5 DEF Yes
    <3> QED BY <2>1, <3>1, KeepsTasks DEF GuardInv, One
  <2> QED BY <2>1, <2>2, <2>3, <2>4, <2>5, QuestionKinds
<1>9. CASE EditorType \/ EditorClose
  <2>1. editor # None /\ UNCHANGED <<guardVars, snooze, opening, tasks>>
    BY <1>9, LayerOfKey DEF EditorType, EditorClose
  <2> QED BY <2>1, KeepsTasks DEF GuardInv, One
<1>10. ASSUME NEW t \in tasks, Accepted(t) PROVE GuardInv'
  <2>1. /\ t.kind = "accept" /\ Answer(t) /\ ~accepting'
        /\ UNCHANGED <<restoring, snoozing, snooze, opening, editor, workVars>>
    BY <1>10 DEF Accepted
  <2>2. Asked("accept")' = {} /\ \A k : k # "accept" => Asked(k)' = Asked(k)
    BY <2>1, AnswerEnds
  <2> QED BY <2>1, <2>2 DEF GuardInv, One
<1>11. ASSUME NEW t \in tasks, Restored(t) PROVE GuardInv'
  <2>1. /\ t.kind = "restore" /\ Answer(t) /\ ~restoring'
        /\ UNCHANGED <<accepting, snoozing, snooze, opening, editor, workVars>>
    BY <1>11 DEF Restored
  <2>2. Asked("restore")' = {} /\ \A k : k # "restore" => Asked(k)' = Asked(k)
    BY <2>1, AnswerEnds
  <2> QED BY <2>1, <2>2 DEF GuardInv, One
<1>12. ASSUME NEW t \in tasks, Snoozed(t) PROVE GuardInv'
  <2>1. /\ t.kind = "snooze" /\ Answer(t) /\ ~snoozing'
        /\ UNCHANGED <<accepting, restoring, opening, editor, workVars>>
    BY <1>12 DEF Snoozed
  <2>2. Asked("snooze")' = {} /\ \A k : k # "snooze" => Asked(k)' = Asked(k)
    BY <2>1, AnswerEnds
  <2> QED BY <2>1, <2>2 DEF GuardInv, One
<1>13. ASSUME NEW t \in tasks, EditRead(t) PROVE GuardInv'
  <2>1. /\ t.kind = "read" /\ Answer(t)
        /\ UNCHANGED <<guardVars, snooze>>
    BY <1>13 DEF EditRead
  <2>2. Asked("read")' = {} /\ \A k : k # "read" => Asked(k)' = Asked(k)
    BY <2>1, AnswerEnds
  <2>3. t.gen = opening
    BY <2>1 DEF GuardInv, Asked
  <2>4. opening' = 0
    BY <1>13, <2>3 DEF EditRead
  <2> QED BY <2>1, <2>2, <2>4 DEF GuardInv, One
<1>14. ASSUME NEW t \in tasks, Flagged(t) PROVE GuardInv'
  <2>1. /\ t.kind = "flag" /\ Answer(t)
        /\ UNCHANGED <<guardVars, snooze, opening, editor>>
    BY <1>14 DEF Flagged
  <2>2. \A k : k # "flag" => Asked(k)' = Asked(k)
    BY <2>1, AnswerEnds
  <2> QED BY <2>1, <2>2 DEF GuardInv, One
<1>15. ASSUME NEW t \in tasks, Saved(t) PROVE GuardInv'
  <2>1. /\ t.kind = "save" /\ Answer(t)
        /\ UNCHANGED <<guardVars, snooze, opening>>
    BY <1>15 DEF Saved
  <2>2. \A k : k # "save" => Asked(k)' = Asked(k)
    BY <2>1, AnswerEnds
  <2>3. editor = None => editor' = None
    BY <1>15 DEF Saved, AfterSave, Mine
  <2> QED BY <2>1, <2>2, <2>3 DEF GuardInv, One
<1>16. CASE \/ \E p \in Paths \cup {0} : Select(p)
            \/ PressNote \/ PressExternal \/ NoteCancel \/ PickerCloses \/ No
            \/ Leave \/ EditorReturned \/ Pile \/ RootLeaves
  <2>1. UNCHANGED <<guardVars, snooze, opening, editor, tasks>>
    BY <1>16 DEF Select, PressNote, PressExternal, NoteCancel, PickerCloses,
         No, Leave, EditorReturned, Pile, RootLeaves
  <2> QED BY <2>1, KeepsTasks DEF GuardInv, One
<1>17. CASE \/ \E n \in Agents : AgentsChange(n)
            \/ \E p \in Edited, c \in Contents \cup {Absent} : Edit(p, c)
            \/ OtherUndoes
            \/ \E p \in Edited : OtherAccepts(p)
            \/ UNCHANGED vars
  <2>1. UNCHANGED <<guardVars, snooze, opening, editor, tasks>>
    BY <1>17 DEF AgentsChange, Edit, OtherAccepts, OtherUndoes, vars
  <2> QED BY <2>1, KeepsTasks DEF GuardInv, One
<1>18. CASE PressUndo
  <2> DEFINE n == [kind |-> "undo"]
  <2>1. /\ tasks' = tasks \cup {n} /\ n.kind = "undo" /\ ~undoing /\ undoing'
        /\ UNCHANGED <<accepting, restoring, snoozing, refreshing, snooze,
                       opening, editor>>
    BY <1>18 DEF PressUndo
  <2> HIDE DEF n
  <2>2. Asked("undo")' = {n} /\ \A k : k # "undo" => Asked(k)' = Asked(k)
    BY <2>1, AddsTask DEF GuardInv, One
  <2> QED BY <2>1, <2>2 DEF GuardInv, One
<1>19. CASE PressRefresh
  <2> DEFINE n == [kind |-> "refresh"]
  <2>1. /\ tasks' = tasks \cup {n} /\ n.kind = "refresh" /\ ~refreshing
        /\ refreshing' /\ UNCHANGED <<accepting, restoring, snoozing, undoing,
                                      snooze, opening, editor>>
    BY <1>19 DEF PressRefresh
  <2> HIDE DEF n
  <2>2. Asked("refresh")' = {n} /\ \A k : k # "refresh" => Asked(k)' = Asked(k)
    BY <2>1, AddsTask DEF GuardInv, One
  <2> QED BY <2>1, <2>2 DEF GuardInv, One
<1>20. ASSUME NEW t \in tasks, Undone(t) PROVE GuardInv'
  <2>1. /\ t.kind = "undo" /\ Answer(t) /\ ~undoing'
        /\ UNCHANGED <<accepting, restoring, snoozing, refreshing, snooze,
                       opening, editor>>
    BY <1>20 DEF Undone
  <2>2. Asked("undo")' = {} /\ \A k : k # "undo" => Asked(k)' = Asked(k)
    BY <2>1, AnswerEnds
  <2> QED BY <2>1, <2>2 DEF GuardInv, One
<1>21. ASSUME NEW t \in tasks, Refreshed(t) PROVE GuardInv'
  <2>1. /\ t.kind = "refresh" /\ Answer(t) /\ ~refreshing'
        /\ UNCHANGED <<accepting, restoring, snoozing, undoing, snooze,
                       opening, editor>>
    BY <1>21 DEF Refreshed
  <2>2. Asked("refresh")' = {} /\ \A k : k # "refresh" => Asked(k)' = Asked(k)
    BY <2>1, AnswerEnds
  <2> QED BY <2>1, <2>2 DEF GuardInv, One
<1> QED
  BY <1>1, <1>2, <1>3, <1>4, <1>5, <1>6, <1>7, <1>8, <1>9, <1>10, <1>11, <1>12,
     <1>13, <1>14, <1>15, <1>16, <1>17, <1>18, <1>19, <1>20, <1>21 DEF Next

LEMMA GuardInvariant == Spec => [](TypeOK /\ GuardInv)
<1>1. Init => GuardInv
  BY DEF Init, GuardInv, One, Asked
<1> QED
  BY <1>1, GuardStep, TypeCorrect, PTL DEF Spec

\* For any number of files and agents: a guard is up exactly while one task of
\* its kind is under way, the second look at `y` included (App::handle).
THEOREM GuardsAgree == Spec => []GuardsMatch
<1>1. ASSUME NEW kind, NEW up, One(kind, up)
      PROVE  Cardinality(Asked(kind)) = IF up THEN 1 ELSE 0
  BY <1>1, FS_EmptySet, FS_Singleton DEF One
<1>2. GuardInv => GuardsMatch
  BY <1>1 DEF GuardInv, GuardsMatch
<1> QED
  BY <1>2, GuardInvariant, PTL

-----------------------------------------------------------------------------
(* What is typed into the inline editor.                                    *)

LEMMA EditorStep ==
    ASSUME TypeOK, GuardInv, [Next]_vars, editor # None, editor.text > 0
    PROVE  \/ editor' # None /\ editor'.gen = editor.gen
           \/ confirm.kind = "discard" /\ confirm' = None
           \/ \E t \in Asked("save") \ tasks' :
                 t.path = editor.path /\ disk'[t.path] = Ours
<1> USE DEF layerVars, navVars, workVars
<1>0. editor \in Buffer
  BY DEF TypeOK, LayersTyped
<1>1. ASSUME NEW v \in BOOLEAN, NEW k \in Nat,
             editor' = [editor EXCEPT !.text = k] \/ editor' = [editor EXCEPT !.saving = v]
      PROVE  editor' # None /\ editor'.gen = editor.gen
  BY <1>0, <1>1 DEF Buffer, None
<1>2. CASE EditorType \/ EditorSave
  <2>1. editor.text + 1 \in Nat
    BY <1>0 DEF Buffer
  <2> QED BY <1>1, <1>2, <2>1 DEF EditorType, EditorSave
<1>3. CASE EditorClose
  BY <1>3 DEF EditorClose
<1>4. CASE Yes
  <2>1. confirm # None
    BY <1>4, LayerOfKey DEF Yes
  <2> QED BY <1>4, <2>1, QuestionKinds DEF Yes
<1>5. ASSUME NEW t \in tasks, EditRead(t) PROVE editor' = editor
  <2>1. t.kind = "read"
    BY <1>5 DEF EditRead
  <2>2. Asked("read") # {}
    BY <2>1 DEF Asked
  <2>3. opening # 0
    BY <2>2 DEF GuardInv, One
  <2> QED BY <2>3 DEF GuardInv
<1>6. ASSUME NEW t \in tasks, Saved(t)
      PROVE  \/ editor' # None /\ editor'.gen = editor.gen
             \/ \E u \in Asked("save") \ tasks' :
                   u.path = editor.path /\ disk'[u.path] = Ours
  <2>1. t.kind = "save" /\ t \in Asked("save") \ tasks' /\ t.path \in Paths
    BY <1>6, TaskOfKind DEF Saved, Answer, Asked
  <2>2. CASE editor' = AfterSave(t, FALSE) \/ ~Mine(t)
    <3>1. editor' = editor \/ editor' = [editor EXCEPT !.saving = FALSE]
      BY <1>6, <2>2 DEF Saved, AfterSave
    <3> QED BY <1>1, <3>1
  <2>3. CASE Mine(t) /\ disk' = [disk EXCEPT ![t.path] = Ours]
    <3>1. disk'[t.path] = Ours
      BY <2>1, <2>3 DEF TypeOK, FilesTyped
    <3>2. t.path = editor.path
      BY <2>3 DEF Mine
    <3> QED BY <2>1, <3>1, <3>2
  <2> QED BY <1>6, <2>2, <2>3 DEF Saved
<1>7. ASSUME NEW t \in tasks, \/ Accepted(t) \/ Restored(t) \/ Flagged(t)
                              \/ Snoozed(t) \/ Undone(t) \/ Refreshed(t)
      PROVE  editor' = editor
  BY <1>7 DEF Accepted, Restored, Flagged, Snoozed, Undone, Refreshed
<1>8. CASE \/ \E p \in Paths \cup {0} : Select(p)
           \/ PressAccept \/ PressNote \/ PressSnooze \/ PressEdit \/ PressExternal
           \/ PressUndo \/ PressRefresh
           \/ \E whole \in BOOLEAN : PressRestore(whole)
           \/ NoteCancel \/ NoteSend \/ PickerCloses \/ SnoozeCancel
           \/ SnoozeApply \/ No
  <2>1. editor' = editor
    BY <1>8 DEF Select, PressAccept, PressNote, PressSnooze, PressEdit,
         PressExternal, PressUndo, PressRefresh, PressRestore, NoteCancel,
         NoteSend, PickerCloses,
         SnoozeCancel, SnoozeApply, No
  <2> QED BY <2>1
<1>9. CASE \/ Leave \/ EditorReturned \/ Pile \/ RootLeaves
           \/ \E n \in Agents : AgentsChange(n)
           \/ \E p \in Edited, c \in Contents \cup {Absent} : Edit(p, c)
           \/ OtherUndoes
           \/ \E p \in Edited : OtherAccepts(p)
           \/ UNCHANGED vars
  <2>1. editor' = editor
    BY <1>9 DEF Leave, EditorReturned, Pile, RootLeaves, AgentsChange, Edit,
         OtherAccepts, OtherUndoes, vars
  <2> QED BY <2>1
<1> QED
  BY <1>2, <1>3, <1>4, <1>5, <1>6, <1>7, <1>8, <1>9 DEF Next

\* For any number of files and keys: typed text leaves the editor only by `y`
\* to its question or into the file it is of (App::saved, App::edit_read).
THEOREM TypedTextStays == Spec => EditorKept
<1>1. TypeOK /\ GuardInv /\ [Next]_vars =>
        [editor # None /\ editor.text > 0 =>
          \/ editor' # None /\ editor'.gen = editor.gen
          \/ confirm.kind = "discard" /\ confirm' = None
          \/ \E t \in Asked("save") \ tasks' :
                t.path = editor.path /\ disk'[t.path] = Ours]_vars
  BY EditorStep
<1> QED
  BY <1>1, GuardInvariant, PTL DEF Spec, EditorKept

-----------------------------------------------------------------------------
(* What counts as seen.                                                     *)

\* The rows, the requests and the question after $EDITOR hold what was shown.
RowsShown == \A p \in Listed(rows) : rows[p].cur \in shown[p]
ReqsShown == \A t \in Asked("accept") :
                \A p \in DOMAIN t.reqs : t.reqs[p] \in shown[p]
BlessShown == confirm.kind = "bless" => confirm.of \in shown[confirm.path]

\* What an undo would bring back was shown, too.
StackShown == \A i \in 1..Len(stack) : \A p \in DOMAIN stack[i] :
                 stack[i][p] \in shown[p] \cup {Ours}

SeenInv == AcceptsWereShown /\ RowsShown /\ ReqsShown /\ BlessShown
           /\ StackShown

\* What was shown was shown; and the rows change with a pile or go.
LEMMA ShownGrows ==
    ASSUME TypeOK, [Next]_vars
    PROVE  /\ \A p \in Paths : shown[p] \subseteq shown'[p]
           /\ \/ rows' = rows
              \/ \A p \in Listed(rows') : rows'[p].cur \in shown'[p]
<1> DEFINE G == /\ \A p \in Paths : shown[p] \subseteq shown'[p]
                /\ \/ rows' = rows
                   \/ \A p \in Listed(rows') : rows'[p].cur \in shown'[p]
<1> SUFFICES G
  OBVIOUS
<1> USE DEF navVars
<1>0. NavTyped /\ FilesTyped
  BY DEF TypeOK
<1>1. ASSUME NEW t \in tasks, \/ Accepted(t) \/ Restored(t) \/ Flagged(t)
                              \/ Snoozed(t) \/ EditRead(t) \/ Saved(t)
                              \/ Undone(t) \/ Refreshed(t)
      PROVE  G
  <2>1. CASE KeepRows
    BY <2>1 DEF KeepRows
  <2>2. CASE Shows
    BY <1>0, <2>2, Showing
  <2> QED BY <1>1, <2>1, <2>2, Answers
<1>2. CASE Pile
  BY <1>0, <1>2, ScannedTyped, Applying, Showing DEF Pile, FilesTyped
<1>3. CASE EditorReturned
  <2>1. rows' = rows
    BY <1>3 DEF EditorReturned
  <2>2. \/ shown' = shown
        \/ shown' = [shown EXCEPT ![away.path] = @ \cup {disk[away.path]}]
    BY <1>3 DEF EditorReturned
  <2> QED BY <1>0, <2>1, <2>2 DEF NavTyped
<1>4. ASSUME NEW p \in Edited, OtherAccepts(p) PROVE G
  <2>1. rows' = rows /\ shown' = [shown EXCEPT ![p] = @ \cup {disk[p]}]
    BY <1>4 DEF OtherAccepts
  <2> QED BY <1>0, <2>1 DEF NavTyped
<1>5. CASE RootLeaves
  <2>1. /\ rows' = [p \in Paths |-> [base |-> Absent, cur |-> Absent]]
        /\ shown' = shown
    BY <1>5 DEF RootLeaves
  <2> QED BY <2>1 DEF Listed
<1>6. CASE \/ \E p \in Paths \cup {0} : Select(p)
           \/ PressAccept \/ PressNote \/ PressSnooze \/ PressEdit \/ PressExternal
           \/ PressUndo \/ PressRefresh
           \/ \E whole \in BOOLEAN : PressRestore(whole)
           \/ NoteCancel \/ NoteSend \/ PickerCloses \/ SnoozeCancel
           \/ SnoozeApply \/ EditorType \/ EditorSave \/ EditorClose
  <2>1. UNCHANGED <<rows, shown>>
    BY <1>6 DEF Select, PressAccept, PressNote, PressSnooze, PressEdit,
         PressExternal, PressUndo, PressRefresh, PressRestore, NoteCancel,
         NoteSend, PickerCloses,
         SnoozeCancel, SnoozeApply, EditorType, EditorSave, EditorClose
  <2> QED BY <2>1
<1>7. CASE \/ Yes \/ No \/ Leave \/ OtherUndoes \/ \E n \in Agents : AgentsChange(n)
           \/ \E p \in Edited, c \in Contents \cup {Absent} : Edit(p, c)
           \/ UNCHANGED vars
  <2>1. UNCHANGED <<rows, shown>>
    BY <1>7 DEF Yes, No, Leave, OtherUndoes, AgentsChange, Edit, vars
  <2> QED BY <2>1
<1> HIDE DEF G
<1> QED
  BY <1>1, <1>2, <1>3, <1>4, <1>5, <1>6, <1>7 DEF Next

\* What a Take makes seen and puts on the stack was shown, if what it takes was.
LEMMA TakesShown ==
    ASSUME TypeOK, SeenInv, [Next]_vars, NEW ps \in SUBSET Paths, NEW d,
           Take(ps, d), \A p \in ps : d[p] \in shown'[p] \cup {Ours}
    PROVE  AcceptsWereShown' /\ StackShown'
<1>0. /\ \A p \in Paths : shown[p] \subseteq shown'[p]
      /\ \A p \in Paths : base[p] \in shown[p] \cup {Ours}
      /\ \A i \in 1..Len(stack) : \A p \in DOMAIN stack[i] :
            stack[i][p] \in shown[p] \cup {Ours}
      /\ base \in [Paths -> Value] /\ stack \in Seq(Entry)
  BY ShownGrows DEF SeenInv, AcceptsWereShown, StackShown, TypeOK, FilesTyped
<1>1. AcceptsWereShown'
  BY <1>0 DEF AcceptsWereShown, Take
<1>2. \A i \in 1..Len(stack) : DOMAIN stack[i] \subseteq Paths
  BY <1>0, EntryOf
<1>3. CASE stack' = stack
  <2>1. ASSUME NEW i \in 1..Len(stack), NEW p \in DOMAIN stack[i]
        PROVE  stack[i][p] \in shown'[p] \cup {Ours}
    BY <1>0, <1>2
  <2> QED BY <1>1, <1>3, <2>1 DEF StackShown
<1>4. CASE stack' = Append(stack, [p \in ps |-> base[p]])
  <2>1. ASSUME NEW i \in 1..Len(stack'), NEW p \in DOMAIN stack'[i]
        PROVE  stack'[i][p] \in shown'[p] \cup {Ours}
    <3>1. CASE i \in 1..Len(stack)
      <4>1. stack'[i] = stack[i]
        BY <1>0, <1>4, <3>1
      <4> QED BY <1>0, <1>2, <2>1, <3>1, <4>1
    <3>2. CASE i = Len(stack) + 1
      <4>1. stack'[i] = [q \in ps |-> base[q]]
        BY <1>0, <1>4, <3>2
      <4> QED BY <1>0, <2>1, <4>1
    <3> QED BY <1>0, <1>4, <2>1, <3>1, <3>2
  <2> QED BY <1>1, <2>1 DEF StackShown
<1> QED
  BY <1>1, <1>3, <1>4 DEF Take

\* Only what was shown, or the user's own text, becomes what was seen.
LEMMA BaseStep ==
    TypeOK /\ SeenInv /\ [Next]_vars => AcceptsWereShown' /\ StackShown'
<1> SUFFICES ASSUME TypeOK, SeenInv, [Next]_vars
             PROVE  AcceptsWereShown' /\ StackShown'
  OBVIOUS
<1>0. /\ \A p \in Paths : shown[p] \subseteq shown'[p]
      /\ \A p \in Paths : base[p] \in shown[p] \cup {Ours}
      /\ \A i \in 1..Len(stack) : \A p \in DOMAIN stack[i] :
            stack[i][p] \in shown[p] \cup {Ours}
      /\ FilesTyped
  BY ShownGrows DEF SeenInv, AcceptsWereShown, StackShown, TypeOK
<1>1. \A i \in 1..Len(stack) : DOMAIN stack[i] \subseteq Paths
  BY <1>0, EntryOf DEF FilesTyped
<1>2. CASE UNCHANGED <<base, stack>>
  BY <1>0, <1>1, <1>2 DEF AcceptsWereShown, StackShown
<1>3. CASE stack # <<>> /\ Undo
  <2>1. /\ Len(stack) \in 1..Len(stack) /\ Len(stack') = Len(stack) - 1
        /\ \A i \in 1..Len(stack') : i \in 1..Len(stack) /\ stack'[i] = stack[i]
    BY <1>0, <1>3, Undoing
  <2>2. StackShown'
    BY <1>0, <1>1, <2>1 DEF StackShown
  <2>3. ASSUME NEW p \in Paths PROVE base'[p] \in shown'[p] \cup {Ours}
    <3>1. base'[p] = IF p \in DOMAIN stack[Len(stack)]
                     THEN stack[Len(stack)][p] ELSE base[p]
      BY <1>3 DEF Undo
    <3> QED BY <1>0, <2>1, <3>1
  <2> QED BY <2>2, <2>3 DEF AcceptsWereShown
<1>4. ASSUME NEW t \in Asked("accept"),
             Take({p \in DOMAIN t.reqs : disk[p] = t.reqs[p]}, disk)
      PROVE  AcceptsWereShown' /\ StackShown'
  <2> DEFINE ps == {p \in DOMAIN t.reqs : disk[p] = t.reqs[p]}
  <2>1. DOMAIN t.reqs \subseteq Paths
    BY <1>4, TaskOfKind, EntryOf DEF Asked
  <2>2. \A p \in ps : disk[p] \in shown'[p]
    BY <1>0, <2>1 DEF SeenInv, ReqsShown
  <2>3. ps \in SUBSET Paths
    BY <2>1
  <2> HIDE DEF ps
  <2> QED BY <1>4, <2>2, <2>3, TakesShown DEF ps
<1>5. ASSUME NEW p \in Paths, Take({p}, disk'), disk'[p] = Ours
      PROVE  AcceptsWereShown' /\ StackShown'
  BY <1>5, TakesShown
<1>6. ASSUME NEW p \in Paths, Take({p}, disk), disk[p] \in shown'[p]
      PROVE  AcceptsWereShown' /\ StackShown'
  BY <1>6, TakesShown
<1> QED
  BY <1>2, <1>3, <1>4, <1>5, <1>6, LedgerStep

\* An accept asked for now is of what the rows or the question hold.
LEMMA NewReqs ==
    ASSUME TypeOK, [Next]_vars, SeenInv, NEW reqs, StartAccept(reqs),
           \A p \in DOMAIN reqs : p \in Paths /\ reqs[p] \in shown[p]
    PROVE  ReqsShown'
<1>0. \A p \in Paths : shown[p] \subseteq shown'[p]
  BY ShownGrows
<1> DEFINE n == [kind |-> "accept", reqs |-> reqs]
<1>1. tasks' \subseteq tasks \cup {n}
  BY DEF StartAccept
<1>2. ASSUME NEW t \in Asked("accept")', NEW p \in DOMAIN t.reqs
      PROVE  t.reqs[p] \in shown'[p]
  <2>1. CASE t = n
    BY <1>0, <1>2, <2>1
  <2>2. CASE t \in tasks
    <3>1. t.kind = "accept"
      BY <1>2 DEF Asked
    <3>2. t \in Asked("accept") /\ p \in Paths
      BY <1>2, <2>2, <3>1, TaskOfKind, EntryOf DEF Asked
    <3> QED BY <1>0, <3>2 DEF SeenInv, ReqsShown
  <2>3. t \in tasks \cup {n}
    BY <1>1 DEF Asked
  <2> QED BY <2>1, <2>2, <2>3
<1> QED BY <1>2 DEF ReqsShown

LEMMA ReqsStep == TypeOK /\ SeenInv /\ [Next]_vars => ReqsShown'
<1> SUFFICES ASSUME TypeOK, SeenInv, [Next]_vars PROVE ReqsShown'
  OBVIOUS
<1> USE DEF layerVars, navVars, workVars, guardVars
<1>0. \A p \in Paths : shown[p] \subseteq shown'[p]
  BY ShownGrows
<1>1. ASSUME Asked("accept")' \subseteq Asked("accept") PROVE ReqsShown'
  <2>1. ASSUME NEW t \in Asked("accept")', NEW p \in DOMAIN t.reqs
        PROVE  t.reqs[p] \in shown'[p]
    <3>1. t \in Asked("accept")
      BY <1>1
    <3>2. t \in tasks /\ t.kind = "accept"
      BY <3>1 DEF Asked
    <3>3. p \in Paths
      BY <3>2, <2>1, <3>1, TaskOfKind, EntryOf
    <3> QED BY <1>0, <3>1, <3>3 DEF SeenInv, ReqsShown
  <2> QED BY <2>1 DEF ReqsShown
<1>2. ASSUME tasks' \subseteq tasks PROVE ReqsShown'
  BY <1>1, <1>2 DEF Asked
<1>3. ASSUME NEW n, n.kind # "accept", tasks' = tasks \cup {n} PROVE ReqsShown'
  BY <1>1, <1>3 DEF Asked
<1>4. ASSUME NEW ps, ps \subseteq Listed(rows), StartAccept(Requests(ps))
      PROVE  ReqsShown'
  <2>1. \A p \in DOMAIN Requests(ps) :
            p \in Paths /\ Requests(ps)[p] \in shown[p]
    BY <1>4 DEF Requests, SeenInv, RowsShown, Listed
  <2> QED BY <1>4, <2>1, NewReqs
<1>5. CASE PressAccept
  <2>1. sel # 0 => {sel} \subseteq Listed(rows)
    BY DEF TypeOK, NavTyped
  <2>2. \/ tasks' = tasks
        \/ sel = 0 /\ StartAccept(Requests(Listed(rows)))
        \/ sel # 0 /\ StartAccept(Requests({sel}))
    BY <1>5 DEF PressAccept
  <2> QED BY <1>2, <1>4, <2>1, <2>2
<1>6. CASE Yes
  <2>1. confirm # None
    BY <1>6, LayerOfKey DEF Yes
  <2>2. CASE confirm.kind = "accept"
    <3>1. StartAccept(Requests(Listed(rows)))
      BY <1>6, <2>2 DEF Yes
    <3> QED BY <1>4, <3>1
  <2>3. CASE confirm.kind = "bless"
    <3>1. StartAccept(Blessed(confirm))
      BY <1>6, <2>3 DEF Yes
    <3>2. confirm.path \in Paths /\ confirm.of \in shown[confirm.path]
      BY <2>1, <2>3, QuestionKinds DEF SeenInv, BlessShown
    <3>3. \A p \in DOMAIN Blessed(confirm) :
              p \in Paths /\ Blessed(confirm)[p] \in shown[p]
      BY <3>2 DEF Blessed
    <3> QED BY <3>1, <3>3, NewReqs
  <2>4. CASE confirm.kind = "restore"
    <3>1. StartRestore(confirm.path)
      BY <1>6, <2>4 DEF Yes
    <3> QED BY <1>2, <1>3, <3>1 DEF StartRestore
  <2>5. CASE confirm.kind = "discard"
    <3>1. tasks' = tasks
      BY <1>6, <2>5 DEF Yes
    <3> QED BY <1>2, <3>1
  <2> QED BY <2>1, <2>2, <2>3, <2>4, <2>5, QuestionKinds
<1>7. ASSUME NEW whole \in BOOLEAN, PressRestore(whole) PROVE ReqsShown'
  <2>1. tasks' = tasks \/ StartRestore(sel)
    BY <1>7 DEF PressRestore
  <2> QED BY <1>2, <1>3, <2>1 DEF StartRestore
<1>8. CASE \/ PressEdit \/ NoteSend \/ SnoozeApply \/ EditorSave
           \/ PressUndo \/ PressRefresh
  <2>1. \E n : n.kind # "accept" /\ tasks' = tasks \cup {n}
    <3>1. CASE PressEdit
      <4> WITNESS [kind |-> "read", path |-> sel, from |-> rows[sel].cur,
                   gen |-> opened + 1]
      <4> QED BY <3>1 DEF PressEdit
    <3>2. CASE NoteSend
      <4> WITNESS [kind |-> "flag", path |-> note.path, id |-> keys]
      <4> QED BY <3>2 DEF NoteSend
    <3>3. CASE SnoozeApply
      <4> WITNESS [kind |-> "snooze"]
      <4> QED BY <3>3 DEF SnoozeApply
    <3>4. CASE EditorSave
      <4> WITNESS [kind |-> "save", path |-> editor.path, from |-> editor.from,
                   gen |-> editor.gen, text |-> editor.text]
      <4> QED BY <3>4 DEF EditorSave
    <3>5. CASE PressUndo
      <4> WITNESS [kind |-> "undo"]
      <4> QED BY <3>5 DEF PressUndo
    <3>6. CASE PressRefresh
      <4> WITNESS [kind |-> "refresh"]
      <4> QED BY <3>6 DEF PressRefresh
    <3> QED BY <1>8, <3>1, <3>2, <3>3, <3>4, <3>5, <3>6
  <2> QED BY <1>3, <2>1
<1>9. ASSUME NEW t \in tasks, \/ Accepted(t) \/ Restored(t) \/ Flagged(t)
                              \/ Snoozed(t) \/ EditRead(t) \/ Saved(t)
                              \/ Undone(t) \/ Refreshed(t)
      PROVE  ReqsShown'
  <2>1. Answer(t)
    BY <1>9 DEF Accepted, Restored, Flagged, Snoozed, EditRead, Saved,
              Undone, Refreshed
  <2> QED BY <1>2, <2>1 DEF Answer
<1>10. CASE \/ \E p \in Paths \cup {0} : Select(p)
            \/ PressNote \/ PressSnooze \/ PressExternal \/ NoteCancel
            \/ PickerCloses \/ SnoozeCancel \/ No \/ EditorType \/ EditorClose
            \/ Leave \/ EditorReturned \/ Pile \/ RootLeaves
  <2>1. tasks' = tasks
    BY <1>10 DEF Select, PressNote, PressSnooze, PressExternal, NoteCancel,
       PickerCloses, SnoozeCancel, No, EditorType, EditorClose, Leave,
       EditorReturned, Pile, RootLeaves
  <2> QED BY <1>2, <2>1
<1>11. CASE \/ \E n \in Agents : AgentsChange(n)
            \/ \E p \in Edited, c \in Contents \cup {Absent} : Edit(p, c)
            \/ OtherUndoes
            \/ \E p \in Edited : OtherAccepts(p)
            \/ UNCHANGED vars
  <2>1. tasks' = tasks
    BY <1>11 DEF AgentsChange, Edit, OtherAccepts, OtherUndoes, vars
  <2> QED BY <1>2, <2>1
<1> QED
  BY <1>5, <1>6, <1>7, <1>8, <1>9, <1>10, <1>11 DEF Next

LEMMA BlessStep == TypeOK /\ SeenInv /\ [Next]_vars => BlessShown'
<1> SUFFICES ASSUME TypeOK, SeenInv, [Next]_vars PROVE BlessShown'
  OBVIOUS
<1>0. \A p \in Paths : shown[p] \subseteq shown'[p]
  BY ShownGrows
<1>1. CASE EditorReturned /\ confirm' # confirm
  <2>1. /\ confirm' = [kind |-> "bless", path |-> away.path, of |-> disk[away.path]]
        /\ shown' = [shown EXCEPT ![away.path] = @ \cup {disk[away.path]}]
    BY <1>1 DEF EditorReturned
  <2>2. away.path \in Paths
    BY <1>1 DEF EditorReturned, Out, None, TypeOK, EngineTyped, Taken
  <2>3. disk[away.path] \in shown'[away.path]
    BY <2>1, <2>2 DEF TypeOK, NavTyped
  <2> QED BY <2>1, <2>3 DEF BlessShown
<1>2. CASE confirm' = confirm
  <2>1. CASE confirm = None
    BY <1>2, <2>1 DEF BlessShown, None
  <2>2. CASE confirm.kind = "bless" /\ confirm # None
    <3>1. confirm.path \in Paths
      BY <2>2, QuestionKinds
    <3> QED BY <1>0, <1>2, <2>2, <3>1 DEF SeenInv, BlessShown
  <2> QED BY <1>2, <2>1, <2>2 DEF BlessShown
<1>3. CASE confirm' # confirm /\ ~EditorReturned
  <2>1. confirm = None => confirm'.kind # "bless"
    <3> USE DEF layerVars, navVars, workVars
    <3>1. CASE PressAccept \/ \E whole \in BOOLEAN : PressRestore(whole)
      BY <1>3, <3>1 DEF PressAccept, PressRestore
    <3>2. CASE EditorClose
      BY <1>3, <3>2 DEF EditorClose
    <3>3. CASE Yes \/ No \/ RootLeaves
      <4>1. confirm' = None \/ confirm' = confirm
        BY <3>3 DEF Yes, No, RootLeaves
      <4> QED BY <1>3, <4>1 DEF None
    <3>4. ASSUME NEW t \in tasks, \/ Accepted(t) \/ Restored(t) \/ Flagged(t)
                                  \/ Snoozed(t) \/ EditRead(t) \/ Saved(t)
                                  \/ Undone(t) \/ Refreshed(t)
          PROVE  confirm' = confirm
      BY <3>4 DEF Accepted, Restored, Flagged, Snoozed, EditRead, Saved,
              Undone, Refreshed
    <3>5. CASE \/ \E p \in Paths \cup {0} : Select(p)
               \/ PressNote \/ PressSnooze \/ PressEdit \/ PressExternal
               \/ PressUndo \/ PressRefresh
               \/ NoteCancel \/ NoteSend \/ PickerCloses \/ SnoozeCancel
               \/ SnoozeApply \/ EditorType \/ EditorSave
      BY <1>3, <3>5 DEF Select, PressNote, PressSnooze, PressEdit,
         PressExternal, PressUndo, PressRefresh, NoteCancel, NoteSend,
         PickerCloses, SnoozeCancel, SnoozeApply, EditorType, EditorSave
    <3>6. CASE \/ Leave \/ Pile \/ \E n \in Agents : AgentsChange(n)
               \/ \E p \in Edited, c \in Contents \cup {Absent} : Edit(p, c)
               \/ OtherUndoes
               \/ \E p \in Edited : OtherAccepts(p)
               \/ UNCHANGED vars
      BY <1>3, <3>6 DEF Leave, Pile, AgentsChange, Edit, OtherAccepts,
         OtherUndoes, vars
    <3> QED BY <1>3, <3>1, <3>2, <3>3, <3>4, <3>5, <3>6 DEF Next
  <2>2. confirm # None => confirm' = None
    BY <1>3, QuestionStep
  <2> QED BY <2>1, <2>2 DEF BlessShown, None
<1> QED BY <1>1, <1>2, <1>3

\* For any number of files and contents: whatever counts as seen was on the
\* screen or in the question, or is the user's own (App::editor_returned,
\* App::requests, Engine::accept).
THEOREM OnlyShownAccepted == Spec => []AcceptsWereShown
<1>1. Init => SeenInv
  <2> SUFFICES ASSUME Init PROVE SeenInv
    OBVIOUS
  <2>1. \A p \in Paths : base[p] = Old /\ rows[p].cur = disk[p]
                         /\ shown[p] = {Old, disk[p]}
    BY DEF Init, Scanned
  <2>2. tasks = {} /\ confirm = None
    BY DEF Init
  <2>3. AcceptsWereShown /\ RowsShown
    BY <2>1 DEF AcceptsWereShown, RowsShown, Listed
  <2>4. ReqsShown /\ BlessShown /\ StackShown
    BY <2>2 DEF ReqsShown, BlessShown, StackShown, Asked, None, Init
  <2> QED BY <2>3, <2>4 DEF SeenInv
<1>2. TypeOK /\ SeenInv /\ [Next]_vars => RowsShown'
  <2> SUFFICES ASSUME TypeOK, SeenInv, [Next]_vars PROVE RowsShown'
    OBVIOUS
  <2> QED BY ShownGrows DEF SeenInv, RowsShown, Listed
<1>3. TypeOK /\ SeenInv /\ [Next]_vars => SeenInv'
  BY <1>2, BaseStep, ReqsStep, BlessStep DEF SeenInv
<1>4. SeenInv => AcceptsWereShown
  BY DEF SeenInv
<1> QED
  BY <1>1, <1>3, <1>4, TypeCorrect, PTL DEF Spec

-----------------------------------------------------------------------------
(* The layer that gets the keys.                                            *)

\* Of note, snooze field and question at most one is open, but for the
\* question $EDITOR's return puts while the snooze field is.
LayersApart ==
    /\ note # None => ~snooze /\ confirm = None
    /\ snooze /\ confirm # None => confirm.kind = "bless"

LEMMA LayersApartStep == LayersApart /\ [Next]_vars => LayersApart'
<1> SUFFICES ASSUME LayersApart, [Next]_vars PROVE LayersApart'
  OBVIOUS
<1> USE DEF LayersApart, layerVars, navVars, workVars
<1>1. CASE PressAccept \/ \E whole \in BOOLEAN : PressRestore(whole)
  BY <1>1, BareScreen DEF PressAccept, PressRestore, Press
<1>2. CASE PressNote \/ PressSnooze
  BY <1>2, BareScreen DEF PressNote, PressSnooze, Press
<1>3. CASE EditorClose
  <2>1. note = None /\ ~snooze /\ UNCHANGED <<note, snooze>>
    BY <1>3 DEF EditorClose, Key, Top
  <2> QED BY <2>1
<1>4. CASE EditorReturned
  <2>1. UNCHANGED <<note, snooze>>
    BY <1>4 DEF EditorReturned
  <2>2. \/ confirm' = confirm
        \/ note = None /\ confirm'.kind = "bless"
    BY <1>4 DEF EditorReturned, MayAsk
  <2> QED BY <2>1, <2>2
<1>5. CASE Yes \/ No
  <2>1. CASE Yes
    <3>1. UNCHANGED <<note, snooze>> /\ confirm' = None
      BY <2>1 DEF Yes
    <3> QED BY <3>1
  <2>2. CASE No
    <3>1. UNCHANGED <<note, snooze>> /\ confirm' = None
      BY <2>2 DEF No
    <3> QED BY <3>1
  <2> QED BY <1>5, <2>1, <2>2
<1>6. CASE RootLeaves
  BY <1>6 DEF RootLeaves
<1>7. CASE NoteCancel \/ NoteSend \/ SnoozeCancel \/ SnoozeApply
  BY <1>7 DEF NoteCancel, NoteSend, SnoozeCancel, SnoozeApply
<1>8. ASSUME NEW t \in tasks, \/ Accepted(t) \/ Restored(t) \/ Flagged(t)
                              \/ Snoozed(t) \/ EditRead(t) \/ Saved(t)
                              \/ Undone(t) \/ Refreshed(t)
      PROVE  UNCHANGED <<note, snooze, confirm>>
  BY <1>8 DEF Accepted, Restored, Flagged, Snoozed, EditRead, Saved,
              Undone, Refreshed
<1>9. CASE \/ \E p \in Paths \cup {0} : Select(p)
           \/ PressEdit \/ PressExternal \/ PressUndo \/ PressRefresh
           \/ PickerCloses \/ EditorType \/ EditorSave
  BY <1>9 DEF Select, PressEdit, PressExternal, PressUndo, PressRefresh,
              PickerCloses, EditorType, EditorSave
<1>10. CASE \/ Leave \/ Pile \/ \E n \in Agents : AgentsChange(n)
            \/ \E p \in Edited, c \in Contents \cup {Absent} : Edit(p, c)
            \/ OtherUndoes
            \/ \E p \in Edited : OtherAccepts(p)
  <2>1. UNCHANGED <<note, snooze, confirm>>
    BY <1>10 DEF Leave, Pile, AgentsChange, Edit, OtherAccepts, OtherUndoes
  <2> QED BY <2>1
<1>11. CASE UNCHANGED vars
  BY <1>11 DEF vars
<1> QED
  BY <1>1, <1>2, <1>3, <1>4, <1>5, <1>6, <1>7, <1>8, <1>9, <1>10, <1>11 DEF Next

\* The agent picker has opened over another layer, or has had one open over it.
PickerOverLayer == picker # None /\ (note # None \/ snooze \/ confirm # None)

\* $EDITOR's question has opened under the snooze field.
QuestionUnderSnooze == snooze /\ confirm.kind = "bless"

\* For any number of files, agents and keys: the layer that gets the keys can
\* act on them, but for those two cases, and in both of them it cannot.  The
\* run `keys` shows the first (App::flagged, App::editor_returned and the
\* gates of App::apply).
THEOREM KeysDieInTwoWays ==
    Spec => [](KeysAlive <=> ~PickerOverLayer /\ ~QuestionUnderSnooze)
<1>1. Init => LayersApart
  BY DEF Init, LayersApart
<1>2. LayersApart => (KeysAlive <=> ~PickerOverLayer /\ ~QuestionUnderSnooze)
  <2> SUFFICES ASSUME LayersApart
               PROVE  KeysAlive <=> ~PickerOverLayer /\ ~QuestionUnderSnooze
    OBVIOUS
  <2> USE DEF LayersApart, KeysAlive, LetThrough, Top, PickerOverLayer, QuestionUnderSnooze
  <2>1. confirm.kind = "bless" => confirm # None
    BY DEF None
  <2>2. CASE note # None
    BY <2>1, <2>2
  <2>3. CASE note = None /\ picker # None
    BY <2>1, <2>3
  <2>4. CASE note = None /\ picker = None /\ snooze
    BY <2>1, <2>4
  <2>5. CASE note = None /\ picker = None /\ ~snooze
    BY <2>1, <2>5
  <2> QED BY <2>2, <2>3, <2>4, <2>5
<1> QED
  BY <1>1, <1>2, LayersApartStep, PTL DEF Spec

=============================================================================
