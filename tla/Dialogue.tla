------------------------------ MODULE Dialogue ------------------------------
(***************************************************************************)
(* What the user types and what the engine answers (tui/app.rs, the order  *)
(* of the layers in tui/run.rs): the note, the agent picker, the snooze    *)
(* field, the questions, the inline editor and $EDITOR, over one root      *)
(* whose files agents and another process change.  Keys act on what is on  *)
(* the screen; the engine's tasks answer later and in any order.           *)
(*                                                                         *)
(* Rows are numbered in nav order; 0 is the repository's own entry.  An    *)
(* answer is applied in the step in which the engine works it out: what    *)
(* happens to the files in between the reducer cannot tell from what       *)
(* happens after (older piles are dropped, see Screen).                    *)
(***************************************************************************)
EXTENDS Naturals, FiniteSets, FiniteSetsExt, Sequences

CONSTANTS
    LastPath,     \* the root's files are 1..LastPath in nav order
    Edited,       \* those that agents and the other process change
    Contents,     \* what agents write
    Agents,       \* how many agents a flag can be sent to, the possibilities
    ConfirmAbove, \* files an accept takes without a question (10)
    MaxKeys,      \* keys at the bare screen and in the editor
    MaxMoves      \* changes around it

Paths == 1..LastPath
Old    == "old"       \* what the files hold at first
Ours   == "ours"      \* what is typed into the inline editor
Absent == "absent"
None   == [kind |-> "none"]
Value  == Contents \cup {Old, Ours, Absent}

ASSUME Constants ==
    /\ LastPath \in Nat /\ Edited \subseteq Paths
    /\ Contents \cap {Old, Ours, Absent} = {}
    /\ Agents \subseteq Nat
    /\ ConfirmAbove \in Nat /\ MaxKeys \in Nat /\ MaxMoves \in Nat

VARIABLES
    disk, base,   \* each file, and what counts as seen of it
    stack,        \* what the ledger's accepts replaced, the latest last
    here,         \* the root is listed
    rows,         \* what the screen holds of each file
    known,        \* the stack when that was scanned
    sel,          \* the selected entry
    candidates,   \* agents a flag can go to
    note, picker, snooze, confirm, editor,   \* the layers over the screen
    opening,      \* the open that is awaited (edit_pending), 0 if none
    opened,       \* the last open's number (edit_gen)
    away,         \* the file given to $EDITOR
    accepting, restoring, snoozing, undoing, refreshing, \* guards of the keys
    tasks,        \* what the engine has been asked for
    shown,        \* contents of each file the user was shown (history)
    keys, moves

fileVars  == <<disk, base, stack>>
layerVars == <<note, picker, snooze, confirm, editor, opening, opened>>
workVars  == <<undoing, refreshing>>
navVars   == <<rows, known, sel, shown>>
guardVars == <<accepting, restoring, snoozing, undoing, refreshing>>
vars == <<disk, base, stack, here, rows, known, sel, candidates, note, picker,
          snooze, confirm, editor, opening, opened, away, accepting, restoring,
          snoozing, undoing, refreshing, tasks, shown, keys, moves>>

----------------------------------------------------------------------------
\* Rows and the selection.

Row == [base: Value, cur: Value]
Scanned == [p \in Paths |-> [base |-> base[p], cur |-> disk[p]]]

\* A row is on screen when the file differs from what was seen.
Listed(r) == {p \in Paths : r[p].base # r[p].cur}

\* What a question says it does to a row.
Change(r) == IF r.base = Absent THEN "added"
             ELSE IF r.cur = Absent THEN "deleted" ELSE "modified"

\* The nearest entry below, else above; the repository's is above all.
Neighbour(p, entries) ==
    LET below == {q \in entries : q > p}
    IN  IF below # {} THEN Min(below)
        ELSE Max({0} \cup {q \in entries : q < p})

Reconciled(r) == IF sel \in Listed(r) \cup {0} THEN sel
                 ELSE Neighbour(sel, Listed(r))

\* A pile reaches the screen, with the depth of the stack it was scanned with.
Show(r, stk, at) ==
    /\ rows' = r /\ known' = stk
    /\ sel' = at
    /\ shown' = [p \in Paths |-> IF p \in Listed(r)
                                 THEN shown[p] \cup {r[p].cur} ELSE shown[p]]

Apply(r, stk) == Show(r, stk, Reconciled(r))

KeepRows == UNCHANGED navVars

----------------------------------------------------------------------------
\* Layers.

\* Whom a key goes to.
Top == IF note # None THEN "note"
       ELSE IF picker # None THEN "picker"
       ELSE IF snooze THEN "snooze"
       ELSE IF confirm # None THEN "confirm"
       ELSE IF editor # None THEN "editor" ELSE "screen"

\* Whether every open layer lets that layer's keys through.
LetThrough(layer) ==
    /\ note # None    => layer = "note"
    /\ picker # None  => layer = "picker"
    /\ snooze         => layer = "snooze"
    /\ confirm # None => layer = "confirm"

\* The loop is in $EDITOR and reads neither keys nor answers.
Out == away.kind = "out"

Key(layer) == ~Out /\ Top = layer /\ LetThrough(layer)

Press == Key("screen") /\ here /\ keys < MaxKeys /\ keys' = keys + 1

Init ==
    /\ disk \in [Paths -> Contents \cup {Old}]
    /\ base = [p \in Paths |-> Old]
    /\ here = TRUE
    /\ stack = <<>> /\ known = <<>>
    /\ rows = Scanned
    /\ sel = 0
    /\ candidates \in Agents
    /\ note = None /\ picker = None /\ snooze = FALSE
    /\ confirm = None /\ editor = None
    /\ opening = 0 /\ opened = 0
    /\ away = None
    /\ accepting = FALSE /\ restoring = FALSE /\ snoozing = FALSE
    /\ undoing = FALSE /\ refreshing = FALSE
    /\ tasks = {}
    /\ shown = [p \in Paths |-> {Old, disk[p]}]
    /\ keys = 0 /\ moves = 0

----------------------------------------------------------------------------
\* Keys at the bare screen.

Select(p) ==
    /\ Key("screen") /\ here
    /\ p \in Listed(rows) \cup {0} /\ p # sel
    /\ sel' = p
    /\ UNCHANGED <<fileVars, here, rows, known, candidates, layerVars, away,
                   guardVars, tasks, shown, keys, moves>>

Requests(ps) == [p \in ps |-> rows[p].cur]

\* The requests of an accept are built from the piles held at that moment.
StartAccept(reqs) ==
    IF DOMAIN reqs = {}
    THEN UNCHANGED <<accepting, tasks>>
    ELSE /\ accepting' = TRUE
         /\ tasks' = tasks \cup {[kind |-> "accept", reqs |-> reqs]}

\* accept_file: the selected row, or every row from the repository's entry.
PressAccept ==
    LET ps == IF sel = 0 THEN Listed(rows) ELSE {sel}
    IN  /\ Press
        /\ ~accepting /\ ps # {}
        /\ IF Cardinality(ps) > ConfirmAbove
           THEN /\ confirm' = [kind |-> "accept"]
                /\ UNCHANGED <<accepting, tasks>>
           ELSE /\ StartAccept(Requests(ps))
                /\ UNCHANGED confirm
        /\ UNCHANGED <<fileVars, here, navVars, candidates, note, picker,
                       snooze, editor, opening, opened, away, restoring,
                       snoozing, workVars, moves>>

\* The request of a restore, built from the row held at that moment.
StartRestore(p) ==
    IF p \notin Listed(rows)
    THEN UNCHANGED <<restoring, tasks>>
    ELSE /\ restoring' = TRUE
         /\ tasks' = tasks \cup {[kind |-> "restore", path |-> p,
                                  from |-> rows[p].cur, to |-> rows[p].base]}

\* restore: a hunk of a modified file at once, anything else after a question.
PressRestore(whole) ==
    /\ Press
    /\ ~restoring /\ sel # 0
    /\ IF whole \/ Change(rows[sel]) # "modified"
       THEN /\ confirm' = [kind |-> "restore", path |-> sel]
            /\ UNCHANGED <<restoring, tasks>>
       ELSE /\ StartRestore(sel)
            /\ UNCHANGED confirm
    /\ UNCHANGED <<fileVars, here, navVars, candidates, note, picker, snooze,
                   editor, opening, opened, away, accepting, snoozing,
                   workVars, moves>>

PressNote ==
    /\ Press /\ sel # 0
    /\ note' = [kind |-> "note", path |-> sel]
    /\ UNCHANGED <<fileVars, here, navVars, candidates, picker, snooze,
                   confirm, editor, opening, opened, away, guardVars, tasks,
                   moves>>

PressSnooze ==
    /\ Press /\ sel = 0 /\ ~snoozing
    /\ snooze' = TRUE
    /\ UNCHANGED <<fileVars, here, navVars, candidates, note, picker,
                   confirm, editor, opening, opened, away, guardVars, tasks,
                   moves>>

\* request_undo: the depth is what the pile on the screen says.
PressUndo ==
    /\ Press /\ ~undoing /\ known # <<>>
    /\ undoing' = TRUE
    /\ tasks' = tasks \cup {[kind |-> "undo"]}
    /\ UNCHANGED <<fileVars, here, navVars, candidates, layerVars, away,
                   accepting, restoring, snoozing, refreshing, moves>>

PressRefresh ==
    /\ Press /\ ~refreshing
    /\ refreshing' = TRUE
    /\ tasks' = tasks \cup {[kind |-> "refresh"]}
    /\ UNCHANGED <<fileVars, here, navVars, candidates, layerVars, away,
                   accepting, restoring, snoozing, undoing, moves>>

Editable == sel # 0 /\ rows[sel].cur # Absent

\* edit: ask for the bytes of the row.
PressEdit ==
    /\ Press /\ Editable /\ opening = 0
    /\ opened' = opened + 1
    /\ opening' = opened + 1
    /\ tasks' = tasks \cup {[kind |-> "read", path |-> sel,
                             from |-> rows[sel].cur, gen |-> opened + 1]}
    /\ UNCHANGED <<fileVars, here, navVars, candidates, note, picker, snooze,
                   confirm, editor, away, guardVars, moves>>

\* edit_external: the effect runs once the keys already typed are handled.
PressExternal ==
    /\ Press /\ Editable /\ away = None
    /\ away' = [kind |-> "asked", path |-> sel, from |-> rows[sel].cur]
    /\ UNCHANGED <<fileVars, here, navVars, candidates, layerVars, guardVars,
                   tasks, moves>>

----------------------------------------------------------------------------
\* Keys inside the layers.

NoteCancel ==
    /\ Key("note") /\ note' = None
    /\ UNCHANGED <<fileVars, here, navVars, candidates, picker, snooze,
                   confirm, editor, opening, opened, away, guardVars, tasks,
                   keys, moves>>

\* The number tells two flags apart.
NoteSend ==
    /\ Key("note") /\ note' = None
    /\ tasks' = tasks \cup {[kind |-> "flag", path |-> note.path, id |-> keys]}
    /\ UNCHANGED <<fileVars, here, navVars, candidates, picker, snooze,
                   confirm, editor, opening, opened, away, guardVars, keys,
                   moves>>

\* Cancel or send: what is sent is not looked at here.
PickerCloses ==
    /\ Key("picker") /\ picker' = None
    /\ UNCHANGED <<fileVars, here, navVars, candidates, note, snooze,
                   confirm, editor, opening, opened, away, guardVars, tasks,
                   keys, moves>>

SnoozeCancel ==
    /\ Key("snooze") /\ snooze' = FALSE
    /\ UNCHANGED <<fileVars, here, navVars, candidates, note, picker,
                   confirm, editor, opening, opened, away, guardVars, tasks,
                   keys, moves>>

SnoozeApply ==
    /\ Key("snooze") /\ snooze' = FALSE
    /\ snoozing' = TRUE
    /\ tasks' = tasks \cup {[kind |-> "snooze"]}
    /\ UNCHANGED <<fileVars, here, navVars, candidates, note, picker,
                   confirm, editor, opening, opened, away, accepting,
                   restoring, workVars, keys, moves>>

\* A wrong variant: the guard was looked at when the question was put.
MayAnswerOnce(q) == TRUE

\* The guard of a question's key is looked at again when it is answered.
MayAnswer(q) == /\ q.kind \in {"accept", "bless"} => ~accepting
                /\ q.kind = "restore" => ~restoring

\* A wrong variant: a blessing accepts what the file holds by then.
BlessedLive(q) == [p \in {q.path} |-> disk[p]]

\* What a blessing accepts: what the file held when $EDITOR gave it back.
Blessed(q) == [p \in {q.path} |-> q.of]

Yes ==
    /\ Key("confirm") /\ MayAnswer(confirm)
    /\ confirm' = None
    /\ CASE confirm.kind = "accept" ->
              /\ StartAccept(Requests(Listed(rows)))
              /\ UNCHANGED <<restoring, editor>>
         [] confirm.kind = "bless" ->
              /\ StartAccept(Blessed(confirm))
              /\ UNCHANGED <<restoring, editor>>
         [] confirm.kind = "restore" ->
              /\ StartRestore(confirm.path)
              /\ UNCHANGED <<accepting, editor>>
         [] confirm.kind = "discard" ->
              /\ editor' = None
              /\ UNCHANGED <<accepting, restoring, tasks>>
    /\ UNCHANGED <<fileVars, here, navVars, candidates, note, picker, snooze,
                   opening, opened, away, snoozing, workVars, keys, moves>>

No ==
    /\ Key("confirm") /\ confirm' = None
    /\ UNCHANGED <<fileVars, here, navVars, candidates, note, picker, snooze,
                   editor, opening, opened, away, guardVars, tasks, keys,
                   moves>>

EditorType ==
    /\ Key("editor") /\ keys < MaxKeys /\ keys' = keys + 1
    /\ editor' = [editor EXCEPT !.text = @ + 1]
    /\ UNCHANGED <<fileVars, here, navVars, candidates, note, picker, snooze,
                   confirm, opening, opened, away, guardVars, tasks, moves>>

EditorSave ==
    /\ Key("editor") /\ ~editor.saving
    /\ editor' = [editor EXCEPT !.saving = TRUE]
    /\ tasks' = tasks \cup {[kind |-> "save", path |-> editor.path,
                             from |-> editor.from, gen |-> editor.gen,
                             text |-> editor.text]}
    /\ UNCHANGED <<fileVars, here, navVars, candidates, note, picker, snooze,
                   confirm, opening, opened, away, guardVars, keys, moves>>

EditorClose ==
    /\ Key("editor")
    /\ IF editor.text > 0
       THEN confirm' = [kind |-> "discard"] /\ UNCHANGED editor
       ELSE editor' = None /\ UNCHANGED confirm
    /\ UNCHANGED <<fileVars, here, navVars, candidates, note, picker, snooze,
                   opening, opened, away, guardVars, tasks, keys, moves>>

----------------------------------------------------------------------------
\* Answers of the engine.

Answer(t) == ~Out /\ t \in tasks /\ tasks' = tasks \ {t}

\* Files become seen as they are in d; what that replaces goes on the stack.
Take(ps, d) ==
    /\ base' = [p \in Paths |-> IF p \in ps THEN d[p] ELSE base[p]]
    /\ stack' = IF ps = {} THEN stack
                ELSE Append(stack, [p \in ps |-> base[p]])

\* The engine refuses rows whose file has changed, or all of it: the ledger
\* is busy or the root is gone.
Accepted(t) ==
    /\ t.kind = "accept" /\ Answer(t)
    /\ accepting' = FALSE
    /\ \/ /\ here
          /\ Take({p \in DOMAIN t.reqs : disk[p] = t.reqs[p]}, disk)
          /\ Apply([p \in Paths |-> [base |-> base'[p], cur |-> disk[p]]],
                   stack')
       \/ KeepRows /\ UNCHANGED <<base, stack>>
    /\ UNCHANGED <<disk, here, candidates, layerVars, away, restoring,
                   snoozing, workVars, keys, moves>>

Restored(t) ==
    /\ t.kind = "restore" /\ Answer(t)
    /\ restoring' = FALSE
    /\ \/ /\ here
          /\ disk' = IF disk[t.path] = t.from
                     THEN [disk EXCEPT ![t.path] = t.to] ELSE disk
          /\ Apply([p \in Paths |-> [base |-> base[p], cur |-> disk'[p]]],
                   stack)
       \/ KeepRows /\ UNCHANGED disk
    /\ UNCHANGED <<base, stack, here, candidates, layerVars, away, accepting,
                   snoozing, workVars, keys, moves>>

\* Several agents: the picker asks which.
Flagged(t) ==
    /\ t.kind = "flag" /\ Answer(t)
    /\ \/ /\ here
          /\ Apply(Scanned, stack)
          /\ picker' = IF candidates > 1
                       THEN [kind |-> "picker", id |-> t.id] ELSE picker
       \/ KeepRows /\ UNCHANGED picker
    /\ UNCHANGED <<fileVars, here, candidates, note, snooze, confirm, editor,
                   opening, opened, away, guardVars, keys, moves>>

Snoozed(t) ==
    /\ t.kind = "snooze" /\ Answer(t)
    /\ snoozing' = FALSE
    /\ (here /\ Apply(Scanned, stack)) \/ KeepRows
    /\ UNCHANGED <<fileVars, here, candidates, layerVars, away, accepting,
                   restoring, workVars, keys, moves>>

\* What is seen becomes again what the last entry replaced.
Undo ==
    LET last == stack[Len(stack)]
    IN  /\ base' = [p \in Paths |->
                      IF p \in DOMAIN last THEN last[p] ELSE base[p]]
        /\ stack' = SubSeq(stack, 1, Len(stack) - 1)

\* The first path that an undo of that stack puts back.
First(stk) == IF stk = <<>> THEN 0 ELSE Min(DOMAIN stk[Len(stk)])

\* The engine names the paths from the stack it last loaded, with the pile or
\* after an answer that failed, and undoes the last entry there is by now; it
\* refuses when there is none (or another branch is checked out).
Undone(t) ==
    /\ t.kind = "undo" /\ Answer(t)
    /\ undoing' = FALSE
    /\ \/ /\ here /\ stack # <<>>
          /\ Undo
          /\ \E p \in {First(known), First(stack)} :
                LET r == [q \in Paths |-> [base |-> base'[q], cur |-> disk[q]]]
                IN  Show(r, stack',
                         IF p \in Listed(r) THEN p ELSE Reconciled(r))
       \/ here /\ Apply(Scanned, stack) /\ UNCHANGED <<base, stack>>
       \/ KeepRows /\ UNCHANGED <<base, stack>>
    /\ UNCHANGED <<disk, here, candidates, layerVars, away, accepting,
                   restoring, snoozing, refreshing, keys, moves>>

\* The piles of a refresh have come by now, each as any pile does.
Refreshed(t) ==
    /\ t.kind = "refresh" /\ Answer(t)
    /\ refreshing' = FALSE
    /\ KeepRows
    /\ UNCHANGED <<fileVars, here, candidates, layerVars, away, accepting,
                   restoring, snoozing, undoing, keys, moves>>

\* The bytes for the inline editor, or why there is none.
EditRead(t) ==
    /\ t.kind = "read" /\ Answer(t)
    /\ IF opening # t.gen
       THEN UNCHANGED <<opening, editor>>
       ELSE /\ opening' = 0
            /\ \/ /\ here /\ disk[t.path] = t.from
                  /\ editor' = [kind |-> "editor", path |-> t.path,
                                from |-> t.from, gen |-> t.gen, text |-> 0,
                                saving |-> FALSE]
               \/ UNCHANGED editor
    /\ KeepRows
    /\ UNCHANGED <<fileVars, here, candidates, note, picker, snooze, confirm,
                   opened, away, guardVars, keys, moves>>

\* A wrong variant: any save's answer is the open editor's.
MineAlways(t) == editor # None

\* Whether a save's answer is about the open editor's file.
Mine(t) == editor # None /\ editor.path = t.path

\* What is left of the editor after a save went through, or did not.
AfterSave(t, clean) ==
    IF ~Mine(t) THEN editor
    ELSE IF clean THEN None ELSE [editor EXCEPT !.saving = FALSE]

Saved(t) ==
    /\ t.kind = "save" /\ Answer(t)
    /\ \/ /\ here /\ disk[t.path] = t.from
          /\ disk' = [disk EXCEPT ![t.path] = Ours]
          /\ Take({t.path}, disk')
          /\ Apply([p \in Paths |-> [base |-> base'[p], cur |-> disk'[p]]],
                   stack')
          /\ editor' = AfterSave(t, TRUE)
       \/ /\ here
          /\ Apply(Scanned, stack)
          /\ editor' = AfterSave(t, FALSE)
          /\ UNCHANGED fileVars
       \/ /\ KeepRows
          /\ editor' = AfterSave(t, FALSE)
          /\ UNCHANGED fileVars
    /\ UNCHANGED <<here, candidates, note, picker, snooze, confirm, opening,
                   opened, away, guardVars, keys, moves>>

----------------------------------------------------------------------------
\* $EDITOR.

\* It is opened on what the row described, or not at all.
Leave ==
    /\ away.kind = "asked"
    /\ away' = IF here /\ disk[away.path] = away.from
               THEN [kind |-> "out", path |-> away.path, from |-> away.from]
               ELSE None
    /\ UNCHANGED <<fileVars, here, navVars, candidates, layerVars, guardVars,
                   tasks, keys, moves>>

\* A wrong variant: another question is not looked for.
MayAskOver == note = None /\ picker = None

\* A question is not put over another one.
MayAsk == confirm = None /\ note = None /\ picker = None

\* The file as it is now, whoever wrote it, is asked about if it changed.
EditorReturned ==
    /\ Out
    /\ away' = None
    /\ LET p == away.path
       IN  IF here /\ disk[p] \notin {away.from, Absent} /\ MayAsk
           THEN /\ confirm' = [kind |-> "bless", path |-> p, of |-> disk[p]]
                /\ shown' = [shown EXCEPT ![p] = @ \cup {disk[p]}]
           ELSE UNCHANGED <<confirm, shown>>
    /\ UNCHANGED <<fileVars, here, rows, known, sel, candidates, note,
                   picker, snooze, editor, opening, opened, guardVars, tasks,
                   keys, moves>>

----------------------------------------------------------------------------
\* Around the screen.

Move == moves < MaxMoves /\ moves' = moves + 1

Pile ==
    /\ ~Out /\ here /\ <<rows, known>> # <<Scanned, stack>>
    /\ Apply(Scanned, stack)
    /\ UNCHANGED <<fileVars, here, candidates, layerVars, away, guardVars,
                   tasks, keys, moves>>

\* The root is no longer listed; a question about it goes with it.
RootLeaves ==
    /\ Move /\ ~Out /\ here
    /\ here' = FALSE
    /\ confirm' = IF confirm.kind = "discard" THEN confirm ELSE None
    /\ rows' = [p \in Paths |-> [base |-> Absent, cur |-> Absent]]
    /\ known' = <<>>
    /\ sel' = 0
    /\ UNCHANGED <<fileVars, candidates, note, picker, snooze, editor,
                   opening, opened, away, guardVars, tasks, shown, keys>>

\* Agents come and go; a picker with nobody left to send to closes.
AgentsChange(n) ==
    /\ Move /\ ~Out /\ n # candidates
    /\ candidates' = n
    /\ picker' = IF n = 0 THEN None ELSE picker
    /\ UNCHANGED <<fileVars, here, navVars, note, snooze, confirm, editor,
                   opening, opened, away, guardVars, tasks, keys>>

Edit(p, c) ==
    /\ Move /\ disk[p] # c
    /\ disk' = [disk EXCEPT ![p] = c]
    /\ UNCHANGED <<base, stack, here, navVars, candidates, layerVars, away,
                   guardVars, tasks, keys>>

\* Another process's user accepts what the file holds.
OtherAccepts(p) ==
    /\ Move /\ base[p] # disk[p]
    /\ Take({p}, disk)
    /\ shown' = [shown EXCEPT ![p] = @ \cup {disk[p]}]
    /\ UNCHANGED <<disk, here, rows, known, sel, candidates, layerVars, away,
                   guardVars, tasks, keys>>

\* Another process's user takes back the last accept.
OtherUndoes ==
    /\ Move /\ stack # <<>> /\ Undo
    /\ UNCHANGED <<disk, here, navVars, candidates, layerVars, away,
                   guardVars, tasks, keys>>

Next ==
    \/ \E p \in Paths \cup {0} : Select(p)
    \/ PressAccept \/ PressNote \/ PressSnooze \/ PressEdit \/ PressExternal
    \/ PressUndo \/ PressRefresh
    \/ \E whole \in BOOLEAN : PressRestore(whole)
    \/ NoteCancel \/ NoteSend \/ PickerCloses \/ SnoozeCancel \/ SnoozeApply
    \/ Yes \/ No \/ EditorType \/ EditorSave \/ EditorClose
    \/ \E t \in tasks : \/ Accepted(t) \/ Restored(t) \/ Flagged(t)
                        \/ Snoozed(t) \/ EditRead(t) \/ Saved(t)
                        \/ Undone(t) \/ Refreshed(t)
    \/ Leave \/ EditorReturned \/ Pile \/ RootLeaves
    \/ \E n \in Agents : AgentsChange(n)
    \/ \E p \in Edited, c \in Contents \cup {Absent} : Edit(p, c)
    \/ \E p \in Edited : OtherAccepts(p)
    \/ OtherUndoes

Spec == Init /\ [][Next]_vars

----------------------------------------------------------------------------
\* Properties.

\* TypeOK: the variables keep their types, the selection is an entry that
\* is on the nav (reconcile_selection), and an accept is of something.
Entry == UNION {[ps -> Value] : ps \in (SUBSET Paths) \ {{}}}

Task ==
    [kind: {"accept"}, reqs: Entry]
    \cup [kind: {"restore"}, path: Paths, from: Value, to: Value]
    \cup [kind: {"flag"}, path: Paths, id: Nat]
    \cup [kind: {"snooze", "undo", "refresh"}]
    \cup [kind: {"read"}, path: Paths, from: Value, gen: Nat]
    \cup [kind: {"save"}, path: Paths, from: Value, gen: Nat, text: Nat]

Question ==
    [kind: {"accept", "discard"}]
    \cup [kind: {"restore"}, path: Paths]
    \cup [kind: {"bless"}, path: Paths, of: Value]

Taken == [kind: {"asked", "out"}, path: Paths, from: Value]

Buffer == [kind: {"editor"}, path: Paths, from: Value, gen: Nat, text: Nat,
           saving: BOOLEAN]

FilesTyped == /\ disk \in [Paths -> Value] /\ base \in [Paths -> Value]
              /\ stack \in Seq(Entry)

NavTyped ==
    /\ rows \in [Paths -> Row] /\ known \in Seq(Entry)
    /\ sel \in Listed(rows) \cup {0}
    /\ shown \in [Paths -> SUBSET Value]

LayersTyped ==
    /\ note \in [kind: {"note"}, path: Paths] \cup {None}
    /\ picker \in [kind: {"picker"}, id: Nat] \cup {None}
    /\ snooze \in BOOLEAN
    /\ confirm \in Question \cup {None}
    /\ editor \in Buffer \cup {None}

GuardsTyped ==
    /\ here \in BOOLEAN
    /\ accepting \in BOOLEAN /\ restoring \in BOOLEAN /\ snoozing \in BOOLEAN
    /\ undoing \in BOOLEAN /\ refreshing \in BOOLEAN

EngineTyped ==
    /\ opening \in 0..opened /\ opened \in Nat
    /\ away \in Taken \cup {None}
    /\ candidates \in Agents
    /\ keys \in 0..MaxKeys /\ moves \in 0..MaxMoves

TypeOK == /\ FilesTyped /\ NavTyped /\ LayersTyped /\ GuardsTyped /\ EngineTyped
          /\ tasks \subseteq Task

Asked(kind) == {t \in tasks : t.kind = kind}

\* GuardsMatch: a guard is up exactly while one task of its kind is under
\* way, so no accept or restore runs beside another and no key stays dead
\* once its answer is in (app.rs accepting, restoring, snoozing, undoing,
\* refreshing, edit_pending; the check again at `y` is for the question
\* $EDITOR's return puts while an accept runs).
GuardsMatch ==
    /\ Cardinality(Asked("accept")) = IF accepting THEN 1 ELSE 0
    /\ Cardinality(Asked("restore")) = IF restoring THEN 1 ELSE 0
    /\ Cardinality(Asked("snooze")) = IF snoozing THEN 1 ELSE 0
    /\ Cardinality(Asked("undo")) = IF undoing THEN 1 ELSE 0
    /\ Cardinality(Asked("refresh")) = IF refreshing THEN 1 ELSE 0
    /\ Cardinality(Asked("read")) = IF opening # 0 THEN 1 ELSE 0

\* AcceptsWereShown: what counts as seen was on the screen, or was what the
\* question after $EDITOR was about (app.rs editor_returned: "the answer,
\* not the read, is the review"), however late it is answered and whatever
\* agents write meanwhile.
AcceptsWereShown == \A p \in Paths : base[p] \in shown[p] \cup {Ours}

\* QuestionsStay: a question on the screen is taken away only by the key
\* that answers it or with its root, never by another question
\* (app.rs editor_returned: the next `y` would answer one nobody read).
QuestionsStay ==
    [][confirm # None =>
          \/ confirm' = confirm
          \/ confirm' = None /\ (Key("confirm") \/ (here /\ ~here'))]_vars

\* EditorKept: text typed into the inline editor leaves it only by `y` to
\* "Discard changes?" or when a save of that very file went through
\* (app.rs saved: every other answer keeps the buffer; edit_read: an answer
\* to an older open does not replace the editor).
EditorKept ==
    [][editor # None /\ editor.text > 0 =>
          \/ editor' # None /\ editor'.gen = editor.gen
          \/ confirm.kind = "discard" /\ confirm' = None
          \/ \E t \in Asked("save") \ tasks' :
                t.path = editor.path /\ disk'[t.path] = Ours]_vars

\* KeysAlive: the layer that gets the keys can act on them
\* (tui/run.rs event: in the picker "Enter sends, Esc cancels").
KeysAlive == LetThrough(Top)

=============================================================================
