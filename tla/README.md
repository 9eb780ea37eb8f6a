# lastcall: models, checks and proofs

lastcall shows, for each repository or watched folder ("root"), the files that
differ from what the user has already seen, and lets the user accept, flag,
undo, snooze, edit or restore them.  What has been seen is kept beside the
repository in a ledger (`ledger.json`), a private git index (`index`,
`index.tree`) and a private object store.  Several lastcall processes (one per
terminal pane) may have the same root open, while agents edit the files and git
moves branches.

The modules here model the parts of `src/` in which several actors meet: the
shared index, the ledger and its operations, restores and saves, watched
folders, the loop that turns file-system events into scans, the screen that
hears of them on two channels, its dialogues, and the client of the terminal's
host.  `PROJECT.json` lists every run, what each definition models (file and
lines), the hazards, and the theorems.

Contents: 1 inventory, 2 how the project is laid out, 3 modules, 4 runs and
bounds, 5 fairness, 6 proofs, 7 findings and observations, 8 limits and what is
not modelled.

## 1. Inventory

| Component | State | Operations | Meets | Hard behaviour | Correct when |
|---|---|---|---|---|---|
| Private index (`index.rs`) and scan (`scan.rs`, `engine.rs` `scan_root`) | the index file, its marker `index.tree`, the lock, retries | `ensure`, `seed`, `reseed`, `diff_files`, `others`, `marker_id` | the ledger (its tree is what the index must hold), other processes, git children | two reads of an index another process may replace between them; crash between marker, `read-tree`, marker | a pile called complete hides no pending path; no marker lies |
| Ledger (`ledger.rs`) | seen tree, overrides, undo stack, branch in force, parked and retired records, stamp | `load`, `save`, `first_sight`, `push_undo`, lock | every operation | unreadable file, stale memory, stack at its cap | nothing counts as seen that was not |
| Review operations (`ops.rs`) | what is staged, the undo entry | accept of file, group, deletion, hunk, pile; flag, unflag, undo, snooze, `commit`, `fold` | ledger on disk, files, HEAD | staged on memory, committed on a disk that has moved | each write is one step of the seen record |
| Branch records (`ops.rs` `switch_branch`, `fold_onto_first_sight`) | record per branch | park, load, rename, first sight, prune, retire | git refs and HEAD | checkout between staging and commit, rename or deletion | rows go to the branch they were rendered under |
| Restore and save (`restore.rs`, `ops.rs`) | worktree file, temporary file | two compare-and-swaps, write, rename | agents writing the same file | edit between check and rename; sweeping of dead processes' files | no edit is lost silently |
| Watched folders (`roots.rs`, `ops.rs`, `scan.rs`) | draft scope, size limit, released and unread rows | trim, release, fold | scans, settings | a record that outlives its scope | what was let go stays gone; trimmed paths return as unseen |
| Engine front (`engine.rs`) | open roots, settings, `scan_seq`, pending root changes | `scan`, `scan_all`, `rescan`, `inspect_head`, `reload` | watcher, screen, pool | serial use under one mutex by several tasks | numbering follows application order |
| Watcher (`watcher.rs`) | roots, deadlines, burst windows, due heads, installation in flight, permit and reload flag | `run_loop`, `schedule`, `adopt_roots`, `settle`, `spawn_install` | kernel events, engine, screen | debounce against starvation, root set changing under an installation, reload against a running pass | every reported change is scanned, every reload answered |
| Screen, piles (`tui/app.rs`, `tui/run.rs`) | piles by sequence number, early piles, selection | reducer, spawned tasks | watcher's channel and local channel | results of two channels out of order | an older pile never replaces a newer one |
| Screen, dialogues (`tui/app.rs`, `tui/run.rs`) | layers (question, picker, note, snooze field, inline editor), guards, blessing, `$EDITOR` | keys, answers of tasks | the engine's tasks, other processes, the user's editor | an answer that arrives under another layer | nothing unseen is accepted, no typed text lost |
| Herdr client (`herdr/*`), its screen side (`tui/herdr.rs`) | connection, lifecycle and status streams, generations, cache, pending resyncs | probe, bootstrap, session, resync, status tasks | the terminal's host | reconnect or resync with events of before still queued | nothing of before a resync is applied after it |
| Root discovery, head state, upstream, seen-elsewhere, flags export, status, counts, configuration, commands, drawing | little or none | parse, annotate, format | | | |

Calls go down (screen → engine → operations → ledger/index → store → git),
results come up as values or as `EngineEvent`s on the watcher's channel and
`Local` messages on the screen's own.  Within a process the engine is behind one
mutex; between processes there is only the ledger's lock file and `rename`.

## 2. How the project is laid out

| Component module | Abstract specification, parts | Model-checking module | Proofs |
|---|---|---|---|
| `SharedIndex` | | `MCSharedIndex` | `SharedIndexProofs` |
| `ReviewLedger` | uses `Ledger`, implements `SeenRecord` | `MCReviewLedger` | `ReviewLedgerProofs` |
| `Restore` | | `MCRestore` | `RestoreProofs` |
| `Folder` | | `MCFolder` | `FolderProofs` |
| `Watcher` | | `MCWatcher` | `WatcherProofs` |
| `Screen` | | `MCScreen` | `ScreenProofs` |
| `Dialogue` | | `MCDialogue` | `DialogueProofs` |
| `HerdrClient` | | `MCHerdrClient` | `HerdrClientProofs` |

The component modules meet at these seams; each takes the other's promise as
its input and says nothing stronger of it.

* `SharedIndex` says that a scan of a root misses nothing; `ReviewLedger`,
  `Folder`, `Watcher` and `Screen` take a scan as one step.
* `ReviewLedger` says what an operation does to the record; `Restore`'s
  `restore_baseline` and record of a save, `Folder`'s accepts and `Dialogue`'s
  accept tasks are such operations on one file.
* `Watcher` says that a change leads to a scan; `Screen` starts where a scan is
  emitted into the channel and leaves free when that happens.
* `Screen` says which pile is shown; `Dialogue` starts from the rows shown.
* `HerdrClient` ends with the screen's derivation of its panes.

Still open, in the order they would add most: two processes on one watched
folder (the product of `Folder` and `ReviewLedger`); unflag, groups and the two
halves of a reload's answer in `Dialogue`; the screen's side of the host
(`tui/herdr.rs`: pane sizing, toasts); splitting and splicing hunks and the
layout of watches (`wanted_watches`, `classify_path`) as pure functions against
reference definitions; the moving aside of an unreadable ledger by two
processes at once.

## 3. Modules

### SharedIndex (`index.rs`, `scan.rs`, `engine.rs`, the lock of `ledger.rs`)

Each process is a program counter over the steps of `scan_root_once` that other
processes can see: reload or keep the ledger, switch branch, trim, `ensure`
(marker identity, content, then under the lock), `diff-files`,
`ls-files --others`, the comparison of the marker's identity, and publication
or another attempt (`SCAN_ATTEMPTS`).  A seed is three steps (`SeedRemove`,
`SeedReadTree`, `SeedMark`), each of which a crash can follow.  A fold writes
the ledger and seeds; a branch switch writes and does not.  The environment
edits files, tears the index, deletes the cache, garbles the ledger, kills
processes (with or without their git child).  Trees are functions from paths to
entries, so what a listing misses is computed, not assumed.  Overrides and
hunks are left out: an override path is a candidate whatever the index says.

### Ledger, ReviewLedger (`ledger.rs`, `ops.rs`, `engine.rs`, the CAS of `hunks.rs`)

`Ledger` holds the record (seen tree, overrides, undo stack) and the functions
on it: `Baseline`, `SetOverrides`, `Replay`, `Prior`, `PushUndo`, `PopUndo`,
`Fold`.  `ReviewLedger` runs several processes over one ledger file.  A key
stages an operation on the ledger in memory and on the pile shown
(`AcceptFile`, `AcceptGroup`, `AcceptHunk`, `AcceptAll`, `Flag`, `Unflag`,
`Snooze`); `Commit` merges it under the lock into what the disk holds by then,
checks the branch, pushes the undo entry, and `FoldNow` compacts when overrides
pass `Threshold`; `Undo` acts on the disk's record.  A scan adopts the disk's
ledger, parks, loads, renames or first-sights the branch (`Sync`, `Switch*`)
and renders (`Render`).  A ledger write (lock, merge, temporary file, rename) is
one step: no other writer runs inside the lock and readers see the old or the
new file.

### SeenRecord (what the ledger promises)

Per branch: a function from paths to what the user has seen there and a stack
of what accepts replaced.  Accept, undo, return to a branch, arrival on a new
one, rename, loss and rewrite of everything are its only steps.  `ReviewLedger`
maps `force` to `InForceOf` (the branch in force), `seen` to `SeenOf` (the
baselines of each branch's record) and `stack` to `StackOf` (its undo entries);
`ImplementsSeenRecord` is that instance's specification.  Overrides, folds,
flags, snoozes and merges are not visible.

### Restore (`restore.rs`, `ops.rs` restore and save)

One file, in one of a few directories, and the processes that restore it, a
hunk of it or its deletion, or save an edit of it.  An operation is: the
question's content checked against ledger and file (first compare-and-swap),
the parent opened, dead processes' temporary files swept, a temporary file of
its own created and written, the second compare-and-swap, the rename, and for a
save the record of what was written.  A text is a set of lines, so a hunk's
restore is a symmetric difference.  Between any two steps agents write the
file, replace it with a symbolic link, move its directory; processes die,
leaving their temporary file, and come back under the next name.  `touched` is
history: the file changed since the second check.

### Folder (`ops.rs`, `scan.rs`, `engine.rs` for watched folders)

The record of one folder without repository: the seen tree, overrides (with
blob, note, release), the undo stack, and the files as sizes and contents.
`Rows` is what a scan lists under the scope and the size limit; accepts,
accept-all, undo, flag and unflag act on it; a fold compacts; a change of scope
or limit is followed by the trim of the next scan.

### Watcher (`watcher.rs`, `engine.rs`, `tui/run.rs` refresh and reload)

`pc` is where `run_loop` is: the launch's `scan_all`, the `select!`, the
catch-up after an installation, a discovery pass (flag taken,
`Engine::rescan`, adoption), the head inspections, the scans that are due.
`due` and `window` are the deadlines of `schedule` and `DiscoverDue`, counted
down by `Tick`; `permit` is the `Notify`, `flag` the reload flag,
`install`/`target`/`reinstall` the watch installation on its own thread,
`asked` the roots found gone.  Beside the loop: a refresh of the screen (which
may run discovery itself and leaves `pending`), a worktree event's rescan, the
reload task in its three steps, the kernel's reports, overflows, and files,
HEADs and directories that change.  What a scan finds is the version of the
root's files.

### Screen (`tui/app.rs`, `tui/run.rs`, `engine.rs` numbering, `watcher.rs` emission)

The engine (`open`, `seq`, `pending`) is called by the watcher's loop, which
sends what it found one event at a time into a bounded channel (`outbox`,
`events`), and by the screen's tasks, which call under the mutex and send
afterwards (`task`, `locals`).  `FromWatcher` is `App::apply`, `FromTask` is
`Ui::local`; `pile`, `held`, `early` and `view` are a root's pile, the number of
the last one, the pile that came before its root (`orphan_piles`) and the roots
listed.  Five variables are history: `last` (each root's newest scan), `epoch`
and `newest` (root sets changed and applied), `overtaken` and `forgotten` (see
the properties).

### Dialogue (`tui/app.rs`, `tui/run.rs`)

One root with a few files and the layers of the screen over them: the accept's
or restore's question, the agent picker, the note, the snooze field, the inline
editor.  Keys go where `Ui::event` and `App::handle` send them, in that order.
Each task (accept, restore, flag, snooze, undo, refresh, read, save) is in flight,
under its guard where it has one, until its answer is heard (`Accepted`,
`Restored`, ...); in between other keys come, agents write the file, another
process accepts it or undoes, and `$EDITOR` returns.  `stack` is the ledger's undo
stack; `known` is what the pile on the screen says of it, so `z` may be pressed
over an entry that another process has taken back or buried under its own.
`shown` is history: the contents of rows the screen has listed.

### HerdrClient (`herdr/client.rs`, `wire.rs`, `transport.rs`, `guard.rs`, `tui/herdr.rs`)

The actor handles one thing at a time (`pc`): probe, bootstrap, then a session
that reads resyncs that are due (a snapshot or single panes) and messages.
While it waits for an answer the streams go on: the host puts events on the
wires, a pane's status task stamps what it takes off with the pane's generation
and queues it.  The host changes panes, stops, restarts, is replaced by another
version, refuses or closes a stream.  The screen's derivation (`Rederive`) reads
the shared cache after an event that asks for it.

## 4. Runs and bounds

Numbers are of distinct states.  Each passing run's properties have a wrong
variant of the code that breaks them (`PROJECT.json`, "mutants").

| Run | Instance | What it shows |
|---|---|---|
| `safety` (SharedIndex) | two processes, one path, two trees and `null`, two attempts, five faults; 3.7 M | `IInv`, `MarkerIsTrue`, `NoPendingPathHidden`, `SeedFollowsDisk` |
| `liveness` (SharedIndex) | two processes, crash and orphan; 0.4 M | every scan ends |
| `together` (ReviewLedger) | two processes, one path, files, hunks, piles, undo, edits, loss of the ledger, crash, three keys; 2.2 M | nothing unseen hidden, refinement |
| `alone` (ReviewLedger) | one process, two paths, groups, accept-all, flags, undo cap 1, compaction at 1, branches created, deleted, renamed; 1.9 M | types (the cap among them), refinement |
| `branches` (ReviewLedger) | two processes, checkout, snooze, busy lock; 0.6 M | rows keep their branch, accepts land, nothing unseen hidden, refinement |
| `restore` | two processes, two directories, two lines, two operations, two moves; 2.9 M | only what was shown is replaced, other hunks stay, baselines were seen, temporary files stay |
| `folder` | two paths of two sizes, two limits, undo cap 2, three changes of files and settings; 0.7 M | what was let go stays gone, other rows stay, accepted rows leave, a trim is exact |
| `watch` | one root of either kind, one move around the loop, cap of two debounces; 90 k | watches follow the roots, folders caught up, reloads read their settings; changes scanned, gone roots leave, reloads answered |
| `screen` | two roots, two requests in flight, channel of two, four scans, three moves; 6.3 M | piles never go back, nothing left over, newest piles and roots shown |
| `dialogue` | two files, one of which changes, two contents, none or two agents, three keys, two moves; 5.2 M | one task per guard, accepts were shown, questions stay, typed text is kept |
| `keys` (violation) | the same with one move | a picker opened by a late answer over another layer locks both (finding) |
| `herdr` | one pane of two states, queues of one, generations modulo 3, three moves of the host; 1.3 M | types, stamps, no orphan stream; streams suffice, fallback heals |

Why the bounds are enough.

* SharedIndex: a race needs one scanner and one seeder; two trees differ on the
  one path, and a tree that goes and returns (ABA on the marker) needs two
  values only.
* ReviewLedger: merges are pairwise and act path by path, a group needs two
  paths (`alone`), the undo cap and the compaction threshold are lowered so
  that they are met.  `MaxKeys` bounds keystrokes, never edits, scans or
  switches.
* Restore: a sweep needs one process that writes and one that sweeps, a process
  that died needs a second life; two lines make two hunks.  `MaxNames` is the
  number of names a process tries for its temporary file, so the "no name left"
  path is met too.
* Folder: one path that is acted on and one that must not move.  Sizes 1 and 2
  with limits 2 and 3 put a file under, at and above the limit in turn;
  `Threshold` 1 makes folds frequent.
* Watcher: the roots' deadlines do not influence each other; interference
  between loop and tasks needs one root, and discovery has a deadline of its
  own.  `MaxMoves` bounds what happens around the loop (removals, reloads,
  refreshes that are more than the answer to a removal, requests, HEAD moves,
  overflows), not writes, events or time.  One move is enough for the liveness
  properties, which speak of the answer to one of them; the safety properties
  are proved for any number.  `MaxVersion` is one: a scan either saw the change
  or did not.
* Screen: two piles in two channels and two root sets in two tasks are what can
  overtake each other; the channel of two fills (256 in the code).  `Task`
  bounds what is in flight, `MaxScans` the scans, `MaxMoves` keys, edits, HEAD
  moves and directories that come and go.  A message that needs a task waits
  while both are busy, which only delays it.
* Dialogue: one file is worked on and one is where the cursor may go meanwhile;
  `ConfirmAbove` 1 makes accept-all ask.  Three keys open a layer, start a task
  and open another before the answer; the four that save, type and save again
  are left to the proof, which has no bound.
* HerdrClient: panes share nothing but the queue and the run of due resyncs
  (`batch`); the proofs are for any number of panes.  Generations modulo 3
  tell the generation in force from the one before and the one after.  Queues of
  one hide one case of `StreamsSuffice` (section 7, `Overtaken`), which the
  proof, for any queue, has.

Symmetry is used in safety runs only: processes (and paths and branches in
ReviewLedger), processes, directories and lines in Restore, paths in Folder,
tasks in Screen, contents in Dialogue.  A `VIEW` in `alone` drops `shown`, a
history none of its properties reads.  `CHECK_DEADLOCK FALSE` is said where
keystrokes, moves or scans are bounded and the system may then rest (`restore`,
`screen`, `dialogue`, `keys`).

## 5. Fairness

* SharedIndex: weak fairness of each running process's steps.  A lock holder in
  another process always releases (a held lock ends with its process), and a
  wait for the lock is bounded in the code (two seconds, then the scan goes on
  without).  Nothing is assumed of the user, of crashes or of edits.
* Watcher: weak fairness of the loop and of the reload task (both are runnable
  tasks), strong fairness of time (it passes whatever the loop does; the model
  counts it only at `select!`) and of each `select!` arm that has something to
  deliver: `tokio::select!` polls its branches from a random start, so a branch
  that stays ready is not passed over for ever, and the event channel is first
  in, first out.  **Neither backstop (`head_poll`, `rescan`) is assumed to
  fire**: the properties say that the loop does not need them.
* HerdrClient: weak fairness of the actor, of the host's answer to a request
  that is on its way, of the screen's derivation and of the status tasks (all
  runnable tasks, a request has a deadline).  `StreamsSuffice` does without the
  fallback timer; `FallbackHeals` assumes it in its own antecedent, where the
  code's interval justifies it.
* The other modules state safety only: what a user must get in the end is said
  there as "when nothing is in flight, ..." (`LatestShown`, `RootsShownInOrder`).

## 6. Proofs

Checked by TLAPS for every value of the constants that satisfies the named
assumptions of the modules.  Every safety property that a passing run checks is
also a theorem; each rests on the module's type correctness and an inductive
strengthening, checked step by step.  Of a liveness property the part that
needs no fairness is proved: that what is waited for is always on its way, or
that what is left only gets less.

**SharedIndexProofs.**  `TypeCorrect` and `SeedsFollowDisk` hold under every
fault.  `InvariantApart`, `MarkersAreTrue` and `RowsAreNotHidden` hold in every
behaviour in which a git child that outlives its killed process keeps apart
from what is marked since (`OrphansKeepApart`): it never writes between a later
`read-tree` and its marker, nor under a marker that names another tree.  That
is the exact window; with `"orphan" \notin Faults`, as in the run `safety`, no
hypothesis is left (`Invariant` and the second halves of the other two).
`NoPendingPathHidden` is far from inductive; `IInv` adds what makes it so: who
holds the lock while seeding (`LockInv`), what marker and index are in each step
of a seed (`SeedInv`), what the identity a scan has noted says about the index
since (`SeenInv`), and that every path pending and untouched since the scan
began is in the listings of the reads already done or still to be found by the
read to come (`ListedInv`).  The argument for a scan: if the marker's identity
is unchanged at the end, no seed began in between, so both reads saw one index
that holds the scan's tree; then each pending path is in one of the listings.
`ScansNearTheirEnd` and `LocksAreLetGo` are `ScansEnd` without fairness: a count
of the steps a scan has left (`StepsLeft`: the attempts times the length of the
body, a seed inside it) that every step of its own process lowers and nothing
else raises, and a lock whose holder is at most four steps of its own from
letting it go.
`StaleByLateStampOnly` bounds the first observation of section 7: what a process
has in memory falls behind the ledger on disk, and no reload notices, only when
it takes the stamp of what it read or wrote after another process has replaced
the file; a scan, a crash or the others' writes never make it so by themselves.

**ReviewLedgerProofs.**  `NothingHidden`: every entry a record could make a
baseline of (its tree, its overrides' blobs, its undo entries, what is staged or
asked) has been shown, `Holds`.  Each action is a `Moves` step: it puts one good
ledger in memory and perhaps the same on disk; the invariant is the conjunction
of what is good about shown contents, git's trees, piles, processes, staged
steps, ledgers (no record is parked for the branch in force) and operations.
`ImplementsPromise` is the refinement `Spec => ImplementsSeenRecord` for one
process (`Alone`), or for any number of them where nothing is flagged: one lemma
per abstract step (accept, undo, return, arrival, rename, loss, rewrite) and one
for the steps the record does not see.  The hypothesis is needed: a flag copies
the whole override (section 7); for one process `Solo` says that what it copies
is what is on disk.  `OnlyFlagsTakeBack` needs no hypothesis and bounds the harm:
of all steps, of any number of processes, only the commit of a flag onto an
override another process has moved since is none of the seen record's, and it
writes that one path's override as it was in memory, no other path's, no undo
entry and no parked record (`FlagHeld`: a flag stages one override, the one in
memory).
`AcceptsLand` is `AcceptLands` for one process, or where nothing is folded
(`NoFolds`: no accept-all, no compaction, no branch or ledger removed; the run
`branches` satisfies it).  It rests on `Staged` (until its commit an accept is
staged as the override that makes its content the baseline over the tree in
memory) and on `Solo` or `Trees` (memory and disk have the same seen tree for
every branch they both know).  `AcceptsLandOrFold` has no such hypothesis and
says what remains: every accepted path has its content as the baseline, or it
was staged without a blob because the tree in memory had that content, and the
tree on disk no longer does.  `AcceptsCanBeUndone` composes commit, compaction
and undo: an undo right after an accept brings back every baseline the disk had
before it.
`RowsInTheirBranch` has the hypothesis that single files and hunks are not
accepted, because such an accept pins the content, not the branch, as the code
intends; an operation with rows staged belongs to the branch of its pile and of
the ledger in memory.

**RestoreProofs.**  `TempsAreKept`: a process under way is alive and its
temporary file is there from creation to rename, and a sweep takes the files of
dead processes only.  `EditsStay`: between the second check and the effect the
file is as shown unless `touched`.  `OnlySeenRecorded`: what an operation would
record has been shown or typed.  `OtherHunksAreKept`: the set algebra of two
symmetric differences (`OneHunkBack`).

**FolderProofs.**  A record with one path changed or removed (`At`, `Without`),
lemmas for what a commit, a fold and a trim do to each path, and the invariant
that a path let go has no blob and is not listed, for the record and for each
one an undo would bring back.  For `OthersKeep` each act's record differs from the
present one at its own paths only (`Apart`), and a row depends on its own path
(`SameRow`).

**WatcherProofs.**  `WatchesAreCurrent`: an installation that will not be
repeated is for the roots the loop knows, and none is left to be repeated when
none is in flight.  `ReloadsAreRead`: a flag set or taken means that its reload's
settings are in force and cannot be replaced before the answer, so the pass that
took it discovers with them.  `NothingFromTheGap`: a folder that is behind its
files always has a reason to be scanned (launch or adoption pending, an event
lost, an installation under way, a catch-up, a deadline or an event); a loop
with nothing left to do has none.
The others are the liveness properties without fairness.
`ReloadsAreOnTheirWay`: a reload the screen waits for has its task, its flag or
its pass, and a flag has the permit that wakes the loop.  `RootsAreKnown`: the
loop's roots are the engine's or an adoption is due.  `GoneRootsAreNoticed`: a
quiet loop watches no root whose directory is gone, unless it was `asked` about
before (section 7); the argument is the one for folders, with `asked` as one
more reason.  `ReportedIsScanned` and `BurstsAreCut` do the same for
`ChangesAreScanned`, for repositories as well as folders.  From the moment a
change happens under a live watch a scan of the root is owed (`Owed`: the report
is still to be received, reports were lost and every root will be due, or the
root has a deadline), and the debt ends only with a step that publishes the
files as they then are, or with the root.  Its deadline lies within the window
the burst's first event opened (`BurstsBounded`), and the window only runs down
until the root is scanned: events without a pause do not postpone the scan past
the cap.

**ScreenProofs.**  What is in flight is in the loop's outbox and channel
(`Told`) or in the tasks and the screen's channel (`Sent`); each step makes one
scan, lets the screen hear one message, or neither.  A number names one scan,
in flight or on screen (`OneScanEachNumber`), and the newest scan of a root is in
flight or shown unless the root was forgotten (`NewestIsKnown`); from these
`PilesGoForward` and `NewestShown`.  `RootsAreShown`: a screen that is behind
has been overtaken or still has something to hear (a changed set pending, a
message, a sync asked for, the current set in flight).

**DialogueProofs.**  `GuardsAgree`: one task per guard, and the read in flight
is the one the guard names, with no editor open.  `TypedTextStays` follows: an
answer finds the editor that asked for it or none.  `OnlyShownAccepted`: rows,
requests, the blessing, the baselines and the entries of the undo stack
(`StackShown`: an undo makes them baselines again, whoever pushed them) hold
contents that were listed, and what was listed stays so.  `QuestionsStand`: of
all actions only its own keys and a root that leaves take a question away.
`KeysDieInTwoWays` bounds the finding of the run `keys`: which layers can be
open together (`LayersApart`) leaves two pairs in which the layer that gets the
keys cannot act on them, a picker over another layer and the question of
`$EDITOR` over the snooze field, and no third.

**HerdrClientProofs.**  `StampsTrue`: a live message's task is open and carries
the pane's generation until the pane is resynced, another one after, and then
the pane is not among those still to install (`ToCome`).  `NoOrphans` extends the
property to the steps between a snapshot's answer and its installation.  The
generations only need to be counted modulo more than one.
`NewsIsNotLost` is `StreamsSuffice` without fairness: a pane with nothing on its
streams, queued or asked for is known as the host has it.  `NewsInv` says what
makes it so in every step between: the last event on a pane's stream is the
truth (`WireTrue`), and either the pane is going to be read (`Unread`: a
snapshot, a resync or a hint that leads to one is due, or a queued event whose
stamp is of an earlier generation will ask for it), or the answer or the cache
is right once the events in flight are applied (`AnswerFits`, `CacheFits`).  The
steps that could lose news are the ones the proof is about: an install drops
what is queued, which is sound because each queued event then has an older stamp
and asks again (`ReadNews`, from `RxInv`), and a task that ends has nothing
behind its end (`Ending`).

Only model-checked: the liveness properties themselves (`ScansEnd`,
`ChangesAreScanned`, `GoneRootsLeave`, `ReloadAnswered`, `StreamsSuffice`,
`FallbackHeals`): fairness and ENABLED are out of the prover's reach.  Nothing
without fairness is proved of `FallbackHeals` beyond what `NewsIsNotLost` says.

## 7. Findings and observations

One finding has a run.  **`keys`**: the answer to a flag opens the agent picker
(`app.rs:3452`) over whatever layer has been opened since; keys go to one layer
and only the other lets its own pass (`app.rs:4776`, `app.rs:4790`), so neither
can be closed, against `run.rs:272` ("The picker is a list, not a field: arrows
and `j`/`k` move, Enter sends, Esc" / "cancels").  There is a second way, which
`KeysDieInTwoWays` shows to be the only other: a returning `$EDITOR` looks for a
question, a note and a picker before it opens its own question
(`app.rs:2738`), not for the snooze field, and the two then hold each other's
keys back (`app.rs:4776` to `app.rs:4796`).

What else was met while modelling; TLC showed each of the first group on an
earlier or a stricter form of a property, and the passing properties are worded
around them.

* The stamp is read after the lock is released (`engine.rs:385`, and in `open`,
  `engine.rs:1172`): a write of another process in between is taken for one's
  own, and memory stays stale until the next write, against `engine.rs:274`
  ("so a long-running engine never shows a stale baseline") and
  `docs/dev/engine.md:712` ("adopted at the next scan (stamp compare +
  re-read)").  The theorem `StaleByLateStampOnly` says that memory becomes stale
  in no other way.
* Changes between the initial scan and the moment the watches are live:
  `watcher.rs:738` promises that every root is scanned once more "so nothing
  from the gap is missed"; the code scans folders, and inspects only the head of
  a repository (`watcher.rs:843`).  Its edits wait for the next event or the
  30 s backstop.  `FoldersCaughtUp` therefore speaks of folders.
* A flag writes back the whole override it copied from memory, blob included
  (`ops.rs:2575`), and so can take back another process's accept, against
  `ops.rs:2531` ("Never touches `blob`") and `ledger.rs:211`.  Runs with two
  processes leave `flag` out of `Ops`; the theorem `OnlyFlagsTakeBack` says that
  no other step leaves the promise, and what this one can take back.
* `set_override` (`ops.rs:522`) leaves the blob out when it equals the seen tree in
  memory; if another process has folded something else into the tree, the accept
  is lost, against `docs/dev/engine.md:51` ("two engines over one root keep each
  other's accepts").  `AcceptLands` excludes folds by others; the theorem
  `AcceptsLandOrFold` says that this is the only way an accept is lost.
* A git child that outlives its killed parent can write the index after another
  process has marked it (add `"orphan"` to the faults of `safety` and
  `MarkerIsTrue` fails); `OrphansKeepApart` names the moments at which it harms.
* Watcher: a root found gone asks for discovery once (`watcher.rs:1083`).  If its
  directory comes back while the pass runs, the root stays and is still counted
  as asked (`watcher.rs:1068`); gone again before a scan has found it, it does
  not ask, and leaves with the next pass somebody else asks for, at the latest
  the backstop's.  `GoneRootsAreNoticed` has that case as its exception.
* Screen: a root set read earlier and applied later stays on screen until the
  next change (`overtaken` in `RootsShownInOrder`), and a root that leaves and
  returns takes an older pile that was still in the watcher's channel when a
  newer one had come by an accept (`forgotten` in `LatestShown`; its number goes
  with the root, as `app.rs:1338` says).  The next scan of the root repairs the
  second.
* Restore: a restore of a deletion whose directory is moved away after the
  parent was opened writes into the moved directory, over a file created there
  (`d # at` in `EditsAreKept`); and the moment between second check and rename
  remains (`touched`).
* Folder: with a lowered `collapse_size_bytes` an unchanged file held in an
  override is listed unread until a fold moves it into the tree, and then no
  more, against "Pile before == pile after" (`ops.rs:1730`): the exception of
  `OthersKeepTheirRow`.

Read in the code, each shown by TLC or by hand, without a property of its own:

* Two processes that find the ledger unreadable may each move it aside
  (`ledger.rs:823`), the second one the good ledger the first has written.
* What an undo reports is read from memory before the lock (`engine.rs:2028`), so
  it may name an entry another process has popped; if that stack was empty and
  another process has since accepted, its accept is undone and the status line
  says there was nothing to undo (`app.rs:3602`).
* A file released, shrunk, flagged and grown again leaves the list with its
  flag, as if it were still released (`scan.rs:493`).
* `restore_baseline` compares with the ledger in memory: a restore can put back a
  baseline another process has replaced on disk.  The unlink of a file that was a
  symbolic link and the new link are two steps.  A process whose pid is reused
  never sweeps the files of its former life.
* Text typed after a save while it is in flight is thrown away when the clean
  answer closes the editor (`app.rs:3200`), against `docs/dev/tui.md:855` ("the
  buffer is the only copy").
* The wording of a restore's question is from when it was asked, its request from
  the row when `y` is pressed (`app.rs:3529`, `app.rs:5617`).
* Two flags in flight with several agents: the second answer replaces the first
  picker, and the first note is not sent.
* The question of a returning `$EDITOR` opens over the inline editor; its
  comment (`app.rs:2733`) says the return arrives on a channel, the loop calls it
  in line.
* Herdr: `pane_not_found` from a resync publishes before the pane is removed, and
  nothing derives the panes again (`client.rs:949`); losing and finding the same
  standalone host twice shows its notice once (`client.rs:487`); a status that
  changes between a snapshot's answer and the acknowledgement of the stream
  waits for the fallback or a focus.
* Herdr: an event on a status stream the host has ended is still read, after the
  resync that a newer event on the lifecycle stream has led to, and with the
  generation of that resync; it overwrites what is newer until the next one.
  The two tiers of streams are not ordered among themselves, and the stamp is
  given at receipt (`client.rs:1198`).  It takes a queue of two and four moves,
  more than the run `herdr` has; the proof of `NewsIsNotLost` met it, and
  `missed` records it (`Overtaken`).

## 8. Limits of the models

* SharedIndex: the cache is deleted only between scans; seeds and reads are
  atomic; content is compared by identity.
* ReviewLedger: one-step ledger writes; `AcceptLands` is not checked across the
  deletion and re-creation of a branch, nor with another process's folds (what
  they can do is the theorem `AcceptsLandOrFold`).  The
  `null` seen tree, the stamp and retired records are left out.
* Restore: mode-only hunks, the round-trip and line-ending guard (the guard runs
  once, before the second check), filters, case-insensitive names, symbolic
  links above the parent.
* Folder: one process; modes, several notes on a path, the row cap, skip globs,
  the roots a folder leaves to others.
* Watcher: time passes at `select!` only; a pile or event is emitted in the step
  that finds it; failing scans, passes and installation tasks become notices and
  are left out, as are ignore globs; one reload at a time, its task done before
  the next key.  The liveness properties were not checked with two moves: that
  is beyond what a run can explore.
* Screen: what the loop scans and when is free (Watcher says it is scanned); a
  root is scanned or gone, no other failure; one accept takes what a root has or
  nothing of it; progress events (`Scanned`), notices, other tasks and the
  launch's hold are left out.
* Dialogue: one root; help, tour, mouse, unflag, hunk positions, groups and
  ranges, scope, snooze that hides rows, reload, the cap of the undo stack,
  several `$EDITOR` requests in one pass, and the quits of a fatal error.
  `AcceptsWereShown` counts a row as shown when it is listed.
* HerdrClient: the list of agents, backoff lengths, back-pressure of the
  consumer, discovery of the socket, `reconnect = false`, shutdown.
* Not modelled at all, with the reason in `PROJECT.json`: root discovery, head
  state and notices, upstream and seen-elsewhere annotations, the object store's
  writing, flag export, status report, counts, paths, environment,
  configuration, drawing and text, commands, the test kit.  They are formatting,
  parsing, path arithmetic or thin drivers; what state they keep is written once
  or by one caller.
* The prover's limits: liveness, ENABLED, recursion over data.  No module a
  theorem is about declares a RECURSIVE operator.
