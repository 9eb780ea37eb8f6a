----------------------------- MODULE SharedIndex -----------------------------
(***************************************************************************)
(* The private index of one root and the scans that read it.               *)
(*                                                                         *)
(* Several lastcall processes (one per pane) share `index`, `index.tree`   *)
(* (here: the marker) and `ledger.json`.  A scan reads the index twice,    *)
(* `diff-files` and then `ls-files --others`, and a path that is in        *)
(* neither answer is not shown.  A seed replaces the index in three steps  *)
(* (remove the marker, `read-tree`, write the marker).  A fold moves the   *)
(* seen tree on disk and seeds; a branch switch moves it and does not.     *)
(*                                                                         *)
(* The interleavings of those steps, the crash of a process at any of      *)
(* them, and the loss of the cache files are what this module is about.    *)
(* Overrides, hunks and the row cap are left out: an override path is a    *)
(* candidate whatever the index says.                                      *)
(***************************************************************************)
EXTENDS Naturals

CONSTANTS
    Proc,          \* lastcall processes with the root open
    Path,          \* paths of the root
    Content,       \* file contents (an oid and a mode)
    Absent,        \* no file, or no entry, at a path
    Tree,          \* tree objects: functions from Path to an entry
    NoTree,        \* a seen tree of `null`: nothing seen
    Nil,           \* no marker file, no lock holder
    Torn,          \* an index file git cannot read
    Missing,       \* no such file
    Garbled,       \* a ledger.json that does not parse
    ScanAttempts,  \* SCAN_ATTEMPTS
    Faults         \* what may happen around the processes, of FaultKinds

\* A process killed, one killed whose git child lives on, files of the root
\* edited, the index torn, the cache deleted, the ledger damaged.
FaultKinds == {"crash", "orphan", "edit", "tear", "delete", "garble"}

Entry == Content \cup {Absent}
SeenTree == Tree \cup {NoTree}

ASSUME ProcAssumption == Nil \notin Proc
ASSUME TreeAssumption == Tree \subseteq [Path -> Entry]
ASSUME NamesAssumption ==
    /\ Absent \notin Content
    /\ NoTree \notin Tree
    /\ {Nil, Torn, Missing, Garbled} \cap SeenTree = {}
    /\ Torn # Missing
    /\ Missing # Garbled
ASSUME AttemptsAssumption == ScanAttempts \in Nat \ {0}
ASSUME FaultsAssumption == Faults \subseteq FaultKinds

VARIABLES
    disk,      \* the seen tree ledger.json names, or Missing, or Garbled
    lock,      \* holder of the ledger lock, or Nil
    index,     \* the tree the index file holds, or Torn, or Missing
    marker,    \* the tree index.tree names, or Nil
    worktree,  \* the files of the root
    orphans,   \* trees a `read-tree` whose parent died is still to write
    tree,      \* tree[p]: the seen tree of the ledger p holds in memory
    stamped,   \* stamped[p]: ledger.json is still the file p's stamp identifies
    pc,        \* pc[p]: the next step of p
    resume,    \* resume[p]: where p goes on after the seed it is in
    attempt,   \* attempt[p]: which run of scan_root_once, 0 outside a scan
    seen,      \* seen[p]: the marker identity p's scan is to compare with
    listed,    \* listed[p]: paths named by diff-files and others so far
    touched,   \* touched[p]: paths edited since p's scan_root_once began
    partial    \* partial[p]: the pile carries the "reseeded while" notice

shared == <<disk, lock, index, marker, worktree, orphans>>
local  == <<tree, stamped, pc, resume, attempt, seen, listed, touched, partial>>
vars   == <<shared, local>>
scratch == <<seen, listed, touched, partial>>

Idle    == {"closed", "idle"}
Opening == {"repair", "opened"}
Scanning == {"scan", "synced", "switched", "trim", "ensure", "content", "stale", "diff",
             "relock", "rediff", "others", "recheck", "listed"}
Seeding == {"check", "remove", "readtree", "mark"}
Steps == Idle \cup Opening \cup Scanning \cup Seeding

TypeOK ==
    /\ disk \in SeenTree \cup {Missing, Garbled}
    /\ lock \in Proc \cup {Nil}
    /\ index \in SeenTree \cup {Torn, Missing}
    /\ marker \in SeenTree \cup {Nil}
    /\ worktree \in [Path -> Entry]
    /\ orphans \in SUBSET SeenTree
    /\ tree \in [Proc -> SeenTree]
    /\ stamped \in [Proc -> BOOLEAN]
    /\ pc \in [Proc -> Steps]
    /\ resume \in [Proc -> {"idle", "ensure", "diff", "rediff"}]
    /\ attempt \in [Proc -> 0..ScanAttempts]
    /\ seen \in [Proc -> {"none", "current", "old"}]
    /\ listed \in [Proc -> SUBSET Path]
    /\ touched \in [Proc -> SUBSET Path]
    /\ partial \in [Proc -> BOOLEAN]

-----------------------------------------------------------------------------
(* Trees and listings.                                                     *)

\* The entry of a path under a seen tree; `null` and an unreadable index
\* file that is simply not there have no entries.
At(t, q) == IF t \in Tree THEN t[q] ELSE Absent

\* A row is pending iff its baseline differs from what is on disk.
Pending(t, q) == At(t, q) # worktree[q]

\* `diff-files`: index entries whose file is changed or gone.
DiffListing(t) == {q \in Path : At(t, q) # Absent /\ worktree[q] # At(t, q)}

\* `ls-files --others`: files the index has no entry for.
OthersListing(t) == {q \in Path : At(t, q) = Absent /\ worktree[q] # Absent}

\* The header check passes and the marker names the wanted tree.
IsFresh(t) == index \notin {Torn, Missing} /\ marker = t

\* A marker identity is compared for equality only and never recurs, so what
\* matters is whether the one a process read is still on disk.  This is the
\* effect on every process of removing or replacing the marker file.
MarkerReplaced == [p \in Proc |-> IF seen[p] = "current" THEN "old" ELSE seen[p]]
MarkerId == IF marker = Nil THEN "none" ELSE "current"

\* Likewise the stamp of ledger.json: a rename over it outdates every stamp.
LedgerReplaced == [p \in Proc |-> FALSE]

Readable == disk \in SeenTree

-----------------------------------------------------------------------------
(* Init: an earlier run left the root with a ledger and a cache that       *)
(* belongs to it or to nothing; every process is yet to open the root.     *)

Init ==
    /\ disk \in SeenTree
    /\ lock = Nil
    /\ \/ index = Missing /\ marker = Nil
       \/ index \in SeenTree /\ marker = index
    /\ worktree \in [Path -> Entry]
    /\ orphans = {}
    /\ tree = [p \in Proc |-> NoTree]
    /\ stamped = [p \in Proc |-> FALSE]
    /\ pc = [p \in Proc |-> "closed"]
    /\ resume = [p \in Proc |-> "idle"]
    /\ attempt = [p \in Proc |-> 0]
    /\ seen = [p \in Proc |-> "none"]
    /\ listed = [p \in Proc |-> {}]
    /\ touched = [p \in Proc |-> {}]
    /\ partial = [p \in Proc |-> FALSE]

Goto(p, step) == pc' = [pc EXCEPT ![p] = step]

\* What a scan has read so far is dropped.
Forget(p) ==
    /\ seen' = [seen EXCEPT ![p] = "none"]
    /\ listed' = [listed EXCEPT ![p] = {}]
    /\ touched' = [touched EXCEPT ![p] = {}]
    /\ partial' = [partial EXCEPT ![p] = FALSE]

\* A scan ends, with its pile or with an error.
ScanEnds(p) ==
    /\ Goto(p, "idle")
    /\ attempt' = [attempt EXCEPT ![p] = 0]
    /\ Forget(p)

\* moved_under_this_scan: run the body again unless this was the last time.
CanRepeat(p) == attempt[p] < ScanAttempts

\* A wrong variant: the repeat is not counted.
ScanAgainUncounted(p) == Goto(p, "scan") /\ Forget(p) /\ UNCHANGED attempt

ScanAgain(p) ==
    /\ Goto(p, "scan")
    /\ attempt' = [attempt EXCEPT ![p] = @ + 1]
    /\ Forget(p)

-----------------------------------------------------------------------------
(* Opening the root and following the ledger other processes write.        *)

\* open_root_with: load the ledger.  One that does not parse is moved aside.
OpenLoad(p) ==
    /\ pc[p] = "closed"
    /\ \/ /\ Readable
          /\ \E t \in {disk, NoTree} : tree' = [tree EXCEPT ![p] = t]
          /\ Goto(p, "opened")
          /\ UNCHANGED disk
       \/ /\ ~Readable
          /\ disk' = Missing
          /\ Goto(p, "repair")
          /\ UNCHANGED tree
    /\ UNCHANGED <<lock, index, marker, worktree, orphans, stamped, resume, attempt, scratch>>

\* The second look under the lock: adopt what another process wrote, or save
\* a ledger with nothing seen.
OpenRepair(p) ==
    /\ pc[p] = "repair"
    /\ lock = Nil
    /\ disk' = IF Readable THEN disk ELSE NoTree
    /\ tree' = [tree EXCEPT ![p] = IF Readable THEN disk ELSE NoTree]
    /\ stamped' = IF Readable THEN stamped ELSE LedgerReplaced
    /\ Goto(p, "opened")
    /\ UNCHANGED <<lock, index, marker, worktree, orphans, resume, attempt, scratch>>

\* The stamp is read only after the ledger, outside the lock.
OpenStamp(p) ==
    /\ pc[p] = "opened"
    /\ stamped' = [stamped EXCEPT ![p] = TRUE]
    /\ Goto(p, "idle")
    /\ UNCHANGED <<shared, tree, resume, attempt, scratch>>

\* The ledger lock stayed busy for its two seconds: an open fails, a scan
\* ends in an error, a branch switch is skipped (its own action).
LockBusy(p) ==
    /\ lock # Nil
    /\ \/ pc[p] = "repair" /\ Goto(p, "closed") /\ UNCHANGED <<attempt, scratch>>
       \/ pc[p] \in {"trim", "stale", "relock"} /\ ScanEnds(p)
    /\ UNCHANGED <<shared, tree, stamped, resume>>

-----------------------------------------------------------------------------
(* scan_root_once up to the index.                                         *)

BeginScan(p) ==
    /\ pc[p] = "idle"
    /\ Goto(p, "scan")
    /\ attempt' = [attempt EXCEPT ![p] = 1]
    /\ UNCHANGED <<shared, tree, stamped, resume, scratch>>

\* reload_ledger_if_changed: nothing when the stamp still matches or the file
\* cannot be read; a tree the store cannot list reads as `null`.
Reload(p) ==
    /\ pc[p] = "scan"
    /\ IF stamped[p] \/ ~Readable
       THEN UNCHANGED <<tree, stamped>>
       ELSE /\ stamped' = [stamped EXCEPT ![p] = TRUE]
            /\ \E t \in {disk} \cup (IF disk = tree[p] THEN {} ELSE {NoTree}) :
                   tree' = [tree EXCEPT ![p] = t]
    /\ Goto(p, "synced")
    /\ UNCHANGED <<shared, resume, attempt, scratch>>

\* sync_branch with HEAD still on the record's branch, or a switch given up
\* because the lock was busy: the record in force stays.
SyncNothing(p) ==
    /\ pc[p] = "synced"
    /\ Goto(p, "trim")
    /\ UNCHANGED <<shared, tree, stamped, resume, attempt, scratch>>

\* sync_branch that finds another process's switch already on disk: its
\* ledger is adopted under the lock and nothing is written.
SyncAdopt(p) ==
    /\ pc[p] = "synced"
    /\ lock = Nil
    /\ Readable
    /\ tree' = [tree EXCEPT ![p] = disk]
    /\ Goto(p, "switched")
    /\ UNCHANGED <<shared, stamped, resume, attempt, scratch>>

\* sync_branch that switches: the other branch's record is written under the
\* lock.  The index is not seeded; the next ensure finds it stale.
SyncSwitch(p) ==
    /\ pc[p] = "synced"
    /\ lock = Nil
    /\ \E t \in SeenTree :
           /\ disk' = t
           /\ tree' = [tree EXCEPT ![p] = t]
    /\ stamped' = LedgerReplaced
    /\ Goto(p, "switched")
    /\ UNCHANGED <<lock, index, marker, worktree, orphans, resume, attempt, scratch>>

\* The stamp after a switch is read after the lock was released.
SyncStamp(p) ==
    /\ pc[p] = "switched"
    /\ stamped' = [stamped EXCEPT ![p] = TRUE]
    /\ Goto(p, "trim")
    /\ UNCHANGED <<shared, tree, resume, attempt, scratch>>

\* The record is inside the root's scope (always so for a repository).
TrimNothing(p) ==
    /\ pc[p] = "trim"
    /\ Goto(p, "ensure")
    /\ UNCHANGED <<shared, tree, stamped, resume, attempt, scratch>>

-----------------------------------------------------------------------------
(* ensure: a fresh index costs no lock; a stale one is seeded under it.    *)

\* The identity of the marker is read before its content.
EnsureIdentity(p) ==
    /\ pc[p] = "ensure"
    /\ seen' = [seen EXCEPT ![p] = MarkerId]
    /\ Goto(p, "content")
    /\ UNCHANGED <<shared, tree, stamped, resume, attempt, listed, touched, partial>>

\* No identity is never fresh, whatever the content read finds.
EnsureContent(p) ==
    /\ pc[p] = "content"
    /\ Goto(p, IF seen[p] # "none" /\ IsFresh(tree[p]) THEN "diff" ELSE "stale")
    /\ UNCHANGED <<shared, tree, stamped, resume, attempt, scratch>>

\* Under the lock the marker is looked at once more: another process may have
\* seeded the wanted tree meanwhile.
EnsureLocked(p) ==
    /\ pc[p] = "stale"
    /\ lock = Nil
    /\ IF marker # Nil /\ IsFresh(tree[p])
       THEN /\ seen' = [seen EXCEPT ![p] = MarkerId]
            /\ Goto(p, "diff")
            /\ UNCHANGED <<lock, resume>>
       ELSE /\ lock' = p
            /\ resume' = [resume EXCEPT ![p] = "diff"]
            /\ Goto(p, "check")
            /\ UNCHANGED seen
    /\ UNCHANGED <<disk, index, marker, worktree, orphans, tree, stamped, attempt,
                   listed, touched, partial>>

\* reseed: the retry after an unreadable index, under the lock.
Reseed(p) ==
    /\ pc[p] = "relock"
    /\ lock = Nil
    /\ lock' = p
    /\ resume' = [resume EXCEPT ![p] = "rediff"]
    /\ Goto(p, "check")
    /\ UNCHANGED <<disk, index, marker, worktree, orphans, tree, stamped, attempt, scratch>>

\* A wrong variant: the tree held in memory is seeded unchecked.
MaySeedUnchecked(t) == t \in SeenTree

\* seed_checked: only the tree the ledger on disk names is seeded; `null` and
\* an absent ledger are let through.
MaySeed(t) == t = NoTree \/ disk \in {t, Missing}

SeedCheck(p) ==
    /\ pc[p] = "check"
    /\ MaySeed(tree[p])
    /\ Goto(p, "remove")
    /\ UNCHANGED <<shared, tree, stamped, resume, attempt, scratch>>

\* LedgerMoved: the scan starts over with a reload, once.
SeedMoved(p) ==
    /\ pc[p] = "check"
    /\ ~MaySeed(tree[p])
    /\ Readable
    /\ lock' = Nil
    /\ resume' = [resume EXCEPT ![p] = "idle"]
    /\ IF CanRepeat(p) THEN ScanAgain(p) ELSE ScanEnds(p)
    /\ UNCHANGED <<disk, index, marker, worktree, orphans, tree, stamped>>

\* LedgerUnreadable: a reload cannot answer it, so the scan is not repeated.
SeedUnreadable(p) ==
    /\ pc[p] = "check"
    /\ ~MaySeed(tree[p])
    /\ ~Readable
    /\ lock' = Nil
    /\ resume' = [resume EXCEPT ![p] = "idle"]
    /\ ScanEnds(p)
    /\ UNCHANGED <<disk, index, marker, worktree, orphans, tree, stamped>>

-----------------------------------------------------------------------------
(* seed: three steps under the lock, each of which may fail.               *)

\* A wrong variant: the old marker stays until the new one replaces it.
SeedKeepsMarker(p) ==
    /\ pc[p] = "remove"
    /\ Goto(p, "readtree")
    /\ UNCHANGED <<shared, tree, stamped, resume, attempt, scratch>>

\* An unremovable marker aborts before read-tree (see SeedFails).
SeedRemove(p) ==
    /\ pc[p] = "remove"
    /\ marker' = Nil
    /\ seen' = MarkerReplaced
    /\ Goto(p, "readtree")
    /\ UNCHANGED <<disk, lock, index, worktree, orphans, tree, stamped, resume, attempt,
                   listed, touched, partial>>

SeedReadTree(p) ==
    /\ pc[p] = "readtree"
    /\ index' = tree[p]
    /\ Goto(p, "mark")
    /\ UNCHANGED <<disk, lock, marker, worktree, orphans, tree, stamped, resume, attempt, scratch>>

\* The marker is renamed into place and the lock dropped.  A scan's own seed
\* reads the identity of the marker it wrote before it lets go.
SeedMark(p) ==
    /\ pc[p] = "mark"
    /\ marker' = tree[p]
    /\ seen' = [MarkerReplaced EXCEPT
                    ![p] = IF resume[p] \in {"diff", "rediff"} THEN "current" ELSE @]
    /\ lock' = Nil
    /\ Goto(p, resume[p])
    /\ resume' = [resume EXCEPT ![p] = "idle"]
    /\ UNCHANGED <<disk, index, worktree, orphans, tree, stamped, attempt,
                   listed, touched, partial>>

\* Removal, read-tree (git's index.lock, a full disk) or the marker's write
\* fails: a scan reports it; a fold removes the marker and stands.
SeedFails(p) ==
    /\ pc[p] \in {"remove", "readtree", "mark"}
    /\ lock' = Nil
    /\ IF resume[p] \in {"diff", "rediff"}
       THEN ScanEnds(p) /\ UNCHANGED marker
       ELSE /\ \/ marker' = Nil /\ seen' = MarkerReplaced
               \/ UNCHANGED <<marker, seen>>
            /\ Goto(p, resume[p])
            /\ UNCHANGED <<attempt, listed, touched, partial>>
    /\ resume' = [resume EXCEPT ![p] = "idle"]
    /\ UNCHANGED <<disk, index, worktree, orphans, tree, stamped>>

-----------------------------------------------------------------------------
(* fold: commit a new seen tree and seed it without releasing the lock.    *)

\* An accept-all or a compaction (from idle), or the trim of a watched folder
\* inside a scan: merge under the lock, write the tree, rename the ledger.
FoldCommit(p) ==
    /\ pc[p] \in {"idle", "trim"}
    /\ lock = Nil
    /\ lock' = p
    /\ \E t \in Tree :
           /\ disk' = t
           /\ tree' = [tree EXCEPT ![p] = t]
    /\ stamped' = LedgerReplaced
    /\ resume' = [resume EXCEPT ![p] = IF pc[p] = "trim" THEN "ensure" ELSE "idle"]
    /\ Goto(p, "remove")
    /\ UNCHANGED <<index, marker, worktree, orphans, attempt, scratch>>

\* A fold refused because the branch changed: merge_from_disk has adopted the
\* ledger on disk and nothing is written.
FoldRefused(p) ==
    /\ pc[p] = "idle"
    /\ lock = Nil
    /\ Readable
    /\ tree' = [tree EXCEPT ![p] = disk]
    /\ UNCHANGED <<shared, stamped, pc, resume, attempt, scratch>>

\* commit_inner (accept, undo, flag, snooze): the ledger is merged and written
\* with the seen tree it had.  One that cannot be read is replaced by p's own.
Commit(p) ==
    /\ pc[p] = "idle"
    /\ lock = Nil
    /\ disk' = IF Readable THEN disk ELSE tree[p]
    /\ tree' = [tree EXCEPT ![p] = disk']
    /\ stamped' = LedgerReplaced
    /\ UNCHANGED <<lock, index, marker, worktree, orphans, pc, resume, attempt, scratch>>

-----------------------------------------------------------------------------
(* scan: the two reads of the index and the check that they were of one.   *)

\* refresh changes no entry and is not a step.  A first diff-files that
\* cannot read the index asks for a reseed.
DiffFiles(p) ==
    /\ pc[p] \in {"diff", "rediff"}
    /\ index # Torn
    /\ listed' = [listed EXCEPT ![p] = DiffListing(index)]
    /\ Goto(p, "others")
    /\ UNCHANGED <<shared, tree, stamped, resume, attempt, seen, touched, partial>>

DiffUnreadable(p) ==
    /\ pc[p] = "diff"
    /\ index = Torn
    /\ Goto(p, "relock")
    /\ UNCHANGED <<shared, tree, stamped, resume, attempt, scratch>>

\* The second read of a reseeded index and `others` have no such retry.
ReadFails(p) ==
    /\ pc[p] \in {"rediff", "others"}
    /\ index = Torn
    /\ ScanEnds(p)
    /\ UNCHANGED <<shared, tree, stamped, resume>>

Others(p) ==
    /\ pc[p] = "others"
    /\ index # Torn
    /\ listed' = [listed EXCEPT ![p] = @ \cup OthersListing(index)]
    /\ Goto(p, "recheck")
    /\ UNCHANGED <<shared, tree, stamped, resume, attempt, seen, touched, partial>>

\* A wrong variant: the content of the marker instead of its identity.
SameMarkerByContent(p) == marker = tree[p]

\* The marker's identity again: missing is a seed in flight, never "the same".
SameMarker(p) == marker # Nil /\ seen[p] = "current"

Recheck(p) ==
    /\ pc[p] = "recheck"
    /\ IF SameMarker(p)
       THEN Goto(p, "listed") /\ UNCHANGED <<attempt, scratch>>
       ELSE \/ CanRepeat(p) /\ ScanAgain(p)
            \/ /\ ~CanRepeat(p)
               /\ Goto(p, "listed")
               /\ partial' = [partial EXCEPT ![p] = TRUE]
               /\ UNCHANGED <<attempt, seen, listed, touched>>
    /\ UNCHANGED <<shared, tree, stamped, resume>>

\* The pile is built from the candidates and handed out.
Publish(p) ==
    /\ pc[p] = "listed"
    /\ ScanEnds(p)
    /\ UNCHANGED <<shared, tree, stamped, resume>>

-----------------------------------------------------------------------------
(* What happens around the processes.                                      *)

\* Killed at any step: the kernel drops the lock, memory is gone.  The git
\* child it was waiting for is not killed with it.
Crash(p) ==
    /\ "crash" \in Faults
    /\ pc[p] # "closed"
    /\ lock' = IF lock = p THEN Nil ELSE lock
    /\ orphans' = orphans \cup (IF "orphan" \in Faults /\ pc[p] = "readtree" THEN {tree[p]} ELSE {})
    /\ Goto(p, "closed")
    /\ stamped' = [stamped EXCEPT ![p] = FALSE]
    /\ tree' = [tree EXCEPT ![p] = NoTree]
    /\ resume' = [resume EXCEPT ![p] = "idle"]
    /\ attempt' = [attempt EXCEPT ![p] = 0]
    /\ Forget(p)
    /\ UNCHANGED <<disk, index, marker, worktree>>

OrphanFinishes ==
    /\ \E t \in orphans :
           /\ index' = t
           /\ orphans' = orphans \ {t}
    /\ UNCHANGED <<disk, lock, marker, worktree, local>>

\* Agents and the user write the files of the root.
Edit(q) ==
    /\ "edit" \in Faults
    /\ \E e \in Entry \ {worktree[q]} : worktree' = [worktree EXCEPT ![q] = e]
    /\ touched' = [p \in Proc |-> IF attempt[p] = 0 THEN {} ELSE touched[p] \cup {q}]
    /\ UNCHANGED <<disk, lock, index, marker, orphans, tree, stamped, pc, resume, attempt,
                   seen, listed, partial>>

\* The index file is torn, at any time.
TearIndex ==
    /\ "tear" \in Faults
    /\ index # Torn
    /\ index' = Torn
    /\ UNCHANGED <<disk, lock, marker, worktree, orphans, local>>

\* Both files are deleted between two scans (git reads a missing index as an
\* empty one, so a deletion in the middle of a scan is not promised anything).
DeleteCache ==
    /\ "delete" \in Faults
    /\ lock = Nil
    /\ \A p \in Proc : attempt[p] = 0
    /\ index' = Missing
    /\ marker' = Nil
    /\ seen' = MarkerReplaced
    /\ UNCHANGED <<disk, lock, worktree, orphans, tree, stamped, pc, resume, attempt,
                   listed, touched, partial>>

\* ledger.json is damaged from outside.
GarbleLedger ==
    /\ "garble" \in Faults
    /\ Readable
    /\ disk' = Garbled
    /\ stamped' = LedgerReplaced
    /\ UNCHANGED <<lock, index, marker, worktree, orphans, tree, pc, resume, attempt, scratch>>

-----------------------------------------------------------------------------
Open(p) == OpenLoad(p) \/ OpenRepair(p) \/ OpenStamp(p)
Sync(p) == SyncNothing(p) \/ SyncAdopt(p) \/ SyncSwitch(p) \/ SyncStamp(p) \/ TrimNothing(p)
Ensure(p) == EnsureIdentity(p) \/ EnsureContent(p) \/ EnsureLocked(p) \/ Reseed(p)
Check(p) == SeedCheck(p) \/ SeedMoved(p) \/ SeedUnreadable(p)
Seed(p) == SeedRemove(p) \/ SeedReadTree(p) \/ SeedMark(p) \/ SeedFails(p)
Scan(p) == DiffFiles(p) \/ DiffUnreadable(p) \/ ReadFails(p) \/ Others(p)
           \/ Recheck(p) \/ Publish(p)

\* What carries an operation that has begun to its end.
Step(p) == OpenRepair(p) \/ OpenStamp(p) \/ LockBusy(p) \/ Reload(p) \/ Sync(p)
           \/ Ensure(p) \/ Check(p) \/ Seed(p) \/ Scan(p)

Process(p) == Step(p) \/ OpenLoad(p) \/ BeginScan(p) \/ FoldCommit(p)
              \/ FoldRefused(p) \/ Commit(p) \/ Crash(p)

Next ==
    \/ \E p \in Proc : Process(p)
    \/ \E q \in Path : Edit(q)
    \/ OrphanFinishes
    \/ TearIndex
    \/ DeleteCache
    \/ GarbleLedger

Spec == Init /\ [][Next]_vars

\* A running process keeps taking steps; the lock wait is bounded.
Fairness == \A p \in Proc : WF_vars(Step(p))

FairSpec == Spec /\ Fairness

-----------------------------------------------------------------------------
(* Properties.                                                             *)

\* A marker never names a tree the index does not hold: "an index under a
\* marker naming a tree it does not hold is the defect" (engine.md).  Every
\* later ensure would call that index fresh and hide what differs.
MarkerIsTrue == marker # Nil => index \in {marker, Torn}

\* A pile handed out without the "reseeded while" notice has a candidate for
\* every path that was pending, under the tree the scan holds, from the start
\* of the scan to its end: no reseed, crash or lost cache hides a row.
NoPendingPathHidden ==
    \A p \in Proc :
        pc[p] = "listed" /\ ~partial[p] =>
            \A q \in Path \ touched[p] : Pending(tree[p], q) => q \in listed[p]

\* While a seed is under way the tree it writes is the one ledger.json names
\* (or `null`, or the ledger is gone or was damaged under the seed).
SeedFollowsDisk ==
    \A p \in Proc :
        pc[p] \in {"remove", "readtree", "mark"} =>
            tree[p] = NoTree \/ disk \in {tree[p], Missing, Garbled}

\* Every scan that begins ends, with a pile or an error, however often other
\* processes fold and reseed: the repeat is bounded and the lock wait is.
ScansEnd == \A p \in Proc : attempt[p] > 0 ~> attempt[p] = 0

-----------------------------------------------------------------------------
(* The inductive invariant, for a root in which no git child outlives its  *)
(* process to write the index under another's seed (SharedIndexProofs).    *)

\* A process is inside a seed exactly while it holds the ledger lock.
LockInv == \A p \in Proc : pc[p] \in Seeding <=> lock = p

\* Between the removal and the new marker there is none, and the new marker is
\* written over the index it names.
SeedInv ==
    \A p \in Proc :
        /\ pc[p] \in {"readtree", "mark"} => marker = Nil
        /\ pc[p] = "mark" => index \in {tree[p], Torn}

\* Whoever scans, or seeds for a scan, is counted as scanning.
AttemptInv ==
    \A p \in Proc :
        pc[p] \in Scanning \/ (pc[p] \in Seeding /\ resume[p] # "idle") => attempt[p] # 0

\* The marker a scan is to compare with named the scan's own tree, and names
\* it still while it is there.
SeenInv ==
    \A p \in Proc :
        pc[p] \in {"diff", "rediff", "others", "recheck"} /\ seen[p] = "current" =>
            marker = tree[p]

\* While that marker is there, diff-files has listed every changed entry, and
\* others every file without one.
ListedInv ==
    \A p \in Proc : seen[p] = "current" =>
        /\ pc[p] \in {"others", "recheck"} =>
               DiffListing(tree[p]) \ touched[p] \subseteq listed[p]
        /\ pc[p] = "recheck" => OthersListing(tree[p]) \ touched[p] \subseteq listed[p]

IInv ==
    /\ TypeOK
    /\ LockInv
    /\ SeedInv
    /\ AttemptInv
    /\ SeenInv
    /\ ListedInv
    /\ MarkerIsTrue
    /\ NoPendingPathHidden
    /\ SeedFollowsDisk

=============================================================================
