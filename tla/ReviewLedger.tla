----------------------------- MODULE ReviewLedger -----------------------------
(* Several lastcall processes reviewing one root through one ledger file.  *)
(*                                                                         *)
(* Each process holds the ledger in memory and shows a pile: the paths     *)
(* whose file differs from their baseline.  A keystroke accepts rows of    *)
(* that pile at the content they were shown with.  It is staged on the     *)
(* ledger in memory, and only then, under the lock, replayed on the ledger *)
(* on disk, which other processes have written meanwhile.  Agents edit the *)
(* files and git moves the branch between any two of these steps.          *)
(*                                                                         *)
(* A write of the ledger (lock, merge, temporary file, rename) is one step *)
(* here: no other writer runs inside the lock, readers see the old or the  *)
(* new file, and a process that dies before the rename has changed nothing. *)
(* What a scan does to find its rows is SharedIndex's subject; here it     *)
(* finds them all.                                                         *)
EXTENDS Ledger, FiniteSets

CONSTANTS
    Proc,        \* lastcall processes
    Missing,     \* no ledger.json, or no ledger in memory
    Detached,    \* HEAD names no branch
    Threshold,   \* blob overrides above which a commit compacts
    MergeBases,  \* trees two branches may have in common
    Ops,         \* operations the processes use, of OpKinds
    Faults,      \* what may happen around them, of FaultKinds
    MaxKeys      \* bound on the keystrokes of a behaviour

OpKinds == {"file", "group", "hunk", "all", "undo", "flag", "snooze"}

\* A process killed, a ledger lock held too long, files edited, another
\* branch checked out, a branch deleted or renamed, ledger.json removed.
FaultKinds == {"crash", "busy", "edit", "checkout", "refs", "lose"}

ASSUME ProcAssumption == Proc # {}
ASSUME BranchAssumption == Detached \notin Branch /\ None \notin Branch
ASSUME MergeBasesAssumption == MergeBases \subseteq Tree
ASSUME ThresholdAssumption == Threshold \in Nat
ASSUME MaxKeysAssumption == MaxKeys \in Nat
ASSUME KindsAssumption == Ops \subseteq OpKinds /\ Faults \subseteq FaultKinds

\* The record in force, the branch it belongs to, and the records of the
\* branches that were left.
LedgerFile == [branch : Branch, now : Record, parked : [Branch -> Record \cup {None}]]
ASSUME MissingAssumption == Missing \notin LedgerFile /\ None \notin Record

VARIABLES
    disk,      \* ledger.json
    head,      \* the branch HEAD names
    refs,      \* the branches that exist
    worktree,  \* the files of the root
    mem,       \* mem[p]: the ledger p holds
    pile,      \* pile[p]: the branch, baselines and files of p's last scan
    pc,        \* pc[p]: what p does next
    op,        \* op[p]: the operation p is in
    to,        \* to[p]: the branch p's scan found HEAD on
    keys,      \* keystrokes so far
    shown      \* shown[q]: what was ever accepted, or first seen, at q

git  == <<head, refs>>
vars == <<disk, head, refs, worktree, mem, pile, pc, op, to, keys, shown>>

\* on: the branch the operation was staged under.  asked: what the user
\* accepted.  staged: overrides to replay, whole.  prior: what they replaced.
\* checked: the commit looks at the branch first.
Operation == [on : Branch \cup {None}, asked : Some,
              staged : [Path -> Override \cup {None}],
              prior : [Path -> Override \cup {None}], checked : BOOLEAN]
NoOp == [on |-> None, asked |-> Nothing, staged |-> Nothing, prior |-> Nothing, checked |-> TRUE]

Pile == [on : Branch \cup {None}, base : Tree, cur : Tree]
EmptyPile == [on |-> None, base |-> [q \in Path |-> Absent], cur |-> [q \in Path |-> Absent]]

\* The records of a ledger, and the ledgers there are.
Records(l) == {l.now} \cup {r \in {l.parked[b] : b \in Branch} : r # None}
Ledgers == ({disk} \cup {mem[p] : p \in Proc}) \ {Missing}

\* Types, and the undo stack's cap.
TypeOK ==
    /\ disk \in LedgerFile \cup {Missing}
    /\ head \in Branch \cup {Detached}
    /\ refs \in SUBSET Branch
    /\ worktree \in Tree
    /\ mem \in [Proc -> LedgerFile \cup {Missing}]
    /\ pile \in [Proc -> Pile]
    /\ pc \in [Proc -> {"closed", "idle", "commit", "fold", "sync", "switch", "render"}]
    /\ op \in [Proc -> Operation]
    /\ to \in [Proc -> Branch \cup {None}]
    /\ keys \in 0..MaxKeys
    /\ shown \in [Path -> SUBSET Entry]
    /\ \A l \in Ledgers : \A r \in Records(l) : Len(r.undo) \leq UndoCap

-----------------------------------------------------------------------------
\* First sight of the root: the files of the commit HEAD is at are seen.
FirstRecord(t) == [tree |-> t, over |-> [q \in Path |-> NoOverride], undo |-> <<>>]

Init ==
    /\ head \in Branch
    /\ refs = {head}
    /\ worktree \in Tree
    /\ \E t \in Tree :
           /\ disk = [branch |-> head, now |-> FirstRecord(t), parked |-> [b \in Branch |-> None]]
           /\ shown = [q \in Path |-> {t[q]}]
    /\ mem = [p \in Proc |-> Missing]
    /\ pile = [p \in Proc |-> EmptyPile]
    /\ pc = [p \in Proc |-> "closed"]
    /\ op = [p \in Proc |-> NoOp]
    /\ to = [p \in Proc |-> None]
    /\ keys = 0

\* The paths of the pile on screen.
Rows(p) == {q \in Path : pile[p].base[q] # pile[p].cur[q]}

\* The rows of some paths at the content they were rendered with.
Rendered(p, S) == [q \in Path |-> IF q \in S THEN pile[p].cur[q] ELSE None]

Goto(p, step) == pc' = [pc EXCEPT ![p] = step]
Done(p, step) == Goto(p, step) /\ op' = [op EXCEPT ![p] = NoOp]

\* A key pressed on a pile, while the process waits for one.
Press(p, kind) ==
    /\ kind \in Ops
    /\ pc[p] = "idle"
    /\ keys < MaxKeys
    /\ keys' = keys + 1

\* branch_refusal: another process switched, or git moved and nobody has.
BranchMoved(on) ==
    \/ disk # Missing /\ disk.branch # on
    \/ head \notin {on, Detached}

\* A wrong variant: only the branch in force is compared (BranchMoved).
PileNeverMoved(p) == p \notin Proc

\* snapshot_refusal: the pile on screen is of another branch's record.
PileMoved(p) == pile[p].on \notin {None, mem[p].branch}

\* The ledger merge_from_disk leaves in memory when nothing is staged.
Adopted(p) == IF disk = Missing THEN mem[p] ELSE disk

-----------------------------------------------------------------------------
(* Keystrokes: an operation is staged on the ledger in memory.             *)

\* Every accept looks at the branch before it stages anything.
Preflight(p) == ~BranchMoved(mem[p].branch)

\* An operation that stages nothing goes straight to the scan that ends it.
Declined(p) == Goto(p, "sync") /\ UNCHANGED <<mem, op>>

\* set_override for each accepted path, with the undo entry opened.
Stage(p, asked) ==
    LET before == mem[p].now
        after  == SetOverrides(before, asked)
        At(r)  == [q \in Path |-> IF asked[q] # None THEN r.over[q] ELSE None]
    IN  /\ mem' = [mem EXCEPT ![p].now = after]
        /\ op' = [op EXCEPT ![p] = [on |-> mem[p].branch, asked |-> asked,
                                    staged |-> At(after), prior |-> At(before), checked |-> TRUE]]
        /\ Goto(p, "commit")

\* The user has seen these entries and said so.
Show(f) == shown' = [q \in Path |-> shown[q] \cup ({f[q]} \ {None})]

\* A wrong variant: the live content is accepted, whatever was rendered.
AcceptedLive(p, S) == [q \in Path |-> IF q \in S THEN worktree[q] ELSE None]

\* cas_live (and, for a deletion, that nothing is there): the rows whose file
\* is still what was rendered.
Accepted(p, S) == Rendered(p, {q \in S : worktree[q] = pile[p].cur[q]})

StageRows(p, S) ==
    /\ Show(Rendered(p, S))
    /\ IF Keys(Accepted(p, S)) = {} THEN Declined(p) ELSE Stage(p, Accepted(p, S))

\* accept_file and accept_deletion.
AcceptFile(p, q) ==
    /\ Press(p, "file")
    /\ q \in Rows(p)
    /\ IF Preflight(p) THEN StageRows(p, {q}) ELSE Declined(p) /\ UNCHANGED shown
    /\ UNCHANGED <<disk, git, worktree, pile, to>>

\* accept_group: also refused when the pile belongs to another branch.
AcceptGroup(p, S) ==
    /\ Press(p, "group")
    /\ S # {} /\ S \subseteq Rows(p)
    /\ IF Preflight(p) /\ ~PileMoved(p) THEN StageRows(p, S) ELSE Declined(p) /\ UNCHANGED shown
    /\ UNCHANGED <<disk, git, worktree, pile, to>>

\* The bytes hunks are computed against: those of an empty file where the
\* baseline has none.
Text(e) == IF e = Absent THEN Empty ELSE e

\* apply_hunks: the rendered baseline with one hunk of the row on it.
Splice(e, h) == [Text(e) EXCEPT ![h] = ~@]

\* accept_hunk: the file is not looked at again; the baseline is, in memory.
AcceptHunk(p, q, h) ==
    LET base == pile[p].base[q]
        cur  == pile[p].cur[q]
        asked == [Nothing EXCEPT ![q] = Splice(base, h)]
    IN  /\ Press(p, "hunk")
        /\ q \in Rows(p) /\ cur # Absent
        /\ Text(base)[h] # cur[h]
        /\ IF Preflight(p) /\ Baseline(mem[p].now)[q] = base
           THEN Stage(p, asked) /\ Show(asked)
           ELSE Declined(p) /\ UNCHANGED shown
        /\ UNCHANGED <<disk, git, worktree, pile, to>>

\* accept_all: the whole pile, folded rather than staged.
AcceptAll(p) ==
    /\ Press(p, "all")
    /\ IF Preflight(p) /\ ~PileMoved(p)
       THEN /\ Goto(p, "fold")
            /\ op' = [op EXCEPT ![p] = [NoOp EXCEPT !.on = mem[p].branch,
                                                    !.asked = Rendered(p, Rows(p))]]
            /\ Show(Rendered(p, Rows(p)))
            /\ UNCHANGED mem
       ELSE Declined(p) /\ UNCHANGED shown
    /\ UNCHANGED <<disk, git, worktree, pile, to>>

\* flag and unflag stage the whole override of the path, without a look at
\* the branch and without an undo entry.
StageFlags(p, q, flags) ==
    /\ mem' = [mem EXCEPT ![p].now.over[q].flags = flags]
    /\ op' = [op EXCEPT ![p] = [NoOp EXCEPT
                  !.on = mem[p].branch, !.checked = FALSE,
                  !.staged[q] = [mem[p].now.over[q] EXCEPT !.flags = flags]]]
    /\ Goto(p, "commit")

Flag(p, q, n) ==
    /\ Press(p, "flag")
    /\ StageFlags(p, q, mem[p].now.over[q].flags \cup {n})
    /\ UNCHANGED <<disk, git, worktree, pile, to, shown>>

Unflag(p, q) ==
    /\ Press(p, "flag")
    /\ IF mem[p].now.over[q] = NoOverride THEN Declined(p) ELSE StageFlags(p, q, {})
    /\ UNCHANGED <<disk, git, worktree, pile, to, shown>>

-----------------------------------------------------------------------------
(* Under the lock.                                                         *)

\* A wrong variant: the ledger in memory is written as it is.
MergedBlindly(p) ==
    IF op[p].prior = Nothing THEN mem[p]
    ELSE [mem[p] EXCEPT !.now = PushUndo(@, Prior(Replay(@, op[p].prior), Keys(op[p].prior)))]

\* merge_from_disk: the undo entry holds the baselines the record on disk had,
\* and the staged overrides replace that record's.  With no file to merge
\* with, the ledger in memory is the record.
Merged(p) ==
    LET keysOf == Keys(op[p].prior)
        from   == IF disk = Missing THEN Replay(mem[p].now, op[p].prior) ELSE disk.now
        base   == IF disk = Missing THEN mem[p].now ELSE disk.now
        pushed == IF keysOf = {} THEN base ELSE PushUndo(base, Prior(from, keysOf))
    IN  [Adopted(p) EXCEPT !.now = Replay(pushed, op[p].staged)]

Write(p, l) == disk' = l /\ mem' = [mem EXCEPT ![p] = l]

\* commit_inner, and whether a compaction follows.
Commit(p) ==
    /\ pc[p] = "commit"
    /\ IF op[p].checked /\ BranchMoved(op[p].on)
       THEN /\ mem' = [mem EXCEPT ![p] = Adopted(p)]
            /\ Done(p, "sync")
            /\ UNCHANGED disk
       ELSE /\ Write(p, Merged(p))
            /\ IF Cardinality(BlobOverrides(Merged(p).now)) > Threshold
               THEN /\ Goto(p, "fold")
                    /\ op' = [op EXCEPT ![p] = [NoOp EXCEPT !.on = op[p].on]]
               ELSE Done(p, "sync")
    /\ UNCHANGED <<git, worktree, pile, to, keys, shown>>

\* fold: accept-all, or the compaction after a commit (nothing asked, and no
\* undo entry).
FoldNow(p) ==
    LET l     == Adopted(p)
        asked == Keys(op[p].asked)
        r     == IF asked = {} THEN l.now ELSE PushUndo(l.now, Prior(l.now, asked))
    IN  /\ pc[p] = "fold"
        /\ IF BranchMoved(op[p].on)
           THEN mem' = [mem EXCEPT ![p] = l] /\ UNCHANGED disk
           ELSE Write(p, [l EXCEPT !.now = Fold(r, op[p].asked)])
        /\ Done(p, "sync")
        /\ UNCHANGED <<git, worktree, pile, to, keys, shown>>

Last(s) == s[Len(s)]

\* undo: the newest entry of the record on disk goes back through set_override.
Undo(p) ==
    LET l == Adopted(p)
    IN  /\ Press(p, "undo")
        /\ IF BranchMoved(mem[p].branch) \/ l.now.undo = <<>>
           THEN mem' = [mem EXCEPT ![p] = l] /\ UNCHANGED disk
           ELSE Write(p, [l EXCEPT !.now = SetOverrides(PopUndo(l.now), Last(l.now.undo))])
        /\ Goto(p, "sync")
        /\ UNCHANGED <<git, worktree, pile, op, to, shown>>

\* snooze and unsnooze: merge and write, whatever the branch.
Snooze(p) ==
    /\ Press(p, "snooze")
    /\ Write(p, Adopted(p))
    /\ Goto(p, "sync")
    /\ UNCHANGED <<git, worktree, pile, op, to, shown>>

\* The lock stayed busy: the operation fails, what it staged is forgotten by
\* a reload (which needs a file), and no scan follows.
LockBusy(p) ==
    /\ "busy" \in Faults
    /\ pc[p] \in {"commit", "fold"}
    /\ mem' = [mem EXCEPT ![p] = Adopted(p)]
    /\ Done(p, "idle")
    /\ UNCHANGED <<disk, git, worktree, pile, to, keys, shown>>

-----------------------------------------------------------------------------
(* A scan, as far as the ledger: reload, follow the branch, render.        *)

\* An open reads the ledger; one that finds none is not modelled here.
Open(p) ==
    /\ pc[p] = "closed"
    /\ disk # Missing
    /\ mem' = [mem EXCEPT ![p] = disk]
    /\ Goto(p, "sync")
    /\ UNCHANGED <<disk, git, worktree, pile, op, to, keys, shown>>

\* A process scans when the watcher or its timer says so.
Rescan(p) ==
    /\ pc[p] = "idle"
    /\ Goto(p, "sync")
    /\ UNCHANGED <<disk, git, worktree, mem, pile, op, to, keys, shown>>

\* reload_ledger_if_changed, then sync_branch's look at HEAD: a detached HEAD
\* leaves the record in force.
Sync(p) ==
    LET l == Adopted(p)
    IN  /\ pc[p] = "sync"
        /\ mem' = [mem EXCEPT ![p] = l]
        /\ IF head \in {l.branch, Detached}
           THEN Goto(p, "render") /\ UNCHANGED to
           ELSE Goto(p, "switch") /\ to' = [to EXCEPT ![p] = head]
        /\ UNCHANGED <<disk, git, worktree, pile, op, keys, shown>>

Switched(p) == Goto(p, "render") /\ to' = [to EXCEPT ![p] = None]

\* prune_parked: the records of branches without a ref are retired; without a
\* listing from git none is.
Prunings(parked) ==
    {parked, [b \in Branch |-> IF b \in refs THEN parked[b] ELSE None]}

\* The lock is busy, or another process has switched, or HEAD has moved on.
NoSwitch(p) ==
    /\ pc[p] = "switch"
    /\ \/ "busy" \in Faults /\ UNCHANGED mem
       \/ /\ Adopted(p).branch = to[p] \/ head # to[p]
          /\ mem' = [mem EXCEPT ![p] = Adopted(p)]
    /\ Switched(p)
    /\ UNCHANGED <<disk, git, worktree, pile, op, keys, shown>>

\* switch_branch does something: HEAD is still there and the record is not.
Switching(p) ==
    /\ pc[p] = "switch"
    /\ head = to[p]
    /\ Adopted(p).branch # to[p]

\* A wrong variant: a branch without a ref was renamed, wherever HEAD went.
RenamedWheneverGone(p) == Adopted(p).branch \notin refs

\* `git branch -m`: the ref of the record in force is gone and the new name
\* has no record.
Renamed(p) == Adopted(p).parked[to[p]] = None /\ Adopted(p).branch \notin refs

SwitchRenamed(p) ==
    LET l == Adopted(p)
    IN  /\ Switching(p)
        /\ Renamed(p)
        /\ \E parked \in Prunings(l.parked) :
               Write(p, [branch |-> to[p], now |-> l.now, parked |-> parked])
        /\ Switched(p)
        /\ UNCHANGED <<git, worktree, pile, op, keys, shown>>

\* The record in force is parked whole, and r takes its place.
Switch(p, r) ==
    LET l == Adopted(p)
    IN  \E parked \in Prunings([l.parked EXCEPT ![l.branch] = l.now, ![to[p]] = None]) :
            Write(p, [branch |-> to[p], now |-> r, parked |-> parked])

\* A branch that was here before: its record as it was left.
SwitchLoad(p) ==
    LET r == Adopted(p).parked[to[p]]
    IN  /\ Switching(p)
        /\ r # None
        /\ Switch(p, r)
        /\ Switched(p)
        /\ UNCHANGED <<git, worktree, pile, op, keys, shown>>

\* A wrong variant: the fold takes the merge-base's entry unconditionally.
SeenStateAnyway(l, q, e) == e \in Entry

\* Some other parked record has this entry as its baseline.
SeenState(l, q, e) ==
    \E b \in Branch : l.parked[b] # None /\ Baseline(l.parked[b])[q] = e

\* First sight of a branch: a copy of the record left, without its undo
\* stack, folded onto the merge-base m.  `changed` are the paths where the
\* branch left differs from m; `first` says that m was there before the root
\* was first looked at, so that all of it counts as seen.
SwitchFirstSight(p) ==
    LET l == Adopted(p)
    IN  /\ Switching(p)
        /\ l.parked[to[p]] = None /\ ~Renamed(p)
        /\ \E m \in MergeBases, changed \in SUBSET Path, first \in BOOLEAN :
               LET folds == {q \in changed : /\ Baseline(l.now)[q] # m[q]
                                             /\ first \/ SeenState(l, q, m[q])}
                   r == [tree |-> [q \in Path |-> IF q \in folds THEN m[q] ELSE l.now.tree[q]],
                         over |-> [q \in Path |-> IF q \in folds
                                                  THEN [l.now.over[q] EXCEPT !.blob = None]
                                                  ELSE l.now.over[q]],
                         undo |-> <<>>]
               IN  /\ Switch(p, r)
                   /\ IF first THEN Show([q \in Path |-> IF q \in folds THEN m[q] ELSE None])
                      ELSE UNCHANGED shown
        /\ Switched(p)
        /\ UNCHANGED <<git, worktree, pile, op, keys>>

\* The pile: what differs from its baseline, under the branch of the record.
Render(p) ==
    /\ pc[p] = "render"
    /\ pile' = [pile EXCEPT ![p] = [on |-> mem[p].branch, base |-> Baseline(mem[p].now),
                                    cur |-> worktree]]
    /\ Goto(p, "idle")
    /\ UNCHANGED <<disk, git, worktree, mem, op, to, keys, shown>>

-----------------------------------------------------------------------------
(* Around the processes.                                                   *)

\* The process dies; what it held in memory is gone.
Crash(p) ==
    /\ "crash" \in Faults
    /\ pc[p] # "closed"
    /\ mem' = [mem EXCEPT ![p] = Missing]
    /\ pile' = [pile EXCEPT ![p] = EmptyPile]
    /\ to' = [to EXCEPT ![p] = None]
    /\ Done(p, "closed")
    /\ UNCHANGED <<disk, git, worktree, keys, shown>>

Edit(q) ==
    /\ "edit" \in Faults
    /\ \E e \in Entry \ {worktree[q]} : worktree' = [worktree EXCEPT ![q] = e]
    /\ UNCHANGED <<disk, git, mem, pile, pc, op, to, keys, shown>>

\* git checks out a branch (a new one, perhaps) or a commit.
Checkout ==
    /\ "checkout" \in Faults
    /\ head' \in (Branch \cup {Detached}) \ {head}
    /\ refs' = refs \cup ({head'} \ {Detached})
    /\ UNCHANGED <<disk, worktree, mem, pile, pc, op, to, keys, shown>>

\* `git branch -D` of another branch, `git branch -m` of the current one.
MoveRefs ==
    /\ "refs" \in Faults
    /\ \/ \E b \in refs \ {head} : refs' = refs \ {b} /\ UNCHANGED head
       \/ /\ head # Detached
          /\ head' \in Branch \ refs
          /\ refs' = (refs \ {head}) \cup {head'}
    /\ UNCHANGED <<disk, worktree, mem, pile, pc, op, to, keys, shown>>

LoseLedger ==
    /\ "lose" \in Faults
    /\ disk # Missing
    /\ disk' = Missing
    /\ UNCHANGED <<git, worktree, mem, pile, pc, op, to, keys, shown>>

-----------------------------------------------------------------------------
Accept(p) ==
    \/ \E q \in Path : AcceptFile(p, q) \/ \E h \in Hunk : AcceptHunk(p, q, h)
    \/ \E S \in SUBSET Path : AcceptGroup(p, S)
    \/ AcceptAll(p)

Flagging(p) == \E q \in Path : Unflag(p, q) \/ \E n \in Note : Flag(p, q, n)

Scan(p) == Rescan(p) \/ Sync(p) \/ NoSwitch(p) \/ SwitchRenamed(p) \/ SwitchLoad(p)
           \/ SwitchFirstSight(p) \/ Render(p)

Process(p) == Open(p) \/ Accept(p) \/ Flagging(p) \/ Undo(p) \/ Snooze(p) \/ Commit(p)
              \/ FoldNow(p) \/ LockBusy(p) \/ Scan(p) \/ Crash(p)

Next ==
    \/ \E p \in Proc : Process(p)
    \/ \E q \in Path : Edit(q)
    \/ Checkout
    \/ MoveRefs
    \/ LoseLedger

Spec == Init /\ [][Next]_vars

-----------------------------------------------------------------------------
(* Properties.                                                             *)

\* No baseline, on disk, in memory or parked, is content that the user was
\* neither shown nor found at first sight: whatever the processes, the
\* branches and the merges do, nothing is hidden that nobody accepted.
NothingUnseenHidden ==
    \A l \in Ledgers : \A r \in Records(l), q \in Path : Baseline(r)[q] \in shown[q]

\* An accept of several rows is written to the record of the branch its pile
\* was rendered under, through any switch before it was pressed, while it was
\* staged, or after a failed one left the old pile on screen (for processes
\* whose accepts are groups and accept-all: a single row's accept pins the
\* content it was shown with, and may land in the branch switched to).
RowsKeepTheirBranch ==
    [][\A p \in Proc :
          op[p].asked # Nothing /\ pc[p] \in {"commit", "fold"} /\ disk' # disk
              /\ mem'[p] = disk' =>
              pile[p].on = disk'.branch]_vars

\* An accept that was written is in the record it was written to: every row it
\* took has the accepted entry as its baseline ("two engines over one root keep
\* each other's accepts").
AcceptLands ==
    [][\A p \in Proc :
          op[p].asked # Nothing /\ pc[p] \in {"commit", "fold"} /\ disk' # disk
              /\ mem'[p] = disk' =>
              \A q \in Keys(op[p].asked) : Baseline(disk'.now)[q] = op[p].asked[q]]_vars

-----------------------------------------------------------------------------
(* The ledger file implements the seen record.                             *)

RecordOf(b) ==
    IF disk = Missing THEN None ELSE IF b = disk.branch THEN disk.now ELSE disk.parked[b]

InForceOf == IF disk = Missing THEN None ELSE disk.branch
SeenOf == [b \in Branch |-> IF RecordOf(b) = None THEN None ELSE Baseline(RecordOf(b))]
StackOf == [b \in Branch |-> IF RecordOf(b) = None THEN <<>> ELSE RecordOf(b).undo]

Promise == INSTANCE SeenRecord WITH force <- InForceOf, seen <- SeenOf, stack <- StackOf

\* Every write of every process is an accept, an undo or a change of branch of
\* the seen record, or leaves it alone: overrides, compactions, merges and
\* refused operations change nothing the user has seen, an undo puts back what
\* its accept replaced, and a branch is found as it was left.
ImplementsSeenRecord == Promise!Spec

=============================================================================
