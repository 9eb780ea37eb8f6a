------------------------------ MODULE Restore ------------------------------
(***************************************************************************)
(* Writing the worktree (restore.rs; ops.rs restore_hunk, restore_file,    *)
(* restore_deletion, save_file): several lastcall processes put back or    *)
(* save one file while agents write it and move its directory.             *)
(*                                                                         *)
(* A text is the set of the changed lines it has, so the hunks between two *)
(* texts are the lines in which they differ.  A directory is an object of  *)
(* its own: the path names one, by itself or through a symlink, and an     *)
(* open descriptor keeps naming the one that was opened.                   *)
(***************************************************************************)
EXTENDS Naturals

CONSTANTS
    Pids,       \* process ids; one is used again after its process has died
    Dirs,       \* directories, at the file's path or moved away
    Lines,      \* lines that can be changed
    Edits,      \* what is written meanwhile and typed, sets of lines
    MaxNames,   \* names a process tries for its temporary file (64)
    MaxMoves,   \* edits, moves and deaths around the operations
    MaxKeys     \* operations

Absent == {"absent"}
Empty  == {"empty"}     \* the record says nothing about the path
Link   == {"link"}      \* a symlink
None   == {"none"}
Text   == SUBSET Lines
Value  == Text \cup {Link, Absent}
Base   == Value \cup {Empty}

ASSUME Constants ==
    /\ MaxNames \in Nat /\ MaxMoves \in Nat /\ MaxKeys \in Nat
    /\ None \notin Dirs \cup Pids
    /\ Edits \subseteq SUBSET Lines
    /\ {"absent", "empty", "link", "none"} \cap Lines = {}

VARIABLES
    file,       \* what each directory has under the file's name
    at, linked, \* the directory the path names; through a symlink
    temps,      \* temporary files: directory, process, number
    ledger,     \* the path's baseline in the ledger on disk
    seeded,     \* the record has a seen tree
    alive, pc,  \* of each process
    mem,        \* its ledger's baseline for the path
    row,        \* the row it shows
    job,        \* the operation under way
    seen,       \* what the user has been shown or has typed (history)
    touched,    \* others changed the file or its directory since the last
                \* check of the operation under way (history)
    moves, keys

worldVars == <<file, at, linked>>
procVars  == <<alive, mem, row>>
vars == <<file, at, linked, temps, ledger, seeded, alive, pc, mem, row, job,
          seen, touched, moves, keys>>

NoRow == [cur |-> None, base |-> None]
NoJob == [op |-> "none", hunk |-> None, given |-> {}, new |-> Absent,
          dir |-> None, name |-> 0]

\* What hash_path finds.
Live == IF at = None THEN Absent ELSE file[at]

\* A rendered row has no baseline for a path that is absent or unknown.
Shown(b) == IF b = Empty THEN Absent ELSE b

TextOf(b) == IF b \in Text THEN b ELSE {}
Flip(t, H) == (t \ H) \cup (H \ t)
Hunks(r) == Flip(TextOf(r.base), TextOf(r.cur))

\* empty_baseline_means_absent: unknown means added once something was seen.
Added(b) == b = Absent \/ (b = Empty /\ seeded)

----------------------------------------------------------------------------
Init ==
    /\ at \in Dirs /\ linked = FALSE
    /\ \E v \in Value : file = [d \in Dirs |-> IF d = at THEN v ELSE Absent]
    /\ temps = {}
    /\ seeded \in BOOLEAN
    /\ ledger \in Base
    /\ ~seeded => ledger = Empty
    /\ alive = [p \in Pids |-> TRUE] /\ pc = [p \in Pids |-> "idle"]
    /\ mem = [p \in Pids |-> ledger]
    /\ row = [p \in Pids |-> NoRow]
    /\ job = [p \in Pids |-> NoJob]
    /\ seen = {Shown(ledger)}
    /\ touched = [p \in Pids |-> FALSE]
    /\ moves = 0 /\ keys = 0

----------------------------------------------------------------------------
(* Around the operations                                                   *)

Acting == {"rename", "remove", "unlink", "link"}

Move == moves < MaxMoves /\ moves' = moves + 1
TouchedBy(p) ==
    touched' = [q \in Pids |-> touched[q] \/ (q # p /\ pc[q] \in Acting)]

Edit(d, v) ==
    /\ Move
    /\ v \in Edits \cup {Link, Absent} /\ v # file[d]
    /\ file' = [file EXCEPT ![d] = v]
    /\ TouchedBy(None)
    /\ UNCHANGED <<at, linked, temps, ledger, seeded, pc, procVars, job, seen, keys>>

\* The directory is moved, removed, created or replaced by a symlink.
MoveDir(d, l) ==
    /\ Move
    /\ <<d, l>> # <<at, linked>>
    /\ l => d # None
    /\ at' = d /\ linked' = l
    /\ TouchedBy(None)
    /\ UNCHANGED <<file, temps, ledger, seeded, pc, procVars, job, seen, keys>>

Crash(p) ==
    /\ Move
    /\ alive[p]
    /\ alive' = [alive EXCEPT ![p] = FALSE]
    /\ pc' = [pc EXCEPT ![p] = "idle"]
    /\ row' = [row EXCEPT ![p] = NoRow]
    /\ job' = [job EXCEPT ![p] = NoJob]
    /\ UNCHANGED <<worldVars, temps, ledger, seeded, mem, seen, touched, keys>>

Start(p) ==
    /\ ~alive[p]
    /\ alive' = [alive EXCEPT ![p] = TRUE]
    /\ mem' = [mem EXCEPT ![p] = ledger]
    /\ UNCHANGED <<worldVars, temps, ledger, seeded, pc, row, job, seen, touched,
                   moves, keys>>

\* A scan adopts the ledger on disk; the screen may still show an older row.
Scan(p) ==
    /\ alive[p] /\ pc[p] \in {"idle", "done"}
    /\ mem' = [mem EXCEPT ![p] = ledger]
    /\ LET new == IF Live = Shown(ledger) THEN NoRow
                  ELSE [cur |-> Live, base |-> Shown(ledger)]
       IN \/ UNCHANGED <<row, seen>>
          \/ /\ row' = [row EXCEPT ![p] = new]
             /\ seen' = seen \cup ({new.cur} \ {None})
    /\ pc' = [pc EXCEPT ![p] = "idle"]
    /\ job' = [job EXCEPT ![p] = NoJob]
    /\ touched' = [touched EXCEPT ![p] = FALSE]
    /\ UNCHANGED <<worldVars, temps, ledger, seeded, alive, moves, keys>>

\* Accepting the row (module ReviewLedger).
Accept(p) ==
    /\ alive[p] /\ pc[p] = "idle" /\ row[p] # NoRow
    /\ keys < MaxKeys /\ keys' = keys + 1
    /\ Live = row[p].cur
    /\ ledger' = row[p].cur
    /\ pc' = [pc EXCEPT ![p] = "done"]
    /\ UNCHANGED <<worldVars, temps, seeded, procVars, job, seen, touched, moves>>

----------------------------------------------------------------------------
(* Pressing a key and the first check                                      *)

Begin(p, op, h, G, v) ==
    /\ alive[p] /\ pc[p] = "idle" /\ row[p] # NoRow
    /\ keys < MaxKeys /\ keys' = keys + 1
    /\ job' = [job EXCEPT ![p] = [NoJob EXCEPT !.op = op, !.hunk = h,
                                               !.given = G, !.new = v]]
    /\ pc' = [pc EXCEPT ![p] = "check"]
    /\ UNCHANGED <<worldVars, temps, ledger, seeded, procVars, touched, moves>>

PressFile(p) == Begin(p, "file", None, {}, Absent) /\ UNCHANGED seen

\* The list of hunks may have been cut at the line cap.
PressHunk(p) ==
    /\ row[p].cur \in Text /\ row[p].base # Link
    /\ \E G \in SUBSET Hunks(row[p]) : \E h \in G : Begin(p, "hunk", h, G, Absent)
    /\ UNCHANGED seen

\* The editor was opened on the row (read_rendered) and its text is written back.
PressSave(p) ==
    /\ row[p].cur \in Text
    /\ \E t \in Edits : Begin(p, "save", None, {}, t) /\ seen' = seen \cup {t}

Goto(p, step) == pc' = [pc EXCEPT ![p] = step]

\* A conflict, a filter driver, another branch, a symlink above, a file that
\* has moved on, a baseline that has: nothing was done.
Refuse(p) ==
    /\ pc[p] = "check"
    /\ Goto(p, "done")
    /\ UNCHANGED <<worldVars, temps, ledger, seeded, procVars, job, seen, touched,
                   moves, keys>>

\* A wrong variant: the list of hunks is trusted.
CompleteAnyway(p) == job[p].op = "hunk" => job[p].given # {}

\* The hunks handed over are all of them: together they make the live file.
Complete(p) ==
    job[p].op = "hunk" => Flip(TextOf(mem[p]), job[p].given) = row[p].cur

\* What is put at the path: nothing for an added file or its only hunk.
Result(p) ==
    LET j == job[p]
        kept == j.given \ {j.hunk}
    IN CASE j.op = "save" -> j.new
         [] j.op = "hunk" -> IF Added(mem[p]) /\ kept = {} THEN Absent
                             ELSE Flip(TextOf(mem[p]), kept)
         [] j.op = "file" -> IF Added(mem[p]) THEN Absent
                             ELSE IF mem[p] = Empty THEN {} ELSE mem[p]

\* Only a text goes through a temporary file.
ByTemp(v) == v \in Text

\* restore_preflight, cas_live, restore_baseline.
Check(p) ==
    /\ pc[p] = "check" /\ row[p].cur # Absent
    /\ ~linked /\ Live = row[p].cur
    /\ job[p].op # "save" => Shown(mem[p]) = row[p].base
    /\ Complete(p)
    /\ job' = [job EXCEPT ![p].new = Result(p)]
    /\ Goto(p, IF ByTemp(Result(p)) THEN "open" ELSE "second")
    /\ UNCHANGED <<worldVars, temps, ledger, seeded, procVars, seen, touched, moves,
                   keys>>

Fresh(d) == /\ d # at /\ file[d] = Absent
            /\ \A t \in temps : t.dir # d
            /\ \A p \in Pids : job[p].dir # d

\* restore_deletion: nothing is there, and its directory is made again.
CheckDeletion(p) ==
    /\ pc[p] = "check" /\ row[p].cur = Absent
    /\ ~linked /\ Live = Absent
    /\ Shown(mem[p]) = row[p].base
    /\ IF at # None THEN UNCHANGED <<at, touched>>
       ELSE (\E d \in Dirs : Fresh(d) /\ at' = d) /\ TouchedBy(p)
    /\ job' = [job EXCEPT ![p].new = Result(p)]
    /\ Goto(p, IF ByTemp(Result(p)) THEN "open" ELSE "second")
    /\ UNCHANGED <<file, linked, temps, ledger, seeded, procVars, seen, moves, keys>>

----------------------------------------------------------------------------
(* The temporary file                                                      *)

\* A wrong variant: every temporary file of another process is removed.
SweptAll(p) == {t \in temps : t.dir = at /\ t.pid # p}

\* sweep: temporary files of processes that have died.
Swept(p) == {t \in temps : t.dir = at /\ t.pid # p /\ ~alive[t.pid]}

\* sweep and open_parent.
Open(p) ==
    /\ pc[p] = "open"
    /\ temps' = temps \ Swept(p)
    /\ IF at = None \/ linked
       THEN Goto(p, "done") /\ UNCHANGED job
       ELSE /\ job' = [job EXCEPT ![p].dir = at]
            /\ Goto(p, "create")
    /\ UNCHANGED <<worldVars, ledger, seeded, procVars, seen, touched, moves, keys>>

Temp(p, n) == [dir |-> job[p].dir, pid |-> p, name |-> n]
Mine(p) == Temp(p, job[p].name)

FreeNames(p) == {n \in 1..MaxNames : Temp(p, n) \notin temps}

\* create_temp, the write and the sync.
Create(p) ==
    /\ pc[p] = "create"
    /\ IF FreeNames(p) = {}
       THEN Goto(p, "done") /\ UNCHANGED <<temps, job>>
       ELSE \E n \in FreeNames(p) :
                /\ \A m \in FreeNames(p) : n \leq m
                /\ temps' = temps \cup {Temp(p, n)}
                /\ job' = [job EXCEPT ![p].name = n]
                /\ Goto(p, "second")
    /\ UNCHANGED <<worldVars, ledger, seeded, procVars, seen, touched, moves, keys>>

\* A wrong variant: the check is not repeated.
SameAsShownOnce(p) == ~linked

\* The second compare-and-swap; a deletion looks for a collision only, which a
\* directory that is gone does not have.
SameAsShown(p) == Live = row[p].cur /\ (row[p].cur # Absent => ~linked)

Step(v) == IF ByTemp(v) THEN "rename" ELSE IF v = Absent THEN "remove" ELSE "unlink"

Second(p) ==
    /\ pc[p] = "second" /\ SameAsShown(p)
    /\ touched' = [touched EXCEPT ![p] = FALSE]
    /\ Goto(p, Step(job[p].new))
    /\ UNCHANGED <<worldVars, temps, ledger, seeded, procVars, job, seen, moves, keys>>

\* A check, a write or a rename fails: the temporary file goes too.
Fail(p) ==
    /\ pc[p] \in {"second", "rename"}
    /\ temps' = temps \ {Mine(p)}
    /\ Goto(p, "done")
    /\ UNCHANGED <<worldVars, ledger, seeded, procVars, job, seen, touched, moves,
                   keys>>

----------------------------------------------------------------------------
(* The effect                                                              *)

Put(p, d, v) == file' = [file EXCEPT ![d] = v] /\ TouchedBy(p)

Rename(p) ==
    /\ pc[p] = "rename"
    /\ temps' = temps \ {Mine(p)}
    /\ Put(p, job[p].dir, job[p].new)
    /\ Goto(p, IF job[p].op = "save" THEN "commit" ELSE "done")
    /\ UNCHANGED <<at, linked, ledger, seeded, procVars, job, seen, moves, keys>>

\* remove, and the first half of write_symlink: by path.
Remove(p) ==
    /\ pc[p] \in {"remove", "unlink"}
    /\ IF at = None THEN UNCHANGED <<file, touched>> ELSE Put(p, at, Absent)
    /\ Goto(p, IF pc[p] = "unlink" THEN "link" ELSE "done")
    /\ UNCHANGED <<at, linked, temps, ledger, seeded, procVars, job, seen, moves, keys>>

\* The symlink is made if nothing has taken the name.
MakeLink(p) ==
    /\ pc[p] = "link"
    /\ IF at # None /\ file[at] = Absent THEN Put(p, at, Link)
       ELSE UNCHANGED <<file, touched>>
    /\ Goto(p, "done")
    /\ UNCHANGED <<at, linked, temps, ledger, seeded, procVars, job, seen, moves, keys>>

\* A wrong variant: the file is read again after the rename.
RecordedLive(p) == Live

\* The oid of the bytes that were written.
Recorded(p) == job[p].new

\* The ledger learns of a save; a busy lock or another branch keeps it out.
Commit(p) ==
    /\ pc[p] = "commit"
    /\ ledger' \in {Recorded(p), ledger}
    /\ Goto(p, "done")
    /\ UNCHANGED <<worldVars, temps, seeded, procVars, job, seen, touched, moves, keys>>

----------------------------------------------------------------------------
Press(p) == PressFile(p) \/ PressHunk(p) \/ PressSave(p)
Do(p) == Refuse(p) \/ Check(p) \/ CheckDeletion(p) \/ Open(p) \/ Create(p)
            \/ Second(p) \/ Fail(p) \/ Rename(p) \/ Remove(p) \/ MakeLink(p)
            \/ Commit(p)

Next ==
    \/ \E p \in Pids : Crash(p) \/ Start(p) \/ Scan(p) \/ Accept(p) \/ Press(p) \/ Do(p)
    \/ \E d \in Dirs, v \in Value : Edit(d, v)
    \/ \E d \in Dirs \cup {None}, l \in BOOLEAN : MoveDir(d, l)

Spec == Init /\ [][Next]_vars

----------------------------------------------------------------------------
(* Properties                                                              *)

Steps == {"idle", "check", "open", "create", "second", "rename", "remove",
          "unlink", "link", "commit", "done"}

TypeOK ==
    /\ file \in [Dirs -> Value]
    /\ at \in Dirs \cup {None} /\ linked \in BOOLEAN
    /\ temps \subseteq [dir : Dirs, pid : Pids, name : 1..MaxNames]
    /\ ledger \in Base /\ seeded \in BOOLEAN
    /\ alive \in [Pids -> BOOLEAN] /\ pc \in [Pids -> Steps]
    /\ mem \in [Pids -> Base]
    /\ \A p \in Pids :
         /\ row[p] = NoRow \/ row[p] \in [cur : Value, base : Value]
         /\ job[p] \in [op : {"none", "file", "hunk", "save"}, hunk : Lines \cup {None},
                        given : Text, new : Value, dir : Dirs \cup {None},
                        name : 0..MaxNames]
    /\ seen \subseteq Value
    /\ touched \in [Pids -> BOOLEAN]
    /\ moves \in 0..MaxMoves /\ keys \in 0..MaxKeys

\* Restore and save replace what the user was shown and nothing else: what an
\* agent wrote before the second check is never overwritten or removed,
\* whoever else restores, saves, dies or moves the directory (a directory moved
\* away after it was opened is the exception).
EditsAreKept ==
    [][\A p \in Pids, d \in Dirs :
          pc'[p] # pc[p] /\ file'[d] # file[d] =>
              \/ file[d] \in {row[p].cur, Absent}
              \/ touched[p] \/ d # at]_vars

\* Restoring a hunk takes that hunk back and leaves every other change, however
\* the list of hunks was cut and whatever was accepted since it was shown.
OtherHunksStay ==
    \A p \in Pids :
        job[p].op = "hunk" /\ pc[p] \in {"rename", "remove"} =>
            LET h == {job[p].hunk} IN
            TextOf(job[p].new) = (row[p].cur \ h) \cup (TextOf(row[p].base) \cap h)

\* What a save records as seen was typed or shown, though agents write the file
\* between the rename and the ledger.
BaselinesWereSeen == Shown(ledger) \in seen

\* An operation's temporary file is there until it renames it: no process
\* restoring the same name sweeps it.
TempsStay ==
    \A p \in Pids :
        \/ pc[p] = "rename"
        \/ pc[p] = "second" /\ job[p].name # 0
        => Mine(p) \in temps
=============================================================================
