---------------------------- MODULE RestoreProofs ----------------------------
(* Proofs about writing the worktree, for any number of processes,         *)
(* directories and lines.                                                  *)
EXTENDS Restore, TLAPS

-----------------------------------------------------------------------------
(* Types.                                                                  *)

Rows == {NoRow} \cup [cur : Value, base : Value]
Ops == {"file", "hunk", "save"}
Jobs == [op : {"none"} \cup Ops, hunk : Lines \cup {None}, given : Text, new : Value,
         dir : Dirs \cup {None}, name : 0..MaxNames]

FileOK == file \in [Dirs -> Value] /\ at \in Dirs \cup {None} /\ linked \in BOOLEAN
TempsOK == temps \subseteq [dir : Dirs, pid : Pids, name : 1..MaxNames]
RecordOK ==
    /\ ledger \in Base /\ seeded \in BOOLEAN /\ mem \in [Pids -> Base]
    /\ seen \subseteq Value
ProcsOK ==
    /\ alive \in [Pids -> BOOLEAN] /\ pc \in [Pids -> Steps]
    /\ touched \in [Pids -> BOOLEAN]
RowsOK == row \in [Pids -> Rows]
JobsOK ==
    /\ job \in [Pids -> Jobs]
    /\ \A p \in Pids : pc[p] \in {"check", "open", "create"} => job[p].op \in Ops /\ job[p].name = 0
    /\ \A p \in Pids : pc[p] = "create" => job[p].dir \in Dirs
    /\ \A p \in Pids : job[p].name # 0 => job[p].dir \in Dirs
CountsOK == moves \in 0..MaxMoves /\ keys \in 0..MaxKeys

Typed == FileOK /\ TempsOK /\ RecordOK /\ ProcsOK /\ RowsOK /\ JobsOK /\ CountsOK

Around == \E p \in Pids : Crash(p) \/ Start(p) \/ Scan(p) \/ Accept(p)
Outside ==
    \/ \E d \in Dirs, v \in Value : Edit(d, v)
    \/ \E d \in Dirs \cup {None}, l \in BOOLEAN : MoveDir(d, l)

LEMMA ValuesAre ==
    /\ {Absent, Link, {}} \subseteq Value /\ Text \subseteq Value /\ Value \subseteq Base
    /\ Empty \in Base /\ Empty \notin Value /\ None \notin Value
    /\ Absent \notin Text /\ Link \notin Text /\ Absent # Link
    /\ \A b \in Base : Shown(b) \in Value /\ TextOf(b) \in Text
<1>1. /\ Absent \notin Text /\ Link \notin Text /\ Empty \notin Text /\ None \notin Text
      /\ Absent # Link /\ Empty # Link /\ Empty # Absent /\ None # Link /\ None # Absent
  BY Constants DEF Absent, Empty, Link, None, Text
<1>2. {} \in Text
  BY DEF Text
<1>3. \A b \in Base : Shown(b) \in Value /\ TextOf(b) \in Text
  BY <1>1, <1>2 DEF Value, Base, Shown, TextOf
<1> QED
  BY <1>1, <1>2, <1>3 DEF Value, Base

LEMMA LiveIs ==
    ASSUME Typed
    PROVE  Live \in Value
BY ValuesAre DEF Typed, FileOK, Live

LEMMA FileStep ==
    ASSUME Typed, [Next]_vars
    PROVE  FileOK'
<1> USE DEF worldVars, procVars
<1>1. /\ FileOK /\ RowsOK /\ JobsOK
      /\ {Absent, Link, {}} \subseteq Value
  BY ValuesAre DEF Typed
<1>2. ASSUME NEW p \in Pids, NEW d, NEW v \in Value, Put(p, d, v), UNCHANGED <<at, linked>>
      PROVE  FileOK'
  BY <1>1, <1>2 DEF Put, FileOK
<1>3. ASSUME NEW p \in Pids, Rename(p)
      PROVE  FileOK'
  BY <1>1, <1>2, <1>3 DEF Rename, JobsOK, Jobs
<1>4. ASSUME NEW p \in Pids, Remove(p) \/ MakeLink(p)
      PROVE  FileOK'
  BY <1>1, <1>2, <1>4 DEF Remove, MakeLink, FileOK
<1>5. ASSUME NEW p \in Pids, CheckDeletion(p)
      PROVE  FileOK'
  BY <1>1, <1>5 DEF CheckDeletion, FileOK
<1>6. CASE Outside
  BY <1>1, <1>6 DEF Outside, Edit, MoveDir, FileOK
<1>7. CASE \/ Around \/ UNCHANGED vars
           \/ \E p \in Pids : \/ Press(p) \/ Refuse(p) \/ Check(p) \/ Open(p) \/ Create(p)
                              \/ Second(p) \/ Fail(p) \/ Commit(p)
  BY <1>1, <1>7 DEF Around, Crash, Start, Scan, Accept, Press, PressFile, PressHunk, PressSave, Begin,
                    Refuse, Check, Open, Create, Second, Fail, Commit, vars, FileOK
<1> QED
  BY <1>3, <1>4, <1>5, <1>6, <1>7 DEF Next, Do, Around, Outside

LEMMA TempsStep ==
    ASSUME Typed, [Next]_vars
    PROVE  TempsOK'
<1>1. TempsOK /\ JobsOK
  BY DEF Typed
<1>2. ASSUME temps' \subseteq temps
      PROVE  TempsOK'
  BY <1>1, <1>2 DEF TempsOK
<1>3. ASSUME NEW p \in Pids, Create(p)
      PROVE  TempsOK'
  <2>1. CASE FreeNames(p) = {}
    BY <1>2, <1>3, <2>1 DEF Create
  <2>2. CASE FreeNames(p) # {}
    <3>1. PICK n \in FreeNames(p) : temps' = temps \cup {Temp(p, n)}
      BY <1>3, <2>2 DEF Create
    <3>2. n \in 1..MaxNames /\ job[p].dir \in Dirs
      BY <1>1, <1>3, <3>1 DEF FreeNames, Create, JobsOK
    <3> QED
      BY <1>1, <3>1, <3>2 DEF Temp, TempsOK
  <2> QED
    BY <2>1, <2>2
<1>4. CASE \/ Around \/ Outside \/ UNCHANGED vars
           \/ \E p \in Pids : \/ Press(p) \/ Refuse(p) \/ Check(p) \/ CheckDeletion(p) \/ Open(p)
                              \/ Second(p) \/ Fail(p) \/ Rename(p) \/ Remove(p) \/ MakeLink(p)
                              \/ Commit(p)
  <2>1. temps' \subseteq temps
    BY <1>4 DEF Around, Outside, Edit, MoveDir, Crash, Start, Scan, Accept, Press, PressFile, PressHunk,
                PressSave, Begin, Refuse, Check, CheckDeletion, Open, Swept, Second, Fail, Rename,
                Remove, MakeLink, Commit, vars
  <2> QED
    BY <1>2, <2>1
<1> QED
  BY <1>3, <1>4 DEF Next, Do, Around, Outside

LEMMA RecordStep ==
    ASSUME Typed, [Next]_vars
    PROVE  RecordOK'
<1> USE DEF worldVars, procVars
<1>1. RecordOK /\ RowsOK /\ JobsOK /\ Live \in Value /\ Value \subseteq Base /\ Text \subseteq Value
  BY LiveIs, ValuesAre DEF Typed
<1>2. ASSUME NEW p \in Pids, Start(p) \/ Crash(p)
      PROVE  RecordOK'
  BY <1>1, <1>2 DEF Start, Crash, RecordOK
<1>3. ASSUME NEW p \in Pids, Scan(p)
      PROVE  RecordOK'
  <2> DEFINE new == IF Live = Shown(ledger) THEN NoRow ELSE [cur |-> Live, base |-> Shown(ledger)]
  <2>1. new.cur \in {None, Live}
    BY DEF NoRow
  <2>2. UNCHANGED seen \/ seen' = seen \cup ({new.cur} \ {None})
    BY <1>3 DEF Scan
  <2> HIDE DEF new
  <2>3. seen' \subseteq Value
    BY <1>1, <2>1, <2>2 DEF RecordOK
  <2>4. mem' \in [Pids -> Base] /\ UNCHANGED <<ledger, seeded>>
    BY <1>1, <1>3 DEF Scan, RecordOK
  <2> QED
    BY <1>1, <2>3, <2>4 DEF RecordOK
<1>4. ASSUME NEW p \in Pids, Accept(p)
      PROVE  RecordOK'
  BY <1>1, <1>4 DEF Accept, RecordOK, RowsOK, Rows
<1>5. ASSUME NEW p \in Pids, Press(p)
      PROVE  RecordOK'
  <2>1. UNCHANGED seen \/ \E t \in Edits : seen' = seen \cup {t}
    BY <1>5 DEF Press, PressFile, PressHunk, PressSave
  <2>2. Edits \subseteq Value
    BY <1>1, Constants DEF Text
  <2> QED
    BY <1>1, <1>5, <2>1, <2>2 DEF Press, PressFile, PressHunk, PressSave, Begin, RecordOK
<1>6. ASSUME NEW p \in Pids, Commit(p)
      PROVE  RecordOK'
  BY <1>1, <1>6 DEF Commit, Recorded, RecordOK, JobsOK, Jobs
<1>7. CASE \/ Outside \/ UNCHANGED vars
           \/ \E p \in Pids : \/ Refuse(p) \/ Check(p) \/ CheckDeletion(p) \/ Open(p) \/ Create(p)
                              \/ Second(p) \/ Fail(p) \/ Rename(p) \/ Remove(p) \/ MakeLink(p)
  BY <1>1, <1>7 DEF Outside, Edit, MoveDir, Refuse, Check, CheckDeletion, Open, Create, Second, Fail,
                    Rename, Remove, MakeLink, vars, RecordOK
<1> QED
  BY <1>2, <1>3, <1>4, <1>5, <1>6, <1>7 DEF Next, Do, Outside

LEMMA ProcsStep ==
    ASSUME Typed, [Next]_vars
    PROVE  ProcsOK'
<1> USE DEF procVars, Goto
<1>1. ProcsOK
  BY DEF Typed
<1>2. ASSUME NEW x, TouchedBy(x)
      PROVE  touched' \in [Pids -> BOOLEAN]
  BY <1>1, <1>2 DEF TouchedBy, ProcsOK
<1>3. ASSUME NEW p \in Pids, Crash(p) \/ Start(p) \/ Scan(p) \/ Accept(p) \/ Press(p) \/ Refuse(p)
                             \/ Commit(p)
      PROVE  ProcsOK'
  BY <1>1, <1>3 DEF Crash, Start, Scan, Accept, Press, PressFile, PressHunk, PressSave, Begin, Refuse,
                    Commit, ProcsOK, Steps
<1>4. ASSUME NEW p \in Pids, Check(p) \/ Open(p) \/ Create(p) \/ Second(p) \/ Fail(p)
      PROVE  ProcsOK'
  BY <1>1, <1>4 DEF Check, Open, Create, Second, Step, Fail, ProcsOK, Steps
<1>5. ASSUME NEW p \in Pids, CheckDeletion(p) \/ Rename(p) \/ Remove(p) \/ MakeLink(p)
      PROVE  ProcsOK'
  <2>1. touched' \in [Pids -> BOOLEAN]
    BY <1>1, <1>2, <1>5 DEF CheckDeletion, Rename, Remove, MakeLink, Put, ProcsOK
  <2>2. alive' = alive /\ \E s \in Steps : pc' = [pc EXCEPT ![p] = s]
    BY <1>5 DEF CheckDeletion, Rename, Remove, MakeLink, Steps
  <2> QED
    BY <1>1, <2>1, <2>2 DEF ProcsOK
<1>6. CASE Outside \/ UNCHANGED vars
  BY <1>1, <1>2, <1>6 DEF Outside, Edit, MoveDir, vars, ProcsOK
<1> QED
  BY <1>3, <1>4, <1>5, <1>6 DEF Next, Do, Outside

LEMMA RowsStep ==
    ASSUME Typed, [Next]_vars
    PROVE  RowsOK'
<1> USE DEF procVars
<1>1. RowsOK /\ Live \in Value /\ Shown(ledger) \in Value
  BY LiveIs, ValuesAre DEF Typed, RecordOK
<1>2. ASSUME NEW p \in Pids, Scan(p)
      PROVE  RowsOK'
  <2> DEFINE new == IF Live = Shown(ledger) THEN NoRow ELSE [cur |-> Live, base |-> Shown(ledger)]
  <2>1. new \in Rows
    BY <1>1 DEF Rows
  <2>2. UNCHANGED row \/ row' = [row EXCEPT ![p] = new]
    BY <1>2 DEF Scan
  <2> HIDE DEF new
  <2> QED
    BY <1>1, <2>1, <2>2 DEF RowsOK
<1>3. ASSUME NEW p \in Pids, Crash(p)
      PROVE  RowsOK'
  BY <1>1, <1>3 DEF Crash, RowsOK, Rows
<1>4. CASE \/ Outside \/ UNCHANGED vars
           \/ \E p \in Pids : Start(p) \/ Accept(p) \/ Press(p) \/ Do(p)
  <2>1. CASE Outside \/ UNCHANGED vars \/ \E p \in Pids : Start(p) \/ Accept(p)
    BY <1>1, <2>1 DEF Outside, Edit, MoveDir, Start, Accept, RowsOK, vars
  <2>2. ASSUME NEW p \in Pids, Press(p) PROVE UNCHANGED row
    BY <2>2 DEF Press, PressFile, PressHunk, PressSave, Begin
  <2>3. ASSUME NEW p \in Pids, Do(p) PROVE UNCHANGED row
    BY <2>3 DEF Do, Refuse, Check, CheckDeletion, Open, Create, Second, Fail, Rename, Remove,
                MakeLink, Commit
  <2> QED
    BY <1>1, <1>4, <2>1, <2>2, <2>3 DEF RowsOK
<1> QED
  BY <1>2, <1>3, <1>4 DEF Next, Outside

LEMMA ResultIs ==
    ASSUME Typed, NEW p \in Pids, pc[p] = "check"
    PROVE  Result(p) \in Value
<1>1. job[p] \in Jobs /\ job[p].op \in Ops /\ mem[p] \in Base
  BY DEF Typed, JobsOK, RecordOK
<1>2. {Absent, {}} \subseteq Value /\ Text \subseteq Value /\ TextOf(mem[p]) \in Text
  BY <1>1, ValuesAre
<1>3. job[p].new \in Value /\ job[p].given \in Text
  BY <1>1 DEF Jobs
<1>4. CASE job[p].op = "save"
  BY <1>3, <1>4 DEF Result
<1>5. CASE job[p].op = "hunk"
  <2>1. Flip(TextOf(mem[p]), job[p].given \ {job[p].hunk}) \in Text
    BY <1>2, <1>3 DEF Flip, Text
  <2> QED
    BY <1>2, <1>5, <2>1 DEF Result
<1>6. CASE job[p].op = "file"
  BY <1>1, <1>2, <1>6 DEF Result, Base
<1> QED
  BY <1>1, <1>4, <1>5, <1>6 DEF Ops

LEMMA JobsStep ==
    ASSUME Typed, [Next]_vars
    PROVE  JobsOK'
<1> USE DEF Goto
<1>1. JobsOK /\ ProcsOK /\ FileOK /\ RowsOK
  BY DEF Typed
<1>2. NoJob \in Jobs /\ NoJob.name = 0
  BY ValuesAre, Constants DEF NoJob, Jobs, Text
\* An action of a process touches its own job and step only.
<1>3. ASSUME NEW p \in Pids, NEW j \in Jobs, NEW s, job' = [job EXCEPT ![p] = j], pc' = [pc EXCEPT ![p] = s],
             s \in {"check", "open", "create"} => j.op \in Ops /\ j.name = 0,
             s = "create" \/ j.name # 0 => j.dir \in Dirs
      PROVE  JobsOK'
  BY <1>1, <1>3 DEF JobsOK, ProcsOK
<1>4. ASSUME NEW p \in Pids, NEW s, UNCHANGED job, pc' = [pc EXCEPT ![p] = s],
             s \notin {"check", "open", "create"}
      PROVE  JobsOK'
  BY <1>1, <1>4 DEF JobsOK, ProcsOK
<1>5. ASSUME NEW p \in Pids, Crash(p) \/ Scan(p)
      PROVE  JobsOK'
  BY <1>2, <1>3, <1>5 DEF Crash, Scan
<1>6. ASSUME NEW p \in Pids, NEW op \in Ops, NEW h \in Lines \cup {None}, NEW G \in Text, NEW v \in Value,
             Begin(p, op, h, G, v)
      PROVE  JobsOK'
  <2> DEFINE j == [NoJob EXCEPT !.op = op, !.hunk = h, !.given = G, !.new = v]
  <2>1. j \in Jobs /\ j.op = op /\ j.name = 0
    BY <1>2 DEF Jobs, NoJob
  <2>2. job' = [job EXCEPT ![p] = j] /\ pc' = [pc EXCEPT ![p] = "check"]
    BY <1>6 DEF Begin
  <2> HIDE DEF j
  <2> QED
    BY <1>3, <2>1, <2>2
<1>7. ASSUME NEW p \in Pids, Press(p)
      PROVE  JobsOK'
  <2>1. Absent \in Value /\ {} \in Text /\ Edits \subseteq Value /\ None \in Lines \cup {None}
    BY ValuesAre, Constants DEF Text
  <2>2. CASE PressFile(p)
    BY <1>6, <2>1, <2>2 DEF PressFile, Ops
  <2>3. CASE PressHunk(p)
    <3>1. PICK G \in SUBSET Hunks(row[p]) : \E h \in G : Begin(p, "hunk", h, G, Absent)
      BY <2>3 DEF PressHunk
    <3>2. row[p] \in Rows /\ row[p] # NoRow
      BY <1>1, <3>1 DEF RowsOK, Begin
    <3>3. row[p].cur \in Base /\ row[p].base \in Base
      BY <3>2, ValuesAre DEF Rows
    <3>4. Hunks(row[p]) \in Text
      BY <3>3, ValuesAre DEF Hunks, Flip, Text
    <3>5. G \in Text /\ G \subseteq Lines
      BY <3>4 DEF Text
    <3> QED
      BY <1>6, <2>1, <3>1, <3>5 DEF Ops
  <2>4. CASE PressSave(p)
    BY <1>6, <2>1, <2>4 DEF PressSave, Ops
  <2> QED
    BY <1>7, <2>2, <2>3, <2>4 DEF Press
<1>8. ASSUME NEW p \in Pids, Check(p) \/ CheckDeletion(p)
      PROVE  JobsOK'
  <2> DEFINE j == [job[p] EXCEPT !.new = Result(p)]
             s == IF ByTemp(Result(p)) THEN "open" ELSE "second"
  <2>1. pc[p] = "check" /\ job' = [job EXCEPT ![p] = j] /\ pc' = [pc EXCEPT ![p] = s]
    BY <1>1, <1>8 DEF Check, CheckDeletion, JobsOK
  <2>2. job[p] \in Jobs /\ job[p].op \in Ops /\ job[p].name = 0 /\ Result(p) \in Value
    BY <1>1, <2>1, ResultIs DEF JobsOK
  <2>3. j \in Jobs /\ j.op \in Ops /\ j.name = 0
    BY <2>2 DEF Jobs
  <2>4. s \in {"open", "second"}
    OBVIOUS
  <2> HIDE DEF j, s
  <2> QED
    BY <1>3, <2>1, <2>3, <2>4
<1>9. ASSUME NEW p \in Pids, Open(p)
      PROVE  JobsOK'
  <2>1. job[p] \in Jobs /\ job[p].op \in Ops /\ job[p].name = 0
    BY <1>1, <1>9 DEF Open, JobsOK
  <2>2. CASE at = None \/ linked
    BY <1>4, <1>9, <2>2 DEF Open
  <2>3. CASE ~(at = None \/ linked)
    <3> DEFINE j == [job[p] EXCEPT !.dir = at]
    <3>1. job' = [job EXCEPT ![p] = j] /\ pc' = [pc EXCEPT ![p] = "create"]
      BY <1>1, <1>9, <2>3 DEF Open, JobsOK
    <3>2. j \in Jobs /\ j.op \in Ops /\ j.name = 0 /\ j.dir \in Dirs
      BY <1>1, <2>1, <2>3 DEF Jobs, FileOK
    <3> HIDE DEF j
    <3> QED
      BY <1>3, <3>1, <3>2
  <2> QED
    BY <2>2, <2>3
<1>10. ASSUME NEW p \in Pids, Create(p)
       PROVE  JobsOK'
  <2>1. job[p] \in Jobs /\ job[p].op \in Ops /\ job[p].dir \in Dirs
    BY <1>1, <1>10 DEF Create, JobsOK
  <2>2. CASE FreeNames(p) = {}
    BY <1>4, <1>10, <2>2 DEF Create
  <2>3. CASE FreeNames(p) # {}
    <3>1. PICK n \in FreeNames(p) : job' = [job EXCEPT ![p].name = n] /\ pc' = [pc EXCEPT ![p] = "second"]
      BY <1>10, <2>3 DEF Create
    <3> DEFINE j == [job[p] EXCEPT !.name = n]
    <3>2. job' = [job EXCEPT ![p] = j]
      BY <1>1, <3>1 DEF JobsOK
    <3>3. n \in 0..MaxNames
      BY <3>1, Constants DEF FreeNames
    <3>4. j \in Jobs /\ j.dir \in Dirs
      BY <2>1, <3>3 DEF Jobs
    <3> HIDE DEF j
    <3> QED
      BY <1>3, <3>1, <3>2, <3>4
  <2> QED
    BY <2>2, <2>3
<1>11. ASSUME NEW p \in Pids, Accept(p) \/ Refuse(p) \/ Second(p) \/ Fail(p) \/ Rename(p) \/ Remove(p)
                              \/ MakeLink(p) \/ Commit(p)
       PROVE  JobsOK'
  <2>1. UNCHANGED job
    BY <1>11 DEF Accept, Refuse, Second, Fail, Rename, Remove, MakeLink, Commit
  <2>2. \E s : pc' = [pc EXCEPT ![p] = s] /\ s \notin {"check", "open", "create"}
    BY <1>11 DEF Accept, Refuse, Second, Step, Fail, Rename, Remove, MakeLink, Commit
  <2> QED
    BY <1>4, <2>1, <2>2
<1>12. CASE Outside \/ UNCHANGED vars \/ \E p \in Pids : Start(p)
  <2>1. UNCHANGED <<job, pc>>
    BY <1>12 DEF Outside, Edit, MoveDir, Start, vars
  <2> QED
    BY <1>1, <2>1 DEF JobsOK
<1> QED
  BY <1>5, <1>7, <1>8, <1>9, <1>10, <1>11, <1>12 DEF Next, Do, Outside

LEMMA CountsStep ==
    ASSUME Typed, [Next]_vars
    PROVE  CountsOK'
<1>1. moves \in 0..MaxMoves /\ keys \in 0..MaxKeys
  BY DEF Typed, CountsOK
<1>2. /\ moves' = moves \/ (moves < MaxMoves /\ moves' = moves + 1)
      /\ keys' = keys \/ (keys < MaxKeys /\ keys' = keys + 1)
  <2>1. CASE Around \/ Outside \/ UNCHANGED vars \/ \E p \in Pids : Press(p)
    BY <2>1 DEF Around, Outside, Edit, MoveDir, Move, Crash, Start, Scan, Accept, Press, PressFile,
                PressHunk, PressSave, Begin, vars
  <2>2. CASE \E p \in Pids : Do(p)
    BY <2>2 DEF Do, Refuse, Check, CheckDeletion, Open, Create, Second, Fail, Rename, Remove, MakeLink,
                Commit
  <2> QED
    BY <2>1, <2>2 DEF Next, Around, Outside
<1> QED
  BY <1>1, <1>2, Constants DEF CountsOK

LEMMA TypedInit == Init => Typed
<1> SUFFICES ASSUME Init
             PROVE  Typed
  OBVIOUS
<1>1. FileOK /\ TempsOK
  BY ValuesAre DEF Init, FileOK, TempsOK
<1>2. RecordOK
  BY ValuesAre DEF Init, RecordOK
<1>3. ProcsOK /\ RowsOK
  BY DEF Init, ProcsOK, RowsOK, Rows, Steps
<1>4. NoJob \in Jobs /\ NoJob.name = 0
  BY ValuesAre, Constants DEF NoJob, Jobs, Text
<1>5. JobsOK
  BY <1>4 DEF Init, JobsOK
<1>6. CountsOK
  BY Constants DEF Init, CountsOK
<1> QED
  BY <1>1, <1>2, <1>3, <1>5, <1>6 DEF Typed

LEMMA TypedStep == Typed /\ [Next]_vars => Typed'
BY FileStep, TempsStep, RecordStep, ProcsStep, RowsStep, JobsStep, CountsStep DEF Typed

\* Whatever the processes, agents and deaths do, files, rows, jobs and names keep
\* their types.
THEOREM TypeCorrect == Spec => []TypeOK
<1>1. Typed => TypeOK
  BY DEF Typed, FileOK, TempsOK, RecordOK, ProcsOK, RowsOK, Rows, JobsOK, Jobs, Ops, CountsOK, TypeOK
<1> QED
  BY <1>1, TypedInit, TypedStep, PTL DEF Spec

-----------------------------------------------------------------------------
(* Temporary files.                                                        *)

\* A process under way is alive, and has its temporary file from the moment it is
\* made until the rename.
TempsKept ==
    \A p \in Pids :
        /\ pc[p] # "idle" => alive[p]
        /\ pc[p] = "second" /\ ByTemp(job[p].new) => job[p].name # 0
        /\ pc[p] = "rename" => job[p].name # 0
        /\ pc[p] \in {"second", "rename"} /\ job[p].name # 0 => Mine(p) \in temps

LEMMA TempsKeptStep ==
    ASSUME Typed, TempsKept, [Next]_vars
    PROVE  TempsKept'
<1> USE DEF procVars, Goto
<1>1. ProcsOK /\ JobsOK /\ job \in [Pids -> Jobs] /\ pc \in [Pids -> Steps]
      /\ alive \in [Pids -> BOOLEAN] /\ temps \subseteq [dir : Dirs, pid : Pids, name : 1..MaxNames]
  BY DEF Typed, JobsOK, ProcsOK, TempsOK
<1> DEFINE Kept(p) ==
        /\ pc[p] # "idle" => alive[p]
        /\ pc[p] = "second" /\ ByTemp(job[p].new) => job[p].name # 0
        /\ pc[p] = "rename" => job[p].name # 0
        /\ pc[p] \in {"second", "rename"} /\ job[p].name # 0 => Mine(p) \in temps
<1>2. \A p \in Pids : Kept(p)
  BY DEF TempsKept
\* Another process's step leaves the temporary files of the living.
<1>3. ASSUME NEW p \in Pids, NEW q \in Pids, pc'[q] = pc[q], job'[q] = job[q], alive'[q] = alive[q],
             \A t \in temps : t.pid = q /\ alive[q] => t \in temps'
      PROVE  Kept(q)'
  <2>1. Kept(q)
    BY <1>2
  <2>2. Mine(q)' = Mine(q) /\ Mine(q).pid = q
    BY <1>3 DEF Mine, Temp
  <2> QED
    BY <1>3, <2>1, <2>2 DEF ByTemp
<1>4. ASSUME NEW p \in Pids, UNCHANGED temps \/ temps' = temps \ {Mine(p)} \/ temps' = temps \ Swept(p)
                             \/ \E n : temps' = temps \cup {Temp(p, n)},
             \A q \in Pids \ {p} : pc'[q] = pc[q] /\ job'[q] = job[q] /\ alive'[q] = alive[q]
      PROVE  \A q \in Pids \ {p} : Kept(q)'
  <2> SUFFICES ASSUME NEW q \in Pids \ {p}
               PROVE  Kept(q)'
    OBVIOUS
  <2>1. \A t \in temps : t.pid = q /\ alive[q] => t \in temps'
    BY <1>4 DEF Mine, Temp, Swept
  <2> HIDE DEF Kept
  <2> QED
    BY <1>3, <1>4, <2>1
<1> HIDE DEF Kept
<1>5. ASSUME NEW p \in Pids, Kept(p)', \A q \in Pids \ {p} : Kept(q)'
      PROVE  TempsKept'
  BY <1>5 DEF Kept, TempsKept
<1>6. ASSUME NEW p \in Pids, Crash(p) \/ Start(p) \/ Scan(p) \/ Accept(p)
      PROVE  TempsKept'
  <2>1. \A q \in Pids \ {p} : Kept(q)'
    BY <1>1, <1>4, <1>6 DEF Crash, Start, Scan, Accept
  <2>2. Kept(p)'
    BY <1>1, <1>2, <1>6 DEF Crash, Start, Scan, Accept, Kept
  <2> QED
    BY <1>5, <2>1, <2>2
<1>7. ASSUME NEW p \in Pids, NEW op, NEW h, NEW G, NEW v, Begin(p, op, h, G, v)
      PROVE  TempsKept'
  <2>1. \A q \in Pids \ {p} : Kept(q)'
    BY <1>1, <1>4, <1>7 DEF Begin
  <2>2. Kept(p)'
    BY <1>1, <1>2, <1>7 DEF Begin, Kept
  <2> QED
    BY <1>5, <2>1, <2>2
<1>8. ASSUME NEW p \in Pids, Refuse(p) \/ Check(p) \/ CheckDeletion(p) \/ Open(p)
      PROVE  TempsKept'
  <2>1. \A q \in Pids \ {p} : Kept(q)'
    BY <1>1, <1>4, <1>8 DEF Refuse, Check, CheckDeletion, Open
  <2>2. CASE Refuse(p) \/ Open(p)
    <3>1. Kept(p)'
      BY <1>1, <1>2, <2>2 DEF Refuse, Open, Kept
    <3> QED
      BY <1>5, <2>1, <3>1
  <2>3. CASE Check(p) \/ CheckDeletion(p)
    <3>1. job[p] \in Jobs /\ job[p].name = 0 /\ alive[p] /\ alive' = alive
      BY <1>1, <1>2, <2>3 DEF Check, CheckDeletion, JobsOK, Kept
    <3>2. job'[p].name = 0 /\ job'[p].new = Result(p)
      BY <1>1, <2>3, <3>1 DEF Check, CheckDeletion, Jobs
    <3>3. pc'[p] = IF ByTemp(Result(p)) THEN "open" ELSE "second"
      BY <1>1, <2>3 DEF Check, CheckDeletion
    <3>4. Kept(p)'
      BY <3>1, <3>2, <3>3 DEF Kept, ByTemp
    <3> QED
      BY <1>5, <2>1, <3>4
  <2> QED
    BY <1>8, <2>2, <2>3
<1>9. ASSUME NEW p \in Pids, Create(p)
      PROVE  TempsKept'
  <2>1. alive[p] /\ alive' = alive /\ job[p] \in Jobs
    BY <1>1, <1>2, <1>9 DEF Create, Kept
  <2>2. CASE FreeNames(p) = {}
    <3>1. \A q \in Pids \ {p} : Kept(q)'
      BY <1>1, <1>4, <1>9, <2>2 DEF Create
    <3>2. Kept(p)'
      BY <1>1, <1>9, <2>1, <2>2 DEF Create, Kept
    <3> QED
      BY <1>5, <3>1, <3>2
  <2>3. CASE FreeNames(p) # {}
    <3>1. PICK n \in FreeNames(p) : /\ temps' = temps \cup {Temp(p, n)}
                                    /\ job' = [job EXCEPT ![p].name = n]
                                    /\ pc' = [pc EXCEPT ![p] = "second"]
      BY <1>9, <2>3 DEF Create
    <3>2. \A q \in Pids \ {p} : pc'[q] = pc[q] /\ job'[q] = job[q] /\ alive'[q] = alive[q]
      BY <1>1, <2>1, <3>1
    <3>3. \A q \in Pids \ {p} : Kept(q)'
      BY <1>4, <3>1, <3>2
    <3>4. job'[p].name = n /\ job'[p].dir = job[p].dir /\ n # 0 /\ pc'[p] = "second"
      BY <1>1, <2>1, <3>1, Constants DEF FreeNames, Jobs
    <3>5. Mine(p)' = Temp(p, n)
      BY <3>4 DEF Mine, Temp
    <3>6. Kept(p)'
      BY <2>1, <3>1, <3>4, <3>5 DEF Kept
    <3> QED
      BY <1>5, <3>3, <3>6
  <2> QED
    BY <2>2, <2>3
<1>10. ASSUME NEW p \in Pids, Second(p)
       PROVE  TempsKept'
  <2>1. \A q \in Pids \ {p} : Kept(q)'
    BY <1>1, <1>4, <1>10 DEF Second
  <2>2. /\ alive[p] /\ UNCHANGED <<alive, temps, job>> /\ pc[p] = "second"
        /\ pc'[p] \in {"rename", "remove", "unlink"} /\ (pc'[p] = "rename" => ByTemp(job[p].new))
    BY <1>1, <1>2, <1>10 DEF Second, Step, Kept
  <2>3. Mine(p)' = Mine(p)
    BY <2>2 DEF Mine, Temp
  <2>4. Kept(p)'
    BY <1>2, <2>2, <2>3 DEF Kept
  <2> QED
    BY <1>5, <2>1, <2>4
<1>11. ASSUME NEW p \in Pids, Fail(p) \/ Rename(p) \/ Remove(p) \/ MakeLink(p) \/ Commit(p)
       PROVE  TempsKept'
  <2>1. \A q \in Pids \ {p} : Kept(q)'
    BY <1>1, <1>4, <1>11 DEF Fail, Rename, Remove, MakeLink, Commit
  <2>2. alive[p] /\ alive' = alive /\ pc'[p] \notin {"second", "rename"}
    BY <1>1, <1>2, <1>11 DEF Fail, Rename, Remove, MakeLink, Commit, Kept
  <2>3. Kept(p)'
    BY <2>2 DEF Kept
  <2> QED
    BY <1>5, <2>1, <2>3
<1>12. CASE Outside \/ UNCHANGED vars
  <2>1. UNCHANGED <<temps, pc, job, alive>>
    BY <1>12 DEF Outside, Edit, MoveDir, vars
  <2> QED
    BY <2>1 DEF TempsKept, Mine, Temp
<1> QED
  BY <1>6, <1>7, <1>8, <1>9, <1>10, <1>11, <1>12
     DEF Next, Do, Outside, Press, PressFile, PressHunk, PressSave

\* For any number of processes and names: no process sweeps the temporary file that
\* another one still has to rename.
THEOREM TempsAreKept == Spec => []TempsStay
<1>1. Init => TempsKept
  BY DEF Init, TempsKept
<1>2. Typed /\ TempsKept /\ [Next]_vars => TempsKept'
  BY TempsKeptStep
<1>3. TempsKept => TempsStay
  BY DEF TempsKept, TempsStay
<1> QED
  BY <1>1, <1>2, <1>3, TypedInit, TypedStep, PTL DEF Spec

-----------------------------------------------------------------------------
(* What is overwritten.                                                    *)

\* Between the second check and the effect the file is as it was shown, unless
\* somebody else has changed it or its directory.
Checked ==
    \A p \in Pids : pc[p] \in {"rename", "remove", "unlink"} /\ ~touched[p] => Live = row[p].cur

LEMMA CheckedStep ==
    ASSUME Typed, Checked, [Next]_vars
    PROVE  Checked'
<1> USE DEF procVars, worldVars, Goto
<1>1. touched \in [Pids -> BOOLEAN] /\ pc \in [Pids -> Steps] /\ row \in [Pids -> Rows]
  BY DEF Typed, ProcsOK, RowsOK
\* What changes the file or its directory marks the others under way.
<1>2. ASSUME NEW x, TouchedBy(x), \A p \in Pids : pc'[p] \in {"rename", "remove", "unlink"} =>
                                         p # x /\ pc'[p] = pc[p]
      PROVE  Checked'
  <2>1. \A p \in Pids : pc'[p] \in {"rename", "remove", "unlink"} => touched'[p]
    BY <1>1, <1>2 DEF TouchedBy, Acting
  <2> QED
    BY <2>1 DEF Checked
<1>3. ASSUME NEW p \in Pids, UNCHANGED <<file, at>>, pc'[p] \notin {"rename", "remove", "unlink"},
             \A q \in Pids \ {p} : pc'[q] = pc[q] /\ row'[q] = row[q] /\ touched'[q] = touched[q]
      PROVE  Checked'
  <2>1. Live' = Live
    BY <1>3 DEF Live
  <2> QED
    BY <1>3, <2>1 DEF Checked
<1>4. ASSUME NEW p \in Pids, Crash(p) \/ Scan(p) \/ Accept(p) \/ Refuse(p) \/ Check(p) \/ Open(p)
                             \/ Create(p) \/ Fail(p) \/ Commit(p)
      PROVE  Checked'
  <2>1. /\ UNCHANGED <<file, at>> /\ pc'[p] \notin {"rename", "remove", "unlink"}
        /\ \A q \in Pids \ {p} : pc'[q] = pc[q] /\ row'[q] = row[q] /\ touched'[q] = touched[q]
    BY <1>1, <1>4 DEF Crash, Scan, Accept, Refuse, Check, Open, Create, Fail, Commit
  <2> QED
    BY <1>3, <2>1
<1>5. ASSUME NEW p \in Pids, NEW op, NEW h, NEW G, NEW v, Begin(p, op, h, G, v)
      PROVE  Checked'
  <2>1. /\ UNCHANGED <<file, at>> /\ pc'[p] \notin {"rename", "remove", "unlink"}
        /\ \A q \in Pids \ {p} : pc'[q] = pc[q] /\ row'[q] = row[q] /\ touched'[q] = touched[q]
    BY <1>1, <1>5 DEF Begin
  <2> QED
    BY <1>3, <2>1
<1>6. ASSUME NEW p \in Pids, CheckDeletion(p)
      PROVE  Checked'
  <2>1. /\ pc'[p] \notin {"rename", "remove", "unlink"} /\ UNCHANGED <<file, row>>
        /\ \A q \in Pids \ {p} : pc'[q] = pc[q]
    BY <1>1, <1>6 DEF CheckDeletion
  <2>2. CASE UNCHANGED <<at, touched>>
    BY <1>3, <2>1, <2>2
  <2>3. CASE TouchedBy(p)
    BY <1>2, <2>1, <2>3
  <2> QED
    BY <1>6, <2>2, <2>3 DEF CheckDeletion
<1>7. ASSUME NEW p \in Pids, Second(p)
      PROVE  Checked'
  <2>1. Live = row[p].cur /\ UNCHANGED <<file, at, row>>
    BY <1>7 DEF Second, SameAsShown
  <2>2. \A q \in Pids \ {p} : pc'[q] = pc[q] /\ touched'[q] = touched[q]
    BY <1>1, <1>7 DEF Second
  <2>3. Live' = Live
    BY <2>1 DEF Live
  <2> QED
    BY <2>1, <2>2, <2>3 DEF Checked
<1>8. ASSUME NEW p \in Pids, Rename(p) \/ Remove(p) \/ MakeLink(p)
      PROVE  Checked'
  <2>1. /\ pc'[p] \notin {"rename", "remove", "unlink"} /\ UNCHANGED <<at, row>>
        /\ \A q \in Pids \ {p} : pc'[q] = pc[q]
    BY <1>1, <1>8 DEF Rename, Remove, MakeLink
  <2>2. TouchedBy(p) \/ UNCHANGED <<file, touched>>
    BY <1>8 DEF Rename, Remove, MakeLink, Put
  <2> QED
    BY <1>2, <1>3, <2>1, <2>2
<1>9. CASE Outside
  <2>1. TouchedBy(None) /\ UNCHANGED pc
    BY <1>9 DEF Outside, Edit, MoveDir
  <2>2. \A p \in Pids : pc[p] \in {"rename", "remove", "unlink"} => touched'[p] \/ p = None
    BY <1>1, <2>1 DEF TouchedBy, Acting
  <2>3. \A p \in Pids : p # None
    BY Constants
  <2> QED
    BY <2>1, <2>2, <2>3 DEF Checked
<1>10. CASE UNCHANGED vars \/ \E p \in Pids : Start(p)
  <2>1. UNCHANGED <<file, at, pc, row, touched>>
    BY <1>10 DEF Start, vars
  <2> QED
    BY <2>1 DEF Checked, Live
<1> QED
  BY <1>4, <1>5, <1>6, <1>7, <1>8, <1>9, <1>10
     DEF Next, Do, Outside, Press, PressFile, PressHunk, PressSave

\* For any number of processes: a restore or a save replaces what the user was shown
\* or nothing, unless another one changes the file after the second check.
THEOREM EditsStay == Spec => EditsAreKept
<1> DEFINE Keeps == \A p \in Pids, d \in Dirs :
                        pc'[p] # pc[p] /\ file'[d] # file[d] =>
                            \/ file[d] \in {row[p].cur, Absent}
                            \/ touched[p] \/ d # at
<1>1. Typed /\ Checked /\ [Next]_vars => Keeps
  <2> SUFFICES ASSUME Typed, Checked, [Next]_vars, NEW p \in Pids, NEW d \in Dirs,
                      pc'[p] # pc[p], file'[d] # file[d], ~touched[p], d = at
               PROVE  file[d] \in {row[p].cur, Absent}
    OBVIOUS
  <2> USE DEF procVars, worldVars, Goto
  <2>1. /\ pc \in [Pids -> Steps] /\ file \in [Dirs -> Value]
        /\ Live = file[d]
    BY Constants DEF Typed, ProcsOK, FileOK, Live
  <2>2. \/ Outside /\ UNCHANGED pc
        \/ \E q \in Pids : \/ Rename(q) \/ Remove(q) \/ MakeLink(q)
                           \/ UNCHANGED file
    <3>1. CASE Outside
      BY <3>1 DEF Outside, Edit, MoveDir
    <3>2. CASE UNCHANGED vars \/ Around \/ \E q \in Pids : Press(q)
      BY <3>2 DEF Around, Crash, Start, Scan, Accept, Press, PressFile, PressHunk, PressSave, Begin, vars
    <3>3. CASE \E q \in Pids : Do(q)
      BY <3>3 DEF Do, Refuse, Check, CheckDeletion, Open, Create, Second, Fail, Commit
    <3> QED
      BY <3>1, <3>2, <3>3 DEF Next, Around, Outside
  <2>3. PICK q \in Pids : Rename(q) \/ Remove(q) \/ MakeLink(q)
    BY <2>2
  <2>4. p = q
    BY <2>1, <2>3 DEF Rename, Remove, MakeLink
  <2>5. CASE Rename(p) \/ Remove(p)
    BY <2>1, <2>5 DEF Checked, Rename, Remove
  <2>6. CASE MakeLink(p)
    BY <2>1, <2>6 DEF MakeLink, Put
  <2> QED
    BY <2>3, <2>4, <2>5, <2>6
<1>2. Typed /\ Checked /\ [Next]_vars => [Keeps]_vars
  BY <1>1
<1>3. Init => Checked
  BY DEF Init, Checked
<1>4. Typed /\ Checked /\ [Next]_vars => Checked'
  BY CheckedStep
<1> QED
  BY <1>2, <1>3, <1>4, TypedInit, TypedStep, PTL DEF Spec, EditsAreKept

-----------------------------------------------------------------------------
(* What is recorded as seen.                                               *)

\* Rows and texts to be saved were shown or typed, and only a save is recorded.
SeenInv ==
    /\ Shown(ledger) \in seen
    /\ \A p \in Pids : /\ row[p] # NoRow => row[p].cur \in seen
                       /\ job[p].op = "save" => job[p].new \in seen
                       /\ pc[p] = "commit" => job[p].op = "save"

LEMMA SeenStep ==
    ASSUME Typed, SeenInv, [Next]_vars
    PROVE  SeenInv'
<1> USE DEF procVars, Goto
<1>1. /\ ProcsOK /\ RowsOK /\ RecordOK /\ JobsOK /\ job \in [Pids -> Jobs] /\ pc \in [Pids -> Steps]
      /\ row \in [Pids -> Rows]
  BY DEF Typed, JobsOK, ProcsOK, RowsOK
<1>2. \A v \in Value : Shown(v) = v
  BY ValuesAre DEF Shown
<1>3. ASSUME seen \subseteq seen', Shown(ledger') \in seen', UNCHANGED <<row, job>>,
             \A p \in Pids : pc'[p] = "commit" => pc[p] = "commit" \/ job[p].op = "save"
      PROVE  SeenInv'
  BY <1>3 DEF SeenInv
<1>4. ASSUME NEW p \in Pids, Crash(p)
      PROVE  SeenInv'
  BY <1>1, <1>4 DEF Crash, SeenInv, NoJob, Shown
<1>5. ASSUME NEW p \in Pids, Scan(p)
      PROVE  SeenInv'
  <2> DEFINE found == IF Live = Shown(ledger) THEN NoRow ELSE [cur |-> Live, base |-> Shown(ledger)]
  <2>1. \/ UNCHANGED <<row, seen>>
        \/ row' = [row EXCEPT ![p] = found] /\ seen' = seen \cup ({found.cur} \ {None})
    BY <1>5 DEF Scan
  <2>2. found = NoRow \/ found.cur # None
    BY LiveIs, ValuesAre DEF NoRow
  <2>3. ledger' = ledger /\ job' = [job EXCEPT ![p] = NoJob] /\ pc' = [pc EXCEPT ![p] = "idle"]
    BY <1>5 DEF Scan
  <2> HIDE DEF found
  <2>4. \A q \in Pids : row'[q] # NoRow => row'[q].cur \in seen'
    BY <1>1, <2>1, <2>2 DEF SeenInv
  <2>5. ASSUME NEW q \in Pids
        PROVE  /\ job'[q].op = "save" => job'[q].new \in seen'
               /\ pc'[q] = "commit" => job'[q].op = "save"
    BY <1>1, <2>1, <2>3 DEF SeenInv, NoJob
  <2>6. Shown(ledger') \in seen'
    BY <2>1, <2>3 DEF SeenInv
  <2> QED
    <3>1. ASSUME NEW q \in Pids
          PROVE  /\ row'[q] # NoRow => row'[q].cur \in seen'
                 /\ job'[q].op = "save" => job'[q].new \in seen'
                 /\ pc'[q] = "commit" => job'[q].op = "save"
      <4>1. row'[q] # NoRow => row'[q].cur \in seen'
        BY <2>4
      <4>2. job'[q].op = "save" => job'[q].new \in seen'
        BY <2>5
      <4>3. pc'[q] = "commit" => job'[q].op = "save"
        BY <2>5
      <4> QED
        BY <4>1, <4>2, <4>3
    <3> HIDE DEF Shown, NoRow
    <3> QED
      BY ONLY <2>6, <3>1 DEF SeenInv
<1>6. ASSUME NEW p \in Pids, Accept(p)
      PROVE  SeenInv'
  <2>1. row[p].cur \in Value /\ row[p].cur \in seen
    BY <1>1, <1>6 DEF Accept, SeenInv, Rows
  <2>2. /\ UNCHANGED <<seen, row, job>> /\ Shown(ledger') \in seen'
        /\ \A q \in Pids : pc'[q] = "commit" => pc[q] = "commit"
    BY <1>1, <1>2, <1>6, <2>1 DEF Accept
  <2> QED
    BY <1>3, <2>2
<1>7. ASSUME NEW p \in Pids, NEW op, NEW h, NEW G, NEW v, Begin(p, op, h, G, v),
             seen \subseteq seen', op = "save" => v \in seen'
      PROVE  SeenInv'
  <2> DEFINE j == [NoJob EXCEPT !.op = op, !.hunk = h, !.given = G, !.new = v]
  <2>1. j.op = op /\ j.new = v
    BY DEF NoJob
  <2>2. job' = [job EXCEPT ![p] = j] /\ pc' = [pc EXCEPT ![p] = "check"] /\ UNCHANGED <<ledger, row>>
    BY <1>7 DEF Begin
  <2> HIDE DEF j
  <2> QED
    BY <1>1, <1>7, <2>1, <2>2 DEF SeenInv, Shown
<1>8. ASSUME NEW p \in Pids, Press(p)
      PROVE  SeenInv'
  BY <1>7, <1>8 DEF Press, PressFile, PressHunk, PressSave
<1>9. ASSUME NEW p \in Pids, Check(p) \/ CheckDeletion(p)
      PROVE  SeenInv'
  <2> DEFINE j == [job[p] EXCEPT !.new = Result(p)]
  <2>1. /\ job' = [job EXCEPT ![p] = j] /\ UNCHANGED <<ledger, row, seen>>
        /\ \A q \in Pids : pc'[q] = "commit" => pc[q] = "commit" /\ q # p
    BY <1>1, <1>9 DEF Check, CheckDeletion
  <2>2. job[p] \in Jobs
    BY <1>1
  <2>3. j.op = job[p].op /\ (j.op = "save" => j.new = job[p].new)
    BY <2>2 DEF Jobs, Result
  <2> HIDE DEF j
  <2> QED
    BY <1>1, <2>1, <2>3 DEF SeenInv, Shown
<1>10. ASSUME NEW p \in Pids, Open(p) \/ Create(p)
       PROVE  SeenInv'
  <2>1. job[p] \in Jobs
    BY <1>1
  <2>2. /\ UNCHANGED <<ledger, row, seen>> /\ \A q \in Pids : pc'[q] = "commit" => pc[q] = "commit" /\ q # p
        /\ \/ UNCHANGED job
           \/ \E x : job' = [job EXCEPT ![p].dir = x]
           \/ \E x : job' = [job EXCEPT ![p].name = x]
    BY <1>1, <1>10 DEF Open, Create
  <2>3. \A q \in Pids : job'[q].op = job[q].op /\ job'[q].new = job[q].new
    BY <1>1, <2>1, <2>2 DEF Jobs
  <2> QED
    BY <2>2, <2>3 DEF SeenInv, Shown
<1>11. ASSUME NEW p \in Pids, Refuse(p) \/ Second(p) \/ Fail(p) \/ Rename(p) \/ Remove(p) \/ MakeLink(p)
       PROVE  SeenInv'
  <2>1. /\ UNCHANGED <<ledger, row, seen, job>>
        /\ \A q \in Pids : pc'[q] = "commit" => pc[q] = "commit" \/ job[q].op = "save"
    BY <1>1, <1>11 DEF Refuse, Second, Step, Fail, Rename, Remove, MakeLink
  <2> QED
    BY <1>3, <2>1 DEF SeenInv
<1>12. ASSUME NEW p \in Pids, Commit(p)
       PROVE  SeenInv'
  <2>1. job[p].op = "save" /\ job[p].new \in seen /\ job[p].new \in Value
    BY <1>1, <1>12 DEF Commit, SeenInv, Jobs
  <2>2. Shown(ledger') \in seen
    BY <1>2, <1>12, <2>1 DEF Commit, Recorded, SeenInv
  <2>3. UNCHANGED <<row, seen, job>> /\ \A q \in Pids : pc'[q] = "commit" => pc[q] = "commit"
    BY <1>1, <1>12 DEF Commit
  <2> QED
    BY <1>3, <2>2, <2>3
<1>13. CASE Outside \/ UNCHANGED vars \/ \E p \in Pids : Start(p)
  <2>1. UNCHANGED <<ledger, row, seen, job, pc>>
    BY <1>13 DEF Outside, Edit, MoveDir, Start, vars
  <2> QED
    BY <1>3, <2>1 DEF SeenInv
<1> QED
  BY <1>4, <1>5, <1>6, <1>8, <1>9, <1>10, <1>11, <1>12, <1>13 DEF Next, Do, Outside

\* For any number of processes: what the ledger records as seen was shown or typed.
THEOREM OnlySeenRecorded == Spec => []BaselinesWereSeen
<1>1. Init => SeenInv
  BY DEF Init, SeenInv, NoJob
<1>2. Typed /\ SeenInv /\ [Next]_vars => SeenInv'
  BY SeenStep
<1>3. SeenInv => BaselinesWereSeen
  BY DEF SeenInv, BaselinesWereSeen
<1> QED
  BY <1>1, <1>2, <1>3, TypedInit, TypedStep, PTL DEF Spec

-----------------------------------------------------------------------------
(* Hunks.                                                                  *)

TakesBack(r, h, v) == TextOf(v) = (r.cur \ {h}) \cup (TextOf(r.base) \cap {h})

\* From the check on, what a hunk's restore will put is the row without that hunk.
HunkInv ==
    \A p \in Pids : job[p].op = "hunk" =>
        /\ pc[p] = "check" => row[p].cur \in Text /\ job[p].hunk \in job[p].given
        /\ pc[p] \in {"open", "create", "second", "rename", "remove"} =>
               TakesBack(row[p], job[p].hunk, job[p].new)

\* The hunks handed over are all the changes, so all but one take that one back.
LEMMA OneHunkBack ==
    ASSUME Typed, NEW p \in Pids, pc[p] = "check", job[p].op = "hunk",
           row[p].cur \in Text, job[p].hunk \in job[p].given,
           Shown(mem[p]) = row[p].base, Complete(p)
    PROVE  TakesBack(row[p], job[p].hunk, Result(p))
<1> DEFINE M == TextOf(mem[p])
           G == job[p].given
           h == job[p].hunk
<1>1. M \in Text /\ G \in Text /\ mem[p] \in Base
  BY ValuesAre DEF Typed, RecordOK, JobsOK, Jobs
<1>2. TextOf(row[p].base) = M
  BY <1>1, ValuesAre DEF Shown, TextOf
<1>3. Flip(M, G) = row[p].cur
  BY DEF Complete
<1>4. Result(p) = IF Added(mem[p]) /\ G \ {h} = {} THEN Absent ELSE Flip(M, G \ {h})
  BY DEF Result
<1>5. Added(mem[p]) => M = {}
  BY ValuesAre DEF Added, TextOf
<1>6. TextOf(Absent) = {}
  BY ValuesAre DEF TextOf
<1> HIDE DEF M, G, h
<1>7. h \in G
  BY DEF G, h
<1>8. CASE Added(mem[p]) /\ G \ {h} = {}
  <2>1. M = {} /\ row[p].cur = {h}
    BY <1>3, <1>5, <1>7, <1>8 DEF Flip
  <2>2. (row[p].cur \ {h}) \cup (M \cap {h}) = {}
    BY <2>1
  <2> QED
    BY <1>2, <1>4, <1>6, <1>8, <2>2 DEF TakesBack, h
<1>9. CASE ~(Added(mem[p]) /\ G \ {h} = {})
  <2>1. Flip(M, G \ {h}) \in Text
    BY <1>1 DEF Flip, Text
  <2>2. TextOf(Result(p)) = Flip(M, G \ {h})
    BY <1>4, <1>9, <2>1 DEF TextOf
  <2>3. Flip(M, G \ {h}) = (Flip(M, G) \ {h}) \cup (M \cap {h})
    BY <1>7 DEF Flip
  <2> QED
    BY <1>2, <1>3, <2>2, <2>3 DEF TakesBack, h
<1> QED
  BY <1>8, <1>9

LEMMA HunkStep ==
    ASSUME Typed, HunkInv, [Next]_vars
    PROVE  HunkInv'
<1> USE DEF procVars, Goto
<1>1. /\ JobsOK /\ job \in [Pids -> Jobs] /\ pc \in [Pids -> Steps] /\ row \in [Pids -> Rows]
  BY DEF Typed, JobsOK, ProcsOK, RowsOK
<1> DEFINE Working == {"open", "create", "second", "rename", "remove"}
           For(p) == job[p].op = "hunk" =>
                         /\ pc[p] = "check" => row[p].cur \in Text /\ job[p].hunk \in job[p].given
                         /\ pc[p] \in Working => TakesBack(row[p], job[p].hunk, job[p].new)
<1>2. \A p \in Pids : For(p)
  BY DEF HunkInv
<1>3. ASSUME NEW p \in Pids, For(p)',
             \A q \in Pids \ {p} : pc'[q] = pc[q] /\ row'[q] = row[q] /\ job'[q] = job[q]
      PROVE  HunkInv'
  <2>1. \A q \in Pids \ {p} : For(q)'
    BY <1>2, <1>3 DEF TakesBack
  <2> QED
    BY <1>3, <2>1 DEF HunkInv
\* Steps that work on keep what was to be put.
<1>4. ASSUME NEW p \in Pids, row' = row, \A q \in Pids \ {p} : pc'[q] = pc[q] /\ job'[q] = job[q],
             job'[p].op = job[p].op, job'[p].hunk = job[p].hunk, job'[p].new = job[p].new,
             pc'[p] # "check", pc'[p] \in Working => pc[p] \in Working
      PROVE  HunkInv'
  <2>1. For(p)'
    BY <1>2, <1>4 DEF TakesBack
  <2> QED
    BY <1>3, <1>4, <2>1
<1> HIDE DEF For
<1>5. ASSUME NEW p \in Pids, Crash(p) \/ Scan(p)
      PROVE  HunkInv'
  <2>1. job'[p] = NoJob /\ \A q \in Pids \ {p} : pc'[q] = pc[q] /\ row'[q] = row[q] /\ job'[q] = job[q]
    BY <1>1, <1>5 DEF Crash, Scan
  <2>2. For(p)'
    BY <2>1 DEF For, NoJob
  <2> QED
    BY <1>3, <2>1, <2>2
<1>6. ASSUME NEW p \in Pids, NEW op, NEW h, NEW G, NEW v, Begin(p, op, h, G, v),
             op = "hunk" => row[p].cur \in Text /\ h \in G
      PROVE  HunkInv'
  <2> DEFINE j == [NoJob EXCEPT !.op = op, !.hunk = h, !.given = G, !.new = v]
  <2>1. j.op = op /\ j.hunk = h /\ j.given = G
    BY DEF NoJob
  <2>2. job' = [job EXCEPT ![p] = j] /\ pc' = [pc EXCEPT ![p] = "check"] /\ row' = row
    BY <1>6 DEF Begin
  <2> HIDE DEF j
  <2>3. For(p)'
    BY <1>1, <1>6, <2>1, <2>2 DEF For
  <2> QED
    BY <1>1, <1>3, <2>2, <2>3
<1>7. ASSUME NEW p \in Pids, Press(p)
      PROVE  HunkInv'
  <2>1. CASE PressFile(p) \/ PressSave(p)
    BY <1>6, <2>1 DEF PressFile, PressSave
  <2>2. CASE PressHunk(p)
    BY <1>6, <2>2 DEF PressHunk
  <2> QED
    BY <1>7, <2>1, <2>2 DEF Press
<1>8. ASSUME NEW p \in Pids, Check(p) \/ CheckDeletion(p)
      PROVE  HunkInv'
  <2> DEFINE j == [job[p] EXCEPT !.new = Result(p)]
  <2>1. /\ job' = [job EXCEPT ![p] = j] /\ row' = row /\ pc[p] = "check" /\ pc'[p] # "check"
        /\ \A q \in Pids \ {p} : pc'[q] = pc[q]
    BY <1>1, <1>8 DEF Check, CheckDeletion
  <2>2. job[p] \in Jobs
    BY <1>1
  <2>3. j.op = job[p].op /\ j.hunk = job[p].hunk /\ j.new = Result(p)
    BY <2>2 DEF Jobs
  <2>4. ASSUME job[p].op = "hunk"
        PROVE  TakesBack(row[p], job[p].hunk, Result(p))
    <3>1. row[p].cur \in Text /\ job[p].hunk \in job[p].given
      BY <1>2, <2>1, <2>4 DEF For
    <3>2. Check(p)
      BY <1>8, <3>1, ValuesAre DEF CheckDeletion
    <3>3. Shown(mem[p]) = row[p].base /\ Complete(p)
      BY <2>4, <3>2 DEF Check
    <3> QED
      BY <2>1, <2>4, <3>1, <3>3, OneHunkBack
  <2> HIDE DEF j
  <2>5. job'[p] = j /\ \A q \in Pids \ {p} : job'[q] = job[q]
    BY <1>1, <2>1
  <2>6. For(p)'
    BY <2>1, <2>3, <2>4, <2>5 DEF For, TakesBack
  <2> QED
    BY <1>3, <2>1, <2>5, <2>6
<1>9. ASSUME NEW p \in Pids, Open(p) \/ Create(p)
      PROVE  HunkInv'
  <2>1. job[p] \in Jobs
    BY <1>1
  <2>2. /\ row' = row /\ \A q \in Pids \ {p} : pc'[q] = pc[q]
        /\ pc'[p] # "check" /\ pc[p] \in Working
        /\ \/ UNCHANGED job
           \/ \E x : job' = [job EXCEPT ![p].dir = x]
           \/ \E x : job' = [job EXCEPT ![p].name = x]
    BY <1>1, <1>9 DEF Open, Create
  <2>3. /\ job'[p].op = job[p].op /\ job'[p].hunk = job[p].hunk /\ job'[p].new = job[p].new
        /\ \A q \in Pids \ {p} : job'[q] = job[q]
    BY <1>1, <2>1, <2>2 DEF Jobs
  <2> QED
    BY <1>4, <2>2, <2>3
<1>10. ASSUME NEW p \in Pids, Accept(p) \/ Refuse(p) \/ Second(p) \/ Fail(p) \/ Rename(p) \/ Remove(p)
                              \/ MakeLink(p) \/ Commit(p)
       PROVE  HunkInv'
  <2>1. /\ UNCHANGED <<row, job>> /\ pc'[p] # "check" /\ \A q \in Pids \ {p} : pc'[q] = pc[q]
        /\ pc'[p] \in Working => pc[p] \in Working
    BY <1>1, <1>10 DEF Accept, Refuse, Second, Step, Fail, Rename, Remove, MakeLink, Commit
  <2> QED
    BY <1>4, <2>1
<1>11. CASE Outside \/ UNCHANGED vars \/ \E p \in Pids : Start(p)
  <2>1. UNCHANGED <<row, job, pc>>
    BY <1>11 DEF Outside, Edit, MoveDir, Start, vars
  <2> QED
    BY <2>1 DEF HunkInv, TakesBack
<1> QED
  BY <1>5, <1>7, <1>8, <1>9, <1>10, <1>11 DEF Next, Do, Outside

\* For any lines and any cut of the list of hunks: restoring a hunk takes it back and
\* leaves every other change.
THEOREM OtherHunksAreKept == Spec => []OtherHunksStay
<1>1. Init => HunkInv
  BY DEF Init, HunkInv, NoJob
<1>2. Typed /\ HunkInv /\ [Next]_vars => HunkInv'
  BY HunkStep
<1>3. HunkInv => OtherHunksStay
  BY DEF HunkInv, TakesBack, OtherHunksStay
<1> QED
  BY <1>1, <1>2, <1>3, TypedInit, TypedStep, PTL DEF Spec
=============================================================================
