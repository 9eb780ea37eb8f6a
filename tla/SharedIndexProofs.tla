-------------------------- MODULE SharedIndexProofs --------------------------
(* Proofs about SharedIndex, for any number of processes, paths, contents  *)
(* and trees.                                                              *)
EXTENDS SharedIndex, TLAPS

LEMMA TypeInit == Init => TypeOK
<1>. SUFFICES ASSUME Init PROVE TypeOK
  OBVIOUS
<1>. USE AttemptsAssumption DEF SeenTree
<1>1. attempt \in [Proc -> 0..ScanAttempts]
  BY DEF Init
<1>. QED
  BY <1>1 DEF Init, TypeOK, Steps, Idle

\* The scratch of a scan keeps its type when the scan ends or is repeated.
LEMMA ScratchType ==
  ASSUME TypeOK, NEW p \in Proc, ScanEnds(p) \/ (CanRepeat(p) /\ ScanAgain(p))
  PROVE  /\ pc' \in [Proc -> Steps]
         /\ attempt' \in [Proc -> 0..ScanAttempts]
         /\ seen' \in [Proc -> {"none", "current", "old"}]
         /\ listed' \in [Proc -> SUBSET Path]
         /\ touched' \in [Proc -> SUBSET Path]
         /\ partial' \in [Proc -> BOOLEAN]
<1>. USE AttemptsAssumption DEF TypeOK, Goto, Forget, Steps, Idle, Scanning
<1>1. CASE ScanEnds(p)
  BY <1>1 DEF ScanEnds
<1>2. CASE CanRepeat(p) /\ ScanAgain(p)
  BY <1>2 DEF ScanAgain, CanRepeat
<1>. QED
  BY <1>1, <1>2

LEMMA TypeStep == TypeOK /\ [Next]_vars => TypeOK'
<1>. SUFFICES ASSUME TypeOK, [Next]_vars PROVE TypeOK'
  OBVIOUS
<1>. USE AttemptsAssumption, TreeAssumption, NamesAssumption
     DEF TypeOK, SeenTree, Entry, shared, local, scratch, Goto, Forget, ScanEnds, ScanAgain,
         CanRepeat, MarkerReplaced, MarkerId, LedgerReplaced, Readable,
         Steps, Idle, Opening, Scanning, Seeding
<1>1. ASSUME NEW p \in Proc, Open(p) PROVE TypeOK'
  <2>1. CASE OpenLoad(p)
    BY <2>1 DEF OpenLoad
  <2>2. CASE OpenRepair(p)
    BY <2>2 DEF OpenRepair
  <2>3. CASE OpenStamp(p)
    BY <2>3 DEF OpenStamp
  <2>. QED
    BY <1>1, <2>1, <2>2, <2>3 DEF Open
<1>2. ASSUME NEW p \in Proc, LockBusy(p) PROVE TypeOK'
  <2>1. CASE pc[p] = "repair" /\ Goto(p, "closed") /\ UNCHANGED <<attempt, scratch>>
    BY <1>2, <2>1 DEF LockBusy
  <2>2. CASE ScanEnds(p)
    <3>. HIDE DEF ScanEnds, Steps
    <3>. QED
      BY <1>2, <2>2, ScratchType DEF LockBusy
  <2>. QED
    BY <1>2, <2>1, <2>2 DEF LockBusy
<1>3. ASSUME NEW p \in Proc, BeginScan(p) \/ Reload(p) \/ Sync(p) PROVE TypeOK'
  <2>1. CASE BeginScan(p)
    BY <2>1 DEF BeginScan
  <2>2. CASE Reload(p)
    <3>1. tree' \in [Proc -> SeenTree] /\ stamped' \in [Proc -> BOOLEAN]
      <4>1. CASE stamped[p] \/ ~Readable
        BY <2>2, <4>1 DEF Reload
      <4>2. CASE ~(stamped[p] \/ ~Readable)
        <5>1. PICK t \in SeenTree : tree' = [tree EXCEPT ![p] = t]
          BY <2>2, <4>2 DEF Reload
        <5>. QED
          BY <2>2, <4>2, <5>1 DEF Reload
      <4>. QED
        BY <4>1, <4>2
    <3>2. pc' \in [Proc -> Steps] /\ UNCHANGED <<shared, resume, attempt, scratch>>
      BY <2>2 DEF Reload
    <3>. QED
      BY <3>1, <3>2
  <2>3. CASE SyncNothing(p)
    BY <2>3 DEF SyncNothing
  <2>4. CASE SyncAdopt(p)
    BY <2>4 DEF SyncAdopt
  <2>5. CASE SyncSwitch(p)
    BY <2>5 DEF SyncSwitch
  <2>6. CASE SyncStamp(p)
    BY <2>6 DEF SyncStamp
  <2>7. CASE TrimNothing(p)
    BY <2>7 DEF TrimNothing
  <2>. QED
    BY <1>3, <2>1, <2>2, <2>3, <2>4, <2>5, <2>6, <2>7 DEF Sync
<1>4. ASSUME NEW p \in Proc, Ensure(p) PROVE TypeOK'
  <2>1. CASE EnsureIdentity(p)
    BY <2>1 DEF EnsureIdentity
  <2>2. CASE EnsureContent(p)
    BY <2>2 DEF EnsureContent
  <2>3. CASE EnsureLocked(p)
    BY <2>3 DEF EnsureLocked
  <2>4. CASE Reseed(p)
    BY <2>4 DEF Reseed
  <2>. QED
    BY <1>4, <2>1, <2>2, <2>3, <2>4 DEF Ensure
<1>5. ASSUME NEW p \in Proc, Check(p) PROVE TypeOK'
  <2>1. CASE SeedCheck(p)
    BY <2>1 DEF SeedCheck
  <2>2. CASE SeedMoved(p)
    <3>. HIDE DEF ScanEnds, ScanAgain, CanRepeat, Steps
    <3>1. ScanEnds(p) \/ (CanRepeat(p) /\ ScanAgain(p))
      BY <2>2 DEF SeedMoved
    <3>. QED
      BY <2>2, <3>1, ScratchType DEF SeedMoved
  <2>3. CASE SeedUnreadable(p)
    <3>. HIDE DEF ScanEnds, Steps
    <3>. QED
      BY <2>3, ScratchType DEF SeedUnreadable
  <2>. QED
    BY <1>5, <2>1, <2>2, <2>3 DEF Check
<1>6. ASSUME NEW p \in Proc, Seed(p) PROVE TypeOK'
  <2>1. CASE SeedRemove(p)
    BY <2>1 DEF SeedRemove
  <2>2. CASE SeedReadTree(p)
    BY <2>2 DEF SeedReadTree
  <2>3. CASE SeedMark(p)
    BY <2>3 DEF SeedMark
  <2>4. CASE SeedFails(p)
    <3>1. lock' \in Proc \cup {Nil} /\ resume' \in [Proc -> {"idle", "ensure", "diff", "rediff"}]
          /\ UNCHANGED <<disk, index, worktree, orphans, tree, stamped>>
      BY <2>4 DEF SeedFails
    <3>2. CASE resume[p] \in {"diff", "rediff"}
      <4>1. ScanEnds(p) /\ UNCHANGED marker
        BY <2>4, <3>2 DEF SeedFails
      <4>. HIDE DEF ScanEnds, Steps
      <4>. QED
        BY <3>1, <4>1, ScratchType
    <3>3. CASE resume[p] \notin {"diff", "rediff"}
      <4>1. /\ marker' \in SeenTree \cup {Nil}
            /\ seen' \in [Proc -> {"none", "current", "old"}]
        BY <2>4, <3>3 DEF SeedFails
      <4>2. resume[p] \in Steps /\ Goto(p, resume[p]) /\ UNCHANGED <<attempt, listed, touched, partial>>
        BY <2>4, <3>3 DEF SeedFails
      <4>. QED
        BY <3>1, <4>1, <4>2
    <3>. QED
      BY <3>2, <3>3
  <2>. QED
    BY <1>6, <2>1, <2>2, <2>3, <2>4 DEF Seed
<1>7. ASSUME NEW p \in Proc, FoldCommit(p) \/ FoldRefused(p) \/ Commit(p) PROVE TypeOK'
  <2>1. CASE FoldCommit(p)
    BY <2>1 DEF FoldCommit
  <2>2. CASE FoldRefused(p)
    BY <2>2 DEF FoldRefused
  <2>3. CASE Commit(p)
    BY <2>3 DEF Commit
  <2>. QED
    BY <1>7, <2>1, <2>2, <2>3
<1>8. ASSUME NEW p \in Proc, Scan(p) PROVE TypeOK'
  <2>1. CASE DiffFiles(p)
    BY <2>1 DEF DiffFiles, DiffListing
  <2>2. CASE DiffUnreadable(p)
    BY <2>2 DEF DiffUnreadable
  <2>3. CASE ReadFails(p)
    BY <2>3 DEF ReadFails
  <2>4. CASE Others(p)
    <3>1. OthersListing(index) \subseteq Path
      BY DEF OthersListing
    <3>. QED
      BY <2>4, <3>1 DEF Others
  <2>5. CASE Recheck(p)
    <3>1. UNCHANGED <<shared, tree, stamped, resume>>
      BY <2>5 DEF Recheck
    <3>2. CASE Goto(p, "listed") /\ UNCHANGED <<attempt, scratch>>
      BY <3>1, <3>2
    <3>3. CASE CanRepeat(p) /\ ScanAgain(p)
      <4>. HIDE DEF CanRepeat, ScanAgain, Steps
      <4>. QED
        BY <3>1, <3>3, ScratchType
    <3>4. CASE /\ Goto(p, "listed")
               /\ partial' = [partial EXCEPT ![p] = TRUE]
               /\ UNCHANGED <<attempt, seen, listed, touched>>
      BY <3>1, <3>4
    <3>. QED
      BY <2>5, <3>2, <3>3, <3>4 DEF Recheck
  <2>6. CASE Publish(p)
    BY <2>6 DEF Publish
  <2>. QED
    BY <1>8, <2>1, <2>2, <2>3, <2>4, <2>5, <2>6 DEF Scan
<1>9. ASSUME NEW p \in Proc, Crash(p) PROVE TypeOK'
  BY <1>9 DEF Crash
<1>10. ASSUME NEW q \in Path, Edit(q) PROVE TypeOK'
  BY <1>10 DEF Edit
<1>11. CASE OrphanFinishes
  BY <1>11 DEF OrphanFinishes
<1>12. CASE TearIndex
  BY <1>12 DEF TearIndex
<1>13. CASE DeleteCache
  BY <1>13 DEF DeleteCache
<1>14. CASE GarbleLedger
  BY <1>14 DEF GarbleLedger
<1>15. CASE UNCHANGED vars
  BY <1>15 DEF vars
<1>. HIDE DEF TypeOK
<1>16. ASSUME NEW p \in Proc, Process(p) PROVE TypeOK'
  BY <1>16, <1>1, <1>2, <1>3, <1>4, <1>5, <1>6, <1>7, <1>8, <1>9, Zenon DEF Process, Step, Open
<1>. QED
  BY <1>10, <1>11, <1>12, <1>13, <1>14, <1>15, <1>16, Zenon DEF Next

\* Every variable keeps its type, whatever the processes and the faults do.
THEOREM TypeCorrect == Spec => []TypeOK
  BY TypeInit, TypeStep, PTL DEF Spec

-----------------------------------------------------------------------------
(* The lock and the seed.                                                  *)

\* Only the process that takes the lock enters a seed, and it leaves with it.
LEMMA LockStep ==
  ASSUME TypeOK, LockInv, [Next]_vars
  PROVE  LockInv'
<1>. USE ProcAssumption DEF TypeOK, LockInv, shared, local, scratch, Goto, Forget, ScanEnds, ScanAgain, MarkerReplaced, LedgerReplaced, Steps,
         Idle, Opening, Scanning, Seeding
<1>1. ASSUME NEW p \in Proc, OpenLoad(p) PROVE LockInv'
  BY <1>1 DEF OpenLoad
<1>2. ASSUME NEW p \in Proc, OpenRepair(p) PROVE LockInv'
  BY <1>2 DEF OpenRepair
<1>3. ASSUME NEW p \in Proc, OpenStamp(p) PROVE LockInv'
  BY <1>3 DEF OpenStamp
<1>4. ASSUME NEW p \in Proc, LockBusy(p) PROVE LockInv'
  BY <1>4 DEF LockBusy
<1>5. ASSUME NEW p \in Proc, BeginScan(p) PROVE LockInv'
  BY <1>5 DEF BeginScan
<1>6. ASSUME NEW p \in Proc, Reload(p) PROVE LockInv'
  BY <1>6 DEF Reload
<1>7. ASSUME NEW p \in Proc, SyncNothing(p) PROVE LockInv'
  BY <1>7 DEF SyncNothing
<1>8. ASSUME NEW p \in Proc, SyncAdopt(p) PROVE LockInv'
  BY <1>8 DEF SyncAdopt
<1>9. ASSUME NEW p \in Proc, SyncSwitch(p) PROVE LockInv'
  BY <1>9 DEF SyncSwitch
<1>10. ASSUME NEW p \in Proc, SyncStamp(p) PROVE LockInv'
  BY <1>10 DEF SyncStamp
<1>11. ASSUME NEW p \in Proc, TrimNothing(p) PROVE LockInv'
  BY <1>11 DEF TrimNothing
<1>12. ASSUME NEW p \in Proc, EnsureIdentity(p) PROVE LockInv'
  BY <1>12 DEF EnsureIdentity
<1>13. ASSUME NEW p \in Proc, EnsureContent(p) PROVE LockInv'
  BY <1>13 DEF EnsureContent
<1>14. ASSUME NEW p \in Proc, EnsureLocked(p) PROVE LockInv'
  BY <1>14 DEF EnsureLocked
<1>15. ASSUME NEW p \in Proc, Reseed(p) PROVE LockInv'
  BY <1>15 DEF Reseed
<1>16. ASSUME NEW p \in Proc, SeedCheck(p) PROVE LockInv'
  BY <1>16 DEF SeedCheck
<1>17. ASSUME NEW p \in Proc, SeedMoved(p) PROVE LockInv'
  BY <1>17 DEF SeedMoved
<1>18. ASSUME NEW p \in Proc, SeedUnreadable(p) PROVE LockInv'
  BY <1>18 DEF SeedUnreadable
<1>19. ASSUME NEW p \in Proc, SeedRemove(p) PROVE LockInv'
  BY <1>19 DEF SeedRemove
<1>20. ASSUME NEW p \in Proc, SeedReadTree(p) PROVE LockInv'
  BY <1>20 DEF SeedReadTree
<1>21. ASSUME NEW p \in Proc, SeedMark(p) PROVE LockInv'
  BY <1>21 DEF SeedMark
<1>22. ASSUME NEW p \in Proc, SeedFails(p) PROVE LockInv'
  BY <1>22 DEF SeedFails
<1>23. ASSUME NEW p \in Proc, FoldCommit(p) PROVE LockInv'
  BY <1>23 DEF FoldCommit
<1>24. ASSUME NEW p \in Proc, FoldRefused(p) PROVE LockInv'
  BY <1>24 DEF FoldRefused
<1>25. ASSUME NEW p \in Proc, Commit(p) PROVE LockInv'
  BY <1>25 DEF Commit
<1>26. ASSUME NEW p \in Proc, DiffFiles(p) PROVE LockInv'
  BY <1>26 DEF DiffFiles
<1>27. ASSUME NEW p \in Proc, DiffUnreadable(p) PROVE LockInv'
  BY <1>27 DEF DiffUnreadable
<1>28. ASSUME NEW p \in Proc, ReadFails(p) PROVE LockInv'
  BY <1>28 DEF ReadFails
<1>29. ASSUME NEW p \in Proc, Others(p) PROVE LockInv'
  BY <1>29 DEF Others
<1>30. ASSUME NEW p \in Proc, Recheck(p) PROVE LockInv'
  BY <1>30 DEF Recheck
<1>31. ASSUME NEW p \in Proc, Publish(p) PROVE LockInv'
  BY <1>31 DEF Publish
<1>32. ASSUME NEW p \in Proc, Crash(p) PROVE LockInv'
  BY <1>32 DEF Crash
<1>33. ASSUME NEW q \in Path, Edit(q) PROVE LockInv'
  BY <1>33 DEF Edit
<1>34. CASE OrphanFinishes
  BY <1>34 DEF OrphanFinishes
<1>35. CASE TearIndex \/ DeleteCache \/ GarbleLedger
  BY <1>35 DEF TearIndex, DeleteCache, GarbleLedger
<1>36. CASE UNCHANGED vars
  BY <1>36 DEF vars
<1>. HIDE DEF TypeOK, LockInv, shared, local, scratch, Goto, Forget, ScanEnds, ScanAgain, MarkerReplaced, LedgerReplaced, Steps,
         Idle, Opening, Scanning, Seeding
<1>37. ASSUME NEW p \in Proc, Process(p) PROVE LockInv'
  BY <1>37, <1>1, <1>2, <1>3, <1>4, <1>5, <1>6, <1>7, <1>8, <1>9, <1>10, <1>11, <1>12, <1>13, <1>14, <1>15, <1>16, <1>17, <1>18, <1>19, <1>20, <1>21, <1>22, <1>23, <1>24, <1>25, <1>26, <1>27, <1>28, <1>29, <1>30, <1>31, <1>32, Zenon
     DEF Process, Step, Open, Sync, Ensure, Check, Seed, Scan
<1>. QED
  BY <1>33, <1>34, <1>35, <1>36, <1>37, Zenon DEF Next

\* A process in a scan, or in a seed it makes for one, has begun an attempt.
LEMMA AttemptStep ==
  ASSUME TypeOK, AttemptInv, [Next]_vars
  PROVE  AttemptInv'
<1>. USE AttemptsAssumption DEF TypeOK, AttemptInv, shared, local, scratch, Goto, Forget, ScanEnds, ScanAgain, MarkerReplaced, LedgerReplaced, Steps,
         Idle, Opening, Scanning, Seeding
<1>1. ASSUME NEW p \in Proc, OpenLoad(p) PROVE AttemptInv'
  BY <1>1 DEF OpenLoad
<1>2. ASSUME NEW p \in Proc, OpenRepair(p) PROVE AttemptInv'
  BY <1>2 DEF OpenRepair
<1>3. ASSUME NEW p \in Proc, OpenStamp(p) PROVE AttemptInv'
  BY <1>3 DEF OpenStamp
<1>4. ASSUME NEW p \in Proc, LockBusy(p) PROVE AttemptInv'
  BY <1>4 DEF LockBusy
<1>5. ASSUME NEW p \in Proc, BeginScan(p) PROVE AttemptInv'
  BY <1>5 DEF BeginScan
<1>6. ASSUME NEW p \in Proc, Reload(p) PROVE AttemptInv'
  BY <1>6 DEF Reload
<1>7. ASSUME NEW p \in Proc, SyncNothing(p) PROVE AttemptInv'
  BY <1>7 DEF SyncNothing
<1>8. ASSUME NEW p \in Proc, SyncAdopt(p) PROVE AttemptInv'
  BY <1>8 DEF SyncAdopt
<1>9. ASSUME NEW p \in Proc, SyncSwitch(p) PROVE AttemptInv'
  BY <1>9 DEF SyncSwitch
<1>10. ASSUME NEW p \in Proc, SyncStamp(p) PROVE AttemptInv'
  BY <1>10 DEF SyncStamp
<1>11. ASSUME NEW p \in Proc, TrimNothing(p) PROVE AttemptInv'
  BY <1>11 DEF TrimNothing
<1>12. ASSUME NEW p \in Proc, EnsureIdentity(p) PROVE AttemptInv'
  BY <1>12 DEF EnsureIdentity
<1>13. ASSUME NEW p \in Proc, EnsureContent(p) PROVE AttemptInv'
  BY <1>13 DEF EnsureContent
<1>14. ASSUME NEW p \in Proc, EnsureLocked(p) PROVE AttemptInv'
  BY <1>14 DEF EnsureLocked
<1>15. ASSUME NEW p \in Proc, Reseed(p) PROVE AttemptInv'
  BY <1>15 DEF Reseed
<1>16. ASSUME NEW p \in Proc, SeedCheck(p) PROVE AttemptInv'
  BY <1>16 DEF SeedCheck
<1>17. ASSUME NEW p \in Proc, SeedMoved(p) PROVE AttemptInv'
  BY <1>17 DEF SeedMoved
<1>18. ASSUME NEW p \in Proc, SeedUnreadable(p) PROVE AttemptInv'
  BY <1>18 DEF SeedUnreadable
<1>19. ASSUME NEW p \in Proc, SeedRemove(p) PROVE AttemptInv'
  BY <1>19 DEF SeedRemove
<1>20. ASSUME NEW p \in Proc, SeedReadTree(p) PROVE AttemptInv'
  BY <1>20 DEF SeedReadTree
<1>21. ASSUME NEW p \in Proc, SeedMark(p) PROVE AttemptInv'
  BY <1>21 DEF SeedMark
<1>22. ASSUME NEW p \in Proc, SeedFails(p) PROVE AttemptInv'
  BY <1>22 DEF SeedFails
<1>23. ASSUME NEW p \in Proc, FoldCommit(p) PROVE AttemptInv'
  BY <1>23 DEF FoldCommit
<1>24. ASSUME NEW p \in Proc, FoldRefused(p) PROVE AttemptInv'
  BY <1>24 DEF FoldRefused
<1>25. ASSUME NEW p \in Proc, Commit(p) PROVE AttemptInv'
  BY <1>25 DEF Commit
<1>26. ASSUME NEW p \in Proc, DiffFiles(p) PROVE AttemptInv'
  BY <1>26 DEF DiffFiles
<1>27. ASSUME NEW p \in Proc, DiffUnreadable(p) PROVE AttemptInv'
  BY <1>27 DEF DiffUnreadable
<1>28. ASSUME NEW p \in Proc, ReadFails(p) PROVE AttemptInv'
  BY <1>28 DEF ReadFails
<1>29. ASSUME NEW p \in Proc, Others(p) PROVE AttemptInv'
  BY <1>29 DEF Others
<1>30. ASSUME NEW p \in Proc, Recheck(p) PROVE AttemptInv'
  BY <1>30 DEF Recheck
<1>31. ASSUME NEW p \in Proc, Publish(p) PROVE AttemptInv'
  BY <1>31 DEF Publish
<1>32. ASSUME NEW p \in Proc, Crash(p) PROVE AttemptInv'
  BY <1>32 DEF Crash
<1>33. ASSUME NEW q \in Path, Edit(q) PROVE AttemptInv'
  BY <1>33 DEF Edit
<1>34. CASE OrphanFinishes
  BY <1>34 DEF OrphanFinishes
<1>35. CASE TearIndex \/ DeleteCache \/ GarbleLedger
  BY <1>35 DEF TearIndex, DeleteCache, GarbleLedger
<1>36. CASE UNCHANGED vars
  BY <1>36 DEF vars
<1>. HIDE DEF TypeOK, AttemptInv, shared, local, scratch, Goto, Forget, ScanEnds, ScanAgain, MarkerReplaced, LedgerReplaced, Steps,
         Idle, Opening, Scanning, Seeding
<1>37. ASSUME NEW p \in Proc, Process(p) PROVE AttemptInv'
  BY <1>37, <1>1, <1>2, <1>3, <1>4, <1>5, <1>6, <1>7, <1>8, <1>9, <1>10, <1>11, <1>12, <1>13, <1>14, <1>15, <1>16, <1>17, <1>18, <1>19, <1>20, <1>21, <1>22, <1>23, <1>24, <1>25, <1>26, <1>27, <1>28, <1>29, <1>30, <1>31, <1>32, Zenon
     DEF Process, Step, Open, Sync, Ensure, Check, Seed, Scan
<1>. QED
  BY <1>33, <1>34, <1>35, <1>36, <1>37, Zenon DEF Next

\* Nobody but the process in the seed moves the tree ledger.json names.
LEMMA DiskStep ==
  ASSUME TypeOK, LockInv, SeedFollowsDisk, [Next]_vars
  PROVE  SeedFollowsDisk'
<1>. USE ProcAssumption, NamesAssumption DEF TypeOK, LockInv, SeedFollowsDisk, MaySeed, Readable, shared, local, scratch, Goto, Forget, ScanEnds, ScanAgain, MarkerReplaced, LedgerReplaced, Steps,
         Idle, Opening, Scanning, Seeding
<1>1. ASSUME NEW p \in Proc, OpenLoad(p) PROVE SeedFollowsDisk'
  BY <1>1 DEF OpenLoad
<1>2. ASSUME NEW p \in Proc, OpenRepair(p) PROVE SeedFollowsDisk'
  BY <1>2 DEF OpenRepair
<1>3. ASSUME NEW p \in Proc, OpenStamp(p) PROVE SeedFollowsDisk'
  BY <1>3 DEF OpenStamp
<1>4. ASSUME NEW p \in Proc, LockBusy(p) PROVE SeedFollowsDisk'
  BY <1>4 DEF LockBusy
<1>5. ASSUME NEW p \in Proc, BeginScan(p) PROVE SeedFollowsDisk'
  BY <1>5 DEF BeginScan
<1>6. ASSUME NEW p \in Proc, Reload(p) PROVE SeedFollowsDisk'
  BY <1>6 DEF Reload
<1>7. ASSUME NEW p \in Proc, SyncNothing(p) PROVE SeedFollowsDisk'
  BY <1>7 DEF SyncNothing
<1>8. ASSUME NEW p \in Proc, SyncAdopt(p) PROVE SeedFollowsDisk'
  BY <1>8 DEF SyncAdopt
<1>9. ASSUME NEW p \in Proc, SyncSwitch(p) PROVE SeedFollowsDisk'
  BY <1>9 DEF SyncSwitch
<1>10. ASSUME NEW p \in Proc, SyncStamp(p) PROVE SeedFollowsDisk'
  BY <1>10 DEF SyncStamp
<1>11. ASSUME NEW p \in Proc, TrimNothing(p) PROVE SeedFollowsDisk'
  BY <1>11 DEF TrimNothing
<1>12. ASSUME NEW p \in Proc, EnsureIdentity(p) PROVE SeedFollowsDisk'
  BY <1>12 DEF EnsureIdentity
<1>13. ASSUME NEW p \in Proc, EnsureContent(p) PROVE SeedFollowsDisk'
  BY <1>13 DEF EnsureContent
<1>14. ASSUME NEW p \in Proc, EnsureLocked(p) PROVE SeedFollowsDisk'
  BY <1>14 DEF EnsureLocked
<1>15. ASSUME NEW p \in Proc, Reseed(p) PROVE SeedFollowsDisk'
  BY <1>15 DEF Reseed
<1>16. ASSUME NEW p \in Proc, SeedCheck(p) PROVE SeedFollowsDisk'
  BY <1>16 DEF SeedCheck
<1>17. ASSUME NEW p \in Proc, SeedMoved(p) PROVE SeedFollowsDisk'
  BY <1>17 DEF SeedMoved
<1>18. ASSUME NEW p \in Proc, SeedUnreadable(p) PROVE SeedFollowsDisk'
  BY <1>18 DEF SeedUnreadable
<1>19. ASSUME NEW p \in Proc, SeedRemove(p) PROVE SeedFollowsDisk'
  BY <1>19 DEF SeedRemove
<1>20. ASSUME NEW p \in Proc, SeedReadTree(p) PROVE SeedFollowsDisk'
  BY <1>20 DEF SeedReadTree
<1>21. ASSUME NEW p \in Proc, SeedMark(p) PROVE SeedFollowsDisk'
  BY <1>21 DEF SeedMark
<1>22. ASSUME NEW p \in Proc, SeedFails(p) PROVE SeedFollowsDisk'
  BY <1>22 DEF SeedFails
<1>23. ASSUME NEW p \in Proc, FoldCommit(p) PROVE SeedFollowsDisk'
  BY <1>23 DEF FoldCommit
<1>24. ASSUME NEW p \in Proc, FoldRefused(p) PROVE SeedFollowsDisk'
  BY <1>24 DEF FoldRefused
<1>25. ASSUME NEW p \in Proc, Commit(p) PROVE SeedFollowsDisk'
  BY <1>25 DEF Commit
<1>26. ASSUME NEW p \in Proc, DiffFiles(p) PROVE SeedFollowsDisk'
  BY <1>26 DEF DiffFiles
<1>27. ASSUME NEW p \in Proc, DiffUnreadable(p) PROVE SeedFollowsDisk'
  BY <1>27 DEF DiffUnreadable
<1>28. ASSUME NEW p \in Proc, ReadFails(p) PROVE SeedFollowsDisk'
  BY <1>28 DEF ReadFails
<1>29. ASSUME NEW p \in Proc, Others(p) PROVE SeedFollowsDisk'
  BY <1>29 DEF Others
<1>30. ASSUME NEW p \in Proc, Recheck(p) PROVE SeedFollowsDisk'
  BY <1>30 DEF Recheck
<1>31. ASSUME NEW p \in Proc, Publish(p) PROVE SeedFollowsDisk'
  BY <1>31 DEF Publish
<1>32. ASSUME NEW p \in Proc, Crash(p) PROVE SeedFollowsDisk'
  BY <1>32 DEF Crash
<1>33. ASSUME NEW q \in Path, Edit(q) PROVE SeedFollowsDisk'
  BY <1>33 DEF Edit
<1>34. CASE OrphanFinishes
  BY <1>34 DEF OrphanFinishes
<1>35. CASE TearIndex \/ DeleteCache \/ GarbleLedger
  BY <1>35 DEF TearIndex, DeleteCache, GarbleLedger
<1>36. CASE UNCHANGED vars
  BY <1>36 DEF vars
<1>. HIDE DEF TypeOK, LockInv, SeedFollowsDisk, MaySeed, Readable, shared, local, scratch, Goto, Forget, ScanEnds, ScanAgain, MarkerReplaced, LedgerReplaced, Steps,
         Idle, Opening, Scanning, Seeding
<1>37. ASSUME NEW p \in Proc, Process(p) PROVE SeedFollowsDisk'
  BY <1>37, <1>1, <1>2, <1>3, <1>4, <1>5, <1>6, <1>7, <1>8, <1>9, <1>10, <1>11, <1>12, <1>13, <1>14, <1>15, <1>16, <1>17, <1>18, <1>19, <1>20, <1>21, <1>22, <1>23, <1>24, <1>25, <1>26, <1>27, <1>28, <1>29, <1>30, <1>31, <1>32, Zenon
     DEF Process, Step, Open, Sync, Ensure, Check, Seed, Scan
<1>. QED
  BY <1>33, <1>34, <1>35, <1>36, <1>37, Zenon DEF Next

\* The git child of a killed process writes the index before another process
\* has read its own tree into it, or writes that same tree: not between a
\* later read-tree and its marker, and not under a marker that names another.
OrphansKeepApart ==
    OrphanFinishes =>
        /\ marker # Nil => index' = marker
        /\ \A p \in Proc : pc[p] = "mark" => index' = tree[p]

\* The two facts about the seed that only such a child can break.
Sealed == SeedInv /\ MarkerIsTrue

LEMMA SeedStep ==
  ASSUME TypeOK, LockInv, Sealed, [Next]_vars, [OrphansKeepApart]_vars
  PROVE  Sealed'
<1>. USE ProcAssumption, NamesAssumption DEF TypeOK, LockInv, Sealed, SeedInv, MarkerIsTrue, SeenTree, shared, local, scratch, Goto, Forget, ScanEnds, ScanAgain, MarkerReplaced, LedgerReplaced, Steps,
         Idle, Opening, Scanning, Seeding
<1>1. ASSUME NEW p \in Proc, OpenLoad(p) PROVE Sealed'
  BY <1>1 DEF OpenLoad
<1>2. ASSUME NEW p \in Proc, OpenRepair(p) PROVE Sealed'
  BY <1>2 DEF OpenRepair
<1>3. ASSUME NEW p \in Proc, OpenStamp(p) PROVE Sealed'
  BY <1>3 DEF OpenStamp
<1>4. ASSUME NEW p \in Proc, LockBusy(p) PROVE Sealed'
  BY <1>4 DEF LockBusy
<1>5. ASSUME NEW p \in Proc, BeginScan(p) PROVE Sealed'
  BY <1>5 DEF BeginScan
<1>6. ASSUME NEW p \in Proc, Reload(p) PROVE Sealed'
  BY <1>6 DEF Reload
<1>7. ASSUME NEW p \in Proc, SyncNothing(p) PROVE Sealed'
  BY <1>7 DEF SyncNothing
<1>8. ASSUME NEW p \in Proc, SyncAdopt(p) PROVE Sealed'
  BY <1>8 DEF SyncAdopt
<1>9. ASSUME NEW p \in Proc, SyncSwitch(p) PROVE Sealed'
  BY <1>9 DEF SyncSwitch
<1>10. ASSUME NEW p \in Proc, SyncStamp(p) PROVE Sealed'
  BY <1>10 DEF SyncStamp
<1>11. ASSUME NEW p \in Proc, TrimNothing(p) PROVE Sealed'
  BY <1>11 DEF TrimNothing
<1>12. ASSUME NEW p \in Proc, EnsureIdentity(p) PROVE Sealed'
  BY <1>12 DEF EnsureIdentity
<1>13. ASSUME NEW p \in Proc, EnsureContent(p) PROVE Sealed'
  BY <1>13 DEF EnsureContent
<1>14. ASSUME NEW p \in Proc, EnsureLocked(p) PROVE Sealed'
  BY <1>14 DEF EnsureLocked
<1>15. ASSUME NEW p \in Proc, Reseed(p) PROVE Sealed'
  BY <1>15 DEF Reseed
<1>16. ASSUME NEW p \in Proc, SeedCheck(p) PROVE Sealed'
  BY <1>16 DEF SeedCheck
<1>17. ASSUME NEW p \in Proc, SeedMoved(p) PROVE Sealed'
  BY <1>17 DEF SeedMoved
<1>18. ASSUME NEW p \in Proc, SeedUnreadable(p) PROVE Sealed'
  BY <1>18 DEF SeedUnreadable
<1>19. ASSUME NEW p \in Proc, SeedRemove(p) PROVE Sealed'
  BY <1>19 DEF SeedRemove
<1>20. ASSUME NEW p \in Proc, SeedReadTree(p) PROVE Sealed'
  BY <1>20 DEF SeedReadTree
<1>21. ASSUME NEW p \in Proc, SeedMark(p) PROVE Sealed'
  BY <1>21 DEF SeedMark
<1>22. ASSUME NEW p \in Proc, SeedFails(p) PROVE Sealed'
  BY <1>22 DEF SeedFails
<1>23. ASSUME NEW p \in Proc, FoldCommit(p) PROVE Sealed'
  BY <1>23 DEF FoldCommit
<1>24. ASSUME NEW p \in Proc, FoldRefused(p) PROVE Sealed'
  BY <1>24 DEF FoldRefused
<1>25. ASSUME NEW p \in Proc, Commit(p) PROVE Sealed'
  BY <1>25 DEF Commit
<1>26. ASSUME NEW p \in Proc, DiffFiles(p) PROVE Sealed'
  BY <1>26 DEF DiffFiles
<1>27. ASSUME NEW p \in Proc, DiffUnreadable(p) PROVE Sealed'
  BY <1>27 DEF DiffUnreadable
<1>28. ASSUME NEW p \in Proc, ReadFails(p) PROVE Sealed'
  BY <1>28 DEF ReadFails
<1>29. ASSUME NEW p \in Proc, Others(p) PROVE Sealed'
  BY <1>29 DEF Others
<1>30. ASSUME NEW p \in Proc, Recheck(p) PROVE Sealed'
  BY <1>30 DEF Recheck
<1>31. ASSUME NEW p \in Proc, Publish(p) PROVE Sealed'
  BY <1>31 DEF Publish
<1>32. ASSUME NEW p \in Proc, Crash(p) PROVE Sealed'
  BY <1>32 DEF Crash
<1>33. ASSUME NEW q \in Path, Edit(q) PROVE Sealed'
  BY <1>33 DEF Edit
<1>34. CASE OrphanFinishes
  <2>1. CASE OrphansKeepApart
    BY <1>34, <2>1 DEF OrphanFinishes, OrphansKeepApart
  <2>2. CASE UNCHANGED vars
    BY <2>2 DEF vars
  <2>. QED
    BY <2>1, <2>2
<1>35. CASE TearIndex \/ DeleteCache \/ GarbleLedger
  BY <1>35 DEF TearIndex, DeleteCache, GarbleLedger
<1>36. CASE UNCHANGED vars
  BY <1>36 DEF vars
<1>. HIDE DEF TypeOK, LockInv, Sealed, SeedInv, MarkerIsTrue, SeenTree, shared, local, scratch, Goto, Forget, ScanEnds, ScanAgain, MarkerReplaced, LedgerReplaced, Steps,
         Idle, Opening, Scanning, Seeding
<1>37. ASSUME NEW p \in Proc, Process(p) PROVE Sealed'
  BY <1>37, <1>1, <1>2, <1>3, <1>4, <1>5, <1>6, <1>7, <1>8, <1>9, <1>10, <1>11, <1>12, <1>13, <1>14, <1>15, <1>16, <1>17, <1>18, <1>19, <1>20, <1>21, <1>22, <1>23, <1>24, <1>25, <1>26, <1>27, <1>28, <1>29, <1>30, <1>31, <1>32, Zenon
     DEF Process, Step, Open, Sync, Ensure, Check, Seed, Scan
<1>. QED
  BY <1>33, <1>34, <1>35, <1>36, <1>37, Zenon DEF Next

-----------------------------------------------------------------------------
(* The listings of a scan.                                                 *)

\* What the listings of one scan owe, as one predicate of its process.
ListOK(r) ==
    /\ pc[r] \in {"diff", "rediff", "others", "recheck"} /\ seen[r] = "current" =>
           marker = tree[r]
    /\ seen[r] = "current" =>
           /\ pc[r] \in {"others", "recheck"} => DiffListing(tree[r]) \ touched[r] \subseteq listed[r]
           /\ pc[r] = "recheck" => OthersListing(tree[r]) \ touched[r] \subseteq listed[r]
    /\ pc[r] = "listed" /\ ~partial[r] =>
           \A q \in Path \ touched[r] : Pending(tree[r], q) => q \in listed[r]

\* What a step of p leaves of another process's scan.
Untouched(r) ==
    /\ UNCHANGED <<worktree, pc[r], tree[r], resume[r], attempt[r], listed[r], touched[r], partial[r]>>
    /\ seen'[r] = "current" => seen[r] = "current" /\ marker' = marker

LEMMA ListOKAll == (SeenInv /\ ListedInv /\ NoPendingPathHidden) <=> \A r \in Proc : ListOK(r)
  BY DEF SeenInv, ListedInv, NoPendingPathHidden, ListOK

LEMMA UntouchedListOK ==
  ASSUME NEW r \in Proc, ListOK(r), Untouched(r)
  PROVE  ListOK(r)'
  BY DEF ListOK, Untouched, DiffListing, OthersListing, Pending, At

LEMMA AwayListOK ==
  ASSUME NEW r \in Proc, pc'[r] \notin {"diff", "rediff", "others", "recheck", "listed"}
  PROVE  ListOK(r)'
  BY DEF ListOK

\* A step of p is invisible to the scan of r, or replaces the marker.
LEMMA StepElsewhere ==
  ASSUME TypeOK, NEW p \in Proc, NEW r \in Proc \ {p}, Process(p)
  PROVE  Untouched(r)
<1>. USE DEF TypeOK, Untouched, shared, local, scratch, Goto, Forget, ScanEnds, ScanAgain, MarkerReplaced, LedgerReplaced
<1>1. CASE OpenLoad(p)
  BY <1>1 DEF OpenLoad
<1>2. CASE OpenRepair(p)
  BY <1>2 DEF OpenRepair
<1>3. CASE OpenStamp(p)
  BY <1>3 DEF OpenStamp
<1>4. CASE LockBusy(p)
  BY <1>4 DEF LockBusy
<1>5. CASE BeginScan(p)
  BY <1>5 DEF BeginScan
<1>6. CASE Reload(p)
  BY <1>6 DEF Reload
<1>7. CASE SyncNothing(p)
  BY <1>7 DEF SyncNothing
<1>8. CASE SyncAdopt(p)
  BY <1>8 DEF SyncAdopt
<1>9. CASE SyncSwitch(p)
  BY <1>9 DEF SyncSwitch
<1>10. CASE SyncStamp(p)
  BY <1>10 DEF SyncStamp
<1>11. CASE TrimNothing(p)
  BY <1>11 DEF TrimNothing
<1>12. CASE EnsureIdentity(p)
  BY <1>12 DEF EnsureIdentity, MarkerId
<1>13. CASE EnsureContent(p)
  BY <1>13 DEF EnsureContent
<1>14. CASE EnsureLocked(p)
  BY <1>14 DEF EnsureLocked, MarkerId
<1>15. CASE Reseed(p)
  BY <1>15 DEF Reseed
<1>16. CASE SeedCheck(p)
  BY <1>16 DEF SeedCheck
<1>17. CASE SeedMoved(p)
  BY <1>17 DEF SeedMoved
<1>18. CASE SeedUnreadable(p)
  BY <1>18 DEF SeedUnreadable
<1>19. CASE SeedRemove(p)
  BY <1>19 DEF SeedRemove
<1>20. CASE SeedReadTree(p)
  BY <1>20 DEF SeedReadTree
<1>21. CASE SeedMark(p)
  BY <1>21 DEF SeedMark
<1>22. CASE SeedFails(p)
  BY <1>22 DEF SeedFails
<1>23. CASE FoldCommit(p)
  BY <1>23 DEF FoldCommit
<1>24. CASE FoldRefused(p)
  BY <1>24 DEF FoldRefused
<1>25. CASE Commit(p)
  BY <1>25 DEF Commit
<1>26. CASE DiffFiles(p)
  BY <1>26 DEF DiffFiles
<1>27. CASE DiffUnreadable(p)
  BY <1>27 DEF DiffUnreadable
<1>28. CASE ReadFails(p)
  BY <1>28 DEF ReadFails
<1>29. CASE Others(p)
  BY <1>29 DEF Others
<1>30. CASE Recheck(p)
  BY <1>30 DEF Recheck
<1>31. CASE Publish(p)
  BY <1>31 DEF Publish
<1>32. CASE Crash(p)
  BY <1>32 DEF Crash
<1>. HIDE DEF TypeOK, Untouched, shared, local, scratch, Goto, Forget, ScanEnds, ScanAgain, MarkerReplaced, LedgerReplaced
<1>. QED
  BY <1>1, <1>2, <1>3, <1>4, <1>5, <1>6, <1>7, <1>8, <1>9, <1>10, <1>11, <1>12, <1>13, <1>14, <1>15, <1>16, <1>17, <1>18, <1>19, <1>20, <1>21, <1>22, <1>23, <1>24, <1>25, <1>26, <1>27, <1>28, <1>29, <1>30, <1>31, <1>32, Zenon
     DEF Process, Step, Open, Sync, Ensure, Check, Seed, Scan

\* A step of p keeps what p's own scan owes.
LEMMA StepOwn ==
  ASSUME TypeOK, MarkerIsTrue, NEW p \in Proc, ListOK(p), Process(p)
  PROVE  ListOK(p)'
<1>. USE DEF TypeOK, shared, local, scratch, Goto, Forget, ScanEnds, ScanAgain, MarkerReplaced, LedgerReplaced
<1>1. CASE OpenLoad(p)
  BY <1>1, AwayListOK DEF OpenLoad
<1>2. CASE OpenRepair(p)
  BY <1>2, AwayListOK DEF OpenRepair
<1>3. CASE OpenStamp(p)
  BY <1>3, AwayListOK DEF OpenStamp
<1>4. CASE LockBusy(p)
  BY <1>4, AwayListOK DEF LockBusy
<1>5. CASE BeginScan(p)
  BY <1>5, AwayListOK DEF BeginScan
<1>6. CASE Reload(p)
  BY <1>6, AwayListOK DEF Reload
<1>7. CASE SyncNothing(p)
  BY <1>7, AwayListOK DEF SyncNothing
<1>8. CASE SyncAdopt(p)
  BY <1>8, AwayListOK DEF SyncAdopt
<1>9. CASE SyncSwitch(p)
  BY <1>9, AwayListOK DEF SyncSwitch
<1>10. CASE SyncStamp(p)
  BY <1>10, AwayListOK DEF SyncStamp
<1>11. CASE TrimNothing(p)
  BY <1>11, AwayListOK DEF TrimNothing
<1>12. CASE EnsureIdentity(p)
  BY <1>12, AwayListOK DEF EnsureIdentity
<1>13. CASE EnsureContent(p)
  <2>1. CASE seen[p] # "none" /\ IsFresh(tree[p])
    <3>1. /\ marker = tree[p]
          /\ pc'[p] = "diff"
          /\ UNCHANGED <<marker, tree>>
      BY <1>13, <2>1 DEF EnsureContent, IsFresh
    <3>. QED
      BY <3>1 DEF ListOK
  <2>2. CASE ~(seen[p] # "none" /\ IsFresh(tree[p]))
    BY <1>13, <2>2, AwayListOK DEF EnsureContent
  <2>. QED
    BY <2>1, <2>2
<1>14. CASE EnsureLocked(p)
  <2>1. CASE marker # Nil /\ IsFresh(tree[p])
    <3>1. /\ marker = tree[p]
          /\ pc'[p] = "diff"
          /\ UNCHANGED <<marker, tree>>
      BY <1>14, <2>1 DEF EnsureLocked, IsFresh
    <3>. QED
      BY <3>1 DEF ListOK
  <2>2. CASE ~(marker # Nil /\ IsFresh(tree[p]))
    BY <1>14, <2>2, AwayListOK DEF EnsureLocked
  <2>. QED
    BY <2>1, <2>2
<1>15. CASE Reseed(p)
  BY <1>15, AwayListOK DEF Reseed
<1>16. CASE SeedCheck(p)
  BY <1>16, AwayListOK DEF SeedCheck
<1>17. CASE SeedMoved(p)
  BY <1>17, AwayListOK DEF SeedMoved
<1>18. CASE SeedUnreadable(p)
  BY <1>18, AwayListOK DEF SeedUnreadable
<1>19. CASE SeedRemove(p)
  BY <1>19, AwayListOK DEF SeedRemove
<1>20. CASE SeedReadTree(p)
  BY <1>20, AwayListOK DEF SeedReadTree
<1>21. CASE SeedMark(p)
  <2>1. /\ marker' = tree'[p]
        /\ pc'[p] \in {"idle", "ensure", "diff", "rediff"}
    BY <1>21 DEF SeedMark
  <2>. QED
    BY <2>1 DEF ListOK
<1>22. CASE SeedFails(p)
  <2>1. resume[p] \in {"idle", "ensure", "diff", "rediff"}
    OBVIOUS
  <2>. QED
    BY <1>22, <2>1, AwayListOK DEF SeedFails
<1>23. CASE FoldCommit(p)
  BY <1>23, AwayListOK DEF FoldCommit
<1>24. CASE FoldRefused(p)
  BY <1>24, AwayListOK DEF FoldRefused
<1>25. CASE Commit(p)
  BY <1>25, AwayListOK DEF Commit
<1>26. CASE DiffFiles(p)
  <2>1. /\ pc[p] \in {"diff", "rediff"}
        /\ index # Torn
        /\ listed'[p] = DiffListing(index)
        /\ pc'[p] = "others"
        /\ UNCHANGED <<marker, worktree, tree, seen, touched>>
    BY <1>26 DEF DiffFiles
  <2>2. CASE seen[p] = "current"
    <3>1. marker = tree[p] /\ index = tree[p]
      BY <2>1, <2>2, NamesAssumption DEF ListOK, MarkerIsTrue, SeenTree
    <3>2. (DiffListing(tree[p]) \ touched[p] \subseteq listed[p])'
      BY <2>1, <3>1 DEF DiffListing, At
    <3>. QED
      BY <2>1, <3>1, <3>2 DEF ListOK
  <2>3. CASE seen[p] # "current"
    BY <2>1, <2>3 DEF ListOK
  <2>. QED
    BY <2>2, <2>3
<1>27. CASE DiffUnreadable(p)
  BY <1>27, AwayListOK DEF DiffUnreadable
<1>28. CASE ReadFails(p)
  BY <1>28, AwayListOK DEF ReadFails
<1>29. CASE Others(p)
  <2>1. /\ pc[p] = "others"
        /\ index # Torn
        /\ listed'[p] = listed[p] \cup OthersListing(index)
        /\ pc'[p] = "recheck"
        /\ UNCHANGED <<marker, worktree, tree, seen, touched>>
    BY <1>29 DEF Others
  <2>2. CASE seen[p] = "current"
    <3>1. marker = tree[p] /\ index = tree[p]
      BY <2>1, <2>2, NamesAssumption DEF ListOK, MarkerIsTrue, SeenTree
    <3>2. (DiffListing(tree[p]) \ touched[p] \subseteq listed[p])'
      BY <2>1, <2>2 DEF ListOK, DiffListing, At
    <3>3. (OthersListing(tree[p]) \ touched[p] \subseteq listed[p])'
      BY <2>1, <3>1 DEF OthersListing, At
    <3>. QED
      BY <2>1, <3>1, <3>2, <3>3 DEF ListOK
  <2>3. CASE seen[p] # "current"
    BY <2>1, <2>3 DEF ListOK
  <2>. QED
    BY <2>2, <2>3
<1>30. CASE Recheck(p)
  <2>1. CASE SameMarker(p)
    <3>1. /\ pc[p] = "recheck"
          /\ seen[p] = "current"
          /\ pc'[p] = "listed"
          /\ UNCHANGED <<worktree, tree, touched, listed>>
      BY <1>30, <2>1 DEF Recheck, SameMarker
    <3>2. \A q \in Path : Pending(tree[p], q) =>
              q \in DiffListing(tree[p]) \cup OthersListing(tree[p])
      BY DEF Pending, DiffListing, OthersListing
    <3>3. (\A q \in Path \ touched[p] : Pending(tree[p], q) => q \in listed[p])'
      BY <3>1, <3>2 DEF ListOK, Pending, At
    <3>. QED
      BY <3>1, <3>3 DEF ListOK
  <2>2. CASE ~SameMarker(p) /\ CanRepeat(p) /\ ScanAgain(p)
    BY <2>2, AwayListOK
  <2>3. CASE ~SameMarker(p) /\ ~CanRepeat(p)
    <3>1. pc'[p] = "listed" /\ partial'[p]
      BY <1>30, <2>3 DEF Recheck
    <3>. QED
      BY <3>1 DEF ListOK
  <2>. QED
    BY <1>30, <2>1, <2>2, <2>3 DEF Recheck
<1>31. CASE Publish(p)
  BY <1>31, AwayListOK DEF Publish
<1>32. CASE Crash(p)
  BY <1>32, AwayListOK DEF Crash
<1>. HIDE DEF TypeOK, shared, local, scratch, Goto, Forget, ScanEnds, ScanAgain, MarkerReplaced, LedgerReplaced
<1>. QED
  BY <1>1, <1>2, <1>3, <1>4, <1>5, <1>6, <1>7, <1>8, <1>9, <1>10, <1>11, <1>12, <1>13, <1>14, <1>15, <1>16, <1>17, <1>18, <1>19, <1>20, <1>21, <1>22, <1>23, <1>24, <1>25, <1>26, <1>27, <1>28, <1>29, <1>30, <1>31, <1>32, Zenon
     DEF Process, Step, Open, Sync, Ensure, Check, Seed, Scan

LEMMA EditListOK ==
  ASSUME TypeOK, AttemptInv, NEW r \in Proc, ListOK(r), NEW q \in Path, Edit(q)
  PROVE  ListOK(r)'
<1>1. /\ UNCHANGED <<marker, tree, pc, seen, listed, partial>>
      /\ touched'[r] = IF attempt[r] = 0 THEN {} ELSE touched[r] \cup {q}
      /\ \A x \in Path \ {q} : worktree'[x] = worktree[x]
  BY DEF Edit, TypeOK
<1>2. CASE pc[r] \in {"diff", "rediff", "others", "recheck", "listed"}
  <2>1. touched'[r] = touched[r] \cup {q}
    BY <1>1, <1>2 DEF AttemptInv, Scanning
  <2>2. /\ DiffListing(tree[r])' \ touched'[r] \subseteq DiffListing(tree[r]) \ touched[r]
        /\ OthersListing(tree[r])' \ touched'[r] \subseteq OthersListing(tree[r]) \ touched[r]
    BY <1>1, <2>1 DEF DiffListing, OthersListing, At
  <2>3. \A x \in Path \ touched'[r] : Pending(tree[r], x)' => Pending(tree[r], x)
    BY <1>1, <2>1 DEF Pending, At
  <2>. QED
    BY <1>1, <2>1, <2>2, <2>3 DEF ListOK
<1>3. CASE pc[r] \notin {"diff", "rediff", "others", "recheck", "listed"}
  BY <1>1, <1>3, AwayListOK
<1>. QED
  BY <1>2, <1>3

LEMMA ListStep ==
  ASSUME TypeOK, AttemptInv, MarkerIsTrue, NEW r \in Proc, ListOK(r), [Next]_vars
  PROVE  ListOK(r)'
<1>1. ASSUME NEW p \in Proc, Process(p) PROVE ListOK(r)'
  <2>1. CASE p = r
    BY <1>1, <2>1, StepOwn
  <2>2. CASE p # r
    BY <1>1, <2>2, StepElsewhere, UntouchedListOK
  <2>. QED
    BY <2>1, <2>2
<1>2. ASSUME NEW q \in Path, Edit(q) PROVE ListOK(r)'
  BY <1>2, EditListOK
<1>3. CASE OrphanFinishes \/ TearIndex \/ DeleteCache \/ GarbleLedger
  <2>1. Untouched(r)
    BY <1>3 DEF OrphanFinishes, TearIndex, DeleteCache, GarbleLedger, Untouched, MarkerReplaced, scratch, local, TypeOK
  <2>. QED
    BY <2>1, UntouchedListOK
<1>4. CASE UNCHANGED vars
  <2>1. Untouched(r)
    BY <1>4 DEF vars, shared, local, Untouched
  <2>. QED
    BY <2>1, UntouchedListOK
<1>. QED
  BY <1>1, <1>2, <1>3, <1>4, Zenon DEF Next

-----------------------------------------------------------------------------
(* The theorems.                                                           *)

LEMMA Initially == Init => IInv
<1>. SUFFICES ASSUME Init PROVE IInv
  OBVIOUS
<1>1. TypeOK
  BY TypeInit
<1>2. LockInv /\ SeedInv /\ AttemptInv /\ SeenInv /\ ListedInv
  BY ProcAssumption DEF Init, LockInv, SeedInv, AttemptInv, SeenInv, ListedInv, Scanning, Seeding
<1>3. MarkerIsTrue /\ NoPendingPathHidden /\ SeedFollowsDisk
  BY DEF Init, MarkerIsTrue, NoPendingPathHidden, SeedFollowsDisk
<1>. QED
  BY <1>1, <1>2, <1>3 DEF IInv, Init

LEMMA Inductive ==
  ASSUME IInv, [Next]_vars, [OrphansKeepApart]_vars
  PROVE  IInv'
<1>. USE DEF IInv
<1>1. TypeOK'
  BY TypeStep
<1>2. LockInv' /\ AttemptInv' /\ SeedFollowsDisk'
  BY LockStep, AttemptStep, DiskStep
<1>3. SeedInv' /\ MarkerIsTrue'
  BY SeedStep DEF Sealed
<1>4. SeenInv' /\ ListedInv' /\ NoPendingPathHidden'
  <2>1. \A r \in Proc : ListOK(r)
    BY ListOKAll
  <2>2. \A r \in Proc : ListOK(r)'
    BY <2>1, ListStep
  <2>. QED
    BY <2>2 DEF SeenInv, ListedInv, NoPendingPathHidden, ListOK
<1>. QED
  BY <1>1, <1>2, <1>3, <1>4

\* A seed writes the tree ledger.json names, or `null`, or there is no ledger:
\* seed_checked's look at the ledger stays true until the marker is written.
THEOREM SeedsFollowDisk == Spec => []SeedFollowsDisk
<1>1. Init => LockInv /\ SeedFollowsDisk
  BY ProcAssumption DEF Init, LockInv, SeedFollowsDisk, Seeding
<1>2. TypeOK /\ LockInv /\ SeedFollowsDisk /\ [Next]_vars => LockInv' /\ SeedFollowsDisk'
  BY LockStep, DiskStep
<1>. QED
  BY <1>1, <1>2, TypeCorrect, PTL DEF Spec

LEMMA NoOrphans ==
  ASSUME "orphan" \notin Faults
  PROVE  Spec => [][OrphansKeepApart]_vars
<1>. DEFINE NoneLeft == orphans = {}
<1>1. Init => NoneLeft
  BY DEF Init
<1>2. NoneLeft /\ [Next]_vars => NoneLeft'
  <2>. SUFFICES ASSUME orphans = {}, [Next]_vars PROVE orphans' = {}
    OBVIOUS
  <2>1. ASSUME NEW p \in Proc, Process(p) PROVE orphans' = {}
    <3>1. CASE Crash(p)
      BY <3>1 DEF Crash
    <3>2. CASE OpenLoad(p) \/ BeginScan(p) \/ FoldCommit(p) \/ FoldRefused(p) \/ Commit(p)
      BY <3>2 DEF OpenLoad, BeginScan, FoldCommit, FoldRefused, Commit, shared
    <3>3. CASE Step(p)
      BY <3>3 DEF Step, OpenRepair, OpenStamp, LockBusy, Reload, Sync, SyncNothing, SyncAdopt,
           SyncSwitch, SyncStamp, TrimNothing, Ensure, EnsureIdentity, EnsureContent,
           EnsureLocked, Reseed, Check, SeedCheck, SeedMoved, SeedUnreadable, Seed, SeedRemove,
           SeedReadTree, SeedMark, SeedFails, Scan, DiffFiles, DiffUnreadable, ReadFails, Others,
           Recheck, Publish, shared
    <3>. QED
      BY <2>1, <3>1, <3>2, <3>3 DEF Process
  <2>2. CASE (\E q \in Path : Edit(q)) \/ OrphanFinishes \/ TearIndex \/ DeleteCache \/ GarbleLedger
    BY <2>2 DEF Edit, OrphanFinishes, TearIndex, DeleteCache, GarbleLedger
  <2>3. CASE UNCHANGED vars
    BY <2>3 DEF vars, shared
  <2>. QED
    BY <2>1, <2>2, <2>3 DEF Next
<1>3. NoneLeft => [OrphansKeepApart]_vars
  BY DEF OrphansKeepApart, OrphanFinishes
<1>. HIDE DEF NoneLeft
<1>. QED
  BY <1>1, <1>2, <1>3, PTL DEF Spec

\* The conjunction the two theorems below follow from is an invariant of every
\* behaviour in which the git children that outlive their process keep apart.
THEOREM InvariantApart == Spec /\ [][OrphansKeepApart]_vars => []IInv
  BY Initially, Inductive, PTL DEF Spec

\* It is an invariant of every behaviour when a killed process takes its git
\* child with it, as in the run `safety`.
THEOREM Invariant ==
  ASSUME "orphan" \notin Faults
  PROVE  Spec => []IInv
  BY InvariantApart, NoOrphans, PTL

\* A marker never names a tree the index does not hold: seed's order (remove
\* the marker, read-tree, write the marker) under the lock is enough, whatever
\* crashes, tears, deletions and damaged ledgers come between.  The one thing
\* it does not survive is a left-over git child that does not keep apart.
THEOREM MarkersAreTrue ==
  /\ Spec /\ [][OrphansKeepApart]_vars => []MarkerIsTrue
  /\ "orphan" \notin Faults => (Spec => []MarkerIsTrue)
<1>1. IInv => MarkerIsTrue
  BY DEF IInv
<1>2. Spec /\ [][OrphansKeepApart]_vars => []MarkerIsTrue
  BY <1>1, InvariantApart, PTL
<1>3. ASSUME "orphan" \notin Faults PROVE Spec => []MarkerIsTrue
  BY <1>2, <1>3, NoOrphans, PTL
<1>. QED
  BY <1>2, <1>3

\* A pile without the "reseeded while" notice hides no path that was pending
\* under the scan's tree throughout the scan: ensure's order of reads and the
\* comparison of the marker's identity are enough for any number of processes.
THEOREM RowsAreNotHidden ==
  /\ Spec /\ [][OrphansKeepApart]_vars => []NoPendingPathHidden
  /\ "orphan" \notin Faults => (Spec => []NoPendingPathHidden)
<1>1. IInv => NoPendingPathHidden
  BY DEF IInv
<1>2. Spec /\ [][OrphansKeepApart]_vars => []NoPendingPathHidden
  BY <1>1, InvariantApart, PTL
<1>3. ASSUME "orphan" \notin Faults PROVE Spec => []NoPendingPathHidden
  BY <1>2, <1>3, NoOrphans, PTL
<1>. QED
  BY <1>2, <1>3

-----------------------------------------------------------------------------
(* A scan comes to an end, and so does a seed.                             *)

\* A scan is counted from its first step to its last, and nothing else is.
CountInv ==
    \A p \in Proc :
        /\ attempt[p] # 0 <=> pc[p] \in Scanning \/ (pc[p] \in Seeding /\ resume[p] # "idle")
        /\ pc[p] = "check" => resume[p] \in {"diff", "rediff"}

\* How far a step of scan_root_once is from the end of the body; a seed is so
\* much farther than the step its scan goes on with.
ScanLeft(step) ==
    CASE step = "scan"     -> 30
      [] step = "synced"   -> 29
      [] step = "switched" -> 28
      [] step = "trim"     -> 27
      [] step = "ensure"   -> 23
      [] step = "content"  -> 22
      [] step = "stale"    -> 21
      [] step = "diff"     -> 16
      [] step = "relock"   -> 15
      [] step = "rediff"   -> 10
      [] step = "others"   -> 9
      [] step = "recheck"  -> 8
      [] OTHER             -> 7

SeedLeft(step) ==
    CASE step = "check"    -> 4
      [] step = "remove"   -> 3
      [] step = "readtree" -> 2
      [] OTHER             -> 1

BodyLeft(p) == IF pc[p] \in Seeding THEN SeedLeft(pc[p]) + ScanLeft(resume[p])
                                    ELSE ScanLeft(pc[p])

\* The most steps the scan of p has left: a repeat costs an attempt.
StepsLeft(p) == 40 * (ScanAttempts - attempt[p]) + BodyLeft(p)

Nearer(p)   == attempt'[p] = 0 \/ StepsLeft(p)' < StepsLeft(p)
NoFarther(p) == attempt'[p] = 0 \/ StepsLeft(p)' = StepsLeft(p)

ScanNearsItsEnd ==
    \A p \in Proc :
        attempt[p] # 0 =>
            /\ StepsLeft(p) \in 1 .. 40 * ScanAttempts
            /\ Step(p) \/ FoldCommit(p) => Nearer(p)
            /\ Nearer(p) \/ NoFarther(p)

\* A scan is counted from its first step to its last.
LEMMA CountStep ==
  ASSUME TypeOK, CountInv, [Next]_vars
  PROVE  CountInv'
<1>. USE AttemptsAssumption DEF TypeOK, CountInv, shared, local, scratch, Goto, Forget, ScanEnds, ScanAgain, MarkerReplaced, LedgerReplaced, Steps,
         Idle, Opening, Scanning, Seeding
<1>1. ASSUME NEW p \in Proc, OpenLoad(p) PROVE CountInv'
  BY <1>1 DEF OpenLoad
<1>2. ASSUME NEW p \in Proc, OpenRepair(p) PROVE CountInv'
  BY <1>2 DEF OpenRepair
<1>3. ASSUME NEW p \in Proc, OpenStamp(p) PROVE CountInv'
  BY <1>3 DEF OpenStamp
<1>4. ASSUME NEW p \in Proc, LockBusy(p) PROVE CountInv'
  BY <1>4 DEF LockBusy
<1>5. ASSUME NEW p \in Proc, BeginScan(p) PROVE CountInv'
  BY <1>5 DEF BeginScan
<1>6. ASSUME NEW p \in Proc, Reload(p) PROVE CountInv'
  BY <1>6 DEF Reload
<1>7. ASSUME NEW p \in Proc, SyncNothing(p) PROVE CountInv'
  BY <1>7 DEF SyncNothing
<1>8. ASSUME NEW p \in Proc, SyncAdopt(p) PROVE CountInv'
  BY <1>8 DEF SyncAdopt
<1>9. ASSUME NEW p \in Proc, SyncSwitch(p) PROVE CountInv'
  BY <1>9 DEF SyncSwitch
<1>10. ASSUME NEW p \in Proc, SyncStamp(p) PROVE CountInv'
  BY <1>10 DEF SyncStamp
<1>11. ASSUME NEW p \in Proc, TrimNothing(p) PROVE CountInv'
  BY <1>11 DEF TrimNothing
<1>12. ASSUME NEW p \in Proc, EnsureIdentity(p) PROVE CountInv'
  BY <1>12 DEF EnsureIdentity
<1>13. ASSUME NEW p \in Proc, EnsureContent(p) PROVE CountInv'
  BY <1>13 DEF EnsureContent
<1>14. ASSUME NEW p \in Proc, EnsureLocked(p) PROVE CountInv'
  BY <1>14 DEF EnsureLocked
<1>15. ASSUME NEW p \in Proc, Reseed(p) PROVE CountInv'
  BY <1>15 DEF Reseed
<1>16. ASSUME NEW p \in Proc, SeedCheck(p) PROVE CountInv'
  BY <1>16 DEF SeedCheck
<1>17. ASSUME NEW p \in Proc, SeedMoved(p) PROVE CountInv'
  BY <1>17 DEF SeedMoved, CanRepeat
<1>18. ASSUME NEW p \in Proc, SeedUnreadable(p) PROVE CountInv'
  BY <1>18 DEF SeedUnreadable
<1>19. ASSUME NEW p \in Proc, SeedRemove(p) PROVE CountInv'
  BY <1>19 DEF SeedRemove
<1>20. ASSUME NEW p \in Proc, SeedReadTree(p) PROVE CountInv'
  BY <1>20 DEF SeedReadTree
<1>21. ASSUME NEW p \in Proc, SeedMark(p) PROVE CountInv'
  BY <1>21 DEF SeedMark
<1>22. ASSUME NEW p \in Proc, SeedFails(p) PROVE CountInv'
  BY <1>22 DEF SeedFails
<1>23. ASSUME NEW p \in Proc, FoldCommit(p) PROVE CountInv'
  BY <1>23 DEF FoldCommit
<1>24. ASSUME NEW p \in Proc, FoldRefused(p) PROVE CountInv'
  BY <1>24 DEF FoldRefused
<1>25. ASSUME NEW p \in Proc, Commit(p) PROVE CountInv'
  BY <1>25 DEF Commit
<1>26. ASSUME NEW p \in Proc, DiffFiles(p) PROVE CountInv'
  BY <1>26 DEF DiffFiles
<1>27. ASSUME NEW p \in Proc, DiffUnreadable(p) PROVE CountInv'
  BY <1>27 DEF DiffUnreadable
<1>28. ASSUME NEW p \in Proc, ReadFails(p) PROVE CountInv'
  BY <1>28 DEF ReadFails
<1>29. ASSUME NEW p \in Proc, Others(p) PROVE CountInv'
  BY <1>29 DEF Others
<1>30. ASSUME NEW p \in Proc, Recheck(p) PROVE CountInv'
  BY <1>30 DEF Recheck, CanRepeat
<1>31. ASSUME NEW p \in Proc, Publish(p) PROVE CountInv'
  BY <1>31 DEF Publish
<1>32. ASSUME NEW p \in Proc, Crash(p) PROVE CountInv'
  BY <1>32 DEF Crash
<1>33. ASSUME NEW q \in Path, Edit(q) PROVE CountInv'
  BY <1>33 DEF Edit
<1>34. CASE OrphanFinishes
  BY <1>34 DEF OrphanFinishes
<1>35. CASE TearIndex \/ DeleteCache \/ GarbleLedger
  BY <1>35 DEF TearIndex, DeleteCache, GarbleLedger
<1>36. CASE UNCHANGED vars
  BY <1>36 DEF vars
<1>. HIDE DEF TypeOK, CountInv, shared, local, scratch, Goto, Forget, ScanEnds, ScanAgain, MarkerReplaced, LedgerReplaced, Steps,
         Idle, Opening, Scanning, Seeding
<1>37. ASSUME NEW p \in Proc, Process(p) PROVE CountInv'
  BY <1>37, <1>1, <1>2, <1>3, <1>4, <1>5, <1>6, <1>7, <1>8, <1>9, <1>10, <1>11, <1>12, <1>13, <1>14, <1>15, <1>16, <1>17, <1>18, <1>19, <1>20, <1>21, <1>22, <1>23, <1>24, <1>25, <1>26, <1>27, <1>28, <1>29, <1>30, <1>31, <1>32, Zenon
     DEF Process, Step, Open, Sync, Ensure, Check, Seed, Scan
<1>. QED
  BY <1>33, <1>34, <1>35, <1>36, <1>37, Zenon DEF Next

LEMMA ScanLeftIs ==
  /\ ScanLeft("scan") = 30 /\ ScanLeft("synced") = 29 /\ ScanLeft("switched") = 28
  /\ ScanLeft("trim") = 27 /\ ScanLeft("ensure") = 23 /\ ScanLeft("content") = 22
  /\ ScanLeft("stale") = 21 /\ ScanLeft("diff") = 16 /\ ScanLeft("relock") = 15
  /\ ScanLeft("rediff") = 10 /\ ScanLeft("others") = 9 /\ ScanLeft("recheck") = 8
  /\ ScanLeft("listed") = 7
  BY DEF ScanLeft

LEMMA SeedLeftIs ==
  /\ SeedLeft("check") = 4 /\ SeedLeft("remove") = 3
  /\ SeedLeft("readtree") = 2 /\ SeedLeft("mark") = 1
  BY DEF SeedLeft

\* What a counted scan has left is at least one step and at most forty to an
\* attempt.
LEMMA LeftBounds ==
  ASSUME TypeOK, CountInv, NEW p \in Proc, attempt[p] # 0
  PROVE  /\ BodyLeft(p) \in 1..30
         /\ StepsLeft(p) \in 1..40 * ScanAttempts
<1>1. BodyLeft(p) \in 1..30
  <2>1. CASE pc[p] \in Scanning
    BY <2>1, ScanLeftIs DEF BodyLeft, Scanning, Seeding
  <2>2. CASE pc[p] \in Seeding /\ resume[p] \in {"ensure", "diff", "rediff"}
    BY <2>2, ScanLeftIs, SeedLeftIs DEF BodyLeft, Seeding
  <2>. QED
    BY <2>1, <2>2 DEF TypeOK, CountInv
<1>2. attempt[p] \in 1..ScanAttempts
  BY AttemptsAssumption DEF TypeOK
<1>. QED
  BY <1>1, <1>2, AttemptsAssumption DEF StepsLeft

\* A step within the body, and a repeat of it, bring the end nearer.
LEMMA BodyNearer ==
  ASSUME TypeOK, NEW p \in Proc, attempt' = attempt,
         BodyLeft(p) \in Nat, BodyLeft(p)' \in Nat, BodyLeft(p)' < BodyLeft(p)
  PROVE  Nearer(p)
<1>1. attempt[p] \in Nat /\ ScanAttempts \in Nat
  BY AttemptsAssumption DEF TypeOK
<1>. QED
  BY <1>1 DEF Nearer, StepsLeft

LEMMA EndNearer ==
  ASSUME TypeOK, NEW p \in Proc, ScanEnds(p)
  PROVE  Nearer(p)
  BY DEF TypeOK, ScanEnds, Nearer

LEMMA AgainNearer ==
  ASSUME TypeOK, CountInv, NEW p \in Proc, attempt[p] # 0, ScanAgain(p)
  PROVE  Nearer(p)
<1>1. /\ attempt[p] \in Nat /\ ScanAttempts \in Nat
      /\ attempt'[p] = attempt[p] + 1
      /\ pc'[p] = "scan"
  BY AttemptsAssumption DEF TypeOK, ScanAgain, Goto
<1>2. BodyLeft(p)' = 30
  BY <1>1, ScanLeftIs DEF BodyLeft, Seeding
<1>3. BodyLeft(p) \in 1..30
  BY LeftBounds
<1>. QED
  BY <1>1, <1>2, <1>3 DEF Nearer, StepsLeft

\* Each step a process takes in its scan, a fold of the trim included, brings
\* the scan nearer to its end.
LEMMA OwnNearer ==
  ASSUME TypeOK, CountInv, NEW p \in Proc, attempt[p] # 0, Step(p) \/ FoldCommit(p)
  PROVE  Nearer(p)
<1>1. /\ pc[p] \in Scanning \/ (pc[p] \in Seeding /\ resume[p] \in {"ensure", "diff", "rediff"})
      /\ pc[p] = "check" => resume[p] \in {"diff", "rediff"}
  BY DEF CountInv, TypeOK
<1>2. pc \in [Proc -> Steps] /\ resume \in [Proc -> {"idle", "ensure", "diff", "rediff"}]
  BY DEF TypeOK
<1>. USE <1>1, <1>2, ScanLeftIs, SeedLeftIs DEF BodyLeft, Goto, Scanning, Seeding

<1>3. CASE OpenRepair(p)
  BY <1>3 DEF OpenRepair
<1>4. CASE OpenStamp(p)
  BY <1>4 DEF OpenStamp
<1>5. CASE LockBusy(p)
  BY <1>5, EndNearer DEF LockBusy
<1>6. CASE Reload(p)
  <2>1. attempt' = attempt /\ BodyLeft(p) \in Nat /\ BodyLeft(p)' \in Nat /\ BodyLeft(p)' < BodyLeft(p)
    BY <1>6 DEF Reload
  <2>. QED
    BY <2>1, BodyNearer
<1>7. CASE SyncNothing(p)
  <2>1. attempt' = attempt /\ BodyLeft(p) \in Nat /\ BodyLeft(p)' \in Nat /\ BodyLeft(p)' < BodyLeft(p)
    BY <1>7 DEF SyncNothing
  <2>. QED
    BY <2>1, BodyNearer
<1>8. CASE SyncAdopt(p)
  <2>1. attempt' = attempt /\ BodyLeft(p) \in Nat /\ BodyLeft(p)' \in Nat /\ BodyLeft(p)' < BodyLeft(p)
    BY <1>8 DEF SyncAdopt
  <2>. QED
    BY <2>1, BodyNearer
<1>9. CASE SyncSwitch(p)
  <2>1. attempt' = attempt /\ BodyLeft(p) \in Nat /\ BodyLeft(p)' \in Nat /\ BodyLeft(p)' < BodyLeft(p)
    BY <1>9 DEF SyncSwitch
  <2>. QED
    BY <2>1, BodyNearer
<1>10. CASE SyncStamp(p)
  <2>1. attempt' = attempt /\ BodyLeft(p) \in Nat /\ BodyLeft(p)' \in Nat /\ BodyLeft(p)' < BodyLeft(p)
    BY <1>10 DEF SyncStamp
  <2>. QED
    BY <2>1, BodyNearer
<1>11. CASE TrimNothing(p)
  <2>1. attempt' = attempt /\ BodyLeft(p) \in Nat /\ BodyLeft(p)' \in Nat /\ BodyLeft(p)' < BodyLeft(p)
    BY <1>11 DEF TrimNothing
  <2>. QED
    BY <2>1, BodyNearer
<1>12. CASE EnsureIdentity(p)
  <2>1. attempt' = attempt /\ BodyLeft(p) \in Nat /\ BodyLeft(p)' \in Nat /\ BodyLeft(p)' < BodyLeft(p)
    BY <1>12 DEF EnsureIdentity
  <2>. QED
    BY <2>1, BodyNearer
<1>13. CASE EnsureContent(p)
  <2>1. attempt' = attempt /\ BodyLeft(p) \in Nat /\ BodyLeft(p)' \in Nat /\ BodyLeft(p)' < BodyLeft(p)
    BY <1>13 DEF EnsureContent
  <2>. QED
    BY <2>1, BodyNearer
<1>14. CASE EnsureLocked(p)
  <2>1. attempt' = attempt /\ BodyLeft(p) \in Nat /\ BodyLeft(p)' \in Nat /\ BodyLeft(p)' < BodyLeft(p)
    BY <1>14 DEF EnsureLocked
  <2>. QED
    BY <2>1, BodyNearer
<1>15. CASE Reseed(p)
  <2>1. attempt' = attempt /\ BodyLeft(p) \in Nat /\ BodyLeft(p)' \in Nat /\ BodyLeft(p)' < BodyLeft(p)
    BY <1>15 DEF Reseed
  <2>. QED
    BY <2>1, BodyNearer
<1>16. CASE SeedCheck(p)
  <2>1. attempt' = attempt /\ BodyLeft(p) \in Nat /\ BodyLeft(p)' \in Nat /\ BodyLeft(p)' < BodyLeft(p)
    BY <1>16 DEF SeedCheck
  <2>. QED
    BY <2>1, BodyNearer
<1>17. CASE SeedMoved(p)
  BY <1>17, EndNearer, AgainNearer DEF SeedMoved
<1>18. CASE SeedUnreadable(p)
  BY <1>18, EndNearer DEF SeedUnreadable
<1>19. CASE SeedRemove(p)
  <2>1. attempt' = attempt /\ BodyLeft(p) \in Nat /\ BodyLeft(p)' \in Nat /\ BodyLeft(p)' < BodyLeft(p)
    BY <1>19 DEF SeedRemove
  <2>. QED
    BY <2>1, BodyNearer
<1>20. CASE SeedReadTree(p)
  <2>1. attempt' = attempt /\ BodyLeft(p) \in Nat /\ BodyLeft(p)' \in Nat /\ BodyLeft(p)' < BodyLeft(p)
    BY <1>20 DEF SeedReadTree
  <2>. QED
    BY <2>1, BodyNearer
<1>21. CASE SeedMark(p)
  <2>1. attempt' = attempt /\ BodyLeft(p) \in Nat /\ BodyLeft(p)' \in Nat /\ BodyLeft(p)' < BodyLeft(p)
    BY <1>21 DEF SeedMark
  <2>. QED
    BY <2>1, BodyNearer
<1>22. CASE SeedFails(p)
  <2>1. CASE resume[p] \in {"diff", "rediff"}
    BY <1>22, <2>1, EndNearer DEF SeedFails
  <2>2. CASE resume[p] = "ensure"
    <3>1. attempt' = attempt /\ BodyLeft(p) \in 24..26 /\ BodyLeft(p)' = 23
      BY <1>22, <2>2 DEF SeedFails
    <3>. QED
      BY <3>1, BodyNearer
  <2>. QED
    BY <1>22, <2>1, <2>2 DEF SeedFails
<1>23. CASE FoldCommit(p)
  <2>1. attempt' = attempt /\ BodyLeft(p) \in Nat /\ BodyLeft(p)' \in Nat /\ BodyLeft(p)' < BodyLeft(p)
    BY <1>23 DEF FoldCommit
  <2>. QED
    BY <2>1, BodyNearer
<1>24. CASE DiffFiles(p)
  <2>1. attempt' = attempt /\ BodyLeft(p) \in Nat /\ BodyLeft(p)' \in Nat /\ BodyLeft(p)' < BodyLeft(p)
    BY <1>24 DEF DiffFiles
  <2>. QED
    BY <2>1, BodyNearer
<1>25. CASE DiffUnreadable(p)
  <2>1. attempt' = attempt /\ BodyLeft(p) \in Nat /\ BodyLeft(p)' \in Nat /\ BodyLeft(p)' < BodyLeft(p)
    BY <1>25 DEF DiffUnreadable
  <2>. QED
    BY <2>1, BodyNearer
<1>26. CASE ReadFails(p)
  BY <1>26, EndNearer DEF ReadFails
<1>27. CASE Others(p)
  <2>1. attempt' = attempt /\ BodyLeft(p) \in Nat /\ BodyLeft(p)' \in Nat /\ BodyLeft(p)' < BodyLeft(p)
    BY <1>27 DEF Others
  <2>. QED
    BY <2>1, BodyNearer
<1>28. CASE Recheck(p)
  <2>1. CASE ScanAgain(p)
    BY <2>1, AgainNearer
  <2>2. CASE Goto(p, "listed") /\ UNCHANGED attempt
    <3>1. attempt' = attempt /\ BodyLeft(p) = 8 /\ BodyLeft(p)' = 7
      BY <1>28, <2>2 DEF Recheck
    <3>. QED
      BY <3>1, BodyNearer
  <2>. QED
    BY <1>28, <2>1, <2>2 DEF Recheck, scratch
<1>29. CASE Publish(p)
  BY <1>29, EndNearer DEF Publish
<1>. HIDE <1>1, <1>2, ScanLeftIs, SeedLeftIs DEF BodyLeft, Goto, Scanning, Seeding
<1>. QED
  BY <1>3, <1>4, <1>5, <1>6, <1>7, <1>8, <1>9, <1>10, <1>11, <1>12, <1>13, <1>14, <1>15, <1>16, <1>17, <1>18, <1>19, <1>20, <1>21, <1>22, <1>23, <1>24, <1>25, <1>26, <1>27, <1>28, <1>29, Zenon
     DEF Step, Sync, Ensure, Check, Seed, Scan

\* Nothing but its end moves a scan when another process steps, or the files,
\* the index or the ledger change under it.
LEMMA OthersNoFarther ==
  ASSUME TypeOK, NEW r \in Proc,
         \/ \E p \in Proc \ {r} : Process(p)
         \/ \E q \in Path : Edit(q)
         \/ OrphanFinishes \/ TearIndex \/ DeleteCache \/ GarbleLedger
  PROVE  NoFarther(r)
<1>1. UNCHANGED <<pc[r], resume[r], attempt[r]>>
  <2>1. ASSUME NEW p \in Proc \ {r}, Process(p) PROVE UNCHANGED <<pc[r], resume[r], attempt[r]>>
    BY <2>1, StepElsewhere DEF Untouched
  <2>2. ASSUME NEW q \in Path, Edit(q) PROVE UNCHANGED <<pc[r], resume[r], attempt[r]>>
    BY <2>2 DEF Edit
  <2>3. CASE OrphanFinishes \/ TearIndex \/ DeleteCache \/ GarbleLedger
    BY <2>3 DEF OrphanFinishes, TearIndex, DeleteCache, GarbleLedger, local, scratch
  <2>. QED
    BY <2>1, <2>2, <2>3
<1>. QED
  BY <1>1 DEF NoFarther, StepsLeft, BodyLeft

\* What a scan has left is finite, every step of its own process uses some of
\* it up, and nothing any process, crash or damage does gives any back: the
\* repeat of scan_root_once is counted, and each seed is left by its own scan.
THEOREM ScansNearTheirEnd == Spec => [][ScanNearsItsEnd]_vars
<1>1. Init => CountInv
  BY DEF Init, CountInv, Scanning, Seeding
<1>2. TypeOK /\ CountInv /\ [Next]_vars => CountInv'
  BY CountStep
<1>3. TypeOK /\ CountInv /\ [Next]_vars => [ScanNearsItsEnd]_vars
  <2>. SUFFICES ASSUME TypeOK, CountInv, Next, NEW r \in Proc, attempt[r] # 0
                PROVE  /\ StepsLeft(r) \in 1 .. 40 * ScanAttempts
                       /\ Step(r) \/ FoldCommit(r) => Nearer(r)
                       /\ Nearer(r) \/ NoFarther(r)
    BY DEF ScanNearsItsEnd
  <2>1. StepsLeft(r) \in 1 .. 40 * ScanAttempts
    BY LeftBounds
  <2>2. Step(r) \/ FoldCommit(r) => Nearer(r)
    BY OwnNearer
  <2>3. CASE Process(r)
    <3>. SUFFICES Nearer(r)
      BY <2>1
    <3>1. pc[r] \notin {"closed", "idle"}
      BY DEF CountInv, Scanning, Seeding
    <3>2. CASE Crash(r)
      BY <3>2 DEF Crash, TypeOK, Nearer
    <3>3. CASE Step(r) \/ FoldCommit(r)
      BY <3>3, <2>2
    <3>4. ~OpenLoad(r) /\ ~BeginScan(r) /\ ~FoldRefused(r) /\ ~Commit(r)
      BY <3>1 DEF OpenLoad, BeginScan, FoldRefused, Commit
    <3>. QED
      BY <2>3, <3>2, <3>3, <3>4 DEF Process
  <2>4. CASE ~Process(r)
    <3>1. NoFarther(r)
      BY <2>4, OthersNoFarther DEF Next
    <3>. QED
      BY <2>1, <2>2, <3>1
  <2>. QED
    BY <2>1, <2>2, <2>3, <2>4
<1>. QED
  BY <1>1, <1>2, <1>3, TypeCorrect, PTL DEF Spec

\* Nobody takes the ledger lock from its holder, and every step of the holder
\* lets it go or leaves fewer of the seed's steps.
LockIsLetGo ==
    \A p \in Proc :
        lock = p =>
            /\ lock' \in {p, Nil}
            /\ Step(p) => lock' = Nil \/ SeedLeft(pc[p])' < SeedLeft(pc[p])

\* The lock is never waited for in vain: whoever holds it is inside a seed of
\* at most four steps, and needs nothing from anybody to take them.
THEOREM LocksAreLetGo == Spec => [][LockIsLetGo]_vars
<1>1. Init => LockInv /\ SeedFollowsDisk
  BY ProcAssumption DEF Init, LockInv, SeedFollowsDisk, Seeding
<1>2. TypeOK /\ LockInv /\ [Next]_vars => LockInv'
  BY LockStep
<1>3. TypeOK /\ LockInv /\ [Next]_vars => [LockIsLetGo]_vars
  <2>. SUFFICES ASSUME TypeOK, LockInv, Next, NEW p \in Proc, lock = p
                PROVE  /\ lock' \in {p, Nil}
                       /\ Step(p) => lock' = Nil \/ SeedLeft(pc[p])' < SeedLeft(pc[p])
    BY DEF LockIsLetGo
  <2>1. pc[p] \in Seeding /\ lock # Nil
    BY ProcAssumption DEF LockInv
  <2>2. ASSUME Step(p) PROVE lock' = Nil \/ (lock' = p /\ SeedLeft(pc[p])' < SeedLeft(pc[p]))
    <3>. USE <2>1, SeedLeftIs DEF Seeding
    <3>1. ~OpenRepair(p) /\ ~OpenStamp(p) /\ ~LockBusy(p) /\ ~Reload(p)
      BY DEF OpenRepair, OpenStamp, LockBusy, Reload
    <3>2. ~Sync(p) /\ ~Ensure(p)
      BY DEF Sync, SyncNothing, SyncAdopt, SyncSwitch, SyncStamp, TrimNothing, Ensure,
             EnsureIdentity, EnsureContent, EnsureLocked, Reseed
    <3>3. ~Scan(p)
      BY DEF Scan, DiffFiles, DiffUnreadable, ReadFails, Others, Recheck, Publish
    <3>4. CASE SeedCheck(p)
      BY <3>4 DEF SeedCheck, Goto, shared, TypeOK
    <3>5. CASE SeedMoved(p) \/ SeedUnreadable(p)
      BY <3>5 DEF SeedMoved, SeedUnreadable
    <3>6. CASE SeedRemove(p)
      BY <3>6 DEF SeedRemove, Goto, TypeOK
    <3>7. CASE SeedReadTree(p)
      BY <3>7 DEF SeedReadTree, Goto, TypeOK
    <3>8. CASE SeedMark(p) \/ SeedFails(p)
      BY <3>8 DEF SeedMark, SeedFails
    <3>. QED
      BY <2>2, <3>1, <3>2, <3>3, <3>4, <3>5, <3>6, <3>7, <3>8 DEF Step, Check, Seed
  <2>3. ASSUME NEW r \in Proc, Process(r) PROVE lock' \in {p, Nil}
    <3>1. CASE Crash(r)
      BY <3>1 DEF Crash
    <3>2. CASE OpenLoad(r) \/ BeginScan(r) \/ FoldCommit(r) \/ FoldRefused(r) \/ Commit(r)
      BY <2>1, <3>2 DEF OpenLoad, BeginScan, FoldCommit, FoldRefused, Commit, shared
    <3>3. CASE Step(r)
      <4>1. CASE OpenRepair(r) \/ OpenStamp(r) \/ LockBusy(r) \/ Reload(r) \/ Sync(r) \/ Ensure(r)
        BY <2>1, <4>1 DEF OpenRepair, OpenStamp, LockBusy, Reload, Sync, SyncNothing, SyncAdopt,
             SyncSwitch, SyncStamp, TrimNothing, Ensure, EnsureIdentity, EnsureContent,
             EnsureLocked, Reseed, shared
      <4>2. CASE Check(r) \/ Seed(r)
        BY <4>2 DEF Check, SeedCheck, SeedMoved, SeedUnreadable, Seed, SeedRemove, SeedReadTree,
             SeedMark, SeedFails, shared
      <4>3. CASE Scan(r)
        BY <4>3 DEF Scan, DiffFiles, DiffUnreadable, ReadFails, Others, Recheck, Publish, shared
      <4>. QED
        BY <3>3, <4>1, <4>2, <4>3 DEF Step
    <3>. QED
      BY <2>3, <3>1, <3>2, <3>3 DEF Process
  <2>4. CASE (\E q \in Path : Edit(q)) \/ OrphanFinishes \/ TearIndex \/ DeleteCache \/ GarbleLedger
    BY <2>2, <2>4 DEF Edit, OrphanFinishes, TearIndex, DeleteCache, GarbleLedger
  <2>. QED
    BY <2>2, <2>3, <2>4, Zenon DEF Next
<1>. QED
  BY <1>1, <1>2, <1>3, TypeCorrect, PTL DEF Spec

-----------------------------------------------------------------------------
(* When memory is stale (reload_ledger_if_changed trusts the stamp).       *)

\* The steps of a process that neither touch a ledger or a stamp nor lead to
\* the taking of one.
Plain(r) == LockBusy(r) \/ BeginScan(r) \/ SyncNothing(r) \/ TrimNothing(r) \/ Ensure(r)
            \/ Check(r) \/ Seed(r) \/ Scan(r)

\* Between reading or writing the ledger and taking its stamp.
Window == {"opened", "switched"}

Unstamped == \A p \in Proc : pc[p] \in {"closed", "repair", "opened"} => ~stamped[p]

\* The ledger in memory has the seen tree of the one on disk, or nothing seen.
Current(p) == Readable /\ tree[p] \in {disk, NoTree}
\* A process takes it for the one on disk, and it is not.
Stale(p) == stamped[p] /\ ~Current(p)
LateStamp(p) == (OpenStamp(p) \/ SyncStamp(p)) /\ ~Current(p)

MemoryGoesStale == \A p \in Proc :
    /\ pc'[p] \in Window /\ pc[p] \notin Window => Current(p)'
    /\ ~Stale(p) /\ Stale(p)' => LateStamp(p)
    /\ Stale(p) /\ Reload(p) => Stale(p)'

LEMMA PlainSteps ==
    ASSUME TypeOK, NEW r \in Proc, Plain(r)
    PROVE  /\ UNCHANGED <<disk, tree, stamped>>
           /\ \A p \in Proc : p # r => pc'[p] = pc[p]
           /\ pc'[r] \notin Window
           /\ pc'[r] \in {"closed", "repair", "opened"} => pc[r] = "repair"
<1> USE DEF Goto, ScanEnds, ScanAgain, shared, Window
<1>0. pc \in [Proc -> Steps] /\ resume[r] \in {"idle", "ensure", "diff", "rediff"}
  BY DEF TypeOK
<1>1. CASE LockBusy(r)
  BY <1>0, <1>1 DEF LockBusy
<1>2. CASE BeginScan(r) \/ SyncNothing(r) \/ TrimNothing(r)
  BY <1>0, <1>2 DEF BeginScan, SyncNothing, TrimNothing
<1>3. CASE EnsureIdentity(r) \/ EnsureContent(r)
  BY <1>0, <1>3 DEF EnsureIdentity, EnsureContent
<1>4. CASE EnsureLocked(r) \/ Reseed(r)
  BY <1>0, <1>4 DEF EnsureLocked, Reseed
<1>5. CASE SeedCheck(r) \/ SeedUnreadable(r)
  BY <1>0, <1>5 DEF SeedCheck, SeedUnreadable
<1>6. CASE SeedMoved(r)
  BY <1>0, <1>6 DEF SeedMoved
<1>7. CASE SeedRemove(r) \/ SeedReadTree(r)
  BY <1>0, <1>7 DEF SeedRemove, SeedReadTree
<1>8. CASE SeedMark(r)
  BY <1>0, <1>8 DEF SeedMark
<1>9. CASE SeedFails(r)
  BY <1>0, <1>9 DEF SeedFails
<1>10. CASE DiffFiles(r) \/ DiffUnreadable(r) \/ Others(r)
  BY <1>0, <1>10 DEF DiffFiles, DiffUnreadable, Others
<1>11. CASE ReadFails(r) \/ Publish(r)
  BY <1>0, <1>11 DEF ReadFails, Publish
<1>12. CASE Recheck(r)
  BY <1>0, <1>12 DEF Recheck
<1> QED
  BY <1>1, <1>2, <1>3, <1>4, <1>5, <1>6, <1>7, <1>8, <1>9, <1>10, <1>11, <1>12
     DEF Plain, Ensure, Check, Seed, Scan

\* Every step is one of these or says itself what it does to ledgers and stamps.
LEMMA LedgerSteps ==
    ASSUME [Next]_vars
    PROVE  \/ \E r \in Proc :
                 \/ Plain(r) \/ Open(r) \/ Reload(r) \/ SyncAdopt(r) \/ SyncSwitch(r)
                 \/ SyncStamp(r) \/ FoldCommit(r) \/ FoldRefused(r) \/ Commit(r) \/ Crash(r)
           \/ GarbleLedger
           \/ UNCHANGED <<disk, tree, stamped, pc>>
<1>1. CASE (\E q \in Path : Edit(q)) \/ OrphanFinishes \/ TearIndex \/ DeleteCache \/ UNCHANGED vars
  BY <1>1 DEF Edit, OrphanFinishes, TearIndex, DeleteCache, vars, shared, local
<1>2. CASE \E r \in Proc : Process(r)
  BY <1>2, Zenon DEF Process, Step, Sync, Plain, Open
<1> QED
  BY <1>1, <1>2 DEF Next

LEMMA UnstampedStep ==
    ASSUME TypeOK, Unstamped, [Next]_vars
    PROVE  Unstamped'
<1> USE DEF Unstamped, Goto, ScanEnds
<1>0. pc \in [Proc -> Steps] /\ stamped \in [Proc -> BOOLEAN]
  BY DEF TypeOK
<1>1. ASSUME NEW r \in Proc, Plain(r) PROVE Unstamped'
  BY <1>1, PlainSteps
<1>2. ASSUME NEW r \in Proc, Open(r) PROVE Unstamped'
  BY <1>0, <1>2 DEF Open, OpenLoad, OpenRepair, OpenStamp, LedgerReplaced, shared
<1>3. ASSUME NEW r \in Proc, Reload(r) PROVE Unstamped'
  BY <1>0, <1>3 DEF Reload
<1>4. ASSUME NEW r \in Proc, SyncAdopt(r) \/ SyncSwitch(r) \/ SyncStamp(r) PROVE Unstamped'
  BY <1>0, <1>4 DEF SyncAdopt, SyncSwitch, SyncStamp, LedgerReplaced
<1>5. ASSUME NEW r \in Proc, FoldCommit(r) \/ FoldRefused(r) \/ Commit(r) PROVE Unstamped'
  BY <1>0, <1>5 DEF FoldCommit, FoldRefused, Commit, LedgerReplaced
<1>6. ASSUME NEW r \in Proc, Crash(r) PROVE Unstamped'
  BY <1>0, <1>6 DEF Crash
<1>7. CASE GarbleLedger
  BY <1>7 DEF GarbleLedger, LedgerReplaced
<1>8. CASE UNCHANGED <<disk, tree, stamped, pc>>
  BY <1>8
<1> QED
  BY <1>1, <1>2, <1>3, <1>4, <1>5, <1>6, <1>7, <1>8, LedgerSteps

LEMMA StaleStep ==
    ASSUME TypeOK, Unstamped, [Next]_vars
    PROVE  MemoryGoesStale
<1> SUFFICES ASSUME NEW p \in Proc
             PROVE  /\ pc'[p] \in Window /\ pc[p] \notin Window => Current(p)'
                    /\ ~Stale(p) /\ Stale(p)' => LateStamp(p)
                    /\ Stale(p) /\ Reload(p) => Stale(p)'
  BY DEF MemoryGoesStale
<1>0. /\ pc \in [Proc -> Steps] /\ stamped \in [Proc -> BOOLEAN] /\ tree \in [Proc -> SeenTree]
      /\ NoTree \in SeenTree /\ {Missing, Garbled} \cap SeenTree = {}
  BY NamesAssumption DEF TypeOK, SeenTree
<1>1. pc[p] \in {"closed", "repair", "opened"} => ~stamped[p]
  BY DEF Unstamped
<1> USE DEF Goto, Window, Current, Stale, Readable
<1>2. ASSUME Reload(p), Stale(p) PROVE Stale(p)'
  BY <1>2 DEF Reload, shared
<1> SUFFICES /\ pc'[p] \in Window /\ pc[p] \notin Window => Current(p)'
             /\ ~Stale(p) /\ Stale(p)' => LateStamp(p)
  BY <1>2
<1>3. ASSUME NEW r \in Proc, Plain(r)
      PROVE  /\ pc'[p] \in Window /\ pc[p] \notin Window => Current(p)'
             /\ ~Stale(p) /\ Stale(p)' => LateStamp(p)
  BY <1>3, PlainSteps
<1>4. ASSUME NEW r \in Proc, OpenLoad(r) \/ OpenRepair(r)
      PROVE  /\ pc'[p] \in Window /\ pc[p] \notin Window => Current(p)'
             /\ ~Stale(p) /\ Stale(p)' => LateStamp(p)
  <2>1. CASE OpenLoad(r)
    BY <1>0, <1>1, <2>1 DEF OpenLoad
  <2>2. CASE OpenRepair(r)
    BY <1>0, <1>1, <2>2 DEF OpenRepair, LedgerReplaced
  <2> QED BY <1>4, <2>1, <2>2
<1>5. ASSUME NEW r \in Proc, OpenStamp(r) \/ SyncStamp(r)
      PROVE  /\ pc'[p] \in Window /\ pc[p] \notin Window => Current(p)'
             /\ ~Stale(p) /\ Stale(p)' => LateStamp(p)
  <2>1. /\ UNCHANGED <<disk, tree>> /\ \A x \in Proc : x # r => stamped'[x] = stamped[x] /\ pc'[x] = pc[x]
        /\ pc'[r] \notin Window
    BY <1>0, <1>5 DEF OpenStamp, SyncStamp, shared
  <2> QED BY <1>5, <2>1 DEF LateStamp
<1>6. ASSUME NEW r \in Proc, Reload(r)
      PROVE  /\ pc'[p] \in Window /\ pc[p] \notin Window => Current(p)'
             /\ ~Stale(p) /\ Stale(p)' => LateStamp(p)
  BY <1>0, <1>6 DEF Reload, shared
<1>7. ASSUME NEW r \in Proc, SyncAdopt(r) \/ SyncSwitch(r)
      PROVE  /\ pc'[p] \in Window /\ pc[p] \notin Window => Current(p)'
             /\ ~Stale(p) /\ Stale(p)' => LateStamp(p)
  BY <1>0, <1>7 DEF SyncAdopt, SyncSwitch, LedgerReplaced, shared
<1>8. ASSUME NEW r \in Proc, FoldCommit(r) \/ FoldRefused(r) \/ Commit(r)
      PROVE  /\ pc'[p] \in Window /\ pc[p] \notin Window => Current(p)'
             /\ ~Stale(p) /\ Stale(p)' => LateStamp(p)
  BY <1>0, <1>8 DEF FoldCommit, FoldRefused, Commit, LedgerReplaced, shared
<1>9. ASSUME NEW r \in Proc, Crash(r)
      PROVE  /\ pc'[p] \in Window /\ pc[p] \notin Window => Current(p)'
             /\ ~Stale(p) /\ Stale(p)' => LateStamp(p)
  BY <1>0, <1>9 DEF Crash
<1>10. CASE GarbleLedger \/ UNCHANGED <<disk, tree, stamped, pc>>
  BY <1>10 DEF GarbleLedger, LedgerReplaced
<1> QED
  BY <1>3, <1>4, <1>5, <1>6, <1>7, <1>8, <1>9, <1>10, LedgerSteps DEF Open

\* In any number of processes and under every fault: memory is that of the
\* ledger on disk when a stamp is due, a process comes to hold a stale ledger
\* for the one on disk only by taking the stamp after another process has
\* replaced the file, and no reload of a scan then notices.
THEOREM StaleByLateStampOnly == Spec => [][MemoryGoesStale]_vars
<1>1. Init => Unstamped
  BY DEF Init, Unstamped
<1>2. TypeOK /\ Unstamped /\ [Next]_vars => Unstamped' /\ (MemoryGoesStale \/ UNCHANGED vars)
  BY UnstampedStep, StaleStep
<1> QED
  BY <1>1, <1>2, TypeCorrect, PTL DEF Spec

=============================================================================
