---------------------------- MODULE WatcherProofs ----------------------------
(* Proofs about the watcher loop, for any number of roots, any timings and  *)
(* any number of events.                                                    *)
EXTENDS Watcher, TLAPS

-----------------------------------------------------------------------------
(* The watches follow the roots.                                            *)

\* An installation that will not be repeated is for the roots the loop knows,
\* and none is repeated that is not under way.
WatchInv ==
    /\ ~reinstall => target = roots
    /\ install = "none" => ~reinstall
    /\ reinstall \in BOOLEAN

\* Adopting another root set starts an installation for it, or leaves one to
\* be repeated.
LEMMA AdoptingKeepsWatch ==
    ASSUME WatchInv, AdoptRoots
    PROVE  WatchInv'
BY DEF WatchInv, AdoptRoots, InstallFor

\* Every step of the loop and around it preserves WatchInv: the root set
\* changes in AdoptRoots only, and Installed repeats what was left.
LEMMA WatchStep == WatchInv /\ [Next]_vars => WatchInv'
<1> SUFFICES ASSUME WatchInv, [Next]_vars PROVE WatchInv'
  OBVIOUS
<1>1. CASE Announce
  <2>1. CASE changed
    BY <1>1, <2>1, AdoptingKeepsWatch DEF Announce
  <2>2. CASE ~changed
    BY <1>1, <2>2 DEF Announce, WatchInv, watch
  <2> QED BY <2>1, <2>2
<1>2. CASE EndPass
  <2>1. CASE changed
    BY <1>2, <2>1, AdoptingKeepsWatch DEF EndPass
  <2>2. CASE ~changed
    BY <1>2, <2>2 DEF EndPass, WatchInv, watch
  <2> QED BY <2>1, <2>2
<1>3. CASE Installed
  BY <1>3 DEF Installed, WatchInv
<1>4. CASE InstallFinishes
  BY <1>4 DEF InstallFinishes, WatchInv, loop
<1>5. CASE Launch \/ Rescan \/ BeginPass \/ Ready \/ ReceiveLost \/ Requested \/ DeadlinePassed
           \/ Tick \/ HeadPoll \/ Backstop
  <2>1. UNCHANGED <<roots, install, target, reinstall>>
    BY <1>5 DEF loop, watch, Launch, Rescan, BeginPass, Ready, ReceiveLost, Requested,
                DeadlinePassed, Tick, HeadPoll, Backstop
  <2> QED BY <2>1 DEF WatchInv
<1>6. ASSUME NEW r \in Root, CatchUp(r) \/ InspectHead(r) \/ ScanDue(r)
               \/ \E kind \in Kind : Receive(kind, r)
      PROVE  WatchInv'
  <2>1. UNCHANGED <<roots, install, target, reinstall>>
    BY <1>6 DEF watch, CatchUp, InspectHead, ScanDue, Receive
  <2> QED BY <2>1 DEF WatchInv
<1>7. CASE Refresh \/ RequestRescan \/ PressReload \/ ReloadTask \/ World
  BY <1>7 DEF WatchInv, loop, watch, Refresh, RequestRescan, PressReload, ReloadTask, ReloadSet,
              ReloadFlag, ReloadNotify, World, Overflow, Write, MoveHead, RemoveOrCreate
<1>8. CASE UNCHANGED vars
  BY <1>8 DEF WatchInv, vars, loop, watch
<1> QED
  BY <1>1, <1>2, <1>3, <1>4, <1>5, <1>6, <1>7, <1>8 DEF Next, Step

\* For any number of roots: while no installation is under way, the last one
\* was for the roots the loop knows (adopt_roots, the end of an installation).
THEOREM WatchesAreCurrent == Spec => []WatchesFollowRoots
<1>1. Init => WatchInv
  BY DEF Init, WatchInv
<1>2. WatchInv => WatchesFollowRoots
  BY DEF WatchInv, WatchesFollowRoots
<1> QED
  BY <1>1, <1>2, WatchStep, PTL DEF Spec

-----------------------------------------------------------------------------
(* A reload is answered by a pass that read its settings.                   *)

\* The request follows the settings: while a flag is set or taken, a reload is
\* waited for and its task is past Engine::reload, so the settings stand.
ReloadInv ==
    /\ task \in 0..3
    /\ task \in {1, 2} => reloading
    /\ flag => reloading /\ task \in {0, 3}
    /\ pass => reloading /\ task \in {0, 3} /\ ~flag /\ pc \in {"rescan", "adopt"}
    /\ pc = "adopt" /\ pass => open \cap skip = {}
    /\ flag \in BOOLEAN /\ pass \in BOOLEAN /\ reloading \in BOOLEAN

\* The task's three steps, in their order.
LEMMA TaskOrder ==
    ASSUME task \in 0..3
    PROVE  /\ Doing("set") <=> task = 1 /\ task' = 2
           /\ Doing("flag") <=> task = 2 /\ task' = 3
           /\ Doing("notify") <=> task = 3 /\ task' = 0
           /\ task > 0 /\ ReloadOrder[task] = "set" <=> task = 1
<1>1. CASE task = 0
  BY <1>1 DEF Doing, ReloadOrder
<1>2. CASE task = 1
  BY <1>2 DEF Doing, ReloadOrder
<1>3. CASE task = 2
  BY <1>3 DEF Doing, ReloadOrder
<1>4. CASE task = 3
  BY <1>4 DEF Doing, ReloadOrder
<1> QED BY <1>1, <1>2, <1>3, <1>4

\* Every step preserves ReloadInv.
LEMMA ReloadStep == ReloadInv /\ [Next]_vars => ReloadInv'
<1> SUFFICES ASSUME ReloadInv, [Next]_vars PROVE ReloadInv'
  OBVIOUS
<1> USE DEF ReloadInv
<1>1. CASE BeginPass
  BY <1>1 DEF BeginPass, engine
<1>2. CASE Rescan
  BY <1>2 DEF Rescan, Rediscover, Found, asks
<1>3. CASE EndPass
  <2>1. pc' = "heads" /\ ~pass' /\ pass' \in BOOLEAN /\ UNCHANGED <<flag, task>>
    BY <1>3 DEF EndPass
  <2>2. reloading' \in BOOLEAN
    BY <1>3 DEF EndPass
  <2>3. CASE pass
    <3>1. ~flag' /\ flag' \in BOOLEAN /\ task' \in {0, 3}
      BY <2>1, <2>3
    <3> QED BY <2>1, <2>2, <3>1
  <2>4. CASE ~pass
    <3>1. reloading' = reloading
      BY <1>3, <2>4 DEF EndPass
    <3> QED BY <2>1, <3>1
  <2> QED BY <2>3, <2>4
<1>4. CASE Launch \/ Announce
  BY <1>4 DEF Launch, Announce, asks, engine
<1>5. CASE Ready \/ ReceiveLost \/ Requested \/ DeadlinePassed \/ Installed \/ HeadPoll
           \/ Backstop
  <2>1. pc # "adopt" /\ ~pass /\ UNCHANGED <<flag, task, reloading, pass>>
    BY <1>5 DEF asks, Ready, ReceiveLost, Requested, DeadlinePassed, Installed, HeadPoll,
                Backstop, Woken
  <2> QED BY <2>1
<1>6. ASSUME NEW r \in Root, CatchUp(r) \/ InspectHead(r) \/ ScanDue(r)
               \/ \E kind \in Kind : Receive(kind, r)
      PROVE  ReloadInv'
  <2>1. ~pass /\ UNCHANGED <<flag, task, reloading, pass>>
    BY <1>6 DEF asks, CatchUp, InspectHead, ScanDue, Receive
  <2> QED BY <2>1
<1>7. CASE Refresh
  <2>1. open' = open \/ open' = Found
    BY <1>7 DEF Refresh, Rediscover
  <2>2. UNCHANGED <<flag, task, reloading, pass, pc, skip>>
    BY <1>7 DEF Refresh, loop
  <2> QED BY <2>1, <2>2 DEF Found
<1>8. CASE PressReload
  BY <1>8 DEF PressReload, loop, engine
<1>9. CASE ReloadTask
  <2>1. UNCHANGED <<pc, open, pass>>
    BY <1>9 DEF ReloadTask, ReloadSet, ReloadFlag, ReloadNotify, loop, engine
  <2>2. CASE ReloadSet
    <3>1. task = 1 /\ task' \in {0, 2} /\ UNCHANGED flag
      BY <2>2, TaskOrder DEF ReloadSet
    <3>2. task' = 2 => UNCHANGED reloading
      BY <2>2, <3>1, TaskOrder DEF ReloadSet
    <3>3. reloading' \in BOOLEAN
      BY <2>2 DEF ReloadSet
    <3>4. ~pass' /\ ~flag' /\ pass' \in BOOLEAN /\ flag' \in BOOLEAN
      BY <2>1, <3>1
    <3>5. task' = 2 => reloading'
      BY <3>1, <3>2
    <3> QED BY <2>1, <3>1, <3>3, <3>4, <3>5
  <2>3. CASE ReloadFlag
    <3>1. task = 2 /\ task' = 3 /\ flag' = TRUE /\ UNCHANGED <<reloading, skip>>
      BY <2>3, TaskOrder DEF ReloadFlag, engine
    <3> QED BY <2>1, <3>1
  <2>4. CASE ReloadNotify
    <3>1. task = 3 /\ task' = 0 /\ UNCHANGED <<flag, reloading, skip>>
      BY <2>4, TaskOrder DEF ReloadNotify, engine
    <3> QED BY <2>1, <3>1
  <2> QED BY <1>9, <2>2, <2>3, <2>4 DEF ReloadTask
<1>10. CASE Tick \/ InstallFinishes \/ RequestRescan \/ World
  <2>1. UNCHANGED <<flag, task, reloading, pass, pc, skip, open>>
    BY <1>10 DEF Tick, InstallFinishes, RequestRescan, World, Overflow, Write, MoveHead,
                 RemoveOrCreate, loop, engine, asks
  <2> QED BY <2>1
<1>11. CASE UNCHANGED vars
  BY <1>11 DEF vars, loop, engine, asks
<1> QED
  BY <1>1, <1>2, <1>3, <1>4, <1>5, <1>6, <1>7, <1>8, <1>9, <1>10, <1>11
     DEF Next, Step

LEMMA ReloadInit == Init => ReloadInv
<1> SUFFICES ASSUME Init PROVE ReloadInv
  OBVIOUS
<1>1. task = 0 /\ ~flag /\ ~pass /\ flag \in BOOLEAN /\ pass \in BOOLEAN /\ reloading \in BOOLEAN
  BY DEF Init
<1> QED BY <1>1 DEF ReloadInv

\* For any number of roots and reloads: the pass that answers a reload has read
\* its settings (request_reload after Engine::reload, the flag taken before
\* Engine::rescan).
THEOREM ReloadsAreRead == Spec => []ReloadReadsSettings
<1>1. ReloadInv => ReloadReadsSettings
  BY DEF ReloadInv, ReloadReadsSettings
<1> QED
  BY <1>1, ReloadInit, ReloadStep, PTL DEF Spec

-----------------------------------------------------------------------------
(* Type correctness.                                                        *)

\* What is a set of roots, or of events about them.
SetsTyped ==
    /\ dir \subseteq Root /\ git \subseteq Root /\ skip \subseteq Root
    /\ open \subseteq Root /\ roots \subseteq Root /\ target \subseteq Root
    /\ headMoved \subseteq git /\ headDue \subseteq Root
    /\ live \subseteq Root /\ work \subseteq Root /\ asked \subseteq Root
    /\ events \subseteq Kind \X Root

VersionsTyped ==
    version \in [Root -> 0..MaxVersion] /\ published \in [Root -> 0..MaxVersion]

TimersTyped == due \in [Key -> Time(Debounce)] /\ window \in [Key -> Time(DebounceMax)]

ControlTyped ==
    /\ pc \in {"launch", "announce", "select", "catchup", "pass", "rescan", "adopt", "heads",
               "scans"}
    /\ install \in {"none", "running", "done"}
    /\ moves \in 0..MaxMoves

FlagsTyped ==
    /\ pending \in BOOLEAN /\ lost \in BOOLEAN /\ pass \in BOOLEAN /\ changed \in BOOLEAN
    /\ reinstall \in BOOLEAN /\ permit \in BOOLEAN /\ flag \in BOOLEAN
    /\ reloading \in BOOLEAN

\* What one root's steps do to the sets: the names of the step's effects.
LEMMA SetsStep == SetsTyped /\ [Next]_vars => SetsTyped'
<1> SUFFICES ASSUME SetsTyped, [Next]_vars PROVE SetsTyped'
  OBVIOUS
<1> USE DEF SetsTyped
<1>1. CASE Launch \/ Rescan \/ Refresh
  <2>1. \/ open' = open /\ headMoved' = headMoved
        \/ open' = Found /\ headMoved' \subseteq headMoved
    BY <1>1 DEF Launch, Rescan, Refresh, Rediscover
  <2>2. asked' \subseteq asked \cup open
    BY <1>1 DEF Launch, Rescan, Refresh, loop
  <2>3. UNCHANGED <<dir, git, skip, roots, target, headDue, live, work, events>>
    BY <1>1 DEF Launch, Rescan, Refresh, files, kernel, watch, loop
  <2> QED BY <2>1, <2>2, <2>3 DEF Found
<1>2. CASE Announce \/ EndPass
  <2>1. \/ roots' = open /\ headDue' \subseteq headDue /\ asked' \subseteq asked
           /\ target' \in {target, open}
        \/ UNCHANGED <<roots, headDue, asked, target>>
    BY <1>2 DEF Announce, EndPass, AdoptRoots, InstallFor, watch
  <2>2. UNCHANGED <<dir, git, skip, open, headMoved, live, work, events>>
    BY <1>2 DEF Announce, EndPass, files, engine, kernel
  <2> QED BY <2>1, <2>2
<1>3. CASE BeginPass \/ Tick \/ Requested \/ ReceiveLost \/ DeadlinePassed \/ Backstop
  <2>1. UNCHANGED <<dir, git, skip, open, headMoved, live, events, roots, headDue, work, asked,
                    target>>
    BY <1>3 DEF BeginPass, Tick, Requested, ReceiveLost, DeadlinePassed, Backstop, files,
                engine, kernel, loop, watch
  <2> QED BY <2>1
<1>4. CASE HeadPoll
  BY <1>4 DEF HeadPoll, files, engine, kernel, watch
<1>5. CASE Installed
  <2>1. target' \in {target, roots} /\ work' \in {work, roots}
    BY <1>5 DEF Installed
  <2>2. UNCHANGED <<dir, git, skip, open, headMoved, live, events, roots, headDue, asked>>
    BY <1>5 DEF Installed, files, engine, kernel
  <2> QED BY <2>1, <2>2
<1>6. CASE Ready
  <2>1. work' \subseteq Root
    BY <1>6 DEF Ready
  <2>2. UNCHANGED <<dir, git, skip, open, headMoved, live, events, roots, headDue, asked,
                    target>>
    BY <1>6 DEF Ready, files, engine, kernel, watch
  <2> QED BY <2>1, <2>2
<1>7. ASSUME NEW r \in Root, CatchUp(r) \/ InspectHead(r) \/ ScanDue(r)
      PROVE  SetsTyped'
  <2>1. asked' \subseteq asked \cup {r} /\ headMoved' \subseteq headMoved
    BY <1>7 DEF CatchUp, InspectHead, ScanDue, LookAt, InspectRoot, ScanRoot, Ask, Settle, engine
  <2>2. UNCHANGED <<open, skip>>
    BY <1>7 DEF CatchUp, InspectHead, ScanDue, LookAt, InspectRoot, ScanRoot, engine
  <2>3. headDue' \subseteq headDue /\ work' \subseteq work
    BY <1>7 DEF CatchUp, InspectHead, ScanDue
  <2>4. UNCHANGED <<dir, git, live, events, roots, target>>
    BY <1>7 DEF CatchUp, InspectHead, ScanDue, files, kernel, watch
  <2> QED BY <2>1, <2>2, <2>3, <2>4
<1>8. ASSUME NEW r \in Root, NEW kind \in Kind, Receive(kind, r)
      PROVE  SetsTyped'
  <2>1. headDue' \subseteq headDue \cup {r}
    BY <1>8 DEF Receive
  <2>2. events' \subseteq events
    BY <1>8 DEF Receive
  <2>3. UNCHANGED <<dir, git, skip, open, headMoved, live, roots, work, asked, target>>
    BY <1>8 DEF Receive, files, engine, watch
  <2> QED BY <2>1, <2>2, <2>3
<1>9. CASE InstallFinishes
  BY <1>9 DEF InstallFinishes, files, engine, loop
<1>10. CASE RequestRescan \/ PressReload
  BY <1>10 DEF RequestRescan, PressReload, files, engine, kernel, loop, watch
<1>11. CASE ReloadTask
  BY <1>11 DEF ReloadTask, ReloadSet, ReloadFlag, ReloadNotify, files, engine, kernel, loop, watch
<1>12. CASE Overflow
  BY <1>12 DEF Overflow, files, engine, loop, watch
<1>13. ASSUME NEW r \in Root, Write(r) \/ MoveHead(r) \/ RemoveOrCreate(r)
       PROVE  SetsTyped'
  <2>1. events' \subseteq events \cup {<<"write", r>>, <<"head", r>>, <<"dir", r>>}
    BY <1>13 DEF Write, MoveHead, RemoveOrCreate, Report
  <2>2. events' \subseteq Kind \X Root
    BY <2>1 DEF Kind
  <2>3. dir' \subseteq Root /\ headMoved' \subseteq git
    BY <1>13 DEF Write, MoveHead, RemoveOrCreate, engine, files
  <2>4. UNCHANGED <<git, skip, open, live, roots, headDue, work, asked, target>>
    BY <1>13 DEF Write, MoveHead, RemoveOrCreate, Report, engine, files, loop, watch
  <2> QED BY <2>2, <2>3, <2>4
<1>14. CASE UNCHANGED vars
  BY <1>14 DEF vars, files, engine, kernel, loop, watch
<1> QED
  BY <1>1, <1>2, <1>3, <1>4, <1>5, <1>6, <1>7, <1>8, <1>9, <1>10, <1>11, <1>12, <1>13, <1>14
     DEF Next, Step, World

\* Steps that publish nothing and change no file.
Unpublished == UNCHANGED <<version, published>>

\* Piles show versions that files have.
LEMMA VersionsStep == VersionsTyped /\ [Next]_vars => VersionsTyped'
<1> SUFFICES ASSUME VersionsTyped, [Next]_vars PROVE VersionsTyped'
  OBVIOUS
<1> USE DEF VersionsTyped
<1>1. CASE Launch
  BY <1>1 DEF Launch, files
<1>2. ASSUME NEW r \in Root, CatchUp(r) \/ InspectHead(r) \/ ScanDue(r)
      PROVE  VersionsTyped'
  <2>1. published' = published \/ published' = [published EXCEPT ![r] = version[r]]
    BY <1>2 DEF CatchUp, InspectHead, ScanDue, LookAt, InspectRoot, ScanRoot
  <2>2. UNCHANGED version
    BY <1>2 DEF CatchUp, InspectHead, ScanDue, files
  <2> QED BY <2>1, <2>2
<1>3. ASSUME NEW r \in Root, Write(r)
      PROVE  VersionsTyped'
  <2>1. UNCHANGED published
    BY <1>3 DEF Write, loop
  <2>2. CASE UNCHANGED version
    BY <2>1, <2>2
  <2>3. CASE version[r] < MaxVersion /\ version' = [version EXCEPT ![r] = @ + 1]
    <3>1. version[r] + 1 \in 0..MaxVersion
      BY <2>3, BoundsAssumption
    <3> QED BY <2>1, <2>3, <3>1
  <2> QED BY <1>3, <2>2, <2>3 DEF Write
<1>4. CASE Rescan \/ Refresh \/ Announce \/ EndPass \/ BeginPass \/ Tick \/ Requested
           \/ ReceiveLost \/ DeadlinePassed \/ Backstop \/ HeadPoll \/ Installed \/ Ready
  <2>1. Unpublished
    BY <1>4 DEF Unpublished, Rescan, Refresh, Announce, EndPass, BeginPass, Tick, Requested,
       ReceiveLost, DeadlinePassed, Backstop, HeadPoll, Installed, Ready, files, loop
  <2> QED BY <2>1 DEF Unpublished
<1>5. CASE InstallFinishes \/ RequestRescan \/ PressReload \/ ReloadTask \/ Overflow
  <2>1. Unpublished
    BY <1>5 DEF Unpublished, InstallFinishes, RequestRescan, PressReload, ReloadTask, ReloadSet,
       ReloadFlag, ReloadNotify, Overflow, files, loop
  <2> QED BY <2>1 DEF Unpublished
<1>6. ASSUME NEW r \in Root,
             MoveHead(r) \/ RemoveOrCreate(r) \/ \E kind \in Kind : Receive(kind, r)
      PROVE  VersionsTyped'
  <2>1. Unpublished
    BY <1>6 DEF Unpublished, MoveHead, RemoveOrCreate, Receive, files, loop
  <2> QED BY <2>1 DEF Unpublished
<1>7. CASE UNCHANGED vars
  BY <1>7 DEF vars, files, loop
<1> QED
  BY <1>1, <1>2, <1>3, <1>4, <1>5, <1>6, <1>7 DEF Next, Step, World

\* A deadline is a time, and within the debounce; a window within its cap.
LEMMA Times ==
    /\ 0 \in Time(Debounce) /\ Never \in Time(Debounce) /\ Never \in Time(DebounceMax)
    /\ Debounce \in Time(Debounce) /\ DebounceMax \in Time(DebounceMax)
    /\ \A t \in Time(Debounce) : Less(t) \in Time(Debounce) /\ (t # Never => Less(t) # Never)
    /\ \A t \in Time(DebounceMax) : Less(t) \in Time(DebounceMax)
    /\ Debounce # Never
<1>1. ASSUME NEW m \in Nat, NEW t \in Time(m)
      PROVE  Less(t) \in Time(m) /\ (t # Never => Less(t) # Never)
  <2>1. CASE t = Never
    BY <2>1 DEF Less, Time
  <2>2. CASE t = 0
    BY <2>2, NamesAssumption DEF Less, Time
  <2>3. CASE t \notin {0, Never}
    <3>1. t \in 1..m /\ t - 1 \in 0..m /\ t - 1 \in Nat
      BY <2>3 DEF Time
    <3> QED BY <2>3, <3>1, NamesAssumption DEF Less, Time
  <2> QED BY <2>1, <2>2, <2>3
<1>2. Debounce \in Nat /\ DebounceMax \in Nat
  BY TimingAssumption
<1> QED BY <1>1, <1>2, NamesAssumption DEF Time

\* schedule gives a root a deadline.
LEMMA Scheduling ==
    ASSUME TimersTyped, NEW k \in Key, Schedule(k)
    PROVE  /\ TimersTyped'
           /\ due'[k] # Never
           /\ \A other \in Key : due[other] # Never => due'[other] # Never
<1> DEFINE left == IF window[k] = Never THEN DebounceMax ELSE window[k]
           soon == IF left < Debounce THEN left ELSE Debounce
<1>1. left \in 0..DebounceMax /\ left \in Nat
  BY TimingAssumption DEF TimersTyped, Time
<1>2. soon \in 0..Debounce /\ soon \in Nat
  BY <1>1, TimingAssumption
<1>3. window' = [window EXCEPT ![k] = left] /\ due' = [due EXCEPT ![k] = soon]
  BY DEF Schedule
<1>4. soon \in Time(Debounce) /\ left \in Time(DebounceMax) /\ soon # Never
  BY <1>1, <1>2, NamesAssumption DEF Time
<1> HIDE DEF left, soon
<1> QED BY <1>3, <1>4 DEF TimersTyped

\* Clearing and hastening deadlines.
LEMMA Clearing ==
    ASSUME TimersTyped, NEW K
    PROVE  /\ Cleared(due, K) \in [Key -> Time(Debounce)]
           /\ Cleared(window, K) \in [Key -> Time(DebounceMax)]
           /\ DueNow(K) \in [Key -> Time(Debounce)]
           /\ \A k \in Key \ K : Cleared(due, K)[k] = due[k] /\ DueNow(K)[k] = due[k]
           /\ \A k \in Key \cap K : DueNow(K)[k] = 0
BY Times DEF TimersTyped, Cleared, DueNow

\* Every step leaves deadlines within the debounce and windows within the cap.
LEMMA TimersStep == TimersTyped /\ [Next]_vars => TimersTyped'
<1> SUFFICES ASSUME TimersTyped, [Next]_vars PROVE TimersTyped'
  OBVIOUS
<1>1. CASE Tick
  BY <1>1, Times DEF Tick, TimersTyped
<1>2. ASSUME NEW r \in Root, NEW kind \in Kind, Receive(kind, r)
      PROVE  TimersTyped'
  <2>1. UNCHANGED timers \/ Schedule(Discovery) \/ Schedule(r)
    BY <1>2 DEF Receive
  <2>2. CASE UNCHANGED timers
    BY <2>2 DEF timers, TimersTyped
  <2> QED BY <2>1, <2>2, Scheduling DEF Key
<1>3. CASE BeginPass
  BY <1>3, Clearing DEF BeginPass, TimersTyped
<1>4. CASE EndPass
  <2>1. due' \in [Key -> Time(Debounce)]
    BY <1>4, Times DEF EndPass, TimersTyped
  <2>2. window' = Cleared(window, Root \ roots')
    BY <1>4 DEF EndPass
  <2> QED BY <2>1, <2>2, Clearing DEF TimersTyped
<1>5. CASE ReceiveLost
  BY <1>5, Clearing DEF ReceiveLost, TimersTyped
<1>6. ASSUME NEW r \in Root, CatchUp(r) \/ InspectHead(r) \/ ScanDue(r)
      PROVE  TimersTyped'
  <2>1. due' = due \/ due' = Cleared(due, {r})
    BY <1>6 DEF CatchUp, InspectHead, ScanDue, LookAt, InspectRoot, ScanRoot
  <2>2. window' = window \/ window' = Cleared(window, {r})
    BY <1>6 DEF CatchUp, InspectHead, ScanDue, LookAt, InspectRoot, ScanRoot
  <2> QED BY <2>1, <2>2, Clearing DEF TimersTyped
<1>7. CASE Launch \/ Rescan \/ Announce \/ Requested \/ DeadlinePassed \/ Backstop \/ HeadPoll
           \/ Installed \/ Ready
  <2>1. UNCHANGED timers
    BY <1>7 DEF Launch, Rescan, Announce, Requested, DeadlinePassed, Backstop, HeadPoll,
       Installed, Ready
  <2> QED BY <2>1 DEF timers, TimersTyped
<1>8. CASE Refresh \/ InstallFinishes \/ RequestRescan \/ PressReload \/ ReloadTask \/ World
  <2>1. UNCHANGED timers
    BY <1>8 DEF Refresh, InstallFinishes, RequestRescan, PressReload, ReloadTask, ReloadSet,
       ReloadFlag, ReloadNotify, World, Overflow, Write, MoveHead, RemoveOrCreate
  <2> QED BY <2>1 DEF timers, TimersTyped
<1>9. CASE UNCHANGED vars
  BY <1>9 DEF vars, timers, TimersTyped
<1> QED
  BY <1>1, <1>2, <1>3, <1>4, <1>5, <1>6, <1>7, <1>8, <1>9 DEF Next, Step

\* Where the loop and the installation are.
LEMMA ControlStep == ControlTyped /\ [Next]_vars => ControlTyped'
<1> SUFFICES ASSUME ControlTyped, [Next]_vars PROVE ControlTyped'
  OBVIOUS
<1> USE DEF ControlTyped
<1>1. moves' \in 0..MaxMoves
  <2>1. Move \/ moves' = moves
    BY DEF Next, Step, World, vars, Launch, Announce, ReceiveLost, Requested, DeadlinePassed,
       Installed, BeginPass, Rescan, EndPass, Ready, CatchUp, InspectHead, ScanDue, Receive, Tick,
       HeadPoll, Backstop, InstallFinishes, Refresh, RequestRescan, PressReload, ReloadTask,
       ReloadSet, ReloadFlag, ReloadNotify, Overflow, Write, MoveHead, RemoveOrCreate
  <2> QED BY <2>1, BoundsAssumption DEF Move
<1>2. pc' \in {"launch", "announce", "select", "catchup", "pass", "rescan", "adopt", "heads",
               "scans"}
  <2>1. CASE Step
    BY <2>1 DEF Step, Launch, Announce, ReceiveLost, Requested, DeadlinePassed, Installed,
       BeginPass, Rescan, EndPass, Ready, CatchUp, InspectHead, ScanDue, Receive, Woken, Then
  <2>2. CASE Tick \/ HeadPoll \/ Backstop \/ InstallFinishes \/ Refresh \/ RequestRescan
             \/ PressReload
    BY <2>2 DEF Tick, HeadPoll, Backstop, InstallFinishes, Refresh, RequestRescan, PressReload,
       Woken, Then, loop
  <2>3. CASE ReloadTask \/ World
    BY <2>3 DEF ReloadTask, ReloadSet, ReloadFlag, ReloadNotify, World, Overflow, Write,
       MoveHead, RemoveOrCreate, loop
  <2>4. CASE UNCHANGED vars
    BY <2>4 DEF vars, loop
  <2> QED BY <2>1, <2>2, <2>3, <2>4 DEF Next
<1>3. install' \in {"none", "running", "done"}
  <2>1. CASE Step
    BY <2>1 DEF Step, Launch, Announce, ReceiveLost, Requested, DeadlinePassed, Installed,
       BeginPass, Rescan, EndPass, Ready, CatchUp, InspectHead, ScanDue, Receive, AdoptRoots,
       InstallFor, watch
  <2>2. CASE Tick \/ HeadPoll \/ Backstop \/ InstallFinishes \/ Refresh \/ RequestRescan
             \/ PressReload
    BY <2>2 DEF Tick, HeadPoll, Backstop, InstallFinishes, Refresh, RequestRescan, PressReload,
       watch
  <2>3. CASE ReloadTask \/ World
    BY <2>3 DEF ReloadTask, ReloadSet, ReloadFlag, ReloadNotify, World, Overflow, Write,
       MoveHead, RemoveOrCreate, watch
  <2>4. CASE UNCHANGED vars
    BY <2>4 DEF vars, watch
  <2> QED BY <2>1, <2>2, <2>3, <2>4 DEF Next
<1> QED BY <1>1, <1>2, <1>3

\* What is asked for, lost, and in the loop's hands.
LEMMA FlagsStep == FlagsTyped /\ [Next]_vars => FlagsTyped'
<1> SUFFICES ASSUME FlagsTyped, [Next]_vars PROVE FlagsTyped'
  OBVIOUS
<1> USE DEF FlagsTyped
<1>1. CASE Step
  <2>1. pending' \in BOOLEAN /\ lost' \in BOOLEAN
    BY <1>1 DEF Step, Launch, Announce, ReceiveLost, Requested, DeadlinePassed, Installed,
       BeginPass, Rescan, EndPass, Ready, CatchUp, InspectHead, ScanDue, Receive, LookAt,
       InspectRoot, ScanRoot, engine, kernel
  <2>2. pass' \in BOOLEAN /\ changed' \in BOOLEAN
    BY <1>1 DEF Step, Launch, Announce, ReceiveLost, Requested, DeadlinePassed, Installed,
       BeginPass, Rescan, EndPass, Ready, CatchUp, InspectHead, ScanDue, Receive
  <2>3. reinstall' \in BOOLEAN
    BY <1>1 DEF Step, Launch, Announce, ReceiveLost, Requested, DeadlinePassed, Installed,
       BeginPass, Rescan, EndPass, Ready, CatchUp, InspectHead, ScanDue, Receive, AdoptRoots,
       InstallFor, watch
  <2>4. permit' \in BOOLEAN
    BY <1>1 DEF Step, Launch, Announce, ReceiveLost, Requested, DeadlinePassed, Installed,
       BeginPass, Rescan, EndPass, Ready, CatchUp, InspectHead, ScanDue, Receive, LookAt,
       InspectRoot, ScanRoot, Ask, Settle, asks
  <2>5. flag' \in BOOLEAN /\ reloading' \in BOOLEAN
    BY <1>1 DEF Step, Launch, Announce, ReceiveLost, Requested, DeadlinePassed, Installed,
       BeginPass, Rescan, EndPass, Ready, CatchUp, InspectHead, ScanDue, Receive, asks
  <2> QED BY <2>1, <2>2, <2>3, <2>4, <2>5
<1>2. CASE Tick \/ HeadPoll \/ Backstop
  BY <1>2 DEF Tick, HeadPoll, Backstop, engine, kernel, loop, watch, asks
<1>7. CASE InstallFinishes \/ RequestRescan \/ PressReload
  BY <1>7 DEF InstallFinishes, RequestRescan, PressReload, engine, kernel, loop, watch, asks
<1>3. CASE Refresh
  BY <1>3 DEF Refresh, kernel, loop, watch
<1>4. CASE ReloadTask
  BY <1>4 DEF ReloadTask, ReloadSet, ReloadFlag, ReloadNotify, engine, kernel, loop, watch
<1>5. CASE World
  <2>1. UNCHANGED <<pending, pass, changed, reinstall, permit, flag, reloading>>
    BY <1>5 DEF World, Overflow, Write, MoveHead, RemoveOrCreate, engine, loop, watch, asks
  <2>2. lost' \in {lost, TRUE}
    BY <1>5 DEF World, Overflow, Write, MoveHead, RemoveOrCreate, Report
  <2> QED BY <2>1, <2>2
<1>6. CASE UNCHANGED vars
  BY <1>6 DEF vars, engine, kernel, loop, watch, asks
<1> QED
  BY <1>1, <1>2, <1>3, <1>4, <1>5, <1>6, <1>7 DEF Next

\* The reload's task goes through its three steps and ends.
TaskTyped == task \in 0..3

LEMMA TaskStep == TaskTyped /\ [Next]_vars => TaskTyped'
<1> SUFFICES ASSUME TaskTyped, [Next]_vars PROVE TaskTyped'
  OBVIOUS
<1> USE DEF TaskTyped
<1>1. CASE Step
  BY <1>1 DEF Step, Launch, Announce, ReceiveLost, Requested, DeadlinePassed, Installed,
     BeginPass, Rescan, EndPass, Ready, CatchUp, InspectHead, ScanDue, Receive, asks
<1>2. CASE Tick \/ HeadPoll \/ Backstop \/ InstallFinishes \/ Refresh \/ RequestRescan
  <2>1. UNCHANGED task
    BY <1>2 DEF Tick, HeadPoll, Backstop, InstallFinishes, Refresh, RequestRescan, asks
  <2> QED BY <2>1
<1>3. CASE PressReload
  BY <1>3 DEF PressReload
<1>4. CASE World
  BY <1>4 DEF World, Overflow, Write, MoveHead, RemoveOrCreate, asks
<1>5. CASE ReloadTask
  BY <1>5 DEF ReloadTask, ReloadSet, ReloadFlag, ReloadNotify, Doing
<1>6. CASE UNCHANGED vars
  BY <1>6 DEF vars, asks
<1> QED
  BY <1>1, <1>2, <1>3, <1>4, <1>5, <1>6 DEF Next

Typed == SetsTyped /\ VersionsTyped /\ TimersTyped /\ ControlTyped /\ FlagsTyped /\ TaskTyped

LEMMA TypedInit == Init => Typed
<1> SUFFICES ASSUME Init PROVE Typed
  OBVIOUS
<1>1. 0 \in 0..MaxVersion /\ 0 \in 0..MaxMoves
  BY BoundsAssumption
<1>2. SetsTyped
  BY DEF Init, SetsTyped
<1>3. VersionsTyped
  BY <1>1 DEF Init, VersionsTyped
<1>4. TimersTyped
  BY Times DEF Init, TimersTyped
<1>5. ControlTyped
  BY <1>1 DEF Init, ControlTyped
<1>6. FlagsTyped
  BY DEF Init, FlagsTyped
<1>7. TaskTyped
  BY DEF Init, TaskTyped
<1> QED BY <1>2, <1>3, <1>4, <1>5, <1>6, <1>7 DEF Typed

\* For any number of roots and any timings, the loop's variables have their
\* types: deadlines never exceed the debounce, windows never their cap.
THEOREM TypeCorrect == Spec => []TypeOK
<1>1. Typed /\ [Next]_vars => Typed'
  BY SetsStep, VersionsStep, TimersStep, ControlStep, FlagsStep, TaskStep DEF Typed
<1>2. Typed => TypeOK
  BY DEF Typed, SetsTyped, VersionsTyped, TimersTyped, ControlTyped, FlagsTyped, TaskTyped, TypeOK
<1> QED
  BY <1>1, <1>2, TypedInit, PTL DEF Spec

-----------------------------------------------------------------------------
(* The gap between a folder's scan and its watch.                           *)

\* A root the loop can scan.
Within == (roots \cap open \cap dir) \ git

\* Why a folder whose pile is behind its files will be scanned, or is not
\* watched yet.
Reason(r) ==
    \/ pc \in {"launch", "adopt"} \/ pending \/ lost
    \/ install # "none" \/ r \notin live
    \/ pc = "catchup" /\ r \in work
    \/ due[r] # Never
    \/ <<"write", r>> \in events \/ <<"dir", r>> \in events

CaughtUp == \A r \in Within : published[r] # version[r] => Reason(r)

LEMMA CaughtUpInit == Init => CaughtUp
BY DEF Init, CaughtUp, Reason

\* A root comes within the loop's reach only with a reason to be scanned, and
\* loses one reason only to the next, or to a scan.
LEMMA CaughtUpStep == Typed /\ CaughtUp /\ [Next]_vars => CaughtUp'
<1> SUFFICES ASSUME Typed, CaughtUp, [Next]_vars,
                    NEW r \in Within', published'[r] # version'[r]
             PROVE  Reason(r)'
  BY DEF CaughtUp
<1> r \in Root /\ r \in Key /\ r # Discovery
  BY SetsStep, NamesAssumption DEF Within, SetsTyped, Key, Typed
<1>0. r \in Within /\ published[r] # version[r] => Reason(r)
  BY DEF CaughtUp
<1>1. CASE Launch
  <2>1. r \in open' /\ r \in dir /\ UNCHANGED <<dir, version>>
    BY <1>1 DEF Launch, Within, files
  <2> QED BY <1>1, <2>1 DEF Launch
<1>2. CASE Announce
  <2>1. CASE changed
    BY <1>2, <2>1 DEF Announce, AdoptRoots, InstallFor, Reason
  <2>2. CASE ~changed
    BY <1>0, <1>2, <2>2 DEF Announce, Within, Reason, files, engine, kernel, timers, watch
  <2> QED BY <2>1, <2>2
<1>3. CASE EndPass
  <2>1. due'[r] = 0
    BY <1>3 DEF EndPass, Within
  <2> QED BY <2>1, NamesAssumption DEF Reason
<1>4. CASE Rescan
  BY <1>4 DEF Rescan, Reason
<1>5. CASE Refresh
  <2>1. CASE UNCHANGED <<open, headMoved, pending>>
    BY <1>0, <1>5, <2>1 DEF Refresh, Within, Reason, files, kernel, timers, loop, watch
  <2>2. CASE pending'
    BY <2>2 DEF Reason
  <2> QED BY <1>5, <2>1, <2>2 DEF Refresh
<1>6. CASE Installed
  <2>1. r \in Within /\ published[r] # version[r] /\ UNCHANGED <<live, events, lost, pending, due>>
    BY <1>6 DEF Installed, Within, files, engine, kernel, timers
  <2>2. CASE reinstall
    BY <1>6, <2>2 DEF Installed, Reason
  <2>3. CASE ~reinstall
    BY <1>6, <2>1, <2>3 DEF Installed, Reason, Within
  <2> QED BY <2>2, <2>3
<1>7. CASE InstallFinishes
  BY <1>7 DEF InstallFinishes, Reason
<1>8. ASSUME NEW s \in Root, CatchUp(s) \/ InspectHead(s) \/ ScanDue(s)
      PROVE  Reason(r)'
  <2>1. UNCHANGED <<roots, dir, git, version, live, events, lost, install, open, pending>>
    BY <1>8 DEF CatchUp, InspectHead, ScanDue, LookAt, InspectRoot, ScanRoot, files, engine,
       kernel, watch
  <2>2. published' = published \/ published' = [published EXCEPT ![s] = version[s]]
    BY <1>8 DEF CatchUp, InspectHead, ScanDue, LookAt, InspectRoot, ScanRoot
  <2>3. r \in Within /\ published[r] # version[r]
    BY <2>1, <2>2 DEF Within, Typed, VersionsTyped
  <2>4. CASE s # r
    <3>1. due'[r] = due[r]
      <4>1. due' = due \/ due' = Cleared(due, {s})
        BY <1>8 DEF CatchUp, InspectHead, ScanDue, LookAt, InspectRoot, ScanRoot
      <4> QED BY <2>4, <4>1, Clearing DEF Typed
    <3>2. pc = "catchup" /\ r \in work => pc' = "catchup" /\ r \in work'
      BY <1>8, <2>4 DEF CatchUp, InspectHead, ScanDue
    <3>3. pc \notin {"launch", "adopt"}
      BY <1>8 DEF CatchUp, InspectHead, ScanDue
    <3> QED BY <1>0, <2>1, <2>3, <3>1, <3>2, <3>3 DEF Reason
  <2>5. CASE s = r
    <3>1. r \in open \cap dir /\ r \notin git /\ r \notin headMoved
      BY <2>3 DEF Within, Typed, SetsTyped
    <3>2. CASE InspectHead(r)
      <4>1. UNCHANGED <<pc, due, work>>
        BY <3>2 DEF InspectHead, InspectRoot
      <4> QED BY <1>0, <2>1, <2>3, <4>1 DEF Reason
    <3>3. CASE CatchUp(r) \/ ScanDue(r)
      <4>1. published' = [published EXCEPT ![r] = version[r]]
        BY <3>1, <3>3 DEF CatchUp, ScanDue, LookAt, ScanRoot
      <4> QED BY <2>1, <4>1 DEF Typed, VersionsTyped
    <3> QED BY <1>8, <2>5, <3>2, <3>3
  <2> QED BY <2>4, <2>5
<1>9. ASSUME NEW s \in Root, NEW kind \in Kind, Receive(kind, s)
      PROVE  Reason(r)'
  <2>1. UNCHANGED <<roots, dir, git, version, live, lost, install, open, pending, published>>
    BY <1>9 DEF Receive, files, engine, watch
  <2>2. r \in Within /\ published[r] # version[r]
    BY <2>1 DEF Within
  <2>3. pc = "select" /\ events' = events \ {<<kind, s>>}
    BY <1>9 DEF Receive
  <2>4. due[r] # Never => due'[r] # Never
    <3>1. UNCHANGED timers \/ Schedule(Discovery) \/ Schedule(s)
      BY <1>9 DEF Receive
    <3> QED BY <3>1, Scheduling DEF Typed, Key, timers
  <2>5. CASE s = r /\ kind \in {"write", "dir"}
    <3>1. Schedule(r)
      BY <1>9, <2>2, <2>5 DEF Receive, Within
    <3> QED BY <3>1, Scheduling DEF Typed, Reason
  <2>6. CASE s # r \/ kind \notin {"write", "dir"}
    <3>1. \A k \in {"write", "dir"} : <<k, r>> \in events => <<k, r>> \in events'
      BY <2>3, <2>6
    <3> QED BY <1>0, <2>1, <2>2, <2>3, <2>4, <3>1 DEF Reason
  <2> QED BY <2>5, <2>6
<1>10. CASE ReceiveLost
  <2>1. due'[r] = 0
    BY <1>10, Clearing DEF ReceiveLost, Within, Typed
  <2> QED BY <2>1, NamesAssumption DEF Reason
<1>11. CASE Overflow
  BY <1>11 DEF Overflow, Reason
<1>12. ASSUME NEW s \in Root, Write(s) \/ MoveHead(s) \/ RemoveOrCreate(s)
       PROVE  Reason(r)'
  <2>1. UNCHANGED <<roots, git, live, lost, install, open, pending, published, due, pc, work>>
    BY <1>12 DEF Write, MoveHead, RemoveOrCreate, Report, files, engine, timers, loop, watch
  <2>2. events \subseteq events'
    BY <1>12 DEF Write, MoveHead, RemoveOrCreate, Report
  <2>3. CASE r \in Within /\ published[r] # version[r]
    BY <1>0, <2>1, <2>2, <2>3 DEF Reason
  <2>4. CASE r \notin dir \/ version'[r] # version[r]
    <3>1. s = r /\ (Write(r) \/ RemoveOrCreate(r))
      BY <1>12, <2>4 DEF Within, Write, MoveHead, RemoveOrCreate, files, Typed, VersionsTyped
    <3>2. r \notin live \/ <<"write", r>> \in events' \/ <<"dir", r>> \in events'
      BY <3>1 DEF Write, RemoveOrCreate, Report
    <3> QED BY <2>1, <3>2 DEF Reason
  <2> QED BY <2>1, <2>3, <2>4 DEF Within
<1>13. CASE BeginPass
  <2>1. due'[r] = due[r]
    BY <1>13, Clearing DEF BeginPass, Typed
  <2> QED BY <1>0, <1>13, <2>1 DEF BeginPass, Within, Reason, files, engine, kernel, watch
<1>14. CASE Tick
  <2>1. due[r] # Never => due'[r] # Never
    BY <1>14, Times DEF Tick, Typed, TimersTyped
  <2> QED BY <1>0, <1>14, <2>1 DEF Tick, Within, Reason, files, engine, kernel, loop, watch
<1>15. CASE Ready \/ Requested \/ DeadlinePassed \/ HeadPoll \/ Backstop
  <2>1. UNCHANGED <<roots, open, dir, git, version, published, pending, lost, install, live, due,
                    events>>
    BY <1>15 DEF Ready, Requested, DeadlinePassed, HeadPoll, Backstop, files, engine, kernel,
       timers, watch
  <2>2. pc \notin {"launch", "adopt", "catchup"}
    BY <1>15 DEF Ready, Requested, DeadlinePassed, HeadPoll, Backstop, Woken
  <2> QED BY <1>0, <2>1, <2>2 DEF Within, Reason
<1>16. CASE RequestRescan \/ PressReload \/ ReloadTask \/ UNCHANGED vars
  <2>1. UNCHANGED <<roots, open, dir, git, version, published, pending, lost, install, live, due,
                    events, pc, work>>
    BY <1>16 DEF RequestRescan, PressReload, ReloadTask, ReloadSet, ReloadFlag, ReloadNotify,
       vars, files, engine, kernel, timers, loop, watch
  <2> QED BY <1>0, <2>1 DEF Within, Reason
<1> QED
  BY <1>1, <1>2, <1>3, <1>4, <1>5, <1>6, <1>7, <1>8, <1>9, <1>10, <1>11, <1>12, <1>13, <1>14,
     <1>15, <1>16 DEF Next, Step, World

\* For any number of roots and whatever happens around the loop: once it has
\* nothing left to do, the pile of every watched folder it watches is of the
\* folder's files as they are, so nothing from the gap between a scan and its
\* watch is missed.
THEOREM NothingFromTheGap == Spec => []FoldersCaughtUp
<1>1. Typed /\ [Next]_vars => Typed'
  BY SetsStep, VersionsStep, TimersStep, ControlStep, FlagsStep, TaskStep DEF Typed
<1>2. Typed /\ CaughtUp => FoldersCaughtUp
  <2> SUFFICES ASSUME Typed, CaughtUp, Quiet,
                      NEW r \in (roots \cap open \cap dir \cap live) \ git
               PROVE  published[r] = version[r]
    BY DEF FoldersCaughtUp
  <2> r \in Root
    BY DEF Typed, SetsTyped
  <2>1. r \in Within /\ due[r] = Never
    BY DEF Within, Quiet, Key
  <2>2. ~Reason(r)
    BY <2>1 DEF Reason, Quiet
  <2> QED BY <2>1, <2>2 DEF CaughtUp
<1> QED
  BY <1>1, <1>2, TypedInit, CaughtUpInit, CaughtUpStep, PTL DEF Spec

-----------------------------------------------------------------------------
(* Nothing that is waited for is forgotten.                                 *)

\* The screen waits for a reload only while its task has still to make the
\* request, the request is there, or the pass that answers it runs; and a
\* request comes with a permit that wakes the loop for it.
ReloadOnItsWay ==
    /\ reloading => task \in {1, 2} \/ flag \/ pass
    /\ flag => task = 3 \/ permit \/ pc = "pass"

\* The flag is set before the permit is left and taken before the engine is
\* called, so no order of the task and the loop loses a reload.
LEMMA OnItsWayStep == ReloadInv /\ ReloadOnItsWay /\ [Next]_vars => ReloadOnItsWay'
<1> SUFFICES ASSUME ReloadInv, ReloadOnItsWay, [Next]_vars PROVE ReloadOnItsWay'
  OBVIOUS
<1> USE DEF ReloadOnItsWay
<1>1. CASE BeginPass
  BY <1>1 DEF BeginPass, ReloadInv
<1>2. CASE EndPass
  BY <1>2 DEF EndPass, Announced, ReloadInv
<1>3. CASE Launch \/ Announce \/ Rescan \/ Ready
  <2>1. /\ UNCHANGED <<flag, task, reloading, pass>>
        /\ permit => permit'
        /\ pc # "pass"
    BY <1>3 DEF Launch, Announce, Rescan, Ready, asks
  <2> QED BY <2>1
<1>4. CASE Requested
  BY <1>4 DEF Requested, Woken, Then
<1>5. CASE ReceiveLost \/ DeadlinePassed \/ HeadPoll \/ Backstop \/ Installed
  <2>1. UNCHANGED <<flag, task, reloading, permit, pass>> /\ pc # "pass"
    BY <1>5 DEF ReceiveLost, DeadlinePassed, HeadPoll, Backstop, Installed, Woken, asks
  <2> QED BY <2>1
<1>6. ASSUME NEW r \in Root, CatchUp(r) \/ InspectHead(r) \/ ScanDue(r)
               \/ \E kind \in Kind : Receive(kind, r)
      PROVE  ReloadOnItsWay'
  <2>1. UNCHANGED <<flag, task, reloading, pass>> /\ pc # "pass"
    BY <1>6 DEF CatchUp, InspectHead, ScanDue, Receive, asks
  <2>2. permit => permit'
    BY <1>6 DEF CatchUp, InspectHead, ScanDue, Receive, LookAt, InspectRoot, ScanRoot, Ask,
       Settle, asks
  <2> QED BY <2>1, <2>2
<1>7. CASE Tick \/ InstallFinishes \/ Refresh \/ RequestRescan
  <2>1. UNCHANGED <<flag, task, reloading, pass, pc>>
    BY <1>7 DEF Tick, InstallFinishes, Refresh, RequestRescan, asks, loop
  <2>2. permit => permit'
    BY <1>7 DEF Tick, InstallFinishes, Refresh, RequestRescan, asks
  <2> QED BY <2>1, <2>2
<1>8. CASE PressReload
  BY <1>8 DEF PressReload, ReloadInv, loop
<1>9. CASE ReloadTask
  BY <1>9, TaskOrder DEF ReloadTask, ReloadSet, ReloadFlag, ReloadNotify, ReloadInv, loop
<1>10. CASE World
  BY <1>10 DEF World, Overflow, Write, MoveHead, RemoveOrCreate, loop, asks
<1>11. CASE UNCHANGED vars
  BY <1>11 DEF vars, loop, asks
<1> QED
  BY <1>1, <1>2, <1>3, <1>4, <1>5, <1>6, <1>7, <1>8, <1>9, <1>10, <1>11 DEF Next, Step

\* A reload the screen waits for is never lost between spawn_reload, the
\* coalescing permit and the pass: the answer is always still to come.
THEOREM ReloadsAreOnTheirWay == Spec => []ReloadOnItsWay
<1>1. Init => ReloadOnItsWay
  BY DEF Init, ReloadOnItsWay
<1> QED
  BY <1>1, ReloadInit, ReloadStep, OnItsWayStep, PTL DEF Spec

\* The loop's roots are the engine's, or it is about to adopt those, or it has
\* been left word that a scan outside it changed them.
RootsKnown == roots = open \/ pending \/ (changed /\ pc \in {"announce", "adopt"})

LEMMA RootsKnownStep == RootsKnown /\ [Next]_vars => RootsKnown'
<1> SUFFICES ASSUME RootsKnown, [Next]_vars PROVE RootsKnown'
  OBVIOUS
<1> USE DEF RootsKnown
<1>1. CASE Launch
  BY <1>1 DEF Launch
<1>2. CASE Announce
  BY <1>2 DEF Announce, AdoptRoots, engine
<1>3. CASE Rescan
  BY <1>3 DEF Rescan, Rediscover
<1>4. CASE EndPass
  BY <1>4 DEF EndPass, AdoptRoots, engine
<1>5. CASE Refresh
  BY <1>5 DEF Refresh, loop
<1>6. CASE ReceiveLost \/ Requested \/ DeadlinePassed \/ Installed \/ BeginPass \/ Ready
           \/ HeadPoll \/ Backstop \/ Tick
  <2>1. UNCHANGED <<roots, open, pending>> /\ pc \notin {"announce", "adopt"}
    BY <1>6 DEF ReceiveLost, Requested, DeadlinePassed, Installed, BeginPass, Ready, HeadPoll,
       Backstop, Tick, Woken, engine, loop
  <2> QED BY <2>1
<1>7. ASSUME NEW r \in Root, CatchUp(r) \/ InspectHead(r) \/ ScanDue(r)
               \/ \E kind \in Kind : Receive(kind, r)
      PROVE  RootsKnown'
  <2>1. UNCHANGED <<roots, open, pending>> /\ pc \notin {"announce", "adopt"}
    BY <1>7 DEF CatchUp, InspectHead, ScanDue, Receive, LookAt, InspectRoot, ScanRoot, engine
  <2> QED BY <2>1
<1>8. CASE InstallFinishes \/ RequestRescan \/ PressReload \/ ReloadTask \/ World
  <2>1. UNCHANGED <<roots, open, pending, changed, pc>>
    BY <1>8 DEF InstallFinishes, RequestRescan, PressReload, ReloadTask, ReloadSet, ReloadFlag,
       ReloadNotify, World, Overflow, Write, MoveHead, RemoveOrCreate, engine, loop
  <2> QED BY <2>1
<1>9. CASE UNCHANGED vars
  BY <1>9 DEF vars, engine, loop
<1> QED
  BY <1>1, <1>2, <1>3, <1>4, <1>5, <1>6, <1>7, <1>8, <1>9 DEF Next, Step

\* A root set that changes under the loop, by its own pass or by a refresh
\* beside it, is adopted or remembered for adoption.
THEOREM RootsAreKnown == Spec => []RootsKnown
<1>1. Init => RootsKnown
  BY DEF Init, RootsKnown
<1> QED
  BY <1>1, RootsKnownStep, PTL DEF Spec

-----------------------------------------------------------------------------
(* Roots whose directory is gone.                                           *)

\* Why a root whose directory is gone will be found gone, or is not watched.
GoneReason(r) ==
    \/ lost \/ permit \/ pc \in {"pass", "rescan"}
    \/ install # "none" \/ r \notin live
    \/ pc = "catchup" /\ r \in work
    \/ due[r] # Never \/ due[Discovery] # Never
    \/ <<"dir", r>> \in events

Gone == (roots \cap open) \ dir

GoneNoticed == \A r \in Gone : GoneReason(r) \/ r \in asked

LEMMA GoneInit == Init => GoneNoticed
  BY DEF Init, GoneNoticed, GoneReason

\* A scan that finds a root gone asks for a discovery, and takes a deadline
\* from no other root.
LEMMA LookingAsks ==
    ASSUME Typed, NEW s \in Root, CatchUp(s) \/ InspectHead(s) \/ ScanDue(s)
    PROVE  /\ permit => permit'
           /\ s \in open \ dir => s \in asked'
           /\ \A r \in Root \ {s} : r \in asked => r \in asked'
           /\ \A k \in Key \ {s} : due'[k] = due[k]
           /\ UNCHANGED <<roots, open, dir, live, lost, events, install>>
<1>1. permit => permit'
  BY DEF CatchUp, InspectHead, ScanDue, LookAt, InspectRoot, ScanRoot, Ask, Settle
<1>2. s \in open \ dir => s \in asked'
  BY DEF CatchUp, InspectHead, ScanDue, LookAt, InspectRoot, ScanRoot, Ask
<1>3. \A r \in Root \ {s} : r \in asked => r \in asked'
  BY DEF CatchUp, InspectHead, ScanDue, LookAt, InspectRoot, ScanRoot, Ask, Settle
<1>4. \A k \in Key \ {s} : due'[k] = due[k]
  <2>1. due' = due \/ due' = Cleared(due, {s})
    BY DEF CatchUp, InspectHead, ScanDue, LookAt, InspectRoot, ScanRoot
  <2> QED BY <2>1, Clearing DEF Typed
<1>5. UNCHANGED <<roots, open, dir, live, lost, events, install>>
  BY DEF CatchUp, InspectHead, ScanDue, LookAt, InspectRoot, ScanRoot, files, engine, kernel, watch
<1> QED BY <1>1, <1>2, <1>3, <1>4, <1>5

\* A removal of a watched root's directory is noticed, and what noticed it
\* hands it on until the root is asked about or leaves.
LEMMA GoneStep == Typed /\ GoneNoticed /\ [Next]_vars => GoneNoticed'
<1> SUFFICES ASSUME Typed, GoneNoticed, [Next]_vars, NEW r \in Gone'
             PROVE  GoneReason(r)' \/ r \in asked'
  BY DEF GoneNoticed
<1> r \in Root /\ r \in Key /\ r # Discovery /\ Discovery \in Key
  BY SetsStep, NamesAssumption DEF Gone, SetsTyped, Key, Typed
<1>0. r \in Gone => GoneReason(r) \/ r \in asked
  BY DEF GoneNoticed
<1>1. CASE Launch
  BY <1>0, <1>1 DEF Launch, Gone, GoneReason, files, Rediscover, Found
<1>2. CASE Announce
  <2>1. CASE changed
    BY <1>2, <2>1 DEF Announce, AdoptRoots, InstallFor, GoneReason
  <2>2. CASE ~changed
    BY <1>0, <1>2, <2>2 DEF Announce, Gone, GoneReason, files, engine, kernel, timers, watch, asks
  <2> QED BY <2>1, <2>2
<1>3. CASE BeginPass
  BY <1>3 DEF BeginPass, GoneReason
<1>4. CASE Rescan
  BY <1>4 DEF Rescan, Rediscover, Found, Gone, files
<1>5. CASE EndPass
  <2>1. due'[r] = 0
    BY <1>5 DEF EndPass, Gone
  <2> QED BY <2>1, NamesAssumption DEF GoneReason
<1>6. CASE Requested \/ Backstop
  BY <1>6 DEF Requested, Backstop, Woken, Then, GoneReason
<1>7. CASE ReceiveLost
  <2>1. due'[r] = 0
    BY <1>7, Clearing DEF ReceiveLost, Gone, Typed
  <2> QED BY <2>1, NamesAssumption DEF GoneReason
<1>8. CASE Installed
  <2>1. r \in Gone /\ UNCHANGED <<live, events, lost, permit, due, asked>> /\ pc = "select"
    BY <1>8 DEF Installed, Gone, files, engine, kernel, timers, asks
  <2>2. CASE reinstall
    BY <1>8, <2>2 DEF Installed, GoneReason
  <2>3. CASE ~reinstall
    BY <1>8, <2>1, <2>3 DEF Installed, GoneReason, Gone
  <2> QED BY <2>2, <2>3
<1>9. CASE InstallFinishes
  BY <1>9 DEF InstallFinishes, GoneReason
<1>10. ASSUME NEW s \in Root, CatchUp(s) \/ InspectHead(s) \/ ScanDue(s)
       PROVE  GoneReason(r)' \/ r \in asked'
  <2>1. r \in Gone
    BY <1>10, LookingAsks DEF Gone
  <2>2. CASE s = r
    BY <1>10, <2>1, <2>2, LookingAsks DEF Gone
  <2>3. CASE s # r
    <3>1. /\ pc \notin {"pass", "rescan"}
          /\ pc = "catchup" /\ r \in work => pc' = "catchup" /\ r \in work'
      BY <1>10, <2>3 DEF CatchUp, InspectHead, ScanDue
    <3>2. s # Discovery
      BY NamesAssumption
    <3>3. /\ permit => permit'
          /\ r \in asked => r \in asked'
          /\ due'[r] = due[r] /\ due'[Discovery] = due[Discovery]
          /\ UNCHANGED <<live, lost, events, install>>
      BY <1>10, <2>3, <3>2, LookingAsks
    <3> QED BY <1>0, <2>1, <3>1, <3>3 DEF GoneReason
  <2> QED BY <2>2, <2>3
<1>11. ASSUME NEW s \in Root, NEW kind \in Kind, Receive(kind, s)
       PROVE  GoneReason(r)' \/ r \in asked'
  <2>1. UNCHANGED <<roots, open, dir, live, lost, permit, install, asked>>
    BY <1>11 DEF Receive, files, engine, watch, asks
  <2>2. r \in Gone
    BY <2>1 DEF Gone
  <2>3. pc = "select" /\ events' = events \ {<<kind, s>>}
    BY <1>11 DEF Receive
  <2>4. \A k \in Key : due[k] # Never => due'[k] # Never
    <3>1. UNCHANGED timers \/ Schedule(Discovery) \/ Schedule(s)
      BY <1>11 DEF Receive
    <3> QED BY <3>1, Scheduling DEF Typed, Key, timers
  <2>5. CASE s = r /\ kind = "dir"
    <3>1. Schedule(Discovery)
      BY <1>11, <2>2, <2>5 DEF Receive, Gone
    <3> QED BY <3>1, Scheduling DEF Typed, GoneReason
  <2>6. CASE s # r \/ kind # "dir"
    <3>1. <<"dir", r>> \in events => <<"dir", r>> \in events'
      BY <2>3, <2>6
    <3> QED BY <1>0, <2>1, <2>2, <2>3, <2>4, <3>1 DEF GoneReason
  <2> QED BY <2>5, <2>6
<1>12. CASE Refresh
  <2>1. r \in Gone
    BY <1>12 DEF Refresh, Rediscover, Found, Gone, files, loop
  <2> QED BY <1>0, <1>12, <2>1 DEF Refresh, GoneReason, kernel, timers, loop, watch
<1>13. CASE Overflow
  BY <1>13 DEF Overflow, GoneReason
<1>14. ASSUME NEW s \in Root, Write(s) \/ MoveHead(s) \/ RemoveOrCreate(s)
       PROVE  GoneReason(r)' \/ r \in asked'
  <2>1. UNCHANGED <<roots, open, live, lost, permit, install, asked, due, pc, work>>
    BY <1>14 DEF Write, MoveHead, RemoveOrCreate, Report, files, engine, timers, loop, watch, asks
  <2>2. events \subseteq events'
    BY <1>14 DEF Write, MoveHead, RemoveOrCreate, Report
  <2>3. CASE r \in Gone
    BY <1>0, <2>1, <2>2, <2>3 DEF GoneReason
  <2>4. CASE r \notin Gone
    <3>1. s = r /\ RemoveOrCreate(r)
      BY <1>14, <2>1, <2>4 DEF Gone, Write, MoveHead, RemoveOrCreate, files
    <3>2. r \notin live \/ <<"dir", r>> \in events'
      BY <3>1 DEF RemoveOrCreate, Report
    <3> QED BY <2>1, <3>2 DEF GoneReason
  <2> QED BY <2>3, <2>4
<1>15. CASE Tick
  <2>1. \A k \in Key : due[k] # Never => due'[k] # Never
    BY <1>15, Times DEF Tick, Typed, TimersTyped
  <2> QED BY <1>0, <1>15, <2>1 DEF Tick, Gone, GoneReason, files, engine, kernel, loop, watch, asks
<1>16. CASE Ready \/ DeadlinePassed \/ HeadPoll
  <2>1. UNCHANGED <<roots, open, dir, live, lost, permit, install, asked, due, events>>
    BY <1>16 DEF Ready, DeadlinePassed, HeadPoll, files, engine, kernel, timers, watch, asks
  <2>2. pc \notin {"pass", "rescan", "catchup"}
    BY <1>16 DEF Ready, DeadlinePassed, HeadPoll, Woken
  <2> QED BY <1>0, <2>1, <2>2 DEF Gone, GoneReason
<1>17. CASE RequestRescan \/ PressReload \/ ReloadTask \/ UNCHANGED vars
  <2>1. /\ UNCHANGED <<roots, open, dir, live, lost, install, asked, due, events, pc, work>>
        /\ permit => permit'
    BY <1>17 DEF RequestRescan, PressReload, ReloadTask, ReloadSet, ReloadFlag, ReloadNotify,
       vars, files, engine, kernel, timers, loop, watch, asks
  <2> QED BY <1>0, <2>1 DEF Gone, GoneReason
<1> QED
  BY <1>1, <1>2, <1>3, <1>4, <1>5, <1>6, <1>7, <1>8, <1>9, <1>10, <1>11, <1>12, <1>13, <1>14,
     <1>15, <1>16, <1>17 DEF Next, Step, World

\* No directory comes back where one was.
NoneReturns == dir' \subseteq dir

\* What has been asked about is gone, and while it is open the discovery that
\* was asked for is still to run.
AskedAnswered ==
    /\ asked \cap dir = {}
    /\ asked \cap open # {} => permit \/ pc \in {"pass", "rescan"}

LEMMA AskedStep ==
    ASSUME AskedAnswered, Typed, [Next]_vars, [NoneReturns]_vars
    PROVE  AskedAnswered'
<1> USE DEF AskedAnswered
<1>0. dir' \subseteq dir
  BY DEF NoneReturns, vars, files
<1>1. CASE Launch
  BY <1>1 DEF Launch, Rediscover, Found, files
<1>2. CASE Announce
  BY <1>2 DEF Announce, AdoptRoots, files, engine, asks
<1>3. CASE EndPass
  BY <1>3 DEF EndPass, AdoptRoots, files, engine
<1>4. CASE BeginPass
  BY <1>4 DEF BeginPass, files, engine
<1>5. CASE Rescan
  BY <1>5 DEF Rescan, Rediscover, Found, files
<1>6. CASE Requested \/ Backstop
  BY <1>6 DEF Requested, Backstop, Woken, Then, files, engine
<1>7. ASSUME NEW s \in Root, CatchUp(s) \/ InspectHead(s) \/ ScanDue(s)
      PROVE  AskedAnswered'
  <2>1. UNCHANGED <<dir, open>> /\ pc \notin {"pass", "rescan"}
    BY <1>7 DEF CatchUp, InspectHead, ScanDue, LookAt, InspectRoot, ScanRoot, files, engine
  <2>2. \/ asked' \subseteq asked /\ permit' = permit
        \/ s \notin dir /\ Ask(s)
    BY <1>7 DEF CatchUp, InspectHead, ScanDue, LookAt, InspectRoot, ScanRoot, Settle
  <2>3. CASE asked' \subseteq asked /\ permit' = permit
    BY <2>1, <2>3
  <2>4. CASE s \notin dir /\ Ask(s)
    <3>1. asked' = asked \cup {s} /\ permit' = (permit \/ s \notin asked)
      BY <2>4 DEF Ask
    <3>2. CASE s \in asked
      BY <2>1, <3>1, <3>2
    <3>3. CASE s \notin asked
      BY <2>1, <2>4, <3>1, <3>3
    <3> QED BY <3>2, <3>3
  <2> QED BY <2>2, <2>3, <2>4
<1>8. CASE Refresh
  BY <1>8 DEF Refresh, Rediscover, Found, files, loop
<1>9. CASE ReceiveLost \/ DeadlinePassed \/ Installed \/ Ready \/ HeadPoll \/ Tick
  <2>1. UNCHANGED <<dir, open, asked, permit>> /\ pc \notin {"pass", "rescan"}
    BY <1>9 DEF ReceiveLost, DeadlinePassed, Installed, Ready, HeadPoll, Tick, Woken, files,
       engine, loop, asks
  <2> QED BY <2>1
<1>10. ASSUME NEW s \in Root, \E kind \in Kind : Receive(kind, s)
       PROVE  AskedAnswered'
  <2>1. UNCHANGED <<dir, open, asked, permit>> /\ pc \notin {"pass", "rescan"}
    BY <1>10 DEF Receive, files, engine, asks
  <2> QED BY <2>1
<1>11. CASE InstallFinishes \/ RequestRescan \/ PressReload \/ ReloadTask \/ World \/ UNCHANGED vars
  <2>1. UNCHANGED <<open, asked, pc>> /\ (permit => permit')
    BY <1>11 DEF InstallFinishes, RequestRescan, PressReload, ReloadTask, ReloadSet, ReloadFlag,
       ReloadNotify, World, Overflow, Write, MoveHead, RemoveOrCreate, vars, engine, loop, asks
  <2> QED BY <1>0, <2>1
<1> QED
  BY <1>1, <1>2, <1>3, <1>4, <1>5, <1>6, <1>7, <1>8, <1>9, <1>10, <1>11 DEF Next, Step

\* For any number of roots and whatever happens around the loop: once it has
\* nothing left to do, a watched root whose directory is gone has left the
\* engine, without the backstop, or a scan had found it gone before and the
\* directory came back in between without being scanned (gone_asked keeps the
\* root until a scan finds it again).  Where no directory comes back, it has
\* left.
THEOREM GoneRootsAreNoticed ==
    /\ Spec => [](Quiet => (roots \cap open \cap live) \ dir \subseteq asked)
    /\ Spec /\ [][NoneReturns]_vars => [](Quiet => roots \cap open \cap live \subseteq dir)
<1>1. Typed /\ [Next]_vars => Typed'
  BY SetsStep, VersionsStep, TimersStep, ControlStep, FlagsStep, TaskStep DEF Typed
<1>2. Typed /\ GoneNoticed /\ Quiet => (roots \cap open \cap live) \ dir \subseteq asked
  <2> SUFFICES ASSUME Typed, GoneNoticed, Quiet, NEW r \in (roots \cap open \cap live) \ dir
               PROVE  r \in asked
    OBVIOUS
  <2>1. r \in Gone /\ r \in Key /\ Discovery \in Key
    BY DEF Gone, Key, Typed, SetsTyped
  <2>2. ~GoneReason(r)
    BY <2>1 DEF GoneReason, Quiet
  <2> QED BY <2>1, <2>2 DEF GoneNoticed
<1>3. Typed /\ GoneNoticed /\ AskedAnswered /\ Quiet => roots \cap open \cap live \subseteq dir
  <2>1. Quiet => ~permit /\ pc = "select"
    BY DEF Quiet
  <2> QED BY <1>2, <2>1 DEF AskedAnswered
<1>4. Init => AskedAnswered
  BY DEF Init, AskedAnswered
<1>5. AskedAnswered /\ Typed /\ [Next]_vars /\ [NoneReturns]_vars => AskedAnswered'
  BY AskedStep
<1>6. Spec => [](Quiet => (roots \cap open \cap live) \ dir \subseteq asked)
  BY <1>1, <1>2, TypedInit, GoneInit, GoneStep, PTL DEF Spec
<1>7. Spec /\ [][NoneReturns]_vars => [](Quiet => roots \cap open \cap live \subseteq dir)
  BY <1>1, <1>3, <1>4, <1>5, TypedInit, GoneInit, GoneStep, PTL DEF Spec
<1> QED BY <1>6, <1>7

-----------------------------------------------------------------------------
(* A reported change is owed a scan.                                        *)

\* A scan of r is on its way: the report is still to be received, or every root
\* is to be scanned because reports were lost, or r has a deadline.
Owed(r) == <<"write", r>> \in events \/ lost \/ due[r] # Never

\* The step looks at the files of r, or r is not a root whose files it can see.
Scanned(r) == published'[r] = version[r] /\ UNCHANGED version
Left(r) == r \notin roots \cap open \cap dir \/ r \notin roots'

OwedUntilScanned ==
    \A r \in Root :
        /\ version'[r] # version[r] /\ r \in live => Owed(r)'
        /\ Owed(r) /\ ~Owed(r)' => Scanned(r) \/ Left(r)

\* The step of one root's scan, or of the look at its HEAD.
LEMMA ScanSteps ==
    ASSUME Typed, NEW s \in Root, CatchUp(s) \/ InspectHead(s) \/ ScanDue(s)
    PROVE  /\ UNCHANGED <<version, dir, open, roots, events, lost>>
           /\ \A r \in Root \ {s} : due'[r] = due[r] /\ window'[r] = window[r]
           /\ \/ due'[s] = due[s] /\ window'[s] = window[s]
              \/ window'[s] = Never /\ (Scanned(s) \/ s \notin open \cap dir)
<1>1. UNCHANGED <<version, dir, open, roots, events, lost>>
  BY DEF CatchUp, InspectHead, ScanDue, LookAt, InspectRoot, ScanRoot, files, kernel, engine
<1>2. /\ due' = due \/ due' = Cleared(due, {s})
      /\ window' = window \/ window' = Cleared(window, {s})
  BY DEF CatchUp, InspectHead, ScanDue, LookAt, InspectRoot, ScanRoot
<1>3. \A r \in Root : r \in Key
  BY DEF Key
<1>4. \A r \in Root \ {s} : due'[r] = due[r] /\ window'[r] = window[r]
  BY <1>2, <1>3 DEF Cleared
<1>5. \/ UNCHANGED timers
      \/ window' = Cleared(window, {s})
         /\ \/ s \notin open \cap dir
            \/ published' = [published EXCEPT ![s] = version[s]]
  BY DEF CatchUp, InspectHead, ScanDue, LookAt, InspectRoot, ScanRoot, timers
<1>6. Cleared(window, {s})[s] = Never
  BY <1>3 DEF Cleared
<1>7. published' = [published EXCEPT ![s] = version[s]] => published'[s] = version[s]
  BY DEF Typed, VersionsTyped
<1> QED
  BY <1>1, <1>4, <1>5, <1>6, <1>7 DEF Scanned, timers

LEMMA OwedStep ==
    ASSUME Typed, [Next]_vars
    PROVE  OwedUntilScanned
<1> SUFFICES ASSUME NEW r \in Root
             PROVE  /\ version'[r] # version[r] /\ r \in live => Owed(r)'
                    /\ Owed(r) /\ ~Owed(r)' => Scanned(r) \/ Left(r)
  BY DEF OwedUntilScanned
<1>0. r \in Key /\ r # Discovery /\ Discovery \in Key
  BY NamesAssumption DEF Key
<1>1. CASE Tick
  <2>1. UNCHANGED <<version, events, lost>> /\ due' = [k \in Key |-> Less(due[k])]
    BY <1>1 DEF Tick, files, kernel
  <2>2. due[r] # Never => due'[r] # Never
    BY <1>0, <2>1, Times DEF Typed, TimersTyped
  <2> QED BY <2>1, <2>2 DEF Owed
<1>2. ASSUME NEW s \in Root, NEW kind \in Kind, Receive(kind, s)
      PROVE  UNCHANGED version /\ (Owed(r) /\ ~Owed(r)' => Left(r))
  <2>1. UNCHANGED <<version, lost, roots>> /\ events' = events \ {<<kind, s>>}
    BY <1>2 DEF Receive, files
  <2>2. due[r] # Never => due'[r] # Never
    <3>1. due' = due \/ Schedule(Discovery) \/ Schedule(s)
      BY <1>2 DEF Receive, timers
    <3> QED BY <1>0, <3>1, Scheduling DEF Typed, Key
  <2>3. kind = "write" /\ s \in roots => due'[s] # Never
    <3>1. kind = "write" /\ s \in roots => Schedule(s)
      BY <1>2 DEF Receive
    <3> QED BY <3>1, Scheduling DEF Typed, Key
  <2> QED BY <2>1, <2>2, <2>3 DEF Owed, Left
<1>3. CASE ReceiveLost
  <2>1. UNCHANGED <<version, events, roots>> /\ due' = DueNow(roots)
    BY <1>3 DEF ReceiveLost, files
  <2>2. r \in roots => due'[r] # Never
    BY <1>0, <2>1, NamesAssumption DEF DueNow
  <2> QED BY <2>1, <2>2 DEF Owed, Left
<1>4. CASE BeginPass
  <2>1. UNCHANGED <<version, events, lost>> /\ due' = Cleared(due, {Discovery})
    BY <1>4 DEF BeginPass, files, kernel
  <2>2. due'[r] = due[r]
    BY <1>0, <2>1 DEF Cleared
  <2> QED BY <2>1, <2>2 DEF Owed
<1>5. CASE EndPass
  <2>1. UNCHANGED <<version, events, lost>>
        /\ due' = [k \in Key |-> IF k \in roots' THEN 0 ELSE IF k \in Root THEN Never ELSE due[k]]
    BY <1>5 DEF EndPass, files, kernel
  <2>2. r \in roots' => due'[r] # Never
    BY <1>0, <2>1, NamesAssumption
  <2> QED BY <2>1, <2>2 DEF Owed, Left
<1>6. ASSUME NEW s \in Root, CatchUp(s) \/ InspectHead(s) \/ ScanDue(s)
      PROVE  UNCHANGED version /\ (Owed(r) /\ ~Owed(r)' => Scanned(r) \/ Left(r))
  <2>1. CASE r # s
    BY <1>6, <2>1, ScanSteps DEF Owed
  <2>2. CASE r = s
    BY <1>6, <2>2, ScanSteps DEF Owed, Left
  <2> QED BY <2>1, <2>2
<1>7. CASE Launch \/ Rescan \/ Announce \/ Requested \/ DeadlinePassed \/ Backstop \/ HeadPoll
           \/ Installed \/ Ready
  <2>1. UNCHANGED <<version, events, lost, due>>
    BY <1>7 DEF Launch, Rescan, Announce, Requested, DeadlinePassed, Backstop, HeadPoll,
       Installed, Ready, files, kernel, timers
  <2> QED BY <2>1 DEF Owed
<1>8. CASE Refresh \/ InstallFinishes \/ RequestRescan \/ PressReload \/ ReloadTask
  <2>1. UNCHANGED <<version, events, lost, due>>
    BY <1>8 DEF Refresh, InstallFinishes, RequestRescan, PressReload, ReloadTask, ReloadSet,
       ReloadFlag, ReloadNotify, files, kernel, timers
  <2> QED BY <2>1 DEF Owed
<1>9. ASSUME NEW s \in Root, Write(s)
      PROVE  /\ version'[r] # version[r] /\ r \in live => Owed(r)'
             /\ Owed(r) => Owed(r)'
  <2>1. UNCHANGED <<lost, due>> /\ Report("write", s)
        /\ (version' = version \/ version' = [version EXCEPT ![s] = @ + 1])
    BY <1>9 DEF Write, timers, Report
  <2>2. version'[r] # version[r] => r = s
    BY <2>1 DEF Typed, VersionsTyped
  <2> QED BY <2>1, <2>2 DEF Owed, Report
<1>10. ASSUME NEW s \in Root, MoveHead(s) \/ RemoveOrCreate(s)
       PROVE  UNCHANGED version /\ (Owed(r) => Owed(r)')
  <2>1. UNCHANGED <<version, lost, due>> /\ \E kind \in Kind : Report(kind, s)
    BY <1>10 DEF MoveHead, RemoveOrCreate, files, timers, Report, Kind
  <2> QED BY <2>1 DEF Owed, Report
<1>11. CASE Overflow
  BY <1>11 DEF Overflow, Owed, files
<1>12. CASE UNCHANGED vars
  BY <1>12 DEF vars, files, kernel, timers, Owed
<1> QED
  BY <1>1, <1>2, <1>3, <1>4, <1>5, <1>6, <1>7, <1>8, <1>9, <1>10, <1>11, <1>12 DEF Next, Step, World

LEMMA TypedStep == Typed /\ [Next]_vars => Typed'
BY SetsStep, VersionsStep, TimersStep, ControlStep, FlagsStep, TaskStep DEF Typed

\* For any number of roots, repositories and watched folders alike, and any
\* timings: a change under a live watch is owed a scan from the moment it
\* happens, through overflows, reloads and root sets that change, and what is
\* owed stays owed until a step has published the files as they then are, or
\* the root has left the loop or the engine, or is gone.
THEOREM ReportedIsScanned == Spec => [][OwedUntilScanned]_vars
<1>1. Typed /\ [Next]_vars => [OwedUntilScanned]_vars
  BY OwedStep
<1> QED
  BY <1>1, TypedInit, TypedStep, PTL DEF Spec

\* A window that is open bounds a deadline.
WindowBounds(d, w) == w # Never => d # Never /\ d \leq w
BurstsBounded == \A r \in Root : WindowBounds(due[r], window[r])

\* A burst's window only gets shorter, until a step looks at the files or the
\* root is no longer one whose files can be seen.
BurstIsCut ==
    \A r \in Root : window[r] # Never =>
        \/ window'[r] # Never /\ window'[r] \leq window[r]
        \/ Scanned(r) \/ Left(r)

\* What time and an event do to a window and its deadline.
LEMMA WindowTicks ==
    ASSUME NEW d \in Time(Debounce), NEW w \in Time(DebounceMax), WindowBounds(d, w)
    PROVE  /\ WindowBounds(Less(d), Less(w))
           /\ w # Never => Less(w) # Never /\ Less(w) \leq w
<1>1. CASE w = Never
  BY <1>1, TimingAssumption, NamesAssumption DEF WindowBounds, Less, Time
<1>2. CASE w # Never
  <2>1. w \in 0..DebounceMax /\ d \in 0..Debounce /\ d \leq w /\ w \in Nat /\ d \in Nat
    BY <1>2, TimingAssumption DEF WindowBounds, Time
  <2>2. Less(w) = (IF w = 0 THEN 0 ELSE w - 1) /\ Less(d) = (IF d = 0 THEN 0 ELSE d - 1)
    BY <2>1, NamesAssumption DEF Less
  <2>3. Less(w) \in Nat /\ Less(d) \in Nat /\ Less(d) \leq Less(w) /\ Less(w) \leq w
    BY <2>1, <2>2
  <2> QED BY <2>3, NamesAssumption DEF WindowBounds
<1> QED BY <1>1, <1>2

LEMMA WindowSchedules ==
    ASSUME TimersTyped, NEW k \in Key, Schedule(k)
    PROVE  /\ WindowBounds(due'[k], window'[k])
           /\ window[k] # Never => window'[k] = window[k]
           /\ \A r \in Key \ {k} : due'[r] = due[r] /\ window'[r] = window[r]
<1> DEFINE left == IF window[k] = Never THEN DebounceMax ELSE window[k]
           soon == IF left < Debounce THEN left ELSE Debounce
<1>1. left \in Nat
  BY TimingAssumption DEF TimersTyped, Time
<1>2. soon \in Nat /\ soon \leq left
  BY <1>1, TimingAssumption
<1>3. window' = [window EXCEPT ![k] = left] /\ due' = [due EXCEPT ![k] = soon]
  BY DEF Schedule
<1>4. window[k] # Never => left = window[k]
  OBVIOUS
<1> HIDE DEF left, soon
<1>5. window'[k] = left /\ due'[k] = soon
      /\ \A r \in Key \ {k} : due'[r] = due[r] /\ window'[r] = window[r]
  BY <1>3 DEF TimersTyped
<1> QED BY <1>2, <1>4, <1>5, NamesAssumption DEF WindowBounds

LEMMA BurstStep ==
    ASSUME Typed, BurstsBounded, [Next]_vars
    PROVE  BurstsBounded' /\ BurstIsCut
<1> SUFFICES ASSUME NEW r \in Root
             PROVE  /\ WindowBounds(due'[r], window'[r])
                    /\ window[r] # Never =>
                          \/ window'[r] # Never /\ window'[r] \leq window[r]
                          \/ Scanned(r) \/ Left(r)
  BY DEF BurstsBounded, BurstIsCut
<1> DEFINE Cut == window[r] # Never => window'[r] # Never /\ window'[r] \leq window[r]
<1>0. /\ r \in Key /\ r # Discovery /\ Discovery \in Key
      /\ due[r] \in Time(Debounce) /\ window[r] \in Time(DebounceMax)
      /\ WindowBounds(due[r], window[r])
  BY NamesAssumption DEF Key, Typed, TimersTyped, BurstsBounded
<1>13. /\ window[r] # Never => window[r] \in Nat /\ window[r] \leq window[r]
       /\ WindowBounds(0, window[r])
  BY <1>0, NamesAssumption, TimingAssumption DEF Time, WindowBounds
<1>14. UNCHANGED timers => WindowBounds(due'[r], window'[r]) /\ Cut
  BY <1>0, <1>13 DEF timers
<1> HIDE DEF Cut
<1>1. CASE Tick
  <2>1. due'[r] = Less(due[r]) /\ window'[r] = Less(window[r])
    BY <1>0, <1>1 DEF Tick
  <2> QED BY <1>0, <2>1, WindowTicks
<1>2. ASSUME NEW s \in Root, NEW kind \in Kind, Receive(kind, s)
      PROVE  WindowBounds(due'[r], window'[r]) /\ Cut
  <2>1. UNCHANGED timers \/ Schedule(Discovery) \/ Schedule(s)
    BY <1>2 DEF Receive
  <2>2. ASSUME NEW k \in Key, Schedule(k) PROVE WindowBounds(due'[r], window'[r]) /\ Cut
    <3>1. CASE k = r
      BY <1>13, <2>2, <3>1, WindowSchedules DEF Typed, Cut
    <3>2. CASE k # r
      BY <1>0, <1>13, <2>2, <3>2, WindowSchedules DEF Typed, Cut
    <3> QED BY <3>1, <3>2
  <2> QED BY <1>0, <1>14, <2>1, <2>2 DEF Key
<1>3. CASE ReceiveLost
  <2>1. due' = DueNow(roots) /\ window' = window
    BY <1>3 DEF ReceiveLost
  <2>2. due'[r] \in {0, due[r]} /\ window'[r] = window[r]
    BY <1>0, <2>1 DEF DueNow
  <2> QED BY <1>0, <1>13, <2>2
<1>4. CASE BeginPass
  <2>1. due' = Cleared(due, {Discovery}) /\ window' = Cleared(window, {Discovery})
    BY <1>4 DEF BeginPass
  <2>2. due'[r] = due[r] /\ window'[r] = window[r]
    BY <1>0, <2>1 DEF Cleared
  <2> QED BY <1>0, <1>13, <2>2
<1>5. CASE EndPass
  <2>1. /\ due' = [k \in Key |-> IF k \in roots' THEN 0 ELSE IF k \in Root THEN Never ELSE due[k]]
        /\ window' = Cleared(window, Root \ roots')
    BY <1>5 DEF EndPass
  <2>2. CASE r \in roots'
    <3>1. due'[r] = 0 /\ window'[r] = window[r]
      BY <1>0, <2>1, <2>2 DEF Cleared
    <3> QED BY <1>13, <3>1
  <2>3. CASE r \notin roots'
    <3>1. window'[r] = Never
      BY <1>0, <2>1, <2>3 DEF Cleared
    <3> QED BY <2>3, <3>1 DEF Left, WindowBounds
  <2> QED BY <2>2, <2>3
<1>6. ASSUME NEW s \in Root, CatchUp(s) \/ InspectHead(s) \/ ScanDue(s)
      PROVE  WindowBounds(due'[r], window'[r]) /\ (Cut \/ Scanned(r) \/ Left(r))
  <2>1. CASE due'[r] = due[r] /\ window'[r] = window[r]
    BY <1>0, <1>13, <2>1 DEF Cut
  <2>2. CASE r = s /\ window'[s] = Never /\ (Scanned(s) \/ s \notin open \cap dir)
    BY <2>2 DEF Left, WindowBounds
  <2>3. \/ due'[r] = due[r] /\ window'[r] = window[r]
        \/ r = s /\ window'[s] = Never /\ (Scanned(s) \/ s \notin open \cap dir)
    BY <1>6, ScanSteps
  <2> QED BY <2>1, <2>2, <2>3
<1>7. CASE Launch \/ Rescan \/ Announce \/ Requested \/ DeadlinePassed \/ Backstop \/ HeadPoll
           \/ Installed \/ Ready
  <2>1. UNCHANGED timers
    BY <1>7 DEF Launch, Rescan, Announce, Requested, DeadlinePassed, Backstop, HeadPoll,
       Installed, Ready
  <2> QED BY <1>14, <2>1 DEF Cut
<1>8. CASE Refresh \/ InstallFinishes \/ RequestRescan \/ PressReload \/ ReloadTask \/ World
           \/ UNCHANGED vars
  <2>1. UNCHANGED timers
    BY <1>8 DEF Refresh, InstallFinishes, RequestRescan, PressReload, ReloadTask, ReloadSet,
       ReloadFlag, ReloadNotify, World, Overflow, Write, MoveHead, RemoveOrCreate, vars
  <2> QED BY <1>14, <2>1 DEF Cut
<1> QED
  BY <1>1, <1>2, <1>3, <1>4, <1>5, <1>6, <1>7, <1>8 DEF Next, Step, Cut

\* For any number of roots and any timings: the deadline of a burst lies within
\* the window its first event opened, however many events follow, and that
\* window is not opened anew before the root was scanned, unless it has left.  So
\* writes to a root that never pause do not postpone its scan past the cap.
THEOREM BurstsAreCut == Spec => []BurstsBounded /\ [][BurstIsCut]_vars
<1>1. Init => BurstsBounded
  BY NamesAssumption DEF Init, BurstsBounded, WindowBounds, Key
<1>2. Typed /\ BurstsBounded /\ [Next]_vars => BurstsBounded' /\ [BurstIsCut]_vars
  BY BurstStep
<1> QED
  BY <1>1, <1>2, TypedInit, TypedStep, PTL DEF Spec

=============================================================================
