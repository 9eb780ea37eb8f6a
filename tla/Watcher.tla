------------------------------- MODULE Watcher -------------------------------
(* The watcher loop: file-system events in, scans of the roots out.        *)
(*                                                                         *)
(* One task waits for what comes first (an event, a timer, a request, the  *)
(* end of a watch installation), notes what is due, then runs a discovery  *)
(* pass if one is asked for, the head inspections, and the scans whose     *)
(* deadline has passed.  Other tasks use the same engine between any two   *)
(* of its calls: a refresh scans everything, a reload replaces settings.   *)
(*                                                                         *)
(* Each engine call is one step: it runs under the engine's mutex.  What a *)
(* scan finds is the version of the root's files.  Time is counted in      *)
(* units of the debounce.  The channel to the screen has its own module.   *)
EXTENDS Naturals

CONSTANTS
    Root,         \* directories that are, or may become, roots
    Discovery,    \* the deadline that is for a discovery pass, not for a root
    Never,        \* no deadline
    Debounce,     \* EngineTimings::debounce
    DebounceMax,  \* EngineTimings::debounce_max
    MaxVersion,   \* bound on the changes of a root's files that matter
    MaxMoves      \* bound on what else happens around the loop

ASSUME TimingAssumption ==
    /\ Debounce \in Nat \ {0} /\ DebounceMax \in Nat
    /\ Debounce \leq DebounceMax
ASSUME BoundsAssumption == MaxVersion \in Nat /\ MaxMoves \in Nat
ASSUME NamesAssumption == Discovery \notin Root /\ Never \notin Nat

VARIABLES
    dir,        \* roots whose directory exists
    version,    \* version[r]: of the files in r
    git,        \* roots that are repositories
    open,       \* roots the engine has open
    skip,       \* roots the settings in force leave out
    headMoved,  \* repositories whose HEAD is not the one last reported
    pending,    \* a scan_all outside the loop changed the root set
    live,       \* roots a registered watch covers
    events,     \* events the loop has yet to receive
    lost,       \* the watcher has an error or an overflow to report
    pc,         \* the loop's next step
    roots,      \* the roots the loop knows
    due,        \* due[k]: time left until k's scan (or discovery)
    window,     \* window[k]: time left until k's burst must be cut
    headDue,    \* roots whose HEAD is to be inspected
    pass,       \* the pass that runs is a reload's
    changed,    \* the pass that runs found another root set
    work,       \* roots the step in hand has still to go through
    asked,      \* roots found gone, a discovery asked for
    published,  \* published[r]: version of r's last pile
    install,    \* the watch installation: none, running, done
    target,     \* the roots it is for
    reinstall,  \* it is to be done again
    permit,     \* a rescan was requested
    flag,       \* the request is a reload's
    task,       \* the reload task's place in ReloadOrder, 0 when it is done
    reloading,  \* the screen waits for a reload's two answers
    moves       \* what has happened around the loop so far

files  == <<dir, version, git>>
engine == <<open, skip, headMoved, pending>>
kernel == <<live, events, lost>>
timers == <<due, window>>
loop   == <<pc, roots, headDue, pass, changed, work, asked, published>>
watch  == <<install, target, reinstall>>
asks   == <<permit, flag, task, reloading>>
vars   == <<files, engine, kernel, timers, loop, watch, asks, moves>>

Key == Root \cup {Discovery}
Kind == {"write", "head", "dir"}
Time(max) == 0..max \cup {Never}

TypeOK ==
    /\ dir \subseteq Root /\ git \subseteq Root /\ skip \subseteq Root
    /\ version \in [Root -> 0..MaxVersion]
    /\ open \subseteq Root /\ roots \subseteq Root /\ target \subseteq Root
    /\ headMoved \subseteq git /\ headDue \subseteq Root
    /\ live \subseteq Root /\ work \subseteq Root /\ asked \subseteq Root
    /\ events \subseteq Kind \X Root
    /\ due \in [Key -> Time(Debounce)]
    /\ window \in [Key -> Time(DebounceMax)]
    /\ published \in [Root -> 0..MaxVersion]
    /\ pc \in {"launch", "announce", "select", "catchup", "pass", "rescan", "adopt", "heads",
               "scans"}
    /\ install \in {"none", "running", "done"}
    /\ task \in 0..3
    /\ pending \in BOOLEAN /\ lost \in BOOLEAN /\ pass \in BOOLEAN /\ changed \in BOOLEAN
    /\ reinstall \in BOOLEAN /\ permit \in BOOLEAN /\ flag \in BOOLEAN
    /\ reloading \in BOOLEAN
    /\ moves \in 0..MaxMoves

Found == dir \ skip

Move == moves < MaxMoves /\ moves' = moves + 1

Init ==
    /\ dir \in SUBSET Root
    /\ git \in {{}, Root}
    /\ version = [r \in Root |-> 0]
    /\ skip = {}
    /\ open = dir /\ roots = dir /\ target = dir
    /\ headMoved = {} /\ pending = FALSE
    /\ live = {} /\ events = {} /\ lost = FALSE
    /\ pc = "launch"
    /\ due = [k \in Key |-> Never]
    /\ window = [k \in Key |-> Never]
    /\ headDue = {} /\ pass = FALSE /\ changed = FALSE
    /\ work = {} /\ asked = {}
    /\ published = [r \in Root |-> 0]
    /\ install = "running" /\ reinstall = FALSE
    /\ permit = FALSE /\ flag = FALSE /\ task = 0 /\ reloading = FALSE
    /\ moves = 0

-----------------------------------------------------------------------------
(* Deadlines.                                                              *)

\* A wrong variant: every event postpones the deadline.
ScheduleUncapped(k) ==
    /\ window' = [window EXCEPT ![k] = IF @ = Never THEN DebounceMax ELSE @]
    /\ due' = [due EXCEPT ![k] = Debounce]

\* schedule: a debounce after this event, but within the burst's window.
Schedule(k) ==
    LET left == IF window[k] = Never THEN DebounceMax ELSE window[k]
    IN  /\ window' = [window EXCEPT ![k] = left]
        /\ due' = [due EXCEPT ![k] = IF left < Debounce THEN left ELSE Debounce]

Cleared(f, K) == [k \in Key |-> IF k \in K THEN Never ELSE f[k]]
DueNow(K) == [k \in Key |-> IF k \in K THEN 0 ELSE due[k]]

Less(t) == IF t \in {0, Never} THEN t ELSE t - 1

\* Time passes while the loop waits; what passes during its work counts before
\* or after it.
Tick ==
    /\ pc = "select"
    /\ \E k \in Key : Less(due[k]) # due[k] \/ Less(window[k]) # window[k]
    /\ due' = [k \in Key |-> Less(due[k])]
    /\ window' = [k \in Key |-> Less(window[k])]
    /\ UNCHANGED <<files, engine, kernel, loop, watch, asks, moves>>

-----------------------------------------------------------------------------
(* Engine calls of the loop and what they leave it.                        *)

\* ask_discovery: once per root found gone, until the root is settled.
Ask(r) ==
    /\ asked' = asked \cup {r}
    /\ permit' = (permit \/ r \notin asked)

\* settle, after a scan that did not find the root gone.
Settle(r) == asked' = asked \ {r} /\ UNCHANGED permit

\* scan_root: the pile, or a discovery asked for, or (a root the engine has
\* dropped meanwhile) a notice.
ScanRoot(r) ==
    /\ IF r \in open /\ r \notin dir THEN Ask(r) ELSE Settle(r)
    /\ published' = IF r \in open \cap dir THEN [published EXCEPT ![r] = version[r]]
                    ELSE published
    /\ UNCHANGED engine

\* inspect_root: scans only a root whose HEAD moved.
InspectRoot(r) ==
    /\ IF r \notin dir THEN Ask(r) ELSE UNCHANGED <<asked, permit>>
    /\ IF r \in dir \cap open \cap headMoved
       THEN /\ headMoved' = headMoved \ {r}
            /\ published' = [published EXCEPT ![r] = version[r]]
            /\ window' = Cleared(window, {r})
       ELSE UNCHANGED <<headMoved, published, window>>
    /\ UNCHANGED <<open, skip, pending, due>>

\* A wrong variant: a new root is opened, a gone one stays.
RediscoverKeeps ==
    /\ open' = open \cup Found
    /\ headMoved' = headMoved \cap open

\* rescan: what discovery does not find is dropped, what it newly finds is
\* opened at its HEAD of now.
Rediscover ==
    /\ open' = Found
    /\ headMoved' = headMoved \cap open \cap Found

\* A wrong variant: an installation in flight is left to finish alone.
InstallOnce(R) ==
    IF install = "none"
    THEN install' = "running" /\ target' = R /\ UNCHANGED reinstall
    ELSE UNCHANGED watch

\* adopt_roots: the watches are installed anew, after the one in flight.
InstallFor(R) ==
    IF install = "none"
    THEN install' = "running" /\ target' = R /\ UNCHANGED reinstall
    ELSE reinstall' = TRUE /\ UNCHANGED <<install, target>>

\* adopt_roots: the engine's root set; nothing stays due for one that left.
AdoptRoots ==
    /\ roots' = open
    /\ headDue' = headDue \cap open
    /\ asked' = asked \cap open
    /\ InstallFor(open)

-----------------------------------------------------------------------------
(* The launch.                                                             *)

\* The initial scan_all; a scan that sees a nested repository come or go runs
\* discovery in there and the loop is told.
Launch ==
    /\ pc = "launch"
    /\ \/ UNCHANGED <<open, headMoved>> /\ changed' = FALSE
       \/ open # Found /\ Rediscover /\ changed' = TRUE
    /\ published' = [r \in Root |-> IF r \in open' \cap dir THEN version[r] ELSE published[r]]
    /\ asked' = open \ dir
    /\ permit' = (permit \/ open \ dir # {})
    /\ pc' = "announce"
    /\ UNCHANGED <<files, skip, pending, kernel, timers, roots, headDue, pass, work,
                   watch, flag, task, reloading, moves>>

Announce ==
    /\ pc = "announce"
    /\ IF changed THEN AdoptRoots ELSE UNCHANGED <<roots, headDue, asked, watch>>
    /\ changed' = FALSE
    /\ pc' = "select"
    /\ UNCHANGED <<files, engine, kernel, timers, pass, work, published, asks, moves>>

-----------------------------------------------------------------------------
(* select!: what the loop wakes for.                                       *)

\* A pass runs if one is asked for, by whatever woke the loop or by a removal
\* whose deadline has passed.
Then(rescan, left) == IF rescan \/ left[Discovery] = 0 THEN "pass" ELSE "heads"

Woken(rescan) == pc = "select" /\ pc' = Then(rescan, due)

\* An event is classified when it is received: one of a root's own directory
\* by whether that is still there, one of a root the loop does not know is
\* ignored.
Receive(kind, r) ==
    /\ pc = "select"
    /\ <<kind, r>> \in events
    /\ events' = events \ {<<kind, r>>}
    /\ IF r \notin roots THEN UNCHANGED <<timers, headDue>>
       ELSE CASE kind = "head" -> headDue' = headDue \cup {r} /\ UNCHANGED timers
              [] kind = "dir" /\ r \notin dir -> Schedule(Discovery) /\ UNCHANGED headDue
              [] OTHER -> Schedule(r) /\ UNCHANGED headDue
    /\ pc' = Then(FALSE, due')
    /\ UNCHANGED <<files, engine, live, lost, roots, pass, changed, work, asked,
                   published, watch, asks, moves>>

\* An error of the watcher, or events it had no room for: every root is due.
ReceiveLost ==
    /\ Woken(FALSE)
    /\ lost
    /\ lost' = FALSE
    /\ due' = DueNow(roots)
    /\ UNCHANGED <<files, engine, live, events, window, roots, headDue, pass, changed,
                   work, asked, published, watch, asks, moves>>

HeadPoll ==
    /\ Woken(FALSE)
    /\ headDue' = headDue \cup (roots \cap git)
    /\ UNCHANGED <<files, engine, kernel, timers, roots, pass, changed, work, asked,
                   published, watch, asks, moves>>

Backstop ==
    /\ Woken(TRUE)
    /\ UNCHANGED <<files, engine, kernel, timers, roots, headDue, pass, changed, work, asked,
                   published, watch, asks, moves>>

\* Requests coalesce in one permit.
Requested ==
    /\ Woken(TRUE)
    /\ permit
    /\ permit' = FALSE
    /\ UNCHANGED <<files, engine, kernel, timers, roots, headDue, pass, changed, work, asked,
                   published, watch, flag, task, reloading, moves>>

DeadlinePassed ==
    /\ Woken(FALSE)
    /\ \E k \in Key : due[k] = 0
    /\ UNCHANGED <<files, engine, kernel, timers, roots, headDue, pass, changed, work,
                   asked, published, watch, asks, moves>>

\* The installation is done: once more if the roots changed under it, else
\* every root is looked at once.
Installed ==
    /\ pc = "select"
    /\ install = "done"
    /\ IF reinstall
       THEN /\ install' = "running" /\ target' = roots /\ reinstall' = FALSE
            /\ pc' = Then(FALSE, due)
            /\ UNCHANGED work
       ELSE /\ install' = "none"
            /\ pc' = IF roots = {} THEN Then(FALSE, due) ELSE "catchup"
            /\ work' = roots
            /\ UNCHANGED <<target, reinstall>>
    /\ UNCHANGED <<files, engine, kernel, timers, roots, headDue, pass, changed, asked,
                   published, asks, moves>>

\* A wrong variant: every root is treated as a repository.
LookAtHead(r) == InspectRoot(r)

\* HEAD of a repository is inspected, a watched folder is scanned.
LookAt(r) ==
    IF r \in git THEN InspectRoot(r)
    ELSE ScanRoot(r) /\ window' = Cleared(window, {r}) /\ UNCHANGED due

\* The gap between a root's scan and its watch.
CatchUp(r) ==
    /\ pc = "catchup"
    /\ r \in work
    /\ work' = work \ {r}
    /\ pc' = IF work' = {} THEN Then(FALSE, due) ELSE pc
    /\ LookAt(r)
    /\ UNCHANGED <<files, kernel, roots, headDue, pass, changed, watch, flag, task,
                   reloading, moves>>

-----------------------------------------------------------------------------
(* The discovery pass.                                                     *)

\* Any pass covers the one a removal asked for.  The flag is taken before the
\* engine is called.
BeginPass ==
    /\ pc = "pass"
    /\ due' = Cleared(due, {Discovery})
    /\ window' = Cleared(window, {Discovery})
    /\ pass' = flag
    /\ flag' = FALSE
    /\ pc' = "rescan"
    /\ UNCHANGED <<files, engine, kernel, roots, headDue, changed, work, asked, published, watch,
                   permit, task, reloading, moves>>

\* What a scan_all outside the loop promoted is announced with this pass.
Rescan ==
    /\ pc = "rescan"
    /\ Rediscover
    /\ pending' = FALSE
    /\ changed' = (pending \/ open # Found)
    /\ pc' = "adopt"
    /\ UNCHANGED <<files, skip, kernel, timers, roots, headDue, pass, work, asked,
                   published, watch, asks, moves>>

\* A wrong variant: only another root set is announced.
AnnouncedIfChanged == changed

\* RootsChanged is sent for another root set, and for a reload even with the
\* same one.
Announced == changed \/ pass

\* Another root set is adopted, and announced.  Then every root is due.
EndPass ==
    /\ pc = "adopt"
    /\ IF changed THEN AdoptRoots ELSE UNCHANGED <<roots, headDue, asked, watch>>
    /\ due' = [k \in Key |-> IF k \in roots' THEN 0 ELSE IF k \in Root THEN Never ELSE due[k]]
    /\ window' = Cleared(window, Root \ roots')
    /\ reloading' = (reloading /\ ~(pass /\ Announced))
    /\ pass' = FALSE
    /\ changed' = FALSE
    /\ pc' = "heads"
    /\ UNCHANGED <<files, engine, kernel, work, published, permit, flag, task, moves>>

-----------------------------------------------------------------------------
(* The drain: heads first, then the scans whose deadline has passed.       *)

InspectHead(r) ==
    /\ pc = "heads"
    /\ r \in headDue
    /\ headDue' = headDue \ {r}
    /\ InspectRoot(r)
    /\ UNCHANGED <<files, kernel, pc, roots, pass, changed, work, watch, flag, task,
                   reloading, moves>>

Ready ==
    /\ pc = "heads"
    /\ headDue = {}
    /\ work' = {r \in Root : due[r] = 0}
    /\ pc' = IF work' = {} THEN "select" ELSE "scans"
    /\ UNCHANGED <<files, engine, kernel, timers, roots, headDue, pass, changed, asked,
                   published, watch, asks, moves>>

ScanDue(r) ==
    /\ pc = "scans"
    /\ r \in work
    /\ work' = work \ {r}
    /\ pc' = IF work' = {} THEN "select" ELSE pc
    /\ due' = Cleared(due, {r})
    /\ window' = Cleared(window, {r})
    /\ ScanRoot(r)
    /\ UNCHANGED <<files, kernel, roots, headDue, pass, changed, watch, flag, task,
                   reloading, moves>>

-----------------------------------------------------------------------------
(* Tasks beside the loop.                                                  *)

\* The blocking task that registers the watches; any of them may fail.
InstallFinishes ==
    /\ install = "running"
    /\ install' = "done"
    /\ live' \in SUBSET target
    /\ UNCHANGED <<files, engine, events, lost, timers, loop, target, reinstall, asks, moves>>

\* Refresh: a scan_all of the screen's.  It may run discovery, whose outcome
\* is kept for the loop, and asks for a pass when a folder is gone.
Refresh ==
    /\ pc # "launch"
    /\ \/ UNCHANGED <<open, headMoved, pending>>
       \/ open # Found /\ Rediscover /\ pending' = TRUE
    /\ permit' = (permit \/ open \ dir # {})
    /\ open' # open \/ permit' # permit
    /\ UNCHANGED <<files, skip, kernel, timers, loop, watch, flag, task, reloading, moves>>

\* A rescan asked for by a worktree event of the terminal's host.
RequestRescan ==
    /\ Move
    /\ ~permit
    /\ permit' = TRUE
    /\ UNCHANGED <<files, engine, kernel, timers, loop, watch, flag, task, reloading>>

\* `R`, one at a time (the previous task has nothing left to do).
PressReload ==
    /\ Move
    /\ ~reloading
    /\ task = 0
    /\ reloading' = TRUE
    /\ task' = 1
    /\ UNCHANGED <<files, engine, kernel, timers, loop, watch, permit, flag>>

\* A wrong variant: the request is made before the settings are in force.
ReloadFlagsFirst == <<"flag", "set", "notify">>

\* spawn_reload: the settings, then request_reload's flag and permit.
ReloadOrder == <<"set", "flag", "notify">>

Doing(what) == task > 0 /\ ReloadOrder[task] = what /\ task' = (task + 1) % 4

\* Engine::reload, under the lock; a file that does not load ends it.
ReloadSet ==
    /\ \/ Doing("set") /\ skip' \in SUBSET Root /\ UNCHANGED reloading
       \/ /\ task > 0 /\ ReloadOrder[task] = "set"
          /\ task' = 0 /\ reloading' = FALSE /\ UNCHANGED skip
    /\ UNCHANGED <<files, open, headMoved, pending, kernel, timers, loop, watch, permit, flag,
                   moves>>

\* request_reload: the flag, then the permit.
ReloadFlag ==
    /\ Doing("flag")
    /\ flag' = TRUE
    /\ UNCHANGED <<files, engine, kernel, timers, loop, watch, permit, reloading, moves>>

ReloadNotify ==
    /\ Doing("notify")
    /\ permit' = TRUE
    /\ UNCHANGED <<files, engine, kernel, timers, loop, watch, flag, reloading, moves>>

-----------------------------------------------------------------------------
(* The world.                                                              *)

\* A change under a live watch is reported; under none it may be (a watch of
\* the parent covers more than its roots).
Report(kind, r) ==
    /\ \/ events' = events \cup {<<kind, r>>}
       \/ r \notin live /\ UNCHANGED events
    /\ UNCHANGED <<live, lost>>

\* Files change, to something new or not.
Write(r) ==
    /\ r \in dir
    /\ Report("write", r)
    /\ \/ version[r] < MaxVersion /\ version' = [version EXCEPT ![r] = @ + 1]
       \/ UNCHANGED version
    /\ <<version, events>>' # <<version, events>>
    /\ UNCHANGED <<dir, git, engine, timers, loop, watch, asks, moves>>

MoveHead(r) ==
    /\ Move
    /\ r \in dir \cap git \cap open
    /\ r \notin headMoved
    /\ headMoved' = headMoved \cup {r}
    /\ Report("head", r)
    /\ UNCHANGED <<files, open, skip, pending, timers, loop, watch, asks>>

RemoveOrCreate(r) ==
    /\ Move
    /\ dir' = IF r \in dir THEN dir \ {r} ELSE dir \cup {r}
    /\ Report("dir", r)
    /\ UNCHANGED <<version, git, engine, timers, loop, watch, asks>>

\* The kernel's queue overflows, or the watcher fails: what was to be
\* received is lost, and that is reported.
Overflow ==
    /\ Move
    /\ events # {}
    /\ events' = {}
    /\ lost' = TRUE
    /\ UNCHANGED <<files, engine, live, timers, loop, watch, asks>>

-----------------------------------------------------------------------------
\* What the loop does when it has something to do.
Step ==
    \/ Launch \/ Announce \/ ReceiveLost \/ Requested \/ DeadlinePassed \/ Installed
    \/ BeginPass \/ Rescan \/ EndPass \/ Ready
    \/ \E r \in Root : CatchUp(r) \/ InspectHead(r) \/ ScanDue(r)
                       \/ \E kind \in Kind : Receive(kind, r)

ReloadTask == ReloadSet \/ ReloadFlag \/ ReloadNotify

World == Overflow \/ \E r \in Root : Write(r) \/ MoveHead(r) \/ RemoveOrCreate(r)

Next == Step \/ Tick \/ HeadPoll \/ Backstop \/ InstallFinishes \/ Refresh \/ RequestRescan
        \/ PressReload \/ ReloadTask \/ World

Spec == Init /\ [][Next]_vars

\* The loop runs, time passes, a reload's task goes on, and select! takes a
\* ready branch with equal chances, so none is passed over for ever.  Neither
\* backstop is assumed: what follows does not wait for one.  Time passes also
\* while the loop works, though the model counts it at select! only.
Fairness ==
    /\ WF_vars(Step) /\ SF_vars(Tick) /\ WF_vars(ReloadTask)
    /\ SF_vars(Requested) /\ SF_vars(ReceiveLost)
    /\ \A r \in Root, kind \in Kind : SF_vars(Receive(kind, r))

FairSpec == Spec /\ Fairness

-----------------------------------------------------------------------------
(* Properties.                                                             *)

\* While no installation is under way, the last one was for the roots the loop
\* knows: a change of the root set during an installation is not forgotten.
WatchesFollowRoots == pc # "launch" /\ install = "none" => target = roots

\* The loop has nothing to do, and nothing to be told.
Quiet ==
    /\ pc = "select" /\ install = "none" /\ events = {} /\ ~lost /\ ~permit /\ ~pending
    /\ \A k \in Key : due[k] = Never

\* "So nothing from the gap is missed": a quiet loop has published the files of
\* every watched folder it knows and watches as they are now.
FoldersCaughtUp ==
    Quiet => \A r \in (roots \cap open \cap dir \cap live) \ git : published[r] = version[r]

\* The pass that answers a reload has read the reloaded settings: no root they
\* leave out is open when the answer is given.
ReloadReadsSettings == pc = "adopt" /\ pass => open \cap skip = {}

\* A change the watch reported is in a pile in the end, though writes to the
\* root never pause (unless the root leaves).
ChangesAreScanned ==
    \A r \in Root, v \in 1..MaxVersion :
        r \in roots /\ version[r] = v /\ <<"write", r>> \in events
            ~> published[r] \geq v \/ r \notin roots \cap dir

\* A root whose directory's removal was reported leaves the engine without the
\* backstop (or the directory is back).
GoneRootsLeave ==
    \A r \in Root :
        r \in roots \ dir /\ r \notin asked /\ <<"dir", r>> \in events
            ~> r \notin open \/ r \in dir

\* Every reload is answered.
ReloadAnswered == reloading ~> ~reloading

=============================================================================
