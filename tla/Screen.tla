-------------------------------- MODULE Screen --------------------------------
(* What the screen holds of what the engine found.                         *)
(*                                                                         *)
(* Piles and root sets reach the screen on two channels: the watcher       *)
(* loop's, in the loop's order, and the screen's own, fed by one task per  *)
(* request.  Such a task calls the engine under its mutex and sends what   *)
(* it got afterwards, when other tasks may have called and sent.  A pile   *)
(* carries the engine-wide number of its scan; a root set carries nothing. *)
(*                                                                         *)
(* Deadlines and watches are the Watcher module's subject: here the loop   *)
(* scans a root whenever it likes, and every root after a pass.            *)
EXTENDS Naturals, Sequences, FiniteSets, SequencesExt

CONSTANTS
    Root,        \* directories that are, or may become, roots
    Pile,        \* what a scan may find
    Empty,       \* nothing pending
    Task,        \* bound on the requests in flight at a time
    Idle,        \* a task nobody started
    None,        \* nothing received for a root
    ChannelCap,  \* the watcher channel's capacity (256)
    MaxScans,    \* bound on scans
    MaxMoves     \* bound on keys, on directories that come and go, on HEAD moves

ASSUME BoundsAssumption == ChannelCap \in Nat \ {0} /\ MaxScans \in Nat /\ MaxMoves \in Nat
ASSUME NamesAssumption == Empty \in Pile /\ None \notin Pile /\ None \notin Nat
ASSUME RootsAreFinite == IsFiniteSet(Root)

VARIABLES
    dir,        \* roots whose directory exists
    now,        \* now[r]: what a scan of r would find
    open,       \* roots the engine has open
    pending,    \* what a refresh's discovery added and removed
    seq,        \* Engine::scan_seq
    last,       \* last[r]: number and pile of the newest scan of r, or None
    ran,        \* the launch's scan_all has run
    due,        \* roots the loop has still to scan after a pass
    outbox,     \* what the loop has found and not sent yet
    events,     \* the watcher's channel
    locals,     \* the screen's own channel
    task,       \* task[t]: Idle, or what t asks for, or what it has to send
    view,       \* roots on screen
    pile,       \* pile[r]: the pile of r's view
    held,       \* held[r]: the number of the newest pile received for r
    early,      \* early[r]: the pile received for a root without a view
    refreshing, \* a refresh is under way
    accepting,  \* an accept is under way
    epoch,      \* changes of the engine's root set so far
    newest,     \* the newest epoch of a root set applied
    overtaken,  \* a root set was applied after a newer one
    forgotten,  \* roots the screen has once forgotten
    moves       \* what has been done to the program so far

world  == <<dir, now>>
engine == <<open, pending, seq, last, epoch>>
loop   == <<ran, due, outbox>>
shown  == <<view, pile, held, early>>
heard  == <<shown, forgotten>>
screen == <<heard, refreshing, accepting, newest, overtaken>>
vars   == <<world, engine, loop, events, locals, task, screen, moves>>

Changes == [added : SUBSET Root, removed : SUBSET Root]
NoChange == [added |-> {}, removed |-> {}]

Piles == [kind : {"pile"}, root : Root, seq : 1..MaxScans, pile : Pile]
Messages ==
    Piles \cup [kind : {"head"}] \cup [kind : {"changed"}, changed : Changes]
          \cup [kind : {"roots"}, roots : SUBSET Root, epoch : 0..MaxMoves]
          \cup [kind : {"refreshed"}] \cup [kind : {"accepted"}, piles : SUBSET Piles]

\* A task before its engine call, and after it.
Asks(what, S) == [what |-> what, roots |-> S]
Sends(s) == [what |-> "send", msgs |-> s]

ASSUME IdleAssumption ==
    /\ Idle \notin [what : {"sync", "refresh", "accept"}, roots : SUBSET Root]
    /\ Idle \notin [what : {"send"}, msgs : Seq(Messages)]

\* Types, and the channel's capacity.
TypeOK ==
    /\ {dir, open, view, due, forgotten} \subseteq SUBSET Root
    /\ now \in [Root -> Pile]
    /\ pending \in Changes
    /\ seq \in 0..MaxScans /\ epoch \in 0..MaxMoves /\ newest \in 0..epoch
    /\ \A s \in {events, outbox, locals} : \A i \in DOMAIN s : s[i] \in Messages
    /\ Len(events) \leq ChannelCap
    /\ \A t \in Task : task[t] # Idle => task[t].what \in {"sync", "refresh", "accept", "send"}
    /\ pile \in [Root -> Pile]
    /\ early \in [Root -> Pile \cup {None}]
    /\ held \in [Root -> 1..MaxScans \cup {None}]
    /\ {ran, refreshing, accepting, overtaken} \subseteq BOOLEAN

\* The screen starts with the engine's roots, read before the loop starts.
Init ==
    /\ dir \in SUBSET Root
    /\ now \in [Root -> Pile]
    /\ open = dir /\ view = dir
    /\ pending = NoChange
    /\ seq = 0 /\ last = [r \in Root |-> None]
    /\ ran = FALSE /\ due = {}
    /\ outbox = <<>> /\ events = <<>> /\ locals = <<>>
    /\ task = [t \in Task |-> Idle]
    /\ pile = [r \in Root |-> Empty]
    /\ early = [r \in Root |-> None]
    /\ held = [r \in Root |-> None]
    /\ refreshing = FALSE /\ accepting = FALSE
    /\ epoch = 0 /\ newest = 0 /\ overtaken = FALSE /\ forgotten = {}
    /\ moves = 0

Move == moves < MaxMoves /\ moves' = moves + 1

-----------------------------------------------------------------------------
(* Engine calls.                                                           *)

\* The roots of S that are there are scanned, numbered in their order: the
\* piles to be sent.
PilesOf(S, found) ==
    LET o == SetToSeq(S)
    IN  [i \in 1..Len(o) |-> [kind |-> "pile", root |-> o[i], seq |-> seq + i, pile |-> found[o[i]]]]

Scanned(ps) ==
    /\ seq + Len(ps) \leq MaxScans
    /\ seq' = seq + Len(ps)
    /\ last' = [r \in Root |->
                   IF \E i \in DOMAIN ps : ps[i].root = r
                   THEN LET i == CHOOSE i \in DOMAIN ps : ps[i].root = r
                        IN  [seq |-> ps[i].seq, pile |-> ps[i].pile]
                   ELSE IF r \in open' THEN last[r] ELSE None]

\* A wrong variant: what an earlier pass found is dropped.
NewestOnly(c) == c

\* RootsChanged::merge: what an earlier pass found stays in the lists.
Merge(c) == [added |-> pending.added \cup c.added, removed |-> pending.removed \cup c.removed]

\* roots::diff of the root set against what discovery finds now.
Difference == [added |-> dir \ open, removed |-> open \ dir]

\* Engine::rescan.
Rediscover ==
    /\ open' = dir
    /\ epoch' = IF dir = open THEN epoch ELSE epoch + 1

-----------------------------------------------------------------------------
(* The watcher's loop, as far as it is heard of.                           *)

\* The launch's scan_all; what its discovery changed is announced at once.
Launch ==
    /\ ~ran
    /\ ran' = TRUE
    /\ \/ /\ UNCHANGED <<open, epoch>>
          /\ outbox' = PilesOf(open \cap dir, now)
          /\ Scanned(outbox')
       \/ /\ dir # open
          /\ Rediscover
          /\ LET ps == PilesOf(dir, now)
             IN  /\ outbox' = Append(ps, [kind |-> "changed", changed |-> Difference])
                 /\ Scanned(ps)
    /\ UNCHANGED <<world, pending, due, events, locals, task, screen, moves>>

\* The loop does nothing else until what it found is sent, and waits while the
\* channel is full.
Send ==
    /\ outbox # <<>>
    /\ Len(events) < ChannelCap
    /\ events' = Append(events, Head(outbox))
    /\ outbox' = Tail(outbox)
    /\ UNCHANGED <<world, engine, ran, due, locals, task, screen, moves>>

Waits == ran /\ outbox = <<>>

\* A scan that an event asked for, or that is due: the pile, unless the root's
\* directory is gone or the engine has dropped it.
ScanRoot(r) ==
    /\ Waits
    /\ r \in due \/ r \in open \cap dir
    /\ due' = due \ {r}
    /\ outbox' = PilesOf({r} \cap open \cap dir, now)
    /\ UNCHANGED open
    /\ Scanned(outbox')
    /\ UNCHANGED <<world, pending, epoch, ran, events, locals, task, screen, moves>>

\* HEAD of a root moved: that is told before the pile.
InspectHead(r) ==
    /\ Move
    /\ Waits
    /\ r \in open \cap dir
    /\ LET ps == PilesOf({r}, now)
       IN  /\ outbox' = <<[kind |-> "head"]>> \o ps
           /\ UNCHANGED open
           /\ Scanned(ps)
    /\ UNCHANGED <<world, pending, epoch, ran, due, events, locals, task, screen>>

\* A discovery pass, its announcement, and then every root is due.
Pass ==
    /\ Waits
    /\ Rediscover
    /\ LET c == Merge(Difference)
       IN  /\ c # NoChange
           /\ outbox' = <<[kind |-> "changed", changed |-> c]>>
    /\ pending' = NoChange
    /\ due' = dir
    /\ last' = [r \in Root |-> IF r \in dir \cap open THEN last[r] ELSE None]
    /\ UNCHANGED <<world, seq, ran, events, locals, task, screen, moves>>

-----------------------------------------------------------------------------
(* Tasks of the screen's.                                                  *)

Start(t, what, S) == task[t] = Idle /\ task' = [task EXCEPT ![t] = Asks(what, S)]
Answers(t, s) == task' = [task EXCEPT ![t] = Sends(s)]
Asked(t, what) == task[t] # Idle /\ task[t].what = what

\* spawn_sync_roots: the engine's roots of now.
ReadRoots(t) ==
    /\ Asked(t, "sync")
    /\ Answers(t, <<[kind |-> "roots", roots |-> open, epoch |-> epoch]>>)
    /\ UNCHANGED <<world, engine, loop, events, locals, screen, moves>>

\* spawn_refresh.
RefreshAll(t) ==
    /\ Asked(t, "refresh")
    /\ LET all == (open \cup open') \cap dir
           ps  == PilesOf(all, now)
       IN  /\ \/ UNCHANGED <<open, epoch, pending>>
              \/ dir # open /\ Rediscover /\ pending' = Merge(Difference)
           /\ Scanned(ps)
           /\ Answers(t, Append(ps, [kind |-> "refreshed"]))
    /\ UNCHANGED <<world, loop, events, locals, screen, moves>>

\* spawn_accept: an accept is refused or empties the pile, and the rescan is
\* part of the same call; a root that is gone has no pile.
AcceptRows(t) ==
    /\ Asked(t, "accept")
    /\ LET S == task[t].roots \cap open \cap dir
       IN  \E taken \in SUBSET S :
               /\ now' = [r \in Root |-> IF r \in taken THEN Empty ELSE now[r]]
               /\ LET ps == PilesOf(S, now')
                  IN  /\ UNCHANGED open
                      /\ Scanned(ps)
                      /\ Answers(t, <<[kind |-> "accepted", piles |-> {ps[i] : i \in DOMAIN ps}]>>)
    /\ UNCHANGED <<dir, pending, epoch, loop, events, locals, screen, moves>>

\* A task sends what it got, one message at a time, and ends.
SendLocal(t) ==
    /\ Asked(t, "send")
    /\ LET s == task[t].msgs
       IN  /\ locals' = Append(locals, Head(s))
           /\ task' = [task EXCEPT ![t] = IF Len(s) = 1 THEN Idle ELSE Sends(Tail(s))]
    /\ UNCHANGED <<world, engine, loop, events, screen, moves>>

-----------------------------------------------------------------------------
(* The screen.                                                             *)

\* A wrong variant: every pile is taken.
AnyPile(m) == m.root \in Root

\* apply_pile: an older pile than the one held is dropped.
NotOlder(m) == held[m.root] = None \/ m.seq \geq held[m.root]

\* apply_pile for the piles of one message, each of another root.
ApplyPiles(ms) ==
    LET For(r) == {m \in ms : m.root = r /\ NotOlder(m)}
        Put(f, r, x) == IF For(r) = {} THEN f[r] ELSE x
        New(r) == (CHOOSE m \in For(r) : TRUE)
    IN  /\ held' = [r \in Root |-> IF For(r) = {} THEN held[r] ELSE New(r).seq]
        /\ pile' = [r \in Root |-> IF For(r) = {} \/ r \notin view THEN pile[r] ELSE New(r).pile]
        /\ early' = [r \in Root |-> IF For(r) = {} \/ r \in view THEN early[r] ELSE New(r).pile]
        /\ UNCHANGED <<view, forgotten>>

\* The views of some roots go, with all that is remembered of them.
Dropped(f, S, x) == [r \in Root |-> IF r \in S THEN x ELSE f[r]]

\* A wrong variant: the number of the last pile is kept.
KeepNumber(S) ==
    /\ UNCHANGED held
    /\ forgotten' = forgotten \cup {r \in S : held[r] # None}

\* A root that leaves takes the number of its last pile along.
Forget(S) ==
    /\ held' = Dropped(held, S, None)
    /\ forgotten' = forgotten \cup {r \in S : held[r] # None}

\* A wrong variant: the pile that came early is not taken.
AdoptNothing(S) == [r \in Root |-> IF r \in S THEN Empty ELSE pile[r]]

\* sync_roots: a new view takes the pile that came early.
Adopted(S) ==
    [r \in Root |-> IF r \notin S THEN pile[r]
                    ELSE IF early[r] = None THEN Empty ELSE early[r]]

\* sync_roots: the root set is replaced.  A root that leaves is forgotten.
ApplyRoots(S) ==
    LET gone == view \ S
    IN  /\ view' = S
        /\ pile' = Dropped(Adopted(S \ view), gone, Empty)
        /\ early' = Dropped(early, S \ view, None)
        /\ Forget(gone)

\* RootsChanged: the views of the roots that left go at once.
ApplyRemoved(S) ==
    /\ view' = view \ S
    /\ pile' = Dropped(pile, S, Empty)
    /\ early' = Dropped(early, S, None)
    /\ Forget(S)

\* Effect::SyncRoots.
Sync == \E t \in Task : Start(t, "sync", {})

\* App::apply.
FromWatcher ==
    /\ events # <<>>
    /\ events' = Tail(events)
    /\ LET m == Head(events)
       IN  CASE m.kind = "pile" -> ApplyPiles({m}) /\ UNCHANGED task
             [] m.kind = "head" -> Sync /\ UNCHANGED heard
             [] m.kind = "changed" -> ApplyRemoved(m.changed.removed) /\ Sync
    /\ UNCHANGED <<world, engine, loop, locals, refreshing, accepting, newest, overtaken, moves>>

\* refresh_done and accepted: the answer ends the request, whatever it says.
FreeGuards(m) ==
    /\ refreshing' = (refreshing /\ m.kind # "refreshed")
    /\ accepting' = (accepting /\ m.kind # "accepted")

\* Ui::local.
FromTask ==
    /\ locals # <<>>
    /\ locals' = Tail(locals)
    /\ LET m == Head(locals)
       IN  /\ CASE m.kind = "pile" -> ApplyPiles({m})
                [] m.kind = "accepted" -> ApplyPiles(m.piles)
                [] m.kind = "roots" -> ApplyRoots(m.roots)
                [] m.kind = "refreshed" -> UNCHANGED heard
           /\ FreeGuards(m)
           /\ newest' = (IF m.kind = "roots" /\ m.epoch > newest THEN m.epoch ELSE newest)
           /\ overtaken' = (overtaken \/ (m.kind = "roots" /\ m.epoch < newest))
    /\ UNCHANGED <<world, engine, loop, events, task, moves>>

\* `r`, one at a time.
PressRefresh ==
    /\ Move
    /\ ~refreshing
    /\ refreshing' = TRUE
    /\ \E t \in Task : Start(t, "refresh", {})
    /\ UNCHANGED <<world, engine, loop, events, locals, heard, accepting, newest, overtaken>>

\* An accept of rows on screen, one at a time.
PressAccept ==
    /\ Move
    /\ ~accepting
    /\ accepting' = TRUE
    /\ LET S == {r \in view : pile[r] # Empty}
       IN  S # {} /\ \E t \in Task : Start(t, "accept", S)
    /\ UNCHANGED <<world, engine, loop, events, locals, heard, refreshing, newest, overtaken>>

-----------------------------------------------------------------------------
(* The world.                                                              *)

\* Files of a root change; the watcher has it scanned.
Edit(r) ==
    /\ Move
    /\ r \in dir
    /\ \E p \in Pile \ {now[r]} : now' = [now EXCEPT ![r] = p]
    /\ due' = due \cup ({r} \cap open)
    /\ UNCHANGED <<dir, engine, ran, outbox, events, locals, task, screen>>

RemoveOrCreate(r) ==
    /\ Move
    /\ dir' = IF r \in dir THEN dir \ {r} ELSE dir \cup {r}
    /\ UNCHANGED <<now, engine, loop, events, locals, task, screen>>

-----------------------------------------------------------------------------
Next ==
    \/ Launch \/ Send \/ Pass \/ FromWatcher \/ FromTask \/ PressRefresh \/ PressAccept
    \/ \E t \in Task : ReadRoots(t) \/ RefreshAll(t) \/ AcceptRows(t) \/ SendLocal(t)
    \/ \E r \in Root : ScanRoot(r) \/ InspectHead(r) \/ Edit(r) \/ RemoveOrCreate(r)

Spec == Init /\ [][Next]_vars

-----------------------------------------------------------------------------
(* Properties.                                                             *)

\* Nothing is under way that the screen has still to hear of, and a pass would
\* have nothing to announce.
Settled ==
    /\ ran /\ due = {} /\ Merge(Difference) = NoChange
    /\ outbox = <<>> /\ events = <<>> /\ locals = <<>>
    /\ \A t \in Task : task[t] = Idle

\* Once everything is heard of, the screen lists the engine's roots, unless a
\* root set was applied after a newer one.
RootsShownInOrder == Settled /\ ~overtaken => view = open

\* And it shows the pile of each root's newest scan, whichever of the two
\* channels and of the requests in flight brought it, unless the screen has once
\* forgotten the root.
LatestShown ==
    Settled => \A r \in (view \cap open) \ forgotten :
                   last[r] # None => pile[r] = last[r].pile

\* What is remembered of a root is of one scan: a number without a pile, or a
\* pile of another scan, would let an older pile in or keep a newer one out.
\* A view that has not heard of its root is empty, and nothing came early for
\* a root that has a view.
NothingLeftOver ==
    \A r \in Root :
        /\ r \in view => early[r] = None
        /\ r \notin view => (held[r] = None <=> early[r] = None)
        /\ held[r] = None => pile[r] = Empty

\* A root that stays on screen keeps the number of its pile, and its pile never goes
\* back to an older scan's, in whatever order two channels bring them.
PilesNeverGoBack ==
    [][\A r \in view \cap view' :
           held[r] # None =>
               /\ held'[r] # None
               /\ \/ held'[r] > held[r]
                  \/ held'[r] = held[r] /\ pile'[r] = pile[r]]_vars

=============================================================================
