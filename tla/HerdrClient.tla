---------------------------- MODULE HerdrClient ----------------------------
(***************************************************************************)
(* The client of the terminal's host (herdr/client.rs): it learns which    *)
(* panes run agents and in which state they are.  One lifecycle stream and *)
(* one status stream per agent-bearing pane only hint at changes; the      *)
(* truth is what session.snapshot and pane.get answer.                     *)
(*                                                                         *)
(* The actor handles one thing at a time (pc); while it waits for an       *)
(* answer the streams go on: the server puts events on the wire, a status  *)
(* task stamps what it takes off the wire with the pane's generation and   *)
(* queues it (rx).  Instance numbers are replaced by the mark `live` a     *)
(* message loses when the task that sent it is closed; generations, which  *)
(* the code only compares, count modulo GenMod.                            *)
(***************************************************************************)
EXTENDS Naturals, Sequences

CONSTANTS
    Panes,      \* pane ids
    Status,     \* the states an agent can be in
    GenMod,     \* generations are counted modulo this number
    MaxQueue,   \* messages in each queue, lifecycle, wire or rx
    MaxMoves    \* changes, faults and hints of the server's side

Absent == "absent"      \* no such pane
Plain  == "plain"       \* a pane without an agent
None   == "none"        \* no status: the record is provisional
Ended  == "ended"       \* the end of a stream
Value  == Status \cup {Plain}
Pane   == Value \cup {Absent}

ASSUME Constants ==
    /\ GenMod \in Nat /\ GenMod > 1
    /\ MaxQueue \in Nat /\ MaxQueue > 0
    /\ MaxMoves \in Nat
    /\ {Absent, Plain, None, Ended} \cap Status = {}
    /\ {"boot", "snapshot"} \cap Panes = {}

VARIABLES
    server,     \* the host: "up", "other" (another protocol) or "down"
    srv,        \* its panes
    missed,     \* panes that changed and nothing on its way says so, or says so
                \* last (history)
    moves,      \* moves of the server's side so far
    pc,         \* where the actor is
    request,    \* the request it waits for: "boot", "snapshot" or a pane
    answer,     \* what the server answered
    batch,      \* panes still to be read in this run of due resyncs
    cache,      \* panes as the client knows them: info and status of record
    gens,       \* generation of each pane, 0 when it has none
    task,       \* the status task of each pane
    wire,       \* its stream, from the server to the task
    rx,         \* status messages queued for the actor
    life,       \* the lifecycle stream, from the server to the actor
    open,       \* the lifecycle stream is open
    wantSnapshot, wantGets,   \* pending_snapshot, pending_pane_gets
    told,       \* the last link state emitted
    notice,     \* last_notice is the standalone notice
    dirty,      \* an event that re-derives is on its way to the screen
    view        \* the screen's last derivation

serverVars == <<server, srv, moves>>
reqVars    == <<pc, request, answer, batch>>
knowVars   == <<cache, gens>>
taskVars   == <<task, wire, rx>>
wantVars   == <<wantSnapshot, wantGets>>
uiVars     == <<told, notice, dirty, view>>
vars == <<server, srv, missed, moves, pc, request, answer, batch, cache, gens,
          task, wire, rx, life, open, wantSnapshot, wantGets, told, notice,
          dirty, view>>

Bearing(v) == v \in Status

\* What the screen derives for a pane: the status of record, or the pane's
\* own field while it is provisional; a pane without an agent shows nothing.
Shown(p) == IF ~Bearing(cache[p].info) THEN Absent
            ELSE IF cache[p].status = None THEN cache[p].info
            ELSE cache[p].status

Truth(p) == IF Bearing(srv[p]) THEN srv[p] ELSE Absent

Unknown == [info |-> Absent, status |-> None]

\* A wrong variant: what was not found is recorded too.
RecordAnything(v) == [info |-> v, status |-> v]

Record(v) == IF v = Absent THEN Unknown ELSE [info |-> v, status |-> v]

\* A wrong variant: only a new pane gets a generation.
BumpOnce(g) == IF g = 0 THEN 1 ELSE g

Bump(g) == (g % GenMod) + 1

----------------------------------------------------------------------------
(* Messages                                                                *)

\* A status message; `old` is history: a resync of the pane has completed
\* since the task received it.
Msg(p, kind, v, live) ==
    [pane |-> p, kind |-> kind, status |-> v, stamp |-> gens[p],
     live |-> live, old |-> FALSE]

\* The queue once the tasks of Gone are closed and the panes of Seen resynced.
Mark(q, Gone, Seen) ==
    [i \in DOMAIN q |-> [q[i] EXCEPT !.live = @ /\ q[i].pane \notin Gone,
                                     !.old = @ \/ q[i].pane \in Seen]]

\* An aborted task may still be sending what it has just read.
LastWords(Gone) ==
    {<<>>} \cup {<<Msg(p, "event", Head(wire[p]), FALSE)>> :
                    p \in {g \in Gone : /\ task[g] = "open"
                                        /\ wire[g] # <<>>
                                        /\ Head(wire[g]) # Ended}}

\* Hints on the lifecycle stream.
Hint(kind, p, v) == [kind |-> kind, pane |-> p, value |-> v]
Hints == [kind : {"created", "updated"}, pane : Panes, value : Value]
            \cup [kind : {"detected", "closed", "focused", "other"},
                  pane : Panes, value : {Absent}]
End == [kind |-> Ended, pane |-> CHOOSE p \in Panes : TRUE, value |-> Absent]

----------------------------------------------------------------------------
Init ==
    /\ server = "up"
    /\ srv \in [Panes -> Pane]
    /\ missed = [p \in Panes |-> TRUE]
    /\ moves = 0
    /\ pc = "probe" /\ request = "boot"
    /\ answer = [p \in Panes |-> Absent]
    /\ batch = {}
    /\ cache = [p \in Panes |-> Unknown]
    /\ gens = [p \in Panes |-> 0]
    /\ task = [p \in Panes |-> "none"]
    /\ wire = [p \in Panes |-> <<>>]
    /\ rx = <<>>
    /\ life = <<>> /\ open = FALSE
    /\ wantSnapshot = FALSE /\ wantGets = {}
    /\ told = "none" /\ notice = FALSE
    /\ dirty = FALSE
    /\ view = [p \in Panes |-> Absent]

----------------------------------------------------------------------------
(* The server's side                                                       *)

Move == moves < MaxMoves /\ moves' = moves + 1

\* The pane's status stream is up at the server's end.
Streaming(p) ==
    task[p] = "open" /\ Ended \notin {wire[p][i] : i \in DOMAIN wire[p]}

\* A pane is created, closed, gains or loses its agent: the lifecycle stream
\* says so.  An agent that moves on is news on the pane's own stream only, which
\* also polls and so sees the others.  All of it can be lost (the ring buffer,
\* no stream).
Announced(p, v) ==
    CASE srv[p] = Absent -> <<Hint("created", p, v)>>
      [] srv[p] # Absent /\ v = Absent -> <<Hint("closed", p, Absent)>>
      [] srv[p] = Plain /\ Bearing(v) -> <<Hint("detected", p, Absent)>>
      [] Bearing(srv[p]) /\ v = Plain -> <<Hint("other", p, Absent)>>
      [] OTHER -> <<>>

\* What an ended status stream still holds is older than this change, and yet
\* may be read after it; the task of a pane that is closed is closed with it.
Overtaken(p, v) == wire[p] # <<>> /\ v # Absent

ServerChange(p, v) ==
    /\ Move
    /\ v # srv[p]
    /\ srv' = [srv EXCEPT ![p] = v]
    /\ LET hints == Announced(p, v)
           pushed == Streaming(p) /\ v # Absent IN
       \/ /\ hints # <<>> => open /\ Len(life) < MaxQueue
          /\ hints = <<>> => Streaming(p)
          /\ pushed => Len(wire[p]) < MaxQueue
          /\ life' = life \o hints
          /\ wire' = IF pushed THEN [wire EXCEPT ![p] = Append(@, v)] ELSE wire
          /\ missed' = [missed EXCEPT ![p] = @ \/ (~pushed /\ Overtaken(p, v))]
       \/ /\ missed' = [missed EXCEPT ![p] = TRUE]
          /\ UNCHANGED <<life, wire>>
    /\ UNCHANGED <<server, reqVars, knowVars, task, rx, open, wantVars, uiVars>>

\* A hint that says nothing new: a focus, an update of a title, any other.
ServerHint(h) ==
    /\ Move
    /\ open /\ Len(life) < MaxQueue
    /\ h.kind \in {"focused", "updated", "other"}
    /\ h.kind = "updated" => h.value = srv[h.pane]
    /\ life' = Append(life, h)
    /\ UNCHANGED <<server, srv, missed, reqVars, knowVars, taskVars, open,
                   wantVars, uiVars>>

\* The host closes one status stream (a slow consumer).
KillStream(p) ==
    /\ Move
    /\ Streaming(p) /\ Len(wire[p]) < MaxQueue
    /\ wire' = [wire EXCEPT ![p] = Append(@, Ended)]
    /\ UNCHANGED <<server, srv, missed, reqVars, knowVars, task, rx, life, open,
                   wantVars, uiVars>>

\* The host stops, starts or is replaced by another version: every stream ends.
ServerRestart(s) ==
    /\ Move
    /\ server' = s
    /\ life' = IF open THEN Append(life, End) ELSE life
    /\ open' = FALSE
    /\ wire' = [p \in Panes |-> IF Streaming(p) THEN Append(wire[p], Ended)
                                ELSE wire[p]]
    /\ UNCHANGED <<srv, missed, reqVars, knowVars, task, rx, wantVars, uiVars>>

----------------------------------------------------------------------------
(* Status tasks                                                            *)

\* The subscription of an opening task: acknowledged if the pane is there,
\* refused if not; a host that is not there fails it.
Ack(p) ==
    /\ task[p] = "opening" /\ server = "up" /\ srv[p] # Absent
    /\ task' = [task EXCEPT ![p] = "open"]
    /\ UNCHANGED <<serverVars, missed, reqVars, knowVars, wire, rx, life, open,
                   wantVars, uiVars>>

Refuse(p) ==
    /\ task[p] = "opening" /\ Len(rx) < MaxQueue
    /\ \/ server = "up" /\ srv[p] = Absent
          /\ rx' = Append(rx, Msg(p, "refused", Absent, TRUE))
       \/ server # "up"
          /\ rx' = Append(rx, Msg(p, "failed", Absent, TRUE))
    /\ task' = [task EXCEPT ![p] = "over"]
    /\ UNCHANGED <<serverVars, missed, reqVars, knowVars, wire, life, open,
                   wantVars, uiVars>>

\* The task takes a line off its stream and queues it with the generation the
\* pane has now.
Receive(p) ==
    /\ task[p] = "open" /\ wire[p] # <<>> /\ Len(rx) < MaxQueue
    /\ wire' = [wire EXCEPT ![p] = Tail(@)]
    /\ IF Head(wire[p]) = Ended
       THEN /\ rx' = Append(rx, Msg(p, "closed", Absent, TRUE))
            /\ task' = [task EXCEPT ![p] = "over"]
       ELSE /\ rx' = Append(rx, Msg(p, "event", Head(wire[p]), TRUE))
            /\ UNCHANGED task
    /\ UNCHANGED <<serverVars, missed, reqVars, knowVars, life, open, wantVars,
                   uiVars>>

\* Tasks Gone closed, tasks Fresh opened, panes Seen resynced.
Tasks(Gone, Fresh, Seen) ==
    /\ task' = [p \in Panes |-> IF p \in Fresh THEN "opening"
                                ELSE IF p \in Gone THEN "none" ELSE task[p]]
    /\ wire' = [p \in Panes |-> IF p \in Gone THEN <<>> ELSE wire[p]]
    /\ \E w \in LastWords(Gone) : rx' = Mark(rx, Gone, Seen) \o w

\* teardown_status_tasks: both tiers of streams closed, the queue drained.
Teardown ==
    /\ task' = [p \in Panes |-> "none"]
    /\ wire' = [p \in Panes |-> <<>>]
    /\ rx' \in LastWords(Panes)
    /\ life' = <<>> /\ open' = FALSE

----------------------------------------------------------------------------
(* Bootstrap and reconnect                                                 *)

Disconnected ==
    /\ Teardown
    /\ told' = "reconnecting"
    /\ pc' = "backoff" /\ batch' = {}
    /\ UNCHANGED <<request, answer>>

Standalone ==
    /\ Teardown
    /\ told' = IF notice THEN told ELSE "standalone"
    /\ notice' = TRUE
    /\ pc' = "backoff" /\ batch' = {}
    /\ UNCHANGED <<request, answer>>

\* guard::probe: ping and compare the protocol.
Probe ==
    /\ pc = "probe"
    /\ \/ /\ server = "up"
          /\ pc' = "subscribe"
          /\ UNCHANGED <<request, answer, batch, taskVars, life, open, told, notice>>
       \/ server = "other" /\ Standalone
       \/ server = "down" /\ Disconnected /\ UNCHANGED notice
    /\ UNCHANGED <<serverVars, missed, knowVars, wantVars, dirty, view>>

\* The lifecycle subscription; a released host replays old events first.
Subscribe ==
    /\ pc = "subscribe"
    /\ \/ /\ server = "up"
          /\ open' = TRUE
          /\ \/ life' = <<>> /\ UNCHANGED moves
             \/ Move /\ \E h \in Hints : life' = <<h>>
          /\ pc' = "asking" /\ request' = "boot"
          /\ UNCHANGED <<answer, batch, taskVars, told>>
       \/ server # "up" /\ Disconnected /\ UNCHANGED moves
    /\ UNCHANGED <<server, srv, missed, knowVars, wantVars, notice, dirty, view>>

BackoffOver ==
    /\ pc = "backoff"
    /\ pc' = "probe"
    /\ UNCHANGED <<serverVars, missed, request, answer, batch, knowVars, taskVars,
                   life, open, wantVars, uiVars>>

----------------------------------------------------------------------------
(* Requests: session.snapshot and pane.get                                 *)

Covered == IF request \in Panes THEN {request} ELSE Panes

\* The server computes the answer; it reaches the actor later.
Answer ==
    /\ pc = "asking" /\ server = "up"
    /\ answer' = srv
    /\ missed' = [p \in Panes |-> missed[p] /\ ~(p \in Covered /\ wire[p] = <<>>)]
    /\ pc' = "marking"
    /\ UNCHANGED <<serverVars, request, batch, knowVars, taskVars, life, open,
                   wantVars, uiVars>>

\* The connection fails, times out or the answer cannot be read.  During
\* bootstrap an unreadable snapshot means standalone.
RequestFails ==
    /\ pc = "asking"
    /\ \/ server # "up" /\ UNCHANGED moves
       \/ Move
    /\ \/ Disconnected /\ UNCHANGED notice
       \/ request = "boot" /\ server = "up" /\ Standalone
    /\ UNCHANGED <<server, srv, missed, knowVars, wantVars, dirty, view>>

\* The host answers with an error of its own: a snapshot is asked for again.
RequestRefused ==
    /\ pc = "asking" /\ request # "boot" /\ Move
    /\ wantSnapshot' = TRUE
    /\ pc' = IF batch = {} THEN "session" ELSE "next"
    /\ UNCHANGED <<server, srv, missed, request, answer, batch, knowVars, taskVars,
                   life, open, wantGets, uiVars>>

\* Connected, or the marker of a resync: emitted before anything is installed.
Announce ==
    /\ pc = "marking"
    /\ dirty' = TRUE
    /\ told' = IF request = "boot" THEN "connected" ELSE told
    /\ pc' = "installing"
    /\ UNCHANGED <<serverVars, missed, request, answer, batch, knowVars, taskVars,
                   life, open, wantVars, notice, view>>

\* A wrong variant: tasks of panes that are gone stay open.
ReconciledKeeping(new) ==
    Tasks({}, {p \in Panes : task[p] = "none" /\ Bearing(new[p])}, Panes)

\* A wrong variant: no task is opened.
ReconciledClosing(new) ==
    Tasks({p \in Panes : task[p] # "none" /\ ~Bearing(new[p])}, {}, Panes)

\* install_snapshot and reconcile_status_tasks.
Reconciled(new) ==
    LET gone   == {p \in Panes : task[p] # "none" /\ ~Bearing(new[p])}
        wanted == {p \in Panes : task[p] = "none" /\ Bearing(new[p])}
    IN Tasks(gone, wanted, Panes)

Installed(new) ==
    /\ cache' = [p \in Panes |-> Record(new[p])]
    /\ gens' = [p \in Panes |-> IF new[p] = Absent THEN 0 ELSE Bump(gens[p])]
    /\ dirty' = (dirty \/ \E p \in Panes : new[p] # Absent)

InstallSnapshot ==
    /\ pc = "installing" /\ request = "snapshot"
    /\ Installed(answer) /\ Reconciled(answer)
    /\ pc' = "session"
    /\ UNCHANGED <<serverVars, missed, request, answer, batch, life, open,
                   wantVars, told, notice, view>>

\* The end of bootstrap: what has arrived by now asks for one more snapshot,
\* unless the stream has ended.
InstallBoot ==
    /\ pc = "installing" /\ request = "boot"
    /\ Installed(answer)
    /\ \E k \in 0..Len(life) :
         IF \E i \in 1..k : life[i].kind = Ended
         THEN /\ Disconnected
              /\ UNCHANGED <<wantSnapshot, notice>>
         ELSE /\ Reconciled(answer)
              /\ life' = SubSeq(life, k + 1, Len(life))
              /\ wantSnapshot' = (wantSnapshot \/ k > 0)
              /\ notice' = FALSE
              /\ pc' = "session"
              /\ UNCHANGED <<request, answer, batch, open, told>>
    /\ UNCHANGED <<serverVars, missed, wantGets, view>>

\* resync_pane: one pane is installed, or was not found and is dropped.
InstallPane ==
    /\ pc = "installing" /\ request \in Panes
    /\ LET p == request
           v == answer[p]
           gone == {q \in {p} : v = Absent /\ task[p] # "none"}
           wanted == {q \in {p} : Bearing(v) /\ task[p] = "none"}
       IN /\ cache' = [cache EXCEPT ![p] = Record(v)]
          /\ gens' = [gens EXCEPT ![p] = IF v = Absent THEN 0 ELSE Bump(@)]
          /\ dirty' = (dirty \/ v # Absent)
          /\ Tasks(gone, wanted, {p})
    /\ pc' = IF batch = {} THEN "session" ELSE "next"
    /\ UNCHANGED <<serverVars, missed, request, answer, batch, life, open,
                   wantVars, told, notice, view>>

----------------------------------------------------------------------------
(* The session                                                             *)

\* run_due_resyncs: a snapshot that is due covers every pane; else the panes
\* that are due are read one after the other.  The select is biased: status
\* messages go first.
DueSnapshot ==
    /\ pc = "session" /\ rx = <<>> /\ wantSnapshot
    /\ wantSnapshot' = FALSE /\ wantGets' = {}
    /\ pc' = "asking" /\ request' = "snapshot"
    /\ UNCHANGED <<serverVars, missed, answer, batch, knowVars, taskVars, life,
                   open, uiVars>>

DuePanes ==
    /\ pc = "session" /\ rx = <<>>
    /\ \E due \in SUBSET wantGets \ {{}} : batch' = due
    /\ pc' = "next"
    /\ UNCHANGED <<serverVars, missed, request, answer, knowVars, taskVars, life,
                   open, wantVars, uiVars>>

NextPane ==
    /\ pc = "next"
    /\ \E p \in batch : /\ request' = p
                        /\ batch' = batch \ {p}
                        /\ wantGets' = wantGets \ {p}
    /\ pc' = "asking"
    /\ UNCHANGED <<serverVars, missed, answer, knowVars, taskVars, life, open,
                   wantSnapshot, uiVars>>

Fallback ==
    /\ pc = "session" /\ rx = <<>> /\ ~wantSnapshot
    /\ wantSnapshot' = TRUE
    /\ UNCHANGED <<serverVars, missed, reqVars, knowVars, taskVars, life, open,
                   wantGets, uiVars>>

\* handle_lifecycle.
Provisional(h) ==
    h.kind = "created" /\ cache[h.pane].info = Absent

OpensTask(h) ==
    /\ task[h.pane] = "none"
    /\ \/ h.kind = "detected"
       \/ Provisional(h) /\ Bearing(h.value)

ClosesTask(h) == h.kind = "closed" /\ task[h.pane] # "none"

\* A title-only update of a confirmed pane stops at the cache.
Cosmetic(h) ==
    /\ h.kind = "updated"
    /\ cache[h.pane].status # None
    /\ cache[h.pane].info = h.value

HandleLifecycle ==
    /\ pc = "session" /\ life # <<>> /\ Head(life).kind # Ended
    /\ LET h == Head(life) IN
       /\ life' = Tail(life)
       /\ cache' = IF Provisional(h)
                   THEN [cache EXCEPT ![h.pane] = [info |-> h.value, status |-> None]]
                   ELSE cache
       /\ Tasks({p \in {h.pane} : ClosesTask(h)}, {p \in {h.pane} : OpensTask(h)}, {})
       /\ IF h.kind = "focused"
          THEN wantGets' = wantGets \cup {h.pane} /\ UNCHANGED wantSnapshot
          ELSE wantSnapshot' = (wantSnapshot \/ ~Cosmetic(h)) /\ UNCHANGED wantGets
    /\ UNCHANGED <<serverVars, missed, reqVars, gens, open, uiVars>>

LifecycleEnds ==
    /\ pc = "session" /\ life # <<>> /\ Head(life).kind = Ended
    /\ Disconnected
    /\ UNCHANGED <<serverVars, missed, knowVars, wantVars, notice, dirty, view>>

\* handle_status: a message of a closed task is dropped.
StaleMessage ==
    /\ pc = "session" /\ rx # <<>> /\ ~Head(rx).live
    /\ rx' = Tail(rx)
    /\ UNCHANGED <<serverVars, missed, reqVars, knowVars, task, wire, life, open,
                   wantVars, uiVars>>

Current(m) == m.stamp = gens[m.pane]

\* A wrong variant: an event that came too late is only dropped.
AskedNever(m) == {}

\* Panes to read again because of m.
AskedAgain(m) == IF Current(m) THEN {} ELSE {m.pane}

\* An event older than the last resync of its pane asks for the pane again;
\* one for a provisional or unknown pane, or of no change, is dropped.
StatusEvent ==
    /\ pc = "session" /\ rx # <<>> /\ Head(rx).live /\ Head(rx).kind = "event"
    /\ LET m == Head(rx)
           new == Current(m) /\ cache[m.pane].status \notin {None, m.status}
       IN /\ wantGets' = wantGets \cup AskedAgain(m)
          /\ cache' = IF new THEN [cache EXCEPT ![m.pane].status = m.status] ELSE cache
          /\ dirty' = (dirty \/ new)
    /\ rx' = Tail(rx)
    /\ UNCHANGED <<serverVars, missed, reqVars, gens, task, wire, life, open,
                   wantSnapshot, told, notice, view>>

\* A stream closed by the host is let go; a refused subscription asks for a
\* snapshot; a failed one is a lost connection.
StatusOver ==
    /\ pc = "session" /\ rx # <<>> /\ Head(rx).live
    /\ LET m == Head(rx) IN
       /\ m.kind \in {"closed", "refused"}
       /\ task' = [task EXCEPT ![m.pane] = "none"]
       /\ rx' = Mark(Tail(rx), {m.pane}, {})
       /\ wantSnapshot' = (wantSnapshot \/ m.kind = "refused")
    /\ UNCHANGED <<serverVars, missed, reqVars, knowVars, wire, life, open,
                   wantGets, uiVars>>

StatusFailed ==
    /\ pc = "session" /\ rx # <<>> /\ Head(rx).live /\ Head(rx).kind = "failed"
    /\ Disconnected
    /\ UNCHANGED <<serverVars, missed, knowVars, wantVars, notice, dirty, view>>

----------------------------------------------------------------------------
\* The screen re-derives from the shared cache (tui/herdr.rs).
Rederive ==
    /\ dirty
    /\ dirty' = FALSE
    /\ view' = [p \in Panes |-> Shown(p)]
    /\ UNCHANGED <<serverVars, missed, reqVars, knowVars, taskVars, life, open,
                   wantVars, told, notice>>

Actor == Probe \/ Subscribe \/ BackoffOver \/ RequestFails \/ RequestRefused
            \/ Announce \/ InstallSnapshot \/ InstallBoot \/ InstallPane \/ DueSnapshot
            \/ DuePanes \/ NextPane \/ HandleLifecycle \/ LifecycleEnds
            \/ StaleMessage \/ StatusEvent \/ StatusOver \/ StatusFailed

Host == \/ \E p \in Panes : KillStream(p) \/ \E v \in Pane : ServerChange(p, v)
        \/ \E h \in Hints : ServerHint(h)
        \/ \E s \in {"up", "other", "down"} : ServerRestart(s)

Next == Actor \/ Host \/ Answer \/ Fallback \/ Rederive
            \/ \E p \in Panes : Ack(p) \/ Refuse(p) \/ Receive(p)

\* Runnable tasks run, a host that is up answers and acknowledges.  The
\* fallback timer is not part of it.
Fairness ==
    /\ WF_vars(Actor) /\ WF_vars(Answer) /\ WF_vars(Rederive)
    /\ \A p \in Panes : WF_vars(Ack(p)) /\ WF_vars(Refuse(p)) /\ WF_vars(Receive(p))

Spec == Init /\ [][Next]_vars /\ Fairness

----------------------------------------------------------------------------
(* Properties                                                              *)

Messages ==
    [pane : Panes, kind : {"event"}, status : Value, stamp : 0..GenMod,
     live : BOOLEAN, old : BOOLEAN]
    \cup [pane : Panes, kind : {"closed", "refused", "failed"}, status : {Absent},
          stamp : 0..GenMod, live : BOOLEAN, old : BOOLEAN]

TypeOK ==
    /\ server \in {"up", "other", "down"}
    /\ srv \in [Panes -> Pane] /\ answer \in [Panes -> Pane]
    /\ missed \in [Panes -> BOOLEAN]
    /\ moves \in 0..MaxMoves
    /\ pc \in {"probe", "subscribe", "asking", "marking", "installing", "session",
               "next", "backoff"}
    /\ request \in {"boot", "snapshot"} \cup Panes
    /\ batch \subseteq Panes /\ wantGets \subseteq Panes
    /\ cache \in [Panes -> [info : Pane, status : Value \cup {None}]]
    /\ gens \in [Panes -> 0..GenMod]
    /\ task \in [Panes -> {"none", "opening", "open", "over"}]
    /\ wire \in [Panes -> Seq(Value \cup {Ended})]
    /\ rx \in Seq(Messages)
    /\ life \in Seq(Hints \cup {End})
    /\ open \in BOOLEAN /\ wantSnapshot \in BOOLEAN /\ notice \in BOOLEAN
    /\ told \in {"none", "connected", "reconnecting", "standalone"}
    /\ dirty \in BOOLEAN /\ view \in [Panes -> Pane]

\* An event that would be applied (its task is the pane's, its stamp the
\* pane's generation) was received after the last resync of the pane: neither
\* a generation that was dropped and counted anew nor a task that was closed
\* and opened again lets an older one through.
StampsAreTrue ==
    \A i \in DOMAIN rx :
        rx[i].kind = "event" /\ rx[i].live /\ Current(rx[i]) => ~rx[i].old

\* In a session with no snapshot to come, no status connection is kept for a
\* pane the client has been told is gone.
NoOrphanStream ==
    pc = "session" /\ ~wantSnapshot =>
        \A p \in Panes : task[p] # "none" => cache[p].info # Absent

\* Events are hints and snapshots are truth, yet the fallback timer is not
\* needed: once the host's side is quiet, the client knows the state of every
\* agent whose last change was put on a stream, with nothing older to be read
\* after it.
StreamsSuffice ==
    <>[](server = "up" => \A p \in Panes : missed[p] \/ Shown(p) = Truth(p))

\* With the fallback timer, whatever was lost: the screen shows the truth and
\* every agent has its stream again.
FallbackHeals ==
    WF_vars(Fallback) =>
        <>[](server = "up" =>
                \A p \in Panes : /\ view[p] = Truth(p)
                                 /\ Bearing(srv[p]) => task[p] = "open")
=============================================================================
