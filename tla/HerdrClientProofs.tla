-------------------------- MODULE HerdrClientProofs --------------------------
(* Proofs about the host's client, for any number of panes and statuses,   *)
(* queue lengths, moves of the host and generations before they wrap.      *)
EXTENDS HerdrClient, TLAPS

-----------------------------------------------------------------------------
(* Types, by parts.                                                        *)

States == {"probe", "subscribe", "asking", "marking", "installing", "session", "next",
           "backoff"}
Waiting == {"asking", "marking", "installing"}
Unlinked == {"probe", "subscribe", "backoff"}

ServerOK == /\ server \in {"up", "other", "down"} /\ srv \in [Panes -> Pane]
            /\ missed \in [Panes -> BOOLEAN] /\ moves \in 0..MaxMoves
ReqOK == /\ pc \in States /\ request \in {"boot", "snapshot"} \cup Panes
         /\ answer \in [Panes -> Pane] /\ batch \in SUBSET Panes
KnowOK == /\ cache \in [Panes -> [info : Pane, status : Value \cup {None}]]
          /\ gens \in [Panes -> 0..GenMod]
TaskOK == /\ task \in [Panes -> {"none", "opening", "open", "over"}]
          /\ wire \in [Panes -> Seq(Value \cup {Ended})] /\ rx \in Seq(Messages)
LifeOK == life \in Seq(Hints \cup {End}) /\ open \in BOOLEAN
WantOK == wantSnapshot \in BOOLEAN /\ wantGets \in SUBSET Panes
UiOK == /\ told \in {"none", "connected", "reconnecting", "standalone"}
        /\ notice \in BOOLEAN /\ dirty \in BOOLEAN /\ view \in [Panes -> Pane]

Types == ServerOK /\ ReqOK /\ KnowOK /\ TaskOK /\ LifeOK /\ WantOK /\ UiOK

-----------------------------------------------------------------------------
(* What is in flight.                                                      *)

\* The panes the run of resyncs under way has still to install.
ToCome == IF pc = "next" THEN batch
          ELSE IF pc \in Waiting THEN batch \cup Covered ELSE {}

\* A message of an open task carries the pane's generation until the pane is
\* resynced; from then on it carries another, and the pane is resynced no more
\* before the message is handled.
Stamped(q, tasks, g, coming) ==
    \A i \in DOMAIN q : q[i].live =>
        /\ tasks[q[i].pane] # "none"
        /\ ~q[i].old => q[i].stamp = g[q[i].pane]
        /\ q[i].old => q[i].stamp # g[q[i].pane] /\ q[i].pane \notin coming

RxInv == Stamped(rx, task, gens, ToCome)

\* No status task without a link; a pane is read once in a run of resyncs.
LinkInv ==
    /\ pc \in Unlinked \/ (pc \in Waiting /\ request = "boot") =>
          \A p \in Panes : task[p] = "none"
    /\ pc \in Waiting => request \notin batch

\* Only a snapshot may close a task of a pane that is gone.
OrphanInv ==
    (pc \in {"session", "next"} \/ (pc \in Waiting /\ request \in Panes)) /\ ~wantSnapshot =>
        \A p \in Panes : task[p] # "none" => cache[p].info # Absent

Inv == Types /\ RxInv /\ LinkInv /\ OrphanInv

-----------------------------------------------------------------------------
(* Operators.                                                              *)

LEMMA BumpIs ==
    ASSUME NEW g \in 0..GenMod
    PROVE  Bump(g) \in 0..GenMod /\ Bump(g) # g /\ Bump(g) # 0
<1>1. GenMod \in Nat /\ GenMod > 1
  BY Constants
<1>2. CASE g = GenMod
  <2>1. g % GenMod = 0
    BY <1>1, <1>2
  <2> QED
    BY <1>1, <1>2, <2>1 DEF Bump
<1>3. CASE g < GenMod
  <2>1. g % GenMod = g
    BY <1>1, <1>3
  <2> QED
    BY <1>1, <1>3, <2>1 DEF Bump
<1> QED
  BY <1>1, <1>2, <1>3

LEMMA ValuesAre == Absent \notin Value /\ Ended \notin Value /\ None \notin Value /\ Ended \notin Pane
BY Constants DEF Absent, Plain, None, Ended, Value, Pane

LEMMA RecordIs ==
    ASSUME NEW v \in Pane
    PROVE  /\ Record(v) \in [info : Pane, status : Value \cup {None}]
           /\ Record(v).info = v
BY ValuesAre DEF Record, Unknown, Pane, Value

LEMMA MsgIs ==
    ASSUME KnowOK, NEW p \in Panes, NEW live \in BOOLEAN, NEW k, NEW v,
           (k = "event" /\ v \in Value) \/ (k \in {"closed", "refused", "failed"} /\ v = Absent)
    PROVE  /\ Msg(p, k, v, live) \in Messages
           /\ Msg(p, k, v, live).pane = p /\ Msg(p, k, v, live).live = live
           /\ Msg(p, k, v, live).old = FALSE /\ Msg(p, k, v, live).stamp = gens[p]
BY DEF KnowOK, Msg, Messages

LEMMA MessageIs ==
    ASSUME NEW m \in Messages
    PROVE  /\ m.pane \in Panes /\ m.kind \in {"event", "closed", "refused", "failed"}
           /\ m.stamp \in 0..GenMod /\ m.live \in BOOLEAN /\ m.old \in BOOLEAN
           /\ m.status \in Pane
           /\ m.kind = "event" => m.status \in Value
BY DEF Messages, Pane

LEMMA MarkIs ==
    ASSUME NEW q \in Seq(Messages), NEW Gone, NEW Seen
    PROVE  /\ Mark(q, Gone, Seen) \in Seq(Messages) /\ DOMAIN Mark(q, Gone, Seen) = DOMAIN q
           /\ Len(Mark(q, Gone, Seen)) = Len(q)
           /\ \A i \in DOMAIN q :
                 LET m == Mark(q, Gone, Seen)[i]
                 IN  /\ m.pane = q[i].pane /\ m.stamp = q[i].stamp
                     /\ m.live <=> (q[i].live /\ q[i].pane \notin Gone)
                     /\ m.old <=> (q[i].old \/ q[i].pane \in Seen)
<1>1. ASSUME NEW i \in DOMAIN q
      PROVE  LET m == Mark(q, Gone, Seen)[i]
             IN  /\ m \in Messages /\ m.pane = q[i].pane /\ m.stamp = q[i].stamp
                 /\ m.live <=> (q[i].live /\ q[i].pane \notin Gone)
                 /\ m.old <=> (q[i].old \/ q[i].pane \in Seen)
  <2>1. PICK m \in Messages : m = q[i]
    OBVIOUS
  <2>2. PICK live \in BOOLEAN : live <=> (m.live /\ m.pane \notin Gone)
    OBVIOUS
  <2>3. PICK old \in BOOLEAN : old <=> (m.old \/ m.pane \in Seen)
    OBVIOUS
  <2>4. Mark(q, Gone, Seen)[i] = [m EXCEPT !.live = live, !.old = old]
    <3>1. m.live \in BOOLEAN /\ m.old \in BOOLEAN
      BY MessageIs
    <3>2. live = (m.live /\ m.pane \notin Gone) /\ old = (m.old \/ m.pane \in Seen)
      BY <2>2, <2>3, <3>1
    <3> QED
      BY <2>1, <3>2 DEF Mark
  <2>5. LET n == [m EXCEPT !.live = live, !.old = old]
        IN  n \in Messages /\ n.pane = m.pane /\ n.stamp = m.stamp /\ n.live = live /\ n.old = old
    BY DEF Messages
  <2> QED
    BY <2>1, <2>2, <2>3, <2>4, <2>5
<1>4. DOMAIN Mark(q, Gone, Seen) = DOMAIN q /\ DOMAIN q = 1..Len(q) /\ Len(q) \in Nat
  BY DEF Mark
<1>6. Mark(q, Gone, Seen) \in [1..Len(q) -> Messages]
  BY <1>1, <1>4 DEF Mark
<1>7. Mark(q, Gone, Seen) \in Seq(Messages) /\ Len(Mark(q, Gone, Seen)) = Len(q)
  BY <1>4, <1>6, SMTT(20)
<1> QED
  BY <1>1, <1>4, <1>7

LEMMA LastWordsAre ==
    ASSUME KnowOK, TaskOK, NEW Gone \in SUBSET Panes, NEW w \in LastWords(Gone)
    PROVE  w \in Seq(Messages) /\ \A i \in DOMAIN w : ~w[i].live
<1>1. CASE w = <<>>
  BY <1>1
<1>2. CASE w # <<>>
  <2>1. PICK p \in Gone : /\ wire[p] # <<>> /\ Head(wire[p]) # Ended
                          /\ w = <<Msg(p, "event", Head(wire[p]), FALSE)>>
    BY <1>2 DEF LastWords
  <2>2. Head(wire[p]) \in Value
    BY <2>1 DEF TaskOK
  <2>3. PICK m \in Messages : m = Msg(p, "event", Head(wire[p]), FALSE) /\ ~m.live
    BY <2>2, MsgIs
  <2>4. w = <<m>>
    BY <2>1, <2>3
  <2>5. w \in Seq(Messages) /\ DOMAIN w = {1} /\ w[1] = m
    BY <2>4
  <2> QED
    BY <2>3, <2>5
<1> QED
  BY <1>1, <1>2

\* Tasks closed, opened and panes resynced.
LEMMA TasksKeep ==
    ASSUME KnowOK, TaskOK, RxInv,
           NEW Gone \in SUBSET Panes, NEW Fresh \in SUBSET Panes, NEW Seen \in SUBSET Panes,
           Tasks(Gone, Fresh, Seen), \A p \in Fresh : task[p] = "none",
           \A p \in Panes \ Seen : gens'[p] = gens[p],
           \A p \in Seen : gens'[p] # gens[p] \/ task'[p] = "none",
           Seen \subseteq ToCome, ToCome' \subseteq ToCome \ Seen
    PROVE  TaskOK' /\ RxInv'
<1>1. task' \in [Panes -> {"none", "opening", "open", "over"}]
  BY DEF Tasks, TaskOK
<1>2. wire' \in [Panes -> Seq(Value \cup {Ended})]
  BY DEF Tasks, TaskOK
<1>3. PICK w \in LastWords(Gone) : rx' = Mark(rx, Gone, Seen) \o w
  BY DEF Tasks
<1>4. w \in Seq(Messages) /\ \A i \in DOMAIN w : ~w[i].live
  BY LastWordsAre
<1> DEFINE q == Mark(rx, Gone, Seen)
<1>5. /\ q \in Seq(Messages) /\ DOMAIN q = DOMAIN rx /\ Len(q) = Len(rx)
      /\ \A i \in DOMAIN rx : /\ q[i].pane = rx[i].pane /\ q[i].stamp = rx[i].stamp
                              /\ q[i].live <=> (rx[i].live /\ rx[i].pane \notin Gone)
                              /\ q[i].old <=> (rx[i].old \/ rx[i].pane \in Seen)
  BY MarkIs DEF TaskOK
<1> HIDE DEF q
<1>6. rx' = q \o w
  BY <1>3 DEF q
<1>7. rx' \in Seq(Messages)
  BY <1>4, <1>5, <1>6
<1>8. \A i \in DOMAIN rx' : \/ i \in DOMAIN q /\ rx'[i] = q[i]
                            \/ ~rx'[i].live
  BY <1>4, <1>5, <1>6
<1>9. ASSUME NEW i \in DOMAIN q, q[i].live
      PROVE  /\ task'[q[i].pane] # "none"
             /\ ~q[i].old => q[i].stamp = gens'[q[i].pane]
             /\ q[i].old => q[i].stamp # gens'[q[i].pane] /\ q[i].pane \notin ToCome'
  <2>1. /\ rx[i].live /\ rx[i].pane \notin Gone /\ rx[i].pane \in Panes
        /\ rx[i].old \in BOOLEAN
    BY <1>5, <1>9, MessageIs DEF TaskOK
  <2>2. /\ task[rx[i].pane] # "none"
        /\ ~rx[i].old => rx[i].stamp = gens[rx[i].pane]
        /\ rx[i].old => rx[i].stamp # gens[rx[i].pane] /\ rx[i].pane \notin ToCome
    BY <1>5, <2>1 DEF RxInv, Stamped
  <2>3. task'[rx[i].pane] # "none"
    BY <2>1, <2>2 DEF Tasks
  <2>4. CASE rx[i].pane \in Seen
    BY <1>5, <2>1, <2>2, <2>3, <2>4
  <2>5. CASE rx[i].pane \notin Seen
    BY <1>5, <2>1, <2>2, <2>3, <2>5
  <2> QED
    BY <2>4, <2>5
<1>10. RxInv'
  BY <1>8, <1>9 DEF RxInv, Stamped
<1> QED
  BY <1>1, <1>2, <1>7, <1>10 DEF TaskOK

\* Every task closed.
LEMMA TeardownKeeps ==
    ASSUME KnowOK, TaskOK, Teardown
    PROVE  /\ TaskOK' /\ RxInv' /\ LifeOK' /\ \A p \in Panes : task'[p] = "none"
<1>1. rx' \in Seq(Messages) /\ \A i \in DOMAIN rx' : ~rx'[i].live
  BY LastWordsAre DEF Teardown
<1>2. LifeOK' /\ \A p \in Panes : task'[p] = "none"
  <2>1. <<>> \in Seq(Hints \cup {End})
    OBVIOUS
  <2> QED
    BY <2>1 DEF Teardown, LifeOK
<1>3. TaskOK'
  BY <1>1 DEF Teardown, TaskOK
<1> QED
  BY <1>1, <1>2, <1>3 DEF RxInv, Stamped

-----------------------------------------------------------------------------
(* Steps of the host, the tasks and the screen.                            *)

\* What keeps the client's knowledge and its messages keeps the invariant.
LEMMA SameInside ==
    ASSUME Inv, UNCHANGED <<pc, request, batch, cache, gens, task, rx>>, wantSnapshot' = wantSnapshot
    PROVE  RxInv' /\ LinkInv' /\ OrphanInv'
BY DEF Inv, RxInv, Stamped, ToCome, Covered, LinkInv, OrphanInv

LEMMA HintsAre ==
    /\ \A p \in Panes, v \in Value : Hint("created", p, v) \in Hints
    /\ \A p \in Panes, k \in {"detected", "closed", "focused", "other"} : Hint(k, p, Absent) \in Hints
    /\ \A h \in Hints : h.pane \in Panes /\ (h.kind = "created" => h.value \in Value)
BY DEF Hint, Hints

LEMMA AnnouncedIs ==
    ASSUME NEW p \in Panes, NEW v \in Pane, srv \in [Panes -> Pane], v # srv[p]
    PROVE  Announced(p, v) \in Seq(Hints)
<1>1. \A h \in Hints : <<h>> \in Seq(Hints)
  OBVIOUS
<1>2. <<>> \in Seq(Hints)
  OBVIOUS
<1>3. srv[p] = Absent => v \in Value
  BY DEF Pane
<1> QED
  BY <1>1, <1>2, <1>3, HintsAre DEF Announced

LEMMA ServerChangeKeeps ==
    ASSUME Inv, NEW p \in Panes, NEW v \in Pane, ServerChange(p, v)
    PROVE  Inv'
<1> USE DEF Inv, Types
<1>1. UNCHANGED <<reqVars, knowVars, task, rx, open, wantVars, uiVars, server>>
  BY DEF ServerChange
<1>0. /\ moves < MaxMoves /\ moves' = moves + 1 /\ v # srv[p]
      /\ srv' = [srv EXCEPT ![p] = v]
      /\ \/ /\ life' = life \o Announced(p, v)
            /\ \/ UNCHANGED wire
               \/ v # Absent /\ wire' = [wire EXCEPT ![p] = Append(@, v)]
         \/ UNCHANGED <<life, wire>>
  BY DEF ServerChange, Move
<1>m. \E b \in BOOLEAN : missed' = [missed EXCEPT ![p] = b]
  <2>1. CASE missed' = [missed EXCEPT ![p] = TRUE]
    BY <2>1
  <2>2. CASE missed' = [missed EXCEPT ![p] = @ \/ (~(Streaming(p) /\ v # Absent) /\ Overtaken(p, v))]
    <3>1. PICK b \in BOOLEAN :
             b = (missed[p] \/ (~(Streaming(p) /\ v # Absent) /\ Overtaken(p, v)))
      OBVIOUS
    <3> QED BY <2>2, <3>1
  <2> QED BY <2>1, <2>2 DEF ServerChange
<1>2. /\ srv' \in [Panes -> Pane] /\ moves' \in 0..MaxMoves
      /\ missed' \in [Panes -> BOOLEAN]
  <2>1. MaxMoves \in Nat
    BY Constants
  <2> QED
    <3>1. srv' \in [Panes -> Pane]
      BY <1>0 DEF ServerOK
    <3>2. moves' \in 0..MaxMoves
      BY <1>0, <2>1 DEF ServerOK
    <3>3. missed' \in [Panes -> BOOLEAN]
      BY <1>m DEF ServerOK
    <3> QED
      BY <3>1, <3>2, <3>3
<1>3. life' \in Seq(Hints \cup {End})
  <2>1. Announced(p, v) \in Seq(Hints)
    BY <1>0, AnnouncedIs DEF ServerOK
  <2>2. Announced(p, v) \in Seq(Hints \cup {End})
    BY <2>1
  <2> QED
    <3>1. CASE life' = life \o Announced(p, v)
      BY <2>2, <3>1 DEF LifeOK
    <3>2. CASE UNCHANGED life
      BY <3>2 DEF LifeOK
    <3> QED
      BY <1>0, <3>1, <3>2
<1>4. wire' \in [Panes -> Seq(Value \cup {Ended})]
  <2>1. v # Absent => v \in Value
    BY DEF Pane
  <2> QED
    <3>1. CASE UNCHANGED wire
      BY <3>1 DEF TaskOK
    <3>2. CASE v # Absent /\ wire' = [wire EXCEPT ![p] = Append(@, v)]
      BY <2>1, <3>2 DEF TaskOK
    <3> QED
      BY <1>0, <3>1, <3>2
<1>5. Types'
  BY <1>1, <1>2, <1>3, <1>4 DEF ServerOK, ReqOK, KnowOK, TaskOK, LifeOK, WantOK, UiOK,
     reqVars, knowVars, wantVars, uiVars
<1> QED
  BY <1>1, <1>5, SameInside DEF reqVars, knowVars, wantVars

LEMMA HostKeeps ==
    ASSUME Inv, Host
    PROVE  Inv'
<1> USE DEF Inv, Types
<1>1. CASE \E h \in Hints : ServerHint(h)
  <2>1. UNCHANGED <<server, srv, missed, reqVars, knowVars, taskVars, open, wantVars, uiVars>>
    BY <1>1 DEF ServerHint
  <2>2. moves' \in 0..MaxMoves /\ life' \in Seq(Hints \cup {End})
    BY <1>1, Constants DEF ServerHint, Move, ServerOK, LifeOK
  <2>3. Types'
    BY <2>1, <2>2 DEF ServerOK, ReqOK, KnowOK, TaskOK, LifeOK, WantOK, UiOK,
       reqVars, knowVars, taskVars, wantVars, uiVars
  <2> QED
    BY <2>1, <2>3, SameInside DEF reqVars, knowVars, wantVars, taskVars
<1>2. CASE \E p \in Panes : KillStream(p)
  <2>1. UNCHANGED <<server, srv, missed, reqVars, knowVars, task, rx, life, open, wantVars, uiVars>>
    BY <1>2 DEF KillStream
  <2>2. moves' \in 0..MaxMoves /\ wire' \in [Panes -> Seq(Value \cup {Ended})]
    BY <1>2, Constants DEF KillStream, Move, ServerOK, TaskOK
  <2>3. Types'
    BY <2>1, <2>2 DEF ServerOK, ReqOK, KnowOK, TaskOK, LifeOK, WantOK, UiOK,
       reqVars, knowVars, wantVars, uiVars
  <2> QED
    BY <2>1, <2>3, SameInside DEF reqVars, knowVars, wantVars
<1>3. CASE \E s \in {"up", "other", "down"} : ServerRestart(s)
  <2>1. UNCHANGED <<srv, missed, reqVars, knowVars, task, rx, wantVars, uiVars>>
    BY <1>3 DEF ServerRestart
  <2>2. /\ moves' \in 0..MaxMoves /\ wire' \in [Panes -> Seq(Value \cup {Ended})]
        /\ server' \in {"up", "other", "down"}
    BY <1>3, Constants DEF ServerRestart, Move, ServerOK, TaskOK
  <2>3. life' \in Seq(Hints \cup {End}) /\ open' \in BOOLEAN
    <3>1. Append(life, End) \in Seq(Hints \cup {End})
      BY DEF LifeOK
    <3> QED
      BY <1>3, <3>1 DEF ServerRestart, LifeOK
  <2>4. Types'
    BY <2>1, <2>2, <2>3 DEF ServerOK, ReqOK, KnowOK, TaskOK, LifeOK, WantOK, UiOK,
       reqVars, knowVars, wantVars, uiVars
  <2> QED
    BY <2>1, <2>4, SameInside DEF reqVars, knowVars, wantVars
<1> QED
  BY <1>1, <1>2, <1>3, ServerChangeKeeps DEF Host

\* A message queued by a task that is under way.
LEMMA QueuedKeeps ==
    ASSUME Inv, NEW p \in Panes, task[p] # "none", NEW m \in Messages,
           m.pane = p, m.stamp = gens[p], m.old = FALSE, rx' = Append(rx, m),
           NEW step \in {"open", "over"}, task' = [task EXCEPT ![p] = step],
           wire' \in [Panes -> Seq(Value \cup {Ended})],
           UNCHANGED <<serverVars, missed, reqVars, knowVars, life, open, wantVars, uiVars>>
    PROVE  Inv'
<1> USE DEF Inv, Types
<1>1. rx' \in Seq(Messages) /\ \A i \in DOMAIN rx' : (i \in DOMAIN rx /\ rx'[i] = rx[i]) \/ rx'[i] = m
  BY DEF TaskOK
<1>2. /\ task' \in [Panes -> {"none", "opening", "open", "over"}]
      /\ \A q \in Panes : task'[q] = "none" <=> task[q] = "none"
  BY DEF TaskOK
<1>3. UNCHANGED <<server, srv, moves, missed, pc, request, answer, batch, cache, gens, life, open,
                  wantSnapshot, wantGets, told, notice, dirty, view>>
  BY DEF serverVars, reqVars, knowVars, wantVars, uiVars
<1>4. Types'
  BY <1>1, <1>2, <1>3 DEF ServerOK, ReqOK, KnowOK, TaskOK, LifeOK, WantOK, UiOK
<1>5. LinkInv' /\ OrphanInv'
  BY <1>2, <1>3 DEF LinkInv, OrphanInv
<1>6. ToCome' = ToCome
  BY <1>3 DEF ToCome, Covered
<1>7. \A i \in DOMAIN rx : rx[i].pane \in Panes
  BY MessageIs DEF TaskOK
<1>8. RxInv'
  BY <1>1, <1>2, <1>3, <1>6, <1>7 DEF RxInv, Stamped
<1> QED
  BY <1>4, <1>5, <1>8

LEMMA TaskStepsKeep ==
    ASSUME Inv, NEW p \in Panes, Ack(p) \/ Refuse(p) \/ Receive(p)
    PROVE  Inv'
<1> USE DEF Inv, Types
<1>1. CASE Ack(p)
  <2>1. UNCHANGED <<server, srv, moves, missed, pc, request, answer, batch, cache, gens, wire, rx,
                    life, open, wantSnapshot, wantGets, told, notice, dirty, view>>
    BY <1>1 DEF Ack, serverVars, reqVars, knowVars, wantVars, uiVars
  <2>2. /\ task' \in [Panes -> {"none", "opening", "open", "over"}]
        /\ \A q \in Panes : task'[q] = "none" <=> task[q] = "none"
    BY <1>1 DEF Ack, TaskOK
  <2>3. Types' /\ LinkInv' /\ OrphanInv'
    BY <2>1, <2>2 DEF ServerOK, ReqOK, KnowOK, TaskOK, LifeOK, WantOK, UiOK, LinkInv, OrphanInv
  <2>4. \A i \in DOMAIN rx : rx[i].pane \in Panes
    BY MessageIs DEF TaskOK
  <2>5. RxInv'
    BY <2>1, <2>2, <2>4 DEF RxInv, Stamped, ToCome, Covered
  <2> QED
    BY <2>3, <2>5
<1>2. CASE Refuse(p)
  <2>1. PICK k \in {"refused", "failed"} : rx' = Append(rx, Msg(p, k, Absent, TRUE))
    BY <1>2 DEF Refuse
  <2>2. PICK m : m = Msg(p, k, Absent, TRUE)
    OBVIOUS
  <2>2a. m \in Messages /\ m.pane = p /\ m.stamp = gens[p] /\ m.old = FALSE
    BY <2>2 DEF KnowOK, Msg, Messages
  <2>3. wire' \in [Panes -> Seq(Value \cup {Ended})] /\ task[p] # "none"
    BY <1>2 DEF Refuse, TaskOK
  <2> QED
    BY <1>2, <2>1, <2>2, <2>2a, <2>3, QueuedKeeps DEF Refuse
<1>3. CASE Receive(p)
  <2>1. wire' \in [Panes -> Seq(Value \cup {Ended})] /\ task[p] = "open" /\ task[p] # "none"
    BY <1>3 DEF Receive, TaskOK
  <2>2. CASE Head(wire[p]) = Ended
    <3>1. PICK m : m = Msg(p, "closed", Absent, TRUE)
      OBVIOUS
    <3>1a. m \in Messages /\ m.pane = p /\ m.stamp = gens[p] /\ m.old = FALSE
      BY <3>1 DEF KnowOK, Msg, Messages
    <3> QED
      BY <1>3, <2>1, <2>2, <3>1, <3>1a, QueuedKeeps DEF Receive
  <2>3. CASE Head(wire[p]) # Ended
    <3>1. Head(wire[p]) \in Value
      BY <1>3, <2>3 DEF Receive, TaskOK
    <3>2. PICK m : m = Msg(p, "event", Head(wire[p]), TRUE)
      OBVIOUS
    <3>2a. m \in Messages /\ m.pane = p /\ m.stamp = gens[p] /\ m.old = FALSE
      BY <3>1, <3>2 DEF KnowOK, Msg, Messages
    <3>3. task' = [task EXCEPT ![p] = "open"]
      BY <1>3, <2>1, <2>3 DEF Receive, TaskOK
    <3> QED
      BY <1>3, <2>1, <2>3, <3>2, <3>2a, <3>3, QueuedKeeps DEF Receive
  <2> QED
    BY <2>2, <2>3
<1> QED
  BY <1>1, <1>2, <1>3

LEMMA ScreenKeeps ==
    ASSUME Inv, Rederive
    PROVE  Inv'
<1> USE DEF Inv, Types
<1>1. UNCHANGED <<server, srv, moves, missed, pc, request, answer, batch, cache, gens, task, wire, rx,
                  life, open, wantSnapshot, wantGets, told, notice>>
  BY DEF Rederive, serverVars, reqVars, knowVars, taskVars, wantVars
<1>2. \A p \in Panes : Shown(p) \in Pane
  BY DEF Shown, KnowOK, Pane, Value
<1>3. UiOK'
  BY <1>1, <1>2 DEF Rederive, UiOK
<1> QED
  BY <1>1, <1>3, SameInside DEF ServerOK, ReqOK, KnowOK, TaskOK, LifeOK, WantOK

-----------------------------------------------------------------------------
(* Steps of the actor.                                                     *)

\* The link is lost or given up.
LEMMA UnlinkKeeps ==
    ASSUME Inv, Teardown, pc' = "backoff", batch' = {}, UNCHANGED <<request, answer>>,
           ServerOK', KnowOK', WantOK', UiOK'
    PROVE  Inv'
<1>1. TaskOK' /\ RxInv' /\ LifeOK' /\ \A p \in Panes : task'[p] = "none"
  BY TeardownKeeps DEF Inv, Types
<1>2. ReqOK'
  BY DEF Inv, Types, ReqOK, States
<1>3. LinkInv' /\ OrphanInv'
  BY <1>1 DEF LinkInv, OrphanInv, Waiting
<1> QED
  BY <1>1, <1>2, <1>3 DEF Inv, Types

LEMMA LostKeeps ==
    ASSUME Inv, (Disconnected /\ UNCHANGED notice) \/ Standalone, moves' \in 0..MaxMoves,
           UNCHANGED <<server, srv, missed, knowVars, dirty, view>>, WantOK'
    PROVE  Inv'
<1>1. Teardown /\ pc' = "backoff" /\ batch' = {} /\ UNCHANGED <<request, answer>>
  BY DEF Disconnected, Standalone
<1>2. UiOK'
  BY DEF Inv, Types, UiOK, Disconnected, Standalone
<1>3. ServerOK' /\ KnowOK'
  BY DEF Inv, Types, ServerOK, KnowOK, knowVars
<1> QED
  BY <1>1, <1>2, <1>3, UnlinkKeeps

\* Where no task is open, no message will be applied.
LEMMA QuietKeeps ==
    ASSUME Inv, \A p \in Panes : task[p] = "none", UNCHANGED <<task, rx>>
    PROVE  RxInv'
<1>1. \A i \in DOMAIN rx : rx[i].pane \in Panes
  BY MessageIs DEF Inv, Types, TaskOK
<1> QED
  BY <1>1 DEF Inv, RxInv, Stamped

LEMMA MoveIs == ASSUME Inv, Move \/ UNCHANGED moves PROVE moves' \in 0..MaxMoves
<1>1. MaxMoves \in Nat
  BY Constants
<1> QED
  BY <1>1 DEF Inv, Types, ServerOK, Move

LEMMA ConnectKeeps ==
    ASSUME Inv, Probe \/ Subscribe \/ BackoffOver
    PROVE  Inv'
<1> USE DEF Inv, Types
<1>1. pc \in Unlinked /\ \A p \in Panes : task[p] = "none"
  BY DEF Probe, Subscribe, BackoffOver, Unlinked, LinkInv
<1>2. WantOK /\ (UNCHANGED wantVars => WantOK')
  BY DEF WantOK, wantVars
<1>3. CASE Probe
  <2>1. UNCHANGED <<serverVars, missed, knowVars, wantVars, dirty, view>>
    BY <1>3 DEF Probe
  <2>2. CASE Standalone \/ (Disconnected /\ UNCHANGED notice)
    <3>1. moves' \in 0..MaxMoves /\ UNCHANGED <<server, srv, missed, knowVars, dirty, view>>
      BY <2>1 DEF serverVars, ServerOK
    <3> QED
      BY <1>2, <2>1, <2>2, <3>1, LostKeeps
  <2>3. CASE pc' = "subscribe" /\ UNCHANGED <<request, answer, batch, taskVars, life, open, told, notice>>
    <3>1. UNCHANGED <<server, srv, moves, missed, request, answer, batch, cache, gens, task, wire, rx,
                      life, open, wantSnapshot, wantGets, told, notice, dirty, view>>
      BY <2>1, <2>3 DEF serverVars, knowVars, taskVars, wantVars
    <3>2. Types'
      BY <2>3, <3>1 DEF ServerOK, ReqOK, KnowOK, TaskOK, LifeOK, WantOK, UiOK, States
    <3>3. LinkInv' /\ OrphanInv'
      BY <1>1, <2>3, <3>1 DEF LinkInv, OrphanInv, Waiting
    <3> QED
      BY <1>1, <3>1, <3>2, <3>3, QuietKeeps
  <2> QED
    BY <1>3, <2>2, <2>3 DEF Probe
<1>4. CASE BackoffOver
  <2>1. UNCHANGED <<server, srv, moves, missed, request, answer, batch, cache, gens, task, wire, rx,
                    life, open, wantSnapshot, wantGets, told, notice, dirty, view>> /\ pc' = "probe"
    BY <1>4 DEF BackoffOver, serverVars, knowVars, taskVars, wantVars, uiVars
  <2>2. Types'
    BY <2>1 DEF ServerOK, ReqOK, KnowOK, TaskOK, LifeOK, WantOK, UiOK, States
  <2>3. LinkInv' /\ OrphanInv'
    BY <1>1, <2>1 DEF LinkInv, OrphanInv, Waiting
  <2> QED
    BY <1>1, <2>1, <2>2, <2>3, QuietKeeps
<1>5. CASE Subscribe
  <2>1. UNCHANGED <<server, srv, missed, cache, gens, wantSnapshot, wantGets, notice, dirty, view>>
        /\ moves' \in 0..MaxMoves
    BY <1>5, MoveIs DEF Subscribe, knowVars, wantVars
  <2>2. CASE Disconnected
    <3>1. WantOK' /\ UNCHANGED <<knowVars, notice>>
      BY <2>1 DEF WantOK, knowVars
    <3> QED
      BY <2>1, <2>2, <3>1, LostKeeps
  <2>3. CASE ~Disconnected
    <3>1. /\ open' = TRUE /\ pc' = "asking" /\ request' = "boot"
          /\ life' = <<>> \/ \E h \in Hints : life' = <<h>>
          /\ UNCHANGED <<answer, batch, task, wire, rx, told>>
      BY <1>5, <2>3 DEF Subscribe, taskVars
    <3>2. life' \in Seq(Hints \cup {End})
      <4>1. \A h \in Hints : <<h>> \in Seq(Hints \cup {End})
        OBVIOUS
      <4>2. <<>> \in Seq(Hints \cup {End})
        OBVIOUS
      <4> QED
        BY <3>1, <4>1, <4>2
    <3>3. Types'
      BY <2>1, <3>1, <3>2 DEF ServerOK, ReqOK, KnowOK, TaskOK, LifeOK, WantOK, UiOK, States
    <3>4. LinkInv'
      <4>1. request' \notin batch'
        BY <3>1, Constants DEF ReqOK
      <4> QED
        BY <1>1, <3>1, <4>1 DEF LinkInv
    <3>5. OrphanInv'
      BY <3>1, Constants DEF OrphanInv
    <3> QED
      BY <1>1, <3>1, <3>3, <3>4, <3>5, QuietKeeps
  <2> QED
    BY <2>2, <2>3
<1> QED
  BY <1>3, <1>4, <1>5

\* Requests and answers, before anything is installed.
LEMMA RequestsKeep ==
    ASSUME Inv, Answer \/ RequestFails \/ RequestRefused \/ Announce
    PROVE  Inv'
<1> USE DEF Inv, Types
<1>1. CASE Answer
  <2>1. /\ UNCHANGED <<server, srv, moves, request, batch, cache, gens, task, wire, rx,
                       life, open, wantSnapshot, wantGets, told, notice, dirty, view>>
        /\ pc = "asking" /\ pc' = "marking" /\ answer' = srv
        /\ missed' = [p \in Panes |-> missed[p] /\ ~(p \in Covered /\ wire[p] = <<>>)]
    BY <1>1 DEF Answer, serverVars, knowVars, taskVars, wantVars, uiVars
  <2>2. Types'
    BY <2>1 DEF ServerOK, ReqOK, KnowOK, TaskOK, LifeOK, WantOK, UiOK, States
  <2>3. LinkInv' /\ OrphanInv'
    BY <2>1 DEF LinkInv, OrphanInv, Waiting, Unlinked
  <2>4. ToCome' = ToCome
    BY <2>1 DEF ToCome, Covered, Waiting
  <2>5. RxInv'
    BY <2>1, <2>4 DEF RxInv
  <2> QED
    BY <2>2, <2>3, <2>5
<1>2. CASE Announce
  <2>1. /\ UNCHANGED <<server, srv, moves, missed, request, answer, batch, cache, gens, task, wire, rx,
                       life, open, wantSnapshot, wantGets, notice, view>>
        /\ pc = "marking" /\ pc' = "installing" /\ dirty' = TRUE /\ told' \in {"connected", told}
    BY <1>2 DEF Announce, serverVars, knowVars, taskVars, wantVars
  <2>2. Types'
    BY <2>1 DEF ServerOK, ReqOK, KnowOK, TaskOK, LifeOK, WantOK, UiOK, States
  <2>3. LinkInv' /\ OrphanInv'
    BY <2>1 DEF LinkInv, OrphanInv, Waiting, Unlinked
  <2>4. ToCome' = ToCome
    BY <2>1 DEF ToCome, Covered, Waiting
  <2>5. RxInv'
    BY <2>1, <2>4 DEF RxInv
  <2> QED
    BY <2>2, <2>3, <2>5
<1>3. CASE RequestFails
  <2>1. UNCHANGED <<server, srv, missed, knowVars, wantVars, dirty, view>> /\ moves' \in 0..MaxMoves
    BY <1>3, MoveIs DEF RequestFails
  <2>2. (Disconnected /\ UNCHANGED notice) \/ Standalone
    BY <1>3 DEF RequestFails
  <2>3. WantOK'
    BY <2>1 DEF WantOK, wantVars
  <2> QED
    BY <2>1, <2>2, <2>3, LostKeeps
<1>4. CASE RequestRefused
  <2>1. /\ UNCHANGED <<server, srv, missed, request, answer, batch, cache, gens, task, wire, rx,
                       life, open, wantGets, told, notice, dirty, view>>
        /\ pc = "asking" /\ request # "boot" /\ wantSnapshot' = TRUE /\ moves' \in 0..MaxMoves
        /\ pc' = IF batch = {} THEN "session" ELSE "next"
    BY <1>4, MoveIs DEF RequestRefused, knowVars, taskVars, uiVars
  <2>2. Types'
    BY <2>1 DEF ServerOK, ReqOK, KnowOK, TaskOK, LifeOK, WantOK, UiOK, States
  <2>3. LinkInv' /\ OrphanInv'
    BY <2>1 DEF LinkInv, OrphanInv, Waiting, Unlinked
  <2>4. ToCome' \subseteq ToCome
    BY <2>1 DEF ToCome, Covered, Waiting
  <2>5. RxInv'
    BY <2>1, <2>4 DEF RxInv, Stamped
  <2> QED
    BY <2>2, <2>3, <2>5
<1> QED
  BY <1>1, <1>2, <1>3, <1>4

\* What is due is chosen when no message is queued.
LEMMA DueKeeps ==
    ASSUME Inv, DueSnapshot \/ DuePanes \/ NextPane \/ Fallback
    PROVE  Inv'
<1> USE DEF Inv, Types
<1>1. CASE DueSnapshot
  <2>1. /\ UNCHANGED <<server, srv, moves, missed, answer, batch, cache, gens, task, wire, rx,
                       life, open, told, notice, dirty, view>>
        /\ pc = "session" /\ rx = <<>> /\ wantSnapshot' = FALSE /\ wantGets' = {}
        /\ pc' = "asking" /\ request' = "snapshot"
    BY <1>1 DEF DueSnapshot, serverVars, knowVars, taskVars, uiVars
  <2>2. Types'
    BY <2>1 DEF ServerOK, ReqOK, KnowOK, TaskOK, LifeOK, WantOK, UiOK, States
  <2>3. request' \notin Panes /\ request' \notin batch'
    BY <2>1, Constants DEF ReqOK
  <2>4. LinkInv' /\ OrphanInv'
    BY <2>1, <2>3 DEF LinkInv, OrphanInv, Waiting, Unlinked
  <2>5. RxInv'
    BY <2>1 DEF RxInv, Stamped
  <2> QED
    BY <2>2, <2>4, <2>5
<1>2. CASE DuePanes
  <2>1. /\ UNCHANGED <<server, srv, moves, missed, request, answer, cache, gens, task, wire, rx,
                       life, open, wantSnapshot, wantGets, told, notice, dirty, view>>
        /\ pc = "session" /\ rx = <<>> /\ pc' = "next" /\ batch' \in SUBSET wantGets
    BY <1>2 DEF DuePanes, serverVars, knowVars, taskVars, wantVars, uiVars
  <2>2. Types'
    BY <2>1 DEF ServerOK, ReqOK, KnowOK, TaskOK, LifeOK, WantOK, UiOK, States
  <2>4. LinkInv' /\ OrphanInv'
    BY <2>1 DEF LinkInv, OrphanInv, Waiting, Unlinked
  <2>5. RxInv'
    BY <2>1 DEF RxInv, Stamped
  <2> QED
    BY <2>2, <2>4, <2>5
<1>3. CASE NextPane
  <2>1. /\ UNCHANGED <<server, srv, moves, missed, answer, cache, gens, task, wire, rx,
                       life, open, wantSnapshot, told, notice, dirty, view>>
        /\ pc = "next" /\ pc' = "asking" /\ wantGets' \in SUBSET wantGets
        /\ request' \in batch /\ batch' = batch \ {request'}
    BY <1>3 DEF NextPane, serverVars, knowVars, taskVars, uiVars
  <2>2. Types'
    BY <2>1 DEF ServerOK, ReqOK, KnowOK, TaskOK, LifeOK, WantOK, UiOK, States
  <2>3. request' \in Panes /\ request' # "boot"
    BY <2>1, Constants DEF ReqOK
  <2>4. LinkInv' /\ OrphanInv'
    BY <2>1, <2>3 DEF LinkInv, OrphanInv, Waiting, Unlinked
  <2>5. ToCome' = ToCome
    BY <2>1, <2>3 DEF ToCome, Covered, Waiting
  <2>6. RxInv'
    BY <2>1, <2>5 DEF RxInv
  <2> QED
    BY <2>2, <2>4, <2>6
<1>4. CASE Fallback
  <2>1. /\ UNCHANGED <<server, srv, moves, missed, pc, request, answer, batch, cache, gens, task, wire, rx,
                       life, open, wantGets, told, notice, dirty, view>>
        /\ wantSnapshot' = TRUE
    BY <1>4 DEF Fallback, serverVars, reqVars, knowVars, taskVars, uiVars
  <2>2. Types'
    BY <2>1 DEF ServerOK, ReqOK, KnowOK, TaskOK, LifeOK, WantOK, UiOK, States
  <2>3. LinkInv' /\ OrphanInv' /\ RxInv'
    BY <2>1 DEF LinkInv, OrphanInv, RxInv, Stamped, ToCome, Covered
  <2> QED
    BY <2>2, <2>3
<1> QED
  BY <1>1, <1>2, <1>3, <1>4

\* A snapshot, of bootstrap or of a resync, is installed.
LEMMA InstalledIs ==
    ASSUME KnowOK, NEW new \in [Panes -> Pane], Installed(new), dirty \in BOOLEAN
    PROVE  /\ KnowOK' /\ dirty' \in BOOLEAN
           /\ \A p \in Panes : /\ cache'[p].info = new[p]
                               /\ new[p] # Absent => gens'[p] # gens[p]
<1>1. \A p \in Panes : /\ Record(new[p]) \in [info : Pane, status : Value \cup {None}]
                       /\ Record(new[p]).info = new[p]
  BY RecordIs
<1>2. \A p \in Panes : gens[p] \in 0..GenMod /\ Bump(gens[p]) \in 0..GenMod /\ Bump(gens[p]) # gens[p]
  BY BumpIs DEF KnowOK
<1>3. 0 \in 0..GenMod
  BY Constants
<1>4. cache' = [p \in Panes |-> Record(new[p])]
      /\ gens' = [p \in Panes |-> IF new[p] = Absent THEN 0 ELSE Bump(gens[p])]
  BY DEF Installed
<1> QED
  BY <1>1, <1>2, <1>3, <1>4 DEF KnowOK, Installed

LEMMA ReconciledKeeps ==
    ASSUME Inv, Installed(answer), Reconciled(answer), Covered = Panes,
           pc = "installing", ToCome' = {}
    PROVE  /\ KnowOK' /\ dirty' \in BOOLEAN /\ TaskOK' /\ RxInv'
           /\ \A p \in Panes : task'[p] # "none" => cache'[p].info # Absent
<1> USE DEF Inv, Types
<1>1. /\ KnowOK' /\ dirty' \in BOOLEAN
      /\ \A p \in Panes : /\ cache'[p].info = answer[p]
                          /\ answer[p] # Absent => gens'[p] # gens[p]
  BY InstalledIs DEF UiOK, ReqOK
<1> DEFINE gone == {p \in Panes : task[p] # "none" /\ ~Bearing(answer[p])}
           wanted == {p \in Panes : task[p] = "none" /\ Bearing(answer[p])}
<1>2. Tasks(gone, wanted, Panes)
  BY DEF Reconciled
<1>3. \A p \in Panes : Bearing(answer[p]) => answer[p] # Absent
  BY Constants DEF Bearing
<1>4. \A p \in Panes : ~Bearing(answer[p]) => task'[p] = "none"
  BY <1>2 DEF Tasks, TaskOK
<1>5. \A p \in Panes : gens'[p] # gens[p] \/ task'[p] = "none"
  BY <1>1, <1>3, <1>4
<1>6. Panes \subseteq ToCome /\ ToCome' \subseteq ToCome \ Panes
  BY DEF ToCome, Waiting
<1> HIDE DEF gone, wanted
<1>7. gone \in SUBSET Panes /\ wanted \in SUBSET Panes /\ \A p \in wanted : task[p] = "none"
  BY DEF gone, wanted
<1>8. TaskOK' /\ RxInv'
  BY <1>2, <1>5, <1>6, <1>7, TasksKeep
<1> QED
  BY <1>1, <1>3, <1>4, <1>8

LEMMA SnapshotKeeps ==
    ASSUME Inv, InstallSnapshot
    PROVE  Inv'
<1> USE DEF Inv, Types
<1>1. /\ UNCHANGED <<server, srv, moves, missed, request, answer, batch, life, open,
                     wantSnapshot, wantGets, told, notice, view>>
      /\ pc = "installing" /\ pc' = "session" /\ request = "snapshot"
  BY DEF InstallSnapshot, serverVars, wantVars
<1>2. Covered = Panes /\ ToCome' = {}
  BY <1>1, Constants DEF Covered, ToCome, Waiting
<1>3. /\ KnowOK' /\ dirty' \in BOOLEAN /\ TaskOK' /\ RxInv'
      /\ \A p \in Panes : task'[p] # "none" => cache'[p].info # Absent
  BY <1>1, <1>2, ReconciledKeeps DEF InstallSnapshot
<1>4. Types'
  BY <1>1, <1>3 DEF ServerOK, ReqOK, LifeOK, WantOK, UiOK, States
<1>5. LinkInv' /\ OrphanInv'
  BY <1>1, <1>3 DEF LinkInv, OrphanInv, Waiting, Unlinked
<1> QED
  BY <1>3, <1>4, <1>5

LEMMA BootKeeps ==
    ASSUME Inv, InstallBoot
    PROVE  Inv'
<1> USE DEF Inv, Types
<1>1. /\ UNCHANGED <<server, srv, moves, missed, wantGets, view>>
      /\ pc = "installing" /\ request = "boot" /\ Installed(answer)
  BY DEF InstallBoot, serverVars
<1>2. CASE Disconnected /\ UNCHANGED <<wantSnapshot, notice>>
  <2>1. KnowOK' /\ dirty' \in BOOLEAN
    BY <1>1, InstalledIs DEF UiOK, ReqOK
  <2>2. ServerOK' /\ WantOK' /\ UiOK'
    BY <1>1, <1>2, <2>1 DEF ServerOK, WantOK, UiOK, Disconnected
  <2> QED
    BY <1>2, <2>1, <2>2, UnlinkKeeps DEF Disconnected
<1>3. CASE \E k \in 0..Len(life) :
             /\ Reconciled(answer) /\ life' = SubSeq(life, k + 1, Len(life))
             /\ wantSnapshot' = (wantSnapshot \/ k > 0) /\ notice' = FALSE
             /\ pc' = "session" /\ UNCHANGED <<request, answer, batch, open, told>>
  <2>1. PICK k \in 0..Len(life) :
             /\ Reconciled(answer) /\ life' = SubSeq(life, k + 1, Len(life))
             /\ wantSnapshot' = (wantSnapshot \/ k > 0) /\ notice' = FALSE
             /\ pc' = "session" /\ UNCHANGED <<request, answer, batch, open, told>>
    BY <1>3
  <2>2. Covered = Panes /\ ToCome' = {}
    BY <1>1, <2>1, Constants DEF Covered, ToCome, Waiting
  <2>3. /\ KnowOK' /\ dirty' \in BOOLEAN /\ TaskOK' /\ RxInv'
        /\ \A p \in Panes : task'[p] # "none" => cache'[p].info # Absent
    BY <1>1, <2>1, <2>2, ReconciledKeeps
  <2>4. life' \in Seq(Hints \cup {End})
    <3>1. k \in Nat /\ k + 1 \in Nat \ {0} /\ Len(life) \in Nat
      BY <2>1 DEF LifeOK
    <3> QED
      BY <2>1, <3>1 DEF LifeOK
  <2>5. Types'
    BY <1>1, <2>1, <2>3, <2>4 DEF ServerOK, ReqOK, LifeOK, WantOK, UiOK, States
  <2>6. LinkInv' /\ OrphanInv'
    BY <1>1, <2>1, <2>3 DEF LinkInv, OrphanInv, Waiting, Unlinked
  <2> QED
    BY <2>3, <2>5, <2>6
<1> QED
  BY <1>2, <1>3 DEF InstallBoot

LEMMA PaneKeeps ==
    ASSUME Inv, InstallPane
    PROVE  Inv'
<1> USE DEF Inv, Types
<1>1. /\ UNCHANGED <<server, srv, moves, missed, request, answer, batch, life, open,
                     wantSnapshot, wantGets, told, notice, view>>
      /\ pc = "installing" /\ pc' = IF batch = {} THEN "session" ELSE "next"
  BY DEF InstallPane, serverVars, wantVars
<1>2. PICK p \in Panes : p = request
  BY DEF InstallPane
<1>3. PICK v \in Pane : v = answer[p]
  BY DEF ReqOK
<1> DEFINE gone == {q \in {p} : v = Absent /\ task[p] # "none"}
           wanted == {q \in {p} : Bearing(v) /\ task[p] = "none"}
<1>4. /\ cache' = [cache EXCEPT ![p] = Record(v)]
      /\ gens' = [gens EXCEPT ![p] = IF v = Absent THEN 0 ELSE Bump(gens[p])]
      /\ dirty' = (dirty \/ v # Absent)
      /\ Tasks(gone, wanted, {p})
  BY <1>2, <1>3 DEF InstallPane, KnowOK
<1>5. /\ gens[p] \in 0..GenMod /\ Bump(gens[p]) \in 0..GenMod /\ Bump(gens[p]) # gens[p]
      /\ 0 \in 0..GenMod
  BY BumpIs, Constants DEF KnowOK
<1>6. KnowOK'
  BY <1>4, <1>5, RecordIs DEF KnowOK
<1>7. v = Absent => task'[p] = "none"
  <2>1. Bearing(v) => v # Absent
    BY Constants DEF Bearing
  <2> QED
    BY <1>4, <2>1 DEF Tasks, TaskOK
<1>8. gens'[p] # gens[p] \/ task'[p] = "none"
  BY <1>4, <1>5, <1>7 DEF KnowOK
<1>9. {p} \subseteq ToCome /\ ToCome' \subseteq ToCome \ {p}
  BY <1>1, <1>2 DEF ToCome, Waiting, Covered, LinkInv
<1>10. /\ gone \in SUBSET Panes /\ wanted \in SUBSET Panes /\ {p} \in SUBSET Panes
       /\ \A q \in wanted : task[q] = "none"
       /\ \A q \in Panes \ {p} : gens'[q] = gens[q] /\ cache'[q] = cache[q]
  BY <1>4 DEF KnowOK
<1>11. \A q \in Panes \ {p} : task'[q] = task[q]
  BY <1>4 DEF Tasks
<1> HIDE DEF gone, wanted
<1>12. TaskOK' /\ RxInv'
  BY <1>4, <1>8, <1>9, <1>10, TasksKeep
<1>13. Types'
  BY <1>1, <1>4, <1>6, <1>12 DEF ServerOK, ReqOK, LifeOK, WantOK, UiOK, States
<1>14. LinkInv'
  BY <1>1 DEF LinkInv, Waiting, Unlinked
<1>15. cache'[p].info = v
  BY <1>4, RecordIs DEF KnowOK
<1>16. OrphanInv'
  BY <1>1, <1>2, <1>7, <1>10, <1>11, <1>15 DEF OrphanInv, Waiting
<1> QED
  BY <1>12, <1>13, <1>14, <1>16

\* The messages behind the first.
LEMMA TailIs ==
    ASSUME Inv, rx # <<>>
    PROVE  /\ Tail(rx) \in Seq(Messages) /\ Head(rx) \in Messages
           /\ Stamped(Tail(rx), task, gens, ToCome)
           /\ rx[1] = Head(rx)
<1>1. rx \in Seq(Messages)
  BY DEF Inv, Types, TaskOK
<1>2. \A i \in DOMAIN Tail(rx) : i + 1 \in DOMAIN rx /\ Tail(rx)[i] = rx[i + 1]
  BY <1>1
<1> QED
  BY <1>1, <1>2 DEF Inv, RxInv, Stamped

LEMMA LifecycleKeeps ==
    ASSUME Inv, HandleLifecycle
    PROVE  Inv'
<1> USE DEF Inv, Types
<1>1. /\ UNCHANGED <<server, srv, moves, missed, pc, request, answer, batch, gens, open,
                     told, notice, dirty, view>>
      /\ pc = "session" /\ life # <<>> /\ Head(life).kind # Ended /\ life' = Tail(life)
  BY DEF HandleLifecycle, serverVars, reqVars, uiVars
<1>2. PICK h \in Hints : h = Head(life)
  BY <1>1 DEF LifeOK, End
<1>3. h.pane \in Panes /\ (h.kind = "created" => h.value \in Value)
  BY HintsAre
<1> DEFINE gone == {p \in {h.pane} : ClosesTask(h)}
           fresh == {p \in {h.pane} : OpensTask(h)}
<1>4. /\ cache' = IF Provisional(h)
                  THEN [cache EXCEPT ![h.pane] = [info |-> h.value, status |-> None]]
                  ELSE cache
      /\ Tasks(gone, fresh, {})
      /\ IF h.kind = "focused"
         THEN wantGets' = wantGets \cup {h.pane} /\ UNCHANGED wantSnapshot
         ELSE wantSnapshot' = (wantSnapshot \/ ~Cosmetic(h)) /\ UNCHANGED wantGets
  BY <1>2 DEF HandleLifecycle
<1>5. KnowOK'
  BY <1>1, <1>3, <1>4 DEF KnowOK, Provisional, Pane
<1>6. WantOK'
  BY <1>3, <1>4 DEF WantOK
<1>7. life' \in Seq(Hints \cup {End})
  BY <1>1 DEF LifeOK
<1>8. /\ gone \in SUBSET Panes /\ fresh \in SUBSET Panes /\ \A p \in fresh : task[p] = "none"
      /\ ToCome' = {} /\ ToCome = {}
  BY <1>1, <1>3 DEF OpensTask, ToCome, Waiting
<1>9. ~wantSnapshot' => ~wantSnapshot /\ UNCHANGED cache /\ fresh = {}
  BY <1>4 DEF Cosmetic, Provisional, OpensTask
<1> HIDE DEF gone, fresh
<1>10. TaskOK' /\ RxInv'
  BY <1>1, <1>4, <1>8, TasksKeep
<1>11. fresh = {} => \A p \in Panes : task'[p] # "none" => task[p] # "none"
  BY <1>4 DEF Tasks
<1>12. Types'
  BY <1>1, <1>5, <1>6, <1>7, <1>10 DEF ServerOK, ReqOK, LifeOK, UiOK
<1>13. LinkInv' /\ OrphanInv'
  BY <1>1, <1>9, <1>11 DEF LinkInv, OrphanInv, Waiting, Unlinked
<1> QED
  BY <1>10, <1>12, <1>13

LEMMA StatusKeeps ==
    ASSUME Inv, StaleMessage \/ StatusEvent \/ StatusOver
    PROVE  Inv'
<1> USE DEF Inv, Types
<1>1. /\ UNCHANGED <<server, srv, moves, missed, pc, request, answer, batch, gens, wire, life, open,
                     told, notice, view>>
      /\ pc = "session" /\ rx # <<>>
  BY DEF StaleMessage, StatusEvent, StatusOver, serverVars, reqVars, knowVars, wantVars, uiVars
<1>2. PICK m \in Messages : m = Head(rx)
  BY <1>1, TailIs
<1>3. m.pane \in Panes /\ (m.kind = "event" => m.status \in Value)
  BY MessageIs
<1>4. Tail(rx) \in Seq(Messages) /\ Stamped(Tail(rx), task, gens, {})
  BY <1>1, TailIs DEF ToCome, Waiting
<1>5. ToCome' = {} /\ LinkInv'
  BY <1>1 DEF ToCome, Waiting, LinkInv, Unlinked
<1>6. CASE StaleMessage
  <2>1. UNCHANGED <<cache, task, wantSnapshot, wantGets, dirty>> /\ rx' = Tail(rx)
    BY <1>6 DEF StaleMessage, knowVars, wantVars, uiVars
  <2>2. Types'
    BY <1>1, <1>4, <2>1 DEF ServerOK, ReqOK, KnowOK, TaskOK, LifeOK, WantOK, UiOK
  <2>3. RxInv' /\ OrphanInv'
    BY <1>1, <1>4, <1>5, <2>1 DEF RxInv, Stamped, OrphanInv
  <2> QED
    BY <1>5, <2>2, <2>3
<1>7. CASE StatusEvent
  <2>1. /\ UNCHANGED <<task, wantSnapshot>> /\ rx' = Tail(rx) /\ m.kind = "event"
        /\ wantGets' = wantGets \cup AskedAgain(m) /\ dirty' \in BOOLEAN
        /\ cache' = cache \/ cache' = [cache EXCEPT ![m.pane].status = m.status]
    BY <1>2, <1>7 DEF StatusEvent, UiOK
  <2>2. AskedAgain(m) \in SUBSET Panes
    BY <1>3 DEF AskedAgain
  <2>3. KnowOK' /\ \A p \in Panes : cache'[p].info = cache[p].info
    <3>1. CASE cache' = cache
      BY <1>1, <3>1 DEF KnowOK
    <3>2. CASE cache' = [cache EXCEPT ![m.pane].status = m.status]
      <4>1. m.status \in Value /\ cache[m.pane] \in [info : Pane, status : Value \cup {None}]
        BY <1>3, <2>1 DEF KnowOK
      <4>2. LET c == [cache[m.pane] EXCEPT !.status = m.status]
            IN  c \in [info : Pane, status : Value \cup {None}] /\ c.info = cache[m.pane].info
        BY <4>1
      <4>3. cache' = [cache EXCEPT ![m.pane] = [cache[m.pane] EXCEPT !.status = m.status]]
        BY <1>3, <3>2 DEF KnowOK
      <4> QED
        BY <1>1, <1>3, <4>2, <4>3 DEF KnowOK
    <3> QED
      BY <2>1, <3>1, <3>2
  <2>4. Types'
    BY <1>1, <1>4, <2>1, <2>2, <2>3 DEF ServerOK, ReqOK, TaskOK, LifeOK, WantOK, UiOK
  <2>5. RxInv' /\ OrphanInv'
    BY <1>1, <1>4, <1>5, <2>1, <2>3 DEF RxInv, Stamped, OrphanInv
  <2> QED
    BY <1>5, <2>4, <2>5
<1>8. CASE StatusOver
  <2>1. /\ UNCHANGED <<cache, wantGets, dirty>> /\ task' = [task EXCEPT ![m.pane] = "none"]
        /\ rx' = Mark(Tail(rx), {m.pane}, {}) /\ wantSnapshot' = (wantSnapshot \/ m.kind = "refused")
    BY <1>2, <1>8 DEF StatusOver, knowVars, uiVars
  <2>2. /\ rx' \in Seq(Messages) /\ DOMAIN rx' = DOMAIN Tail(rx)
        /\ \A i \in DOMAIN rx' :
              /\ rx'[i].pane = Tail(rx)[i].pane /\ rx'[i].stamp = Tail(rx)[i].stamp
              /\ rx'[i].live <=> (Tail(rx)[i].live /\ Tail(rx)[i].pane \notin {m.pane})
              /\ rx'[i].old <=> (Tail(rx)[i].old \/ Tail(rx)[i].pane \in {})
    <3>1. PICK q \in Seq(Messages) : q = Tail(rx)
      BY <1>4
    <3>2. /\ Mark(q, {m.pane}, {}) \in Seq(Messages) /\ DOMAIN Mark(q, {m.pane}, {}) = DOMAIN q
          /\ \A i \in DOMAIN q :
                LET n == Mark(q, {m.pane}, {})[i]
                IN  /\ n.pane = q[i].pane /\ n.stamp = q[i].stamp
                    /\ n.live <=> (q[i].live /\ q[i].pane \notin {m.pane})
                    /\ n.old <=> (q[i].old \/ q[i].pane \in {})
      BY MarkIs
    <3> QED
      BY <2>1, <3>1, <3>2
  <2>3. /\ task' \in [Panes -> {"none", "opening", "open", "over"}]
        /\ \A p \in Panes : task'[p] = IF p = m.pane THEN "none" ELSE task[p]
    BY <2>1 DEF TaskOK
  <2>4. Types'
    BY <1>1, <2>1, <2>2, <2>3 DEF ServerOK, ReqOK, KnowOK, TaskOK, LifeOK, WantOK, UiOK
  <2>5. \A i \in DOMAIN rx' : Tail(rx)[i].pane \in Panes
    BY <1>4, <2>2, MessageIs
  <2>6. RxInv'
    BY <1>1, <1>4, <1>5, <2>2, <2>3, <2>5 DEF RxInv, Stamped
  <2>7. OrphanInv'
    BY <1>1, <2>1, <2>3 DEF OrphanInv
  <2> QED
    BY <1>5, <2>4, <2>6, <2>7
<1> QED
  BY <1>6, <1>7, <1>8

LEMMA EndsKeep ==
    ASSUME Inv, LifecycleEnds \/ StatusFailed
    PROVE  Inv'
<1>1. /\ Disconnected
      /\ UNCHANGED <<serverVars, missed, knowVars, wantVars, notice, dirty, view>>
  BY DEF LifecycleEnds, StatusFailed
<1>2. moves' \in 0..MaxMoves /\ WantOK' /\ UNCHANGED <<server, srv>>
  BY <1>1 DEF Inv, Types, ServerOK, WantOK, serverVars, wantVars
<1> QED
  BY <1>1, <1>2, LostKeeps

-----------------------------------------------------------------------------
(* The theorems.                                                           *)

LEMMA InvStep == Inv /\ [Next]_vars => Inv'
<1> SUFFICES ASSUME Inv, [Next]_vars PROVE Inv'
  OBVIOUS
<1>1. CASE UNCHANGED vars
  BY <1>1 DEF vars, Inv, Types, ServerOK, ReqOK, KnowOK, TaskOK, LifeOK, WantOK, UiOK, RxInv,
     Stamped, ToCome, Covered, LinkInv, OrphanInv
<1>2. CASE Actor
  BY <1>2, ConnectKeeps, RequestsKeep, SnapshotKeeps, BootKeeps, PaneKeeps, DueKeeps,
     LifecycleKeeps, StatusKeeps, EndsKeep DEF Actor
<1>3. CASE Host \/ Answer \/ Fallback \/ Rederive
  BY <1>3, HostKeeps, RequestsKeep, DueKeeps, ScreenKeeps
<1>4. CASE \E p \in Panes : Ack(p) \/ Refuse(p) \/ Receive(p)
  BY <1>4, TaskStepsKeep
<1> QED
  BY <1>1, <1>2, <1>3, <1>4 DEF Next

LEMMA InitInv == Init => Inv
<1> SUFFICES ASSUME Init PROVE Inv
  OBVIOUS
<1>1. MaxMoves \in Nat /\ GenMod \in Nat
  BY Constants
<1>2. Unknown \in [info : Pane, status : Value \cup {None}]
  BY DEF Unknown, Pane
<1>3. \A S : <<>> \in Seq(S)
  OBVIOUS
<1>4. Types
  <2>1. ServerOK /\ ReqOK
    BY <1>1 DEF Init, ServerOK, ReqOK, States, Pane
  <2>2. KnowOK
    BY <1>1, <1>2 DEF Init, KnowOK
  <2>3. TaskOK /\ LifeOK
    BY <1>3 DEF Init, TaskOK, LifeOK
  <2>4. WantOK /\ UiOK
    BY DEF Init, WantOK, UiOK, Pane
  <2> QED
    BY <2>1, <2>2, <2>3, <2>4 DEF Types
<1>5. RxInv /\ LinkInv /\ OrphanInv
  BY DEF Init, RxInv, Stamped, LinkInv, OrphanInv, Waiting
<1> QED
  BY <1>4, <1>5 DEF Inv

\* For any panes, statuses, queue lengths and moves of the host the client's
\* variables keep their types.
THEOREM TypeCorrect == Spec => []TypeOK
<1>1. Inv => TypeOK
  BY DEF Inv, Types, ServerOK, ReqOK, KnowOK, TaskOK, LifeOK, WantOK, UiOK, TypeOK, States
<1> QED
  BY <1>1, InitInv, InvStep, PTL DEF Spec

\* For any number of panes, messages and generations before they wrap (two
\* are enough): no event from before a resync of its pane is applied after it.
THEOREM StampsTrue == Spec => []StampsAreTrue
<1>1. Inv => StampsAreTrue
  BY DEF Inv, RxInv, Stamped, StampsAreTrue, Current
<1> QED
  BY <1>1, InitInv, InvStep, PTL DEF Spec

\* For any number of panes: between snapshots no status connection outlives
\* its pane.
THEOREM NoOrphans == Spec => []NoOrphanStream
<1>1. Inv => NoOrphanStream
  BY DEF Inv, OrphanInv, NoOrphanStream
<1> QED
  BY <1>1, InitInv, InvStep, PTL DEF Spec

-----------------------------------------------------------------------------
(* News: what the client has not been told is on its way to it.             *)

\* The lifecycle stream holds word of a pane whose nature changed, of one closed.
Natures == {"created", "detected", "closed", "other"}
ToldOf(p, Kinds) == \E i \in DOMAIN life : life[i].pane = p /\ life[i].kind \in Kinds

\* The events on a pane's stream, and its queued ones that will be handled.
Carried(p) == {i \in DOMAIN wire[p] : wire[p][i] # Ended}
Queued(p) == {i \in DOMAIN rx : rx[i].live /\ rx[i].pane = p /\ rx[i].kind = "event"}
Latest(i, S) == i \in S /\ \A j \in S : j <= i

\* An end is the last thing on a stream, and of a task.
Ending ==
    /\ \A p \in Panes : /\ task[p] # "open" => wire[p] = <<>>
                        /\ \A i \in DOMAIN wire[p] : wire[p][i] = Ended => i = Len(wire[p])
    /\ \A i \in DOMAIN rx : rx[i].live /\ rx[i].kind # "event" =>
          /\ task[rx[i].pane] = "over"
          /\ \A j \in DOMAIN rx : j > i /\ rx[j].live => rx[j].pane # rx[i].pane

\* The latest event on a pane's stream is the truth.
WireTrue(p) ==
    \/ missed[p] \/ ToldOf(p, {"closed"})
    \/ \A i \in Carried(p) : Latest(i, Carried(p)) => wire[p][i] = srv[p]

\* The pane is going to be read, or a queued event will ask for it.
Unread(p) ==
    \/ wantSnapshot \/ p \in wantGets \/ ToldOf(p, Natures)
    \/ pc = "next" /\ p \in batch
    \/ pc \in Waiting /\ p \in batch \ Covered
    \/ pc = "asking" /\ p \in Covered
    \/ \E i \in Queued(p) : rx[i].stamp # gens[p]

\* Once the events in flight are applied, the client has the truth.
AnswerFits(p) ==
    /\ Bearing(answer[p]) <=> Bearing(srv[p])
    /\ Bearing(srv[p]) /\ Carried(p) = {} /\ Queued(p) = {} => answer[p] = srv[p]
CacheFits(p) ==
    /\ Bearing(cache[p].info) <=> Bearing(srv[p])
    /\ Bearing(srv[p]) => /\ cache[p].status # None
                          /\ Carried(p) = {} =>
                                /\ Queued(p) = {} => cache[p].status = srv[p]
                                /\ \A i \in Queued(p) :
                                      Latest(i, Queued(p)) => rx[i].status = srv[p]

Answered(p) == pc \in {"marking", "installing"} /\ p \in Covered

Knows(p) ==
    \/ pc \in Unlinked \/ missed[p] \/ Unread(p)
    \/ Answered(p) /\ AnswerFits(p)
    \/ ~Answered(p) /\ CacheFits(p)

\* What the client knows of a pane is on the screen or on its way there.
OnScreen(p) ==
    \/ cache[p].info = Absent \/ dirty \/ wantSnapshot \/ view[p] = Shown(p)
    \/ pc \in Unlinked \/ (pc \in Waiting /\ request \notin Panes)

NewsInv == Ending /\ \A p \in Panes : WireTrue(p) /\ Knows(p) /\ OnScreen(p)

\* The client has nothing left to do about a pane.
Settled(p) ==
    /\ pc = "session" /\ ~wantSnapshot /\ p \notin wantGets
    /\ life = <<>> /\ wire[p] = <<>>
    /\ \A i \in DOMAIN rx : rx[i].live => rx[i].pane # p

NewsArrives ==
    \A p \in Panes : Settled(p) /\ ~missed[p] =>
        /\ Shown(p) = Truth(p)
        /\ ~dirty => view[p] = Truth(p) \/ cache[p].info = Absent

\* No snapshot, hint or end moves what the streams hold.
LEMMA SameStreams ==
    ASSUME UNCHANGED <<task, wire, rx>>, Ending
    PROVE  /\ Ending'
           /\ \A p \in Panes : /\ Carried(p)' = Carried(p) /\ wire'[p] = wire[p]
                               /\ Queued(p)' = Queued(p)
BY DEF Ending, Carried, Queued

\* Without a link there is nothing to know.
LEMMA UnlinkedNews ==
    ASSUME Inv, Teardown, pc' \in Unlinked
    PROVE  NewsInv'
<1>1. rx' \in Seq(Messages) /\ \A i \in DOMAIN rx' : ~rx'[i].live
  BY LastWordsAre DEF Teardown, Inv, Types
<1>2. \A p \in Panes : wire'[p] = <<>>
  BY DEF Teardown
<1>3. Ending'
  BY <1>1, <1>2 DEF Ending
<1>4. \A p \in Panes : Carried(p)' = {}
  BY <1>2 DEF Carried
<1> QED
  BY <1>3, <1>4 DEF NewsInv, WireTrue, Knows, OnScreen

\* What the actor does between its messages moves no stream.
LEMMA QuietNews ==
    ASSUME Inv, NewsInv, Announce \/ DueSnapshot \/ DuePanes \/ NextPane \/ Fallback
                            \/ RequestRefused \/ Rederive \/ BackoffOver
    PROVE  NewsInv'
<1> USE DEF NewsInv
<1>1. UNCHANGED <<srv, missed, cache, gens, task, wire, rx, life>>
  BY DEF Announce, DueSnapshot, DuePanes, NextPane, Fallback, RequestRefused, Rederive,
         BackoffOver, serverVars, reqVars, knowVars, taskVars
<1>2. /\ Ending'
      /\ \A p \in Panes : /\ Carried(p)' = Carried(p) /\ wire'[p] = wire[p]
                          /\ Queued(p)' = Queued(p)
  BY <1>1, SameStreams
<1>3. ASSUME NEW p \in Panes
      PROVE  /\ WireTrue(p)' /\ ToldOf(p, Natures)' = ToldOf(p, Natures)
             /\ AnswerFits(p) /\ UNCHANGED answer => AnswerFits(p)'
             /\ CacheFits(p) => CacheFits(p)'
             /\ (\E i \in Queued(p) : rx[i].stamp # gens[p]) =>
                    \E i \in Queued(p)' : rx'[i].stamp # gens'[p]
  <2>1. Carried(p)' = Carried(p) /\ Queued(p)' = Queued(p) /\ wire'[p] = wire[p]
    BY <1>2
  <2>2. ToldOf(p, {"closed"})' = ToldOf(p, {"closed"}) /\ ToldOf(p, Natures)' = ToldOf(p, Natures)
    BY <1>1 DEF ToldOf
  <2>3. WireTrue(p)'
    BY <1>1, <2>1, <2>2 DEF WireTrue, Latest
  <2> QED
    BY <1>1, <2>1, <2>2, <2>3 DEF AnswerFits, CacheFits, Latest
<1> SUFFICES ASSUME NEW p \in Panes PROVE Knows(p)' /\ OnScreen(p)'
  BY <1>2, <1>3
<1>4. WireTrue(p) /\ Knows(p) /\ OnScreen(p)
  OBVIOUS
<1>5. CASE Announce
  <2>1. /\ pc = "marking" /\ pc' = "installing" /\ dirty' = TRUE
        /\ UNCHANGED <<request, answer, batch, wantSnapshot, wantGets>>
    BY <1>5 DEF Announce, wantVars
  <2>2. Answered(p)' = Answered(p)
    BY <2>1 DEF Answered, Covered
  <2> QED
    BY <1>1, <1>3, <1>4, <2>1, <2>2 DEF Knows, Unread, OnScreen, Unlinked, Waiting, Covered
<1>6. CASE DueSnapshot
  <2>1. pc' = "asking" /\ request' = "snapshot"
    BY <1>6 DEF DueSnapshot
  <2>2. "snapshot" \notin Panes
    BY Constants
  <2> QED
    BY <2>1, <2>2 DEF Knows, Unread, OnScreen, Waiting, Covered
<1>7. CASE DuePanes
  <2>1. /\ pc = "session" /\ pc' = "next"
        /\ UNCHANGED <<request, answer, wantSnapshot, wantGets, dirty, view>>
    BY <1>7 DEF DuePanes, wantVars, uiVars
  <2>2. ~Answered(p)' /\ ~Answered(p)
    BY <2>1 DEF Answered
  <2>3. OnScreen(p)'
    BY <1>1, <1>4, <2>1 DEF OnScreen, Shown, Unlinked, Waiting
  <2> QED
    BY <1>1, <1>3, <1>4, <2>1, <2>2, <2>3 DEF Knows, Unread, Unlinked, Waiting
<1>8. CASE NextPane
  <2>1. /\ pc = "next" /\ pc' = "asking"
        /\ UNCHANGED <<answer, wantSnapshot, dirty, view>>
        /\ request' \in batch /\ batch' = batch \ {request'} /\ wantGets' = wantGets \ {request'}
    BY <1>8 DEF NextPane, uiVars
  <2>2. ~Answered(p)' /\ ~Answered(p)
    BY <2>1 DEF Answered
  <2>3. request' \in Panes
    BY <2>1 DEF Inv, Types, ReqOK
  <2>4. OnScreen(p)'
    BY <1>1, <1>4, <2>1, <2>3 DEF OnScreen, Shown, Unlinked, Waiting
  <2>5. p = request' => Unread(p)'
    BY <2>1, <2>3 DEF Unread, Covered
  <2>6. p # request' => (Unread(p) => Unread(p)')
    BY <1>1, <1>3, <2>1, <2>3 DEF Unread, Covered, Waiting
  <2> QED
    BY <1>1, <1>3, <1>4, <2>1, <2>2, <2>4, <2>5, <2>6 DEF Knows, Unlinked
<1>9. CASE Fallback \/ RequestRefused
  BY <1>9 DEF Fallback, RequestRefused, Knows, Unread, OnScreen
<1>10. CASE Rederive
  <2>1. /\ UNCHANGED <<pc, request, answer, batch, wantSnapshot, wantGets>>
        /\ view' = [q \in Panes |-> Shown(q)]
    BY <1>10 DEF Rederive, reqVars, wantVars
  <2>2. Answered(p)' = Answered(p)
    BY <2>1 DEF Answered, Covered
  <2>3. view'[p] = Shown(p)'
    BY <1>1, <2>1 DEF Shown
  <2> QED
    BY <1>1, <1>3, <1>4, <2>1, <2>2, <2>3 DEF Knows, Unread, OnScreen, Covered
<1>11. CASE BackoffOver
  BY <1>11 DEF BackoffOver, Knows, OnScreen, Unlinked
<1> QED
  BY <1>5, <1>6, <1>7, <1>8, <1>9, <1>10, <1>11

\* The host's answer is the truth, and what it left on a stream is newer.
LEMMA AnswerNews ==
    ASSUME Inv, NewsInv, Answer
    PROVE  NewsInv'
<1> USE DEF NewsInv
<1>1. /\ UNCHANGED <<srv, cache, gens, task, wire, rx, life, request, batch, wantSnapshot,
                     wantGets, dirty, view>>
      /\ pc = "asking" /\ pc' = "marking" /\ answer' = srv
      /\ missed' = [p \in Panes |-> missed[p] /\ ~(p \in Covered /\ wire[p] = <<>>)]
  BY DEF Answer, serverVars, knowVars, taskVars, wantVars, uiVars
<1>2. /\ Ending'
      /\ \A p \in Panes : /\ Carried(p)' = Carried(p) /\ wire'[p] = wire[p]
                          /\ Queued(p)' = Queued(p)
  BY <1>1, SameStreams
<1> SUFFICES ASSUME NEW p \in Panes PROVE WireTrue(p)' /\ Knows(p)' /\ OnScreen(p)'
  BY <1>2
<1>3. WireTrue(p) /\ Knows(p) /\ OnScreen(p)
  OBVIOUS
<1>4. Carried(p)' = Carried(p) /\ wire'[p] = wire[p] /\ Queued(p)' = Queued(p)
  BY <1>2
<1>5. /\ ToldOf(p, {"closed"})' = ToldOf(p, {"closed"})
      /\ ToldOf(p, Natures)' = ToldOf(p, Natures)
  BY <1>1 DEF ToldOf
<1>6. missed[p] => missed'[p] \/ (p \in Covered /\ wire[p] = <<>>)
  BY <1>1
<1>7. wire[p] = <<>> => Carried(p) = {}
  BY DEF Carried
<1>8. WireTrue(p)'
  BY <1>1, <1>3, <1>4, <1>5, <1>6, <1>7 DEF WireTrue, Latest
<1>9. OnScreen(p)'
  BY <1>1, <1>3 DEF OnScreen, Shown, Unlinked, Waiting
<1>10. CASE p \in Covered
  <2>1. Answered(p)' /\ AnswerFits(p)'
    BY <1>1, <1>10 DEF Answered, Covered, AnswerFits
  <2> QED BY <1>8, <1>9, <2>1 DEF Knows
<1>11. CASE p \notin Covered
  <2>1. ~Answered(p)' /\ ~Answered(p) /\ missed'[p] = missed[p] /\ pc \notin Unlinked
    BY <1>1, <1>11 DEF Answered, Covered, Unlinked, Inv, Types, ServerOK
  <2>2. Unread(p) => Unread(p)'
    BY <1>1, <1>4, <1>5, <1>11 DEF Unread, Waiting, Covered
  <2>3. CacheFits(p) => CacheFits(p)'
    BY <1>1, <1>4 DEF CacheFits, Latest
  <2> QED BY <1>3, <1>8, <1>9, <2>1, <2>2, <2>3 DEF Knows
<1> QED
  BY <1>10, <1>11

\* The host's steps leave alone what the client knows.
LEMMA HostNews ==
    ASSUME Inv, NewsInv, NEW p \in Panes,
           UNCHANGED <<pc, request, answer, batch, cache, gens, rx, wantSnapshot, wantGets,
                       dirty, view>>
    PROVE  /\ OnScreen(p)' /\ Queued(p)' = Queued(p) /\ Answered(p)' = Answered(p)
           /\ (ToldOf(p, Natures) => ToldOf(p, Natures)') => (Unread(p) => Unread(p)')
<1>1. OnScreen(p)'
  BY DEF NewsInv, OnScreen, Shown
<1>2. Queued(p)' = Queued(p) /\ Answered(p)' = Answered(p)
  BY DEF Queued, Answered, Covered
<1>3. (ToldOf(p, Natures) => ToldOf(p, Natures)') => (Unread(p) => Unread(p)')
  BY <1>2 DEF Unread, Covered
<1> QED
  BY <1>1, <1>2, <1>3

\* Hints behind those on the stream.
LEMMA MoreTold ==
    ASSUME LifeOK, NEW w \in Seq(Hints \cup {End}), life' = life \o w \/ life' = life,
           NEW p \in Panes, NEW Kinds
    PROVE  /\ ToldOf(p, Kinds) => ToldOf(p, Kinds)'
           /\ life' = life \o w /\ (\E i \in DOMAIN w : w[i].pane = p /\ w[i].kind \in Kinds) =>
                 ToldOf(p, Kinds)'
<1>1. CASE life' = life
  <2>1. ToldOf(p, Kinds) => ToldOf(p, Kinds)'
    BY <1>1 DEF ToldOf
  <2>2. ASSUME life' = life \o w, NEW i \in DOMAIN w PROVE FALSE
    <3>1. Len(life) \in Nat /\ Len(w) \in Nat /\ Len(life \o w) = Len(life) + Len(w)
      BY DEF LifeOK
    <3>2. DOMAIN w = 1..Len(w)
      OBVIOUS
    <3> QED BY <1>1, <2>2, <3>1, <3>2
  <2> QED BY <2>1, <2>2
<1>2. CASE life' = life \o w
  <2>1. \A i \in DOMAIN life : i \in DOMAIN life' /\ life'[i] = life[i]
    BY <1>2 DEF LifeOK
  <2>2. \A i \in DOMAIN w : Len(life) + i \in DOMAIN life' /\ life'[Len(life) + i] = w[i]
    BY <1>2 DEF LifeOK
  <2> QED
    BY <1>2, <2>1, <2>2 DEF ToldOf
<1> QED
  BY <1>1, <1>2

\* A value or the end behind what is on a stream.
LEMMA MoreCarried ==
    ASSUME NEW p \in Panes, wire[p] \in Seq(Value \cup {Ended}),
           NEW v \in Value \cup {Ended}, wire'[p] = Append(wire[p], v),
           \A i \in DOMAIN wire[p] : wire[p][i] # Ended
    PROVE  /\ \A i \in DOMAIN wire'[p] : wire'[p][i] = Ended => i = Len(wire'[p])
           /\ v = Ended => Carried(p)' = Carried(p) /\ \A i \in Carried(p) : wire'[p][i] = wire[p][i]
           /\ v # Ended => /\ Carried(p)' # {}
                           /\ \A i \in Carried(p)' : Latest(i, Carried(p)') => wire'[p][i] = v
<1>1. /\ Len(wire[p]) \in Nat /\ Len(wire'[p]) = Len(wire[p]) + 1
      /\ DOMAIN wire[p] = 1..Len(wire[p]) /\ DOMAIN wire'[p] = 1..(Len(wire[p]) + 1)
      /\ wire'[p][Len(wire[p]) + 1] = v
      /\ \A i \in 1..Len(wire[p]) : wire'[p][i] = wire[p][i]
  OBVIOUS
<1>2. \A i \in DOMAIN wire'[p] : wire'[p][i] = Ended => i = Len(wire'[p])
  BY <1>1
<1>3. CASE v = Ended
  BY <1>1, <1>2, <1>3 DEF Carried
<1>4. CASE v # Ended
  <2>1. Len(wire[p]) + 1 \in Carried(p)' /\ Carried(p)' \subseteq 1..(Len(wire[p]) + 1)
    BY <1>1, <1>4 DEF Carried
  <2>2. ASSUME NEW i \in Carried(p)', Latest(i, Carried(p)')
        PROVE  i = Len(wire[p]) + 1
    BY <1>1, <2>1, <2>2 DEF Latest
  <2> QED BY <1>1, <1>2, <1>4, <2>1, <2>2
<1> QED
  BY <1>3, <1>4

\* What the host says of a change: of every one that is not the next status.
LEMMA AnnouncedTells ==
    ASSUME NEW p \in Panes, NEW v \in Pane, srv \in [Panes -> Pane], v # srv[p]
    PROVE  /\ Announced(p, v) # <<>> =>
                 \E i \in DOMAIN Announced(p, v) : /\ Announced(p, v)[i].pane = p
                                                   /\ Announced(p, v)[i].kind \in Natures
           /\ v = Absent => \E i \in DOMAIN Announced(p, v) :
                 Announced(p, v)[i].pane = p /\ Announced(p, v)[i].kind \in {"closed"}
           /\ Announced(p, v) = <<>> => Bearing(v) /\ Bearing(srv[p])
<1>1. \A k \in Natures : \A w : LET h == Hint(k, p, w) IN h.pane = p /\ h.kind = k
  BY DEF Hint
<1>2. \A h : DOMAIN <<h>> = {1} /\ <<h>>[1] = h /\ <<h>> # <<>>
  OBVIOUS
<1>0. Absent # Plain /\ ~Bearing(Absent) /\ ~Bearing(Plain)
  BY Constants DEF Bearing, Absent, Plain
<1>3. CASE srv[p] = Absent
  <2>1. Announced(p, v) = <<Hint("created", p, v)>>
    BY <1>0, <1>3 DEF Announced
  <2> QED BY <1>1, <1>2, <1>3, <2>1 DEF Natures
<1>4. CASE srv[p] # Absent /\ v = Absent
  <2>1. Announced(p, v) = <<Hint("closed", p, Absent)>>
    BY <1>0, <1>4 DEF Announced
  <2> QED BY <1>1, <1>2, <1>4, <2>1 DEF Natures
<1>5. CASE srv[p] = Plain /\ Bearing(v)
  <2>1. Announced(p, v) = <<Hint("detected", p, Absent)>>
    BY <1>0, <1>5 DEF Announced
  <2> QED BY <1>0, <1>1, <1>2, <1>5, <2>1 DEF Natures
<1>6. CASE Bearing(srv[p]) /\ v = Plain
  <2>1. Announced(p, v) = <<Hint("other", p, Absent)>>
    BY <1>0, <1>6 DEF Announced
  <2> QED BY <1>0, <1>1, <1>2, <1>6, <2>1 DEF Natures
<1>7. CASE Bearing(srv[p]) /\ Bearing(v)
  <2>1. v # Absent
    BY <1>0, <1>7
  <2>2. Announced(p, v) = <<>>
    BY <1>0, <1>7 DEF Announced
  <2> QED BY <1>7, <2>1, <2>2
<1>8. \A w \in Pane : w = Absent \/ w = Plain \/ Bearing(w)
  BY DEF Pane, Value, Bearing
<1> QED
  BY <1>3, <1>4, <1>5, <1>6, <1>7, <1>8

\* A change is put on a stream, or it is missed.
LEMMA ChangeNews ==
    ASSUME Inv, NewsInv, NEW p \in Panes, NEW v \in Pane, ServerChange(p, v)
    PROVE  NewsInv'
<1> USE DEF NewsInv
<1> DEFINE pushed == Streaming(p) /\ v # Absent
           hints == Announced(p, v)
<1>1. /\ UNCHANGED <<pc, request, answer, batch, cache, gens, task, rx, wantSnapshot,
                     wantGets, dirty, view>>
      /\ v # srv[p] /\ srv' = [srv EXCEPT ![p] = v]
  BY DEF ServerChange, reqVars, knowVars, wantVars, uiVars
<1>2. \/ /\ hints = <<>> => Streaming(p)
         /\ life' = life \o hints
         /\ wire' = IF pushed THEN [wire EXCEPT ![p] = Append(@, v)] ELSE wire
         /\ missed' = [missed EXCEPT ![p] = @ \/ (~pushed /\ Overtaken(p, v))]
      \/ /\ missed' = [missed EXCEPT ![p] = TRUE]
         /\ UNCHANGED <<life, wire>>
  BY DEF ServerChange
<1>3. ServerOK /\ TaskOK /\ LifeOK
  BY DEF Inv, Types
<1>4. hints \in Seq(Hints \cup {End})
  BY <1>1, <1>3, AnnouncedIs DEF ServerOK
<1>5. /\ hints # <<>> =>
            \E i \in DOMAIN hints : hints[i].pane = p /\ hints[i].kind \in Natures
      /\ v = Absent => \E i \in DOMAIN hints : hints[i].pane = p /\ hints[i].kind \in {"closed"}
      /\ hints = <<>> => Bearing(v) /\ Bearing(srv[p])
  BY <1>1, <1>3, AnnouncedTells DEF ServerOK
<1>6. Streaming(p) => task[p] = "open" /\ \A i \in DOMAIN wire[p] : wire[p][i] # Ended
  BY DEF Streaming
<1>7. v # Absent => v \in Value
  BY DEF Pane
<1> HIDE DEF hints, pushed
<1>8. life' = life \o hints \/ life' = life
  BY <1>2
<1>9. \A q \in Panes : \A K : ToldOf(q, K) => ToldOf(q, K)'
  BY <1>3, <1>4, <1>8, MoreTold
<1>10. ASSUME NEW q \in Panes
       PROVE  /\ OnScreen(q)' /\ Queued(q)' = Queued(q) /\ Answered(q)' = Answered(q)
              /\ Unread(q) => Unread(q)'
  BY <1>1, <1>9, HostNews
<1>11. \A q \in Panes : missed[q] => missed'[q]
  BY <1>2, <1>3 DEF ServerOK
<1>12. ASSUME NEW q \in Panes, q # p
       PROVE  WireTrue(q)' /\ Knows(q)'
  <2>1. UNCHANGED <<srv[q], wire[q]>> /\ (missed[q] => missed'[q])
    BY <1>1, <1>2, <1>3, <1>11, <1>12 DEF ServerOK, TaskOK
  <2>2. Carried(q)' = Carried(q)
    BY <2>1 DEF Carried
  <2>3. WireTrue(q) /\ Knows(q)
    OBVIOUS
  <2>4. WireTrue(q)'
    BY <1>9, <2>1, <2>2, <2>3 DEF WireTrue, Latest
  <2>5. AnswerFits(q) => AnswerFits(q)'
    BY <1>1, <1>10, <2>1, <2>2 DEF AnswerFits
  <2>6. CacheFits(q) => CacheFits(q)'
    BY <1>1, <1>10, <2>1, <2>2 DEF CacheFits, Latest
  <2> QED BY <1>1, <1>10, <2>1, <2>3, <2>4, <2>5, <2>6 DEF Knows
<1>13. CASE missed' = [missed EXCEPT ![p] = TRUE] /\ UNCHANGED <<life, wire>>
  <2>1. Ending'
    BY <1>1, <1>13, SameStreams
  <2>2. missed'[p]
    BY <1>3, <1>13 DEF ServerOK
  <2>3. WireTrue(p)' /\ Knows(p)'
    BY <2>2 DEF WireTrue, Knows
  <2> QED BY <1>10, <1>12, <2>1, <2>3
<1>14. CASE pushed /\ life' = life \o hints /\ wire' = [wire EXCEPT ![p] = Append(@, v)]
  <2>1. /\ v \in Value /\ wire'[p] = Append(wire[p], v) /\ wire[p] \in Seq(Value \cup {Ended})
        /\ \A i \in DOMAIN wire[p] : wire[p][i] # Ended
        /\ task[p] = "open"
    BY <1>3, <1>6, <1>7, <1>14 DEF pushed, TaskOK
  <2>2. v # Ended
    BY <2>1, ValuesAre
  <2>3. /\ \A i \in DOMAIN wire'[p] : wire'[p][i] = Ended => i = Len(wire'[p])
        /\ Carried(p)' # {}
        /\ \A i \in Carried(p)' : Latest(i, Carried(p)') => wire'[p][i] = v
    BY <2>1, <2>2, MoreCarried
  <2>4. srv'[p] = v
    BY <1>1, <1>3 DEF ServerOK
  <2>5. WireTrue(p)'
    BY <2>3, <2>4 DEF WireTrue
  <2>6. Ending'
    <3>1. \A q \in Panes : q # p => wire'[q] = wire[q]
      BY <1>3, <1>14 DEF TaskOK
    <3>2. ASSUME NEW q \in Panes
          PROVE  /\ task'[q] # "open" => wire'[q] = <<>>
                 /\ \A i \in DOMAIN wire'[q] : wire'[q][i] = Ended => i = Len(wire'[q])
      <4>1. CASE q = p
        <5>1. task'[p] = "open"
          BY <1>1, <2>1
        <5>2. \A i \in DOMAIN wire'[p] : wire'[p][i] = Ended => i = Len(wire'[p])
          BY <2>3
        <5> QED BY <4>1, <5>1, <5>2, Zenon
      <4>2. CASE q # p
        BY <1>1, <3>1, <4>2 DEF Ending
      <4> QED BY <4>1, <4>2
    <3>3. \A i \in DOMAIN rx' : rx'[i].live /\ rx'[i].kind # "event" =>
              /\ task'[rx'[i].pane] = "over"
              /\ \A j \in DOMAIN rx' : j > i /\ rx'[j].live => rx'[j].pane # rx'[i].pane
      BY <1>1 DEF Ending
    <3> QED BY <3>2, <3>3 DEF Ending
  <2>7. Knows(p)'
    <3>1. CASE hints # <<>>
      <4>1. ToldOf(p, Natures)'
        BY <1>3, <1>4, <1>5, <1>8, <1>14, <3>1, MoreTold
      <4> QED BY <4>1 DEF Knows, Unread
    <3>2. CASE hints = <<>>
      <4>1. Knows(p)
        OBVIOUS
      <4>2. AnswerFits(p) => AnswerFits(p)'
        BY <1>1, <1>5, <2>3, <2>4, <3>2 DEF AnswerFits
      <4>3. CacheFits(p) => CacheFits(p)'
        BY <1>1, <1>5, <2>3, <2>4, <3>2 DEF CacheFits
      <4> QED BY <1>1, <1>10, <1>11, <4>1, <4>2, <4>3 DEF Knows
    <3> QED BY <3>1, <3>2
  <2> QED BY <1>10, <1>12, <2>5, <2>6, <2>7
<1>15. CASE /\ ~pushed /\ life' = life \o hints /\ UNCHANGED wire
            /\ hints = <<>> => Streaming(p)
            /\ missed' = [missed EXCEPT ![p] = @ \/ (~pushed /\ Overtaken(p, v))]
  <2>1. Ending' /\ Carried(p)' = Carried(p)
    BY <1>1, <1>15, SameStreams
  <2>2. hints # <<>>
    BY <1>5, <1>15, Constants DEF pushed, Bearing
  <2>3. ToldOf(p, Natures)'
    BY <1>3, <1>4, <1>5, <1>8, <1>15, <2>2, MoreTold
  <2>4. Knows(p)'
    BY <2>3 DEF Knows, Unread
  <2>5. WireTrue(p)'
    <3>1. CASE v = Absent
      <4>1. ToldOf(p, {"closed"})'
        BY <1>3, <1>4, <1>5, <1>8, <1>15, <3>1, MoreTold
      <4> QED BY <4>1 DEF WireTrue
    <3>2. CASE v # Absent /\ wire[p] # <<>>
      <4>1. missed'[p]
        BY <1>3, <1>15, <3>2 DEF Overtaken, ServerOK
      <4> QED BY <4>1 DEF WireTrue
    <3>3. CASE wire[p] = <<>>
      <4>1. Carried(p)' = {}
        BY <2>1, <3>3 DEF Carried
      <4> QED BY <4>1 DEF WireTrue
    <3> QED BY <3>1, <3>2, <3>3
  <2> QED BY <1>10, <1>12, <2>1, <2>4, <2>5
<1> QED
  BY <1>2, <1>13, <1>14, <1>15

\* The other steps of the host end streams, or hint at nothing new.
LEMMA HintNews ==
    ASSUME Inv, NewsInv, NEW h \in Hints, ServerHint(h)
    PROVE  NewsInv'
<1> USE DEF NewsInv
<1>1. /\ UNCHANGED <<pc, request, answer, batch, cache, gens, task, wire, rx, srv, missed,
                     wantSnapshot, wantGets, dirty, view>>
      /\ life' = Append(life, h)
  BY DEF ServerHint, reqVars, knowVars, taskVars, wantVars, uiVars
<1>2. LifeOK /\ <<h>> \in Seq(Hints \cup {End}) /\ life' = life \o <<h>>
  BY <1>1 DEF Inv, Types, LifeOK
<1>3. \A q \in Panes : \A K : ToldOf(q, K) => ToldOf(q, K)'
  BY <1>2, MoreTold
<1>4. /\ Ending'
      /\ \A q \in Panes : Carried(q)' = Carried(q)
  BY <1>1, SameStreams
<1> SUFFICES ASSUME NEW q \in Panes PROVE WireTrue(q)' /\ Knows(q)' /\ OnScreen(q)'
  BY <1>4
<1>5. /\ OnScreen(q)' /\ Queued(q)' = Queued(q) /\ Answered(q)' = Answered(q)
      /\ Unread(q) => Unread(q)'
  BY <1>1, <1>3, HostNews
<1>6. WireTrue(q) /\ Knows(q)
  OBVIOUS
<1>7. WireTrue(q)'
  BY <1>1, <1>3, <1>4, <1>6 DEF WireTrue, Latest
<1>8. (AnswerFits(q) => AnswerFits(q)') /\ (CacheFits(q) => CacheFits(q)')
  BY <1>1, <1>4, <1>5 DEF AnswerFits, CacheFits, Latest
<1> QED
  BY <1>1, <1>5, <1>6, <1>7, <1>8 DEF Knows

\* Streams end, and with them at most the lifecycle stream.
LEMMA EndNews ==
    ASSUME Inv, NewsInv, NEW Cut \in SUBSET Panes,
           \A p \in Cut : Streaming(p),
           wire' = [p \in Panes |-> IF p \in Cut THEN Append(wire[p], Ended) ELSE wire[p]],
           life' = life \/ life' = Append(life, End),
           UNCHANGED <<pc, request, answer, batch, cache, gens, task, rx, srv, missed,
                       wantSnapshot, wantGets, dirty, view>>
    PROVE  NewsInv'
<1> USE DEF NewsInv
<1>1. LifeOK /\ TaskOK /\ <<End>> \in Seq(Hints \cup {End}) /\ (life' = life \o <<End>> \/ life' = life)
  BY DEF Inv, Types, LifeOK
<1>2. \A q \in Panes : \A K : ToldOf(q, K) => ToldOf(q, K)'
  BY <1>1, MoreTold
<1>3. ASSUME NEW q \in Panes
      PROVE  /\ Carried(q)' = Carried(q) /\ \A i \in Carried(q) : wire'[q][i] = wire[q][i]
             /\ task'[q] # "open" => wire'[q] = <<>>
             /\ \A i \in DOMAIN wire'[q] : wire'[q][i] = Ended => i = Len(wire'[q])
  <2>1. CASE q \in Cut
    <3>1. /\ task[q] = "open" /\ \A i \in DOMAIN wire[q] : wire[q][i] # Ended
          /\ wire'[q] = Append(wire[q], Ended) /\ wire[q] \in Seq(Value \cup {Ended})
      BY <1>1, <2>1 DEF Streaming, TaskOK
    <3>2. /\ \A i \in DOMAIN wire'[q] : wire'[q][i] = Ended => i = Len(wire'[q])
          /\ Carried(q)' = Carried(q) /\ \A i \in Carried(q) : wire'[q][i] = wire[q][i]
      BY <3>1, MoreCarried
    <3>3. task'[q] = "open"
      BY <3>1
    <3> QED BY <3>2, <3>3, Zenon
  <2>2. CASE q \notin Cut
    <3>1. wire'[q] = wire[q] /\ task'[q] = task[q]
      BY <2>2
    <3> QED BY <3>1 DEF Carried, Ending
  <2> QED BY <2>1, <2>2
<1>4. Ending'
  <2>1. \A i \in DOMAIN rx' : rx'[i].live /\ rx'[i].kind # "event" =>
            /\ task'[rx'[i].pane] = "over"
            /\ \A j \in DOMAIN rx' : j > i /\ rx'[j].live => rx'[j].pane # rx'[i].pane
    BY DEF Ending
  <2> QED BY <1>3, <2>1 DEF Ending
<1> SUFFICES ASSUME NEW q \in Panes PROVE WireTrue(q)' /\ Knows(q)' /\ OnScreen(q)'
  BY <1>4
<1>5. /\ OnScreen(q)' /\ Queued(q)' = Queued(q) /\ Answered(q)' = Answered(q)
      /\ Unread(q) => Unread(q)'
  BY <1>2, HostNews
<1>6. WireTrue(q) /\ Knows(q)
  OBVIOUS
<1>7. WireTrue(q)'
  BY <1>2, <1>3, <1>6 DEF WireTrue, Latest
<1>8. (AnswerFits(q) => AnswerFits(q)') /\ (CacheFits(q) => CacheFits(q)')
  BY <1>3, <1>5 DEF AnswerFits, CacheFits, Latest
<1> QED
  BY <1>5, <1>6, <1>7, <1>8 DEF Knows

LEMMA HostStepsNews ==
    ASSUME Inv, NewsInv, Host
    PROVE  NewsInv'
<1>1. CASE \E p \in Panes : KillStream(p)
  <2>1. PICK p \in Panes : KillStream(p)
    BY <1>1
  <2>2. /\ Streaming(p) /\ wire' = [wire EXCEPT ![p] = Append(@, Ended)]
        /\ UNCHANGED <<pc, request, answer, batch, cache, gens, task, rx, life, srv, missed,
                       wantSnapshot, wantGets, dirty, view>>
    BY <2>1 DEF KillStream, reqVars, knowVars, wantVars, uiVars
  <2>3. wire' = [q \in Panes |-> IF q \in {p} THEN Append(wire[q], Ended) ELSE wire[q]]
    BY <2>2 DEF Inv, Types, TaskOK
  <2> QED BY <2>2, <2>3, EndNews
<1>2. CASE \E s \in {"up", "other", "down"} : ServerRestart(s)
  <2>1. PICK s \in {"up", "other", "down"} : ServerRestart(s)
    BY <1>2
  <2> DEFINE Cut == {p \in Panes : Streaming(p)}
  <2>2. /\ wire' = [p \in Panes |-> IF p \in Cut THEN Append(wire[p], Ended) ELSE wire[p]]
        /\ life' = life \/ life' = Append(life, End)
        /\ UNCHANGED <<pc, request, answer, batch, cache, gens, task, rx, srv, missed,
                       wantSnapshot, wantGets, dirty, view>>
    BY <2>1 DEF ServerRestart, reqVars, knowVars, wantVars, uiVars
  <2>3. Cut \in SUBSET Panes /\ \A p \in Cut : Streaming(p)
    OBVIOUS
  <2> HIDE DEF Cut
  <2> QED BY <2>2, <2>3, EndNews
<1> QED
  BY <1>1, <1>2, ChangeNews, HintNews DEF Host

\* A message behind those queued.
LEMMA MoreQueued ==
    ASSUME TaskOK, NEW m \in Messages, rx' = Append(rx, m)
    PROVE  /\ DOMAIN rx' = DOMAIN rx \cup {Len(rx) + 1} /\ rx'[Len(rx) + 1] = m
           /\ Len(rx) + 1 \notin DOMAIN rx /\ \A i \in DOMAIN rx : rx'[i] = rx[i] /\ i < Len(rx) + 1
           /\ \A p \in Panes : Queued(p)' = IF m.live /\ m.pane = p /\ m.kind = "event"
                                            THEN Queued(p) \cup {Len(rx) + 1} ELSE Queued(p)
<1>1. /\ Len(rx) \in Nat /\ DOMAIN rx = 1..Len(rx) /\ DOMAIN rx' = 1..(Len(rx) + 1)
      /\ rx'[Len(rx) + 1] = m /\ \A i \in 1..Len(rx) : rx'[i] = rx[i]
  BY DEF TaskOK
<1>2. /\ DOMAIN rx' = DOMAIN rx \cup {Len(rx) + 1} /\ Len(rx) + 1 \notin DOMAIN rx
      /\ \A i \in DOMAIN rx : i < Len(rx) + 1
  BY <1>1
<1> QED
  BY <1>1, <1>2 DEF Queued

\* What is behind the first line of a stream.
LEMMA TailCarried ==
    ASSUME NEW p \in Panes, wire[p] \in Seq(Value \cup {Ended}), wire[p] # <<>>,
           wire'[p] = Tail(wire[p])
    PROVE  /\ \A i \in DOMAIN wire'[p] : wire'[p][i] = wire[p][i + 1]
           /\ \A i : i \in Carried(p)' <=> i \in Nat \ {0} /\ i + 1 \in Carried(p)
           /\ (\A i \in DOMAIN wire[p] : wire[p][i] = Ended => i = Len(wire[p])) =>
                 /\ \A i \in DOMAIN wire'[p] : wire'[p][i] = Ended => i = Len(wire'[p])
                 /\ Head(wire[p]) = Ended => wire'[p] = <<>>
           /\ \A i \in Carried(p)' : Latest(i, Carried(p)') => Latest(i + 1, Carried(p))
           /\ Head(wire[p]) # Ended => 1 \in Carried(p)
           /\ Carried(p)' = {} => \A i \in Carried(p) : i = 1
<1>1. /\ Len(wire[p]) \in Nat \ {0} /\ Len(wire'[p]) = Len(wire[p]) - 1
      /\ DOMAIN wire[p] = 1..Len(wire[p]) /\ DOMAIN wire'[p] = 1..(Len(wire[p]) - 1)
      /\ \A i \in 1..(Len(wire[p]) - 1) : wire'[p][i] = wire[p][i + 1]
      /\ Head(wire[p]) = wire[p][1]
  OBVIOUS
<1>2. \A i : i \in Carried(p)' <=> i \in Nat \ {0} /\ i + 1 \in Carried(p)
  BY <1>1 DEF Carried
<1>3. ASSUME \A i \in DOMAIN wire[p] : wire[p][i] = Ended => i = Len(wire[p])
      PROVE  /\ \A i \in DOMAIN wire'[p] : wire'[p][i] = Ended => i = Len(wire'[p])
             /\ Head(wire[p]) = Ended => wire'[p] = <<>>
  <2>1. \A i \in DOMAIN wire'[p] : wire'[p][i] = Ended => i = Len(wire'[p])
    BY <1>1, <1>3
  <2>2. Head(wire[p]) = Ended => Len(wire'[p]) = 0
    <3>1. 1 \in DOMAIN wire[p]
      BY <1>1
    <3>2. wire[p][1] = Ended => Len(wire[p]) = 1
      BY <1>3, <3>1
    <3> QED BY <1>1, <3>2
  <2>3. wire'[p] \in Seq(Value \cup {Ended})
    OBVIOUS
  <2> QED BY <2>1, <2>2, <2>3
<1>4. Carried(p) \subseteq 1..Len(wire[p])
  BY <1>1 DEF Carried
<1>5. ASSUME NEW i \in Carried(p)', Latest(i, Carried(p)')
      PROVE  Latest(i + 1, Carried(p))
  <2>1. i \in Nat \ {0} /\ i + 1 \in Carried(p)
    BY <1>2
  <2>2. ASSUME NEW j \in Carried(p) PROVE j <= i + 1
    <3>1. j \in 1..Len(wire[p])
      BY <1>4
    <3>2. CASE j = 1
      BY <2>1, <3>2
    <3>3. CASE j > 1
      <4>1. j - 1 \in Nat \ {0} /\ (j - 1) + 1 = j
        BY <1>1, <3>1, <3>3
      <4>2. j - 1 \in Carried(p)'
        BY <1>2, <4>1
      <4>3. j - 1 <= i
        BY <1>5, <4>2 DEF Latest
      <4> QED BY <1>1, <2>1, <3>1, <4>3
    <3> QED BY <1>1, <3>1, <3>2, <3>3
  <2> QED BY <2>1, <2>2 DEF Latest
<1>6. Head(wire[p]) # Ended => 1 \in Carried(p)
  BY <1>1 DEF Carried
<1>7. ASSUME Carried(p)' = {}, NEW i \in Carried(p), i # 1 PROVE FALSE
  <2>1. i \in 1..Len(wire[p])
    BY <1>4
  <2>2. i - 1 \in Nat \ {0} /\ (i - 1) + 1 = i
    BY <1>1, <1>7, <2>1
  <2>3. i - 1 \in Carried(p)'
    BY <1>2, <2>2
  <2> QED BY <1>7, <2>3
<1> QED
  BY <1>1, <1>2, <1>3, <1>5, <1>6, <1>7

\* A subscription is acknowledged or refused, a line is taken off a stream.
LEMMA AckNews ==
    ASSUME Inv, NewsInv, NEW p \in Panes, Ack(p)
    PROVE  NewsInv'
<1> USE DEF NewsInv
<1>1. /\ UNCHANGED <<pc, request, answer, batch, cache, gens, wire, rx, life, srv, missed,
                     wantSnapshot, wantGets, dirty, view>>
      /\ task[p] = "opening" /\ task' = [task EXCEPT ![p] = "open"]
  BY DEF Ack, serverVars, reqVars, knowVars, wantVars, uiVars
<1>2. TaskOK
  BY DEF Inv, Types
<1>3. \A q \in Panes : task'[q] = task[q] \/ (q = p /\ task'[q] = "open")
  BY <1>1, <1>2 DEF TaskOK
<1>4. Ending'
  <2>1. \A q \in Panes : /\ task'[q] # "open" => wire'[q] = <<>>
                         /\ \A i \in DOMAIN wire'[q] : wire'[q][i] = Ended => i = Len(wire'[q])
    BY <1>1, <1>3 DEF Ending
  <2>2. ASSUME NEW i \in DOMAIN rx', rx'[i].live, rx'[i].kind # "event"
        PROVE  /\ task'[rx'[i].pane] = "over"
               /\ \A j \in DOMAIN rx' : j > i /\ rx'[j].live => rx'[j].pane # rx'[i].pane
    <3>1. rx[i].pane \in Panes
      BY <1>1, <1>2, <2>2, MessageIs DEF TaskOK
    <3>2. task[rx[i].pane] = "over"
      BY <1>1, <2>2 DEF Ending
    <3> QED BY <1>1, <1>3, <2>2, <3>1, <3>2 DEF Ending
  <2> QED BY <2>1, <2>2 DEF Ending
<1> SUFFICES ASSUME NEW q \in Panes PROVE WireTrue(q)' /\ Knows(q)' /\ OnScreen(q)'
  BY <1>4
<1>5. Carried(q)' = Carried(q) /\ \A K : ToldOf(q, K)' = ToldOf(q, K)
  BY <1>1 DEF Carried, ToldOf
<1>6. /\ OnScreen(q)' /\ Queued(q)' = Queued(q) /\ Answered(q)' = Answered(q)
      /\ Unread(q) => Unread(q)'
  BY <1>1, <1>5, HostNews
<1>7. WireTrue(q) /\ Knows(q)
  OBVIOUS
<1>8. WireTrue(q)'
  BY <1>1, <1>5, <1>7 DEF WireTrue, Latest
<1>9. (AnswerFits(q) => AnswerFits(q)') /\ (CacheFits(q) => CacheFits(q)')
  BY <1>1, <1>5, <1>6 DEF AnswerFits, CacheFits, Latest
<1> QED
  BY <1>1, <1>6, <1>7, <1>8, <1>9 DEF Knows

\* A task queues a message of its pane.
LEMMA QueuedNews ==
    ASSUME Inv, NewsInv, NEW p \in Panes, NEW m \in Messages, rx' = Append(rx, m),
           m.pane = p, m.live, m.stamp = gens[p],
           wire[p] # <<>> => wire' = [wire EXCEPT ![p] = Tail(@)],
           wire[p] = <<>> => UNCHANGED wire,
           m.kind = "event" => /\ task[p] = "open" /\ UNCHANGED task
                               /\ wire[p] # <<>> /\ m.status = Head(wire[p]) /\ m.status # Ended,
           m.kind # "event" => /\ task[p] \in {"opening", "open"}
                               /\ task' = [task EXCEPT ![p] = "over"]
                               /\ wire[p] # <<>> => Head(wire[p]) = Ended,
           UNCHANGED <<pc, request, answer, batch, cache, gens, life, srv, missed,
                       wantSnapshot, wantGets, dirty, view>>
    PROVE  NewsInv'
<1> USE DEF NewsInv
<1>1. TaskOK
  BY DEF Inv, Types
<1>2. /\ DOMAIN rx' = DOMAIN rx \cup {Len(rx) + 1} /\ rx'[Len(rx) + 1] = m
      /\ Len(rx) + 1 \notin DOMAIN rx /\ \A i \in DOMAIN rx : rx'[i] = rx[i] /\ i < Len(rx) + 1
      /\ \A q \in Panes : Queued(q)' = IF m.live /\ m.pane = q /\ m.kind = "event"
                                       THEN Queued(q) \cup {Len(rx) + 1} ELSE Queued(q)
  BY <1>1, MoreQueued
<1>3. /\ DOMAIN rx \subseteq Nat /\ Len(rx) \in Nat
      /\ \A i \in DOMAIN rx : rx[i].pane \in Panes
  BY <1>1, MessageIs DEF TaskOK
<1>4. /\ \A q \in Panes : q # p => wire'[q] = wire[q] /\ task'[q] = task[q]
      /\ wire[p] # <<>> => wire'[p] = Tail(wire[p])
      /\ wire[p] = <<>> => wire'[p] = <<>>
      /\ m.kind # "event" => task'[p] = "over"
      /\ m.kind = "event" => task'[p] = "open"
  BY <1>1 DEF TaskOK
<1>5. \A i \in DOMAIN wire[p] : wire[p][i] = Ended => i = Len(wire[p])
  BY DEF Ending
<1>6. /\ \A i \in DOMAIN wire'[p] : wire'[p][i] = Ended => i = Len(wire'[p])
      /\ m.kind # "event" => wire'[p] = <<>>
  <2>1. CASE wire[p] = <<>>
    BY <1>4, <2>1
  <2>2. CASE wire[p] # <<>>
    BY <1>1, <1>4, <1>5, <2>2, TailCarried DEF TaskOK
  <2> QED BY <2>1, <2>2
<1>7. Ending'
  <2>1. ASSUME NEW q \in Panes
        PROVE  /\ task'[q] # "open" => wire'[q] = <<>>
               /\ \A i \in DOMAIN wire'[q] : wire'[q][i] = Ended => i = Len(wire'[q])
    <3>1. CASE q = p
      BY <1>4, <1>6, <3>1
    <3>2. CASE q # p
      BY <1>4, <3>2 DEF Ending
    <3> QED BY <3>1, <3>2
  <2>2. ASSUME NEW i \in DOMAIN rx', rx'[i].live, rx'[i].kind # "event"
        PROVE  /\ task'[rx'[i].pane] = "over"
               /\ \A j \in DOMAIN rx' : j > i /\ rx'[j].live => rx'[j].pane # rx'[i].pane
    <3>1. CASE i = Len(rx) + 1
      <4>1. \A j \in DOMAIN rx' : ~(j > i)
        BY <1>2, <1>3, <3>1
      <4> QED BY <1>2, <1>4, <2>2, <3>1, <4>1
    <3>2. CASE i \in DOMAIN rx
      <4>1. /\ rx'[i] = rx[i] /\ task[rx[i].pane] = "over" /\ rx[i].pane \in Panes
            /\ \A j \in DOMAIN rx : j > i /\ rx[j].live => rx[j].pane # rx[i].pane
        BY <1>2, <1>3, <2>2, <3>2 DEF Ending
      <4>2. rx[i].pane # p
        BY <4>1
      <4> QED BY <1>2, <1>4, <4>1, <4>2
    <3> QED BY <1>2, <3>1, <3>2
  <2> QED BY <2>1, <2>2 DEF Ending
<1> SUFFICES ASSUME NEW q \in Panes PROVE WireTrue(q)' /\ Knows(q)' /\ OnScreen(q)'
  BY <1>7
<1>8. \A K : ToldOf(q, K)' = ToldOf(q, K)
  BY DEF ToldOf
<1>9. OnScreen(q)' /\ Answered(q)' = Answered(q)
  BY DEF OnScreen, Shown, Answered, Covered
<1>10. Queued(q) \subseteq Queued(q)' /\ \A i \in Queued(q) : rx'[i] = rx[i]
  BY <1>2 DEF Queued
<1>11. Unread(q) => Unread(q)'
  BY <1>8, <1>10 DEF Unread, Covered
<1>12. WireTrue(q) /\ Knows(q)
  OBVIOUS
<1>13. CASE q # p \/ wire[p] = <<>> \/ m.kind # "event"
  <2>1. Queued(q)' = Queued(q)
    BY <1>2, <1>13
  <2>2. CASE q # p \/ wire[p] = <<>>
    <3>1. wire'[q] = wire[q]
      BY <1>4, <2>2
    <3>2. Carried(q)' = Carried(q)
      BY <3>1 DEF Carried
    <3>3. WireTrue(q)'
      BY <1>8, <1>12, <3>1, <3>2 DEF WireTrue, Latest
    <3>4. AnswerFits(q) => AnswerFits(q)'
      BY <2>1, <3>2 DEF AnswerFits
    <3>5. ASSUME CacheFits(q), NEW i \in Queued(q)', Latest(i, Queued(q)'), Bearing(srv[q]),
                 Carried(q) = {}
          PROVE  rx'[i].status = srv[q]
      <4>1. i \in Queued(q) /\ Latest(i, Queued(q)) /\ rx'[i] = rx[i]
        BY <1>10, <2>1, <3>5 DEF Latest
      <4> QED BY <3>5, <4>1 DEF CacheFits
    <3>6. CacheFits(q) => CacheFits(q)'
      BY <2>1, <3>2, <3>5 DEF CacheFits
    <3> QED BY <1>9, <1>11, <1>12, <3>3, <3>4, <3>6 DEF Knows
  <2>3. CASE q = p /\ wire[p] # <<>> /\ m.kind # "event"
    <3>1. Head(wire[p]) = Ended /\ wire[p] \in Seq(Value \cup {Ended})
      BY <1>1, <2>3 DEF TaskOK
    <3>2. DOMAIN wire[p] = 1..Len(wire[p]) /\ wire[p][1] = Ended /\ Len(wire[p]) \in Nat \ {0}
      BY <2>3, <3>1
    <3>3. Carried(q) = {}
      BY <1>5, <2>3, <3>2 DEF Carried
    <3>4. Carried(q)' = {}
      BY <1>6, <2>3 DEF Carried
    <3>5. WireTrue(q)'
      BY <3>4 DEF WireTrue
    <3>6. AnswerFits(q) => AnswerFits(q)'
      BY <2>1, <3>3, <3>4 DEF AnswerFits
    <3>7. ASSUME CacheFits(q), NEW i \in Queued(q)', Latest(i, Queued(q)'), Bearing(srv[q])
          PROVE  rx'[i].status = srv[q]
      <4>1. i \in Queued(q) /\ Latest(i, Queued(q)) /\ rx'[i] = rx[i]
        BY <1>10, <2>1, <3>7 DEF Latest
      <4> QED BY <3>3, <3>7, <4>1 DEF CacheFits
    <3>8. CacheFits(q) => CacheFits(q)'
      BY <2>1, <3>3, <3>4, <3>7 DEF CacheFits
    <3> QED BY <1>9, <1>11, <1>12, <3>5, <3>6, <3>8 DEF Knows
  <2> QED BY <1>13, <2>2, <2>3
<1>14. CASE q = p /\ m.kind = "event"
  <2>1. /\ wire[p] \in Seq(Value \cup {Ended}) /\ wire[p] # <<>> /\ wire'[p] = Tail(wire[p])
        /\ Head(wire[p]) = wire[p][1] /\ m.status = wire[p][1] /\ Head(wire[p]) # Ended
    BY <1>1, <1>4, <1>14 DEF TaskOK
  <2>2. /\ \A i \in DOMAIN wire'[p] : wire'[p][i] = wire[p][i + 1]
        /\ \A i : i \in Carried(p)' <=> i \in Nat \ {0} /\ i + 1 \in Carried(p)
        /\ \A i \in Carried(p)' : Latest(i, Carried(p)') => Latest(i + 1, Carried(p))
        /\ 1 \in Carried(p)
        /\ Carried(p)' = {} => \A i \in Carried(p) : i = 1
    BY <2>1, TailCarried
  <2>3. \A i \in Carried(p)' : wire'[p][i] = wire[p][i + 1]
    BY <2>2 DEF Carried
  <2>4. WireTrue(p)'
    BY <1>8, <1>12, <1>14, <2>2, <2>3 DEF WireTrue
  <2>5. Queued(p)' = Queued(p) \cup {Len(rx) + 1}
    BY <1>2, <1>14
  <2>6. AnswerFits(p) => AnswerFits(p)'
    BY <2>5 DEF AnswerFits
  <2>7. Carried(p)' = {} => missed[p] \/ ToldOf(p, {"closed"}) \/ m.status = srv[p]
    <3>1. Carried(p)' = {} => Latest(1, Carried(p))
      BY <2>2 DEF Latest
    <3> QED BY <1>12, <1>14, <2>1, <2>2, <3>1 DEF WireTrue
  <2>8. ToldOf(p, {"closed"}) => Unread(p)'
    <3>1. ToldOf(p, {"closed"}) => ToldOf(p, Natures)
      BY DEF ToldOf, Natures
    <3> QED BY <1>8, <1>14, <3>1 DEF Unread
  <2>9. CacheFits(p) => missed'[p] \/ Unread(p)' \/ CacheFits(p)'
    <3> SUFFICES ASSUME CacheFits(p), ~missed[p], ~Unread(p)' PROVE CacheFits(p)'
      OBVIOUS
    <3>1. \A i \in Queued(p)' : Latest(i, Queued(p)') => i = Len(rx) + 1
      <4>1. Queued(p) \subseteq DOMAIN rx
        BY DEF Queued
      <4>2. \A i \in Queued(p) : i \in Nat /\ i < Len(rx) + 1
        BY <1>2, <1>3, <4>1
      <4> QED BY <1>3, <2>5, <4>2 DEF Latest
    <3>2. Carried(p)' = {} => \A i \in Queued(p)' : Latest(i, Queued(p)') => rx'[i].status = srv[p]
      BY <1>2, <2>7, <2>8, <3>1
    <3> QED BY <2>5, <3>2 DEF CacheFits
  <2> QED BY <1>9, <1>11, <1>12, <1>14, <2>4, <2>6, <2>9 DEF Knows
<1> QED
  BY <1>13, <1>14

LEMMA EndMsgIs ==
    KnowOK => \A p \in Panes, k \in {"closed", "refused", "failed"} :
        \E m \in Messages : /\ m = Msg(p, k, Absent, TRUE) /\ m.pane = p /\ m.live
                            /\ m.stamp = gens[p] /\ m.kind = k
<1> SUFFICES ASSUME KnowOK, NEW p \in Panes, NEW k \in {"closed", "refused", "failed"}
             PROVE  \E m \in Messages :
                       /\ m = Msg(p, k, Absent, TRUE) /\ m.pane = p /\ m.live
                       /\ m.stamp = gens[p] /\ m.kind = k
  OBVIOUS
<1>1. gens[p] \in 0..GenMod
  BY DEF KnowOK
<1>2. PICK m \in Messages :
         m = [pane |-> p, kind |-> k, status |-> Absent, stamp |-> gens[p], live |-> TRUE,
              old |-> FALSE]
  BY <1>1 DEF Messages
<1>3. m.pane = p /\ m.kind = k /\ m.stamp = gens[p] /\ m.live = TRUE
  BY <1>2
<1>4. m = Msg(p, k, Absent, TRUE)
  BY <1>2 DEF Msg
<1> QED
  BY <1>3, <1>4

LEMMA TaskStepsNews ==
    ASSUME Inv, NewsInv, NEW p \in Panes, Ack(p) \/ Refuse(p) \/ Receive(p)
    PROVE  NewsInv'
<1>1. TaskOK /\ KnowOK
  BY DEF Inv, Types
<1>2. CASE Refuse(p)
  <2>1. /\ UNCHANGED <<pc, request, answer, batch, cache, gens, wire, life, srv, missed,
                       wantSnapshot, wantGets, dirty, view>>
        /\ task[p] = "opening" /\ task' = [task EXCEPT ![p] = "over"]
        /\ \/ rx' = Append(rx, Msg(p, "refused", Absent, TRUE))
           \/ rx' = Append(rx, Msg(p, "failed", Absent, TRUE))
    BY <1>2 DEF Refuse, serverVars, reqVars, knowVars, wantVars, uiVars
  <2>2. \E m \in Messages : /\ m = Msg(p, "refused", Absent, TRUE) /\ m.pane = p /\ m.live
                            /\ m.stamp = gens[p] /\ m.kind = "refused"
    BY <1>1, EndMsgIs
  <2>3. \E m \in Messages : /\ m = Msg(p, "failed", Absent, TRUE) /\ m.pane = p /\ m.live
                            /\ m.stamp = gens[p] /\ m.kind = "failed"
    BY <1>1, EndMsgIs
  <2>4. PICK m \in Messages : /\ rx' = Append(rx, m) /\ m.pane = p /\ m.live
                              /\ m.stamp = gens[p] /\ m.kind # "event"
    BY <2>1, <2>2, <2>3
  <2>5. wire[p] = <<>>
    BY <2>1 DEF NewsInv, Ending
  <2> QED BY <2>1, <2>4, <2>5, QueuedNews
<1>3. CASE Receive(p)
  <2>1. /\ UNCHANGED <<pc, request, answer, batch, cache, gens, life, srv, missed,
                       wantSnapshot, wantGets, dirty, view>>
        /\ task[p] = "open" /\ wire[p] # <<>> /\ wire' = [wire EXCEPT ![p] = Tail(@)]
    BY <1>3 DEF Receive, serverVars, reqVars, knowVars, wantVars, uiVars
  <2>2. CASE Head(wire[p]) = Ended
    <3>1. /\ rx' = Append(rx, Msg(p, "closed", Absent, TRUE)) /\ task' = [task EXCEPT ![p] = "over"]
      BY <1>3, <2>2 DEF Receive
    <3>2. PICK m \in Messages : /\ m = Msg(p, "closed", Absent, TRUE) /\ m.pane = p /\ m.live
                                /\ m.stamp = gens[p] /\ m.kind = "closed"
      BY <1>1, EndMsgIs
    <3>3. m.kind # "event"
      BY <3>2
    <3> QED BY <2>1, <2>2, <3>1, <3>2, <3>3, QueuedNews
  <2>3. CASE Head(wire[p]) # Ended
    <3>1. rx' = Append(rx, Msg(p, "event", Head(wire[p]), TRUE)) /\ UNCHANGED task
      BY <1>3, <2>3 DEF Receive
    <3>2. PICK v \in Value : v = Head(wire[p])
      BY <1>1, <2>1, <2>3 DEF TaskOK
    <3>3. PICK m \in Messages :
             m = [pane |-> p, kind |-> "event", status |-> v, stamp |-> gens[p], live |-> TRUE,
                  old |-> FALSE]
      BY <1>1 DEF KnowOK, Messages
    <3>4. /\ m = Msg(p, "event", Head(wire[p]), TRUE) /\ m.kind = "event"
          /\ m.status = Head(wire[p]) /\ m.pane = p /\ m.live = TRUE /\ m.stamp = gens[p]
      BY <3>2, <3>3 DEF Msg
    <3>5. /\ m.kind = "event" => /\ task[p] = "open" /\ UNCHANGED task
                                 /\ wire[p] # <<>> /\ m.status = Head(wire[p]) /\ m.status # Ended
          /\ m.kind # "event" => /\ task[p] \in {"opening", "open"}
                                 /\ task' = [task EXCEPT ![p] = "over"]
                                 /\ wire[p] # <<>> => Head(wire[p]) = Ended
      BY <2>1, <2>3, <3>1, <3>4
    <3>6. /\ wire[p] # <<>> => wire' = [wire EXCEPT ![p] = Tail(@)]
          /\ wire[p] = <<>> => UNCHANGED wire
      BY <2>1
    <3>7. rx' = Append(rx, m) /\ m.pane = p /\ m.live /\ m.stamp = gens[p]
      BY <3>1, <3>4
    <3> QED BY <2>1, <3>5, <3>6, <3>7, QueuedNews
  <2> QED BY <2>2, <2>3
<1> QED
  BY <1>2, <1>3, AckNews

\* A mark leaves a message what it says.
LEMMA MarkSays ==
    ASSUME NEW q \in Seq(Messages), NEW Gone, NEW Seen, NEW i \in DOMAIN q
    PROVE  /\ Mark(q, Gone, Seen)[i].kind = q[i].kind
           /\ Mark(q, Gone, Seen)[i].status = q[i].status
<1>1. PICK m \in Messages : m = q[i]
  OBVIOUS
<1>2. /\ [m EXCEPT !.live = m.live /\ m.pane \notin Gone, !.old = m.old \/ m.pane \in Seen].kind = m.kind
      /\ [m EXCEPT !.live = m.live /\ m.pane \notin Gone, !.old = m.old \/ m.pane \in Seen].status = m.status
  BY DEF Messages
<1> QED
  BY <1>1, <1>2 DEF Mark

\* Closing and opening tasks touches what is queued of the panes let go only.
LEMMA TasksNews ==
    ASSUME Inv, Ending,
           NEW Gone \in SUBSET Panes, NEW Fresh \in SUBSET Panes, NEW Seen \in SUBSET Panes,
           Tasks(Gone, Fresh, Seen), \A p \in Fresh : task[p] = "none"
    PROVE  /\ Ending'
           /\ \A p \in Gone : wire'[p] = <<>> /\ Carried(p)' = {} /\ Queued(p)' = {}
           /\ \A p \in Panes \ Gone :
                 /\ wire'[p] = wire[p] /\ Carried(p)' = Carried(p) /\ Queued(p)' = Queued(p)
                 /\ \A i \in Queued(p) : rx'[i].status = rx[i].status /\ rx'[i].stamp = rx[i].stamp
<1>1. TaskOK /\ KnowOK
  BY DEF Inv, Types
<1>2. /\ \A p \in Panes : task'[p] = IF p \in Fresh THEN "opening"
                                     ELSE IF p \in Gone THEN "none" ELSE task[p]
      /\ \A p \in Panes : wire'[p] = IF p \in Gone THEN <<>> ELSE wire[p]
  BY DEF Tasks
<1>3. PICK w \in LastWords(Gone) : rx' = Mark(rx, Gone, Seen) \o w
  BY DEF Tasks
<1>4. w \in Seq(Messages) /\ \A i \in DOMAIN w : ~w[i].live
  BY <1>1, LastWordsAre
<1> DEFINE q == Mark(rx, Gone, Seen)
<1>5. /\ q \in Seq(Messages) /\ DOMAIN q = DOMAIN rx
      /\ \A i \in DOMAIN rx : /\ q[i].pane = rx[i].pane /\ q[i].stamp = rx[i].stamp
                              /\ q[i].live <=> (rx[i].live /\ rx[i].pane \notin Gone)
                              /\ q[i].kind = rx[i].kind /\ q[i].status = rx[i].status
  BY <1>1, MarkIs, MarkSays DEF TaskOK
<1> HIDE DEF q
<1>6. rx' = q \o w
  BY <1>3 DEF q
<1>7. /\ \A i \in DOMAIN rx : i \in DOMAIN rx' /\ rx'[i] = q[i]
      /\ \A i \in DOMAIN rx' : i \in DOMAIN rx \/ ~rx'[i].live
  BY <1>4, <1>5, <1>6
<1>8. \A i \in DOMAIN rx : rx[i].pane \in Panes
  BY <1>1, MessageIs DEF TaskOK
<1>9. ASSUME NEW p \in Panes
      PROVE  /\ task'[p] # "open" => wire'[p] = <<>>
             /\ \A i \in DOMAIN wire'[p] : wire'[p][i] = Ended => i = Len(wire'[p])
  <2>1. CASE p \in Gone
    BY <1>2, <2>1
  <2>2. CASE p \notin Gone
    <3>1. wire'[p] = wire[p] /\ (task'[p] # "open" => task[p] # "open")
      BY <1>2, <2>2
    <3> QED BY <3>1 DEF Ending
  <2> QED BY <2>1, <2>2
<1>10. ASSUME NEW i \in DOMAIN rx', rx'[i].live, rx'[i].kind # "event"
       PROVE  /\ task'[rx'[i].pane] = "over"
              /\ \A j \in DOMAIN rx' : j > i /\ rx'[j].live => rx'[j].pane # rx'[i].pane
  <2>1. i \in DOMAIN rx /\ rx'[i] = q[i]
    BY <1>7, <1>10
  <2>2. rx[i].live /\ rx[i].pane \notin Gone /\ rx[i].kind # "event" /\ rx'[i].pane = rx[i].pane
    BY <1>5, <1>10, <2>1
  <2>3. task[rx[i].pane] = "over"
    BY <2>1, <2>2 DEF Ending
  <2>4. task'[rx[i].pane] = "over"
    BY <1>2, <1>8, <2>1, <2>2, <2>3
  <2>5. ASSUME NEW j \in DOMAIN rx', j > i, rx'[j].live PROVE rx'[j].pane # rx'[i].pane
    <3>1. j \in DOMAIN rx /\ rx'[j] = q[j]
      BY <1>7, <2>5
    <3>2. rx[j].live /\ rx'[j].pane = rx[j].pane
      BY <1>5, <2>5, <3>1
    <3> QED BY <2>1, <2>2, <2>5, <3>1, <3>2 DEF Ending
  <2> QED BY <2>2, <2>4, <2>5
<1>11. ASSUME NEW p \in Panes
       PROVE  Queued(p)' = IF p \in Gone THEN {} ELSE Queued(p)
  BY <1>5, <1>7 DEF Queued
<1>12. ASSUME NEW p \in Panes, NEW i \in Queued(p)
       PROVE  rx'[i].status = rx[i].status /\ rx'[i].stamp = rx[i].stamp
  BY <1>5, <1>7, <1>12 DEF Queued
<1>13. Ending'
  BY <1>9, <1>10 DEF Ending
<1>14. \A p \in Gone : wire'[p] = <<>> /\ Carried(p)' = {} /\ Queued(p)' = {}
  BY <1>2, <1>11 DEF Carried
<1>15. \A p \in Panes \ Gone : wire'[p] = wire[p] /\ Carried(p)' = Carried(p) /\ Queued(p)' = Queued(p)
  BY <1>2, <1>11 DEF Carried
<1> QED
  BY <1>12, <1>13, <1>14, <1>15

\* A pane is installed as the answer has it; what was queued before asks again.
LEMMA ReadNews ==
    ASSUME Inv, NewsInv, NEW p \in Panes, Answered(p), ~Answered(p)',
           UNCHANGED <<srv, missed>>,
           ToldOf(p, Natures) => ToldOf(p, Natures)' \/ wantSnapshot',
           wantSnapshot => wantSnapshot', p \in wantGets => p \in wantGets',
           cache'[p] = Record(answer[p]), answer[p] # Absent => gens'[p] # gens[p],
           NEW gone \in BOOLEAN, gone => ~Bearing(answer[p]),
           gone => Carried(p)' = {} /\ Queued(p)' = {},
           ~gone => /\ Carried(p)' = Carried(p) /\ Queued(p)' = Queued(p)
                    /\ \A i \in Queued(p) : rx'[i].stamp = rx[i].stamp
    PROVE  Knows(p)'
<1>1. Knows(p) /\ p \in Covered /\ pc \in {"marking", "installing"} /\ p \in ToCome
  BY DEF NewsInv, Answered, ToCome, Waiting
<1>2. \A i \in Queued(p) : rx[i].stamp = gens[p]
  <2>1. \A i \in DOMAIN rx : rx[i].old \in BOOLEAN
    BY MessageIs DEF Inv, Types, TaskOK
  <2> QED BY <1>1, <2>1 DEF Inv, RxInv, Stamped, Queued
<1>3. CASE missed[p]
  BY <1>3 DEF Knows
<1>4. CASE Unread(p)
  BY <1>1, <1>2, <1>4 DEF Unread, Knows
<1>5. CASE AnswerFits(p) /\ ~Bearing(srv[p])
  <2>1. ~Bearing(cache'[p].info)
    BY <1>5, RecordIs DEF AnswerFits, Inv, Types, ReqOK
  <2> QED BY <1>5, <2>1 DEF CacheFits, Knows
<1>6. CASE AnswerFits(p) /\ Bearing(srv[p])
  <2>1. answer[p] \in Pane /\ Bearing(answer[p]) /\ answer[p] # Absent /\ answer[p] # None /\ ~gone
    BY <1>6, Constants DEF AnswerFits, Inv, Types, ReqOK, Bearing
  <2>2. cache'[p].info = answer[p] /\ cache'[p].status = answer[p]
    BY <2>1 DEF Record
  <2>3. CASE Queued(p) # {}
    <3>1. \E i \in Queued(p)' : rx'[i].stamp # gens'[p]
      BY <1>2, <2>1, <2>3
    <3> QED BY <3>1 DEF Unread, Knows
  <2>4. CASE Queued(p) = {}
    <3>1. Queued(p)' = {} /\ (Carried(p)' = {} => answer[p] = srv[p])
      BY <1>6, <2>1, <2>4 DEF AnswerFits
    <3> QED BY <1>6, <2>1, <2>2, <3>1 DEF CacheFits, Knows
  <2> QED BY <2>3, <2>4
<1> QED
  BY <1>1, <1>3, <1>4, <1>5, <1>6 DEF Knows, Unlinked, Answered

\* A snapshot is installed, of bootstrap or of a resync.
LEMMA ReconciledNews ==
    ASSUME Inv, NewsInv, Installed(answer), Reconciled(answer), Covered = Panes,
           pc = "installing", pc' = "session", UNCHANGED <<srv, missed, wantGets>>,
           wantSnapshot => wantSnapshot',
           UNCHANGED life \/ (/\ \A p \in Panes : wire[p] = <<>>
                              /\ wantSnapshot' \/ UNCHANGED life)
    PROVE  NewsInv'
<1> DEFINE Gone == {p \in Panes : task[p] # "none" /\ ~Bearing(answer[p])}
           Fresh == {p \in Panes : task[p] = "none" /\ Bearing(answer[p])}
<1>1. /\ Tasks(Gone, Fresh, Panes) /\ Gone \in SUBSET Panes /\ Fresh \in SUBSET Panes
      /\ \A p \in Fresh : task[p] = "none"
      /\ \A p \in Gone : ~Bearing(answer[p])
  BY DEF Reconciled
<1> HIDE DEF Gone, Fresh
<1>2. /\ Ending'
      /\ \A p \in Gone : wire'[p] = <<>> /\ Carried(p)' = {} /\ Queued(p)' = {}
      /\ \A p \in Panes \ Gone :
            /\ wire'[p] = wire[p] /\ Carried(p)' = Carried(p) /\ Queued(p)' = Queued(p)
            /\ \A i \in Queued(p) : rx'[i].status = rx[i].status /\ rx'[i].stamp = rx[i].stamp
  BY <1>1, TasksNews DEF NewsInv
<1>3. /\ \A p \in Panes : /\ cache'[p].info = answer[p]
                          /\ answer[p] # Absent => gens'[p] # gens[p]
      /\ \A p \in Panes : cache'[p] = Record(answer[p])
      /\ \A p \in Panes : answer[p] # Absent => dirty'
  <2>1. KnowOK /\ answer \in [Panes -> Pane] /\ dirty \in BOOLEAN
    BY DEF Inv, Types, ReqOK, UiOK
  <2> QED BY <2>1, InstalledIs DEF Installed
<1> SUFFICES ASSUME NEW p \in Panes PROVE WireTrue(p)' /\ Knows(p)' /\ OnScreen(p)'
  BY <1>2 DEF NewsInv
<1>4. OnScreen(p)'
  BY <1>3 DEF OnScreen
<1>5. Answered(p) /\ ~Answered(p)'
  BY DEF Answered
<1>6. ToldOf(p, Natures) => ToldOf(p, Natures)' \/ wantSnapshot'
  BY DEF ToldOf
<1>7. PICK gone \in BOOLEAN : gone <=> p \in Gone
  OBVIOUS
<1>8. /\ gone => ~Bearing(answer[p])
      /\ gone => Carried(p)' = {} /\ Queued(p)' = {}
      /\ ~gone => /\ Carried(p)' = Carried(p) /\ Queued(p)' = Queued(p)
                  /\ \A i \in Queued(p) : rx'[i].stamp = rx[i].stamp
  BY <1>1, <1>2, <1>7
<1>9. Knows(p)'
  BY <1>3, <1>5, <1>6, <1>8, ReadNews
<1>10. WireTrue(p)'
  <2>1. CASE p \in Gone
    BY <1>2, <2>1 DEF WireTrue
  <2>2. CASE p \notin Gone /\ UNCHANGED life
    <3>1. ToldOf(p, {"closed"})' = ToldOf(p, {"closed"})
      BY <2>2 DEF ToldOf
    <3>2. WireTrue(p)
      BY DEF NewsInv
    <3> QED BY <1>2, <2>2, <3>1, <3>2 DEF WireTrue, Latest
  <2>3. CASE p \notin Gone /\ wire[p] = <<>>
    <3>1. Carried(p)' = {}
      BY <1>2, <2>3 DEF Carried
    <3> QED BY <3>1 DEF WireTrue
  <2> QED BY <2>1, <2>2, <2>3
<1> QED
  BY <1>4, <1>9, <1>10

LEMMA InstallNews ==
    ASSUME Inv, NewsInv, InstallSnapshot \/ InstallBoot
    PROVE  NewsInv'
<1>1. CASE InstallSnapshot
  <2>1. /\ Installed(answer) /\ Reconciled(answer) /\ request = "snapshot"
        /\ pc = "installing" /\ pc' = "session"
        /\ UNCHANGED <<srv, missed, wantGets, wantSnapshot, life>>
    BY <1>1 DEF InstallSnapshot, serverVars, wantVars
  <2>2. Covered = Panes
    BY <2>1, Constants DEF Covered
  <2> QED BY <2>1, <2>2, ReconciledNews
<1>2. CASE InstallBoot
  <2>1. /\ pc = "installing" /\ request = "boot" /\ Installed(answer)
        /\ UNCHANGED <<srv, missed, wantGets>>
    BY <1>2 DEF InstallBoot, serverVars
  <2>2. Covered = Panes
    BY <2>1, Constants DEF Covered
  <2>3. \A p \in Panes : wire[p] = <<>>
    BY <2>1 DEF Inv, LinkInv, Waiting, NewsInv, Ending
  <2>4. CASE Disconnected
    BY <2>4, UnlinkedNews DEF Disconnected, Unlinked
  <2>5. CASE \E k \in 0..Len(life) :
                /\ Reconciled(answer) /\ life' = SubSeq(life, k + 1, Len(life))
                /\ wantSnapshot' = (wantSnapshot \/ k > 0) /\ pc' = "session"
    <3>1. PICK k \in 0..Len(life) :
                /\ Reconciled(answer) /\ life' = SubSeq(life, k + 1, Len(life))
                /\ wantSnapshot' = (wantSnapshot \/ k > 0) /\ pc' = "session"
      BY <2>5
    <3>2. k = 0 => UNCHANGED life
      <4>1. life \in Seq(Hints \cup {End})
        BY DEF Inv, Types, LifeOK
      <4>2. SubSeq(life, 1, Len(life)) = life
        BY <4>1
      <4> QED BY <3>1, <4>2
    <3>3. k \in Nat /\ (k > 0 => wantSnapshot') /\ (wantSnapshot => wantSnapshot')
      <4>1. Len(life) \in Nat
        BY DEF Inv, Types, LifeOK
      <4>2. k \in Nat
        BY <3>1, <4>1
      <4>3. (k > 0 => wantSnapshot') /\ (wantSnapshot => wantSnapshot')
        BY <3>1, Zenon
      <4> QED BY <4>2, <4>3
    <3>4. wantSnapshot' \/ UNCHANGED life
      BY <3>2, <3>3
    <3> QED BY <2>1, <2>2, <2>3, <3>1, <3>3, <3>4, ReconciledNews
  <2>6. Disconnected \/ \E k \in 0..Len(life) :
                /\ Reconciled(answer) /\ life' = SubSeq(life, k + 1, Len(life))
                /\ wantSnapshot' = (wantSnapshot \/ k > 0) /\ pc' = "session"
    BY <1>2 DEF InstallBoot
  <2> QED BY <2>4, <2>5, <2>6
<1> QED
  BY <1>1, <1>2

\* A pane of the run is installed; the others stay as they are.
LEMMA PaneNews ==
    ASSUME Inv, NewsInv, InstallPane
    PROVE  NewsInv'
<1>1. /\ UNCHANGED <<srv, missed, request, answer, batch, life, wantSnapshot, wantGets, view>>
      /\ pc = "installing" /\ pc' = IF batch = {} THEN "session" ELSE "next"
  BY DEF InstallPane, serverVars, wantVars
<1>2. PICK p \in Panes : p = request
  BY DEF InstallPane
<1>3. PICK v \in Pane : v = answer[p]
  BY DEF Inv, Types, ReqOK
<1> DEFINE Gone == {q \in {p} : v = Absent /\ task[p] # "none"}
           Fresh == {q \in {p} : Bearing(v) /\ task[p] = "none"}
<1>4. /\ cache' = [cache EXCEPT ![p] = Record(v)]
      /\ gens' = [gens EXCEPT ![p] = IF v = Absent THEN 0 ELSE Bump(gens[p])]
      /\ dirty' = (dirty \/ v # Absent)
      /\ Tasks(Gone, Fresh, {p})
  BY <1>2, <1>3 DEF InstallPane, Inv, Types, KnowOK
<1>5. gens[p] \in 0..GenMod /\ Bump(gens[p]) # gens[p]
  BY BumpIs DEF Inv, Types, KnowOK
<1>6. /\ cache'[p] = Record(v) /\ (v # Absent => gens'[p] # gens[p])
      /\ \A q \in Panes : q # p => cache'[q] = cache[q] /\ gens'[q] = gens[q]
  BY <1>4, <1>5 DEF Inv, Types, KnowOK
<1>7. /\ Gone \in SUBSET Panes /\ Fresh \in SUBSET Panes /\ {p} \in SUBSET Panes
      /\ \A q \in Fresh : task[q] = "none"
      /\ Gone \subseteq {p} /\ (Gone # {} => v = Absent)
  OBVIOUS
<1> HIDE DEF Gone, Fresh
<1>8. /\ Ending'
      /\ \A q \in Gone : wire'[q] = <<>> /\ Carried(q)' = {} /\ Queued(q)' = {}
      /\ \A q \in Panes \ Gone :
            /\ wire'[q] = wire[q] /\ Carried(q)' = Carried(q) /\ Queued(q)' = Queued(q)
            /\ \A i \in Queued(q) : rx'[i].status = rx[i].status /\ rx'[i].stamp = rx[i].stamp
  <2>1. Ending /\ Tasks(Gone, Fresh, {p})
    BY <1>4 DEF NewsInv
  <2> QED BY <1>7, <2>1, TasksNews
<1> SUFFICES ASSUME NEW q \in Panes PROVE WireTrue(q)' /\ Knows(q)' /\ OnScreen(q)'
  BY <1>8 DEF NewsInv
<1>9. WireTrue(q) /\ Knows(q) /\ OnScreen(q)
  BY DEF NewsInv
<1>10. \A K : ToldOf(q, K)' = ToldOf(q, K)
  BY <1>1 DEF ToldOf
<1>11. WireTrue(q)'
  <2>1. CASE q \in Gone
    BY <1>8, <2>1 DEF WireTrue
  <2>2. CASE q \notin Gone
    BY <1>1, <1>8, <1>9, <1>10, <2>2 DEF WireTrue, Latest
  <2> QED BY <2>1, <2>2
<1>12. ~Answered(q)' /\ (Answered(q) <=> q = p) /\ (q \in Covered <=> q = p)
  BY <1>1, <1>2 DEF Answered, Covered
<1>13. CASE q = p
  <2>1. OnScreen(q)'
    <3>1. v = Absent => cache'[p].info = Absent
      BY <1>6 DEF Record, Unknown
    <3>2. v # Absent => dirty'
      BY <1>4
    <3> QED BY <1>13, <3>1, <3>2 DEF OnScreen
  <2>2. PICK gone \in BOOLEAN : gone <=> p \in Gone
    OBVIOUS
  <2>3. ~Bearing(Absent)
    BY Constants DEF Bearing
  <2>4. /\ gone => ~Bearing(answer[p])
        /\ gone => Carried(p)' = {} /\ Queued(p)' = {}
        /\ ~gone => /\ Carried(p)' = Carried(p) /\ Queued(p)' = Queued(p)
                    /\ \A i \in Queued(p) : rx'[i].stamp = rx[i].stamp
    BY <1>3, <1>7, <1>8, <2>2, <2>3
  <2>5. ToldOf(p, Natures) => ToldOf(p, Natures)' \/ wantSnapshot'
    BY <1>10, <1>13
  <2>6. Knows(p)'
    BY <1>1, <1>3, <1>6, <1>12, <1>13, <2>4, <2>5, ReadNews
  <2> QED BY <1>11, <1>13, <2>1, <2>6
<1>14. CASE q # p
  <2>1. q \notin Gone /\ pc \notin Unlinked
    BY <1>1, <1>7, <1>14 DEF Unlinked
  <2>2. /\ Carried(q)' = Carried(q) /\ Queued(q)' = Queued(q)
        /\ \A i \in Queued(q) : rx'[i].status = rx[i].status /\ rx'[i].stamp = rx[i].stamp
    BY <1>8, <2>1
  <2>3. UNCHANGED <<cache[q], gens[q]>>
    BY <1>6, <1>14
  <2>4. OnScreen(q)'
    BY <1>1, <1>2, <1>4, <1>9, <2>1, <2>3 DEF OnScreen, Shown, Waiting
  <2>5. Unread(q) => Unread(q)'
    <3>1. ~(pc = "asking" /\ q \in Covered) /\ pc # "next" /\ (q \in batch => pc' = "next")
      BY <1>1
    <3> QED BY <1>1, <1>10, <2>2, <2>3, <3>1 DEF Unread
  <2>6. CacheFits(q) => CacheFits(q)'
    BY <1>1, <2>2, <2>3 DEF CacheFits, Latest
  <2> QED BY <1>1, <1>9, <1>11, <1>12, <1>14, <2>1, <2>4, <2>5, <2>6 DEF Knows
<1> QED
  BY <1>13, <1>14

\* A hint that changes what the client has to know asks for a snapshot.
LEMMA LifecycleNews ==
    ASSUME Inv, NewsInv, HandleLifecycle
    PROVE  NewsInv'
<1>1. /\ UNCHANGED <<srv, missed, pc, request, answer, batch, gens, dirty, view>>
      /\ pc = "session" /\ life # <<>> /\ Head(life).kind # Ended /\ life' = Tail(life)
  BY DEF HandleLifecycle, serverVars, reqVars, uiVars
<1>2. PICK h \in Hints : h = Head(life)
  BY <1>1 DEF Inv, Types, LifeOK, End
<1>3. h.pane \in Panes
  BY HintsAre
<1> DEFINE Gone == {p \in {h.pane} : ClosesTask(h)}
           Fresh == {p \in {h.pane} : OpensTask(h)}
<1>4. /\ cache' = IF Provisional(h)
                  THEN [cache EXCEPT ![h.pane] = [info |-> h.value, status |-> None]]
                  ELSE cache
      /\ Tasks(Gone, Fresh, {})
      /\ IF h.kind = "focused"
         THEN wantGets' = wantGets \cup {h.pane} /\ UNCHANGED wantSnapshot
         ELSE wantSnapshot' = (wantSnapshot \/ ~Cosmetic(h)) /\ UNCHANGED wantGets
  BY <1>2 DEF HandleLifecycle
<1>5. /\ Gone \in SUBSET Panes /\ Fresh \in SUBSET Panes /\ {} \in SUBSET Panes
      /\ \A p \in Fresh : task[p] = "none"
      /\ Gone \subseteq {h.pane} /\ (Gone # {} => h.kind = "closed")
      /\ h.kind = "closed" /\ task[h.pane] # "none" => h.pane \in Gone
  BY <1>3 DEF OpensTask, ClosesTask
<1>6. h.kind \in Natures => wantSnapshot'
  BY <1>4 DEF Natures, Cosmetic
<1>7. wantSnapshot => wantSnapshot'
  BY <1>4
<1>8. ~wantSnapshot' => UNCHANGED cache /\ h.kind \notin Natures /\ Gone = {}
  BY <1>4, <1>5, <1>6 DEF Provisional, Natures
<1>9. wantGets \subseteq wantGets'
  BY <1>4
<1> HIDE DEF Gone, Fresh
<1>10. /\ Ending'
       /\ \A q \in Gone : wire'[q] = <<>> /\ Carried(q)' = {} /\ Queued(q)' = {}
       /\ \A q \in Panes \ Gone :
             /\ wire'[q] = wire[q] /\ Carried(q)' = Carried(q) /\ Queued(q)' = Queued(q)
             /\ \A i \in Queued(q) : rx'[i].status = rx[i].status /\ rx'[i].stamp = rx[i].stamp
  BY <1>4, <1>5, TasksNews DEF NewsInv
<1>11. ASSUME NEW q \in Panes, NEW K, ToldOf(q, K), ~(h.pane = q /\ h.kind \in K)
       PROVE  ToldOf(q, K)'
  <2>1. PICK i \in DOMAIN life : life[i].pane = q /\ life[i].kind \in K
    BY <1>11 DEF ToldOf
  <2>2. life \in Seq(Hints \cup {End})
    BY DEF Inv, Types, LifeOK
  <2>3. life[1] = h /\ DOMAIN life = 1..Len(life) /\ Len(life) \in Nat \ {0}
    BY <1>1, <1>2, <2>2
  <2>4. i # 1 /\ i \in 1..Len(life)
    BY <1>11, <2>1, <2>3
  <2>5. i - 1 \in DOMAIN life' /\ life'[i - 1] = life[i]
    BY <1>1, <2>2, <2>3, <2>4
  <2> QED BY <2>1, <2>5 DEF ToldOf
<1> SUFFICES ASSUME NEW q \in Panes PROVE WireTrue(q)' /\ Knows(q)' /\ OnScreen(q)'
  BY <1>10 DEF NewsInv
<1>12. WireTrue(q) /\ Knows(q) /\ OnScreen(q)
  BY DEF NewsInv
<1>13. WireTrue(q)'
  <2>1. CASE q \in Gone
    BY <1>10, <2>1 DEF WireTrue
  <2>2. CASE q \notin Gone /\ h.pane = q /\ h.kind = "closed"
    <3>1. task[q] = "none"
      BY <1>5, <2>2
    <3>2. wire'[q] = <<>>
      BY <1>10, <2>2, <3>1 DEF NewsInv, Ending
    <3> QED BY <3>2 DEF WireTrue, Carried
  <2>3. CASE q \notin Gone /\ ~(h.pane = q /\ h.kind = "closed")
    <3>1. ToldOf(q, {"closed"}) => ToldOf(q, {"closed"})'
      BY <1>11, <2>3
    <3> QED BY <1>1, <1>10, <1>12, <2>3, <3>1 DEF WireTrue, Latest
  <2> QED BY <2>1, <2>2, <2>3
<1>14. CASE wantSnapshot'
  BY <1>13, <1>14 DEF Knows, Unread, OnScreen
<1>15. CASE ~wantSnapshot'
  <2>1. UNCHANGED cache /\ q \notin Gone /\ ~wantSnapshot /\ ~(h.pane = q /\ h.kind \in Natures)
    BY <1>7, <1>8, <1>15
  <2>2. /\ Carried(q)' = Carried(q) /\ Queued(q)' = Queued(q)
        /\ \A i \in Queued(q) : rx'[i].status = rx[i].status /\ rx'[i].stamp = rx[i].stamp
    BY <1>10, <2>1
  <2>3. OnScreen(q)'
    BY <1>1, <1>12, <2>1 DEF OnScreen, Shown
  <2>4. ToldOf(q, Natures) => ToldOf(q, Natures)'
    BY <1>11, <2>1
  <2>5. Unread(q) => Unread(q)'
    BY <1>1, <1>9, <2>1, <2>2, <2>4 DEF Unread, Covered, Waiting
  <2>6. CacheFits(q) => CacheFits(q)'
    BY <1>1, <2>1, <2>2 DEF CacheFits, Latest
  <2>7. ~Answered(q) /\ ~Answered(q)'
    BY <1>1 DEF Answered
  <2> QED BY <1>1, <1>12, <1>13, <2>3, <2>5, <2>6, <2>7 DEF Knows
<1> QED
  BY <1>14, <1>15

\* The messages behind the first, once it is taken.
LEMMA HeadTaken ==
    ASSUME TaskOK, rx # <<>>, NEW p \in Panes, DOMAIN rx' = DOMAIN Tail(rx),
           \A i \in DOMAIN rx' : /\ rx'[i].pane = rx[i + 1].pane /\ rx'[i].kind = rx[i + 1].kind
                                 /\ rx'[i].live <=> rx[i + 1].live
    PROVE  /\ DOMAIN rx' \subseteq Nat /\ 1 \in DOMAIN rx
           /\ \A i \in DOMAIN rx' : i + 1 \in DOMAIN rx
           /\ \A i : i \in Queued(p)' <=> i \in DOMAIN rx' /\ i + 1 \in Queued(p)
           /\ \A i \in Queued(p) : i # 1 => i - 1 \in Queued(p)' /\ (i - 1) + 1 = i
           /\ \A i \in Queued(p)' : Latest(i, Queued(p)') => Latest(i + 1, Queued(p))
<1>1. /\ Len(rx) \in Nat \ {0} /\ DOMAIN rx = 1..Len(rx) /\ DOMAIN rx' = 1..(Len(rx) - 1)
  BY DEF TaskOK
<1>2. \A i \in DOMAIN rx' : i + 1 \in DOMAIN rx
  BY <1>1
<1>3. \A i : i \in Queued(p)' <=> i \in DOMAIN rx' /\ i + 1 \in Queued(p)
  BY <1>2 DEF Queued
<1>4. ASSUME NEW i \in Queued(p), i # 1
      PROVE  i - 1 \in Queued(p)' /\ (i - 1) + 1 = i
  <2>1. i \in 1..Len(rx)
    BY <1>1 DEF Queued
  <2>2. i - 1 \in DOMAIN rx' /\ (i - 1) + 1 = i
    BY <1>1, <1>4, <2>1
  <2> QED BY <1>3, <2>2
<1>5. ASSUME NEW i \in Queued(p)', Latest(i, Queued(p)')
      PROVE  Latest(i + 1, Queued(p))
  <2>1. i + 1 \in Queued(p) /\ i \in 1..(Len(rx) - 1)
    BY <1>1, <1>3
  <2>2. ASSUME NEW j \in Queued(p) PROVE j <= i + 1
    <3>1. j \in 1..Len(rx)
      BY <1>1 DEF Queued
    <3>2. CASE j = 1
      BY <1>1, <2>1, <3>2
    <3>3. CASE j # 1
      <4>1. j - 1 \in Queued(p)'
        BY <1>4, <3>3
      <4>2. j - 1 <= i
        BY <1>5, <4>1 DEF Latest
      <4> QED BY <1>1, <2>1, <3>1, <4>2
    <3> QED BY <3>2, <3>3
  <2> QED BY <2>1, <2>2 DEF Latest
<1> QED
  BY <1>1, <1>2, <1>3, <1>4, <1>5

\* A message is dropped, applied or asks again; the end of a task is its last.
LEMMA StatusNews ==
    ASSUME Inv, NewsInv, StaleMessage \/ StatusEvent \/ StatusOver
    PROVE  NewsInv'
<1> USE DEF NewsInv
<1>1. /\ UNCHANGED <<srv, missed, pc, request, answer, batch, gens, wire, life, view>>
      /\ pc = "session" /\ rx # <<>>
  BY DEF StaleMessage, StatusEvent, StatusOver, serverVars, reqVars, knowVars, wantVars, uiVars
<1>2. TaskOK /\ KnowOK /\ UiOK
  BY DEF Inv, Types
<1>3. PICK m \in Messages : m = Head(rx)
  BY <1>1, TailIs
<1>4. m = rx[1] /\ 1 \in DOMAIN rx /\ m.pane \in Panes /\ (m.kind = "event" => m.status \in Value)
  <2>1. 1 \in DOMAIN rx
    BY <1>1, <1>2 DEF TaskOK
  <2> QED BY <1>1, <1>3, <2>1, TailIs, MessageIs
<1>5. /\ Tail(rx) \in Seq(Messages)
      /\ \A i \in DOMAIN Tail(rx) : i + 1 \in DOMAIN rx /\ i + 1 > 1 /\ Tail(rx)[i] = rx[i + 1]
  BY <1>1, <1>2 DEF TaskOK
<1>6. /\ StaleMessage => ~m.live
      /\ StatusEvent => m.live /\ m.kind = "event"
      /\ StatusOver => m.live /\ m.kind # "event" /\ task' = [task EXCEPT ![m.pane] = "none"]
                       /\ rx' = Mark(Tail(rx), {m.pane}, {})
      /\ StatusOver \/ (UNCHANGED task /\ rx' = Tail(rx))
  BY <1>3 DEF StaleMessage, StatusEvent, StatusOver
<1>7. StatusOver => /\ task[m.pane] = "over" /\ wire[m.pane] = <<>>
                    /\ \A i \in DOMAIN Tail(rx) : rx[i + 1].live => rx[i + 1].pane # m.pane
  BY <1>4, <1>5, <1>6 DEF Ending
<1>8. /\ DOMAIN rx' = DOMAIN Tail(rx)
      /\ \A i \in DOMAIN rx' : /\ rx'[i].pane = rx[i + 1].pane /\ rx'[i].kind = rx[i + 1].kind
                               /\ rx'[i].live <=> rx[i + 1].live
                               /\ rx'[i].status = rx[i + 1].status
                               /\ rx'[i].stamp = rx[i + 1].stamp
  <2>1. CASE StatusOver
    <3>1. PICK q \in Seq(Messages) : q = Tail(rx)
      BY <1>5
    <3>2. /\ DOMAIN Mark(q, {m.pane}, {}) = DOMAIN q
          /\ \A i \in DOMAIN q :
                LET n == Mark(q, {m.pane}, {})[i]
                IN  /\ n.pane = q[i].pane /\ n.stamp = q[i].stamp
                    /\ n.live <=> (q[i].live /\ q[i].pane \notin {m.pane})
                    /\ n.kind = q[i].kind /\ n.status = q[i].status
      BY MarkIs, MarkSays
    <3>3. rx' = Mark(q, {m.pane}, {}) /\ \A i \in DOMAIN q : q[i] = rx[i + 1]
      BY <1>5, <1>6, <2>1, <3>1
    <3>4. \A i \in DOMAIN q : q[i].live => q[i].pane \notin {m.pane}
      BY <1>7, <2>1, <3>1, <3>3
    <3>5. ASSUME NEW i \in DOMAIN q
          PROVE  /\ rx'[i].pane = rx[i + 1].pane /\ rx'[i].kind = rx[i + 1].kind
                 /\ rx'[i].live <=> rx[i + 1].live
                 /\ rx'[i].status = rx[i + 1].status
                 /\ rx'[i].stamp = rx[i + 1].stamp
      <4>1. q[i] = rx[i + 1] /\ (q[i].live => q[i].pane \notin {m.pane})
        BY <3>3, <3>4
      <4>2. LET n == rx'[i]
            IN  /\ n.pane = q[i].pane /\ n.stamp = q[i].stamp
                /\ n.live <=> (q[i].live /\ q[i].pane \notin {m.pane})
                /\ n.kind = q[i].kind /\ n.status = q[i].status
        BY <3>2, <3>3
      <4> QED BY <4>1, <4>2
    <3>6. DOMAIN rx' = DOMAIN Tail(rx)
      BY <3>1, <3>2, <3>3
    <3> QED BY <3>1, <3>5, <3>6
  <2>2. CASE ~StatusOver
    BY <1>5, <1>6, <2>2
  <2> QED BY <2>1, <2>2
<1>9. \A q \in Panes : task'[q] = task[q] \/ (StatusOver /\ q = m.pane /\ task'[q] = "none")
  BY <1>2, <1>6 DEF TaskOK
<1>10. Ending'
  <2>1. ASSUME NEW q \in Panes
        PROVE  /\ task'[q] # "open" => wire'[q] = <<>>
               /\ \A i \in DOMAIN wire'[q] : wire'[q][i] = Ended => i = Len(wire'[q])
    BY <1>1, <1>7, <1>9 DEF Ending
  <2>2. ASSUME NEW i \in DOMAIN rx', rx'[i].live, rx'[i].kind # "event"
        PROVE  /\ task'[rx'[i].pane] = "over"
               /\ \A j \in DOMAIN rx' : j > i /\ rx'[j].live => rx'[j].pane # rx'[i].pane
    <3>1. /\ i + 1 \in DOMAIN rx /\ rx[i + 1].live /\ rx[i + 1].kind # "event"
          /\ rx'[i].pane = rx[i + 1].pane /\ i \in DOMAIN Tail(rx)
      BY <1>5, <1>8, <2>2
    <3>2. /\ task[rx[i + 1].pane] = "over" /\ rx[i + 1].pane \in Panes
          /\ \A j \in DOMAIN rx : j > i + 1 /\ rx[j].live => rx[j].pane # rx[i + 1].pane
      BY <1>2, <3>1, MessageIs DEF Ending, TaskOK
    <3>3. task'[rx'[i].pane] = "over"
      BY <1>7, <1>9, <3>1, <3>2
    <3>4. ASSUME NEW j \in DOMAIN rx', j > i, rx'[j].live PROVE rx'[j].pane # rx'[i].pane
      <4>1. j + 1 \in DOMAIN rx /\ rx[j + 1].live /\ rx'[j].pane = rx[j + 1].pane
        BY <1>5, <1>8, <3>4
      <4>2. DOMAIN rx' \subseteq Nat
        BY <1>5, <1>8
      <4>3. j + 1 > i + 1
        BY <3>4, <4>2
      <4> QED BY <3>1, <3>2, <4>1, <4>3
    <3> QED BY <3>3, <3>4
  <2> QED BY <2>1, <2>2 DEF Ending
<1> SUFFICES ASSUME NEW p \in Panes PROVE WireTrue(p)' /\ Knows(p)' /\ OnScreen(p)'
  BY <1>10
<1>11. WireTrue(p) /\ Knows(p) /\ OnScreen(p)
  OBVIOUS
<1>12. /\ DOMAIN rx' \subseteq Nat /\ \A i \in DOMAIN rx' : i + 1 \in DOMAIN rx
       /\ \A i : i \in Queued(p)' <=> i \in DOMAIN rx' /\ i + 1 \in Queued(p)
       /\ \A i \in Queued(p) : i # 1 => i - 1 \in Queued(p)' /\ (i - 1) + 1 = i
       /\ \A i \in Queued(p)' : Latest(i, Queued(p)') => Latest(i + 1, Queued(p))
  BY <1>1, <1>2, <1>8, HeadTaken
<1>13. Carried(p)' = Carried(p) /\ \A K : ToldOf(p, K)' = ToldOf(p, K)
  BY <1>1 DEF Carried, ToldOf
<1>14. WireTrue(p)'
  BY <1>1, <1>11, <1>13 DEF WireTrue, Latest
<1>15. \/ UNCHANGED <<cache, dirty>>
       \/ /\ StatusEvent /\ dirty' /\ Current(m)
          /\ cache' = [cache EXCEPT ![m.pane].status = m.status]
  BY <1>2, <1>3 DEF StaleMessage, StatusEvent, StatusOver, knowVars, uiVars, UiOK
<1>16. wantSnapshot => wantSnapshot'
  BY DEF StaleMessage, StatusEvent, StatusOver, wantVars
<1>17. wantGets \subseteq wantGets' /\ (StatusEvent /\ ~Current(m) => m.pane \in wantGets')
  BY <1>3 DEF StaleMessage, StatusEvent, StatusOver, wantVars, AskedAgain
<1>18. 1 \in Queued(p) => StatusEvent /\ m.pane = p
  BY <1>4, <1>6 DEF Queued
<1>19. OnScreen(p)'
  BY <1>1, <1>11, <1>15, <1>16 DEF OnScreen, Shown, Unlinked, Waiting
<1>20. Unread(p) => Unread(p)'
  <2>1. CASE \E i \in Queued(p) : rx[i].stamp # gens[p]
    <3>1. PICK i \in Queued(p) : rx[i].stamp # gens[p]
      BY <2>1
    <3>2. CASE i = 1
      BY <1>4, <1>17, <1>18, <3>1, <3>2 DEF Unread, Current
    <3>3. CASE i # 1
      <4>1. i - 1 \in Queued(p)' /\ (i - 1) + 1 = i
        BY <1>12, <3>3
      <4>2. rx'[i - 1].stamp = rx[i].stamp
        BY <1>8, <1>12, <4>1
      <4> QED BY <1>1, <3>1, <4>1, <4>2 DEF Unread
    <3> QED BY <3>2, <3>3
  <2> QED BY <1>1, <1>13, <1>16, <1>17, <2>1 DEF Unread, Covered
<1>21. /\ cache'[p].info = cache[p].info
       /\ cache'[p].status = cache[p].status
             \/ (m.pane = p /\ StatusEvent /\ cache'[p].status = m.status)
  <2>1. CASE UNCHANGED cache
    BY <2>1
  <2>2. CASE StatusEvent /\ cache' = [cache EXCEPT ![m.pane].status = m.status]
    <3>1. cache[p] \in [info : Pane, status : Value \cup {None}]
      BY <1>2 DEF KnowOK
    <3>2. cache'[p] = IF p = m.pane THEN [cache[p] EXCEPT !.status = m.status] ELSE cache[p]
      BY <1>2, <1>4, <2>2 DEF KnowOK
    <3> QED BY <2>2, <3>1, <3>2
  <2> QED BY <1>15, <2>1, <2>2
<1>22. 1 \in Queued(p) /\ Current(m) /\ cache[p].status # None => cache'[p].status = m.status
  <2> SUFFICES ASSUME 1 \in Queued(p), Current(m), cache[p].status # None
               PROVE  cache'[p].status = m.status
    OBVIOUS
  <2>1. StatusEvent /\ m.pane = p
    BY <1>18
  <2>2. cache' = IF cache[p].status # m.status THEN [cache EXCEPT ![p].status = m.status] ELSE cache
    BY <1>3, <2>1 DEF StatusEvent
  <2>3. cache[p] \in [info : Pane, status : Value \cup {None}]
    BY <1>2 DEF KnowOK
  <2>4. CASE cache[p].status # m.status
    <3>1. cache'[p] = [cache[p] EXCEPT !.status = m.status]
      BY <1>2, <2>2, <2>4 DEF KnowOK
    <3> QED BY <2>3, <3>1
  <2> QED BY <2>2, <2>4
<1>23. CacheFits(p) => Unread(p)' \/ CacheFits(p)'
  <2> SUFFICES ASSUME CacheFits(p), ~Unread(p) PROVE CacheFits(p)'
    BY <1>20
  <2>1. CASE ~Bearing(srv[p])
    BY <1>1, <1>21, <2>1 DEF CacheFits
  <2>2. CASE Bearing(srv[p])
    <3>1. /\ Bearing(cache'[p].info) /\ cache[p].status # None /\ srv'[p] = srv[p]
      BY <1>1, <1>21, <2>2 DEF CacheFits
    <3>2. cache'[p].status # None
      BY <1>4, <1>6, <1>21, <3>1, ValuesAre
    <3>3. ASSUME Carried(p) = {}, Queued(p)' = {} PROVE cache'[p].status = srv[p]
      <4>1. \A i \in Queued(p) : i = 1
        BY <1>12, <3>3
      <4>2. CASE Queued(p) = {}
        <5>1. cache'[p].status = cache[p].status
          <6>1. StatusEvent /\ m.pane = p => 1 \in Queued(p)
            BY <1>4, <1>6 DEF Queued
          <6> QED BY <1>21, <4>2, <6>1
        <5> QED BY <2>2, <3>3, <4>2, <5>1 DEF CacheFits
      <4>3. CASE 1 \in Queued(p)
        <5>1. Latest(1, Queued(p))
          BY <4>1, <4>3 DEF Latest
        <5>2. m.status = srv[p]
          BY <1>4, <2>2, <3>3, <4>3, <5>1 DEF CacheFits
        <5>3. Current(m)
          BY <1>4, <1>18, <4>3 DEF Unread, Current
        <5> QED BY <1>22, <3>1, <4>3, <5>2, <5>3
      <4> QED BY <4>1, <4>2, <4>3
    <3>4. ASSUME Carried(p) = {}, NEW i \in Queued(p)', Latest(i, Queued(p)')
          PROVE  rx'[i].status = srv[p]
      <4>1. i \in DOMAIN rx' /\ i + 1 \in Queued(p) /\ Latest(i + 1, Queued(p))
        BY <1>12, <3>4
      <4> QED BY <1>8, <2>2, <3>4, <4>1 DEF CacheFits
    <3> QED BY <1>13, <2>2, <3>1, <3>2, <3>3, <3>4 DEF CacheFits
  <2> QED BY <2>1, <2>2
<1>24. ~Answered(p) /\ ~Answered(p)'
  BY <1>1 DEF Answered
<1> QED
  BY <1>1, <1>11, <1>14, <1>19, <1>20, <1>23, <1>24 DEF Knows

\* The link is made, fails or is lost.
LEMMA ConnectNews ==
    ASSUME Inv, NewsInv, Probe \/ Subscribe \/ RequestFails \/ LifecycleEnds \/ StatusFailed
    PROVE  NewsInv'
<1>1. CASE Disconnected \/ Standalone
  BY <1>1, UnlinkedNews DEF Disconnected, Standalone, Unlinked
<1>2. CASE ~(Disconnected \/ Standalone)
  <2>1. \/ /\ pc = "probe" /\ pc' = "subscribe"
           /\ UNCHANGED <<srv, missed, cache, task, wire, rx, life, wantSnapshot, view, dirty>>
        \/ /\ pc = "subscribe" /\ pc' = "asking" /\ request' = "boot"
           /\ UNCHANGED <<srv, missed, cache, task, wire, rx, wantSnapshot, view, dirty>>
    BY <1>2 DEF Probe, Subscribe, RequestFails, LifecycleEnds, StatusFailed, serverVars,
       knowVars, taskVars, wantVars
  <2>2. \A p \in Panes : wire[p] = <<>>
    BY <2>1 DEF Inv, LinkInv, Unlinked, NewsInv, Ending
  <2>3. Ending' /\ \A p \in Panes : Carried(p)' = {}
    BY <2>1, <2>2, SameStreams DEF NewsInv, Carried
  <2>4. "boot" \notin Panes
    BY Constants
  <2>5. pc' = "asking" => request' \notin Panes /\ Covered' = Panes
    BY <2>1, <2>4 DEF Covered
  <2> QED
    BY <2>1, <2>3, <2>5 DEF NewsInv, WireTrue, Knows, Unread, OnScreen, Unlinked, Waiting
<1> QED
  BY <1>1, <1>2

LEMMA NewsStep == Inv /\ NewsInv /\ [Next]_vars => NewsInv'
<1> SUFFICES ASSUME Inv, NewsInv, [Next]_vars PROVE NewsInv'
  OBVIOUS
<1>1. CASE UNCHANGED vars
  BY <1>1 DEF vars, NewsInv, Ending, WireTrue, Knows, OnScreen, Carried, Queued, ToldOf, Latest,
     Unread, Covered, AnswerFits, CacheFits, Answered, Shown
<1>2. CASE Actor
  BY <1>2, ConnectNews, QuietNews, InstallNews, PaneNews, LifecycleNews, StatusNews DEF Actor
<1>3. CASE Host \/ Answer \/ Fallback \/ Rederive
  BY <1>3, HostStepsNews, AnswerNews, QuietNews
<1>4. CASE \E p \in Panes : Ack(p) \/ Refuse(p) \/ Receive(p)
  BY <1>4, TaskStepsNews
<1> QED
  BY <1>1, <1>2, <1>3, <1>4 DEF Next

LEMMA InitNews == Init => NewsInv
BY DEF Init, NewsInv, Ending, WireTrue, Knows, OnScreen, Unlinked

\* What is settled is known, and shown.
LEMMA SettledKnown ==
    ASSUME Inv, NewsInv, NEW p \in Panes, Settled(p), ~missed[p]
    PROVE  /\ Shown(p) = Truth(p)
           /\ ~dirty => view[p] = Truth(p) \/ cache[p].info = Absent
<1>1. Knows(p) /\ OnScreen(p)
  BY DEF NewsInv
<1>2. /\ Carried(p) = {} /\ Queued(p) = {} /\ \A K : ~ToldOf(p, K)
      /\ pc = "session" /\ ~wantSnapshot /\ p \notin wantGets
  BY DEF Settled, Carried, Queued, ToldOf
<1>3. CacheFits(p)
  BY <1>1, <1>2 DEF Knows, Unread, Answered, Unlinked, Waiting
<1>4. Shown(p) = Truth(p)
  BY <1>2, <1>3 DEF CacheFits, Shown, Truth
<1> QED
  BY <1>1, <1>2, <1>4 DEF OnScreen, Unlinked, Waiting

\* For any number of panes, statuses, messages and moves of the host: a pane
\* the client has nothing more to do about is known as it is, and shown or
\* about to be, unless the last thing the host did with it was never said or is
\* overtaken by what it said before (missed).  This is StreamsSuffice without its
\* fairness: whatever else was under way, nothing that is said is left undone.
\* Only a pane that is gone may stay on the screen until the next derivation.
THEOREM NewsIsNotLost == Spec => []NewsArrives
<1>1. Inv /\ NewsInv => NewsArrives
  BY SettledKnown DEF NewsArrives
<1>2. Init => Inv /\ NewsInv
  BY InitInv, InitNews
<1>3. (Inv /\ NewsInv) /\ [Next]_vars => (Inv /\ NewsInv)'
  BY InvStep, NewsStep
<1> QED
  BY <1>1, <1>2, <1>3, PTL DEF Spec

=============================================================================
