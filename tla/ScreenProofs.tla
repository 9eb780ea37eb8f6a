---------------------------- MODULE ScreenProofs ----------------------------
(* Proofs about what the screen holds of what the engine found, for any    *)
(* number of roots, requests, scans and changes.                           *)
EXTENDS Screen, FiniteSetTheorems, TLAPS

-----------------------------------------------------------------------------
(* Piles of one engine call.                                               *)

LEMMA EachOnce ==
    ASSUME NEW S, IsFiniteSet(S)
    PROVE  LET o == SetToSeq(S)
           IN  /\ o \in Seq(S)
               /\ \A i, j \in DOMAIN o : o[i] = o[j] => i = j
               /\ \A x \in S : \E i \in DOMAIN o : o[i] = x
<1> DEFINE n == Cardinality(S)
           o == SetToSeq(S)
<1>1. n \in Nat /\ ExistsBijection(1..n, S)
  BY FS_CardinalityType
<1>2. \E f \in [1..n -> S] : IsInjective(f)
  <2>1. PICK f \in Bijection(1..n, S) : TRUE
    BY <1>1 DEF ExistsBijection
  <2> QED
    BY <2>1 DEF Bijection, Injection
<1>3. o \in [1..n -> S] /\ IsInjective(o)
  BY <1>2 DEF SetToSeq
<1> HIDE DEF o
<1>4. ASSUME NEW x \in S
      PROVE  \E i \in DOMAIN o : o[i] = x
  <2> SUFFICES ASSUME \A i \in DOMAIN o : o[i] # x
               PROVE  FALSE
    OBVIOUS
  <2>1. o \in [1..n -> S \ {x}]
    BY <1>3
  <2>2. IsFiniteSet(S \ {x}) /\ Cardinality(S \ {x}) = n - 1
    BY FS_RemoveElement
  <2>3. IsFiniteSet(1..n) /\ Cardinality(1..n) = n
    BY <1>1, FS_Interval
  <2>4. \E i, j \in 1..n : i # j /\ o[i] = o[j]
    BY <1>1, <2>1, <2>2, <2>3, FS_PigeonHole
  <2> QED
    BY <1>3, <2>4 DEF IsInjective
<1> QED
  BY <1>1, <1>3, <1>4 DEF IsInjective, o

Found(S) == {m \in Piles : m.root \in S}

LEMMA PilesOfAre ==
    ASSUME NEW S \in SUBSET Root, NEW found \in [Root -> Pile], seq \in Nat,
           seq + Len(PilesOf(S, found)) \leq MaxScans
    PROVE  LET ps == PilesOf(S, found)
           IN  /\ ps \in Seq(Found(S)) /\ Len(ps) \in Nat
               /\ \A i \in DOMAIN ps : ps[i].seq = seq + i
               /\ \A i, j \in DOMAIN ps : ps[i].root = ps[j].root => i = j
               /\ \A r \in S : \E i \in DOMAIN ps : ps[i].root = r
               /\ DOMAIN ps = 1..Len(ps)
<1> DEFINE o == SetToSeq(S)
           ps == PilesOf(S, found)
<1>1. IsFiniteSet(S)
  BY RootsAreFinite, FS_Subset
<1>2. /\ o \in Seq(S) /\ \A i, j \in DOMAIN o : o[i] = o[j] => i = j
      /\ \A x \in S : \E i \in DOMAIN o : o[i] = x
  BY <1>1, EachOnce
<1>3. ps = [i \in 1..Len(o) |-> [kind |-> "pile", root |-> o[i], seq |-> seq + i, pile |-> found[o[i]]]]
  BY DEF PilesOf
<1> HIDE DEF o
<1>4. Len(o) \in Nat /\ DOMAIN o = 1..Len(o)
  BY <1>2
<1>5. DOMAIN ps = 1..Len(o) /\ Len(ps) = Len(o)
  BY <1>3, <1>4
<1>6. ASSUME NEW i \in 1..Len(o)
      PROVE  ps[i] \in Found(S) /\ ps[i].root = o[i] /\ ps[i].seq = seq + i
  <2>1. o[i] \in S /\ seq + i \in 1..MaxScans
    BY <1>2, <1>4, <1>5, <1>6, BoundsAssumption
  <2> QED
    BY <1>3, <2>1 DEF Found, Piles
<1>7. ps \in Seq(Found(S))
  BY <1>3, <1>4, <1>6
<1>8. \A i, j \in DOMAIN ps : ps[i].root = ps[j].root => i = j
  BY <1>2, <1>4, <1>5, <1>6
<1>9. \A r \in S : \E i \in DOMAIN ps : ps[i].root = r
  BY <1>2, <1>4, <1>5, <1>6
<1>10. \A i \in DOMAIN ps : ps[i].seq = seq + i
  BY <1>5, <1>6
<1> QED
  BY <1>4, <1>5, <1>7, <1>8, <1>9, <1>10

-----------------------------------------------------------------------------
(* Types.                                                                  *)

\* The piles of one answer are of different roots.
OneEach(ps) == \A m, n \in ps : m.root = n.root => m = n

RootsMessages == [kind : {"roots"}, roots : SUBSET Root, epoch : 0..MaxMoves]
AcceptedMessages == {m \in [kind : {"accepted"}, piles : SUBSET Piles] : OneEach(m.piles)}
ChangedMessages == [kind : {"changed"}, changed : Changes]

LoopMessages == Piles \cup [kind : {"head"}] \cup ChangedMessages
TaskMessages == Piles \cup RootsMessages \cup [kind : {"refreshed"}] \cup AcceptedMessages

Asking == [what : {"sync", "refresh", "accept"}, roots : SUBSET Root]
Sending == {s \in [what : {"send"}, msgs : Seq(TaskMessages)] : s.msgs # <<>>}
Scans == [seq : 1..MaxScans, pile : Pile]

EngineOK ==
    /\ open \subseteq Root /\ pending \in Changes
    /\ seq \in 0..MaxScans /\ last \in [Root -> Scans \cup {None}]
WorldOK ==
    /\ dir \subseteq Root /\ now \in [Root -> Pile]
    /\ moves \in 0..MaxMoves /\ epoch \in 0..moves
    /\ dir # open => epoch < moves
LoopOK ==
    /\ ran \in BOOLEAN /\ due \subseteq Root
    /\ outbox \in Seq(LoopMessages) /\ events \in Seq(LoopMessages)
    /\ Len(events) \leq ChannelCap
    /\ ~ran => outbox = <<>>
TasksOK ==
    /\ task \in [Task -> {Idle} \cup Asking \cup Sending]
    /\ locals \in Seq(TaskMessages)
ShownOK ==
    /\ view \subseteq Root /\ forgotten \subseteq Root
    /\ pile \in [Root -> Pile] /\ early \in [Root -> Pile \cup {None}]
    /\ held \in [Root -> 1..MaxScans \cup {None}]

Typed == EngineOK /\ WorldOK /\ LoopOK /\ TasksOK /\ ShownOK

LEMMA IdleIsNothing == Idle \notin Asking \cup Sending
<1>1. Sending \subseteq [what : {"send"}, msgs : Seq(Messages)]
  BY DEF Sending, TaskMessages, RootsMessages, AcceptedMessages, Messages
<1> QED
  BY <1>1, IdleAssumption DEF Asking

LEMMA PilesAreMessages ==
    ASSUME NEW S \in SUBSET Root, NEW found \in [Root -> Pile], EngineOK,
           seq + Len(PilesOf(S, found)) \leq MaxScans
    PROVE  LET ps == PilesOf(S, found)
           IN  /\ ps \in Seq(Piles) /\ ps \in Seq(LoopMessages) /\ ps \in Seq(TaskMessages)
               /\ [kind |-> "accepted", piles |-> {ps[i] : i \in DOMAIN ps}] \in TaskMessages
<1> DEFINE ps == PilesOf(S, found)
<1>1. seq \in Nat
  BY BoundsAssumption DEF EngineOK
<1>2. /\ ps \in Seq(Found(S)) /\ Len(ps) \in Nat /\ DOMAIN ps = 1..Len(ps)
      /\ \A i, j \in DOMAIN ps : ps[i].root = ps[j].root => i = j
  BY <1>1, PilesOfAre
<1> HIDE DEF ps
<1>3. ps \in Seq(Piles)
  BY <1>2 DEF Found
<1>4. ps \in Seq(LoopMessages) /\ ps \in Seq(TaskMessages)
  BY <1>3 DEF LoopMessages, TaskMessages
<1>5. OneEach({ps[i] : i \in DOMAIN ps})
  BY <1>2 DEF OneEach
<1>6. {ps[i] : i \in DOMAIN ps} \subseteq Piles
  BY <1>3
<1>7. [kind |-> "accepted", piles |-> {ps[i] : i \in DOMAIN ps}] \in AcceptedMessages
  BY <1>5, <1>6 DEF AcceptedMessages
<1> QED
  BY <1>3, <1>4, <1>7 DEF ps, TaskMessages

\* A scan numbers its piles on and is the newest of its roots.
LEMMA ScannedIs ==
    ASSUME NEW S \in SUBSET Root, NEW found \in [Root -> Pile], EngineOK,
           Scanned(PilesOf(S, found))
    PROVE  LET ps == PilesOf(S, found)
           IN  /\ seq' = seq + Len(ps) /\ seq' \in 0..MaxScans
               /\ last' \in [Root -> Scans \cup {None}]
               /\ \A i \in DOMAIN ps : last'[ps[i].root] = [seq |-> ps[i].seq, pile |-> ps[i].pile]
               /\ \A r \in Root \ S : last'[r] = IF r \in open' THEN last[r] ELSE None
<1> DEFINE ps == PilesOf(S, found)
           of(r) == CHOOSE i \in DOMAIN ps : ps[i].root = r
<1>1. seq \in Nat /\ seq + Len(ps) \leq MaxScans
  BY BoundsAssumption DEF EngineOK, Scanned
<1>2. /\ ps \in Seq(Found(S)) /\ Len(ps) \in Nat /\ DOMAIN ps = 1..Len(ps)
      /\ \A i, j \in DOMAIN ps : ps[i].root = ps[j].root => i = j
  BY <1>1, PilesOfAre
<1>3. /\ seq' = seq + Len(ps)
      /\ last' = [r \in Root |->
                     IF \E i \in DOMAIN ps : ps[i].root = r
                     THEN [seq |-> ps[of(r)].seq, pile |-> ps[of(r)].pile]
                     ELSE IF r \in open' THEN last[r] ELSE None]
  BY DEF Scanned
<1> HIDE DEF ps
<1>4. seq' \in 0..MaxScans
  BY <1>1, <1>2, <1>3, BoundsAssumption
<1>5. ASSUME NEW i \in DOMAIN ps
      PROVE  ps[i] \in Piles /\ ps[i].root \in S /\ of(ps[i].root) = i
  BY <1>2 DEF Found
<1> HIDE DEF of
<1>6. \A i \in DOMAIN ps : last'[ps[i].root] = [seq |-> ps[i].seq, pile |-> ps[i].pile]
  BY <1>3, <1>5 DEF Piles
<1>7. \A r \in Root \ S : last'[r] = IF r \in open' THEN last[r] ELSE None
  BY <1>3, <1>5
<1>8. ASSUME NEW r \in Root
      PROVE  last'[r] \in Scans \cup {None}
  <2>1. CASE \E i \in DOMAIN ps : ps[i].root = r
    <3>1. PICK i \in DOMAIN ps : ps[i].root = r
      BY <2>1
    <3>2. ps[i].seq \in 1..MaxScans /\ ps[i].pile \in Pile
      BY <1>5 DEF Piles
    <3>3. last'[r] = [seq |-> ps[i].seq, pile |-> ps[i].pile]
      BY <1>6, <3>1
    <3>4. [seq |-> ps[i].seq, pile |-> ps[i].pile] \in Scans
      BY <3>2 DEF Scans
    <3> QED
      BY <3>3, <3>4
  <2>2. CASE ~\E i \in DOMAIN ps : ps[i].root = r
    BY <1>3, <2>2 DEF EngineOK
  <2> QED
    BY <2>1, <2>2
<1> QED
  BY <1>3, <1>4, <1>6, <1>7, <1>8 DEF ps

\* What the loop of the watcher does, and what hands a task something to do.
Looping == Launch \/ Send \/ Pass \/ \E r \in Root : ScanRoot(r) \/ InspectHead(r)
Calls == \E t \in Task : ReadRoots(t) \/ RefreshAll(t) \/ AcceptRows(t) \/ SendLocal(t)

LEMMA DiscoveryTyped ==
    ASSUME Typed
    PROVE  /\ Difference \in Changes /\ Merge(Difference) \in Changes
           /\ open \cap dir \in SUBSET Root /\ dir \in SUBSET Root
BY DEF Typed, WorldOK, EngineOK, Difference, Merge, Changes

LEMMA EngineStep ==
    ASSUME Typed, [Next]_vars
    PROVE  EngineOK'
<1> USE DEF engine
<1>1. EngineOK /\ WorldOK /\ dir \subseteq Root /\ open \subseteq Root /\ now \in [Root -> Pile]
  BY DEF Typed, WorldOK, EngineOK
<1>2. Merge(Difference) \in Changes /\ NoChange \in Changes
  BY DiscoveryTyped DEF NoChange, Changes
<1>3. ASSUME NEW S \in SUBSET Root, NEW found \in [Root -> Pile],
             Scanned(PilesOf(S, found)), open' \in {open, dir},
             pending' \in {pending, NoChange, Merge(Difference)}
      PROVE  EngineOK'
  BY <1>1, <1>2, <1>3, ScannedIs DEF EngineOK
<1>4. CASE Launch
  BY <1>1, <1>3, <1>4 DEF Launch, Rediscover
<1>5. CASE Pass
  BY <1>1, <1>2, <1>5 DEF Pass, Rediscover, EngineOK
<1>6. ASSUME NEW r \in Root, ScanRoot(r) \/ InspectHead(r)
      PROVE  EngineOK'
  BY <1>1, <1>3, <1>6 DEF ScanRoot, InspectHead
<1>7. ASSUME NEW t \in Task, RefreshAll(t)
      PROVE  EngineOK'
  <2>1. open' \in {open, dir} /\ pending' \in {pending, Merge(Difference)}
    BY <1>7 DEF RefreshAll, Rediscover
  <2>2. (open \cup open') \cap dir \in SUBSET Root
    BY <1>1
  <2> QED
    BY <1>1, <1>3, <1>7, <2>1, <2>2 DEF RefreshAll
<1>8. ASSUME NEW t \in Task, AcceptRows(t)
      PROVE  EngineOK'
  <2>1. now' \in [Root -> Pile]
    BY <1>1, <1>8, NamesAssumption DEF AcceptRows
  <2>2. task[t].roots \cap open \cap dir \in SUBSET Root
    BY <1>1
  <2> QED
    BY <1>1, <1>3, <1>8, <2>1, <2>2 DEF AcceptRows
<1>9. CASE \/ Send \/ FromWatcher \/ FromTask \/ PressRefresh \/ PressAccept
           \/ \E t \in Task : ReadRoots(t) \/ SendLocal(t)
           \/ \E r \in Root : Edit(r) \/ RemoveOrCreate(r)
           \/ UNCHANGED vars
  BY <1>1, <1>9 DEF Send, FromWatcher, FromTask, PressRefresh, PressAccept, ReadRoots,
                    SendLocal, Edit, RemoveOrCreate, vars, EngineOK
<1> QED
  BY <1>4, <1>5, <1>6, <1>7, <1>8, <1>9 DEF Next

LEMMA WorldStep ==
    ASSUME Typed, [Next]_vars
    PROVE  WorldOK'
<1> USE DEF world, engine
<1>1. /\ WorldOK /\ dir \subseteq Root /\ open \subseteq Root /\ now \in [Root -> Pile]
      /\ moves \in Nat /\ epoch \in Nat /\ epoch \leq moves
  BY BoundsAssumption DEF Typed, WorldOK, EngineOK
<1>2. ASSUME Rediscover, UNCHANGED <<world, moves>>
      PROVE  WorldOK'
  BY <1>1, <1>2 DEF Rediscover, WorldOK
<1>3. ASSUME UNCHANGED <<dir, open, epoch, moves>>, now' \in [Root -> Pile]
      PROVE  WorldOK'
  BY <1>1, <1>3 DEF WorldOK
<1>4. ASSUME Move, UNCHANGED <<open, epoch>>, dir' \subseteq Root, now' \in [Root -> Pile]
      PROVE  WorldOK'
  BY <1>1, <1>4, BoundsAssumption DEF Move, WorldOK
<1>5. CASE Launch \/ Pass \/ \E t \in Task : RefreshAll(t)
  BY <1>1, <1>2, <1>3, <1>5 DEF Launch, Pass, RefreshAll
<1>6. ASSUME NEW t \in Task, AcceptRows(t)
      PROVE  WorldOK'
  BY <1>1, <1>3, <1>6, NamesAssumption DEF AcceptRows
<1>7. ASSUME NEW r \in Root, Edit(r) \/ RemoveOrCreate(r) \/ InspectHead(r)
      PROVE  WorldOK'
  BY <1>1, <1>4, <1>7 DEF Edit, RemoveOrCreate, InspectHead
<1>8. CASE PressRefresh \/ PressAccept
  BY <1>1, <1>4, <1>8 DEF PressRefresh, PressAccept
<1>9. CASE \/ Send \/ FromWatcher \/ FromTask \/ UNCHANGED vars
           \/ \E t \in Task : ReadRoots(t) \/ SendLocal(t)
           \/ \E r \in Root : ScanRoot(r)
  BY <1>1, <1>3, <1>9 DEF Send, FromWatcher, FromTask, ReadRoots, SendLocal, ScanRoot, vars
<1> QED
  BY <1>5, <1>6, <1>7, <1>8, <1>9 DEF Next

LEMMA LoopStep ==
    ASSUME Typed, [Next]_vars
    PROVE  LoopOK'
<1> USE DEF loop
<1>1. /\ LoopOK /\ EngineOK /\ dir \subseteq Root /\ open \subseteq Root /\ now \in [Root -> Pile]
      /\ due \subseteq Root
  BY DEF Typed, WorldOK, EngineOK, LoopOK
<1>2. ASSUME NEW S \in SUBSET Root, Scanned(PilesOf(S, now))
      PROVE  PilesOf(S, now) \in Seq(LoopMessages)
  BY <1>1, <1>2, PilesAreMessages DEF Scanned
<1>3. /\ [kind |-> "changed", changed |-> Difference] \in LoopMessages
      /\ [kind |-> "changed", changed |-> Merge(Difference)] \in LoopMessages
      /\ [kind |-> "head"] \in LoopMessages
  BY DiscoveryTyped DEF LoopMessages, ChangedMessages
<1>4. CASE Launch
  <2>1. outbox' \in Seq(LoopMessages)
    BY <1>1, <1>2, <1>3, <1>4 DEF Launch
  <2> QED
    BY <1>1, <1>4, <2>1 DEF Launch, LoopOK
<1>5. CASE Send
  BY <1>1, <1>5, BoundsAssumption DEF Send, LoopOK
<1>6. CASE Pass
  BY <1>1, <1>3, <1>6 DEF Pass, Waits, LoopOK
<1>7. ASSUME NEW r \in Root, ScanRoot(r) \/ InspectHead(r)
      PROVE  LoopOK'
  <2>1. CASE ScanRoot(r)
    <3>1. {r} \cap open \cap dir \in SUBSET Root
      BY <1>1
    <3>2. outbox' \in Seq(LoopMessages)
      BY <1>2, <2>1, <3>1 DEF ScanRoot
    <3> QED
      BY <1>1, <2>1, <3>2 DEF ScanRoot, Waits, LoopOK
  <2>2. CASE InspectHead(r)
    <3> DEFINE ps == PilesOf({r}, now)
    <3>1. ps \in Seq(LoopMessages)
      BY <1>2, <2>2 DEF InspectHead
    <3>2. outbox' = <<[kind |-> "head"]>> \o ps
      BY <2>2 DEF InspectHead
    <3> HIDE DEF ps
    <3>3. outbox' \in Seq(LoopMessages)
      BY <1>3, <3>1, <3>2
    <3> QED
      BY <1>1, <2>2, <3>3 DEF InspectHead, Waits, LoopOK
  <2> QED
    BY <1>7, <2>1, <2>2
<1>8. CASE FromWatcher
  BY <1>1, <1>8, BoundsAssumption DEF FromWatcher, LoopOK
<1>9. ASSUME NEW r \in Root, Edit(r)
      PROVE  LoopOK'
  BY <1>1, <1>9 DEF Edit, LoopOK
<1>10. CASE \/ FromTask \/ PressRefresh \/ PressAccept \/ UNCHANGED vars
            \/ \E t \in Task : ReadRoots(t) \/ RefreshAll(t) \/ AcceptRows(t) \/ SendLocal(t)
            \/ \E r \in Root : RemoveOrCreate(r)
  BY <1>1, <1>10 DEF FromTask, PressRefresh, PressAccept, ReadRoots, RefreshAll, AcceptRows,
                     SendLocal, RemoveOrCreate, vars, LoopOK
<1> QED
  BY <1>4, <1>5, <1>6, <1>7, <1>8, <1>9, <1>10 DEF Next

LEMMA Appended ==
    ASSUME NEW M, NEW s \in Seq(M), NEW m \in M
    PROVE  Append(s, m) \in Seq(M) /\ ToSet(Append(s, m)) = ToSet(s) \cup {m}
<1>1. Append(s, m) \in Seq(M) /\ Len(Append(s, m)) = Len(s) + 1 /\ Len(s) \in Nat
  OBVIOUS
<1>2. DOMAIN s = 1..Len(s) /\ DOMAIN Append(s, m) = 1..(Len(s) + 1)
  BY <1>1
<1>3. Append(s, m)[Len(s) + 1] = m /\ \A i \in 1..Len(s) : Append(s, m)[i] = s[i]
  BY <1>1
<1>4. \A x \in ToSet(Append(s, m)) : x \in ToSet(s) \cup {m}
  BY <1>1, <1>2, <1>3 DEF ToSet
<1>5. \A x \in ToSet(s) \cup {m} : x \in ToSet(Append(s, m))
  BY <1>1, <1>2, <1>3 DEF ToSet
<1> QED
  BY <1>1, <1>4, <1>5

LEMMA Taken ==
    ASSUME NEW M, NEW s \in Seq(M), s # <<>>
    PROVE  /\ Head(s) \in M /\ Tail(s) \in Seq(M)
           /\ ToSet(s) = {Head(s)} \cup ToSet(Tail(s))
           /\ Len(s) \in Nat \ {0} /\ Len(Tail(s)) = Len(s) - 1
<1>1. Len(s) \in Nat \ {0} /\ Head(s) = s[1] /\ s[1] \in M /\ Tail(s) \in Seq(M)
      /\ Len(Tail(s)) = Len(s) - 1 /\ DOMAIN s = 1..Len(s)
  OBVIOUS
<1>2. DOMAIN Tail(s) = 1..(Len(s) - 1) /\ \A i \in 1..(Len(s) - 1) : Tail(s)[i] = s[i + 1]
  BY <1>1
<1>3. ASSUME NEW i \in 1..Len(s)
      PROVE  s[i] \in {Head(s)} \cup ToSet(Tail(s))
  <2>1. CASE i = 1
    BY <1>1, <2>1
  <2>2. CASE i # 1
    <3>1. i - 1 \in 1..(Len(s) - 1) /\ Tail(s)[i - 1] = s[i]
      BY <1>1, <1>2, <2>2
    <3> QED
      BY <1>2, <3>1 DEF ToSet
  <2> QED
    BY <2>1, <2>2
<1>4. \A x \in {Head(s)} \cup ToSet(Tail(s)) : x \in ToSet(s)
  BY <1>1, <1>2 DEF ToSet
<1> QED
  BY <1>1, <1>3, <1>4 DEF ToSet

LEMMA NothingLeft == \A M : \A s \in Seq(M) : s = <<>> <=> Len(s) = 0
OBVIOUS

\* Each message is of one kind.
LEMMA KindsOfLoop ==
    \A m \in LoopMessages :
        \/ m.kind = "pile" /\ m \in Piles
        \/ m.kind = "head" /\ m \notin Piles
        \/ m.kind = "changed" /\ m \in ChangedMessages /\ m \notin Piles
BY DEF LoopMessages, ChangedMessages, Piles

LEMMA KindsOfTasks ==
    \A m \in TaskMessages :
        \/ m.kind = "pile" /\ m \in Piles
        \/ m.kind = "accepted" /\ m \in AcceptedMessages /\ m \notin Piles
        \/ m.kind = "roots" /\ m \in RootsMessages /\ m \notin Piles
        \/ m.kind = "refreshed" /\ m \notin Piles
BY DEF TaskMessages, RootsMessages, AcceptedMessages, Piles

LEMMA TasksStep ==
    ASSUME Typed, [Next]_vars
    PROVE  TasksOK'
<1>1. /\ TasksOK /\ EngineOK /\ dir \subseteq Root /\ open \subseteq Root /\ now \in [Root -> Pile]
      /\ view \subseteq Root /\ epoch \in 0..MaxMoves
  BY BoundsAssumption DEF Typed, WorldOK, EngineOK, ShownOK
<1>2. ASSUME NEW t \in Task, NEW what \in {"sync", "refresh", "accept"}, NEW S \in SUBSET Root,
             Start(t, what, S), UNCHANGED locals
      PROVE  TasksOK'
  <2>1. Asks(what, S) \in Asking
    BY DEF Asks, Asking
  <2> QED
    BY <1>1, <1>2, <2>1 DEF Start, TasksOK
<1>3. ASSUME NEW t \in Task, NEW s \in Seq(TaskMessages), s # <<>>, Answers(t, s), UNCHANGED locals
      PROVE  TasksOK'
  <2>1. Sends(s) \in Sending
    BY <1>3 DEF Sends, Sending
  <2> QED
    BY <1>1, <1>3, <2>1 DEF Answers, TasksOK
<1>4. ASSUME NEW S \in SUBSET Root, NEW found \in [Root -> Pile], Scanned(PilesOf(S, found))
      PROVE  LET ps == PilesOf(S, found)
             IN  /\ ps \in Seq(TaskMessages)
                 /\ [kind |-> "accepted", piles |-> {ps[i] : i \in DOMAIN ps}] \in TaskMessages
  BY <1>1, <1>4, PilesAreMessages DEF Scanned
<1>5. ASSUME NEW t \in Task, ReadRoots(t)
      PROVE  TasksOK'
  <2> DEFINE m == [kind |-> "roots", roots |-> open, epoch |-> epoch]
  <2>1. m \in TaskMessages
    BY <1>1 DEF TaskMessages, RootsMessages
  <2>2. Answers(t, <<m>>) /\ UNCHANGED locals
    BY <1>5 DEF ReadRoots
  <2> HIDE DEF m
  <2>3. <<m>> \in Seq(TaskMessages) /\ <<m>> # <<>>
    BY <2>1
  <2> QED
    BY <1>3, <2>2, <2>3
<1>6. ASSUME NEW t \in Task, RefreshAll(t)
      PROVE  TasksOK'
  <2> DEFINE ps == PilesOf((open \cup open') \cap dir, now)
             m == [kind |-> "refreshed"]
  <2>1. (open \cup open') \cap dir \in SUBSET Root
    BY <1>1
  <2>2. ps \in Seq(TaskMessages)
    BY <1>1, <1>4, <1>6, <2>1 DEF RefreshAll
  <2>3. m \in TaskMessages
    BY DEF TaskMessages
  <2>4. Answers(t, Append(ps, m)) /\ UNCHANGED locals
    BY <1>6 DEF RefreshAll
  <2> HIDE DEF ps, m
  <2>5. Append(ps, m) \in Seq(TaskMessages) /\ Len(Append(ps, m)) = Len(ps) + 1 /\ Len(ps) \in Nat
    BY <2>2, <2>3
  <2>6. Append(ps, m) # <<>>
    BY <2>5
  <2> QED
    BY <1>3, <2>4, <2>5, <2>6
<1>7. ASSUME NEW t \in Task, AcceptRows(t)
      PROVE  TasksOK'
  <2> DEFINE S == task[t].roots \cap open \cap dir
             ps == PilesOf(S, now')
             m == [kind |-> "accepted", piles |-> {ps[i] : i \in DOMAIN ps}]
  <2>1. S \in SUBSET Root /\ now' \in [Root -> Pile]
    BY <1>1, <1>7, NamesAssumption DEF AcceptRows
  <2>2. Scanned(ps) /\ Answers(t, <<m>>) /\ UNCHANGED locals
    BY <1>7 DEF AcceptRows
  <2>3. m \in TaskMessages
    BY <1>4, <2>1, <2>2
  <2> HIDE DEF m
  <2>4. <<m>> \in Seq(TaskMessages) /\ <<m>> # <<>>
    BY <2>3
  <2> QED
    BY <1>3, <2>2, <2>4
<1>8. ASSUME NEW t \in Task, SendLocal(t)
      PROVE  TasksOK'
  <2>1. task[t] \in Sending
    BY <1>1, <1>8 DEF SendLocal, Asked, TasksOK, Asking
  <2> DEFINE s == task[t].msgs
  <2>2. s \in Seq(TaskMessages) /\ s # <<>>
    BY <2>1 DEF Sending
  <2>3. locals' = Append(locals, Head(s)) /\ task' = [task EXCEPT ![t] = IF Len(s) = 1 THEN Idle ELSE Sends(Tail(s))]
    BY <1>8 DEF SendLocal
  <2> HIDE DEF s
  <2>4. Head(s) \in TaskMessages /\ Tail(s) \in Seq(TaskMessages) /\ Len(s) \in Nat \ {0} /\ Len(Tail(s)) = Len(s) - 1
    BY <2>2, Taken
  <2>5. ASSUME Len(s) # 1
        PROVE  Sends(Tail(s)) \in Sending
    <3>1. Tail(s) # <<>>
      BY <2>4, <2>5
    <3> QED
      BY <2>4, <3>1 DEF Sends, Sending
  <2> QED
    BY <1>1, <2>3, <2>4, <2>5 DEF TasksOK
<1>9. CASE FromWatcher
  <2>1. Head(events) \in LoopMessages
    BY <1>9, Taken DEF Typed, LoopOK, FromWatcher
  <2>2. UNCHANGED <<task, locals>> \/ (Sync /\ UNCHANGED locals)
    BY <1>9, <2>1, KindsOfLoop DEF FromWatcher
  <2> QED
    BY <1>1, <1>2, <2>2 DEF Sync, TasksOK
<1>10. CASE FromTask
  BY <1>1, <1>10, Taken DEF FromTask, TasksOK
<1>11. CASE PressRefresh \/ PressAccept
  <2> DEFINE S == {r \in view : pile[r] # Empty}
  <2>1. {} \in SUBSET Root /\ S \in SUBSET Root
    BY <1>1
  <2>2. CASE PressRefresh
    <3>1. PICK t \in Task : Start(t, "refresh", {})
      BY <2>2 DEF PressRefresh
    <3> QED
      BY <1>2, <2>1, <2>2, <3>1 DEF PressRefresh
  <2>3. CASE PressAccept
    <3>1. PICK t \in Task : Start(t, "accept", S)
      BY <2>3 DEF PressAccept
    <3> HIDE DEF S
    <3> QED
      BY <1>2, <2>1, <2>3, <3>1 DEF PressAccept
  <2> QED
    BY <1>11, <2>2, <2>3
<1>12. CASE \/ Launch \/ Send \/ Pass \/ UNCHANGED vars
            \/ \E r \in Root : ScanRoot(r) \/ InspectHead(r) \/ Edit(r) \/ RemoveOrCreate(r)
  BY <1>1, <1>12 DEF Launch, Send, Pass, ScanRoot, InspectHead, Edit, RemoveOrCreate, vars, TasksOK
<1> QED
  BY <1>5, <1>6, <1>7, <1>8, <1>9, <1>10, <1>11, <1>12 DEF Next

-----------------------------------------------------------------------------
(* What is in flight.                                                      *)

Told == ToSet(outbox) \cup ToSet(events)
Holds(t) == IF Asked(t, "send") THEN ToSet(task[t].msgs) ELSE {}
Sent == ToSet(locals) \cup UNION {Holds(t) : t \in Task}

PilesIn(M) == {p \in Piles : p \in M \/ \E a \in M \cap AcceptedMessages : p \in a.piles}
InFlight == Told \cup Sent

LEMMA InFlightIs ==
    ASSUME Typed
    PROVE  Told \subseteq LoopMessages /\ Sent \subseteq TaskMessages
<1>1. ToSet(outbox) \subseteq LoopMessages /\ ToSet(events) \subseteq LoopMessages
      /\ ToSet(locals) \subseteq TaskMessages
  BY DEF Typed, LoopOK, TasksOK, ToSet
<1>2. ASSUME NEW t \in Task
      PROVE  Holds(t) \subseteq TaskMessages
  <2>1. CASE Asked(t, "send")
    <3>1. task[t] \in Sending
      BY <2>1 DEF Typed, TasksOK, Asking, Asked
    <3> QED
      BY <3>1 DEF Sending, Holds, ToSet
  <2>2. CASE ~Asked(t, "send")
    BY <2>2 DEF Holds
  <2> QED
    BY <2>1, <2>2
<1> QED
  BY <1>1, <1>2 DEF Told, Sent

\* A request is handed to a task that held nothing.
LEMMA StartKeeps ==
    ASSUME Typed, NEW t \in Task, NEW what \in {"sync", "refresh", "accept"},
           NEW S \in SUBSET Root, Start(t, what, S), UNCHANGED locals
    PROVE  Sent' = Sent
<1>1. task \in [Task -> {Idle} \cup Asking \cup Sending]
  BY DEF Typed, TasksOK
<1>2. task[t] = Idle /\ task' = [task EXCEPT ![t] = Asks(what, S)]
  BY DEF Start
<1>3. ~Asked(t, "send") /\ ~Asked(t, "send")'
  BY <1>1, <1>2 DEF Asked, Asks
<1>4. \A u \in Task : Holds(u)' = Holds(u)
  BY <1>1, <1>2, <1>3 DEF Holds, Asked
<1> QED
  BY <1>4 DEF Sent

\* What a task answers is added.
LEMMA AnswersAdd ==
    ASSUME Typed, NEW t \in Task, NEW what \in {"sync", "refresh", "accept"}, Asked(t, what),
           NEW s \in Seq(TaskMessages), s # <<>>, Answers(t, s), UNCHANGED locals
    PROVE  Sent' = Sent \cup ToSet(s)
<1>1. task \in [Task -> {Idle} \cup Asking \cup Sending]
  BY DEF Typed, TasksOK
<1>2. task' = [task EXCEPT ![t] = Sends(s)]
  BY DEF Answers
<1>3. Holds(t) = {}
  BY DEF Asked, Holds
<1>4. Sends(s) \in Sending
  BY DEF Sends, Sending
<1>5. task'[t] = Sends(s) /\ Sends(s) # Idle
  BY <1>1, <1>2, <1>4, IdleIsNothing
<1>6. Sends(s).what = "send" /\ Sends(s).msgs = s
  BY DEF Sends
<1>7. Holds(t)' = ToSet(s)
  BY <1>5, <1>6 DEF Holds, Asked
<1>8. \A u \in Task \ {t} : Holds(u)' = Holds(u)
  BY <1>1, <1>2 DEF Holds, Asked
<1> DEFINE others == UNION {Holds(u) : u \in Task \ {t}}
<1>9. UNION {Holds(u) : u \in Task} = others \cup Holds(t)
  OBVIOUS
<1>10. UNION {Holds(u)' : u \in Task} = others \cup Holds(t)'
  BY <1>8
<1> HIDE DEF others
<1> QED
  BY <1>3, <1>7, <1>9, <1>10 DEF Sent

\* A task that sends a message still has the others.
LEMMA SendLocalKeeps ==
    ASSUME Typed, NEW t \in Task, SendLocal(t)
    PROVE  Sent' = Sent
<1>1. task \in [Task -> {Idle} \cup Asking \cup Sending] /\ locals \in Seq(TaskMessages)
  BY DEF Typed, TasksOK
<1> DEFINE s == task[t].msgs
           rest == IF Len(s) = 1 THEN Idle ELSE Sends(Tail(s))
<1>2. task[t] \in Sending
  BY <1>1 DEF SendLocal, Asked, Asking
<1>3. s \in Seq(TaskMessages) /\ s # <<>>
  BY <1>2 DEF Sending
<1>4. Holds(t) = ToSet(s)
  BY DEF Holds, SendLocal
<1>5. locals' = Append(locals, Head(s)) /\ task' = [task EXCEPT ![t] = rest]
  BY DEF SendLocal
<1>6. /\ Head(s) \in TaskMessages /\ Tail(s) \in Seq(TaskMessages)
      /\ ToSet(s) = {Head(s)} \cup ToSet(Tail(s))
      /\ Len(s) \in Nat \ {0} /\ Len(Tail(s)) = Len(s) - 1
  BY <1>3, Taken
<1> DEFINE r == Tail(s)
<1> HIDE DEF s, r
<1>12. r = <<>> <=> Len(r) = 0
  BY <1>6, NothingLeft DEF r
<1>7. ToSet(locals') = ToSet(locals) \cup {Head(s)}
  BY <1>1, <1>5, <1>6, Appended
<1>8. Holds(t)' = ToSet(Tail(s))
  <2>1. CASE Len(s) = 1
    <3>1. Tail(s) = <<>>
      BY <1>6, <1>12, <2>1 DEF r
    <3>2. task'[t] = Idle
      BY <1>1, <1>5, <2>1
    <3> QED
      BY <3>1, <3>2 DEF Holds, Asked, ToSet
  <2>2. CASE Len(s) # 1
    <3>1. Tail(s) # <<>>
      BY <1>6, <1>12, <2>2 DEF r
    <3>2. Sends(Tail(s)) \in Sending /\ Sends(Tail(s)).what = "send" /\ Sends(Tail(s)).msgs = Tail(s)
      BY <1>6, <3>1 DEF Sends, Sending
    <3>3. task'[t] = Sends(Tail(s)) /\ task'[t] # Idle
      BY <1>1, <1>5, <2>2, <3>2, IdleIsNothing
    <3> QED
      BY <3>2, <3>3 DEF Holds, Asked
  <2> QED
    BY <2>1, <2>2
<1>9. \A u \in Task \ {t} : Holds(u)' = Holds(u)
  BY <1>1, <1>5 DEF Holds, Asked
<1> DEFINE others == UNION {Holds(u) : u \in Task \ {t}}
<1>10. UNION {Holds(u) : u \in Task} = others \cup Holds(t)
  OBVIOUS
<1>11. UNION {Holds(u)' : u \in Task} = others \cup Holds(t)'
  BY <1>9
<1> HIDE DEF others, rest
<1> QED
  BY <1>4, <1>6, <1>7, <1>8, <1>10, <1>11 DEF Sent

\* What the loop found is added, then handed over one at a time.
LEMMA SendKeeps ==
    ASSUME Typed, Send
    PROVE  Told' = Told
<1>1. outbox \in Seq(LoopMessages) /\ outbox # <<>> /\ events \in Seq(LoopMessages)
  BY DEF Typed, LoopOK, Send
<1>2. events' = Append(events, Head(outbox)) /\ outbox' = Tail(outbox)
  BY DEF Send
<1>3. Head(outbox) \in LoopMessages /\ ToSet(outbox) = {Head(outbox)} \cup ToSet(Tail(outbox))
  BY <1>1, Taken
<1>4. ToSet(events') = ToSet(events) \cup {Head(outbox)}
  BY <1>1, <1>2, <1>3, Appended
<1> QED
  BY <1>2, <1>3, <1>4 DEF Told

LEMMA FindsAdd ==
    ASSUME outbox = <<>>, UNCHANGED events
    PROVE  Told' = Told \cup ToSet(outbox')
BY DEF Told, ToSet

\* Messages of no piles.
LEMMA PilesInIs ==
    /\ \A M, N : PilesIn(M \cup N) = PilesIn(M) \cup PilesIn(N)
    /\ PilesIn({}) = {}
    /\ \A m : m \notin Piles \cup AcceptedMessages => PilesIn({m}) = {}
    /\ \A m \in Piles : PilesIn({m}) = {m}
    /\ \A m \in AcceptedMessages : PilesIn({m}) = m.piles
    /\ \A M \in SUBSET Piles : PilesIn(M) = M
<1>1. \A m \in Piles : m \notin AcceptedMessages
  BY DEF Piles, AcceptedMessages
<1>2. \A m \in AcceptedMessages : m \notin Piles /\ m.piles \subseteq Piles
  BY DEF Piles, AcceptedMessages
<1>3. \A M, N : PilesIn(M \cup N) = PilesIn(M) \cup PilesIn(N)
  BY DEF PilesIn
<1>4. \A m : m \notin Piles \cup AcceptedMessages => PilesIn({m}) = {}
  BY DEF PilesIn
<1>5. \A m \in Piles : PilesIn({m}) = {m}
  BY <1>1 DEF PilesIn
<1>6. \A m \in AcceptedMessages : PilesIn({m}) = m.piles
  BY <1>2 DEF PilesIn
<1>7. \A M \in SUBSET Piles : PilesIn(M) = M
  BY <1>1 DEF PilesIn
<1>8. PilesIn({}) = {}
  BY DEF PilesIn
<1> QED
  BY <1>3, <1>4, <1>5, <1>6, <1>7, <1>8

LEMMA NoPiles ==
    ASSUME NEW M, NEW m, m \notin Piles \cup AcceptedMessages
    PROVE  PilesIn(M \cup {m}) = PilesIn(M) /\ PilesIn({m} \cup M) = PilesIn(M)
BY DEF PilesIn

-----------------------------------------------------------------------------
(* Every step scans, or lets the screen hear something, or is neither.     *)

Scanning ==
    \/ Launch
    \/ \E r \in Root : ScanRoot(r) \/ InspectHead(r)
    \/ \E t \in Task : RefreshAll(t) \/ AcceptRows(t)

Other ==
    \/ Send \/ Pass \/ PressRefresh \/ PressAccept \/ UNCHANGED vars
    \/ \E t \in Task : ReadRoots(t) \/ SendLocal(t)
    \/ \E r \in Root : Edit(r) \/ RemoveOrCreate(r)

LEMMA StepsAre ==
    ASSUME [Next]_vars
    PROVE  Scanning \/ Other \/ FromWatcher \/ FromTask
BY DEF Next, Scanning, Other

\* What a scan finds is in flight after it.
LEMMA ScanningIs ==
    ASSUME Typed, Scanning
    PROVE  \E S \in SUBSET Root, found \in [Root -> Pile] :
               /\ Scanned(PilesOf(S, found))
               /\ PilesIn(InFlight') = PilesIn(InFlight) \cup ToSet(PilesOf(S, found))
               /\ UNCHANGED heard
<1> USE DEF screen
<1>1. /\ TasksOK /\ EngineOK /\ LoopOK /\ dir \subseteq Root /\ open \subseteq Root
      /\ now \in [Root -> Pile]
  BY DEF Typed, WorldOK, EngineOK
<1>2. ASSUME NEW S \in SUBSET Root, NEW found \in [Root -> Pile], Scanned(PilesOf(S, found))
      PROVE  LET ps == PilesOf(S, found)
             IN  /\ ps \in Seq(Piles) /\ ps \in Seq(LoopMessages) /\ ps \in Seq(TaskMessages)
                 /\ [kind |-> "accepted", piles |-> {ps[i] : i \in DOMAIN ps}] \in TaskMessages
                 /\ PilesIn(ToSet(ps)) = ToSet(ps)
  <2> DEFINE ps == PilesOf(S, found)
  <2>1. /\ ps \in Seq(Piles) /\ ps \in Seq(LoopMessages) /\ ps \in Seq(TaskMessages)
        /\ [kind |-> "accepted", piles |-> {ps[i] : i \in DOMAIN ps}] \in TaskMessages
    BY <1>1, <1>2, PilesAreMessages DEF Scanned
  <2> HIDE DEF ps
  <2>2. ToSet(ps) \in SUBSET Piles
    BY <2>1 DEF ToSet
  <2> QED
    BY <2>1, <2>2, PilesInIs DEF ps
<1>3. ASSUME NEW S \in SUBSET Root, NEW found \in [Root -> Pile], Scanned(PilesOf(S, found)),
             UNCHANGED heard, NEW M, InFlight' = InFlight \cup M,
             PilesIn(M) = ToSet(PilesOf(S, found))
      PROVE  \E S_1 \in SUBSET Root, found_1 \in [Root -> Pile] :
               /\ Scanned(PilesOf(S_1, found_1))
               /\ PilesIn(InFlight') = PilesIn(InFlight) \cup ToSet(PilesOf(S_1, found_1))
               /\ UNCHANGED heard
  <2>1. PilesIn(InFlight') = PilesIn(InFlight) \cup ToSet(PilesOf(S, found))
    BY <1>3, PilesInIs
  <2> QED
    BY <1>3, <2>1
<1>4. CASE Launch
  <2> DEFINE c == [kind |-> "changed", changed |-> Difference]
  <2>1. c \in LoopMessages /\ c \notin Piles \cup AcceptedMessages
    BY DiscoveryTyped DEF LoopMessages, ChangedMessages, Piles, AcceptedMessages
  <2>2. PICK S \in SUBSET Root : Scanned(PilesOf(S, now)) /\ outbox' \in {PilesOf(S, now), Append(PilesOf(S, now), c)}
    BY <1>1, <1>4 DEF Launch
  <2> DEFINE ps == PilesOf(S, now)
  <2>3. ps \in Seq(LoopMessages) /\ PilesIn(ToSet(ps)) = ToSet(ps)
    BY <1>1, <1>2, <2>2
  <2>4. UNCHANGED heard /\ UNCHANGED <<events, locals, task>> /\ outbox = <<>>
    BY <1>1, <1>4 DEF Launch, LoopOK
  <2>5. InFlight' = InFlight \cup ToSet(outbox')
    BY <2>4, FindsAdd DEF InFlight, Sent, Holds, Asked
  <2>6. outbox' = ps \/ outbox' = Append(ps, c)
    BY <2>2
  <2> HIDE DEF ps, c
  <2>7. ToSet(Append(ps, c)) = ToSet(ps) \cup {c}
    BY <2>1, <2>3, Appended
  <2>8. ToSet(outbox') \in {ToSet(ps), ToSet(ps) \cup {c}}
    BY <2>6, <2>7
  <2>9. PilesIn(ToSet(outbox')) = ToSet(ps)
    BY <2>1, <2>3, <2>8, NoPiles
  <2> QED
    BY <1>1, <1>3, <2>2, <2>4, <2>5, <2>9 DEF ps
<1>5. ASSUME NEW r \in Root, ScanRoot(r)
      PROVE  \E S \in SUBSET Root, found \in [Root -> Pile] :
               /\ Scanned(PilesOf(S, found))
               /\ PilesIn(InFlight') = PilesIn(InFlight) \cup ToSet(PilesOf(S, found))
               /\ UNCHANGED heard
  <2> DEFINE S == {r} \cap open \cap dir
  <2>1. S \in SUBSET Root /\ Scanned(PilesOf(S, now)) /\ outbox' = PilesOf(S, now)
    BY <1>1, <1>5 DEF ScanRoot
  <2>2. UNCHANGED heard /\ UNCHANGED <<events, locals, task>> /\ outbox = <<>>
    BY <1>5 DEF ScanRoot, Waits
  <2>3. InFlight' = InFlight \cup ToSet(outbox')
    BY <2>2, FindsAdd DEF InFlight, Sent, Holds, Asked
  <2> HIDE DEF S
  <2> QED
    BY <1>1, <1>2, <1>3, <2>1, <2>2, <2>3
<1>6. ASSUME NEW r \in Root, InspectHead(r)
      PROVE  \E S \in SUBSET Root, found \in [Root -> Pile] :
               /\ Scanned(PilesOf(S, found))
               /\ PilesIn(InFlight') = PilesIn(InFlight) \cup ToSet(PilesOf(S, found))
               /\ UNCHANGED heard
  <2> DEFINE h == [kind |-> "head"]
             S == {r}
             ps == PilesOf(S, now)
  <2>1. S \in SUBSET Root /\ Scanned(ps) /\ outbox' = <<h>> \o ps
    BY <1>6 DEF InspectHead
  <2>2. UNCHANGED heard /\ UNCHANGED <<events, locals, task>> /\ outbox = <<>>
    BY <1>6 DEF InspectHead, Waits
  <2>3. InFlight' = InFlight \cup ToSet(outbox')
    BY <2>2, FindsAdd DEF InFlight, Sent, Holds, Asked
  <2>4. ps \in Seq(LoopMessages) /\ PilesIn(ToSet(ps)) = ToSet(ps)
    BY <1>1, <1>2, <2>1
  <2>5. h \in LoopMessages /\ h \notin Piles \cup AcceptedMessages
    BY DEF LoopMessages, Piles, AcceptedMessages
  <2> HIDE DEF ps, h, S
  <2>6. outbox' \in Seq(LoopMessages) /\ outbox' # <<>> /\ Head(outbox') = h /\ Tail(outbox') = ps
    BY <2>1, <2>4, <2>5
  <2>7. ToSet(outbox') = {h} \cup ToSet(ps)
    BY <2>6, Taken
  <2>8. PilesIn(ToSet(outbox')) = ToSet(ps)
    BY <2>4, <2>5, <2>7, NoPiles
  <2> QED
    BY <1>1, <1>3, <2>1, <2>2, <2>3, <2>8 DEF ps
<1>7. ASSUME NEW t \in Task, RefreshAll(t)
      PROVE  \E S \in SUBSET Root, found \in [Root -> Pile] :
               /\ Scanned(PilesOf(S, found))
               /\ PilesIn(InFlight') = PilesIn(InFlight) \cup ToSet(PilesOf(S, found))
               /\ UNCHANGED heard
  <2> DEFINE m == [kind |-> "refreshed"]
             S == (open \cup open') \cap dir
             ps == PilesOf(S, now)
  <2>1. S \in SUBSET Root /\ Scanned(ps) /\ Asked(t, "refresh") /\ Answers(t, Append(ps, m))
    BY <1>1, <1>7 DEF RefreshAll
  <2>2. UNCHANGED heard /\ UNCHANGED <<outbox, events, locals>>
    BY <1>7 DEF RefreshAll, loop
  <2>3. ps \in Seq(TaskMessages) /\ PilesIn(ToSet(ps)) = ToSet(ps)
    BY <1>1, <1>2, <2>1
  <2>4. m \in TaskMessages /\ m \notin Piles \cup AcceptedMessages
    BY DEF TaskMessages, Piles, AcceptedMessages
  <2> HIDE DEF ps, m, S
  <2>5. Append(ps, m) \in Seq(TaskMessages) /\ ToSet(Append(ps, m)) = ToSet(ps) \cup {m}
    BY <2>3, <2>4, Appended
  <2>6. Len(Append(ps, m)) = Len(ps) + 1 /\ Len(ps) \in Nat
    BY <2>3, <2>4
  <2>7. Append(ps, m) # <<>>
    BY <2>6
  <2>8. Sent' = Sent \cup ToSet(Append(ps, m))
    BY <2>1, <2>2, <2>5, <2>7, AnswersAdd
  <2>9. InFlight' = InFlight \cup ToSet(Append(ps, m))
    BY <2>2, <2>8 DEF InFlight, Told
  <2>10. PilesIn(ToSet(Append(ps, m))) = ToSet(ps)
    BY <2>3, <2>4, <2>5, NoPiles
  <2> QED
    BY <1>1, <1>3, <2>1, <2>2, <2>9, <2>10 DEF ps
<1>8. ASSUME NEW t \in Task, AcceptRows(t)
      PROVE  \E S \in SUBSET Root, found \in [Root -> Pile] :
               /\ Scanned(PilesOf(S, found))
               /\ PilesIn(InFlight') = PilesIn(InFlight) \cup ToSet(PilesOf(S, found))
               /\ UNCHANGED heard
  <2> DEFINE S == task[t].roots \cap open \cap dir
             ps == PilesOf(S, now')
             m == [kind |-> "accepted", piles |-> {ps[i] : i \in DOMAIN ps}]
  <2>1. S \in SUBSET Root /\ now' \in [Root -> Pile]
    BY <1>1, <1>8, NamesAssumption DEF AcceptRows
  <2>2. Scanned(ps) /\ Asked(t, "accept") /\ Answers(t, <<m>>)
    BY <1>8 DEF AcceptRows
  <2>3. UNCHANGED heard /\ UNCHANGED <<outbox, events, locals>>
    BY <1>8 DEF AcceptRows, loop
  <2>4. m \in TaskMessages /\ m.piles = ToSet(ps)
    BY <1>2, <2>1, <2>2 DEF ToSet
  <2>5. m \in AcceptedMessages
    BY <2>4, KindsOfTasks
  <2> HIDE DEF ps, m, S
  <2>6. <<m>> \in Seq(TaskMessages) /\ <<m>> # <<>> /\ ToSet(<<m>>) = {m}
    BY <2>4 DEF ToSet
  <2>7. Sent' = Sent \cup {m}
    BY <2>2, <2>3, <2>6, AnswersAdd
  <2>8. InFlight' = InFlight \cup {m}
    BY <2>3, <2>7 DEF InFlight, Told
  <2>9. PilesIn({m}) = ToSet(ps)
    BY <2>4, <2>5, PilesInIs
  <2> QED
    BY <1>3, <2>1, <2>2, <2>3, <2>8, <2>9 DEF ps
<1> QED
  BY <1>4, <1>5, <1>6, <1>7, <1>8 DEF Scanning

\* Neither a scan nor a message.
LEMMA OtherIs ==
    ASSUME Typed, Other
    PROVE  /\ InFlight' = InFlight \/ PilesIn(InFlight') = PilesIn(InFlight)
           /\ UNCHANGED <<seq, heard>>
           /\ \A r \in Root : last'[r] \in {last[r], None}
           /\ last' \in [Root -> Scans \cup {None}]
<1> USE DEF screen, engine
<1>1. /\ TasksOK /\ EngineOK /\ LoopOK /\ dir \subseteq Root /\ open \subseteq Root
      /\ view \subseteq Root /\ epoch \in 0..MaxMoves /\ last \in [Root -> Scans \cup {None}]
  BY BoundsAssumption DEF Typed, WorldOK, EngineOK, ShownOK
<1> DEFINE Same == UNCHANGED <<seq, last, heard>>
<1>2. ASSUME Same, Told' = Told, Sent' = Sent
      PROVE  Same /\ InFlight' = InFlight
  BY <1>2 DEF InFlight
<1>3. CASE UNCHANGED vars
  BY <1>1, <1>3 DEF vars, loop, Told, Sent, Holds, Asked, InFlight
<1>4. CASE Send
  <2>1. Told' = Told
    BY <1>4, SendKeeps
  <2> QED
    BY <1>1, <1>4, <2>1 DEF Send, Sent, Holds, Asked, InFlight
<1>5. CASE Pass
  <2> DEFINE c == [kind |-> "changed", changed |-> Merge(Difference)]
  <2>1. c \in LoopMessages /\ c \notin Piles \cup AcceptedMessages
    BY DiscoveryTyped DEF LoopMessages, ChangedMessages, Piles, AcceptedMessages
  <2>2. outbox = <<>> /\ outbox' = <<c>> /\ UNCHANGED <<events, locals, task, seq, heard>>
    BY <1>5 DEF Pass, Waits
  <2> HIDE DEF c
  <2>3. ToSet(outbox') = {c}
    BY <2>2 DEF ToSet
  <2>4. Told' = Told \cup {c} /\ Sent' = Sent
    BY <2>2, <2>3, FindsAdd DEF Sent, Holds, Asked
  <2>5. InFlight' = InFlight \cup {c}
    BY <2>4 DEF InFlight
  <2>6. PilesIn(InFlight') = PilesIn(InFlight)
    BY <2>1, <2>5, NoPiles
  <2>7. last' = [r \in Root |-> IF r \in dir \cap open THEN last[r] ELSE None]
    BY <1>5 DEF Pass
  <2> QED
    BY <1>1, <2>2, <2>6, <2>7
<1>6. CASE PressRefresh
  <2>1. PICK t \in Task : Start(t, "refresh", {})
    BY <1>6 DEF PressRefresh
  <2>2. Sent' = Sent
    BY <1>6, <2>1, StartKeeps DEF PressRefresh
  <2> QED
    BY <1>1, <1>6, <2>2 DEF PressRefresh, Told, InFlight, loop
<1>7. CASE PressAccept
  <2> DEFINE S == {r \in view : pile[r] # Empty}
  <2>1. PICK t \in Task : Start(t, "accept", S)
    BY <1>7 DEF PressAccept
  <2>2. S \in SUBSET Root
    BY <1>1
  <2> HIDE DEF S
  <2>3. Sent' = Sent
    BY <1>7, <2>1, <2>2, StartKeeps DEF PressAccept
  <2> QED
    BY <1>1, <1>7, <2>3 DEF PressAccept, Told, InFlight, loop
<1>8. ASSUME NEW t \in Task, ReadRoots(t)
      PROVE  PilesIn(InFlight') = PilesIn(InFlight) /\ Same
  <2> DEFINE m == [kind |-> "roots", roots |-> open, epoch |-> epoch]
  <2>1. m \in TaskMessages /\ m \notin Piles \cup AcceptedMessages
    BY <1>1 DEF TaskMessages, RootsMessages, Piles, AcceptedMessages
  <2>2. Asked(t, "sync") /\ Answers(t, <<m>>) /\ UNCHANGED <<locals, outbox, events>> /\ Same
    BY <1>8 DEF ReadRoots, loop
  <2> HIDE DEF m
  <2>3. <<m>> \in Seq(TaskMessages) /\ <<m>> # <<>> /\ ToSet(<<m>>) = {m}
    BY <2>1 DEF ToSet
  <2>4. Sent' = Sent \cup {m}
    BY <2>2, <2>3, AnswersAdd
  <2>5. InFlight' = InFlight \cup {m}
    BY <2>2, <2>4 DEF InFlight, Told
  <2> QED
    BY <2>1, <2>2, <2>5, NoPiles
<1>9. ASSUME NEW t \in Task, SendLocal(t)
      PROVE  InFlight' = InFlight /\ Same
  <2>1. Sent' = Sent
    BY <1>9, SendLocalKeeps
  <2> QED
    BY <1>9, <2>1 DEF SendLocal, Told, InFlight, loop
<1>10. ASSUME NEW r \in Root, Edit(r) \/ RemoveOrCreate(r)
       PROVE  InFlight' = InFlight /\ Same
  BY <1>10 DEF Edit, RemoveOrCreate, InFlight, Told, Sent, Holds, Asked, loop
<1> QED
  BY <1>1, <1>3, <1>4, <1>5, <1>6, <1>7, <1>8, <1>9, <1>10 DEF Other

\* The screen takes one message, and what it holds of piles.
Hears(ms, S) ==
    /\ OneEach(ms)
    /\ \/ ApplyPiles(ms)
       \/ ms = {} /\ (ApplyRoots(S) \/ ApplyRemoved(S) \/ UNCHANGED heard)

LEMMA HearingIs ==
    ASSUME Typed, FromWatcher \/ FromTask
    PROVE  /\ \E ms \in SUBSET Piles, S \in SUBSET Root :
                  Hears(ms, S) /\ PilesIn(InFlight) = PilesIn(InFlight') \cup ms
           /\ UNCHANGED <<seq, last>>
<1> USE DEF engine
<1>1. CASE FromWatcher
  <2> DEFINE m == Head(events)
  <2>1. m \in LoopMessages /\ Tail(events) \in Seq(LoopMessages) /\ ToSet(events) = {m} \cup ToSet(Tail(events))
    BY <1>1, Taken DEF Typed, LoopOK, FromWatcher
  <2>2. events' = Tail(events) /\ UNCHANGED <<outbox, locals, seq, last>>
    BY <1>1 DEF FromWatcher, loop
  <2>3. \/ m \in Piles /\ ApplyPiles({m}) /\ UNCHANGED task
        \/ m \notin Piles /\ Sync /\ UNCHANGED heard
        \/ m \in ChangedMessages /\ m \notin Piles /\ ApplyRemoved(m.changed.removed) /\ Sync
    BY <1>1, <2>1, KindsOfLoop DEF FromWatcher
  <2> HIDE DEF m
  <2>4. Sent' = Sent
    <3>1. CASE UNCHANGED task
      BY <2>2, <3>1 DEF Sent, Holds, Asked
    <3>2. CASE Sync
      BY <2>2, <3>2, StartKeeps DEF Sync
    <3> QED
      BY <2>3, <3>1, <3>2
  <2>5. InFlight = InFlight' \cup {m}
    BY <2>1, <2>2, <2>4 DEF InFlight, Told
  <2>6. CASE m \in Piles
    <3>1. {m} \in SUBSET Piles /\ OneEach({m}) /\ PilesIn({m}) = {m}
      BY <2>6, PilesInIs DEF OneEach
    <3>2. PilesIn(InFlight) = PilesIn(InFlight') \cup {m}
      BY <2>5, <3>1, PilesInIs
    <3>3. Hears({m}, {})
      BY <2>3, <2>6, <3>1 DEF Hears, ChangedMessages, Piles
    <3> QED
      BY <2>2, <3>1, <3>2, <3>3
  <2>7. CASE m \notin Piles
    <3>1. m \notin AcceptedMessages
      BY <2>1, <2>7 DEF LoopMessages, ChangedMessages, AcceptedMessages
    <3>2. PilesIn(InFlight) = PilesIn(InFlight') \cup {}
      BY <2>5, <2>7, <3>1, NoPiles
    <3>3. OneEach({}) /\ {} \in SUBSET Piles
      BY DEF OneEach
    <3>4. \E S \in SUBSET Root : ApplyRemoved(S) \/ UNCHANGED heard
      BY <2>3, <2>7 DEF ChangedMessages, Changes
    <3> QED
      BY <2>2, <3>2, <3>3, <3>4 DEF Hears
  <2> QED
    BY <2>6, <2>7
<1>2. CASE FromTask
  <2> DEFINE m == Head(locals)
  <2>1. m \in TaskMessages /\ Tail(locals) \in Seq(TaskMessages) /\ ToSet(locals) = {m} \cup ToSet(Tail(locals))
    BY <1>2, Taken DEF Typed, TasksOK, FromTask
  <2>2. locals' = Tail(locals) /\ UNCHANGED <<outbox, events, task, seq, last>>
    BY <1>2 DEF FromTask, loop
  <2>3. \/ m \in Piles /\ ApplyPiles({m})
        \/ m \in AcceptedMessages /\ m \notin Piles /\ ApplyPiles(m.piles)
        \/ m \in RootsMessages /\ m \notin Piles /\ ApplyRoots(m.roots)
        \/ m \notin Piles /\ m \notin AcceptedMessages /\ UNCHANGED heard
    BY <1>2, <2>1, KindsOfTasks DEF FromTask, AcceptedMessages
  <2> HIDE DEF m
  <2>4. InFlight = InFlight' \cup {m}
    BY <2>1, <2>2 DEF InFlight, Told, Sent, Holds, Asked
  <2>5. PilesIn(InFlight) = PilesIn(InFlight') \cup PilesIn({m})
    BY <2>4, PilesInIs
  <2>6. CASE m \in Piles
    <3>1. {m} \in SUBSET Piles /\ OneEach({m}) /\ PilesIn({m}) = {m}
      BY <2>6, PilesInIs DEF OneEach
    <3>2. Hears({m}, {})
      BY <2>3, <2>6, <3>1 DEF Hears, AcceptedMessages, Piles
    <3> QED
      BY <2>2, <2>5, <3>1, <3>2
  <2>7. CASE m \in AcceptedMessages
    <3>1. m.piles \in SUBSET Piles /\ OneEach(m.piles) /\ PilesIn({m}) = m.piles
      BY <2>7, PilesInIs DEF AcceptedMessages
    <3>2. Hears(m.piles, {})
      BY <2>3, <2>7, <3>1 DEF Hears, AcceptedMessages, Piles, RootsMessages
    <3> QED
      BY <2>2, <2>5, <3>1, <3>2
  <2>8. CASE m \notin Piles \cup AcceptedMessages
    <3>1. PilesIn({m}) = {}
      BY <2>8, PilesInIs
    <3>2. OneEach({}) /\ {} \in SUBSET Piles
      BY DEF OneEach
    <3>3. \E S \in SUBSET Root : ApplyRoots(S) \/ UNCHANGED heard
      BY <2>3, <2>8 DEF RootsMessages
    <3> QED
      BY <2>2, <2>5, <3>1, <3>2, <3>3 DEF Hears
  <2> QED
    BY <2>6, <2>7, <2>8
<1> QED
  BY <1>1, <1>2

-----------------------------------------------------------------------------
(* What the screen holds keeps its types.                                  *)

LEMMA HearsTyped ==
    ASSUME Typed, NEW ms \in SUBSET Piles, NEW S \in SUBSET Root, Hears(ms, S)
    PROVE  ShownOK'
<1>1. ShownOK
  BY DEF Typed
<1>2. CASE ApplyPiles(ms)
  <2> DEFINE For(r) == {m \in ms : m.root = r /\ NotOlder(m)}
             New(r) == CHOOSE m \in For(r) : TRUE
  <2>1. ASSUME NEW r \in Root, For(r) # {}
        PROVE  New(r).seq \in 1..MaxScans /\ New(r).pile \in Pile
    <3>1. New(r) \in For(r)
      BY <2>1
    <3> QED
      BY <3>1 DEF Piles
  <2>2. /\ held' = [r \in Root |-> IF For(r) = {} THEN held[r] ELSE New(r).seq]
        /\ pile' = [r \in Root |-> IF For(r) = {} \/ r \notin view THEN pile[r] ELSE New(r).pile]
        /\ early' = [r \in Root |-> IF For(r) = {} \/ r \in view THEN early[r] ELSE New(r).pile]
        /\ UNCHANGED <<view, forgotten>>
    BY <1>2 DEF ApplyPiles
  <2> HIDE DEF For, New
  <2>3. held' \in [Root -> 1..MaxScans \cup {None}]
    BY <1>1, <2>1, <2>2 DEF ShownOK
  <2>4. pile' \in [Root -> Pile]
    BY <1>1, <2>1, <2>2 DEF ShownOK
  <2>5. early' \in [Root -> Pile \cup {None}]
    BY <1>1, <2>1, <2>2 DEF ShownOK
  <2> QED
    BY <1>1, <2>2, <2>3, <2>4, <2>5 DEF ShownOK
<1>3. CASE ApplyRoots(S)
  <2>1. held' \in [Root -> 1..MaxScans \cup {None}] /\ forgotten' \subseteq Root /\ view' \subseteq Root
    BY <1>1, <1>3 DEF ApplyRoots, Forget, Dropped, ShownOK
  <2>2. Adopted(S \ view) \in [Root -> Pile]
    BY <1>1, NamesAssumption DEF Adopted, ShownOK
  <2>3. pile' \in [Root -> Pile]
    BY <1>1, <1>3, <2>2, NamesAssumption DEF ApplyRoots, Dropped, ShownOK
  <2>4. early' \in [Root -> Pile \cup {None}]
    BY <1>1, <1>3 DEF ApplyRoots, Dropped, ShownOK
  <2> QED
    BY <2>1, <2>3, <2>4 DEF ShownOK
<1>4. CASE ApplyRemoved(S)
  BY <1>1, <1>4, NamesAssumption DEF ApplyRemoved, Forget, Dropped, ShownOK
<1>5. CASE UNCHANGED heard
  BY <1>1, <1>5 DEF heard, shown, ShownOK
<1> QED
  BY <1>2, <1>3, <1>4, <1>5 DEF Hears

LEMMA ShownStep ==
    ASSUME Typed, [Next]_vars
    PROVE  ShownOK'
<1>1. ASSUME UNCHANGED heard
      PROVE  ShownOK'
  BY <1>1 DEF heard, shown, Typed, ShownOK
<1>2. CASE Scanning
  BY <1>1, <1>2, ScanningIs
<1>3. CASE Other
  BY <1>1, <1>3, OtherIs
<1>4. CASE FromWatcher \/ FromTask
  BY <1>4, HearingIs, HearsTyped
<1> QED
  BY <1>2, <1>3, <1>4, StepsAre

LEMMA TypedInit == Init => Typed
<1> SUFFICES ASSUME Init
             PROVE  Typed
  OBVIOUS
<1>1. EngineOK /\ WorldOK
  BY BoundsAssumption DEF Init, EngineOK, WorldOK, NoChange, Changes
<1>2. LoopOK
  <2>1. ran = FALSE /\ due = {} /\ outbox = <<>> /\ events = <<>>
    BY DEF Init
  <2>2. ran \in BOOLEAN /\ due \subseteq Root
    BY <2>1
  <2>3. <<>> \in Seq(LoopMessages) /\ Len(<<>>) \leq ChannelCap
    BY BoundsAssumption
  <2> QED
    BY <2>1, <2>2, <2>3 DEF LoopOK
<1>3. TasksOK /\ ShownOK
  BY NamesAssumption DEF Init, TasksOK, ShownOK
<1> QED
  BY <1>1, <1>2, <1>3 DEF Typed

LEMMA TypedStep == Typed /\ [Next]_vars => Typed'
BY EngineStep, WorldStep, LoopStep, TasksStep, ShownStep DEF Typed

-----------------------------------------------------------------------------
(* What is remembered of a root is of one scan.                            *)

LEMMA OneScanStep ==
    ASSUME Typed, NothingLeftOver, [Next]_vars
    PROVE  NothingLeftOver'
<1>1. ShownOK
  BY DEF Typed
<1>2. ASSUME UNCHANGED heard
      PROVE  NothingLeftOver'
  BY <1>2 DEF heard, shown, NothingLeftOver
<1>3. ASSUME NEW ms \in SUBSET Piles, NEW S \in SUBSET Root, Hears(ms, S)
      PROVE  NothingLeftOver'
  <2>1. CASE ApplyPiles(ms)
    <3> DEFINE For(r) == {m \in ms : m.root = r /\ NotOlder(m)}
               New(r) == CHOOSE m \in For(r) : TRUE
    <3>1. ASSUME NEW r \in Root, For(r) # {}
          PROVE  New(r).seq # None /\ New(r).pile # None
      <4>1. New(r) \in For(r)
        BY <3>1
      <4>2. New(r).seq \in Nat /\ New(r).pile \in Pile
        BY <4>1, BoundsAssumption DEF Piles
      <4> QED
        BY <4>2, NamesAssumption
    <3>2. /\ held' = [r \in Root |-> IF For(r) = {} THEN held[r] ELSE New(r).seq]
          /\ pile' = [r \in Root |-> IF For(r) = {} \/ r \notin view THEN pile[r] ELSE New(r).pile]
          /\ early' = [r \in Root |-> IF For(r) = {} \/ r \in view THEN early[r] ELSE New(r).pile]
          /\ UNCHANGED <<view, forgotten>>
      BY <2>1 DEF ApplyPiles
    <3> HIDE DEF For, New
    <3> QED
      BY <1>1, <3>1, <3>2 DEF NothingLeftOver, ShownOK
  <2>2. CASE ApplyRoots(S)
    BY <1>1, <2>2 DEF NothingLeftOver, ApplyRoots, Forget, Dropped, Adopted, ShownOK
  <2>3. CASE ApplyRemoved(S)
    BY <1>1, <2>3 DEF NothingLeftOver, ApplyRemoved, Forget, Dropped, ShownOK
  <2>4. CASE UNCHANGED heard
    BY <1>2, <2>4
  <2> QED
    BY <1>3, <2>1, <2>2, <2>3, <2>4 DEF Hears
<1>4. CASE Scanning
  BY <1>2, <1>4, ScanningIs
<1>5. CASE Other
  BY <1>2, <1>5, OtherIs
<1>6. CASE FromWatcher \/ FromTask
  BY <1>3, <1>6, HearingIs
<1> QED
  BY <1>4, <1>5, <1>6, StepsAre

\* Whatever arrives in whatever order, the number, the view's pile and the pile
\* that came early are of one scan.
THEOREM OneScanEach == Spec => []NothingLeftOver
<1>1. Init => NothingLeftOver
  BY DEF Init, NothingLeftOver
<1>2. Typed /\ NothingLeftOver /\ [Next]_vars => NothingLeftOver'
  BY OneScanStep
<1> QED
  BY <1>1, <1>2, TypedInit, TypedStep, PTL DEF Spec

-----------------------------------------------------------------------------
(* Numbers.                                                                *)

InPiles == PilesIn(InFlight)
ShownOf(r) == IF r \in view THEN pile[r] ELSE early[r]

\* A number names one scan, in flight and on the screen.
OneScanEachNumber ==
    /\ \A p \in InPiles : p.seq \leq seq
    /\ \A p, q \in InPiles : p.seq = q.seq => p = q
    /\ \A r \in Root : held[r] # None =>
           /\ held[r] \leq seq
           /\ \A p \in InPiles : p.seq = held[r] => p.pile = ShownOf(r)

\* The newest scan of a root is the newest in flight and on the screen, and is one
\* of the two.
NewestIsKnown ==
    \A r \in Root : last[r] # None =>
        /\ last[r].seq \leq seq
        /\ held[r] # None => held[r] \leq last[r].seq
        /\ \A p \in InPiles : p.root = r => p.seq \leq last[r].seq
        /\ r \notin forgotten =>
               \/ \E p \in InPiles : p.root = r /\ p.seq = last[r].seq /\ p.pile = last[r].pile
               \/ held[r] = last[r].seq /\ ShownOf(r) = last[r].pile

LEMMA ScanAdds ==
    ASSUME Typed, Scanning
    PROVE  /\ UNCHANGED heard /\ seq' \in Nat /\ seq' \geq seq
           /\ \E N \in SUBSET Piles :
                  /\ InPiles' = InPiles \cup N
                  /\ \A p \in N : p.seq > seq /\ p.seq \leq seq'
                  /\ \A p, q \in N : p.seq = q.seq \/ p.root = q.root => p = q
                  /\ \A p \in N : last'[p.root] = [seq |-> p.seq, pile |-> p.pile]
                  /\ \A r \in Root : (\E p \in N : p.root = r) \/ last'[r] \in {last[r], None}
<1>1. PICK S \in SUBSET Root, found \in [Root -> Pile] :
          /\ Scanned(PilesOf(S, found))
          /\ PilesIn(InFlight') = PilesIn(InFlight) \cup ToSet(PilesOf(S, found))
          /\ UNCHANGED heard
  BY ScanningIs
<1> DEFINE ps == PilesOf(S, found)
<1>2. EngineOK /\ seq \in Nat /\ seq + Len(ps) \leq MaxScans
  BY <1>1, BoundsAssumption DEF Typed, EngineOK, Scanned
<1>3. /\ ps \in Seq(Found(S)) /\ Len(ps) \in Nat
      /\ \A i \in DOMAIN ps : ps[i].seq = seq + i
      /\ \A i, j \in DOMAIN ps : ps[i].root = ps[j].root => i = j
      /\ \A r \in S : \E i \in DOMAIN ps : ps[i].root = r
      /\ DOMAIN ps = 1..Len(ps)
  BY <1>2, PilesOfAre
<1>4. /\ seq' = seq + Len(ps)
      /\ \A i \in DOMAIN ps : last'[ps[i].root] = [seq |-> ps[i].seq, pile |-> ps[i].pile]
      /\ \A r \in Root \ S : last'[r] = IF r \in open' THEN last[r] ELSE None
  BY <1>1, <1>2, ScannedIs
<1>5. InPiles' = InPiles \cup ToSet(ps)
  BY <1>1 DEF InPiles, PilesIn
<1> HIDE DEF ps
<1> DEFINE N == ToSet(ps)
<1>6. \A p \in N : \E i \in DOMAIN ps : p = ps[i]
  BY DEF ToSet
<1>7. N \in SUBSET Piles /\ \A i \in DOMAIN ps : ps[i] \in N
  BY <1>3 DEF ToSet, Found
<1>8. \A p \in N : p.seq > seq /\ p.seq \leq seq'
  BY <1>2, <1>3, <1>4, <1>6
<1>9. \A p, q \in N : p.seq = q.seq \/ p.root = q.root => p = q
  BY <1>2, <1>3, <1>6
<1>10. \A p \in N : last'[p.root] = [seq |-> p.seq, pile |-> p.pile]
  BY <1>4, <1>6
<1>11. \A r \in Root : (\E p \in N : p.root = r) \/ last'[r] \in {last[r], None}
  BY <1>3, <1>4, <1>7
<1>12. seq' \in Nat /\ seq' \geq seq
  BY <1>2, <1>3, <1>4
<1> HIDE DEF N
<1> QED
  BY <1>1, <1>5, <1>7, <1>8, <1>9, <1>10, <1>11, <1>12 DEF N

\* What the screen hears of piles, root by root.
LEMMA HearsPiles ==
    ASSUME Typed, NEW ms \in SUBSET Piles, OneEach(ms), ApplyPiles(ms), NEW r \in Root
    PROVE  /\ UNCHANGED <<view, forgotten>>
           /\ \/ /\ \A m \in ms : m.root = r => held[r] # None /\ m.seq < held[r]
                 /\ held'[r] = held[r] /\ pile'[r] = pile[r] /\ ShownOf(r)' = ShownOf(r)
              \/ \E m \in ms :
                     /\ m.root = r /\ (held[r] = None \/ m.seq \geq held[r])
                     /\ held'[r] = m.seq /\ ShownOf(r)' = m.pile
                     /\ r \in view => pile'[r] = m.pile
<1> DEFINE For(q) == {m \in ms : m.root = q /\ NotOlder(m)}
           New(q) == CHOOSE m \in For(q) : TRUE
<1>1. /\ held' = [q \in Root |-> IF For(q) = {} THEN held[q] ELSE New(q).seq]
      /\ pile' = [q \in Root |-> IF For(q) = {} \/ q \notin view THEN pile[q] ELSE New(q).pile]
      /\ early' = [q \in Root |-> IF For(q) = {} \/ q \in view THEN early[q] ELSE New(q).pile]
      /\ UNCHANGED <<view, forgotten>>
  BY DEF ApplyPiles
<1>2. CASE For(r) = {}
  <2>1. \A m \in ms : m.root = r => held[r] # None /\ ~(m.seq \geq held[r])
    BY <1>2 DEF NotOlder
  <2>2. \A m \in ms : m.seq \in Nat
    BY BoundsAssumption DEF Piles
  <2>3. held[r] # None => held[r] \in Nat
    BY BoundsAssumption DEF Typed, ShownOK
  <2>4. held'[r] = held[r] /\ pile'[r] = pile[r] /\ early'[r] = early[r]
    BY <1>1, <1>2
  <2> QED
    BY <1>1, <2>1, <2>2, <2>3, <2>4 DEF ShownOf
<1>3. CASE For(r) # {}
  <2>1. New(r) \in For(r)
    BY <1>3
  <2>2. New(r) \in ms /\ New(r).root = r /\ (held[r] = None \/ New(r).seq \geq held[r])
    BY <2>1 DEF NotOlder
  <2> HIDE DEF New
  <2>3. held'[r] = New(r).seq /\ (r \in view => pile'[r] = New(r).pile) /\ (r \notin view => early'[r] = New(r).pile)
    BY <1>1, <1>3
  <2> QED
    BY <1>1, <2>2, <2>3 DEF ShownOf
<1> QED
  BY <1>2, <1>3

\* What else it hears, root by root.
LEMMA HearsRoots ==
    ASSUME Typed, NothingLeftOver, NEW S \in SUBSET Root, NEW r \in Root,
           ApplyRoots(S) \/ ApplyRemoved(S) \/ UNCHANGED heard
    PROVE  /\ \/ held'[r] = None /\ (held[r] # None => r \in forgotten' /\ r \notin view')
              \/ held'[r] = held[r] /\ (held[r] # None => ShownOf(r)' = ShownOf(r))
           /\ forgotten \subseteq forgotten'
           /\ r \in view \cap view' => held'[r] = held[r] /\ pile'[r] = pile[r]
<1>1. ShownOK
  BY DEF Typed
<1>2. CASE ApplyRoots(S)
  BY <1>1, <1>2 DEF NothingLeftOver, ApplyRoots, Forget, Dropped, Adopted, ShownOK, ShownOf
<1>3. CASE ApplyRemoved(S)
  BY <1>1, <1>3 DEF NothingLeftOver, ApplyRemoved, Forget, Dropped, ShownOK, ShownOf
<1>4. CASE UNCHANGED heard
  BY <1>4 DEF heard, shown, ShownOf
<1> QED
  BY <1>2, <1>3, <1>4

LEMMA OtherAdds ==
    ASSUME Typed, Other
    PROVE  /\ InPiles' = InPiles /\ UNCHANGED <<seq, heard>>
           /\ \A r \in Root : last'[r] \in {last[r], None} /\ held'[r] = held[r] /\ ShownOf(r)' = ShownOf(r)
<1>1. PilesIn(InFlight') = PilesIn(InFlight) /\ UNCHANGED <<seq, heard>>
      /\ \A r \in Root : last'[r] \in {last[r], None}
  BY OtherIs
<1>2. InPiles' = InPiles
  BY <1>1 DEF InPiles, PilesIn
<1> QED
  BY <1>1, <1>2 DEF heard, shown, ShownOf

LEMMA HearingTakes ==
    ASSUME Typed, FromWatcher \/ FromTask
    PROVE  /\ UNCHANGED <<seq, last>>
           /\ \E ms \in SUBSET Piles, S \in SUBSET Root : Hears(ms, S) /\ InPiles = InPiles' \cup ms
<1>1. /\ UNCHANGED <<seq, last>>
      /\ \E ms \in SUBSET Piles, S \in SUBSET Root :
             Hears(ms, S) /\ PilesIn(InFlight) = PilesIn(InFlight') \cup ms
  BY HearingIs
<1> QED
  BY <1>1 DEF InPiles, PilesIn

LEMMA NumbersStep ==
    ASSUME Typed, NothingLeftOver, OneScanEachNumber, [Next]_vars
    PROVE  OneScanEachNumber'
<1>1. /\ seq \in Nat /\ \A r \in Root : held[r] # None => held[r] \in Nat
      /\ \A p \in Piles : p.seq \in Nat /\ p.seq # None
  BY BoundsAssumption, NamesAssumption DEF Typed, EngineOK, ShownOK, Piles
<1>2. InPiles \subseteq Piles
  BY DEF InPiles, PilesIn
<1>3. CASE Scanning
  <2>1. UNCHANGED heard /\ seq' \in Nat /\ seq' \geq seq
    BY <1>3, ScanAdds
  <2>2. PICK N \in SUBSET Piles :
            /\ InPiles' = InPiles \cup N
            /\ \A p \in N : p.seq > seq /\ p.seq \leq seq'
            /\ \A p, q \in N : p.seq = q.seq \/ p.root = q.root => p = q
    BY <1>3, ScanAdds
  <2>3. \A p \in InPiles' : p.seq \leq seq'
    BY <1>1, <1>2, <2>1, <2>2 DEF OneScanEachNumber
  <2>4. \A p, q \in InPiles' : p.seq = q.seq => p = q
    BY <1>1, <1>2, <2>1, <2>2 DEF OneScanEachNumber
  <2>5. ASSUME NEW r \in Root, held'[r] # None
        PROVE  held'[r] \leq seq' /\ \A p \in InPiles' : p.seq = held'[r] => p.pile = ShownOf(r)'
    <3>1. held'[r] = held[r] /\ ShownOf(r)' = ShownOf(r)
      BY <2>1 DEF heard, shown, ShownOf
    <3>2. held[r] \leq seq /\ \A p \in InPiles : p.seq = held[r] => p.pile = ShownOf(r)
      BY <2>5, <3>1 DEF OneScanEachNumber
    <3>3. held'[r] \leq seq'
      BY <1>1, <2>1, <2>5, <3>1, <3>2
    <3>4. ASSUME NEW p \in N, p.seq = held'[r]
          PROVE  FALSE
      BY <1>1, <2>2, <2>5, <3>1, <3>2, <3>4
    <3> QED
      BY <2>2, <3>1, <3>2, <3>3, <3>4
  <2> QED
    BY <2>3, <2>4, <2>5 DEF OneScanEachNumber
<1>4. CASE Other
  BY <1>4, OtherAdds DEF OneScanEachNumber
<1>5. CASE FromWatcher \/ FromTask
  <2>1. UNCHANGED <<seq, last>>
    BY <1>5, HearingTakes
  <2>2. PICK ms \in SUBSET Piles, S \in SUBSET Root : Hears(ms, S) /\ InPiles = InPiles' \cup ms
    BY <1>5, HearingTakes
  <2>3. /\ \A p \in InPiles' : p.seq \leq seq'
        /\ \A p, q \in InPiles' : p.seq = q.seq => p = q
    BY <2>1, <2>2 DEF OneScanEachNumber
  <2>4. ASSUME NEW r \in Root, held'[r] # None
        PROVE  held'[r] \leq seq' /\ \A p \in InPiles' : p.seq = held'[r] => p.pile = ShownOf(r)'
    <3>1. \/ held'[r] = held[r] /\ ShownOf(r)' = ShownOf(r)
          \/ \E m \in ms : held'[r] = m.seq /\ ShownOf(r)' = m.pile
      <4>1. CASE ApplyPiles(ms)
        BY <2>2, <4>1, HearsPiles DEF Hears
      <4>2. CASE ApplyRoots(S) \/ ApplyRemoved(S) \/ UNCHANGED heard
        BY <2>4, <4>2, HearsRoots
      <4> QED
        BY <2>2, <4>1, <4>2 DEF Hears
    <3>2. CASE held'[r] = held[r] /\ ShownOf(r)' = ShownOf(r)
      BY <2>1, <2>2, <2>4, <3>2 DEF OneScanEachNumber
    <3>3. CASE \E m \in ms : held'[r] = m.seq /\ ShownOf(r)' = m.pile
      <4>1. PICK m \in ms : held'[r] = m.seq /\ ShownOf(r)' = m.pile
        BY <3>3
      <4>2. m \in InPiles
        BY <2>2
      <4> QED
        BY <2>1, <2>2, <4>1, <4>2 DEF OneScanEachNumber
    <3> QED
      BY <3>1, <3>2, <3>3
  <2> QED
    BY <2>3, <2>4 DEF OneScanEachNumber
<1> QED
  BY <1>3, <1>4, <1>5, StepsAre

LEMMA NewestStep ==
    ASSUME Typed, NothingLeftOver, OneScanEachNumber, NewestIsKnown, [Next]_vars
    PROVE  NewestIsKnown'
<1>1. /\ seq \in Nat /\ \A r \in Root : held[r] # None => held[r] \in Nat
      /\ \A p \in Piles : p.seq \in Nat /\ p.seq # None
      /\ \A r \in Root : last[r] # None => last[r].seq \in Nat /\ last[r].seq # None
  BY BoundsAssumption, NamesAssumption DEF Typed, EngineOK, ShownOK, Piles, Scans
<1>2. InPiles \subseteq Piles
  BY DEF InPiles, PilesIn
<1>3. CASE Scanning
  <2>1. UNCHANGED heard /\ seq' \in Nat /\ seq' \geq seq
    BY <1>3, ScanAdds
  <2>2. PICK N \in SUBSET Piles :
            /\ InPiles' = InPiles \cup N
            /\ \A p \in N : p.seq > seq /\ p.seq \leq seq'
            /\ \A p, q \in N : p.seq = q.seq \/ p.root = q.root => p = q
            /\ \A p \in N : last'[p.root] = [seq |-> p.seq, pile |-> p.pile]
            /\ \A r \in Root : (\E p \in N : p.root = r) \/ last'[r] \in {last[r], None}
    BY <1>3, ScanAdds
  <2> SUFFICES ASSUME NEW r \in Root, last'[r] # None
               PROVE  /\ last'[r].seq \leq seq'
                      /\ held'[r] # None => held'[r] \leq last'[r].seq
                      /\ \A p \in InPiles' : p.root = r => p.seq \leq last'[r].seq
                      /\ r \notin forgotten' =>
                             \/ \E p \in InPiles' : p.root = r /\ p.seq = last'[r].seq /\ p.pile = last'[r].pile
                             \/ held'[r] = last'[r].seq /\ ShownOf(r)' = last'[r].pile
    BY DEF NewestIsKnown
  <2>3. held'[r] = held[r] /\ ShownOf(r)' = ShownOf(r) /\ forgotten' = forgotten
    BY <2>1 DEF heard, shown, ShownOf
  <2>4. CASE \E p \in N : p.root = r
    <3>1. PICK p \in N : p.root = r
      BY <2>4
    <3>2. last'[r] = [seq |-> p.seq, pile |-> p.pile] /\ p.seq > seq /\ p.seq \leq seq' /\ p.seq \in Nat
      BY <1>1, <2>2, <3>1
    <3>3. last'[r].seq = p.seq /\ last'[r].pile = p.pile
      BY <3>2
    <3>4. held'[r] # None => held'[r] \leq last'[r].seq
      BY <1>1, <2>3, <3>2, <3>3 DEF OneScanEachNumber
    <3>5. ASSUME NEW q \in InPiles', q.root = r
          PROVE  q.seq \leq last'[r].seq
      <4>1. CASE q \in N
        <5>1. q = p
          BY <2>2, <3>1, <3>5, <4>1
        <5> QED
          BY <3>2, <3>3, <5>1
      <4>2. CASE q \in InPiles
        BY <1>1, <1>2, <3>2, <3>3, <4>2 DEF OneScanEachNumber
      <4> QED
        BY <2>2, <4>1, <4>2
    <3> QED
      BY <2>2, <3>1, <3>2, <3>3, <3>4, <3>5
  <2>5. CASE ~\E p \in N : p.root = r
    <3>1. last'[r] = last[r] /\ last[r] # None
      BY <2>2, <2>5
    <3>2. /\ last[r].seq \leq seq
          /\ held[r] # None => held[r] \leq last[r].seq
          /\ \A p \in InPiles : p.root = r => p.seq \leq last[r].seq
          /\ r \notin forgotten =>
                 \/ \E p \in InPiles : p.root = r /\ p.seq = last[r].seq /\ p.pile = last[r].pile
                 \/ held[r] = last[r].seq /\ ShownOf(r) = last[r].pile
      BY <3>1 DEF NewestIsKnown
    <3>3. last'[r].seq \leq seq'
      BY <1>1, <2>1, <3>1, <3>2
    <3>4. \A p \in InPiles' : p.root = r => p \in InPiles
      BY <2>2, <2>5
    <3>5. InPiles \subseteq InPiles'
      BY <2>2
    <3> QED
      BY <2>3, <3>1, <3>2, <3>3, <3>4, <3>5
  <2> QED
    BY <2>4, <2>5
<1>4. CASE Other
  <2>1. /\ InPiles' = InPiles /\ UNCHANGED <<seq, heard>>
        /\ \A r \in Root : last'[r] \in {last[r], None} /\ held'[r] = held[r] /\ ShownOf(r)' = ShownOf(r)
    BY <1>4, OtherAdds
  <2>2. forgotten' = forgotten
    BY <2>1 DEF heard
  <2> QED
    BY <2>1, <2>2 DEF NewestIsKnown
<1>5. CASE FromWatcher \/ FromTask
  <2>1. UNCHANGED <<seq, last>>
    BY <1>5, HearingTakes
  <2>2. PICK ms \in SUBSET Piles, S \in SUBSET Root : Hears(ms, S) /\ InPiles = InPiles' \cup ms
    BY <1>5, HearingTakes
  <2> SUFFICES ASSUME NEW r \in Root, last[r] # None
               PROVE  /\ last[r].seq \leq seq
                      /\ held'[r] # None => held'[r] \leq last[r].seq
                      /\ \A p \in InPiles' : p.root = r => p.seq \leq last[r].seq
                      /\ r \notin forgotten' =>
                             \/ \E p \in InPiles' : p.root = r /\ p.seq = last[r].seq /\ p.pile = last[r].pile
                             \/ held'[r] = last[r].seq /\ ShownOf(r)' = last[r].pile
    BY <2>1 DEF NewestIsKnown
  <2>3. /\ last[r].seq \leq seq
        /\ held[r] # None => held[r] \leq last[r].seq
        /\ \A p \in InPiles : p.root = r => p.seq \leq last[r].seq
        /\ r \notin forgotten =>
               \/ \E p \in InPiles : p.root = r /\ p.seq = last[r].seq /\ p.pile = last[r].pile
               \/ held[r] = last[r].seq /\ ShownOf(r) = last[r].pile
    BY DEF NewestIsKnown
  <2>4. \A p \in InPiles' : p.root = r => p.seq \leq last[r].seq
    BY <2>2, <2>3
  <2>5. CASE ApplyPiles(ms)
    <3>1. OneEach(ms) /\ forgotten' = forgotten
      BY <2>2, <2>5 DEF Hears, ApplyPiles
    <3>2. CASE /\ \A m \in ms : m.root = r => held[r] # None /\ m.seq < held[r]
               /\ held'[r] = held[r] /\ ShownOf(r)' = ShownOf(r)
      <4>1. ASSUME NEW p \in InPiles, p.root = r, p.seq = last[r].seq
            PROVE  p \in InPiles'
        <5>1. CASE p \in ms
          BY <1>1, <1>2, <2>3, <3>2, <4>1, <5>1
        <5> QED
          BY <2>2, <5>1
      <4> QED
        BY <2>3, <2>4, <3>1, <3>2, <4>1
    <3>3. CASE \E m \in ms :
                   /\ m.root = r /\ (held[r] = None \/ m.seq \geq held[r])
                   /\ held'[r] = m.seq /\ ShownOf(r)' = m.pile
      <4>1. PICK m \in ms : /\ m.root = r /\ (held[r] = None \/ m.seq \geq held[r])
                            /\ held'[r] = m.seq /\ ShownOf(r)' = m.pile
        BY <3>3
      <4>2. m \in InPiles /\ m.seq \leq last[r].seq /\ m.seq \in Nat
        BY <1>1, <1>2, <2>2, <2>3, <4>1
      <4>3. ASSUME NEW p \in InPiles, p.root = r, p.seq = last[r].seq, p.pile = last[r].pile
            PROVE  p \in InPiles' \/ (held'[r] = last[r].seq /\ ShownOf(r)' = last[r].pile)
        <5>1. CASE p \in ms
          <6>1. p = m
            BY <3>1, <4>1, <4>3, <5>1 DEF OneEach
          <6> QED
            BY <4>1, <4>3, <6>1
        <5> QED
          BY <2>2, <5>1
      <4>4. ASSUME held[r] = last[r].seq, ShownOf(r) = last[r].pile
            PROVE  held'[r] = last[r].seq /\ ShownOf(r)' = last[r].pile
        <5>1. m.seq = held[r] /\ held[r] # None
          BY <1>1, <4>1, <4>2, <4>4
        <5>2. m.pile = ShownOf(r)
          BY <4>2, <5>1 DEF OneScanEachNumber
        <5> QED
          BY <4>1, <4>4, <5>1, <5>2
      <4> QED
        BY <2>3, <2>4, <3>1, <4>1, <4>2, <4>3, <4>4
    <3> QED
      BY <2>5, <3>1, <3>2, <3>3, HearsPiles
  <2>6. CASE ms = {} /\ (ApplyRoots(S) \/ ApplyRemoved(S) \/ UNCHANGED heard)
    <3>1. InPiles' = InPiles
      BY <2>2, <2>6
    <3>2. /\ \/ held'[r] = None /\ (held[r] # None => r \in forgotten' /\ r \notin view')
             \/ held'[r] = held[r] /\ (held[r] # None => ShownOf(r)' = ShownOf(r))
          /\ forgotten \subseteq forgotten'
      BY <2>6, HearsRoots
    <3> QED
      BY <1>1, <2>3, <3>1, <3>2
  <2> QED
    BY <2>2, <2>5, <2>6 DEF Hears
<1> QED
  BY <1>3, <1>4, <1>5, StepsAre

KnownInv == Typed /\ NothingLeftOver /\ OneScanEachNumber /\ NewestIsKnown

LEMMA NothingInFlight ==
    Init => InPiles = {}
<1> SUFFICES ASSUME Init
             PROVE  InPiles = {}
  OBVIOUS
<1>1. outbox = <<>> /\ events = <<>> /\ locals = <<>> /\ \A t \in Task : task[t] = Idle
  BY DEF Init
<1>2. Told = {} /\ Sent = {}
  BY <1>1 DEF Told, Sent, Holds, Asked, ToSet
<1> QED
  BY <1>2, PilesInIs DEF InPiles, InFlight

LEMMA KnownInit == Init => KnownInv
<1> SUFFICES ASSUME Init
             PROVE  KnownInv
  OBVIOUS
<1>1. NothingLeftOver
  BY DEF Init, NothingLeftOver
<1>2. \A r \in Root : last[r] = None /\ held[r] = None
  BY DEF Init
<1>3. OneScanEachNumber /\ NewestIsKnown
  BY <1>2, NothingInFlight DEF OneScanEachNumber, NewestIsKnown
<1> QED
  BY <1>1, <1>3, TypedInit DEF KnownInv

LEMMA KnownStep == KnownInv /\ [Next]_vars => KnownInv'
BY TypedStep, OneScanStep, NumbersStep, NewestStep DEF KnownInv

\* For any number of roots and requests, in whatever order two channels bring the
\* piles, what a root shows never goes back to an older scan's while it stays.
THEOREM PilesGoForward == Spec => PilesNeverGoBack
<1> DEFINE Forward ==
        \A r \in view \cap view' :
            held[r] # None =>
                /\ held'[r] # None
                /\ \/ held'[r] > held[r]
                   \/ held'[r] = held[r] /\ pile'[r] = pile[r]
<1>1. KnownInv /\ [Next]_vars => Forward
  <2> SUFFICES ASSUME KnownInv, [Next]_vars, NEW r \in view \cap view', held[r] # None
               PROVE  /\ held'[r] # None
                      /\ \/ held'[r] > held[r]
                         \/ held'[r] = held[r] /\ pile'[r] = pile[r]
    OBVIOUS
  <2>1. /\ r \in Root /\ held[r] \in Nat
        /\ \A p \in Piles : p.seq \in Nat /\ p.seq # None
    BY BoundsAssumption, NamesAssumption DEF KnownInv, Typed, ShownOK, Piles
  <2>2. ASSUME UNCHANGED heard
        PROVE  held'[r] = held[r] /\ pile'[r] = pile[r]
    BY <2>2 DEF heard, shown
  <2>3. CASE Scanning
    BY <2>2, <2>3, ScanAdds DEF KnownInv
  <2>4. CASE Other
    BY <2>2, <2>4, OtherAdds DEF KnownInv
  <2>5. CASE FromWatcher \/ FromTask
    <3>1. PICK ms \in SUBSET Piles, S \in SUBSET Root : Hears(ms, S) /\ InPiles = InPiles' \cup ms
      BY <2>5, HearingTakes DEF KnownInv
    <3>2. CASE ApplyPiles(ms)
      <4>1. CASE held'[r] = held[r] /\ pile'[r] = pile[r]
        BY <4>1
      <4>2. CASE \E m \in ms :
                     /\ m.root = r /\ (held[r] = None \/ m.seq \geq held[r])
                     /\ held'[r] = m.seq /\ ShownOf(r)' = m.pile
                     /\ r \in view => pile'[r] = m.pile
        <5>1. PICK m \in ms : /\ m.seq \geq held[r] /\ held'[r] = m.seq /\ pile'[r] = m.pile
          BY <4>2
        <5>2. m \in InPiles /\ m.seq \in Nat /\ m.seq # None
          BY <2>1, <3>1
        <5>3. CASE m.seq = held[r]
          <6>1. m.pile = pile[r]
            BY <2>1, <5>2, <5>3 DEF KnownInv, OneScanEachNumber, ShownOf
          <6> QED
            BY <5>1, <5>3, <6>1
        <5>4. CASE m.seq # held[r]
          BY <2>1, <5>1, <5>2, <5>4
        <5> QED
          BY <5>3, <5>4
      <4> QED
        BY <2>1, <3>1, <3>2, <4>1, <4>2, HearsPiles DEF KnownInv, Hears
    <3>3. CASE ApplyRoots(S) \/ ApplyRemoved(S) \/ UNCHANGED heard
      BY <2>1, <3>3, HearsRoots DEF KnownInv
    <3> QED
      BY <3>1, <3>2, <3>3 DEF Hears
  <2> QED
    BY <2>3, <2>4, <2>5, StepsAre
<1>2. KnownInv /\ [Next]_vars => [Forward]_vars
  BY <1>1
<1> QED
  BY <1>2, KnownInit, KnownStep, PTL DEF Spec, PilesNeverGoBack

LEMMA SettledHasNothing ==
    ASSUME Settled
    PROVE  InPiles = {}
<1>1. outbox = <<>> /\ events = <<>> /\ locals = <<>> /\ \A t \in Task : task[t] = Idle
  BY DEF Settled
<1>2. Told = {} /\ Sent = {}
  BY <1>1 DEF Told, Sent, Holds, Asked, ToSet
<1> QED
  BY <1>2, PilesInIs DEF InPiles, InFlight

\* For any number of roots and requests: once everything is heard of, a root that was
\* never forgotten shows the pile of its newest scan.
THEOREM NewestShown == Spec => []LatestShown
<1>1. KnownInv => LatestShown
  <2> SUFFICES ASSUME KnownInv, Settled, NEW r \in (view \cap open) \ forgotten, last[r] # None
               PROVE  pile[r] = last[r].pile
    BY DEF LatestShown
  <2>1. InPiles = {} /\ r \in Root
    BY SettledHasNothing DEF KnownInv, Typed, ShownOK
  <2> QED
    BY <2>1 DEF KnownInv, NewestIsKnown, ShownOf
<1> QED
  BY <1>1, KnownInit, KnownStep, PTL DEF Spec

-----------------------------------------------------------------------------
(* Root sets.                                                              *)

\* The root sets in flight are the engine's of their time.
RootsInFlight == Sent \cap RootsMessages
SetsAreOfTheirTime ==
    /\ newest \in 0..epoch
    /\ \A m \in RootsInFlight : m.epoch \leq epoch /\ (m.epoch = epoch => m.roots = open)

\* Whatever the engine's root set is, the screen shows it or has still to hear of it.
StillToHear ==
    \/ pending # NoChange
    \/ \E m \in Told : m.kind = "changed"
    \/ \E t \in Task : Asked(t, "sync")
    \/ \E m \in RootsInFlight : m.epoch = epoch
RootsFollow == overtaken \/ StillToHear \/ (newest = epoch /\ view = open)

LEMMA ReadAdds ==
    ASSUME Typed, NEW t \in Task, ReadRoots(t)
    PROVE  RootsInFlight' = RootsInFlight \cup {[kind |-> "roots", roots |-> open, epoch |-> epoch]}
<1> DEFINE m == [kind |-> "roots", roots |-> open, epoch |-> epoch]
<1>1. m \in TaskMessages /\ m \in RootsMessages
  BY BoundsAssumption DEF Typed, WorldOK, EngineOK, TaskMessages, RootsMessages
<1>2. Asked(t, "sync") /\ Answers(t, <<m>>) /\ UNCHANGED locals
  BY DEF ReadRoots
<1> HIDE DEF m
<1>3. <<m>> \in Seq(TaskMessages) /\ <<m>> # <<>> /\ ToSet(<<m>>) = {m}
  BY <1>1 DEF ToSet
<1>4. Sent' = Sent \cup {m}
  BY <1>2, <1>3, AnswersAdd
<1> QED
  BY <1>1, <1>4 DEF RootsInFlight, m

LEMMA FromTaskTakes ==
    ASSUME Typed, FromTask
    PROVE  RootsInFlight = RootsInFlight' \cup ({Head(locals)} \cap RootsMessages)
<1>1. /\ locals' = Tail(locals) /\ UNCHANGED task
      /\ ToSet(locals) = {Head(locals)} \cup ToSet(Tail(locals))
  BY Taken DEF FromTask, Typed, TasksOK
<1>2. Sent = Sent' \cup {Head(locals)}
  BY <1>1 DEF Sent, Holds, Asked
<1> QED
  BY <1>2 DEF RootsInFlight

LEMMA TasksKeepSets ==
    ASSUME Typed, NEW t \in Task, RefreshAll(t) \/ AcceptRows(t) \/ SendLocal(t)
    PROVE  RootsInFlight' = RootsInFlight
<1>1. /\ TasksOK /\ EngineOK /\ dir \subseteq Root /\ open \subseteq Root /\ now \in [Root -> Pile]
  BY DEF Typed, WorldOK, EngineOK
<1>2. ASSUME NEW M, Sent' = Sent \cup M, M \cap RootsMessages = {}
      PROVE  RootsInFlight' = RootsInFlight
  BY <1>2 DEF RootsInFlight
<1>3. CASE RefreshAll(t)
  <2> DEFINE m == [kind |-> "refreshed"]
             S == (open \cup open') \cap dir
             ps == PilesOf(S, now)
  <2>1. S \in SUBSET Root /\ Scanned(ps) /\ Asked(t, "refresh") /\ Answers(t, Append(ps, m))
    BY <1>1, <1>3 DEF RefreshAll
  <2>2. UNCHANGED locals
    BY <1>3 DEF RefreshAll
  <2>3. ps \in Seq(Piles) /\ ps \in Seq(TaskMessages)
    BY <1>1, <2>1, PilesAreMessages DEF Scanned
  <2>4. m \in TaskMessages /\ m \notin RootsMessages
    BY DEF TaskMessages, RootsMessages
  <2> HIDE DEF ps, m, S
  <2>5. Append(ps, m) \in Seq(TaskMessages) /\ ToSet(Append(ps, m)) = ToSet(ps) \cup {m}
    BY <2>3, <2>4, Appended
  <2>6. Len(Append(ps, m)) = Len(ps) + 1 /\ Len(ps) \in Nat
    BY <2>3, <2>4
  <2>7. Append(ps, m) # <<>>
    BY <2>6
  <2>8. Sent' = Sent \cup ToSet(Append(ps, m))
    BY <2>1, <2>2, <2>5, <2>7, AnswersAdd
  <2>9. ToSet(ps) \cap RootsMessages = {}
    BY <2>3 DEF ToSet, Piles, RootsMessages
  <2>10. ToSet(Append(ps, m)) \cap RootsMessages = {}
    BY <2>4, <2>5, <2>9
  <2> QED
    BY <1>2, <2>8, <2>10
<1>4. CASE AcceptRows(t)
  <2> DEFINE S == task[t].roots \cap open \cap dir
             ps == PilesOf(S, now')
             m == [kind |-> "accepted", piles |-> {ps[i] : i \in DOMAIN ps}]
  <2>1. S \in SUBSET Root /\ now' \in [Root -> Pile]
    BY <1>1, <1>4, NamesAssumption DEF AcceptRows
  <2>2. Scanned(ps) /\ Asked(t, "accept") /\ Answers(t, <<m>>) /\ UNCHANGED locals
    BY <1>4 DEF AcceptRows
  <2>3. m \in TaskMessages
    BY <1>1, <2>1, <2>2, PilesAreMessages DEF Scanned
  <2>4. m \notin RootsMessages
    BY DEF RootsMessages
  <2> HIDE DEF ps, m, S
  <2>5. <<m>> \in Seq(TaskMessages) /\ <<m>> # <<>> /\ ToSet(<<m>>) = {m}
    BY <2>3 DEF ToSet
  <2>6. Sent' = Sent \cup {m} /\ {m} \cap RootsMessages = {}
    BY <2>2, <2>4, <2>5, AnswersAdd
  <2> QED
    BY <1>2, <2>6
<1>5. CASE SendLocal(t)
  BY <1>5, SendLocalKeeps DEF RootsInFlight
<1> QED
  BY <1>3, <1>4, <1>5

LEMMA PressKeeps ==
    ASSUME Typed, PressRefresh \/ PressAccept
    PROVE  /\ Sent' = Sent
           /\ \E t \in Task : ~Asked(t, "sync") /\ \E x : task' = [task EXCEPT ![t] = x]
<1>1. CASE PressRefresh
  <2>1. PICK t \in Task : Start(t, "refresh", {})
    BY <1>1 DEF PressRefresh
  <2>2. Sent' = Sent
    BY <1>1, <2>1, StartKeeps DEF PressRefresh
  <2> QED
    BY <2>1, <2>2 DEF Start, Asked
<1>2. CASE PressAccept
  <2> DEFINE S == {r \in view : pile[r] # Empty}
  <2>1. PICK t \in Task : Start(t, "accept", S)
    BY <1>2 DEF PressAccept
  <2>2. S \in SUBSET Root
    BY DEF Typed, ShownOK
  <2> HIDE DEF S
  <2>3. Sent' = Sent
    BY <1>2, <2>1, <2>2, StartKeeps DEF PressAccept
  <2> QED
    BY <2>1, <2>3 DEF Start, Asked
<1> QED
  BY <1>1, <1>2

\* Only a task that has read the root set adds one, and only the screen takes one.
LEMMA RootsFlow ==
    ASSUME Typed, [Next]_vars
    PROVE  \/ RootsInFlight' = RootsInFlight /\ UNCHANGED <<newest, overtaken>>
           \/ \E t \in Task :
                  /\ ReadRoots(t)
                  /\ RootsInFlight' = RootsInFlight
                                         \cup {[kind |-> "roots", roots |-> open, epoch |-> epoch]}
           \/ /\ FromTask
              /\ RootsInFlight = RootsInFlight' \cup ({Head(locals)} \cap RootsMessages)
<1> USE DEF screen
<1>1. /\ TasksOK /\ EngineOK /\ LoopOK /\ dir \subseteq Root /\ open \subseteq Root
      /\ view \subseteq Root /\ epoch \in 0..MaxMoves /\ now \in [Root -> Pile]
  BY BoundsAssumption DEF Typed, WorldOK, EngineOK, ShownOK
<1> DEFINE Same == RootsInFlight' = RootsInFlight /\ UNCHANGED <<newest, overtaken>>
<1>2. ASSUME Sent' = Sent, UNCHANGED <<newest, overtaken>>
      PROVE  Same
  BY <1>2 DEF RootsInFlight
<1>4. CASE \/ Launch \/ Send \/ Pass \/ UNCHANGED vars
           \/ \E r \in Root : ScanRoot(r) \/ InspectHead(r) \/ Edit(r) \/ RemoveOrCreate(r)
  <2>1. UNCHANGED <<locals, task, newest, overtaken>>
    BY <1>4 DEF Launch, Send, Pass, ScanRoot, InspectHead, Edit, RemoveOrCreate, vars
  <2>2. Sent' = Sent
    BY <2>1 DEF Sent, Holds, Asked
  <2> QED
    BY <1>2, <2>1, <2>2
<1>5. ASSUME NEW t \in Task, ReadRoots(t)
      PROVE  RootsInFlight' = RootsInFlight \cup {[kind |-> "roots", roots |-> open, epoch |-> epoch]}
  BY <1>5, ReadAdds
<1>6. ASSUME NEW t \in Task, RefreshAll(t) \/ AcceptRows(t) \/ SendLocal(t)
      PROVE  Same
  BY <1>6, TasksKeepSets DEF RefreshAll, AcceptRows, SendLocal
<1>7. CASE PressRefresh \/ PressAccept
  BY <1>2, <1>7, PressKeeps DEF PressRefresh, PressAccept
<1>9. CASE FromWatcher
  <2>1. Head(events) \in LoopMessages
    BY <1>9, Taken DEF Typed, LoopOK, FromWatcher
  <2>2. (UNCHANGED task \/ Sync) /\ UNCHANGED <<locals, newest, overtaken>>
    BY <1>9, <2>1, KindsOfLoop DEF FromWatcher
  <2>3. CASE UNCHANGED task
    <3>1. Sent' = Sent
      BY <2>2, <2>3 DEF Sent, Holds, Asked
    <3> QED
      BY <1>2, <2>2, <3>1
  <2>4. CASE Sync
    BY <1>2, <2>2, <2>4, StartKeeps DEF Sync
  <2> QED
    BY <2>2, <2>3, <2>4
<1>10. CASE FromTask
  BY <1>10, FromTaskTakes
<1> QED
  BY <1>4, <1>5, <1>6, <1>7, <1>9, <1>10 DEF Next

\* The engine's root set changes with its epoch.
LEMMA EpochsCount ==
    ASSUME Typed, [Next]_vars
    PROVE  \/ UNCHANGED <<open, epoch>>
           \/ epoch' = epoch + 1
<1> USE DEF engine
<1>1. CASE Launch \/ Pass \/ \E t \in Task : RefreshAll(t)
  BY <1>1 DEF Launch, Pass, RefreshAll, Rediscover
<1>2. CASE \/ Send \/ FromWatcher \/ FromTask \/ PressRefresh \/ PressAccept \/ UNCHANGED vars
           \/ \E t \in Task : ReadRoots(t) \/ AcceptRows(t) \/ SendLocal(t)
           \/ \E r \in Root : ScanRoot(r) \/ InspectHead(r) \/ Edit(r) \/ RemoveOrCreate(r)
  BY <1>2 DEF Send, FromWatcher, FromTask, PressRefresh, PressAccept, vars, ReadRoots, AcceptRows,
              SendLocal, ScanRoot, InspectHead, Edit, RemoveOrCreate
<1> QED
  BY <1>1, <1>2 DEF Next

LEMMA SetsStep ==
    ASSUME Typed, SetsAreOfTheirTime, [Next]_vars
    PROVE  SetsAreOfTheirTime'
<1>1. /\ epoch \in Nat /\ newest \in 0..epoch /\ \A m \in RootsInFlight : m.epoch \in Nat
      /\ epoch' \in Nat /\ epoch' \geq epoch
  BY EpochsCount, BoundsAssumption DEF Typed, WorldOK, SetsAreOfTheirTime, RootsInFlight, RootsMessages
<1>2. \A m \in RootsInFlight : m.epoch \leq epoch' /\ (m.epoch = epoch' => m.roots = open')
  BY <1>1, EpochsCount DEF SetsAreOfTheirTime
<1>3. CASE RootsInFlight' = RootsInFlight /\ UNCHANGED <<newest, overtaken>>
  BY <1>1, <1>2, <1>3 DEF SetsAreOfTheirTime
<1>4. ASSUME NEW t \in Task, ReadRoots(t),
             RootsInFlight' = RootsInFlight \cup {[kind |-> "roots", roots |-> open, epoch |-> epoch]}
      PROVE  SetsAreOfTheirTime'
  <2>1. UNCHANGED <<open, epoch, newest>>
    BY <1>4 DEF ReadRoots, engine, screen
  <2> QED
    BY <1>1, <1>2, <1>4, <2>1 DEF SetsAreOfTheirTime
<1>5. CASE /\ FromTask
           /\ RootsInFlight = RootsInFlight' \cup ({Head(locals)} \cap RootsMessages)
  <2> DEFINE m == Head(locals)
  <2>1. m \in TaskMessages
    BY <1>5, Taken DEF FromTask, Typed, TasksOK
  <2>2. newest' = (IF m.kind = "roots" /\ m.epoch > newest THEN m.epoch ELSE newest)
    BY <1>5 DEF FromTask
  <2>3. m.kind = "roots" => m \in RootsInFlight
    BY <1>5, <2>1, KindsOfTasks
  <2> HIDE DEF m
  <2>4. newest' \in 0..epoch'
    BY <1>1, <1>2, <2>2, <2>3
  <2> QED
    BY <1>2, <1>5, <2>4 DEF SetsAreOfTheirTime
<1> QED
  BY <1>3, <1>4, <1>5, RootsFlow

LEMMA RootsStep ==
    ASSUME Typed, SetsAreOfTheirTime, RootsFollow, [Next]_vars
    PROVE  RootsFollow'
<1> USE DEF screen, engine
<1>1. /\ task \in [Task -> {Idle} \cup Asking \cup Sending] /\ pending \in Changes
      /\ epoch \in Nat /\ newest \in Nat /\ newest \leq epoch
      /\ \A m \in RootsInFlight : m.epoch \in Nat
  BY BoundsAssumption DEF Typed, TasksOK, EngineOK, WorldOK, SetsAreOfTheirTime, RootsInFlight, RootsMessages
\* What is kept is still there after a step that takes none of it.
<1>2. ASSUME UNCHANGED <<pending, open, epoch, view, newest, overtaken>>,
             Told \subseteq Told', RootsInFlight \subseteq RootsInFlight',
             \A t \in Task : Asked(t, "sync") => Asked(t, "sync")'
      PROVE  RootsFollow'
  BY <1>2 DEF RootsFollow, StillToHear
<1>3. ASSUME NEW t \in Task, ~Asked(t, "sync"), NEW x, task' = [task EXCEPT ![t] = x]
      PROVE  \A u \in Task : Asked(u, "sync") => Asked(u, "sync")'
  BY <1>1, <1>3 DEF Asked
<1>4. ASSUME \E m \in Told' : m.kind = "changed"
      PROVE  RootsFollow'
  BY <1>4 DEF RootsFollow, StillToHear
<1>5. ASSUME Sync
      PROVE  RootsFollow'
  <2>1. PICK t \in Task : task'[t] = Asks("sync", {})
    BY <1>1, <1>5 DEF Sync, Start
  <2>2. Asks("sync", {}) \in Asking /\ Asks("sync", {}).what = "sync"
    BY DEF Asks, Asking
  <2>3. Asked(t, "sync")'
    BY <2>1, <2>2, IdleIsNothing DEF Asked
  <2> QED
    BY <2>3 DEF RootsFollow, StillToHear
<1>6. ASSUME ~FromTask, ~(\E t \in Task : ReadRoots(t))
      PROVE  RootsInFlight' = RootsInFlight /\ UNCHANGED <<newest, overtaken>>
  BY <1>6, RootsFlow
<1>8. CASE FromTask
  <2>1. Head(locals) \in TaskMessages
    BY <1>8, Taken DEF FromTask, Typed, TasksOK
  <2> DEFINE m == Head(locals)
  <2>2. /\ newest' = (IF m.kind = "roots" /\ m.epoch > newest THEN m.epoch ELSE newest)
        /\ overtaken' = (overtaken \/ (m.kind = "roots" /\ m.epoch < newest))
        /\ UNCHANGED <<pending, open, epoch, task, outbox, events>>
    BY <1>8 DEF FromTask, loop
  <2>3. RootsInFlight = RootsInFlight' \cup ({m} \cap RootsMessages)
    BY <1>8, FromTaskTakes
  <2>4. m.kind = "roots" => m \in RootsInFlight /\ m \in RootsMessages /\ view' = m.roots
    BY <1>8, <2>1, <2>3, KindsOfTasks DEF FromTask, ApplyRoots
  <2>5. m.kind # "roots" => UNCHANGED view /\ m \notin RootsMessages
    BY <1>8, <2>1, KindsOfTasks DEF FromTask, ApplyPiles, heard, shown, RootsMessages
  <2> HIDE DEF m
  <2>6. Told' = Told /\ \A t \in Task : Asked(t, "sync") => Asked(t, "sync")'
    BY <2>2 DEF Told, Asked
  <2>7. CASE m.kind = "roots"
    <3>1. m \in RootsInFlight /\ m.epoch \in Nat /\ m.epoch \leq epoch
      BY <1>1, <2>4, <2>7 DEF SetsAreOfTheirTime
    <3>2. CASE m.epoch = epoch
      <4>1. newest' = epoch'
        BY <1>1, <2>2, <2>7, <3>2
      <4>2. view' = open'
        BY <2>2, <2>4, <2>7, <3>1, <3>2 DEF SetsAreOfTheirTime
      <4> QED
        BY <4>1, <4>2 DEF RootsFollow
    <3>3. CASE m.epoch < epoch
      <4>1. CASE newest = epoch
        <5>1. overtaken'
          BY <2>2, <2>7, <3>3, <4>1
        <5> QED
          BY <5>1 DEF RootsFollow
      <4>2. CASE overtaken
        <5>1. overtaken'
          BY <2>2, <4>2
        <5> QED
          BY <5>1 DEF RootsFollow
      <4>3. CASE StillToHear
        <5>1. \A n \in RootsInFlight : n.epoch = epoch => n \in RootsInFlight'
          BY <2>3, <3>1, <3>3
        <5> QED
          BY <2>2, <2>6, <4>3, <5>1 DEF StillToHear, RootsFollow
      <4> QED
        BY <4>1, <4>2, <4>3 DEF RootsFollow
    <3> QED
      BY <1>1, <3>1, <3>2, <3>3
  <2>8. CASE m.kind # "roots"
    <3>1. UNCHANGED <<view, newest>> /\ RootsInFlight' = RootsInFlight /\ (overtaken => overtaken')
      BY <2>2, <2>3, <2>5, <2>8
    <3> QED
      BY <2>2, <2>6, <3>1 DEF RootsFollow, StillToHear
  <2> QED
    BY <2>7, <2>8
<1>9. CASE FromWatcher
  <2>1. Head(events) \in LoopMessages /\ ToSet(events) = {Head(events)} \cup ToSet(Tail(events))
    BY <1>9, Taken DEF Typed, LoopOK, FromWatcher
  <2>2. CASE Sync
    BY <1>5, <2>2
  <2>3. CASE ~Sync
    <3>1. Head(events).kind = "pile" /\ UNCHANGED <<task, view>>
      BY <1>9, <2>1, <2>3, KindsOfLoop DEF FromWatcher, ApplyPiles
    <3>2. /\ UNCHANGED <<pending, open, epoch, newest, overtaken>> /\ UNCHANGED <<outbox, locals>>
          /\ events' = Tail(events)
      BY <1>9 DEF FromWatcher, loop
    <3>3. Told = Told' \cup {Head(events)}
      BY <2>1, <3>2 DEF Told
    <3>4. RootsInFlight' = RootsInFlight /\ \A t \in Task : Asked(t, "sync") => Asked(t, "sync")'
      BY <3>1, <3>2 DEF RootsInFlight, Sent, Holds, Asked
    <3> QED
      BY <3>1, <3>2, <3>3, <3>4 DEF RootsFollow, StillToHear
  <2> QED
    BY <2>2, <2>3
<1>10. ASSUME NEW t \in Task, ReadRoots(t)
       PROVE  RootsFollow'
  <2> DEFINE m == [kind |-> "roots", roots |-> open, epoch |-> epoch]
  <2>1. UNCHANGED epoch /\ m \in RootsInFlight' /\ m.epoch = epoch
    BY <1>10, ReadAdds DEF ReadRoots
  <2> HIDE DEF m
  <2> QED
    BY <2>1 DEF RootsFollow, StillToHear
<1>11. CASE Send
  <2>1. Told' = Told /\ UNCHANGED <<pending, open, epoch, view, newest, overtaken, locals, task>>
    BY <1>11, SendKeeps DEF Send, heard, shown
  <2>2. RootsInFlight' = RootsInFlight /\ \A t \in Task : Asked(t, "sync") => Asked(t, "sync")'
    BY <2>1 DEF RootsInFlight, Sent, Holds, Asked
  <2> QED
    BY <1>2, <2>1, <2>2
<1>12. ASSUME outbox = <<>>, UNCHANGED <<pending, open, epoch, events, locals, task, view, newest, overtaken>>
       PROVE  RootsFollow'
  <2>1. Told \subseteq Told'
    BY <1>12, FindsAdd
  <2>2. RootsInFlight' = RootsInFlight /\ \A t \in Task : Asked(t, "sync") => Asked(t, "sync")'
    BY <1>12 DEF RootsInFlight, Sent, Holds, Asked
  <2> QED
    BY <1>2, <1>12, <2>1, <2>2
<1>13. ASSUME NEW r \in Root, ScanRoot(r) \/ InspectHead(r)
       PROVE  RootsFollow'
  BY <1>12, <1>13 DEF ScanRoot, InspectHead, Waits, heard, shown
<1>14. CASE Launch
  <2>1. outbox = <<>> /\ UNCHANGED <<pending, events, locals, task, view, newest, overtaken>>
    BY <1>14 DEF Launch, Typed, LoopOK, heard, shown
  <2>2. CASE UNCHANGED <<open, epoch>>
    BY <1>12, <2>1, <2>2
  <2>3. CASE ~UNCHANGED <<open, epoch>>
    <3> DEFINE c == [kind |-> "changed", changed |-> Difference]
               ps == PilesOf(dir, now)
    <3>1. outbox' = Append(ps, c) /\ Scanned(ps)
      BY <1>14, <2>3 DEF Launch
    <3>2. EngineOK /\ dir \in SUBSET Root /\ now \in [Root -> Pile]
      BY DEF Typed, WorldOK
    <3>3. ps \in Seq(LoopMessages) /\ c \in LoopMessages /\ c.kind = "changed"
      BY <3>1, <3>2, PilesAreMessages, DiscoveryTyped DEF Scanned, LoopMessages, ChangedMessages
    <3> HIDE DEF ps, c
    <3>4. c \in ToSet(outbox')
      BY <3>1, <3>3, Appended
    <3>5. c \in Told'
      BY <2>1, <3>4, FindsAdd
    <3> QED
      BY <1>4, <3>3, <3>5
  <2> QED
    BY <2>2, <2>3
<1>15. CASE Pass
  <2> DEFINE c == [kind |-> "changed", changed |-> Merge(Difference)]
  <2>1. outbox = <<>> /\ outbox' = <<c>> /\ UNCHANGED events
    BY <1>15 DEF Pass, Waits
  <2>2. c.kind = "changed"
    OBVIOUS
  <2> HIDE DEF c
  <2>3. c \in ToSet(outbox')
    BY <2>1 DEF ToSet
  <2>4. c \in Told'
    BY <2>1, <2>3, FindsAdd
  <2> QED
    BY <1>4, <2>2, <2>4
\* A task that was asked something else, and the loop's own.
<1>16. ASSUME NEW t \in Task, ~Asked(t, "sync"), NEW x, task' = [task EXCEPT ![t] = x],
              UNCHANGED <<pending, open, epoch, outbox, events, view, newest, overtaken>>,
              RootsInFlight' = RootsInFlight
       PROVE  RootsFollow'
  <2>1. Told' = Told /\ \A u \in Task : Asked(u, "sync") => Asked(u, "sync")'
    BY <1>3, <1>16 DEF Told
  <2> QED
    BY <1>2, <1>16, <2>1
<1>17. ASSUME NEW t \in Task, SendLocal(t) \/ AcceptRows(t)
       PROVE  RootsFollow'
  <2>1. /\ ~Asked(t, "sync") /\ \E x : task' = [task EXCEPT ![t] = x]
        /\ UNCHANGED <<pending, open, epoch, outbox, events, view, newest, overtaken>>
    BY <1>17 DEF SendLocal, AcceptRows, Asked, Answers, loop, heard, shown
  <2>2. RootsInFlight' = RootsInFlight
    BY <1>17, TasksKeepSets
  <2> QED
    BY <1>16, <2>1, <2>2
<1>18. CASE PressRefresh \/ PressAccept
  <2>1. PICK t \in Task : ~Asked(t, "sync") /\ \E x : task' = [task EXCEPT ![t] = x]
    BY <1>18, PressKeeps
  <2>2. RootsInFlight' = RootsInFlight
    BY <1>18, PressKeeps DEF RootsInFlight
  <2>3. UNCHANGED <<pending, open, epoch, outbox, events, view, newest, overtaken>>
    BY <1>18 DEF PressRefresh, PressAccept, loop, heard, shown
  <2> QED
    BY <1>16, <2>1, <2>2, <2>3
<1>19. ASSUME NEW t \in Task, RefreshAll(t)
       PROVE  RootsFollow'
  <2>1. /\ ~Asked(t, "sync") /\ \E x : task' = [task EXCEPT ![t] = x]
        /\ UNCHANGED <<outbox, events, view, newest, overtaken>>
    BY <1>19 DEF RefreshAll, Asked, Answers, loop, heard, shown
  <2>2. RootsInFlight' = RootsInFlight
    BY <1>19, TasksKeepSets
  <2>3. CASE UNCHANGED <<open, epoch, pending>>
    BY <1>16, <2>1, <2>2, <2>3
  <2>4. CASE dir # open /\ pending' = Merge(Difference)
    <3>1. PICK r \in Root : r \in (dir \ open) \cup (open \ dir)
      BY <2>4 DEF Typed, WorldOK, EngineOK
    <3>2. r \in Merge(Difference).added \cup Merge(Difference).removed
      BY <3>1 DEF Merge, Difference
    <3>3. pending' # NoChange
      BY <2>4, <3>2 DEF NoChange
    <3> QED
      BY <3>3 DEF RootsFollow, StillToHear
  <2> QED
    BY <1>19, <2>3, <2>4 DEF RefreshAll
<1>20. CASE UNCHANGED vars \/ \E r \in Root : Edit(r) \/ RemoveOrCreate(r)
  <2>1. UNCHANGED <<pending, open, epoch, outbox, events, locals, task, view, newest, overtaken>>
    BY <1>20 DEF vars, Edit, RemoveOrCreate, loop, heard, shown
  <2>2. /\ Told' = Told /\ RootsInFlight' = RootsInFlight
        /\ \A t \in Task : Asked(t, "sync") => Asked(t, "sync")'
    BY <2>1 DEF Told, RootsInFlight, Sent, Holds, Asked
  <2> QED
    BY <1>2, <2>1, <2>2
<1> QED
  BY <1>8, <1>9, <1>10, <1>11, <1>13, <1>14, <1>15, <1>17, <1>18, <1>19, <1>20 DEF Next

SetsInv == Typed /\ SetsAreOfTheirTime /\ RootsFollow

LEMMA SetsInit == Init => SetsInv
<1> SUFFICES ASSUME Init
             PROVE  SetsInv
  OBVIOUS
<1>1. locals = <<>> /\ \A t \in Task : task[t] = Idle
  BY DEF Init
<1>2. RootsInFlight = {}
  BY <1>1 DEF RootsInFlight, Sent, Holds, Asked, ToSet
<1>3. newest = 0 /\ epoch = 0 /\ view = open
  BY DEF Init
<1> QED
  BY <1>2, <1>3, TypedInit DEF SetsInv, SetsAreOfTheirTime, RootsFollow

LEMMA SetsInvStep == SetsInv /\ [Next]_vars => SetsInv'
BY TypedStep, SetsStep, RootsStep DEF SetsInv

\* For any number of roots and requests: once everything is heard of, the screen
\* lists the engine's roots, unless a root set was applied after a newer one.
THEOREM RootsAreShown == Spec => []RootsShownInOrder
<1>1. SetsInv => RootsShownInOrder
  <2> SUFFICES ASSUME SetsInv, Settled, ~overtaken
               PROVE  view = open
    BY DEF RootsShownInOrder
  <2>1. pending = NoChange
    <3>1. pending \in Changes /\ Merge(Difference) = NoChange
      BY DEF SetsInv, Typed, EngineOK, Settled
    <3>2. pending.added = {} /\ pending.removed = {}
      BY <3>1 DEF Merge, NoChange
    <3> QED
      BY <3>1, <3>2 DEF Changes, NoChange
  <2>2. outbox = <<>> /\ events = <<>> /\ locals = <<>> /\ \A t \in Task : task[t] = Idle
    BY DEF Settled
  <2>3. Told = {} /\ RootsInFlight = {} /\ \A t \in Task : ~Asked(t, "sync")
    BY <2>2 DEF Told, RootsInFlight, Sent, Holds, Asked, ToSet
  <2> QED
    BY <2>1, <2>3 DEF SetsInv, RootsFollow, StillToHear
<1> QED
  BY <1>1, SetsInit, SetsInvStep, PTL DEF Spec

-----------------------------------------------------------------------------
GuardsOK == refreshing \in BOOLEAN /\ accepting \in BOOLEAN /\ overtaken \in BOOLEAN

LEMMA GuardsStep ==
    ASSUME Typed, GuardsOK, [Next]_vars
    PROVE  GuardsOK'
<1> USE DEF screen
<1>1. CASE FromTask
  BY <1>1 DEF FromTask, FreeGuards, GuardsOK
<1>2. CASE PressRefresh \/ PressAccept
  BY <1>2 DEF PressRefresh, PressAccept, GuardsOK
<1>3. CASE \/ Launch \/ Send \/ Pass \/ FromWatcher \/ UNCHANGED vars
           \/ \E t \in Task : ReadRoots(t) \/ RefreshAll(t) \/ AcceptRows(t) \/ SendLocal(t)
           \/ \E r \in Root : ScanRoot(r) \/ InspectHead(r) \/ Edit(r) \/ RemoveOrCreate(r)
  BY <1>3 DEF Launch, Send, Pass, FromWatcher, vars, ReadRoots, RefreshAll, AcceptRows, SendLocal,
              ScanRoot, InspectHead, Edit, RemoveOrCreate, GuardsOK
<1> QED
  BY <1>1, <1>2, <1>3 DEF Next

\* The channels hold messages, the watcher's no more than its capacity, and no root
\* set is of an epoch still to come.
THEOREM TypeCorrect == Spec => []TypeOK
<1> DEFINE TInv == SetsInv /\ GuardsOK
<1>1. Init => TInv
  BY SetsInit DEF Init, GuardsOK
<1>2. TInv /\ [Next]_vars => TInv'
  BY SetsInvStep, GuardsStep DEF SetsInv
<1>3. TInv => TypeOK
  <2> SUFFICES ASSUME TInv
               PROVE  TypeOK
    OBVIOUS
  <2>1. EngineOK /\ WorldOK /\ LoopOK /\ TasksOK /\ ShownOK /\ newest \in 0..epoch /\ GuardsOK
    BY DEF SetsInv, Typed, SetsAreOfTheirTime
  <2>2. /\ {dir, open, view, due, forgotten} \subseteq SUBSET Root
        /\ now \in [Root -> Pile] /\ pending \in Changes
        /\ pile \in [Root -> Pile] /\ early \in [Root -> Pile \cup {None}]
        /\ held \in [Root -> 1..MaxScans \cup {None}]
    BY <2>1 DEF EngineOK, WorldOK, LoopOK, ShownOK
  <2>3. seq \in 0..MaxScans /\ epoch \in 0..MaxMoves /\ newest \in 0..epoch
    BY <2>1, BoundsAssumption DEF EngineOK, WorldOK
  <2>4. LoopMessages \subseteq Messages /\ TaskMessages \subseteq Messages
    BY DEF LoopMessages, TaskMessages, ChangedMessages, RootsMessages, AcceptedMessages, Messages
  <2>5. \A s \in {events, outbox, locals} : \A i \in DOMAIN s : s[i] \in Messages
    BY <2>1, <2>4 DEF LoopOK, TasksOK
  <2>6. ASSUME NEW t \in Task, task[t] # Idle
        PROVE  task[t].what \in {"sync", "refresh", "accept", "send"}
    <3>1. task[t] \in Asking \cup Sending
      BY <2>1, <2>6 DEF TasksOK
    <3> QED
      BY <3>1 DEF Asking, Sending
  <2>7. {ran, refreshing, accepting, overtaken} \subseteq BOOLEAN
    BY <2>1 DEF LoopOK, GuardsOK
  <2>8. Len(events) \leq ChannelCap
    BY <2>1 DEF LoopOK
  <2> QED
    BY <2>2, <2>3, <2>5, <2>6, <2>7, <2>8 DEF TypeOK
<1> QED
  BY <1>1, <1>2, <1>3, PTL DEF Spec
=============================================================================
