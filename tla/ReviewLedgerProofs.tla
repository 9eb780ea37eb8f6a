-------------------------- MODULE ReviewLedgerProofs --------------------------
(* Proofs about the operations on the ledger, for any number of processes, *)
(* paths, hunks, branches and keystrokes.                                  *)
EXTENDS ReviewLedger, FiniteSetTheorems, TLAPS

-----------------------------------------------------------------------------
(* Records.                                                                *)

\* Every entry a record could make a baseline of has been shown.
Holds(r, sh) ==
    /\ \A q \in Path : /\ r.tree[q] \in sh[q]
                       /\ r.over[q].blob # None => r.over[q].blob \in sh[q]
    /\ \A i \in 1..Len(r.undo), q \in Path : r.undo[i][q] # None => r.undo[i][q] \in sh[q]

GoodRecord(r, sh) == r \in Record /\ Len(r.undo) \leq UndoCap /\ Holds(r, sh)

\* What an accept or an undo writes.
GoodRows(f, sh) == f \in Some /\ \A q \in Path : f[q] # None => f[q] \in sh[q]

\* What a commit replays.
GoodStaged(s, sh) ==
    /\ s \in [Path -> Override \cup {None}]
    /\ \A q \in Path : s[q] # None /\ s[q].blob # None => s[q].blob \in sh[q]

LEMMA RecordIs ==
    ASSUME NEW r \in Record
    PROVE  /\ r.tree \in Tree /\ r.over \in [Path -> Override] /\ r.undo \in Seq(Some)
           /\ r = [tree |-> r.tree, over |-> r.over, undo |-> r.undo]
BY DEF Record

LEMMA BaselineIs ==
    ASSUME NEW sh, NEW r, GoodRecord(r, sh)
    PROVE  /\ Baseline(r) \in Tree
           /\ \A q \in Path : Baseline(r)[q] \in sh[q] /\ Baseline(r)[q] # None
<1>1. \A q \in Path : r.over[q].blob \in Entry \cup {None} /\ r.tree[q] \in Entry
  BY DEF GoodRecord, Record, Override, Tree
<1> QED
  BY <1>1, NoneAssumption DEF GoodRecord, Holds, Baseline, Tree

\* set_override: the accepted entries are the baselines, the others stay.
LEMMA SetOverridesIs ==
    ASSUME NEW sh, NEW r, GoodRecord(r, sh), NEW f, GoodRows(f, sh)
    PROVE  LET new == SetOverrides(r, f)
           IN  /\ GoodRecord(new, sh)
               /\ new.undo = r.undo /\ new.tree = r.tree
               /\ \A q \in Path : Baseline(new)[q] =
                                    IF f[q] = None THEN Baseline(r)[q] ELSE f[q]
<1> DEFINE new == SetOverrides(r, f)
<1>1. /\ r \in Record /\ r.tree \in Tree /\ r.over \in [Path -> Override] /\ f \in Some
      /\ r.undo \in Seq(Some)
  BY RecordIs DEF GoodRecord, GoodRows
<1>2. new.undo = r.undo /\ new.tree = r.tree
  BY <1>1 DEF SetOverrides, Record
<1>3. \A q \in Path : new.over[q] =
        IF f[q] = None THEN r.over[q]
        ELSE [r.over[q] EXCEPT !.blob = IF f[q] = r.tree[q] THEN None ELSE f[q]]
  BY <1>1 DEF SetOverrides, Record
<1>4. ASSUME NEW q \in Path
      PROVE  /\ new.over[q] \in Override
             /\ new.over[q].blob = IF f[q] = None THEN r.over[q].blob
                                   ELSE IF f[q] = r.tree[q] THEN None ELSE f[q]
  BY <1>1, <1>3 DEF Override, Some
<1>5. new \in Record
  <2>1. new = [tree |-> r.tree, undo |-> r.undo, over |-> new.over]
    BY <1>1 DEF SetOverrides, Record
  <2>2. new.over \in [Path -> Override]
    BY <1>1, <1>4 DEF SetOverrides, Record
  <2> QED
    BY <1>1, <2>1, <2>2 DEF Record
<1> HIDE DEF new
<1>6. Holds(new, sh)
  BY <1>1, <1>2, <1>4 DEF Holds, GoodRecord, GoodRows
<1>7. \A q \in Path : Baseline(new)[q] = IF f[q] = None THEN Baseline(r)[q] ELSE f[q]
  BY <1>2, <1>4 DEF Baseline
<1> QED
  BY <1>2, <1>5, <1>6, <1>7 DEF GoodRecord, new

\* merge_from_disk: staged overrides replace those of the record.
LEMMA ReplayIs ==
    ASSUME NEW sh, NEW r, GoodRecord(r, sh), NEW s, GoodStaged(s, sh)
    PROVE  LET new == Replay(r, s)
           IN  /\ GoodRecord(new, sh)
               /\ new.undo = r.undo /\ new.tree = r.tree
               /\ \A q \in Path : new.over[q] = IF s[q] = None THEN r.over[q] ELSE s[q]
               /\ \A q \in Path : s[q] = None => Baseline(new)[q] = Baseline(r)[q]
<1> DEFINE new == Replay(r, s)
<1>1. /\ r \in Record /\ r.tree \in Tree /\ r.over \in [Path -> Override]
      /\ r.undo \in Seq(Some) /\ s \in [Path -> Override \cup {None}]
  BY RecordIs DEF GoodRecord, GoodStaged
<1>2. new.undo = r.undo /\ new.tree = r.tree
  BY <1>1 DEF Replay, Record
<1>3. \A q \in Path : new.over[q] = IF s[q] = None THEN r.over[q] ELSE s[q]
  BY <1>1 DEF Replay, Record
<1>4. new \in Record
  <2>1. new = [tree |-> r.tree, undo |-> r.undo, over |-> new.over]
    BY <1>1 DEF Replay, Record
  <2>2. new.over \in [Path -> Override]
    BY <1>1 DEF Replay, Record
  <2> QED
    BY <1>1, <2>1, <2>2 DEF Record
<1> HIDE DEF new
<1>5. Holds(new, sh)
  BY <1>1, <1>2, <1>3 DEF Holds, GoodRecord, GoodStaged
<1>6. \A q \in Path : s[q] = None => Baseline(new)[q] = Baseline(r)[q]
  BY <1>2, <1>3 DEF Baseline
<1> QED
  BY <1>2, <1>3, <1>4, <1>5, <1>6 DEF GoodRecord, new

\* undo_paths: what is recorded for an undo was shown.
LEMMA PriorIs ==
    ASSUME NEW sh, NEW r, GoodRecord(r, sh), NEW keysOf
    PROVE  GoodRows(Prior(r, keysOf), sh)
BY BaselineIs DEF Prior, GoodRows, Some, Tree

LEMMA PushUndoIs ==
    ASSUME NEW sh, NEW r, GoodRecord(r, sh), NEW e, GoodRows(e, sh)
    PROVE  LET new == PushUndo(r, e)
           IN  /\ GoodRecord(new, sh)
               /\ new.tree = r.tree /\ new.over = r.over /\ Baseline(new) = Baseline(r)
               /\ new.undo = Append(IF Len(r.undo) = UndoCap THEN Tail(r.undo) ELSE r.undo, e)
<1> DEFINE new == PushUndo(r, e)
           kept == IF Len(r.undo) = UndoCap THEN Tail(r.undo) ELSE r.undo
<1>1. /\ r \in Record /\ r.undo \in Seq(Some) /\ e \in Some /\ Len(r.undo) \leq UndoCap
      /\ r.tree \in Tree /\ r.over \in [Path -> Override]
  BY RecordIs DEF GoodRecord, GoodRows
<1>2. new = [tree |-> r.tree, over |-> r.over, undo |-> Append(kept, e)]
  <2>1. \A u : [r EXCEPT !.undo = u] = [tree |-> r.tree, over |-> r.over, undo |-> u]
    BY <1>1 DEF Record
  <2> QED
    BY <2>1 DEF PushUndo
<1>3. /\ kept \in Seq(Some) /\ Len(kept) < UndoCap
      /\ \A i \in 1..Len(kept) : \E j \in 1..Len(r.undo) : kept[i] = r.undo[j]
  BY <1>1, UndoCapAssumption
<1> HIDE DEF kept
<1>4. /\ Append(kept, e) \in Seq(Some) /\ Len(Append(kept, e)) \leq UndoCap
      /\ \A i \in 1..Len(Append(kept, e)) :
            \/ i \in 1..Len(kept) /\ Append(kept, e)[i] = kept[i]
            \/ Append(kept, e)[i] = e
  BY <1>1, <1>3, UndoCapAssumption
<1>5. new \in Record /\ Len(new.undo) \leq UndoCap
  BY <1>1, <1>2, <1>4 DEF Record
<1>6. \A i \in 1..Len(new.undo), q \in Path : new.undo[i][q] # None => new.undo[i][q] \in sh[q]
  BY <1>2, <1>3, <1>4 DEF GoodRecord, Holds, GoodRows
<1>7. Holds(new, sh)
  BY <1>2, <1>6 DEF Holds, GoodRecord
<1>8. Baseline(new) = Baseline(r)
  BY <1>2 DEF Baseline
<1> QED
  BY <1>2, <1>5, <1>7, <1>8 DEF GoodRecord, kept

LEMMA PopUndoIs ==
    ASSUME NEW sh, NEW r, GoodRecord(r, sh), r.undo # <<>>
    PROVE  LET new == PopUndo(r)
           IN  /\ GoodRecord(new, sh) /\ GoodRows(Last(r.undo), sh)
               /\ new.tree = r.tree /\ new.over = r.over /\ Baseline(new) = Baseline(r)
               /\ new.undo = SubSeq(r.undo, 1, Len(r.undo) - 1)
<1> DEFINE new == PopUndo(r)
           kept == SubSeq(r.undo, 1, Len(r.undo) - 1)
<1>1. /\ r \in Record /\ r.undo \in Seq(Some) /\ Len(r.undo) \leq UndoCap
      /\ r.tree \in Tree /\ r.over \in [Path -> Override]
  BY RecordIs DEF GoodRecord
<1>2. new = [tree |-> r.tree, over |-> r.over, undo |-> kept]
  <2>1. \A u : [r EXCEPT !.undo = u] = [tree |-> r.tree, over |-> r.over, undo |-> u]
    BY <1>1 DEF Record
  <2> QED
    BY <2>1 DEF PopUndo
<1>3. Len(r.undo) \in Nat \ {0}
  BY <1>1
<1>4. /\ kept \in Seq(Some) /\ Len(kept) = Len(r.undo) - 1
      /\ \A i \in 1..Len(kept) : i \in 1..Len(r.undo) /\ kept[i] = r.undo[i]
  BY <1>1, <1>3
<1> HIDE DEF kept
<1>5. new \in Record /\ Len(new.undo) \leq UndoCap
  BY <1>1, <1>2, <1>3, <1>4, UndoCapAssumption DEF Record
<1>6. Holds(new, sh)
  BY <1>2, <1>4 DEF Holds, GoodRecord
<1>7. Baseline(new) = Baseline(r)
  BY <1>2 DEF Baseline
<1>8. Len(r.undo) \in 1..Len(r.undo) /\ r.undo[Len(r.undo)] \in Some
  BY <1>1, <1>3
<1>9. GoodRows(Last(r.undo), sh)
  BY <1>8 DEF Last, GoodRows, GoodRecord, Holds
<1> QED
  BY <1>2, <1>5, <1>6, <1>7, <1>9 DEF GoodRecord, kept

\* fold: the rows f and under them the baselines of before.
LEMMA FoldIs ==
    ASSUME NEW sh, NEW r, GoodRecord(r, sh), NEW f, GoodRows(f, sh)
    PROVE  LET new == Fold(r, f)
           IN  /\ GoodRecord(new, sh)
               /\ new.undo = r.undo
               /\ \A q \in Path : Baseline(new)[q] =
                                    IF f[q] = None THEN Baseline(r)[q] ELSE f[q]
<1> DEFINE new == Fold(r, f)
           tree == [q \in Path |-> IF f[q] # None THEN f[q] ELSE Baseline(r)[q]]
           over == [q \in Path |-> [r.over[q] EXCEPT !.blob = None]]
<1>1. /\ r \in Record /\ r.undo \in Seq(Some) /\ f \in Some
      /\ r.tree \in Tree /\ r.over \in [Path -> Override]
  BY RecordIs DEF GoodRecord, GoodRows
<1>2. new = [tree |-> tree, over |-> over, undo |-> r.undo]
  BY DEF Fold
<1>3. tree \in Tree /\ \A q \in Path : tree[q] \in sh[q]
  BY <1>1, BaselineIs DEF Tree, Some, GoodRows
<1>4. over \in [Path -> Override] /\ \A q \in Path : over[q].blob = None
  BY <1>1 DEF Override
<1> HIDE DEF over, new
<1>5. \A q \in Path : Baseline(new)[q] = tree[q]
  BY <1>2, <1>4 DEF Baseline
<1>6. new \in Record /\ Len(new.undo) \leq UndoCap
  BY <1>1, <1>2, <1>3, <1>4 DEF Record, GoodRecord
<1>7. Holds(new, sh)
  BY <1>2, <1>3, <1>4 DEF Holds, GoodRecord
<1>8. new.undo = r.undo /\ GoodRecord(new, sh)
  BY <1>2, <1>6, <1>7 DEF GoodRecord
<1>9. \A q \in Path : Baseline(new)[q] = IF f[q] = None THEN Baseline(r)[q] ELSE f[q]
  BY <1>5
<1> QED
  BY <1>8, <1>9 DEF new

-----------------------------------------------------------------------------
(* Ledgers and operations.                                                 *)

\* A ledger whose branch in force has no parked record, and whose records
\* are good.
Good(l, sh) ==
    /\ l \in LedgerFile
    /\ l.parked[l.branch] = None
    /\ GoodRecord(l.now, sh)
    /\ \A b \in Branch : l.parked[b] # None => GoodRecord(l.parked[b], sh)

\* An operation under way: what it stages it can also take back, and flags
\* take nothing back.
GoodOp(o, sh) ==
    /\ o \in Operation
    /\ GoodRows(o.asked, sh) /\ GoodStaged(o.staged, sh) /\ GoodStaged(o.prior, sh)
    /\ o.checked => \A q \in Path : o.staged[q] = None <=> o.prior[q] = None
    /\ ~o.checked => o.prior = Nothing

ShownOK == shown \in [Path -> SUBSET Entry]
GitOK == head \in Branch \cup {Detached} /\ refs \in SUBSET Branch /\ worktree \in Tree
PilesOK == pile \in [Proc -> Pile]
ProcsOK ==
    /\ mem \in [Proc -> LedgerFile \cup {Missing}] /\ op \in [Proc -> Operation]
    /\ pc \in [Proc -> {"closed", "idle", "commit", "fold", "sync", "switch", "render"}]
    /\ to \in [Proc -> Branch \cup {None}]

\* What an open process knows at each step.
StepsOK == \A p \in Proc :
    /\ pc[p] # "closed" => mem[p] # Missing
    /\ pc[p] = "switch" => to[p] \in Branch
    /\ pc[p] \in {"commit", "fold"} => op[p].on \in Branch

LedgersOK ==
    /\ disk # Missing => Good(disk, shown)
    /\ \A p \in Proc : mem[p] # Missing => Good(mem[p], shown)

OpsOK == \A p \in Proc : GoodOp(op[p], shown)

Inv == /\ ShownOK /\ GitOK /\ PilesOK /\ ProcsOK /\ StepsOK /\ LedgersOK /\ OpsOK
       /\ keys \in 0..MaxKeys

\* The step of an open process: the ledger it holds and perhaps writes, its
\* operation and where it goes next.
Moves(p, l, o, step, t) ==
    /\ shown' \in [Path -> SUBSET Entry] /\ \A q \in Path : shown[q] \subseteq shown'[q]
    /\ l # Missing /\ Good(l, shown') /\ GoodOp(o, shown')
    /\ step \in {"idle", "commit", "fold", "sync", "switch", "render"}
    /\ t \in Branch \cup {None}
    /\ step = "switch" => t \in Branch
    /\ step \in {"commit", "fold"} => o.on \in Branch
    /\ disk' \in {disk, l}
    /\ mem' = [mem EXCEPT ![p] = l] /\ op' = [op EXCEPT ![p] = o]
    /\ pc' = [pc EXCEPT ![p] = step] /\ to' = [to EXCEPT ![p] = t]

LEMMA Monotone ==
    ASSUME NEW sh, NEW sh2, \A q \in Path : sh[q] \subseteq sh2[q]
    PROVE  /\ \A r : GoodRecord(r, sh) => GoodRecord(r, sh2)
           /\ \A l : Good(l, sh) => Good(l, sh2)
           /\ \A o : GoodOp(o, sh) => GoodOp(o, sh2)
<1>1. \A r : GoodRecord(r, sh) => GoodRecord(r, sh2)
  BY DEF GoodRecord, Holds
<1>2. \A l : Good(l, sh) => Good(l, sh2)
  BY <1>1 DEF Good
<1>3. \A f : GoodRows(f, sh) => GoodRows(f, sh2)
  BY DEF GoodRows
<1>4. \A f : GoodStaged(f, sh) => GoodStaged(f, sh2)
  BY DEF GoodStaged
<1>5. \A o : GoodOp(o, sh) => GoodOp(o, sh2)
  BY <1>3, <1>4 DEF GoodOp
<1> QED
  BY <1>1, <1>2, <1>5

LEMMA MovesKeep ==
    ASSUME Inv, NEW p \in Proc, NEW l, NEW o, NEW step, NEW t, Moves(p, l, o, step, t)
    PROVE  ShownOK' /\ ProcsOK' /\ StepsOK' /\ LedgersOK' /\ OpsOK'
<1> USE DEF Moves
<1>1. ShownOK'
  BY DEF ShownOK
<1>2. l \in LedgerFile /\ o \in Operation
  BY DEF Good, GoodOp
<1>3. ProcsOK'
  BY <1>2 DEF Inv, ProcsOK
<1>4. StepsOK'
  BY DEF Inv, ProcsOK, StepsOK
<1>5. LedgersOK'
  BY Monotone DEF Inv, ProcsOK, LedgersOK
<1>6. OpsOK'
  BY Monotone DEF Inv, ProcsOK, OpsOK
<1> QED
  BY <1>1, <1>3, <1>4, <1>5, <1>6

\* A record put in force.
LEMMA NowIs ==
    ASSUME NEW sh, NEW l, Good(l, sh), NEW r, GoodRecord(r, sh)
    PROVE  LET new == [l EXCEPT !.now = r]
           IN  /\ Good(new, sh) /\ new # Missing
               /\ new.now = r /\ new.branch = l.branch /\ new.parked = l.parked
BY MissingAssumption DEF Good, LedgerFile, GoodRecord

\* What an open process adopts: the file, or what it holds.
LEMMA AdoptedIs ==
    ASSUME Inv, NEW p \in Proc, pc[p] # "closed"
    PROVE  /\ Good(Adopted(p), shown) /\ Adopted(p) # Missing
           /\ Good(mem[p], shown) /\ mem[p] # Missing
BY DEF Inv, StepsOK, LedgersOK, Adopted

LEMMA OpIs ==
    ASSUME Inv, NEW p \in Proc
    PROVE  /\ GoodOp(op[p], shown) /\ GoodOp(NoOp, shown)
           /\ op[p].asked \in Some /\ NoOp.on = None
BY NoneAssumption DEF Inv, OpsOK, GoodOp, GoodRows, GoodStaged, NoOp, Nothing, Some, Operation

\* Rows shown to the user.
LEMMA ShowIs ==
    ASSUME ShownOK, NEW f \in Some, Show(f)
    PROVE  /\ shown' \in [Path -> SUBSET Entry] /\ \A q \in Path : shown[q] \subseteq shown'[q]
           /\ GoodRows(f, shown')
<1>1. \A q \in Path : f[q] \in Entry \cup {None} /\ shown'[q] = shown[q] \cup ({f[q]} \ {None})
  BY DEF Show, Some
<1> QED
  BY <1>1 DEF Show, ShownOK, GoodRows

-----------------------------------------------------------------------------
(* Keystrokes.                                                             *)

\* A process that stays where the ledger is and goes somewhere else.
LEMMA GoesOn ==
    ASSUME Inv, NEW p \in Proc, pc[p] # "closed", NEW step \in {"idle", "sync", "render"},
           Goto(p, step), UNCHANGED <<disk, mem, op, to>>,
           shown' \in [Path -> SUBSET Entry], \A q \in Path : shown[q] \subseteq shown'[q]
    PROVE  Moves(p, mem[p], op[p], step, to[p])
<1>1. Good(mem[p], shown') /\ mem[p] # Missing
  BY AdoptedIs, Monotone
<1>2. GoodOp(op[p], shown')
  BY OpIs, Monotone
<1> QED
  BY <1>1, <1>2 DEF Moves, Goto, Inv, ProcsOK

\* What is accepted is what was shown.
LEMMA RenderedIs ==
    ASSUME Inv, NEW p \in Proc, NEW S \in SUBSET Path
    PROVE  /\ Rendered(p, S) \in Some
           /\ Keys(Rendered(p, S)) = S
           /\ \A q \in S : Rendered(p, S)[q] = pile[p].cur[q]
<1>1. pile[p].cur \in Tree
  BY DEF Inv, PilesOK, Pile
<1> QED
  BY <1>1, NoneAssumption DEF Rendered, Some, Keys, Tree

LEMMA StageMoves ==
    ASSUME Inv, NEW p \in Proc, pc[p] = "idle", NEW f, GoodRows(f, shown'), Stage(p, f),
           shown' \in [Path -> SUBSET Entry], \A q \in Path : shown[q] \subseteq shown'[q],
           UNCHANGED <<disk, to>>
    PROVE  \E l, o : /\ Moves(p, l, o, "commit", to[p])
                     /\ l.branch = mem[p].branch /\ o.on = mem[p].branch /\ o.asked = f
<1> DEFINE before == mem[p].now
           after == SetOverrides(before, f)
           At(r) == [q \in Path |-> IF f[q] # None THEN r.over[q] ELSE None]
           l == [mem[p] EXCEPT !.now = after]
           o == [on |-> mem[p].branch, asked |-> f, staged |-> At(after),
                 prior |-> At(before), checked |-> TRUE]
<1>1. Good(mem[p], shown')
  BY AdoptedIs, Monotone
<1>2. GoodRecord(before, shown') /\ GoodRecord(after, shown')
  BY <1>1, SetOverridesIs DEF Good
<1>3. Good(l, shown') /\ l # Missing /\ l.branch = mem[p].branch
  BY <1>1, <1>2, NowIs
<1>4. mem' = [mem EXCEPT ![p] = l] /\ op' = [op EXCEPT ![p] = o]
  BY DEF Stage, Inv, ProcsOK
<1>5. mem[p].branch \in Branch
  BY <1>1 DEF Good, LedgerFile
<1>6. ASSUME NEW r, GoodRecord(r, shown')
      PROVE  /\ GoodStaged(At(r), shown')
             /\ \A q \in Path : At(r)[q] = None <=> f[q] = None
  <2>1. \A q \in Path : r.over[q] \in Override
    BY <1>6, RecordIs DEF GoodRecord
  <2> QED
    BY <1>6, <2>1, NoneIsNothing DEF GoodStaged, GoodRecord, Holds
<1> HIDE DEF before, after, At
<1>7. At(after) \in [Path -> Override \cup {None}] /\ At(before) \in [Path -> Override \cup {None}]
  BY <1>2, <1>6 DEF GoodStaged
<1>8. GoodOp(o, shown')
  BY <1>2, <1>5, <1>6, <1>7 DEF GoodOp, Operation, GoodRows
<1>9. pc' = [pc EXCEPT ![p] = "commit"] /\ to' = [to EXCEPT ![p] = to[p]] /\ to[p] \in Branch \cup {None}
  BY DEF Stage, Goto, Inv, ProcsOK
<1>10. o.on = mem[p].branch /\ o.asked = f
  OBVIOUS
<1> HIDE DEF l, o
<1>11. Moves(p, l, o, "commit", to[p])
  BY <1>3, <1>4, <1>5, <1>8, <1>9, <1>10 DEF Moves
<1> QED
  BY <1>3, <1>10, <1>11

\* An accept, a group or a hunk is staged, or declined.
StagesOrDeclines(p) ==
    \/ \E step \in {"idle", "sync", "render"} : Moves(p, mem[p], op[p], step, to[p])
    \/ \E l, o : /\ Moves(p, l, o, "commit", to[p])
                 /\ l.branch = mem[p].branch /\ o.on = mem[p].branch

LEMMA DeclinedMoves ==
    ASSUME Inv, NEW p \in Proc, pc[p] = "idle", Declined(p), UNCHANGED <<disk, to>>,
           shown' \in [Path -> SUBSET Entry], \A q \in Path : shown[q] \subseteq shown'[q]
    PROVE  Moves(p, mem[p], op[p], "sync", to[p])
BY GoesOn DEF Declined

LEMMA RowsMove ==
    ASSUME Inv, NEW p \in Proc, pc[p] = "idle", NEW S \in SUBSET Path,
           UNCHANGED <<disk, to>>, StageRows(p, S)
    PROVE  \/ Moves(p, mem[p], op[p], "sync", to[p])
           \/ \E l, o : /\ Moves(p, l, o, "commit", to[p])
                        /\ l.branch = mem[p].branch /\ o.on = mem[p].branch
                        /\ o.asked = Accepted(p, S)
<1>1. Rendered(p, S) \in Some /\ Show(Rendered(p, S))
  BY RenderedIs DEF StageRows
<1>2. /\ shown' \in [Path -> SUBSET Entry] /\ \A q \in Path : shown[q] \subseteq shown'[q]
      /\ GoodRows(Rendered(p, S), shown')
  BY <1>1, ShowIs DEF Inv
<1>3. GoodRows(Accepted(p, S), shown')
  <2> DEFINE T == {q \in S : worktree[q] = pile[p].cur[q]}
  <2>1. /\ Accepted(p, S) \in Some
        /\ \A q \in Path : Accepted(p, S)[q] \in {None, Rendered(p, S)[q]}
    BY RenderedIs, T \in SUBSET Path DEF Accepted, Rendered
  <2> QED
    BY <1>2, <2>1 DEF GoodRows
<1>4. Declined(p) \/ Stage(p, Accepted(p, S))
  BY DEF StageRows
<1>5. CASE Declined(p)
  BY <1>2, <1>5, DeclinedMoves
<1>6. CASE Stage(p, Accepted(p, S))
  BY <1>2, <1>3, <1>6, StageMoves
<1> QED
  BY <1>4, <1>5, <1>6

LEMMA FileMoves ==
    ASSUME Inv, NEW p \in Proc, NEW q \in Path, AcceptFile(p, q)
    PROVE  \/ Moves(p, mem[p], op[p], "sync", to[p])
           \/ \E l, o : /\ Moves(p, l, o, "commit", to[p])
                        /\ l.branch = mem[p].branch /\ o.on = mem[p].branch
<1>1. pc[p] = "idle" /\ UNCHANGED <<disk, to>> /\ {q} \in SUBSET Path
  BY DEF AcceptFile, Press
<1>2. StageRows(p, {q}) \/ (Declined(p) /\ UNCHANGED shown)
  BY DEF AcceptFile
<1>3. CASE StageRows(p, {q})
  BY <1>1, <1>3, RowsMove
<1>4. CASE Declined(p) /\ UNCHANGED shown
  BY <1>1, <1>4, DeclinedMoves DEF Inv, ShownOK
<1> QED
  BY <1>2, <1>3, <1>4

\* A group's rows are of the branch its pile was rendered under.
LEMMA GroupMoves ==
    ASSUME Inv, NEW p \in Proc, NEW S \in SUBSET Path, AcceptGroup(p, S)
    PROVE  \/ Moves(p, mem[p], op[p], "sync", to[p])
           \/ \E l, o : /\ Moves(p, l, o, "commit", to[p])
                        /\ l.branch = mem[p].branch /\ o.on = mem[p].branch
                        /\ ~PileMoved(p)
<1>1. pc[p] = "idle" /\ UNCHANGED <<disk, to>>
  BY DEF AcceptGroup, Press
<1>2. (StageRows(p, S) /\ ~PileMoved(p)) \/ (Declined(p) /\ UNCHANGED shown)
  BY DEF AcceptGroup
<1>3. CASE StageRows(p, S) /\ ~PileMoved(p)
  BY <1>1, <1>3, RowsMove
<1>4. CASE Declined(p) /\ UNCHANGED shown
  BY <1>1, <1>4, DeclinedMoves DEF Inv, ShownOK
<1> QED
  BY <1>2, <1>3, <1>4

LEMMA HunkMoves ==
    ASSUME Inv, NEW p \in Proc, NEW q \in Path, NEW h \in Hunk, AcceptHunk(p, q, h)
    PROVE  \/ Moves(p, mem[p], op[p], "sync", to[p])
           \/ \E l, o : /\ Moves(p, l, o, "commit", to[p])
                        /\ l.branch = mem[p].branch /\ o.on = mem[p].branch
<1> DEFINE f == [Nothing EXCEPT ![q] = Splice(pile[p].base[q], h)]
<1>1. pc[p] = "idle" /\ UNCHANGED <<disk, to>>
  BY DEF AcceptHunk, Press
<1>2. (Stage(p, f) /\ Show(f)) \/ (Declined(p) /\ UNCHANGED shown)
  BY DEF AcceptHunk
<1>3. pile[p].base[q] \in Entry
  BY DEF Inv, PilesOK, Pile, Tree
<1>4. Text(pile[p].base[q]) \in Content
  BY <1>3 DEF Text, Entry, Empty, Content
<1>5. Splice(pile[p].base[q], h) \in Content
  BY <1>4 DEF Splice, Content
<1>6. f \in Some
  BY <1>5 DEF Nothing, Some, Entry
<1> HIDE DEF f
<1>7. CASE Stage(p, f) /\ Show(f)
  BY <1>1, <1>6, <1>7, ShowIs, StageMoves DEF Inv
<1>8. CASE Declined(p) /\ UNCHANGED shown
  BY <1>1, <1>8, DeclinedMoves DEF Inv, ShownOK
<1> QED
  BY <1>2, <1>7, <1>8

\* Accept-all waits for its fold with the whole pile.
LEMMA AllMoves ==
    ASSUME Inv, NEW p \in Proc, AcceptAll(p)
    PROVE  \/ Moves(p, mem[p], op[p], "sync", to[p])
           \/ \E o : /\ Moves(p, mem[p], o, "fold", to[p]) /\ o.on = mem[p].branch
                     /\ o = [NoOp EXCEPT !.on = mem[p].branch, !.asked = Rendered(p, Rows(p))]
                     /\ ~PileMoved(p)
<1> DEFINE f == Rendered(p, Rows(p))
           o == [NoOp EXCEPT !.on = mem[p].branch, !.asked = f]
<1>1. pc[p] = "idle" /\ UNCHANGED <<disk, to>> /\ Rows(p) \in SUBSET Path
  BY DEF AcceptAll, Press, Rows
<1>2. CASE Declined(p) /\ UNCHANGED shown
  BY <1>1, <1>2, DeclinedMoves DEF Inv, ShownOK
<1>3. CASE /\ ~PileMoved(p) /\ Goto(p, "fold") /\ op' = [op EXCEPT ![p] = o]
           /\ Show(f) /\ UNCHANGED mem
  <2>1. /\ shown' \in [Path -> SUBSET Entry] /\ \A q \in Path : shown[q] \subseteq shown'[q]
        /\ GoodRows(f, shown')
    BY <1>1, <1>3, RenderedIs, ShowIs DEF Inv
  <2>2. Good(mem[p], shown') /\ mem[p] # Missing
    BY <1>1, <2>1, AdoptedIs, Monotone
  <2>3. mem[p].branch \in Branch
    BY <2>2 DEF Good, LedgerFile
  <2>4. /\ o.on = mem[p].branch /\ o.asked = f /\ o.checked = TRUE
        /\ o.staged = Nothing /\ o.prior = Nothing
    BY DEF NoOp
  <2>5. o \in Operation
    BY <2>1, <2>3 DEF NoOp, Operation, GoodRows, Nothing
  <2> HIDE DEF o, f
  <2>6. GoodOp(o, shown')
    BY <2>1, <2>4, <2>5 DEF GoodOp, GoodStaged, Nothing
  <2>7. Moves(p, mem[p], o, "fold", to[p])
    BY <1>1, <1>3, <2>1, <2>2, <2>3, <2>4, <2>6 DEF Moves, Goto, Inv, ProcsOK
  <2> QED
    BY <1>3, <2>4, <2>7 DEF o, f
<1> QED
  BY <1>2, <1>3 DEF AcceptAll

\* A flag stages the override the ledger in memory has.
LEMMA FlagsMove ==
    ASSUME Inv, NEW p \in Proc, pc[p] = "idle", NEW q \in Path, NEW flags \in SUBSET Note,
           StageFlags(p, q, flags), UNCHANGED <<disk, to, shown>>
    PROVE  \E l, o : /\ Moves(p, l, o, "commit", to[p])
                     /\ l.branch = mem[p].branch /\ o.on = mem[p].branch
                     /\ o.asked = Nothing
<1> DEFINE r == mem[p].now
           new == [r EXCEPT !.over[q].flags = flags]
           l == [mem[p] EXCEPT !.now = new]
           o == [NoOp EXCEPT !.on = mem[p].branch, !.checked = FALSE,
                             !.staged[q] = [r.over[q] EXCEPT !.flags = flags]]
<1>1. Good(mem[p], shown) /\ GoodRecord(r, shown)
  BY AdoptedIs DEF Good
<1>2. /\ r \in Record /\ r.tree \in Tree /\ r.over \in [Path -> Override]
      /\ r.undo \in Seq(Some)
  BY <1>1, RecordIs DEF GoodRecord
<1>3. /\ new.tree = r.tree /\ new.undo = r.undo
      /\ new.over = [r.over EXCEPT ![q].flags = flags] /\ new \in Record
  BY <1>2 DEF Record, Override
<1>4. \A x \in Path : new.over[x].blob = r.over[x].blob
  BY <1>2, <1>3 DEF Override
<1>5. mem' = [mem EXCEPT ![p] = l] /\ op' = [op EXCEPT ![p] = o]
  BY <1>1, <1>2 DEF StageFlags, Inv, ProcsOK, Good, LedgerFile
<1>6. mem[p].branch \in Branch
  BY <1>1 DEF Good, LedgerFile
<1> HIDE DEF new
<1>7. GoodRecord(new, shown)
  BY <1>1, <1>3, <1>4 DEF GoodRecord, Holds
<1>8. Good(l, shown) /\ l # Missing /\ l.branch = mem[p].branch
  BY <1>1, <1>7, NowIs
<1>9. /\ o.on = mem[p].branch /\ o.asked = Nothing /\ o.checked = FALSE /\ o.prior = Nothing
      /\ o.staged = [Nothing EXCEPT ![q] = [r.over[q] EXCEPT !.flags = flags]]
  BY DEF NoOp
<1>10. [r.over[q] EXCEPT !.flags = flags] \in Override
  BY <1>2 DEF Override
<1>11. [r.over[q] EXCEPT !.flags = flags].blob = r.over[q].blob
  BY <1>2 DEF Override
<1>12. o \in Operation
  BY <1>6, <1>10 DEF NoOp, Operation, Nothing, Some
<1> HIDE DEF o, l
<1>13. GoodOp(o, shown)
  <2>1. GoodRows(o.asked, shown) /\ GoodStaged(o.prior, shown)
    BY <1>9 DEF GoodRows, GoodStaged, Nothing, Some
  <2>2. GoodStaged(o.staged, shown)
    BY <1>1, <1>9, <1>10, <1>11, <1>2 DEF GoodStaged, Nothing, GoodRecord, Holds
  <2> QED
    BY <1>9, <1>12, <2>1, <2>2 DEF GoodOp
<1>14. Moves(p, l, o, "commit", to[p])
  BY <1>5, <1>6, <1>8, <1>9, <1>13 DEF Moves, StageFlags, Goto, Inv, ProcsOK, ShownOK
<1> QED
  BY <1>8, <1>9, <1>14

LEMMA FlaggingMoves ==
    ASSUME Inv, NEW p \in Proc, Flagging(p)
    PROVE  \/ Moves(p, mem[p], op[p], "sync", to[p])
           \/ \E l, o : /\ Moves(p, l, o, "commit", to[p])
                        /\ l.branch = mem[p].branch /\ o.on = mem[p].branch
                        /\ o.asked = Nothing
<1>1. pc[p] = "idle" /\ UNCHANGED <<disk, to, shown>>
  BY DEF Flagging, Flag, Unflag, Press
<1>2. \A q \in Path : mem[p].now.over[q].flags \in SUBSET Note
  BY <1>1, AdoptedIs DEF Good, GoodRecord, Record, Override
<1>3. \/ Declined(p)
      \/ \E q \in Path, flags \in SUBSET Note : StageFlags(p, q, flags)
  BY <1>2 DEF Flagging, Flag, Unflag
<1>4. CASE Declined(p)
  BY <1>1, <1>4, DeclinedMoves DEF Inv, ShownOK
<1>5. CASE \E q \in Path, flags \in SUBSET Note : StageFlags(p, q, flags)
  BY <1>1, <1>5, FlagsMove
<1> QED
  BY <1>3, <1>4, <1>5

-----------------------------------------------------------------------------
(* Under the lock.                                                         *)

\* The record a commit merges with.
Base(p) == IF disk = Missing THEN mem[p].now ELSE disk.now

Pushed(p) ==
    IF Keys(op[p].prior) = {} THEN Base(p)
    ELSE PushUndo(Base(p), Prior(IF disk = Missing THEN Replay(mem[p].now, op[p].prior) ELSE disk.now,
                                 Keys(op[p].prior)))

LEMMA MergedIs ==
    ASSUME Inv, NEW p \in Proc, pc[p] # "closed"
    PROVE  /\ Good(Merged(p), shown) /\ Merged(p) # Missing
           /\ Merged(p).branch = Adopted(p).branch /\ Merged(p).parked = Adopted(p).parked
           /\ GoodRecord(Base(p), shown) /\ GoodRecord(Pushed(p), shown)
           /\ Merged(p).now = Replay(Pushed(p), op[p].staged)
<1>1. /\ Good(Adopted(p), shown) /\ Good(mem[p], shown) /\ Base(p) = Adopted(p).now
  BY AdoptedIs DEF Base, Adopted
<1>2. GoodRecord(Base(p), shown) /\ GoodRecord(mem[p].now, shown)
  BY <1>1 DEF Good
<1>3. GoodStaged(op[p].prior, shown) /\ GoodStaged(op[p].staged, shown)
  BY OpIs DEF GoodOp
<1>4. GoodRecord(Replay(mem[p].now, op[p].prior), shown)
  BY <1>2, <1>3, ReplayIs
<1>5. disk # Missing => disk.now = Base(p)
  BY DEF Base
<1>6. GoodRecord(Pushed(p), shown)
  BY <1>2, <1>4, <1>5, PriorIs, PushUndoIs DEF Pushed
<1>7. GoodRecord(Replay(Pushed(p), op[p].staged), shown)
  BY <1>3, <1>6, ReplayIs
<1>8. Merged(p) = [Adopted(p) EXCEPT !.now = Replay(Pushed(p), op[p].staged)]
  BY DEF Merged, Pushed, Base
<1> QED
  BY <1>1, <1>2, <1>6, <1>7, <1>8, NowIs

LEMMA CommitMoves ==
    ASSUME Inv, NEW p \in Proc, Commit(p)
    PROVE  \E l, o, step : /\ Moves(p, l, o, step, to[p])
                           /\ l \in {Adopted(p), Merged(p)} /\ o.asked = Nothing
                           /\ step \in {"sync", "fold"}
<1>1. pc[p] # "closed" /\ pc[p] = "commit" /\ op[p].on \in Branch
  BY DEF Commit, Inv, StepsOK
<1>2. /\ Good(Adopted(p), shown) /\ Adopted(p) # Missing
      /\ Good(Merged(p), shown) /\ Merged(p) # Missing
  BY <1>1, AdoptedIs, MergedIs
<1> DEFINE o == [NoOp EXCEPT !.on = op[p].on]
<1>3. GoodOp(NoOp, shown) /\ NoOp.asked = Nothing
  BY OpIs DEF NoOp
<1>4. GoodOp(o, shown) /\ o.on = op[p].on /\ o.asked = Nothing
  <2>1. /\ o.on = op[p].on /\ o.asked = Nothing /\ o.staged = NoOp.staged
        /\ o.prior = NoOp.prior /\ o.checked = NoOp.checked /\ o \in Operation
    BY <1>1, <1>3 DEF NoOp, Operation, GoodOp
  <2> QED
    BY <1>3, <2>1 DEF GoodOp
<1> HIDE DEF o
<1>5. UNCHANGED <<to, shown>>
  BY DEF Commit
<1>6. CASE /\ mem' = [mem EXCEPT ![p] = Adopted(p)] /\ Done(p, "sync") /\ UNCHANGED disk
  BY <1>2, <1>3, <1>5, <1>6 DEF Moves, Done, Goto, Inv, ProcsOK, ShownOK
<1>7. CASE Write(p, Merged(p)) /\ Goto(p, "fold") /\ op' = [op EXCEPT ![p] = o]
  BY <1>1, <1>2, <1>4, <1>5, <1>7 DEF Moves, Write, Goto, Inv, ProcsOK, ShownOK
<1>8. CASE Write(p, Merged(p)) /\ Done(p, "sync")
  BY <1>2, <1>3, <1>5, <1>8 DEF Moves, Write, Done, Goto, Inv, ProcsOK, ShownOK
<1>9. \/ mem' = [mem EXCEPT ![p] = Adopted(p)] /\ Done(p, "sync") /\ UNCHANGED disk
      \/ Write(p, Merged(p)) /\ Goto(p, "fold") /\ op' = [op EXCEPT ![p] = o]
      \/ Write(p, Merged(p)) /\ Done(p, "sync")
  BY DEF Commit, o
<1> QED
  BY <1>6, <1>7, <1>8, <1>9

\* The record a fold folds, and what it writes.
Unfolded(p) ==
    IF Keys(op[p].asked) = {} THEN Adopted(p).now
    ELSE PushUndo(Adopted(p).now, Prior(Adopted(p).now, Keys(op[p].asked)))

Folded(p) == [Adopted(p) EXCEPT !.now = Fold(Unfolded(p), op[p].asked)]

LEMMA FoldedIs ==
    ASSUME Inv, NEW p \in Proc, pc[p] # "closed"
    PROVE  /\ Good(Folded(p), shown) /\ Folded(p) # Missing
           /\ Folded(p).branch = Adopted(p).branch /\ Folded(p).parked = Adopted(p).parked
           /\ GoodRecord(Adopted(p).now, shown) /\ GoodRecord(Unfolded(p), shown)
           /\ Folded(p).now = Fold(Unfolded(p), op[p].asked)
<1>1. Good(Adopted(p), shown) /\ GoodRows(op[p].asked, shown)
  BY AdoptedIs, OpIs DEF GoodOp
<1>2. GoodRecord(Adopted(p).now, shown)
  BY <1>1 DEF Good
<1>3. GoodRecord(Unfolded(p), shown)
  BY <1>2, PriorIs, PushUndoIs DEF Unfolded
<1>4. GoodRecord(Fold(Unfolded(p), op[p].asked), shown)
  BY <1>1, <1>3, FoldIs
<1> QED
  BY <1>1, <1>2, <1>3, <1>4, NowIs DEF Folded

LEMMA FoldMoves ==
    ASSUME Inv, NEW p \in Proc, FoldNow(p)
    PROVE  \E l : Moves(p, l, NoOp, "sync", to[p]) /\ l \in {Adopted(p), Folded(p)}
<1>1. pc[p] # "closed" /\ UNCHANGED <<to, shown>>
  BY DEF FoldNow
<1>2. /\ Good(Adopted(p), shown) /\ Adopted(p) # Missing
      /\ Good(Folded(p), shown) /\ Folded(p) # Missing
  BY <1>1, AdoptedIs, FoldedIs
<1>3. GoodOp(NoOp, shown)
  BY OpIs
<1>4. \E l \in {Adopted(p), Folded(p)} :
        mem' = [mem EXCEPT ![p] = l] /\ disk' \in {disk, l} /\ Done(p, "sync")
  BY DEF FoldNow, Folded, Unfolded, Write
<1> QED
  BY <1>1, <1>2, <1>3, <1>4 DEF Moves, Done, Goto, Inv, ProcsOK, ShownOK

\* What an undo writes.
Undone(p) ==
    LET r == Adopted(p).now
    IN  [Adopted(p) EXCEPT !.now = SetOverrides(PopUndo(r), Last(r.undo))]

LEMMA UndoneIs ==
    ASSUME Inv, NEW p \in Proc, pc[p] # "closed", Adopted(p).now.undo # <<>>
    PROVE  /\ Good(Undone(p), shown) /\ Undone(p) # Missing
           /\ Undone(p).branch = Adopted(p).branch /\ Undone(p).parked = Adopted(p).parked
           /\ GoodRecord(Adopted(p).now, shown) /\ GoodRecord(PopUndo(Adopted(p).now), shown)
           /\ Undone(p).now = SetOverrides(PopUndo(Adopted(p).now), Last(Adopted(p).now.undo))
<1>1. Good(Adopted(p), shown)
  BY AdoptedIs
<1>2. GoodRecord(Adopted(p).now, shown)
  BY <1>1 DEF Good
<1>3. GoodRecord(PopUndo(Adopted(p).now), shown) /\ GoodRows(Last(Adopted(p).now.undo), shown)
  BY <1>2, PopUndoIs
<1>4. GoodRecord(SetOverrides(PopUndo(Adopted(p).now), Last(Adopted(p).now.undo)), shown)
  BY <1>3, SetOverridesIs
<1> QED
  BY <1>1, <1>2, <1>3, <1>4, NowIs DEF Undone

LEMMA UndoMoves ==
    ASSUME Inv, NEW p \in Proc, Undo(p)
    PROVE  /\ \E l : Moves(p, l, op[p], "sync", to[p])
           /\ \/ UNCHANGED disk
              \/ disk' = Undone(p) /\ Adopted(p).now.undo # <<>>
<1>1. pc[p] # "closed" /\ UNCHANGED <<op, to, shown>> /\ Goto(p, "sync")
  BY DEF Undo, Press
<1>2. Good(Adopted(p), shown) /\ Adopted(p) # Missing /\ GoodOp(op[p], shown)
  BY <1>1, AdoptedIs, OpIs
<1>3. \/ mem' = [mem EXCEPT ![p] = Adopted(p)] /\ UNCHANGED disk
      \/ Write(p, Undone(p)) /\ Adopted(p).now.undo # <<>>
  BY DEF Undo, Undone
<1>4. CASE mem' = [mem EXCEPT ![p] = Adopted(p)] /\ UNCHANGED disk
  BY <1>1, <1>2, <1>4 DEF Moves, Goto, Inv, ProcsOK, ShownOK
<1>5. CASE Write(p, Undone(p)) /\ Adopted(p).now.undo # <<>>
  BY <1>1, <1>2, <1>5, UndoneIs DEF Moves, Write, Goto, Inv, ProcsOK, ShownOK
<1> QED
  BY <1>3, <1>4, <1>5

\* A process that adopts what is on disk, and perhaps puts it there again.
LEMMA AdoptMoves ==
    ASSUME Inv, NEW p \in Proc, pc[p] # "closed", NEW o \in {op[p], NoOp},
           NEW step \in {"idle", "sync", "render", "switch"}, NEW t \in Branch \cup {None},
           step = "switch" => t \in Branch,
           op' = [op EXCEPT ![p] = o], to' = [to EXCEPT ![p] = t], Goto(p, step),
           mem' = [mem EXCEPT ![p] = Adopted(p)], disk' \in {disk, Adopted(p)}, UNCHANGED shown
    PROVE  Moves(p, Adopted(p), o, step, t)
BY AdoptedIs, OpIs DEF Moves, Goto, Inv, ShownOK

-----------------------------------------------------------------------------
(* Scans.                                                                  *)

LEMMA PruningsAre ==
    ASSUME NEW parked \in [Branch -> Record \cup {None}], NEW new \in Prunings(parked)
    PROVE  /\ new \in [Branch -> Record \cup {None}]
           /\ \A b \in Branch : new[b] \in {parked[b], None}
BY DEF Prunings

\* Another branch in force, its record r.
LEMMA SwitchedIs ==
    ASSUME NEW sh, NEW l, Good(l, sh), NEW b \in Branch, NEW r, GoodRecord(r, sh),
           NEW parked \in [Branch -> Record \cup {None}], parked[b] = None,
           \A x \in Branch : parked[x] \in {l.parked[x], l.now, None}
    PROVE  LET new == [branch |-> b, now |-> r, parked |-> parked]
           IN  Good(new, sh) /\ new # Missing
<1> DEFINE new == [branch |-> b, now |-> r, parked |-> parked]
<1>1. new \in LedgerFile
  BY DEF LedgerFile, GoodRecord
<1>2. \A x \in Branch : parked[x] # None => GoodRecord(parked[x], sh)
  BY DEF Good
<1> QED
  BY <1>1, <1>2, MissingAssumption DEF Good

LEMMA SwitchWrites ==
    ASSUME Inv, NEW p \in Proc, pc[p] = "switch", head = to[p], Adopted(p).branch # to[p],
           NEW sh, \A q \in Path : shown[q] \subseteq sh[q],
           NEW r, GoodRecord(r, sh), Switch(p, r)
    PROVE  \E l : /\ Good(l, sh) /\ l # Missing /\ Write(p, l)
                  /\ l.branch = to[p] /\ l.now = r
                  /\ \A x \in Branch : \/ l.parked[x] = None
                                       \/ x = Adopted(p).branch /\ l.parked[x] = Adopted(p).now
                                       \/ x # to[p] /\ l.parked[x] = Adopted(p).parked[x]
<1> DEFINE a == Adopted(p)
<1>1. Good(a, sh) /\ to[p] \in Branch /\ a \in LedgerFile
  BY AdoptedIs, Monotone DEF Inv, StepsOK, Good
<1> HIDE DEF a
<1> DEFINE kept == [a.parked EXCEPT ![a.branch] = a.now, ![to[p]] = None]
<1>2. /\ a.parked \in [Branch -> Record \cup {None}] /\ a.now \in Record /\ a.branch \in Branch
      /\ a.branch # to[p]
  BY <1>1 DEF LedgerFile, a
<1>3. /\ kept \in [Branch -> Record \cup {None}] /\ kept[to[p]] = None
      /\ \A x \in Branch : \/ x = to[p] /\ kept[x] = None
                           \/ x = a.branch /\ kept[x] = a.now
                           \/ x # to[p] /\ kept[x] = a.parked[x]
  BY <1>1, <1>2
<1> HIDE DEF kept
<1>4. PICK parked \in Prunings(kept) :
        Write(p, [branch |-> to[p], now |-> r, parked |-> parked])
  BY DEF Switch, kept, a
<1>5. /\ parked \in [Branch -> Record \cup {None}]
      /\ \A x \in Branch : parked[x] \in {kept[x], None}
  BY <1>3, PruningsAre
<1>6. parked[to[p]] = None /\ \A x \in Branch : parked[x] \in {a.parked[x], a.now, None}
  BY <1>1, <1>3, <1>5
<1> DEFINE l == [branch |-> to[p], now |-> r, parked |-> parked]
<1>7. Good(l, sh) /\ l # Missing
  BY <1>1, <1>5, <1>6, SwitchedIs
<1>8. l.branch = to[p] /\ l.now = r /\ l.parked = parked
  OBVIOUS
<1> HIDE DEF l
<1>9. Write(p, l)
  BY <1>4 DEF l
<1>10. \A x \in Branch : \/ l.parked[x] = None
                         \/ x = a.branch /\ l.parked[x] = a.now
                         \/ x # to[p] /\ l.parked[x] = a.parked[x]
  BY <1>3, <1>5, <1>8
<1> QED
  BY <1>7, <1>8, <1>9, <1>10 DEF a

\* `git branch -m`: the record in force under another name.
LEMMA RenamedMoves ==
    ASSUME Inv, NEW p \in Proc, SwitchRenamed(p)
    PROVE  \E l : /\ Moves(p, l, op[p], "render", None)
                  /\ disk' = l /\ l.now = Adopted(p).now /\ l.branch = to[p]
                  /\ \A x \in Branch : l.parked[x] \in {Adopted(p).parked[x], None}
                  /\ Adopted(p).branch # to[p] /\ Adopted(p).parked[to[p]] = None
<1> DEFINE a == Adopted(p)
<1>1. /\ pc[p] = "switch" /\ a.branch # to[p] /\ UNCHANGED <<op, shown>>
      /\ Goto(p, "render") /\ to' = [to EXCEPT ![p] = None]
      /\ a.parked[to[p]] = None
  BY DEF SwitchRenamed, Switching, Switched, Renamed
<1>2. Good(a, shown) /\ to[p] \in Branch /\ a \in LedgerFile /\ GoodOp(op[p], shown)
  BY <1>1, AdoptedIs, OpIs DEF Inv, StepsOK, Good
<1>3. PICK parked \in Prunings(a.parked) :
        Write(p, [branch |-> to[p], now |-> a.now, parked |-> parked])
  BY DEF SwitchRenamed
<1> HIDE DEF a
<1>4. /\ a.parked \in [Branch -> Record \cup {None}] /\ GoodRecord(a.now, shown)
  BY <1>2 DEF LedgerFile, Good
<1>5. /\ parked \in [Branch -> Record \cup {None}]
      /\ \A x \in Branch : parked[x] \in {a.parked[x], None}
  BY <1>4, PruningsAre
<1> DEFINE l == [branch |-> to[p], now |-> a.now, parked |-> parked]
<1>7. Good(l, shown) /\ l # Missing
  BY <1>1, <1>2, <1>4, <1>5, SwitchedIs
<1>8. l.now = a.now /\ l.branch = to[p] /\ l.parked = parked
  OBVIOUS
<1>9. Write(p, l)
  BY <1>3
<1> HIDE DEF l
<1>10. Moves(p, l, op[p], "render", None)
  BY <1>1, <1>2, <1>7, <1>9 DEF Moves, Write, Goto, Inv, ProcsOK, ShownOK
<1> QED
  BY <1>1, <1>5, <1>8, <1>9, <1>10 DEF a, Write

\* Back on a branch.
LEMMA LoadMoves ==
    ASSUME Inv, NEW p \in Proc, SwitchLoad(p)
    PROVE  \E l : /\ Moves(p, l, op[p], "render", None)
                  /\ disk' = l /\ l.now = Adopted(p).parked[to[p]] /\ l.now # None
                  /\ l.branch = to[p] /\ Adopted(p).branch # to[p]
                  /\ \A x \in Branch : \/ l.parked[x] = None
                                       \/ x = Adopted(p).branch /\ l.parked[x] = Adopted(p).now
                                       \/ x # to[p] /\ l.parked[x] = Adopted(p).parked[x]
<1> DEFINE r == Adopted(p).parked[to[p]]
<1>1. /\ pc[p] = "switch" /\ Adopted(p).branch # to[p] /\ head = to[p] /\ UNCHANGED <<op, shown>>
      /\ Goto(p, "render") /\ to' = [to EXCEPT ![p] = None]
      /\ r # None /\ Switch(p, r)
  BY DEF SwitchLoad, Switching, Switched
<1>2. Good(Adopted(p), shown) /\ to[p] \in Branch /\ GoodOp(op[p], shown)
  BY <1>1, AdoptedIs, OpIs DEF Inv, StepsOK
<1>3. GoodRecord(r, shown)
  BY <1>1, <1>2 DEF Good
<1> HIDE DEF r
<1>4. PICK l : /\ Good(l, shown) /\ l # Missing /\ Write(p, l)
               /\ l.branch = to[p] /\ l.now = r
               /\ \A x \in Branch : \/ l.parked[x] = None
                                    \/ x = Adopted(p).branch /\ l.parked[x] = Adopted(p).now
                                    \/ x # to[p] /\ l.parked[x] = Adopted(p).parked[x]
  BY <1>1, <1>3, SwitchWrites
<1>5. Moves(p, l, op[p], "render", None)
  BY <1>1, <1>2, <1>4 DEF Moves, Write, Goto, Inv, ProcsOK, ShownOK
<1> QED
  BY <1>1, <1>4, <1>5 DEF r, Write

\* The first time on a branch: a copy of the record left, taken back to the
\* merge-base at some paths where the base was seen.
LEMMA FirstSightMoves ==
    ASSUME Inv, NEW p \in Proc, SwitchFirstSight(p)
    PROVE  \E l : \E m \in MergeBases, back \in SUBSET Path :
              /\ Moves(p, l, op[p], "render", None)
              /\ disk' = l /\ l.branch = to[p] /\ Adopted(p).branch # to[p]
              /\ Adopted(p).parked[to[p]] = None
              /\ Baseline(l.now) = [q \in Path |-> IF q \in back THEN m[q]
                                                   ELSE Baseline(Adopted(p).now)[q]]
              /\ l.now.undo = <<>>
              /\ \A x \in Branch : \/ l.parked[x] = None
                                   \/ x = Adopted(p).branch /\ l.parked[x] = Adopted(p).now
                                   \/ x # to[p] /\ l.parked[x] = Adopted(p).parked[x]
<1> DEFINE a == Adopted(p)
<1>1. /\ pc[p] = "switch" /\ a.branch # to[p] /\ head = to[p] /\ UNCHANGED op
      /\ Goto(p, "render") /\ to' = [to EXCEPT ![p] = None]
      /\ a.parked[to[p]] = None
  BY DEF SwitchFirstSight, Switching, Switched
<1>2. Good(a, shown) /\ to[p] \in Branch /\ GoodOp(op[p], shown) /\ GoodRecord(a.now, shown)
  BY <1>1, AdoptedIs, OpIs DEF Inv, StepsOK, Good
<1> HIDE DEF a
<1> DEFINE Back(m, changed, first) ==
             {q \in changed : /\ Baseline(a.now)[q] # m[q]
                              /\ first \/ SeenState(a, q, m[q])}
           Copy(m, folds) ==
             [tree |-> [q \in Path |-> IF q \in folds THEN m[q] ELSE a.now.tree[q]],
              over |-> [q \in Path |-> IF q \in folds
                                       THEN [a.now.over[q] EXCEPT !.blob = None]
                                       ELSE a.now.over[q]],
              undo |-> <<>>]
<1>3. PICK m \in MergeBases, changed \in SUBSET Path, first \in BOOLEAN :
        /\ Switch(p, Copy(m, Back(m, changed, first)))
        /\ IF first THEN Show([q \in Path |-> IF q \in Back(m, changed, first) THEN m[q] ELSE None])
           ELSE UNCHANGED shown
  BY DEF SwitchFirstSight, a
<1> DEFINE folds == Back(m, changed, first)
           r == Copy(m, folds)
           f == [q \in Path |-> IF q \in folds THEN m[q] ELSE None]
<1>4. m \in Tree /\ folds \in SUBSET Path
  BY MergeBasesAssumption
<1>5. /\ shown' \in [Path -> SUBSET Entry] /\ \A q \in Path : shown[q] \subseteq shown'[q]
      /\ \A q \in folds : m[q] \in shown'[q]
  <2>1. CASE first
    <3>1. f \in Some
      BY <1>4 DEF Some, Tree
    <3> HIDE DEF f
    <3>2. Show(f)
      BY <1>3, <2>1 DEF f
    <3>3. /\ shown' \in [Path -> SUBSET Entry] /\ \A q \in Path : shown[q] \subseteq shown'[q]
          /\ GoodRows(f, shown')
      BY <3>1, <3>2, ShowIs DEF Inv
    <3>4. \A q \in folds : f[q] = m[q] /\ f[q] # None
      BY <1>4, NoneAssumption DEF f, Tree
    <3> QED
      BY <1>4, <3>3, <3>4 DEF GoodRows
  <2>2. CASE ~first
    <3>1. UNCHANGED shown
      BY <1>3, <2>2
    <3>2. \A q \in folds : SeenState(a, q, m[q])
      BY <2>2
    <3>3. ASSUME NEW q \in folds
          PROVE  m[q] \in shown[q]
      <4>1. PICK b \in Branch : a.parked[b] # None /\ Baseline(a.parked[b])[q] = m[q]
        BY <3>2 DEF SeenState
      <4>2. GoodRecord(a.parked[b], shown)
        BY <1>2, <4>1 DEF Good
      <4> QED
        BY <1>4, <4>1, <4>2, BaselineIs
    <3> QED
      BY <3>1, <3>3 DEF Inv, ShownOK
  <2> QED
    BY <2>1, <2>2
<1>6. Switch(p, r)
  BY <1>3
<1> HIDE DEF folds
<1>7. /\ r.undo = <<>>
      /\ r.tree = [q \in Path |-> IF q \in folds THEN m[q] ELSE a.now.tree[q]]
      /\ r.over = [q \in Path |-> IF q \in folds THEN [a.now.over[q] EXCEPT !.blob = None]
                                  ELSE a.now.over[q]]
      /\ r = [tree |-> r.tree, over |-> r.over, undo |-> <<>>]
  OBVIOUS
<1> HIDE DEF r, f, Copy
<1>8. a.now.tree \in Tree /\ a.now.over \in [Path -> Override]
  BY <1>2, RecordIs DEF GoodRecord
<1>9. ASSUME NEW q \in Path
      PROVE  /\ r.over[q] \in Override
             /\ r.over[q].blob = IF q \in folds THEN None ELSE a.now.over[q].blob
  <2>1. PICK o \in Override : o = a.now.over[q]
    BY <1>8
  <2>2. [o EXCEPT !.blob = None] \in Override /\ [o EXCEPT !.blob = None].blob = None
    BY DEF Override
  <2>3. r.over[q] = IF q \in folds THEN [o EXCEPT !.blob = None] ELSE o
    BY <1>7, <2>1
  <2> QED
    BY <2>1, <2>2, <2>3
<1>10. r \in Record /\ Len(r.undo) \leq UndoCap
  <2>1. r.tree \in Tree
    BY <1>4, <1>7, <1>8 DEF Tree
  <2>2. r.over \in [Path -> Override]
    BY <1>7, <1>9
  <2>3. <<>> \in Seq(Some) /\ Len(<<>>) = 0
    OBVIOUS
  <2>4. [tree |-> r.tree, over |-> r.over, undo |-> <<>>] \in Record
    BY <2>1, <2>2, <2>3 DEF Record
  <2> QED
    BY <1>7, <2>3, <2>4, UndoCapAssumption
<1>11. Holds(r, shown')
  <2>1. GoodRecord(a.now, shown')
    BY <1>2, <1>5, Monotone
  <2>2. Len(r.undo) = 0
    BY <1>7
  <2> QED
    BY <1>5, <1>7, <1>9, <2>1, <2>2 DEF Holds, GoodRecord
<1>12. GoodRecord(r, shown')
  BY <1>10, <1>11 DEF GoodRecord
<1>13. Baseline(r) = [q \in Path |-> IF q \in folds THEN m[q] ELSE Baseline(a.now)[q]]
  BY <1>7, <1>9 DEF Baseline
<1>14. PICK l : /\ Good(l, shown') /\ l # Missing /\ Write(p, l)
                /\ l.branch = to[p] /\ l.now = r
                /\ \A x \in Branch : \/ l.parked[x] = None
                                     \/ x = a.branch /\ l.parked[x] = a.now
                                     \/ x # to[p] /\ l.parked[x] = a.parked[x]
  BY <1>1, <1>5, <1>6, <1>12, SwitchWrites DEF a
<1>15. GoodOp(op[p], shown')
  BY <1>2, <1>5, Monotone
<1>16. Moves(p, l, op[p], "render", None)
  BY <1>1, <1>5, <1>14, <1>15 DEF Moves, Write, Goto, Inv, ProcsOK
<1>17. /\ disk' = l /\ l.branch = to[p] /\ a.branch # to[p]
       /\ a.parked[to[p]] = None /\ l.now.undo = <<>>
       /\ Baseline(l.now) = [q \in Path |-> IF q \in folds THEN m[q] ELSE Baseline(a.now)[q]]
  BY <1>1, <1>7, <1>13, <1>14 DEF Write
<1> QED
  BY <1>4, <1>14, <1>16, <1>17, Zenon DEF a

-----------------------------------------------------------------------------
(* The invariant.                                                          *)

LEMMA OpenMoves ==
    ASSUME Inv, NEW p \in Proc, Open(p)
    PROVE  Moves(p, disk, op[p], "sync", to[p])
BY OpIs DEF Open, Moves, Goto, Inv, ProcsOK, ShownOK, LedgersOK

LEMMA ScanMoves ==
    ASSUME Inv, NEW p \in Proc, Rescan(p) \/ Sync(p) \/ NoSwitch(p) \/ Render(p)
    PROVE  /\ \E l, step, t : Moves(p, l, op[p], step, t) /\ step # "commit" /\ step # "fold"
           /\ UNCHANGED <<disk, shown>>
<1>1. CASE Rescan(p)
  BY <1>1, GoesOn DEF Rescan, Inv, ShownOK
<1>2. CASE Render(p)
  BY <1>2, GoesOn DEF Render, Inv, ShownOK
<1>3. CASE Sync(p)
  <2>1. Adopted(p).branch \in Branch /\ pc[p] # "closed" /\ UNCHANGED <<disk, op, shown>>
        /\ mem' = [mem EXCEPT ![p] = Adopted(p)]
    BY <1>3, AdoptedIs DEF Sync, Good, LedgerFile
  <2>2. CASE Goto(p, "render") /\ UNCHANGED to
    BY <2>1, <2>2, AdoptMoves DEF Inv, ProcsOK
  <2>3. CASE head \notin {Adopted(p).branch, Detached} /\ Goto(p, "switch")
             /\ to' = [to EXCEPT ![p] = head]
    BY <2>1, <2>3, AdoptMoves DEF Inv, ProcsOK, GitOK
  <2> QED
    BY <1>3, <2>1, <2>2, <2>3 DEF Sync
<1>4. CASE NoSwitch(p)
  <2>1. /\ pc[p] # "closed" /\ UNCHANGED <<disk, op, shown>>
        /\ Goto(p, "render") /\ to' = [to EXCEPT ![p] = None]
    BY <1>4 DEF NoSwitch, Switched
  <2>2. CASE UNCHANGED mem
    BY <2>1, <2>2, AdoptedIs, OpIs DEF Moves, Goto, Inv, ProcsOK, ShownOK
  <2>3. CASE mem' = [mem EXCEPT ![p] = Adopted(p)]
    BY <2>1, <2>3, AdoptMoves DEF Inv, ProcsOK
  <2> QED
    BY <1>4, <2>1, <2>2, <2>3 DEF NoSwitch
<1> QED
  BY <1>1, <1>2, <1>3, <1>4

\* Every step of a process but its death is a move.
LEMMA ProcessMoves ==
    ASSUME Inv, NEW p \in Proc, Process(p)
    PROVE  Crash(p) \/ \E l, o, step, t : Moves(p, l, o, step, t)
<1>1. CASE Open(p)
  BY <1>1, OpenMoves
<1>2. CASE Accept(p)
  BY <1>2, FileMoves, HunkMoves, GroupMoves, AllMoves DEF Accept
<1>3. CASE Flagging(p)
  BY <1>3, FlaggingMoves
<1>4. CASE Undo(p)
  BY <1>4, UndoMoves
<1>5. CASE Snooze(p)
  <2>1. /\ pc[p] # "closed" /\ UNCHANGED <<op, to, shown>> /\ Goto(p, "sync")
        /\ mem' = [mem EXCEPT ![p] = Adopted(p)] /\ disk' = Adopted(p)
    BY <1>5 DEF Snooze, Press, Write
  <2>2. op' = [op EXCEPT ![p] = op[p]] /\ to' = [to EXCEPT ![p] = to[p]] /\ to[p] \in Branch \cup {None}
    BY <2>1 DEF Inv, ProcsOK
  <2> QED
    BY <2>1, <2>2, AdoptMoves
<1>6. CASE Commit(p)
  BY <1>6, CommitMoves
<1>7. CASE FoldNow(p)
  BY <1>7, FoldMoves
<1>8. CASE LockBusy(p)
  <2>1. /\ pc[p] # "closed" /\ UNCHANGED <<disk, to, shown>> /\ Goto(p, "idle")
        /\ mem' = [mem EXCEPT ![p] = Adopted(p)] /\ op' = [op EXCEPT ![p] = NoOp]
    BY <1>8 DEF LockBusy, Done
  <2>2. to' = [to EXCEPT ![p] = to[p]] /\ to[p] \in Branch \cup {None}
    BY <2>1 DEF Inv, ProcsOK
  <2> QED
    BY <2>1, <2>2, AdoptMoves
<1>9. CASE Scan(p)
  <2>1. CASE Rescan(p) \/ Sync(p) \/ NoSwitch(p) \/ Render(p)
    BY <2>1, ScanMoves
  <2>2. CASE SwitchRenamed(p) \/ SwitchLoad(p) \/ SwitchFirstSight(p)
    BY <2>2, RenamedMoves, LoadMoves, FirstSightMoves
  <2> QED
    BY <1>9, <2>1, <2>2 DEF Scan
<1> QED
  BY <1>1, <1>2, <1>3, <1>4, <1>5, <1>6, <1>7, <1>8, <1>9 DEF Process

LEMMA CrashKeeps ==
    ASSUME Inv, NEW p \in Proc, Crash(p)
    PROVE  Inv'
<1>1. ShownOK' /\ GitOK' /\ keys' \in 0..MaxKeys
  BY DEF Crash, Inv, ShownOK, GitOK, git
<1>2. EmptyPile \in Pile
  BY DEF EmptyPile, Pile, Tree, Entry
<1>3. PilesOK'
  BY <1>2 DEF Crash, Inv, PilesOK
<1>4. NoOp \in Operation
  BY OpIs DEF GoodOp
<1>5. ProcsOK' /\ StepsOK'
  BY <1>4 DEF Crash, Done, Goto, Inv, ProcsOK, StepsOK
<1>6. LedgersOK'
  BY DEF Crash, Inv, ProcsOK, LedgersOK
<1>7. OpsOK'
  BY OpIs DEF Crash, Done, Goto, Inv, ProcsOK, OpsOK
<1> QED
  BY <1>1, <1>3, <1>5, <1>6, <1>7 DEF Inv

\* What a process's step does to the pile and the keys.
LEMMA PilesAndKeys ==
    ASSUME Inv, NEW p \in Proc, Process(p), ~Crash(p)
    PROVE  PilesOK' /\ keys' \in 0..MaxKeys /\ GitOK'
<1>1. keys' = keys \/ (keys < MaxKeys /\ keys' = keys + 1)
  <2>1. CASE Accept(p)
    BY <2>1 DEF Accept, AcceptFile, AcceptHunk, AcceptGroup, AcceptAll, Press
  <2>2. CASE Flagging(p) \/ Undo(p) \/ Snooze(p)
    BY <2>2 DEF Flagging, Flag, Unflag, Undo, Snooze, Press
  <2>3. CASE Open(p) \/ Commit(p) \/ FoldNow(p) \/ LockBusy(p)
    BY <2>3 DEF Open, Commit, FoldNow, LockBusy
  <2>4. CASE Scan(p)
    BY <2>4 DEF Scan, Rescan, Sync, NoSwitch, SwitchRenamed, SwitchLoad, SwitchFirstSight, Render
  <2> QED
    BY <2>1, <2>2, <2>3, <2>4 DEF Process
<1>2. keys' \in 0..MaxKeys
  BY <1>1, MaxKeysAssumption DEF Inv
<1>3. \/ pile' = pile
      \/ Render(p)
  BY DEF Process, Accept, Flagging, Scan, AcceptFile, AcceptHunk, AcceptGroup, AcceptAll,
         Flag, Unflag, Open, Undo, Snooze, Commit, FoldNow, LockBusy, Rescan, Sync, NoSwitch,
         SwitchRenamed, SwitchLoad, SwitchFirstSight
<1>4. CASE Render(p)
  <2>1. Good(mem[p], shown)
    BY <1>4, AdoptedIs DEF Render
  <2>2. Baseline(mem[p].now) \in Tree /\ mem[p].branch \in Branch
    BY <2>1, BaselineIs DEF Good, LedgerFile
  <2> QED
    BY <1>2, <1>4, <2>2 DEF Render, Inv, PilesOK, Pile, GitOK, git
<1>5. CASE pile' = pile
  <2>1. UNCHANGED git /\ worktree' = worktree
    BY DEF Process, Accept, Flagging, Scan, AcceptFile, AcceptHunk, AcceptGroup, AcceptAll, Crash,
           Flag, Unflag, Open, Undo, Snooze, Commit, FoldNow, LockBusy, Rescan, Sync, NoSwitch,
           SwitchRenamed, SwitchLoad, SwitchFirstSight, Render, git
  <2> QED
    BY <1>2, <1>5, <2>1 DEF Inv, PilesOK, GitOK, git
<1> QED
  BY <1>3, <1>4, <1>5

LEMMA InvStep == Inv /\ [Next]_vars => Inv'
<1> SUFFICES ASSUME Inv, [Next]_vars PROVE Inv'
  OBVIOUS
<1>1. CASE UNCHANGED vars
  BY <1>1 DEF vars, git, Inv, ShownOK, GitOK, PilesOK, ProcsOK, StepsOK, LedgersOK, OpsOK
<1>2. ASSUME NEW p \in Proc, Process(p)
      PROVE  Inv'
  <2>1. CASE Crash(p)
    BY <2>1, CrashKeeps
  <2>2. CASE ~Crash(p)
    <3>1. PICK l, o, step, t : Moves(p, l, o, step, t)
      BY <1>2, <2>2, ProcessMoves
    <3>2. ShownOK' /\ ProcsOK' /\ StepsOK' /\ LedgersOK' /\ OpsOK'
      BY <3>1, MovesKeep
    <3> QED
      BY <1>2, <2>2, <3>2, PilesAndKeys DEF Inv
  <2> QED
    BY <2>1, <2>2
<1>3. ASSUME NEW q \in Path, Edit(q)
      PROVE  Inv'
  <2>1. GitOK'
    BY <1>3 DEF Edit, Inv, GitOK, Tree, git
  <2> QED
    BY <1>3, <2>1 DEF Edit, Inv, ShownOK, PilesOK, ProcsOK, StepsOK, LedgersOK, OpsOK
<1>4. CASE Checkout \/ MoveRefs
  <2>1. GitOK'
    BY <1>4 DEF Checkout, MoveRefs, Inv, GitOK
  <2>2. UNCHANGED <<disk, mem, pile, pc, op, to, keys, shown>>
    BY <1>4 DEF Checkout, MoveRefs
  <2> QED
    BY <2>1, <2>2 DEF Inv, ShownOK, PilesOK, ProcsOK, StepsOK, LedgersOK, OpsOK
<1>5. CASE LoseLedger
  BY <1>5 DEF LoseLedger, git, Inv, ShownOK, GitOK, PilesOK, ProcsOK, StepsOK, LedgersOK, OpsOK
<1> QED
  BY <1>1, <1>2, <1>3, <1>4, <1>5 DEF Next

LEMMA InitInv == Init => Inv
<1> SUFFICES ASSUME Init PROVE Inv
  OBVIOUS
<1>1. PICK t \in Tree :
        /\ disk = [branch |-> head, now |-> FirstRecord(t), parked |-> [b \in Branch |-> None]]
        /\ shown = [q \in Path |-> {t[q]}]
  BY DEF Init
<1>2. ShownOK /\ GitOK /\ keys \in 0..MaxKeys
  BY <1>1, MaxKeysAssumption DEF Init, ShownOK, GitOK, Tree
<1>3. EmptyPile \in Pile
  BY DEF EmptyPile, Pile, Tree, Entry
<1>4. GoodOp(NoOp, shown)
  BY NoneAssumption DEF GoodOp, GoodRows, GoodStaged, NoOp, Nothing, Some, Operation
<1>5. PilesOK /\ ProcsOK /\ StepsOK /\ OpsOK
  BY <1>3, <1>4 DEF Init, PilesOK, ProcsOK, StepsOK, OpsOK, GoodOp
<1>6. NoOverride \in Override
  BY DEF NoOverride, Override
<1>7. GoodRecord(FirstRecord(t), shown)
  <2>1. FirstRecord(t) \in Record
    BY <1>6 DEF FirstRecord, Record
  <2>2. Len(FirstRecord(t).undo) = 0
    BY DEF FirstRecord
  <2> QED
    BY <1>1, <2>1, <2>2, UndoCapAssumption DEF GoodRecord, Holds, FirstRecord, NoOverride
<1>8. Good(disk, shown)
  BY <1>1, <1>7 DEF Good, LedgerFile, Init, GoodRecord
<1>9. LedgersOK
  BY <1>8 DEF Init, LedgersOK
<1> QED
  BY <1>2, <1>5, <1>9 DEF Inv

\* For any number of processes, paths, hunks, branches and keystrokes the
\* ledgers, operations and piles have their types, and no undo stack passes
\* its cap.
THEOREM TypeCorrect == Spec => []TypeOK
<1>1. Inv => TypeOK
  <2> SUFFICES ASSUME Inv PROVE TypeOK
    OBVIOUS
  <2>1. disk \in LedgerFile \cup {Missing}
    BY DEF Inv, LedgersOK, Good
  <2>2. \A l \in Ledgers : \A r \in Records(l) : Len(r.undo) \leq UndoCap
    BY DEF Inv, LedgersOK, Ledgers, Records, Good, GoodRecord
  <2> QED
    BY <2>1, <2>2 DEF Inv, ShownOK, GitOK, PilesOK, ProcsOK, TypeOK
<1> QED
  BY <1>1, InitInv, InvStep, PTL DEF Spec

\* For any number of processes, paths, hunks and branches, whatever is edited,
\* checked out, renamed, lost or killed: no record's baseline is content the
\* user was neither shown nor found at first sight.
THEOREM NothingHidden == Spec => []NothingUnseenHidden
<1>1. Inv => NothingUnseenHidden
  BY BaselineIs DEF Inv, LedgersOK, Ledgers, Records, Good, NothingUnseenHidden
<1> QED
  BY <1>1, InitInv, InvStep, PTL DEF Spec

-----------------------------------------------------------------------------
(* What an accept staged is what its commit writes.                        *)

\* A process's step is its own.
LEMMA OthersStay ==
    ASSUME Inv, NEW r \in Proc, Process(r), NEW p \in Proc, p # r
    PROVE  /\ mem'[p] = mem[p] /\ op'[p] = op[p] /\ pc'[p] = pc[p] /\ pile'[p] = pile[p]
<1>1. pile'[p] = pile[p]
  <2>1. \/ pile' = pile \/ Render(r) \/ Crash(r)
    BY DEF Process, Accept, Flagging, Scan, AcceptFile, AcceptHunk, AcceptGroup, AcceptAll,
           Flag, Unflag, Open, Undo, Snooze, Commit, FoldNow, LockBusy, Rescan, Sync, NoSwitch,
           SwitchRenamed, SwitchLoad, SwitchFirstSight
  <2> QED
    BY <2>1 DEF Render, Crash, Inv, PilesOK
<1>2. CASE Crash(r)
  BY <1>1, <1>2 DEF Crash, Done, Goto, Inv, ProcsOK
<1>3. CASE ~Crash(r)
  <2>1. PICK l, o, step, t : Moves(r, l, o, step, t)
    BY <1>3, ProcessMoves
  <2> QED
    BY <1>1, <2>1 DEF Moves, Inv, ProcsOK
<1> QED
  BY <1>2, <1>3

\* Until its commit, an accept's rows are staged, each as the override that
\* makes the accepted entry the baseline over the seen tree in memory.
Staged == \A p \in Proc : pc[p] = "commit" /\ op[p].asked # Nothing =>
    /\ op[p].checked /\ op[p].on = mem[p].branch
    /\ \A q \in Path : op[p].asked[q] # None =>
          /\ op[p].staged[q] # None /\ Baseline(mem[p].now)[q] = op[p].asked[q]
          /\ op[p].staged[q].blob =
                IF op[p].asked[q] = mem[p].now.tree[q] THEN None ELSE op[p].asked[q]

\* A commit is only reached from a keystroke that stages something.
LEMMA ToCommit ==
    ASSUME Inv, NEW p \in Proc, Process(p), pc'[p] = "commit"
    PROVE  /\ pc[p] = "idle" /\ UNCHANGED <<disk, head, refs>>
           /\ \A q \in Path : shown[q] \subseteq shown'[q]
           /\ \/ \E f : GoodRows(f, shown') /\ Stage(p, f)
              \/ \E q \in Path, flags \in SUBSET Note : StageFlags(p, q, flags)
<1> USE DEF Inv, ProcsOK
<1>1. Accept(p) \/ Flagging(p)
  <2>1. ~Commit(p)
    <3>1. ASSUME Commit(p) PROVE FALSE
      <4>1. PICK l, o, step : Moves(p, l, o, step, to[p]) /\ step \in {"sync", "fold"}
        BY <3>1, CommitMoves
      <4> QED
        BY <4>1 DEF Moves
    <3> QED
      BY <3>1
  <2>2. ~Open(p) /\ ~Undo(p) /\ ~Snooze(p) /\ ~FoldNow(p) /\ ~LockBusy(p) /\ ~Crash(p)
    BY DEF Open, Undo, Snooze, FoldNow, LockBusy, Crash, Done, Goto
  <2>3. ~Scan(p)
    BY DEF Scan, Rescan, Sync, NoSwitch, SwitchRenamed, SwitchLoad, SwitchFirstSight, Switched,
           Render, Goto
  <2> QED
    BY <2>1, <2>2, <2>3 DEF Process
<1>2. pc[p] = "idle" /\ UNCHANGED <<disk, head, refs>>
  BY <1>1 DEF Accept, Flagging, AcceptFile, AcceptHunk, AcceptGroup, AcceptAll, Flag, Unflag,
              Press, git
<1>3. ~Declined(p) /\ ~Goto(p, "fold")
  BY DEF Declined, Goto
<1>4. \A q \in Path : shown[q] \subseteq shown'[q]
  <2>1. ~Crash(p)
    BY DEF Crash, Done, Goto
  <2> QED
    BY <2>1, ProcessMoves DEF Moves
<1>5. CASE Accept(p)
  <2>1. PICK f : Stage(p, f)
    BY <1>3, <1>5 DEF Accept, AcceptFile, AcceptHunk, AcceptGroup, AcceptAll, StageRows
  <2>2. op'[p].asked = f
    BY <2>1 DEF Stage
  <2>3. GoodOp(op'[p], shown')
    BY InvStep DEF Next, OpsOK
  <2> QED
    BY <1>2, <1>4, <2>1, <2>2, <2>3 DEF GoodOp
<1>6. CASE Flagging(p)
  <2>1. \A q \in Path : mem[p].now.over[q].flags \in SUBSET Note
    BY <1>2, AdoptedIs DEF Good, GoodRecord, Record, Override
  <2>2. \E q \in Path, flags \in SUBSET Note : StageFlags(p, q, flags)
    BY <1>3, <1>6, <2>1 DEF Flagging, Flag, Unflag
  <2> QED
    BY <1>2, <1>4, <2>2
<1> QED
  BY <1>1, <1>5, <1>6

\* What set_override staged, and the ledger it staged it on.
LEMMA StageIs ==
    ASSUME Inv, NEW p \in Proc, pc[p] = "idle", NEW f, GoodRows(f, shown'), Stage(p, f),
           \A q \in Path : shown[q] \subseteq shown'[q]
    PROVE  /\ op'[p].asked = f /\ op'[p].checked /\ op'[p].on = mem[p].branch
           /\ mem'[p].branch = mem[p].branch /\ mem'[p].parked = mem[p].parked
           /\ mem'[p].now.tree = mem[p].now.tree /\ mem'[p].now # None
           /\ \A q \in Path : f[q] # None =>
                /\ op'[p].staged[q] # None /\ Baseline(mem'[p].now)[q] = f[q]
                /\ op'[p].staged[q].blob = IF f[q] = mem[p].now.tree[q] THEN None ELSE f[q]
<1> DEFINE before == mem[p].now
           after == SetOverrides(before, f)
<1>1. Good(mem[p], shown')
  BY AdoptedIs, Monotone
<1>2. /\ GoodRecord(before, shown') /\ GoodRecord(after, shown') /\ after.tree = before.tree
      /\ \A q \in Path : f[q] # None => Baseline(after)[q] = f[q]
  BY <1>1, SetOverridesIs DEF Good
<1>3. /\ mem'[p].branch = mem[p].branch /\ mem'[p].parked = mem[p].parked
      /\ mem'[p].now = after
  BY <1>1 DEF Stage, Inv, ProcsOK, Good, LedgerFile
<1>4. /\ op'[p].asked = f /\ op'[p].checked /\ op'[p].on = mem[p].branch
      /\ op'[p].staged = [q \in Path |-> IF f[q] # None THEN after.over[q] ELSE None]
  BY DEF Stage, Inv, ProcsOK
<1>5. after \in Record /\ after # None
  BY <1>2, MissingAssumption DEF GoodRecord
<1>6. \A q \in Path : f[q] # None =>
        /\ after.over[q] # None
        /\ after.over[q].blob = IF f[q] = before.tree[q] THEN None ELSE f[q]
  <2>1. \A q \in Path : after.over[q] \in Override /\ before.over[q] \in Override
    BY <1>2, RecordIs DEF GoodRecord
  <2>2. \A q \in Path : f[q] # None =>
          after.over[q] = [before.over[q] EXCEPT !.blob = IF f[q] = before.tree[q] THEN None ELSE f[q]]
    BY <1>2 DEF SetOverrides, GoodRecord, Record
  <2> QED
    BY <2>1, <2>2, NoneIsNothing DEF Override
<1> HIDE DEF before, after
<1> QED
  BY <1>2, <1>3, <1>4, <1>5, <1>6 DEF before

LEMMA FlagsStage ==
    ASSUME Inv, NEW p \in Proc, pc[p] = "idle", NEW q \in Path, NEW flags \in SUBSET Note,
           StageFlags(p, q, flags)
    PROVE  /\ op'[p].asked = Nothing
           /\ mem'[p].branch = mem[p].branch /\ mem'[p].parked = mem[p].parked
           /\ mem'[p].now.tree = mem[p].now.tree /\ mem'[p].now # None
           /\ \A x \in Path : op'[p].staged[x] # None =>
                                op'[p].staged[x].blob = mem[p].now.over[x].blob
<1> DEFINE r == mem[p].now
           new == [r EXCEPT !.over[q].flags = flags]
<1>1. /\ r \in Record /\ r.tree \in Tree /\ r.over \in [Path -> Override]
      /\ r.undo \in Seq(Some) /\ mem[p] \in LedgerFile
  BY AdoptedIs, RecordIs DEF Good, GoodRecord
<1>2. new.tree = r.tree /\ new \in Record /\ new # None
  <2>1. /\ new.tree = r.tree /\ new.over = [r.over EXCEPT ![q].flags = flags]
        /\ new \in Record
    BY <1>1 DEF Record, Override
  <2> QED
    BY <2>1, MissingAssumption
<1>3. /\ mem'[p].branch = mem[p].branch /\ mem'[p].parked = mem[p].parked
      /\ mem'[p].now = new
  BY <1>1 DEF StageFlags, Inv, ProcsOK, LedgerFile
<1>4. /\ op'[p].asked = Nothing
      /\ op'[p].staged = [Nothing EXCEPT ![q] = [r.over[q] EXCEPT !.flags = flags]]
  BY DEF StageFlags, Inv, ProcsOK, NoOp
<1>5. [r.over[q] EXCEPT !.flags = flags].blob = r.over[q].blob
  BY <1>1 DEF Override
<1> HIDE DEF new
<1> QED
  BY <1>2, <1>3, <1>4, <1>5 DEF Nothing

LEMMA StagedStep ==
    ASSUME Inv, Staged, [Next]_vars
    PROVE  Staged'
<1> USE DEF Inv, ProcsOK
<1>1. CASE UNCHANGED <<mem, pc, op>>
  BY <1>1 DEF Staged
<1>2. ASSUME NEW r \in Proc, Process(r), NEW p \in Proc,
             pc'[p] = "commit", op'[p].asked # Nothing
      PROVE  /\ op'[p].checked /\ op'[p].on = mem'[p].branch
             /\ \A q \in Path : op'[p].asked[q] # None =>
                  /\ op'[p].staged[q] # None /\ Baseline(mem'[p].now)[q] = op'[p].asked[q]
                  /\ op'[p].staged[q].blob =
                       IF op'[p].asked[q] = mem'[p].now.tree[q] THEN None ELSE op'[p].asked[q]
  <2>1. CASE p # r
    BY <1>2, <2>1, OthersStay DEF Staged
  <2>2. CASE p = r
    <3>1. pc[p] = "idle" /\ (\A q \in Path : shown[q] \subseteq shown'[q]) /\ (\/ \E f : GoodRows(f, shown') /\ Stage(p, f)
                             \/ \E q \in Path, flags \in SUBSET Note : StageFlags(p, q, flags))
      BY <1>2, <2>2, ToCommit
    <3>2. PICK f : GoodRows(f, shown') /\ Stage(p, f)
      BY <1>2, <3>1, FlagsStage
    <3> QED
      BY <3>1, <3>2, StageIs
  <2> QED
    BY <2>1, <2>2
<1>3. (\E r \in Proc : Process(r)) \/ UNCHANGED <<mem, pc, op>>
  BY DEF Next, vars, Edit, Checkout, MoveRefs, LoseLedger
<1> QED
  BY <1>1, <1>2, <1>3 DEF Staged

\* A commit that is written gives every accepted row its baseline, except where
\* the row was left to the seen tree, and the tree on disk has another entry.
LEMMA CommitLands ==
    ASSUME Inv, Staged, NEW p \in Proc, Commit(p), disk' # disk,
           NEW q \in Path, op[p].asked[q] # None
    PROVE  /\ disk' = Merged(p) /\ ~BranchMoved(op[p].on) /\ op[p].on = mem[p].branch
           /\ Baseline(disk'.now)[q] = IF op[p].asked[q] = mem[p].now.tree[q]
                                       THEN Base(p).tree[q] ELSE op[p].asked[q]
<1>1. /\ pc[p] = "commit" /\ disk' = Merged(p)
      /\ op[p].checked => ~BranchMoved(op[p].on)
  BY DEF Commit, Write
<1>2. op[p].asked # Nothing
  BY DEF Nothing
<1>3. /\ op[p].checked /\ op[p].on = mem[p].branch /\ op[p].staged[q] # None
      /\ op[p].staged[q].blob =
            IF op[p].asked[q] = mem[p].now.tree[q] THEN None ELSE op[p].asked[q]
  BY <1>1, <1>2 DEF Staged
<1>4. /\ GoodRecord(Pushed(p), shown) /\ GoodRecord(Base(p), shown)
      /\ Merged(p).now = Replay(Pushed(p), op[p].staged)
  BY <1>1, MergedIs
<1>5. GoodStaged(op[p].staged, shown)
  BY OpIs DEF GoodOp
<1>6. /\ Merged(p).now.tree = Pushed(p).tree
      /\ Merged(p).now.over[q] = op[p].staged[q]
  BY <1>3, <1>4, <1>5, ReplayIs
<1>7. Pushed(p).tree = Base(p).tree
  BY <1>4 DEF Pushed, PushUndo, GoodRecord, Record
<1>8. Baseline(Merged(p).now)[q] = IF op[p].staged[q].blob # None THEN op[p].staged[q].blob
                                   ELSE Base(p).tree[q]
  BY <1>6, <1>7 DEF Baseline
<1> QED
  BY <1>1, <1>3, <1>8

\* A fold that is written gives every row of the pile its baseline.
LEMMA FoldLands ==
    ASSUME Inv, NEW p \in Proc, FoldNow(p), disk' # disk,
           NEW q \in Path, op[p].asked[q] # None
    PROVE  Baseline(disk'.now)[q] = op[p].asked[q]
<1>1. pc[p] = "fold" /\ disk' = Folded(p)
  BY DEF FoldNow, Write, Folded, Unfolded
<1>2. /\ GoodRecord(Unfolded(p), shown) /\ GoodRows(op[p].asked, shown)
      /\ Folded(p).now = Fold(Unfolded(p), op[p].asked)
  BY <1>1, FoldedIs, OpIs DEF GoodOp
<1> QED
  BY <1>1, <1>2, FoldIs

\* The write that ends an accept.
Writes(p) == op[p].asked # Nothing /\ (Commit(p) \/ FoldNow(p)) /\ disk' # disk

\* The accepted entry is the baseline; or it was left to the seen tree, which
\* has another entry by now.
Lands(p, q) == Baseline(disk'.now)[q] = op[p].asked[q]
FoldedOver(p, q) ==
    /\ Commit(p) /\ disk # Missing
    /\ op[p].asked[q] = mem[p].now.tree[q] /\ op[p].asked[q] # disk.now.tree[q]
    /\ Baseline(disk'.now)[q] = disk.now.tree[q]

\* For any number of processes, paths, hunks and branches, whatever is edited,
\* checked out, renamed, lost or killed: the write that ends an accept makes
\* each accepted entry the baseline, with one exception.  An accept of the
\* entry the seen tree in memory has is staged as an override without a blob,
\* and if another process has folded another entry into the tree meanwhile,
\* the path keeps that one.
THEOREM AcceptsLandOrFold ==
    Spec => [][\A p \in Proc : Writes(p) =>
                 \A q \in Keys(op[p].asked) : Lands(p, q) \/ FoldedOver(p, q)]_vars
<1>1. Init => Inv /\ Staged
  BY InitInv DEF Init, Staged
<1>2. Inv /\ Staged /\ [Next]_vars => Inv' /\ Staged'
  BY InvStep, StagedStep
<1>3. ASSUME Inv, Staged, NEW p \in Proc, Writes(p), NEW q \in Keys(op[p].asked)
      PROVE  Lands(p, q) \/ FoldedOver(p, q)
  <2>1. q \in Path /\ op[p].asked[q] # None
    BY <1>3 DEF Keys
  <2>2. CASE FoldNow(p)
    BY <1>3, <2>1, <2>2, FoldLands DEF Writes, Lands
  <2>3. CASE Commit(p)
    BY <1>3, <2>1, <2>3, CommitLands DEF Writes, Base, Lands, FoldedOver
  <2> QED
    BY <1>3, <2>2, <2>3 DEF Writes
<1>4. Inv /\ Staged => \A p \in Proc : Writes(p) =>
                         \A q \in Keys(op[p].asked) : Lands(p, q) \/ FoldedOver(p, q)
  BY <1>3
<1> QED
  BY <1>1, <1>2, <1>4, PTL DEF Spec

-----------------------------------------------------------------------------
(* What was accepted can be taken back.                                    *)

\* What an undo makes of a record.
TakenBack(r) == SetOverrides(PopUndo(r), Last(r.undo))

LEMMA UndoMakes ==
    ASSUME NEW sh, NEW x, GoodRecord(x, sh), x.undo # <<>>
    PROVE  \A q \in Path : Baseline(TakenBack(x))[q] =
              IF Last(x.undo)[q] = None THEN Baseline(x)[q] ELSE Last(x.undo)[q]
<1>1. /\ GoodRecord(PopUndo(x), sh) /\ Baseline(PopUndo(x)) = Baseline(x)
      /\ GoodRows(Last(x.undo), sh)
  BY PopUndoIs
<1> QED
  BY <1>1, SetOverridesIs DEF TakenBack

\* An undo depends on the baselines of a record and its stack alone: with the
\* baselines that some paths had on top of the stack it brings those back,
\* however the record keeps the present ones.
LEMMA TakenBackIs ==
    ASSUME NEW sh, NEW r, GoodRecord(r, sh), NEW x, GoodRecord(x, sh), NEW keysOf,
           x.undo = PushUndo(r, Prior(r, keysOf)).undo,
           \A q \in Path : q \notin keysOf => Baseline(x)[q] = Baseline(r)[q]
    PROVE  Baseline(TakenBack(x)) = Baseline(r)
<1> DEFINE e == Prior(r, keysOf)
<1>1. GoodRows(e, sh)
  BY PriorIs
<1>2. x.undo = Append(IF Len(r.undo) = UndoCap THEN Tail(r.undo) ELSE r.undo, e)
  BY <1>1, PushUndoIs
<1>3. /\ r.undo \in Seq(Some) /\ e \in Some /\ Len(r.undo) \leq UndoCap /\ r.undo \in Seq(Some)
  BY <1>1, RecordIs DEF GoodRecord, GoodRows
<1> DEFINE kept == IF Len(r.undo) = UndoCap THEN Tail(r.undo) ELSE r.undo
<1>4. kept \in Seq(Some)
  BY <1>3, UndoCapAssumption
<1> HIDE DEF kept, e
<1>5. x.undo = Append(kept, e)
  BY <1>2 DEF kept, e
<1>6. x.undo # <<>> /\ Last(x.undo) = e
  BY <1>3, <1>4, <1>5 DEF Last
<1>7. \A q \in Path : Baseline(TakenBack(x))[q] =
        IF Last(x.undo)[q] = None THEN Baseline(x)[q] ELSE Last(x.undo)[q]
  BY <1>6, UndoMakes
<1>8. \A q \in Path : Baseline(TakenBack(x))[q] = IF e[q] = None THEN Baseline(x)[q] ELSE e[q]
  BY <1>6, <1>7
<1>9. \A q \in Path : e[q] = IF q \in keysOf THEN Baseline(r)[q] ELSE None
  BY DEF e, Prior
<1>10. \A q \in Path : Baseline(TakenBack(x))[q] = Baseline(r)[q]
  BY <1>8, <1>9, BaselineIs
<1> QED
  BY <1>10 DEF Baseline

\* Two records with the same baselines and stack are the same to an undo.
LEMMA SameTakenBack ==
    ASSUME NEW sh, NEW r, GoodRecord(r, sh), NEW x, GoodRecord(x, sh), r.undo # <<>>,
           x.undo = r.undo, \A q \in Path : Baseline(x)[q] = Baseline(r)[q]
    PROVE  Baseline(TakenBack(x)) = Baseline(TakenBack(r))
<1>1. \A q \in Path : Baseline(TakenBack(x))[q] =
        IF Last(x.undo)[q] = None THEN Baseline(x)[q] ELSE Last(x.undo)[q]
  BY UndoMakes
<1>2. \A q \in Path : Baseline(TakenBack(r))[q] =
        IF Last(r.undo)[q] = None THEN Baseline(r)[q] ELSE Last(r.undo)[q]
  BY UndoMakes
<1>3. \A q \in Path : Baseline(TakenBack(x))[q] = Baseline(TakenBack(r))[q]
  BY <1>1, <1>2
<1> QED
  BY <1>3 DEF Baseline

LEMMA WriteCanBeUndone ==
    ASSUME Inv, Staged, NEW p \in Proc, Writes(p), disk # Missing
    PROVE  Baseline(TakenBack(disk'.now)) = Baseline(disk.now)
<1>1. pc[p] # "closed" /\ Adopted(p) = disk /\ Base(p) = disk.now
  BY DEF Writes, Commit, FoldNow, Adopted, Base
<1>2. PICK q \in Path : op[p].asked[q] # None
  <2>1. op[p].asked \in Some
    BY OpIs
  <2> QED
    BY <2>1 DEF Writes, Some, Nothing
<1>3. GoodRecord(disk.now, shown)
  BY DEF Inv, LedgersOK, Good
<1>4. CASE Commit(p)
  <2> DEFINE keysOf == Keys(op[p].prior)
             pushed == PushUndo(disk.now, Prior(disk.now, keysOf))
  <2>1. /\ disk' = Merged(p) /\ pc[p] = "commit"
    BY <1>2, <1>4, CommitLands DEF Writes, Commit
  <2>2. op[p].checked /\ op[p].staged[q] # None
    BY <1>2, <2>1 DEF Staged, Writes
  <2>3. /\ GoodStaged(op[p].staged, shown)
        /\ \A x \in Path : op[p].staged[x] = None <=> op[p].prior[x] = None
    BY <2>2, OpIs DEF GoodOp
  <2>4. keysOf # {}
    BY <2>2, <2>3 DEF Keys
  <2>5. Pushed(p) = pushed
    BY <1>1, <2>4 DEF Pushed
  <2>6. /\ Good(disk', shown) /\ GoodRecord(pushed, shown)
        /\ disk'.now = Replay(pushed, op[p].staged)
    BY <1>1, <2>1, <2>5, MergedIs
  <2>7. Baseline(pushed) = Baseline(disk.now)
    BY <1>3, PriorIs, PushUndoIs
  <2> HIDE DEF pushed
  <2>8. /\ disk'.now.undo = pushed.undo
        /\ \A x \in Path : op[p].staged[x] = None =>
              Baseline(disk'.now)[x] = Baseline(pushed)[x]
    BY <2>3, <2>6, ReplayIs
  <2>9. \A x \in Path : x \notin keysOf => Baseline(disk'.now)[x] = Baseline(disk.now)[x]
    BY <2>3, <2>7, <2>8 DEF Keys
  <2>10. GoodRecord(disk'.now, shown)
    BY <2>6 DEF Good
  <2> HIDE DEF keysOf
  <2> QED
    BY <1>3, <2>8, <2>9, <2>10, TakenBackIs DEF pushed
<1>5. CASE FoldNow(p)
  <2> DEFINE keysOf == Keys(op[p].asked)
             pushed == PushUndo(disk.now, Prior(disk.now, keysOf))
  <2>1. disk' = Folded(p)
    BY <1>5 DEF Writes, FoldNow, Write, Folded, Unfolded
  <2>2. keysOf # {}
    BY <1>2 DEF Keys
  <2>3. Unfolded(p) = pushed
    BY <1>1, <2>2 DEF Unfolded
  <2>4. /\ Good(disk', shown) /\ GoodRecord(pushed, shown)
        /\ disk'.now = Fold(pushed, op[p].asked) /\ GoodRows(op[p].asked, shown)
    BY <1>1, <2>1, <2>3, FoldedIs, OpIs DEF GoodOp
  <2>5. Baseline(pushed) = Baseline(disk.now)
    BY <1>3, PriorIs, PushUndoIs
  <2> HIDE DEF pushed
  <2>6. /\ disk'.now.undo = pushed.undo
        /\ \A x \in Path : op[p].asked[x] = None =>
              Baseline(disk'.now)[x] = Baseline(pushed)[x]
    BY <2>4, FoldIs
  <2>7. \A x \in Path : x \notin keysOf => Baseline(disk'.now)[x] = Baseline(disk.now)[x]
    BY <2>5, <2>6 DEF Keys
  <2>8. GoodRecord(disk'.now, shown)
    BY <2>4 DEF Good
  <2> HIDE DEF keysOf
  <2> QED
    BY <1>3, <2>6, <2>7, <2>8, TakenBackIs DEF pushed
<1> QED
  BY <1>4, <1>5 DEF Writes

LEMMA CompactionKeepsUndo ==
    ASSUME Inv, NEW p \in Proc, FoldNow(p), op[p].asked = Nothing, disk # Missing,
           disk.now.undo # <<>>
    PROVE  Baseline(TakenBack(disk'.now)) = Baseline(TakenBack(disk.now))
<1>1. pc[p] # "closed" /\ Adopted(p) = disk /\ Keys(op[p].asked) = {}
  BY DEF FoldNow, Adopted, Keys, Nothing
<1>2. disk' = disk \/ disk' = Folded(p)
  BY DEF FoldNow, Write, Folded, Unfolded
<1>3. GoodRecord(disk.now, shown)
  BY DEF Inv, LedgersOK, Good
<1>4. CASE disk' = Folded(p)
  <2>1. Unfolded(p) = disk.now
    BY <1>1 DEF Unfolded
  <2>2. /\ Good(disk', shown) /\ disk'.now = Fold(disk.now, op[p].asked)
        /\ GoodRows(op[p].asked, shown)
    BY <1>1, <1>4, <2>1, FoldedIs, OpIs DEF GoodOp
  <2>3. /\ disk'.now.undo = disk.now.undo
        /\ \A x \in Path : Baseline(disk'.now)[x] = Baseline(disk.now)[x]
    BY <1>3, <2>2, FoldIs DEF Nothing
  <2>4. GoodRecord(disk'.now, shown)
    BY <2>2 DEF Good
  <2> QED
    BY <1>3, <2>3, <2>4, SameTakenBack
<1> QED
  BY <1>2, <1>4

\* For any number of processes, paths, hunks and branches, whatever happens
\* around them: an undo right after the write that ends an accept brings back
\* every baseline the record on disk had, those of paths another process moved
\* while the accept was staged included; and a compaction in between changes
\* nothing of it, though it moves every blob into the seen tree.
THEOREM AcceptsCanBeUndone ==
    Spec => [][\A p \in Proc : disk # Missing =>
                 /\ Writes(p) => Baseline(TakenBack(disk'.now)) = Baseline(disk.now)
                 /\ FoldNow(p) /\ op[p].asked = Nothing /\ disk.now.undo # <<>> =>
                      Baseline(TakenBack(disk'.now)) = Baseline(TakenBack(disk.now))]_vars
<1>1. Init => Inv /\ Staged
  BY InitInv DEF Init, Staged
<1>2. Inv /\ Staged /\ [Next]_vars => Inv' /\ Staged'
  BY InvStep, StagedStep
<1>3. Inv /\ Staged =>
        \A p \in Proc : disk # Missing =>
           /\ Writes(p) => Baseline(TakenBack(disk'.now)) = Baseline(disk.now)
           /\ FoldNow(p) /\ op[p].asked = Nothing /\ disk.now.undo # <<>> =>
                Baseline(TakenBack(disk'.now)) = Baseline(TakenBack(disk.now))
  BY WriteCanBeUndone, CompactionKeepsUndo
<1> QED
  BY <1>1, <1>2, <1>3, PTL DEF Spec

-----------------------------------------------------------------------------
(* One process: the ledger in memory is the one on disk.                   *)

Alone == \E p \in Proc : Proc = {p}

\* Until it commits, a process that nobody else writes for holds what is on
\* disk; at its commit, the same branch and seen tree, and what it staged for
\* a flag has the blob of the record on disk.
Solo == \A p \in Proc : disk # Missing =>
    /\ pc[p] \notin {"closed", "commit"} => mem[p] = disk
    /\ pc[p] = "commit" =>
          /\ mem[p].branch = disk.branch /\ mem[p].now.tree = disk.now.tree
          /\ ~op[p].checked => \A q \in Path : op[p].staged[q] # None =>
                                  op[p].staged[q].blob = disk.now.over[q].blob

LEMMA SoloStep ==
    ASSUME Inv, Alone, Solo, [Next]_vars
    PROVE  Solo'
<1> USE DEF Inv, ProcsOK
<1>1. CASE UNCHANGED <<mem, pc, op>> /\ disk' \in {disk, Missing}
  BY <1>1 DEF Solo
<1>2. ASSUME NEW p \in Proc, Process(p), disk' # Missing
      PROVE  /\ pc'[p] \notin {"closed", "commit"} => mem'[p] = disk'
             /\ pc'[p] = "commit" =>
                  /\ mem'[p].branch = disk'.branch /\ mem'[p].now.tree = disk'.now.tree
                  /\ ~op'[p].checked => \A q \in Path : op'[p].staged[q] # None =>
                        op'[p].staged[q].blob = disk'.now.over[q].blob
  <2>1. CASE pc'[p] = "commit"
    <3>1. /\ pc[p] = "idle" /\ UNCHANGED disk
          /\ \A q \in Path : shown[q] \subseteq shown'[q]
          /\ \/ \E f : GoodRows(f, shown') /\ Stage(p, f)
             \/ \E q \in Path, flags \in SUBSET Note : StageFlags(p, q, flags)
      BY <1>2, <2>1, ToCommit
    <3>2. mem[p] = disk
      BY <1>2, <3>1 DEF Solo
    <3>3. CASE \E f : GoodRows(f, shown') /\ Stage(p, f)
      <4>1. PICK f : GoodRows(f, shown') /\ Stage(p, f)
        BY <3>3
      <4> QED
        BY <2>1, <3>1, <3>2, <4>1, StageIs
    <3>4. CASE \E q \in Path, flags \in SUBSET Note : StageFlags(p, q, flags)
      BY <2>1, <3>1, <3>2, <3>4, FlagsStage
    <3> QED
      BY <3>1, <3>3, <3>4
  <2>2. CASE pc'[p] # "commit" /\ pc'[p] # "closed"
    <3>1. CASE \/ \E l : Write(p, l)
               \/ mem' = [mem EXCEPT ![p] = Adopted(p)] /\ UNCHANGED disk
      BY <1>2, <2>2, <3>1 DEF Write, Adopted
    <3>2. CASE /\ UNCHANGED <<disk, mem>> /\ pc[p] \notin {"closed", "commit"}
      BY <1>2, <2>2, <3>2 DEF Solo
    <3>3. CASE Open(p)
      BY <2>2, <3>3 DEF Open
    <3>4. CASE Accept(p)
      <4>1. pc[p] = "idle" /\ UNCHANGED disk
        BY <3>4 DEF Accept, AcceptFile, AcceptHunk, AcceptGroup, AcceptAll, Press
      <4>2. UNCHANGED mem
        BY <2>2, <3>4 DEF Accept, AcceptFile, AcceptHunk, AcceptGroup, AcceptAll, StageRows,
                          Stage, Declined, Goto
      <4> QED
        BY <3>2, <4>1, <4>2
    <3>5. CASE Flagging(p)
      <4>1. pc[p] = "idle" /\ UNCHANGED disk
        BY <3>5 DEF Flagging, Flag, Unflag, Press
      <4>2. UNCHANGED mem
        BY <2>2, <3>5 DEF Flagging, Flag, Unflag, StageFlags, Declined, Goto
      <4> QED
        BY <3>2, <4>1, <4>2
    <3>6. CASE Undo(p) \/ Snooze(p) \/ Commit(p) \/ FoldNow(p) \/ LockBusy(p)
      <4>1. \/ \E l : Write(p, l)
            \/ mem' = [mem EXCEPT ![p] = Adopted(p)] /\ UNCHANGED disk
        BY <3>6 DEF Undo, Snooze, Commit, FoldNow, LockBusy
      <4> QED
        BY <3>1, <4>1
    <3>7. CASE Rescan(p) \/ Render(p)
      BY <3>2, <3>7 DEF Rescan, Render
    <3>8. CASE Sync(p)
      BY <3>1, <3>8 DEF Sync
    <3>9. CASE NoSwitch(p)
      BY <3>1, <3>2, <3>9 DEF NoSwitch
    <3>10. CASE SwitchRenamed(p) \/ SwitchLoad(p) \/ SwitchFirstSight(p)
      <4>1. \E l : Write(p, l)
        BY <3>10 DEF SwitchRenamed, SwitchLoad, SwitchFirstSight, Switch
      <4> QED
        BY <3>1, <4>1
    <3>11. ~Crash(p)
      BY <2>2 DEF Crash, Done, Goto
    <3> QED
      BY <1>2, <3>3, <3>4, <3>5, <3>6, <3>7, <3>8, <3>9, <3>10, <3>11 DEF Process, Scan
  <2> QED
    BY <2>1, <2>2
<1>3. (\E p \in Proc : Process(p)) \/ (UNCHANGED <<mem, pc, op>> /\ disk' \in {disk, Missing})
  BY DEF Next, vars, Edit, Checkout, MoveRefs, LoseLedger
<1> QED
  BY <1>1, <1>2, <1>3 DEF Solo, Alone

-----------------------------------------------------------------------------
(* Several processes: without folds a branch keeps its seen tree.          *)

\* No accept-all, no compaction, and no branch or ledger removed.
NoFolds ==
    /\ "all" \notin Ops /\ {"refs", "lose"} \cap Faults = {}
    /\ IsFiniteSet(Path) /\ Cardinality(Path) \leq Threshold

RecordIn(l, b) == IF b = l.branch THEN l.now ELSE l.parked[b]

\* Every record of l is one of k, on the same seen tree.
SameTrees(l, k) == \A b \in Branch : RecordIn(l, b) # None =>
    RecordIn(k, b) # None /\ RecordIn(k, b).tree = RecordIn(l, b).tree

\* Every branch with a record has a ref, and the records a process holds are on
\* the trees of those on disk, however old they are.
Rooted(l) == \A b \in Branch : RecordIn(l, b) # None => b \in refs

Trees ==
    /\ disk # Missing /\ Rooted(disk)
    /\ head \in refs \cup {Detached}
    /\ \A p \in Proc : pc[p] # "fold" /\ (mem[p] # Missing => SameTrees(mem[p], disk))

\* What a step of p does to the ledgers.
KeepsTrees(p) ==
    /\ disk' # Missing /\ Rooted(disk') /\ SameTrees(disk, disk')
    /\ pc'[p] # "fold" /\ (mem'[p] # Missing => SameTrees(mem'[p], disk'))

\* A record in force that keeps its tree.
LEMMA SameForce ==
    ASSUME NEW l, NEW k, k.branch = l.branch, k.parked = l.parked, k.now.tree = l.now.tree,
           k.now # None, l.now # None
    PROVE  SameTrees(l, k) /\ SameTrees(k, l) /\ (Rooted(l) => Rooted(k))
BY DEF SameTrees, Rooted, RecordIn

LEMMA SwitchKeeps ==
    ASSUME Inv, Trees, NEW p \in Proc, pc[p] = "switch", head = to[p],
           disk.branch # to[p], UNCHANGED git,
           NEW r \in Record, disk.parked[to[p]] # None => r = disk.parked[to[p]],
           Switch(p, r), Goto(p, "render")
    PROVE  KeepsTrees(p)
<1> USE DEF Inv, ProcsOK
<1>1. /\ Adopted(p) = disk /\ Good(disk, shown) /\ to[p] \in Branch /\ to[p] \in refs
      /\ disk \in LedgerFile /\ disk.now # None
  BY BranchAssumption, MissingAssumption
     DEF Trees, LedgersOK, StepsOK, Adopted, Good, GoodRecord, LedgerFile
<1> DEFINE kept == [disk.parked EXCEPT ![disk.branch] = disk.now, ![to[p]] = None]
<1>2. /\ disk.parked \in [Branch -> Record \cup {None}] /\ disk.branch \in Branch
      /\ kept \in [Branch -> Record \cup {None}] /\ kept[to[p]] = None
      /\ \A b \in Branch : b # to[p] => kept[b] = RecordIn(disk, b)
  BY <1>1 DEF LedgerFile, RecordIn
<1> HIDE DEF kept
<1>3. PICK parked \in Prunings(kept) :
        Write(p, [branch |-> to[p], now |-> r, parked |-> parked])
  BY <1>1 DEF Switch, kept
<1>4. \A b \in Branch : kept[b] # None => b \in refs
  BY <1>2 DEF Trees, Rooted
<1>5. \A b \in Branch : parked[b] = kept[b]
  BY <1>2, <1>4 DEF Prunings
<1> DEFINE new == [branch |-> to[p], now |-> r, parked |-> parked]
<1>6. disk' = new /\ mem'[p] = new
  BY <1>3 DEF Write
<1>7. \A b \in Branch : RecordIn(new, b) = IF b = to[p] THEN r ELSE RecordIn(disk, b)
  BY <1>2, <1>5 DEF RecordIn
<1>8. Rooted(disk') /\ SameTrees(disk, disk') /\ SameTrees(disk', disk')
  <2>1. RecordIn(disk, to[p]) = disk.parked[to[p]]
    BY <1>1 DEF RecordIn
  <2>2. \A b \in Branch : RecordIn(disk', b) = IF b = to[p] THEN r ELSE RecordIn(disk, b)
    BY <1>6, <1>7
  <2>3. \A b \in Branch : RecordIn(disk, b) # None => b \in refs
    BY DEF Trees, Rooted
  <2> QED
    BY <1>1, <2>1, <2>2, <2>3, MissingAssumption DEF Rooted, SameTrees, git
<1>9. disk' # Missing
  <2>1. new \in LedgerFile
    BY <1>1, <1>2, <1>5, PruningsAre, <1>3 DEF LedgerFile
  <2> QED
    BY <1>6, <2>1, MissingAssumption
<1>10. pc'[p] = "render"
  BY DEF Goto
<1> QED
  BY <1>6, <1>8, <1>9, <1>10 DEF KeepsTrees

LEMMA WriteKeeps ==
    ASSUME Inv, Trees, NEW p \in Proc, NEW l, Write(p, l), UNCHANGED git,
           Good(l, shown'), l # Missing, pc'[p] # "fold",
           l.branch = disk.branch, l.parked = disk.parked, l.now.tree = disk.now.tree
    PROVE  KeepsTrees(p)
<1>1. Good(disk, shown) /\ l.now # None /\ disk.now # None
  BY MissingAssumption DEF Inv, LedgersOK, Trees, Good, GoodRecord
<1>2. SameTrees(disk, l) /\ Rooted(l) /\ SameTrees(l, l)
  BY <1>1, SameForce DEF Trees, SameTrees
<1>3. disk' = l /\ mem'[p] = l
  BY DEF Write, Inv, ProcsOK
<1>4. SameTrees(disk, disk') /\ SameTrees(mem'[p], disk')
  BY <1>2, <1>3
<1>5. Rooted(disk')
  BY <1>2, <1>3 DEF Rooted, git
<1> QED
  BY <1>3, <1>4, <1>5 DEF KeepsTrees

LEMMA StayKeeps ==
    ASSUME Inv, Trees, NEW p \in Proc, UNCHANGED <<disk, head, refs>>, pc'[p] # "fold",
           mem'[p] \in {mem[p], disk, Missing}
    PROVE  KeepsTrees(p)
<1>1. SameTrees(disk, disk) /\ Rooted(disk')
  BY DEF SameTrees, Trees, Rooted
<1> QED
  BY <1>1 DEF Trees, KeepsTrees

LEMMA ProcessKeeps ==
    ASSUME Inv, Inv', Trees, NoFolds, NEW p \in Proc, Process(p)
    PROVE  KeepsTrees(p)
<1> USE DEF Inv, ProcsOK
<1>1. /\ disk # Missing /\ Adopted(p) = disk /\ Base(p) = disk.now /\ Good(disk, shown)
  BY DEF Trees, Adopted, Base, LedgersOK
<1>2. UNCHANGED git
  BY DEF Process, Open, Accept, AcceptFile, AcceptHunk, AcceptGroup, AcceptAll, Flagging, Flag,
         Unflag, Undo, Snooze, Commit, FoldNow, LockBusy, Scan, Rescan, Sync, NoSwitch,
         SwitchRenamed, SwitchLoad, SwitchFirstSight, Render, Crash
<1>3. CASE Open(p)
  BY <1>2, <1>3, StayKeeps DEF Open, Goto, git
<1>4. CASE pc'[p] = "commit"
  <2>1. /\ pc[p] = "idle" /\ UNCHANGED disk
        /\ mem'[p].branch = mem[p].branch /\ mem'[p].parked = mem[p].parked
        /\ mem'[p].now.tree = mem[p].now.tree /\ mem'[p].now # None
    BY <1>4, ToCommit, StageIs, FlagsStage
  <2>2. mem[p] # Missing /\ mem[p].now # None
    BY <2>1, AdoptedIs, MissingAssumption DEF Good, GoodRecord
  <2>3. SameTrees(mem'[p], mem[p]) /\ SameTrees(mem[p], disk)
    BY <2>1, <2>2, SameForce DEF Trees
  <2>4. SameTrees(mem'[p], disk)
    BY <2>3 DEF SameTrees
  <2>5. Rooted(disk') /\ SameTrees(disk, disk')
    BY <1>2, <2>1 DEF Trees, Rooted, SameTrees, git
  <2> QED
    BY <1>1, <1>4, <2>1, <2>4, <2>5 DEF KeepsTrees
<1>5. CASE Accept(p) /\ pc'[p] # "commit"
  <2>1. ~AcceptAll(p)
    BY DEF NoFolds, AcceptAll, Press
  <2>2. Declined(p) /\ UNCHANGED disk
    BY <1>5, <2>1 DEF Accept, AcceptFile, AcceptHunk, AcceptGroup, StageRows, Stage, Goto
  <2> QED
    BY <1>2, <2>2, StayKeeps DEF Declined, Goto, git
<1>6. CASE Flagging(p) /\ pc'[p] # "commit"
  <2>1. Declined(p) /\ UNCHANGED disk
    BY <1>6 DEF Flagging, Flag, Unflag, StageFlags, Goto
  <2> QED
    BY <1>2, <2>1, StayKeeps DEF Declined, Goto, git
<1>7. CASE Undo(p)
  <2>1. pc[p] # "closed" /\ pc'[p] = "sync"
    BY <1>7 DEF Undo, Press, Goto
  <2>2. CASE mem' = [mem EXCEPT ![p] = disk] /\ UNCHANGED disk
    BY <1>2, <2>1, <2>2, StayKeeps DEF git
  <2>3. CASE Write(p, Undone(p)) /\ disk.now.undo # <<>>
    <3>1. /\ Good(Undone(p), shown) /\ Undone(p) # Missing
          /\ Undone(p).branch = disk.branch /\ Undone(p).parked = disk.parked
          /\ GoodRecord(disk.now, shown) /\ GoodRecord(PopUndo(disk.now), shown)
          /\ Undone(p).now = SetOverrides(PopUndo(disk.now), Last(disk.now.undo))
      BY <1>1, <2>1, <2>3, UndoneIs
    <3>2. Undone(p).now.tree = PopUndo(disk.now).tree
      BY <2>3, <3>1, PopUndoIs, SetOverridesIs
    <3>3. PopUndo(disk.now).tree = disk.now.tree
      BY <2>3, <3>1, PopUndoIs
    <3>4. Good(Undone(p), shown')
      BY <1>7, <3>1 DEF Undo
    <3> QED
      BY <1>2, <2>1, <2>3, <3>1, <3>2, <3>3, <3>4, WriteKeeps
  <2> QED
    BY <1>1, <1>7, <2>2, <2>3 DEF Undo, Undone
<1>8. CASE Snooze(p)
  <2>1. Write(p, disk) /\ pc'[p] = "sync" /\ UNCHANGED shown
    BY <1>1, <1>8 DEF Snooze, Goto
  <2> QED
    BY <1>1, <1>2, <2>1, WriteKeeps
<1>9. CASE Commit(p)
  <2>1. pc[p] # "closed" /\ UNCHANGED shown
    BY <1>9 DEF Commit
  <2>2. /\ Good(Merged(p), shown) /\ Merged(p) # Missing
        /\ Merged(p).branch = disk.branch /\ Merged(p).parked = disk.parked
        /\ GoodRecord(disk.now, shown) /\ GoodRecord(Pushed(p), shown)
        /\ Merged(p).now = Replay(Pushed(p), op[p].staged)
    BY <1>1, <2>1, MergedIs
  <2>3. Merged(p).now.tree = disk.now.tree
    <3>1. GoodStaged(op[p].staged, shown)
      BY OpIs DEF GoodOp
    <3>2. Merged(p).now.tree = Pushed(p).tree
      BY <2>2, <3>1, ReplayIs
    <3>3. Pushed(p).tree = disk.now.tree
      BY <1>1, <2>2 DEF Pushed, PushUndo, GoodRecord, Record
    <3> QED
      BY <3>2, <3>3
  <2>4. ~(Cardinality(BlobOverrides(Merged(p).now)) > Threshold)
    <3>1. BlobOverrides(Merged(p).now) \in SUBSET Path
      BY DEF BlobOverrides
    <3>2. /\ IsFiniteSet(BlobOverrides(Merged(p).now))
          /\ Cardinality(BlobOverrides(Merged(p).now)) \leq Cardinality(Path)
      BY <3>1, FS_Subset DEF NoFolds
    <3>3. /\ Cardinality(BlobOverrides(Merged(p).now)) \in Nat /\ Cardinality(Path) \in Nat
      BY <3>2, FS_CardinalityType DEF NoFolds
    <3> QED
      BY <3>2, <3>3, ThresholdAssumption DEF NoFolds
  <2>5. CASE Write(p, Merged(p)) /\ Done(p, "sync")
    BY <1>2, <2>1, <2>2, <2>3, <2>5, WriteKeeps DEF Done, Goto
  <2>6. CASE mem' = [mem EXCEPT ![p] = disk] /\ Done(p, "sync") /\ UNCHANGED disk
    BY <1>2, <2>6, StayKeeps DEF Done, Goto, git
  <2> QED
    BY <1>1, <1>9, <2>4, <2>5, <2>6 DEF Commit
<1>10. ~FoldNow(p)
  BY DEF Trees, FoldNow
<1>11. CASE LockBusy(p) \/ Rescan(p) \/ Sync(p) \/ NoSwitch(p) \/ Render(p) \/ Crash(p)
  <2>1. UNCHANGED disk /\ pc'[p] # "fold" /\ mem'[p] \in {mem[p], disk, Missing}
    BY <1>1, <1>11 DEF LockBusy, Rescan, Sync, NoSwitch, Switched, Render, Crash, Done, Goto
  <2> QED
    BY <1>2, <2>1, StayKeeps DEF git
<1>12. ~SwitchRenamed(p)
  <2>1. disk.branch \in Branch /\ RecordIn(disk, disk.branch) # None
    BY <1>1, MissingAssumption DEF Good, GoodRecord, LedgerFile, RecordIn
  <2> QED
    BY <1>1, <2>1 DEF SwitchRenamed, Renamed, Trees, Rooted
<1>13. CASE SwitchLoad(p)
  <2>1. to[p] \in Branch
    BY <1>13 DEF SwitchLoad, Switching, StepsOK
  <2> QED
    BY <1>1, <1>2, <1>13, <2>1, SwitchKeeps
       DEF SwitchLoad, Switching, Switched, Good, GoodRecord
<1>14. CASE SwitchFirstSight(p)
  <2>1. PICK r : Switch(p, r)
    BY <1>14 DEF SwitchFirstSight
  <2>2. disk'.now = r
    BY <2>1 DEF Switch, Write
  <2>3. disk' # Missing
    BY <1>14, <2>1, FirstSightMoves DEF Moves
  <2>4. r \in Record
    BY <2>2, <2>3 DEF LedgersOK, Good, GoodRecord
  <2> QED
    BY <1>1, <1>2, <1>14, <2>1, <2>4, SwitchKeeps DEF SwitchFirstSight, Switching, Switched
<1> QED
  BY <1>3, <1>4, <1>5, <1>6, <1>7, <1>8, <1>9, <1>10, <1>11, <1>12, <1>13, <1>14
     DEF Process, Scan

LEMMA TreesStep ==
    ASSUME Inv, Inv', Trees, NoFolds, [Next]_vars
    PROVE  Trees'
<1> USE DEF Inv, ProcsOK
<1>1. ASSUME NEW r \in Proc, Process(r)
      PROVE  Trees'
  <2>1. KeepsTrees(r)
    BY <1>1, ProcessKeeps
  <2>2. UNCHANGED git
    BY <1>1 DEF Process, Open, Accept, AcceptFile, AcceptHunk, AcceptGroup, AcceptAll, Flagging,
         Flag, Unflag, Undo, Snooze, Commit, FoldNow, LockBusy, Scan, Rescan, Sync, NoSwitch,
         SwitchRenamed, SwitchLoad, SwitchFirstSight, Render, Crash
  <2>3. ASSUME NEW p \in Proc, p # r
        PROVE  pc'[p] # "fold" /\ (mem'[p] # Missing => SameTrees(mem'[p], disk'))
    <3>1. mem'[p] = mem[p] /\ pc'[p] = pc[p]
      BY <1>1, <2>3, OthersStay
    <3>2. mem[p] # Missing => SameTrees(mem[p], disk)
      BY DEF Trees
    <3>3. mem[p] # Missing => SameTrees(mem[p], disk')
      BY <2>1, <3>2 DEF KeepsTrees, SameTrees
    <3> QED
      BY <3>1, <3>3 DEF Trees
  <2>4. Rooted(disk)'
    BY <2>1, <2>2 DEF KeepsTrees, Rooted, git
  <2> QED
    BY <2>1, <2>2, <2>3, <2>4 DEF Trees, KeepsTrees, git
<1>2. CASE UNCHANGED <<disk, mem, pc>> /\ refs \subseteq refs' /\ head' \in refs' \cup {Detached}
  BY <1>2 DEF Trees, Rooted, SameTrees
<1>3. \/ \E r \in Proc : Process(r)
      \/ /\ UNCHANGED <<disk, mem, pc>> /\ refs \subseteq refs'
         /\ head' \in refs' \cup {Detached}
  <2>1. ~MoveRefs /\ ~LoseLedger
    BY DEF NoFolds, MoveRefs, LoseLedger
  <2>2. CASE Checkout
    BY <2>2 DEF Checkout
  <2>3. CASE UNCHANGED vars \/ \E q \in Path : Edit(q)
    BY <2>3 DEF vars, git, Edit, Trees
  <2> QED
    BY <2>1, <2>2, <2>3 DEF Next
<1> QED
  BY <1>1, <1>2, <1>3

LEMMA TreesInit == Init /\ Inv => Trees
<1> SUFFICES ASSUME Init, Inv PROVE Trees
  OBVIOUS
<1>1. PICK t \in Tree : disk = [branch |-> head, now |-> FirstRecord(t),
                                parked |-> [b \in Branch |-> None]]
  BY DEF Init
<1>2. disk # Missing
  <2>1. NoOverride \in Override
    BY DEF NoOverride, Override
  <2>2. disk \in LedgerFile
    BY <1>1, <2>1 DEF Init, LedgerFile, Record, FirstRecord
  <2> QED
    BY <2>2, MissingAssumption
<1>3. Rooted(disk)
  BY <1>1 DEF Init, Rooted, RecordIn
<1> QED
  BY <1>2, <1>3 DEF Init, Trees

\* An accept's rows, in a step that leaves the process the ledger it writes.
LEMMA RowsAreKept ==
    ASSUME Inv, Staged, [Next]_vars, (Alone /\ Solo) \/ (NoFolds /\ Trees),
           NEW p \in Proc, op[p].asked # Nothing, pc[p] \in {"commit", "fold"},
           disk' # disk, mem'[p] = disk', NEW q \in Path, op[p].asked[q] # None
    PROVE  Baseline(disk'.now)[q] = op[p].asked[q]
<1>1. CASE Process(p)
  <2>1. Commit(p) \/ FoldNow(p)
    BY <1>1 DEF Process, Open, Accept, AcceptFile, AcceptHunk, AcceptGroup, AcceptAll,
                Flagging, Flag, Unflag, Undo, Snooze, Press, LockBusy, Crash, Scan, Rescan, Sync,
                NoSwitch, SwitchRenamed, SwitchLoad, SwitchFirstSight, Switching, Render
  <2>2. CASE FoldNow(p)
    BY <2>2, FoldLands
  <2>3. CASE Commit(p)
    <3>1. /\ ~BranchMoved(op[p].on) /\ op[p].on = mem[p].branch
          /\ Baseline(disk'.now)[q] = IF op[p].asked[q] = mem[p].now.tree[q]
                                      THEN Base(p).tree[q] ELSE op[p].asked[q]
      BY <2>3, CommitLands
    <3>2. disk # Missing => disk.now.tree = mem[p].now.tree
      <4>1. CASE Solo
        BY <2>3, <4>1 DEF Solo, Commit
      <4>2. CASE Trees
        <5>1. mem[p] # Missing /\ mem[p].branch \in Branch /\ mem[p].now # None
          BY <2>3, AdoptedIs, MissingAssumption DEF Commit, Good, GoodRecord, LedgerFile
        <5>2. disk # Missing /\ disk.branch = mem[p].branch
          BY <3>1, <4>2 DEF Trees, BranchMoved
        <5> QED
          BY <4>2, <5>1, <5>2 DEF Trees, SameTrees, RecordIn
      <4> QED
        BY <4>1, <4>2
    <3> QED
      BY <3>1, <3>2 DEF Base
  <2> QED
    BY <2>1, <2>2, <2>3
<1>2. CASE ~Process(p)
  <2>1. mem'[p] = mem[p] /\ mem[p] # Missing
    BY <1>2, OthersStay, AdoptedIs DEF Next, vars, Edit, Checkout, MoveRefs, LoseLedger
  <2>2. ~(Alone /\ Solo)
    <3>1. ASSUME Alone PROVE FALSE
      <4>1. disk' = Missing
        BY <1>2, <3>1 DEF Alone, Next, vars, Edit, Checkout, MoveRefs, LoseLedger
      <4> QED
        BY <2>1, <4>1
    <3> QED
      BY <3>1
  <2>3. pc[p] = "commit"
    BY <2>2 DEF Trees
  <2> QED
    BY <2>1, <2>3 DEF Staged
<1> QED
  BY <1>1, <1>2

\* For one process, whatever happens around it, and for any number of processes
\* over any paths, hunks and branches where nothing is folded: an accept that
\* was written is in the record it was written to.  The excluded case is the
\* one AcceptsLandOrFold describes.
THEOREM AcceptsLand == (Alone \/ NoFolds) => (Spec => AcceptLands)
<1>1. Init => Inv /\ Staged /\ Solo /\ Trees
  <2>1. Init => Inv /\ Staged /\ Solo
    BY InitInv DEF Init, Staged, Solo
  <2> QED
    BY <2>1, TreesInit
<1>2. Inv /\ Staged /\ [Next]_vars => Inv' /\ Staged'
  BY InvStep, StagedStep
<1> DEFINE Kept == \A p \in Proc :
             op[p].asked # Nothing /\ pc[p] \in {"commit", "fold"} /\ disk' # disk
                 /\ mem'[p] = disk' =>
                 \A q \in Keys(op[p].asked) : Baseline(disk'.now)[q] = op[p].asked[q]
<1>3. ASSUME Alone PROVE Spec => AcceptLands
  <2>1. Inv /\ Staged /\ Solo /\ [Next]_vars => Inv' /\ Staged' /\ Solo'
    BY <1>2, <1>3, SoloStep
  <2>2. Inv /\ Staged /\ Solo /\ [Next]_vars => Kept
    BY <1>3, RowsAreKept DEF Keys
  <2> QED
    BY <1>1, <2>1, <2>2, PTL DEF Spec, AcceptLands
<1>4. ASSUME NoFolds PROVE Spec => AcceptLands
  <2>1. Inv /\ Staged /\ Trees /\ [Next]_vars => Inv' /\ Staged' /\ Trees'
    BY <1>2, <1>4, TreesStep
  <2>2. Inv /\ Staged /\ Trees /\ [Next]_vars => Kept
    BY <1>4, RowsAreKept DEF Keys
  <2> QED
    BY <1>1, <2>1, <2>2, PTL DEF Spec, AcceptLands
<1> QED
  BY <1>3, <1>4

-----------------------------------------------------------------------------
(* The ledger file implements the seen record.                             *)

\* Without flags, every commit takes the branch into account and can be undone.
AllChecked == \A p \in Proc : op[p].checked

\* What a flag's commit replays has the blob of the record it is replayed on.
Faithful(p) == pc[p] = "commit" /\ ~op[p].checked /\ disk # Missing =>
    \A q \in Path : op[p].staged[q] # None =>
        op[p].staged[q].blob = disk.now.over[q].blob

LEMMA CheckedStep ==
    ASSUME "flag" \notin Ops, Inv, AllChecked, [Next]_vars
    PROVE  AllChecked'
<1> USE DEF Inv, ProcsOK, AllChecked
<1>1. /\ NoOp.checked
      /\ \A b, f : [NoOp EXCEPT !.on = b, !.asked = f].checked
      /\ \A b : [NoOp EXCEPT !.on = b].checked
  BY DEF NoOp
<1>2. CASE UNCHANGED op
  BY <1>2
<1>3. ASSUME NEW p \in Proc, NEW o, op' = [op EXCEPT ![p] = o], o.checked
      PROVE  AllChecked'
  BY <1>3
<1>4. ASSUME NEW p \in Proc, Process(p)
      PROVE  UNCHANGED op \/ \E o : op' = [op EXCEPT ![p] = o] /\ o.checked
  <2>1. ~Flagging(p)
    BY DEF Flagging, Flag, Unflag, Press
  <2>2. ASSUME NEW f, Stage(p, f)
        PROVE  \E o : op' = [op EXCEPT ![p] = o] /\ o.checked
    <3>1. op' = [op EXCEPT ![p] = op'[p]] /\ op'[p].checked
      BY <2>2 DEF Stage
    <3> QED
      BY <3>1
  <2>3. CASE Accept(p)
    <3>1. \/ Declined(p) \/ \E f : Stage(p, f)
          \/ op' = [op EXCEPT ![p] = [NoOp EXCEPT !.on = mem[p].branch, !.asked = Rendered(p, Rows(p))]]
      BY <2>3 DEF Accept, AcceptFile, AcceptGroup, AcceptHunk, AcceptAll, StageRows
    <3> QED
      BY <1>1, <2>2, <3>1 DEF Declined
  <2>4. CASE Commit(p) \/ FoldNow(p) \/ LockBusy(p) \/ Crash(p)
    <3>1. \/ op' = [op EXCEPT ![p] = NoOp]
          \/ op' = [op EXCEPT ![p] = [NoOp EXCEPT !.on = op[p].on]]
      BY <2>4 DEF Commit, FoldNow, LockBusy, Crash, Done
    <3> QED
      BY <1>1, <3>1
  <2>5. CASE Open(p) \/ Undo(p) \/ Snooze(p) \/ Scan(p)
    BY <2>5 DEF Open, Undo, Snooze, Scan, Rescan, Sync, NoSwitch, SwitchRenamed, SwitchLoad,
                SwitchFirstSight, Render
  <2> QED
    BY <1>4, <2>1, <2>3, <2>4, <2>5 DEF Process
<1>5. UNCHANGED op \/ \E p \in Proc : Process(p)
  BY DEF Next, vars, Edit, Checkout, MoveRefs, LoseLedger
<1> QED
  BY <1>2, <1>3, <1>4, <1>5

\* The ledger on disk, as the seen record sees it.
LEMMA AbstractState ==
    ASSUME disk # Missing, Good(disk, shown)
    PROVE  /\ RecordOf(disk.branch) = disk.now /\ disk.now # None /\ disk.branch \in Branch
           /\ \A b \in Branch : /\ RecordOf(b) = IF b = disk.branch THEN disk.now ELSE disk.parked[b]
                                /\ RecordOf(b) # None => GoodRecord(RecordOf(b), shown)
BY MissingAssumption DEF Good, GoodRecord, LedgerFile, RecordOf

\* A step that moves the record in force of a file that stays.
LEMMA InForce ==
    ASSUME Inv, disk # Missing, disk' # Missing, Good(disk', shown'),
           disk'.branch = disk.branch, disk'.parked = disk.parked
    PROVE  /\ \A b \in Branch : b # disk.branch => RecordOf(b)' = RecordOf(b)
           /\ RecordOf(disk.branch) = disk.now /\ RecordOf(disk.branch)' = disk'.now
           /\ disk.now # None /\ disk'.now # None /\ disk.branch \in Branch
<1>1. Good(disk, shown)
  BY DEF Inv, LedgersOK
<1> QED
  BY <1>1, MissingAssumption DEF Good, GoodRecord, LedgerFile, RecordOf

LEMMA AcceptRefines ==
    ASSUME Inv, disk # Missing, disk' # Missing, Good(disk', shown'),
           disk'.branch = disk.branch, disk'.parked = disk.parked,
           NEW f \in Some,
           Baseline(disk'.now) = Promise!Over(f, Baseline(disk.now)),
           disk'.now.undo = Append(IF Len(disk.now.undo) = UndoCap THEN Tail(disk.now.undo)
                                   ELSE disk.now.undo,
                                   Promise!Under(f, Baseline(disk.now)))
    PROVE  Promise!Accept(f)
<1>1. /\ \A b \in Branch : b # disk.branch => RecordOf(b)' = RecordOf(b)
      /\ RecordOf(disk.branch) = disk.now /\ RecordOf(disk.branch)' = disk'.now
      /\ disk.now # None /\ disk'.now # None /\ disk.branch \in Branch
  BY InForce
<1>2. InForceOf = disk.branch /\ UNCHANGED InForceOf
  BY DEF InForceOf
<1>3. SeenOf[disk.branch] = Baseline(disk.now) /\ StackOf[disk.branch] = disk.now.undo
  BY <1>1 DEF SeenOf, StackOf
<1>4. SeenOf' = [SeenOf EXCEPT ![disk.branch] = Promise!Over(f, Baseline(disk.now))]
  BY <1>1 DEF SeenOf
<1>5. StackOf' = [StackOf EXCEPT ![disk.branch] =
                    Append(IF Len(disk.now.undo) = UndoCap THEN Tail(disk.now.undo)
                           ELSE disk.now.undo,
                           Promise!Under(f, Baseline(disk.now)))]
  BY <1>1 DEF StackOf
<1> QED
  BY <1>2, <1>3, <1>4, <1>5 DEF Promise!Accept

LEMMA UndoRefines ==
    ASSUME Inv, disk # Missing, disk' # Missing, Good(disk', shown'),
           disk'.branch = disk.branch, disk'.parked = disk.parked, disk.now.undo # <<>>,
           Baseline(disk'.now) = Promise!Over(Last(disk.now.undo), Baseline(disk.now)),
           disk'.now.undo = SubSeq(disk.now.undo, 1, Len(disk.now.undo) - 1)
    PROVE  Promise!Undo
<1>1. /\ \A b \in Branch : b # disk.branch => RecordOf(b)' = RecordOf(b)
      /\ RecordOf(disk.branch) = disk.now /\ RecordOf(disk.branch)' = disk'.now
      /\ disk.now # None /\ disk'.now # None /\ disk.branch \in Branch
  BY InForce
<1>2. InForceOf = disk.branch /\ UNCHANGED InForceOf
  BY DEF InForceOf
<1>3. SeenOf[disk.branch] = Baseline(disk.now) /\ StackOf[disk.branch] = disk.now.undo
  BY <1>1 DEF SeenOf, StackOf
<1>4. SeenOf' = [SeenOf EXCEPT ![disk.branch] =
                   Promise!Over(disk.now.undo[Len(disk.now.undo)], Baseline(disk.now))]
  BY <1>1 DEF SeenOf, Last
<1>5. StackOf' = [StackOf EXCEPT ![disk.branch] =
                    SubSeq(disk.now.undo, 1, Len(disk.now.undo) - 1)]
  BY <1>1 DEF StackOf
<1> QED
  BY <1>2, <1>3, <1>4, <1>5 DEF Promise!Undo

\* A change of branch: the record of no other branch changes, though some are
\* forgotten.
LEMMA BranchFacts ==
    ASSUME Inv, disk # Missing, disk' # Missing, Good(disk', shown'),
           NEW b \in Branch, disk'.branch = b, disk.branch # b,
           \A x \in Branch : \/ disk'.parked[x] = None
                             \/ x = disk.branch /\ disk'.parked[x] = disk.now
                             \/ x # b /\ disk'.parked[x] = disk.parked[x]
    PROVE  /\ disk.branch \in Branch
           /\ RecordOf(disk.branch) = disk.now /\ disk.now # None
           /\ RecordOf(b) = disk.parked[b]
           /\ RecordOf(b)' = disk'.now /\ disk'.now # None
           /\ \A x \in Branch : x # b =>
                 RecordOf(x)' = None \/ RecordOf(x)' = RecordOf(x)
<1>1. Good(disk, shown)
  BY DEF Inv, LedgersOK
<1> QED
  BY <1>1, MissingAssumption DEF Good, GoodRecord, LedgerFile, RecordOf

LEMMA KnownIs ==
    ASSUME disk # Missing, Good(disk, shown)
    PROVE  \A b \in Branch : SeenOf[b] = None <=> RecordOf(b) = None
<1> SUFFICES ASSUME NEW b \in Branch, RecordOf(b) # None PROVE Baseline(RecordOf(b)) # None
  BY DEF SeenOf
<1>1. GoodRecord(RecordOf(b), shown)
  BY AbstractState
<1> QED
  BY <1>1, BaselineIs, NoneIsNothing DEF GoodRecord

LEMMA ReturnRefines ==
    ASSUME Inv, disk # Missing, disk' # Missing, Good(disk', shown'),
           NEW b \in Branch, disk'.branch = b, disk.branch # b, disk'.now = disk.parked[b],
           \A x \in Branch : \/ disk'.parked[x] = None
                             \/ x = disk.branch /\ disk'.parked[x] = disk.now
                             \/ x # b /\ disk'.parked[x] = disk.parked[x]
    PROVE  Promise!Return(b)
<1> DEFINE gone == {x \in Branch \ {b} : RecordOf(x)' = None}
<1>1. /\ b \in Branch /\ RecordOf(b)' = RecordOf(b) /\ RecordOf(b) # None /\ b # disk.branch
      /\ \A x \in Branch : x # b => RecordOf(x)' = None \/ RecordOf(x)' = RecordOf(x)
  BY BranchFacts
<1>2. gone \in SUBSET (Branch \ {b})
  OBVIOUS
<1>3. \A x \in Branch : /\ x \in gone => RecordOf(x)' = None
                        /\ x \notin gone => RecordOf(x)' = RecordOf(x)
  BY <1>1
<1> HIDE DEF gone
<1>4. SeenOf' = [x \in Branch |-> IF x \in gone THEN None ELSE SeenOf[x]]
  BY <1>3 DEF SeenOf
<1>5. StackOf' = [x \in Branch |-> IF x \in gone \/ SeenOf[x] = None THEN <<>> ELSE StackOf[x]]
  BY <1>3, KnownIs DEF StackOf, Inv, LedgersOK
<1>6. Promise!Forget(SeenOf, b)
  BY <1>2, <1>4, <1>5 DEF Promise!Forget
<1>7. InForceOf = disk.branch /\ InForceOf' = b
  BY DEF InForceOf
<1>8. SeenOf[b] = Baseline(RecordOf(b))
  BY <1>1 DEF SeenOf
<1>9. SeenOf[b] # None
  BY <1>1, <1>8, AbstractState, BaselineIs, NoneIsNothing DEF Inv, LedgersOK, GoodRecord
<1> QED
  BY <1>1, <1>6, <1>7, <1>9 DEF Promise!Return

LEMMA ArriveRefines ==
    ASSUME Inv, disk # Missing, disk' # Missing, Good(disk', shown'),
           NEW b \in Branch, disk'.branch = b, disk.branch # b, disk.parked[b] = None,
           NEW m \in MergeBases, NEW back \in SUBSET Path,
           Baseline(disk'.now) = [q \in Path |-> IF q \in back THEN m[q]
                                                 ELSE Baseline(disk.now)[q]],
           disk'.now.undo = <<>>,
           \A x \in Branch : \/ disk'.parked[x] = None
                             \/ x = disk.branch /\ disk'.parked[x] = disk.now
                             \/ x # b /\ disk'.parked[x] = disk.parked[x]
    PROVE  Promise!Arrive(b)
<1> DEFINE gone == {x \in Branch \ {b} : RecordOf(x)' = None}
           known == [SeenOf EXCEPT ![b] = [q \in Path |-> IF q \in back THEN m[q]
                                                          ELSE SeenOf[InForceOf][q]]]
<1>1. /\ b \in Branch /\ RecordOf(b) = None /\ b # disk.branch
      /\ disk.branch \in Branch /\ RecordOf(disk.branch) = disk.now /\ disk.now # None
      /\ RecordOf(b)' = disk'.now /\ disk'.now # None
      /\ \A x \in Branch : x # b => RecordOf(x)' = None \/ RecordOf(x)' = RecordOf(x)
  BY BranchFacts
<1>2. gone \in SUBSET (Branch \ {b})
  OBVIOUS
<1>3. \A x \in Branch : /\ x \in gone => RecordOf(x)' = None
                        /\ x \notin gone /\ x # b => RecordOf(x)' = RecordOf(x)
  BY <1>1
<1>4. InForceOf = disk.branch /\ InForceOf' = b /\ SeenOf[disk.branch] = Baseline(disk.now)
  BY <1>1 DEF InForceOf, SeenOf
<1>5. SeenOf[b] = None
  BY <1>1 DEF SeenOf
<1>6. known[b] = Baseline(disk'.now) /\ \A x \in Branch : x # b => known[x] = SeenOf[x]
  <2>1. known[b] = [q \in Path |-> IF q \in back THEN m[q] ELSE SeenOf[InForceOf][q]]
    BY DEF SeenOf
  <2> QED
    BY <1>4, <2>1 DEF SeenOf
<1> HIDE DEF gone, known
<1>7. SeenOf' = [x \in Branch |-> IF x \in gone THEN None ELSE known[x]]
  BY <1>1, <1>2, <1>3, <1>6 DEF SeenOf
<1>8. StackOf' = [x \in Branch |-> IF x \in gone \/ SeenOf[x] = None THEN <<>> ELSE StackOf[x]]
  <2>1. StackOf'[b] = <<>>
    BY <1>1 DEF StackOf
  <2>2. \A x \in Branch : x # b => StackOf'[x] =
           IF x \in gone \/ SeenOf[x] = None THEN <<>> ELSE StackOf[x]
    BY <1>3, KnownIs DEF StackOf, Inv, LedgersOK
  <2> QED
    BY <1>5, <2>1, <2>2 DEF StackOf
<1>9. Promise!Forget(known, b)
  BY <1>2, <1>7, <1>8 DEF Promise!Forget
<1> QED
  BY <1>1, <1>4, <1>5, <1>9 DEF Promise!Arrive, known

LEMMA RenameRefines ==
    ASSUME Inv, disk # Missing, disk' # Missing, Good(disk', shown'),
           NEW b \in Branch, disk'.branch = b, disk.branch # b, disk.parked[b] = None,
           disk'.now = disk.now,
           \A x \in Branch : disk'.parked[x] \in {disk.parked[x], None}
    PROVE  Promise!Rename(b)
<1>1. Good(disk, shown)
  BY DEF Inv, LedgersOK
<1>0. PICK c \in Branch : c = disk.branch
  BY <1>1 DEF Good, LedgerFile
<1> DEFINE gone == {x \in Branch \ {b, c} : RecordOf(x)' = None}
<1>2. /\ b \in Branch /\ RecordOf(b) = None /\ b # c
      /\ RecordOf(c) = disk.now /\ disk.now # None
      /\ RecordOf(b)' = disk.now
  BY <1>0, <1>1, MissingAssumption DEF Good, GoodRecord, LedgerFile, RecordOf
<1>3. disk'.parked[c] = None
  BY <1>0, <1>1, <1>2 DEF Good
<1>4. RecordOf(c)' = None
  BY <1>2, <1>3 DEF RecordOf
<1>5. \A x \in Branch : x \notin {b, c} =>
         RecordOf(x)' = None \/ RecordOf(x)' = RecordOf(x)
  BY <1>0 DEF RecordOf
<1>6. gone \in SUBSET (Branch \ {b, c})
  OBVIOUS
<1>7. \A x \in Branch : /\ x \in gone => RecordOf(x)' = None
                        /\ x \notin gone /\ x \notin {b, c} => RecordOf(x)' = RecordOf(x)
  BY <1>5
<1>8. InForceOf = c /\ InForceOf' = b /\ SeenOf[b] = None
  BY <1>0, <1>2 DEF InForceOf, SeenOf
<1> HIDE DEF gone
<1>9. SeenOf' = [x \in Branch |-> CASE x = b -> SeenOf[c]
                                    [] x \in gone \cup {c} -> None
                                    [] OTHER -> SeenOf[x]]
  <2>1. SeenOf'[b] = SeenOf[c]
    BY <1>2, <1>8 DEF SeenOf
  <2>2. \A x \in Branch : x # b /\ x \in gone \cup {c} => SeenOf'[x] = None
    BY <1>4, <1>7, <1>8 DEF SeenOf
  <2>3. \A x \in Branch : x # b /\ x \notin gone \cup {c} => SeenOf'[x] = SeenOf[x]
    BY <1>7, <1>8 DEF SeenOf
  <2> QED
    BY <1>2, <1>6, <2>1, <2>2, <2>3 DEF SeenOf
<1>10. StackOf' = [x \in Branch |-> CASE x = b -> StackOf[c]
                                      [] x \in gone \cup {c} -> <<>>
                                      [] OTHER -> StackOf[x]]
  <2>1. StackOf'[b] = StackOf[c]
    BY <1>2, <1>8 DEF StackOf
  <2>2. \A x \in Branch : x # b /\ x \in gone \cup {c} => StackOf'[x] = <<>>
    BY <1>4, <1>7, <1>8 DEF StackOf
  <2>3. \A x \in Branch : x # b /\ x \notin gone \cup {c} => StackOf'[x] = StackOf[x]
    BY <1>7, <1>8 DEF StackOf
  <2> QED
    BY <1>2, <1>6, <2>1, <2>2, <2>3 DEF StackOf
<1> QED
  BY <1>2, <1>6, <1>8, <1>9, <1>10 DEF Promise!Rename

LEMMA LoseRefines ==
    ASSUME disk # Missing, disk' = Missing
    PROVE  Promise!Lose
BY DEF Promise!Lose, RecordOf, InForceOf, SeenOf, StackOf

LEMMA RewriteRefines ==
    ASSUME disk = Missing, disk' # Missing, Good(disk', shown')
    PROVE  Promise!Rewrite
<1>1. /\ \A b \in Branch : b = disk'.branch => RecordOf(b)' = disk'.now
      /\ disk'.branch \in Branch /\ disk'.now # None
      /\ \A b \in Branch : RecordOf(b)' # None => GoodRecord(RecordOf(b)', shown')
  BY MissingAssumption DEF Good, GoodRecord, LedgerFile, RecordOf
<1>2. \A b \in Branch : RecordOf(b)' # None =>
         Baseline(RecordOf(b)') \in Tree /\ RecordOf(b)'.undo \in Seq(Some)
  BY <1>1, BaselineIs, RecordIs DEF GoodRecord
<1> QED
  BY <1>1, <1>2, NoneIsNothing DEF Promise!Rewrite, Promise!Some, Some, Tree, InForceOf, SeenOf, StackOf

\* A write that moves nothing the seen record has.
LEMMA SameRefines ==
    ASSUME Inv, disk # Missing, disk' # Missing, Good(disk', shown'),
           disk'.branch = disk.branch, disk'.parked = disk.parked,
           Baseline(disk'.now) = Baseline(disk.now), disk'.now.undo = disk.now.undo
    PROVE  UNCHANGED Promise!vars
<1>1. /\ \A b \in Branch : b # disk.branch => RecordOf(b)' = RecordOf(b)
      /\ RecordOf(disk.branch) = disk.now /\ RecordOf(disk.branch)' = disk'.now
      /\ disk.now # None /\ disk'.now # None /\ disk.branch \in Branch
  BY InForce
<1> QED
  BY <1>1 DEF Promise!vars, InForceOf, SeenOf, StackOf

\* A commit writes an accept of the paths it staged, or nothing of note.
LEMMA CommitRefines ==
    ASSUME Inv, NEW p \in Proc, Faithful(p), Commit(p), disk # Missing, disk' # disk
    PROVE  UNCHANGED Promise!vars \/ \E f \in Some : Promise!Accept(f)
<1> DEFINE staged == op[p].staged
           prior == op[p].prior
           new == Merged(p)
           f == [q \in Path |-> IF prior[q] = None THEN None ELSE Baseline(new.now)[q]]
<1>1. pc[p] # "closed" /\ disk' = new /\ UNCHANGED shown /\ Adopted(p) = disk
      /\ Base(p) = disk.now
  BY DEF Commit, Write, Adopted, Base
<1>2. /\ Good(new, shown) /\ new # Missing /\ new.branch = disk.branch /\ new.parked = disk.parked
      /\ GoodRecord(disk.now, shown) /\ GoodRecord(Pushed(p), shown)
      /\ new.now = Replay(Pushed(p), staged)
  BY <1>1, MergedIs
<1>3. /\ GoodStaged(staged, shown) /\ GoodStaged(prior, shown)
      /\ op[p].checked => \A q \in Path : staged[q] = None <=> prior[q] = None
      /\ ~op[p].checked => prior = Nothing
  BY OpIs DEF GoodOp
<1>4. /\ new.now.undo = Pushed(p).undo /\ new.now.tree = Pushed(p).tree
      /\ \A q \in Path : staged[q] # None => new.now.over[q] = staged[q]
      /\ \A q \in Path : staged[q] = None => Baseline(new.now)[q] = Baseline(Pushed(p))[q]
  BY <1>2, <1>3, ReplayIs
<1>5. Baseline(new.now) \in Tree /\ Baseline(disk.now) \in Tree
  BY <1>2, BaselineIs DEF Good
<1>6. CASE Keys(prior) = {}
  <2>1. Pushed(p) = disk.now
    BY <1>1, <1>6 DEF Pushed
  <2>2. \A q \in Path : Baseline(new.now)[q] = Baseline(disk.now)[q]
    <3>1. CASE op[p].checked
      BY <1>3, <1>4, <1>6, <2>1, <3>1 DEF Keys
    <3>2. CASE ~op[p].checked
      <4>1. \A q \in Path : staged[q] # None => new.now.over[q].blob = disk.now.over[q].blob
        BY <1>4, <3>2 DEF Faithful, Commit
      <4> QED
        BY <1>4, <2>1, <4>1 DEF Baseline
    <3> QED
      BY <3>1, <3>2
  <2>3. Baseline(new.now) = Baseline(disk.now)
    BY <2>2 DEF Baseline
  <2> QED
    BY <1>1, <1>2, <1>4, <2>1, <2>3, SameRefines
<1>7. CASE Keys(prior) # {}
  <2> op[p].checked
    BY <1>3, <1>7 DEF Keys, Nothing
  <2>1. Pushed(p) = PushUndo(disk.now, Prior(disk.now, Keys(prior)))
    BY <1>1, <1>7 DEF Pushed
  <2>2. GoodRows(Prior(disk.now, Keys(prior)), shown)
    BY <1>2, PriorIs
  <2>3. /\ Baseline(Pushed(p)) = Baseline(disk.now)
        /\ Pushed(p).undo = Append(IF Len(disk.now.undo) = UndoCap THEN Tail(disk.now.undo)
                                   ELSE disk.now.undo, Prior(disk.now, Keys(prior)))
    BY <1>2, <2>1, <2>2, PushUndoIs
  <2>4. f \in Some
    BY <1>5 DEF Some, Tree
  <2>5. \A q \in Path : f[q] = None <=> prior[q] = None
    BY <1>5, NoneAssumption DEF Tree
  <2>6. Baseline(new.now) = Promise!Over(f, Baseline(disk.now))
    <3>1. \A q \in Path : Baseline(new.now)[q] =
             IF f[q] = None THEN Baseline(disk.now)[q] ELSE f[q]
      BY <1>3, <1>4, <2>3, <2>5
    <3> HIDE DEF f
    <3> QED
      BY <3>1, <1>5 DEF Promise!Over, Tree
  <2>7. Prior(disk.now, Keys(prior)) = Promise!Under(f, Baseline(disk.now))
    <3> HIDE DEF f
    <3> QED
      BY <2>5 DEF Prior, Promise!Under, Keys
  <2> HIDE DEF f
  <2>8. Promise!Accept(f)
    BY <1>1, <1>2, <1>4, <2>3, <2>4, <2>6, <2>7, AcceptRefines
  <2> QED
    BY <2>4, <2>8
<1> QED
  BY <1>6, <1>7

\* So does accept-all; a compaction moves no baseline.
LEMMA FoldRefines ==
    ASSUME Inv, NEW p \in Proc, FoldNow(p), disk # Missing, disk' # disk
    PROVE  UNCHANGED Promise!vars \/ \E f \in Some : Promise!Accept(f)
<1> DEFINE f == op[p].asked
           new == Folded(p)
<1>1. pc[p] # "closed" /\ disk' = new /\ UNCHANGED shown /\ Adopted(p) = disk
  BY DEF FoldNow, Write, Adopted, Folded, Unfolded
<1>2. /\ Good(new, shown) /\ new # Missing /\ new.branch = disk.branch /\ new.parked = disk.parked
      /\ GoodRecord(disk.now, shown) /\ GoodRecord(Unfolded(p), shown)
      /\ new.now = Fold(Unfolded(p), f)
  BY <1>1, FoldedIs
<1>3. GoodRows(f, shown) /\ f \in Some
  BY OpIs DEF GoodOp
<1>4. /\ new.now.undo = Unfolded(p).undo
      /\ \A q \in Path : Baseline(new.now)[q] =
            IF f[q] = None THEN Baseline(Unfolded(p))[q] ELSE f[q]
  BY <1>2, <1>3, FoldIs
<1>5. Baseline(new.now) \in Tree /\ Baseline(disk.now) \in Tree
  BY <1>2, BaselineIs DEF Good
<1>6. CASE Keys(f) = {}
  <2>1. Unfolded(p) = disk.now
    BY <1>1, <1>6 DEF Unfolded
  <2>2. \A q \in Path : Baseline(new.now)[q] = Baseline(disk.now)[q]
    BY <1>4, <1>6, <2>1 DEF Keys
  <2>3. Baseline(new.now) = Baseline(disk.now)
    BY <2>2 DEF Baseline
  <2> QED
    BY <1>1, <1>2, <1>4, <2>1, <2>3, SameRefines
<1>7. CASE Keys(f) # {}
  <2>1. Unfolded(p) = PushUndo(disk.now, Prior(disk.now, Keys(f)))
    BY <1>1, <1>7 DEF Unfolded
  <2>2. GoodRows(Prior(disk.now, Keys(f)), shown)
    BY <1>2, PriorIs
  <2>3. /\ Baseline(Unfolded(p)) = Baseline(disk.now)
        /\ Unfolded(p).undo = Append(IF Len(disk.now.undo) = UndoCap THEN Tail(disk.now.undo)
                                     ELSE disk.now.undo, Prior(disk.now, Keys(f)))
    BY <1>2, <2>1, <2>2, PushUndoIs
  <2>4. Baseline(new.now) = Promise!Over(f, Baseline(disk.now))
    BY <1>4, <1>5, <2>3 DEF Promise!Over, Tree
  <2>5. Prior(disk.now, Keys(f)) = Promise!Under(f, Baseline(disk.now))
    BY DEF Prior, Promise!Under, Keys
  <2> HIDE DEF f
  <2>6. Promise!Accept(f)
    BY <1>1, <1>2, <1>3, <1>4, <2>3, <2>4, <2>5, AcceptRefines
  <2> QED
    BY <1>3, <2>6
<1> QED
  BY <1>6, <1>7

LEMMA UndoStepRefines ==
    ASSUME Inv, NEW p \in Proc, Undo(p), disk # Missing, disk' # disk
    PROVE  Promise!Undo
<1> DEFINE new == Undone(p)
           last == Last(disk.now.undo)
<1>1. pc[p] # "closed" /\ disk' = new /\ UNCHANGED shown /\ Adopted(p) = disk
      /\ disk.now.undo # <<>>
  BY UndoMoves DEF Undo, Press, Adopted
<1>2. /\ Good(new, shown) /\ new # Missing /\ new.branch = disk.branch /\ new.parked = disk.parked
      /\ GoodRecord(disk.now, shown) /\ GoodRecord(PopUndo(disk.now), shown)
      /\ new.now = SetOverrides(PopUndo(disk.now), last)
  BY <1>1, UndoneIs
<1>3. /\ Baseline(PopUndo(disk.now)) = Baseline(disk.now) /\ GoodRows(last, shown)
      /\ PopUndo(disk.now).undo = SubSeq(disk.now.undo, 1, Len(disk.now.undo) - 1)
  BY <1>1, <1>2, PopUndoIs
<1>4. /\ new.now.undo = PopUndo(disk.now).undo
      /\ \A q \in Path : Baseline(new.now)[q] =
            IF last[q] = None THEN Baseline(disk.now)[q] ELSE last[q]
  BY <1>2, <1>3, SetOverridesIs
<1>5. Baseline(new.now) \in Tree
  BY <1>2, BaselineIs DEF Good
<1>6. Baseline(new.now) = Promise!Over(last, Baseline(disk.now))
  BY <1>4, <1>5 DEF Promise!Over, Tree
<1> HIDE DEF last
<1> QED
  BY <1>1, <1>2, <1>3, <1>4, <1>6, UndoRefines DEF last

LEMMA SwitchRefines ==
    ASSUME Inv, Inv', NEW p \in Proc, SwitchRenamed(p) \/ SwitchLoad(p) \/ SwitchFirstSight(p),
           disk # Missing, disk' # Missing
    PROVE  \E b \in Branch : Promise!Return(b) \/ Promise!Arrive(b) \/ Promise!Rename(b)
<1>1. Good(disk', shown') /\ Adopted(p) = disk
  BY DEF Inv, LedgersOK, Adopted
<1>2. pc[p] = "switch" /\ to[p] \in Branch
  BY DEF SwitchRenamed, SwitchLoad, SwitchFirstSight, Switching, Inv, StepsOK
<1>3. PICK b \in Branch : b = to[p]
  BY <1>2
<1>4. CASE SwitchRenamed(p)
  <2>1. /\ disk'.branch = b /\ disk.branch # b /\ disk'.now = disk.now /\ disk.parked[b] = None
        /\ \A x \in Branch : disk'.parked[x] \in {disk.parked[x], None}
    BY <1>1, <1>3, <1>4, RenamedMoves
  <2> QED
    BY <1>1, <2>1, RenameRefines
<1>5. CASE SwitchLoad(p)
  <2>1. /\ disk'.branch = b /\ disk.branch # b /\ disk'.now = disk.parked[b]
        /\ \A x \in Branch : \/ disk'.parked[x] = None
                             \/ x = disk.branch /\ disk'.parked[x] = disk.now
                             \/ x # b /\ disk'.parked[x] = disk.parked[x]
    BY <1>1, <1>3, <1>5, LoadMoves
  <2> QED
    BY <1>1, <2>1, ReturnRefines
<1>6. CASE SwitchFirstSight(p)
  <2>1. PICK m \in MergeBases, back \in SUBSET Path :
          /\ disk'.branch = b /\ disk.branch # b /\ disk.parked[b] = None
          /\ Baseline(disk'.now) = [q \in Path |-> IF q \in back THEN m[q]
                                                   ELSE Baseline(disk.now)[q]]
          /\ disk'.now.undo = <<>>
          /\ \A x \in Branch : \/ disk'.parked[x] = None
                               \/ x = disk.branch /\ disk'.parked[x] = disk.now
                               \/ x # b /\ disk'.parked[x] = disk.parked[x]
    BY <1>1, <1>3, <1>6, FirstSightMoves
  <2> QED
    BY <1>1, <2>1, ArriveRefines
<1> QED
  BY <1>4, <1>5, <1>6

\* Every step is a step of the seen record, or none.
LEMMA RefinesNext ==
    ASSUME Inv, \A p \in Proc : Commit(p) => Faithful(p), [Next]_vars
    PROVE  [Promise!Next]_(Promise!vars)
<1>1. Inv'
  BY InvStep
<1>2. InForceOf = None <=> disk = Missing
  BY BranchAssumption DEF InForceOf, Inv, LedgersOK, Good, LedgerFile
<1>3. CASE disk' = disk
  BY <1>3 DEF Promise!vars, InForceOf, SeenOf, StackOf, RecordOf
<1>4. CASE disk = Missing /\ disk' # Missing
  <2>1. Promise!Rewrite
    BY <1>1, <1>4, RewriteRefines DEF Inv, LedgersOK
  <2> QED
    BY <1>2, <1>4, <2>1 DEF Promise!Next
<1>5. CASE disk # Missing /\ disk' = Missing
  BY <1>2, <1>5, LoseRefines DEF Promise!Next
<1>6. CASE disk # Missing /\ disk' # Missing /\ disk' # disk
  <2>1. PICK p \in Proc : Process(p)
    BY <1>6 DEF Next, vars, Edit, Checkout, MoveRefs, LoseLedger
  <2>2. \/ Commit(p) \/ FoldNow(p) \/ Undo(p)
        \/ SwitchRenamed(p) \/ SwitchLoad(p) \/ SwitchFirstSight(p)
    <3>1. ~Snooze(p)
      BY <1>6 DEF Snooze, Write, Adopted
    <3>2. ~Open(p) /\ ~Flagging(p) /\ ~LockBusy(p) /\ ~Crash(p)
      BY <1>6 DEF Open, Flagging, Flag, Unflag, LockBusy, Crash
    <3>3. ~Accept(p)
      BY <1>6 DEF Accept, AcceptFile, AcceptGroup, AcceptHunk, AcceptAll
    <3>4. ~Rescan(p) /\ ~Sync(p) /\ ~NoSwitch(p) /\ ~Render(p)
      BY <1>6 DEF Rescan, Sync, NoSwitch, Render
    <3> QED
      BY <2>1, <3>1, <3>2, <3>3, <3>4 DEF Process, Scan
  <2>3. \/ UNCHANGED Promise!vars
        \/ \E f \in Promise!Some : Promise!Accept(f)
        \/ Promise!Undo
        \/ \E b \in Branch : Promise!Return(b) \/ Promise!Arrive(b) \/ Promise!Rename(b)
    BY <1>1, <1>6, <2>2, CommitRefines, FoldRefines, UndoStepRefines, SwitchRefines
       DEF Some, Promise!Some
  <2> QED
    BY <1>2, <1>6, <2>3 DEF Promise!Next
<1> QED
  BY <1>3, <1>4, <1>5, <1>6

LEMMA RefinesInit == Init => Promise!Init
<1> SUFFICES ASSUME Init PROVE Promise!Init
  OBVIOUS
<1>1. Inv /\ disk # Missing
  <2>1. Inv
    BY InitInv
  <2>2. disk \in LedgerFile
    <3>1. PICK t \in Tree : disk = [branch |-> head, now |-> FirstRecord(t),
                                    parked |-> [b \in Branch |-> None]]
      BY DEF Init
    <3>2. NoOverride \in Override
      BY DEF NoOverride, Override
    <3> QED
      BY <3>1, <3>2 DEF Init, LedgerFile, Record, FirstRecord
  <2> QED
    BY <2>1, <2>2, MissingAssumption
<1>2. /\ disk.branch \in Branch /\ disk.now.undo = <<>>
      /\ \A b \in Branch : disk.parked[b] = None
  BY DEF Init, FirstRecord
<1>3. /\ RecordOf(disk.branch) = disk.now /\ disk.now # None
      /\ \A b \in Branch : b # disk.branch => RecordOf(b) = None
  BY <1>1, <1>2, AbstractState DEF Inv, LedgersOK
<1>4. Baseline(disk.now) \in Tree
  BY <1>1, BaselineIs DEF Inv, LedgersOK, Good
<1>5. InForceOf = disk.branch
  BY <1>1 DEF InForceOf
<1>6. /\ SeenOf \in [Branch -> Tree \cup {None}]
      /\ \A b \in Branch : SeenOf[b] = None <=> b # disk.branch
  BY <1>2, <1>3, <1>4, NoneIsNothing DEF SeenOf
<1>7. StackOf = [b \in Branch |-> <<>>]
  BY <1>2, <1>3 DEF StackOf
<1> QED
  BY <1>2, <1>5, <1>6, <1>7 DEF Promise!Init, Tree

\* For any number of paths, hunks and branches, and for one process, or any
\* number of them as long as nothing is flagged: the ledger file implements the
\* seen record.  The flag of one of several processes is left out because it
\* writes the whole override it found in memory.
THEOREM ImplementsPromise == (Alone \/ "flag" \notin Ops) => (Spec => ImplementsSeenRecord)
<1> SUFFICES ASSUME Alone \/ "flag" \notin Ops PROVE Spec => ImplementsSeenRecord
  OBVIOUS
<1>1. Init => Inv /\ AllChecked /\ Solo
  BY InitInv DEF Init, AllChecked, NoOp, Solo
<1>2. Inv /\ (\A p \in Proc : Commit(p) => Faithful(p)) /\ [Next]_vars
        => [Promise!Next]_(Promise!vars)
  BY RefinesNext
<1>3. ASSUME "flag" \notin Ops PROVE Spec => ImplementsSeenRecord
  <2>1. Inv /\ AllChecked /\ [Next]_vars => Inv' /\ AllChecked'
    BY <1>3, InvStep, CheckedStep
  <2>2. AllChecked => \A p \in Proc : Commit(p) => Faithful(p)
    BY DEF AllChecked, Faithful
  <2> QED
    BY <1>1, <1>2, <2>1, <2>2, RefinesInit, PTL DEF Spec, ImplementsSeenRecord, Promise!Spec
<1>4. ASSUME Alone PROVE Spec => ImplementsSeenRecord
  <2>1. Inv /\ Solo /\ [Next]_vars => Inv' /\ Solo'
    BY <1>4, InvStep, SoloStep
  <2>2. Solo => \A p \in Proc : Commit(p) => Faithful(p)
    BY DEF Solo, Faithful
  <2> QED
    BY <1>1, <1>2, <2>1, <2>2, RefinesInit, PTL DEF Spec, ImplementsSeenRecord, Promise!Spec
<1> QED
  BY <1>3, <1>4

-----------------------------------------------------------------------------
(* What a flag can take back.                                              *)

\* Between its keystroke and its commit, a flag has one override to replay: the
\* one the ledger in memory has for its path.
FlagHeld == \A p \in Proc : pc[p] = "commit" /\ ~op[p].checked =>
    \E q \in Path : /\ op[p].staged[q] # None /\ op[p].staged[q] = mem[p].now.over[q]
                    /\ \A x \in Path \ {q} : op[p].staged[x] = None

\* A flag's commit, onto a record whose override of the path has another blob
\* than the one in memory: that blob is written, and nothing else of the record
\* in force moves, nor of the branches that were left.
FlagOverwrites(p) ==
    /\ Commit(p) /\ ~op[p].checked
    /\ disk' # Missing
    /\ disk'.branch = disk.branch /\ disk'.parked = disk.parked
    /\ disk'.now.tree = disk.now.tree /\ disk'.now.undo = disk.now.undo
    /\ \E q \in Path : /\ disk.now.over[q].blob # mem[p].now.over[q].blob
                       /\ disk'.now.over[q] = mem[p].now.over[q]
                       /\ \A x \in Path \ {q} : disk'.now.over[x] = disk.now.over[x]

LEMMA FlagHeldStep ==
    ASSUME Inv, FlagHeld, [Next]_vars
    PROVE  FlagHeld'
<1> USE DEF Inv, ProcsOK
<1>1. CASE UNCHANGED <<mem, pc, op>>
  BY <1>1 DEF FlagHeld
<1>2. ASSUME NEW r \in Proc, Process(r), NEW p \in Proc, pc'[p] = "commit", ~op'[p].checked
      PROVE  \E q \in Path : /\ op'[p].staged[q] # None /\ op'[p].staged[q] = mem'[p].now.over[q]
                             /\ \A x \in Path \ {q} : op'[p].staged[x] = None
  <2>1. CASE p # r
    BY <1>2, <2>1, OthersStay DEF FlagHeld
  <2>2. CASE p = r
    <3>1. /\ pc[p] = "idle"
          /\ \/ \E f : Stage(p, f)
             \/ \E q \in Path, flags \in SUBSET Note : StageFlags(p, q, flags)
      BY <1>2, <2>2, ToCommit
    <3>2. ~\E f : Stage(p, f)
      BY <1>2 DEF Stage
    <3>3. PICK q \in Path, flags \in SUBSET Note : StageFlags(p, q, flags)
      BY <3>1, <3>2
    <3> DEFINE before == mem[p].now
               held == [before.over[q] EXCEPT !.flags = flags]
    <3>4. mem[p] \in LedgerFile /\ before \in Record /\ before.over[q] \in Override
      BY <3>1, AdoptedIs, RecordIs DEF Good, GoodRecord
    <3>5. op'[p].staged = [Nothing EXCEPT ![q] = held]
      BY <3>3 DEF StageFlags, NoOp
    <3>6. mem'[p].now.over = [before.over EXCEPT ![q] = held]
      BY <3>3, <3>4 DEF StageFlags, LedgerFile, Record
    <3>7. held \in Override
      BY <3>4 DEF Override
    <3> HIDE DEF held
    <3>8. op'[p].staged[q] = held /\ \A x \in Path \ {q} : op'[p].staged[x] = None
      BY <3>5 DEF Nothing
    <3>9. mem'[p].now.over[q] = held
      BY <3>4, <3>6 DEF Record
    <3> QED
      BY <3>7, <3>8, <3>9, NoneIsNothing
  <2> QED
    BY <2>1, <2>2
<1>3. (\E r \in Proc : Process(r)) \/ UNCHANGED <<mem, pc, op>>
  BY DEF Next, vars, Edit, Checkout, MoveRefs, LoseLedger
<1> QED
  BY <1>1, <1>2, <1>3 DEF FlagHeld

\* A flag's commit that replays another blob overwrites that one path.
LEMMA UnfaithfulOverwrites ==
    ASSUME Inv, FlagHeld, NEW p \in Proc, Commit(p), ~Faithful(p)
    PROVE  FlagOverwrites(p)
<1> DEFINE staged == op[p].staged
           new == Merged(p)
<1>1. pc[p] = "commit" /\ ~op[p].checked /\ disk # Missing
  BY DEF Faithful
<1>2. PICK q \in Path : /\ staged[q] # None /\ staged[q] = mem[p].now.over[q]
                        /\ \A x \in Path \ {q} : staged[x] = None
  BY <1>1 DEF FlagHeld
<1>3. staged[q].blob # disk.now.over[q].blob
  BY <1>1, <1>2 DEF Faithful
<1>4. disk' = new /\ Adopted(p) = disk /\ Base(p) = disk.now
  BY <1>1 DEF Commit, Write, Adopted, Base
<1>5. /\ new # Missing /\ new.branch = disk.branch /\ new.parked = disk.parked
      /\ GoodRecord(Pushed(p), shown) /\ new.now = Replay(Pushed(p), staged)
  BY <1>1, <1>4, MergedIs
<1>6. GoodStaged(staged, shown) /\ op[p].prior = Nothing
  BY <1>1, OpIs DEF GoodOp
<1>7. Pushed(p) = disk.now
  BY <1>4, <1>6 DEF Pushed, Keys, Nothing
<1>8. /\ new.now.undo = disk.now.undo /\ new.now.tree = disk.now.tree
      /\ \A x \in Path : new.now.over[x] = IF staged[x] = None THEN disk.now.over[x] ELSE staged[x]
  BY <1>5, <1>6, <1>7, ReplayIs
<1> HIDE DEF new, staged
<1> QED
  BY <1>1, <1>2, <1>3, <1>4, <1>5, <1>8 DEF FlagOverwrites

\* For any number of processes and every kind of keystroke: each step of the
\* ledger file is a step of the seen record, or none, except the commit of a
\* flag onto a record that another process has moved since it was read.  That
\* one writes the override of the flagged path as it was in memory, and nothing
\* else: an accept can be taken back without an undo on that path alone, and no
\* undo entry, branch or other path is touched.
THEOREM OnlyFlagsTakeBack ==
    Spec => /\ Promise!Init
            /\ [][[Promise!Next]_(Promise!vars) \/ \E p \in Proc : FlagOverwrites(p)]_vars
<1>1. Init => Inv /\ FlagHeld
  BY InitInv DEF Init, FlagHeld
<1>2. Inv /\ FlagHeld /\ [Next]_vars => Inv' /\ FlagHeld'
  BY InvStep, FlagHeldStep
<1>3. Inv /\ FlagHeld /\ [Next]_vars =>
         [Promise!Next]_(Promise!vars) \/ \E p \in Proc : FlagOverwrites(p)
  BY RefinesNext, UnfaithfulOverwrites
<1> QED
  BY <1>1, <1>2, <1>3, RefinesInit, PTL DEF Spec

-----------------------------------------------------------------------------
(* Rows are accepted in the branch they were rendered under.               *)

RowsStaged(p) == pc[p] \in {"commit", "fold"} /\ op[p].asked # Nothing

RowsInv == \A p \in Proc :
    /\ pile[p].on = None => Rows(p) = {}
    /\ RowsStaged(p) => /\ op[p].checked /\ pile[p].on = op[p].on
                        /\ mem[p].branch = op[p].on

\* Accepts of several rows are those of the branch in force.
LEMMA RowsAccepted ==
    ASSUME Inv, RowsInv, {"file", "hunk"} \cap Ops = {}, NEW p \in Proc, Accept(p)
    PROVE  UNCHANGED pile /\ (RowsStaged(p)' =>
             op'[p].checked /\ pile[p].on = op'[p].on /\ mem'[p].branch = op'[p].on)
<1> USE DEF Inv, ProcsOK
<1>1. UNCHANGED pile
  BY DEF Accept, AcceptFile, AcceptHunk, AcceptGroup, AcceptAll
<1>2. (\E S \in SUBSET Path : AcceptGroup(p, S)) \/ AcceptAll(p)
  BY DEF Accept, AcceptFile, AcceptHunk, Press
<1>3. pc[p] = "idle"
  BY <1>2 DEF AcceptGroup, AcceptAll, Press
<1>4. CASE Declined(p)
  BY <1>1, <1>4 DEF Declined, Goto, RowsStaged
<1>5. mem[p] \in LedgerFile
  BY <1>3, AdoptedIs DEF Good
<1>6. Rows(p) # {} /\ ~PileMoved(p) => pile[p].on = mem[p].branch
  BY DEF RowsInv, PileMoved
<1>7. ASSUME NEW S \in SUBSET Path, AcceptGroup(p, S), ~Declined(p)
      PROVE  op'[p].checked /\ pile[p].on = op'[p].on /\ mem'[p].branch = op'[p].on
  <2>1. Rows(p) # {} /\ ~PileMoved(p)
    BY <1>7 DEF AcceptGroup
  <2>2. Stage(p, Accepted(p, S))
    BY <1>7 DEF AcceptGroup, StageRows
  <2>3. op'[p].checked /\ op'[p].on = mem[p].branch
    BY <2>2 DEF Stage
  <2>4. \E r : mem' = [mem EXCEPT ![p].now = r]
    BY <2>2 DEF Stage
  <2>5. mem'[p].branch = mem[p].branch
    BY <1>5, <2>4 DEF LedgerFile
  <2> QED
    BY <1>6, <2>1, <2>3, <2>5
<1>8. ASSUME AcceptAll(p), ~Declined(p), op'[p].asked # Nothing
      PROVE  op'[p].checked /\ pile[p].on = op'[p].on /\ mem'[p].branch = op'[p].on
  <2>1. /\ ~PileMoved(p) /\ UNCHANGED mem
        /\ op' = [op EXCEPT ![p] = [NoOp EXCEPT !.on = mem[p].branch,
                                                !.asked = Rendered(p, Rows(p))]]
    BY <1>8 DEF AcceptAll
  <2>2. /\ op'[p].checked /\ op'[p].on = mem[p].branch /\ op'[p].asked = Rendered(p, Rows(p))
    BY <2>1 DEF NoOp
  <2>3. Rows(p) # {}
    BY <1>8, <2>2 DEF Rendered, Nothing
  <2> QED
    BY <1>6, <2>1, <2>2, <2>3
<1> QED
  BY <1>1, <1>2, <1>4, <1>7, <1>8 DEF RowsStaged

LEMMA RowsStep ==
    ASSUME Inv, RowsInv, {"file", "hunk"} \cap Ops = {}, [Next]_vars
    PROVE  RowsInv'
<1> USE DEF Inv, ProcsOK
<1>1. ASSUME UNCHANGED <<mem, pile, pc, op>>
      PROVE  RowsInv'
  BY <1>1 DEF RowsInv, RowsStaged, Rows
<1>2. ASSUME NEW r \in Proc, Process(r), NEW p \in Proc
      PROVE  /\ pile'[p].on = None => Rows(p)' = {}
             /\ RowsStaged(p)' => /\ op'[p].checked /\ pile'[p].on = op'[p].on
                                  /\ mem'[p].branch = op'[p].on
  <2>1. CASE p # r
    BY <1>2, <2>1, OthersStay DEF RowsInv, RowsStaged, Rows
  <2>2. CASE p = r /\ Accept(p)
    BY <2>2, RowsAccepted DEF RowsInv, Rows
  <2>3. CASE p = r /\ ~Accept(p)
    <3>1. \/ pile' = pile \/ Render(p) \/ Crash(p)
      BY <1>2, <2>3 DEF Process, Flagging, Scan, Flag, Unflag, Open, Undo, Snooze, Commit,
             FoldNow, LockBusy, Rescan, Sync, NoSwitch, SwitchRenamed, SwitchLoad,
             SwitchFirstSight
    <3>2. pile'[p].on = None => Rows(p)' = {}
      <4>1. CASE Render(p)
        <5>1. mem[p].branch \in Branch
          BY <4>1, AdoptedIs DEF Render, Good, LedgerFile
        <5>2. pile'[p].on = mem[p].branch
          BY <4>1 DEF Render, PilesOK
        <5> QED
          BY <5>1, <5>2, BranchAssumption
      <4>2. CASE Crash(p)
        BY <4>2 DEF Crash, Rows, EmptyPile, PilesOK
      <4> QED
        BY <3>1, <4>1, <4>2 DEF RowsInv, Rows
    <3>3. ~RowsStaged(p)'
      <4>1. CASE Commit(p)
        <5>1. PICK l, o, step : Moves(p, l, o, step, to[p]) /\ o.asked = Nothing
          BY <4>1, CommitMoves
        <5> QED
          BY <5>1 DEF Moves, RowsStaged
      <4>2. CASE Flagging(p)
        <5>1. Declined(p) \/ \E q, flags : StageFlags(p, q, flags)
          BY <4>2 DEF Flagging, Flag, Unflag
        <5>2. CASE Declined(p)
          BY <5>2 DEF Declined, Goto, RowsStaged
        <5>3. ASSUME NEW q, NEW flags, StageFlags(p, q, flags)
              PROVE  op'[p].asked = Nothing
          BY <5>3 DEF StageFlags, NoOp
        <5> QED
          BY <5>1, <5>2, <5>3 DEF RowsStaged
      <4>3. CASE Open(p) \/ Undo(p) \/ Snooze(p) \/ FoldNow(p) \/ LockBusy(p) \/ Crash(p)
        BY <4>3 DEF Open, Undo, Snooze, FoldNow, LockBusy, Crash, Done, Goto, RowsStaged
      <4>4. CASE Scan(p)
        BY <4>4 DEF Scan, Rescan, Sync, NoSwitch, SwitchRenamed, SwitchLoad, SwitchFirstSight,
                    Switched, Render, Goto, RowsStaged
      <4> QED
        BY <1>2, <2>3, <4>1, <4>2, <4>3, <4>4 DEF Process
    <3> QED
      BY <3>2, <3>3
  <2> QED
    BY <2>1, <2>2, <2>3
<1>3. (\E r \in Proc : Process(r)) \/ UNCHANGED <<mem, pile, pc, op>>
  BY DEF Next, vars, Edit, Checkout, MoveRefs, LoseLedger
<1> QED
  BY <1>1, <1>2, <1>3 DEF RowsInv

\* A write of staged rows is to the record of the branch they were taken under.
LEMMA RowsLand ==
    ASSUME Inv, RowsInv, [Next]_vars, NEW p \in Proc, RowsStaged(p),
           disk' # disk, mem'[p] = disk'
    PROVE  pile[p].on = disk'.branch
<1>1. op[p].checked /\ pile[p].on = op[p].on /\ mem[p].branch = op[p].on /\ pc[p] # "closed"
  BY DEF RowsInv, RowsStaged
<1>2. CASE mem'[p] = mem[p]
  BY <1>1, <1>2
<1>3. CASE mem'[p] # mem[p]
  <2>1. Process(p)
    BY <1>3, OthersStay DEF Next, vars, Edit, Checkout, MoveRefs, LoseLedger
  <2>2. Commit(p) \/ FoldNow(p)
    BY <2>1 DEF Process, RowsStaged, Open, Accept, AcceptFile, AcceptHunk, AcceptGroup, AcceptAll,
                Flagging, Flag, Unflag, Undo, Snooze, Press, LockBusy, Crash, Scan, Rescan, Sync,
                NoSwitch, SwitchRenamed, SwitchLoad, SwitchFirstSight, Switching, Render
  <2>3. ~BranchMoved(op[p].on) /\ disk' \in {Merged(p), Folded(p)}
    BY <1>1, <2>2 DEF Commit, FoldNow, Write, Folded, Unfolded
  <2>4. disk'.branch = Adopted(p).branch
    BY <1>1, <2>3, MergedIs, FoldedIs
  <2> QED
    BY <1>1, <2>3, <2>4 DEF BranchMoved, Adopted
<1> QED
  BY <1>2, <1>3

\* For any number of processes, paths and branches whose accepts are groups
\* and accept-all: rows are written to the record of the branch they were
\* rendered under.
THEOREM RowsInTheirBranch ==
    {"file", "hunk"} \cap Ops = {} => (Spec => RowsKeepTheirBranch)
<1> SUFFICES ASSUME {"file", "hunk"} \cap Ops = {} PROVE Spec => RowsKeepTheirBranch
  OBVIOUS
<1>1. Init => Inv /\ RowsInv
  <2> SUFFICES ASSUME Init PROVE Inv /\ RowsInv
    OBVIOUS
  <2>1. \A p \in Proc : pc[p] = "closed" /\ pile[p] = EmptyPile
    BY DEF Init
  <2>2. \A p \in Proc : Rows(p) = {}
    BY <2>1 DEF Rows, EmptyPile
  <2> QED
    BY <2>1, <2>2, InitInv DEF RowsInv, RowsStaged
<1>2. Inv /\ RowsInv /\ [Next]_vars => Inv' /\ RowsInv'
  BY InvStep, RowsStep
<1>3. Inv /\ RowsInv /\ [Next]_vars =>
        \A p \in Proc : op[p].asked # Nothing /\ pc[p] \in {"commit", "fold"} /\ disk' # disk
                          /\ mem'[p] = disk' => pile[p].on = disk'.branch
  BY RowsLand DEF RowsStaged
<1> QED
  BY <1>1, <1>2, <1>3, PTL DEF Spec, RowsKeepTheirBranch

=============================================================================
