------------------------------ MODULE SeenRecord ------------------------------
(* What the ledger of a repository promises, without the ledger.           *)
(*                                                                         *)
(* Every branch that was ever reviewed has one function from paths to what *)
(* the user has seen there, and a stack of what accepts replaced.  Only an *)
(* accept, an undo and a change of branch move any of it; overrides, folds, *)
(* compactions, flags, snoozes, several processes and their merges are not *)
(* visible here.                                                           *)
EXTENDS Naturals, Sequences

CONSTANTS Path, Entry, Branch, None, UndoCap, MergeBases

VARIABLES
    force,  \* the branch whose record is in force, None where all is lost
    seen,   \* seen[b]: what the user has seen on b, or None
    stack   \* stack[b]: what the accepts on b replaced, newest last

vars == <<force, seen, stack>>

Some == [Path -> Entry \cup {None}]
Over(f, g) == [q \in Path |-> IF f[q] = None THEN g[q] ELSE f[q]]
Under(f, g) == [q \in Path |-> IF f[q] = None THEN None ELSE g[q]]

Init ==
    /\ force \in Branch
    /\ seen \in [Branch -> [Path -> Entry] \cup {None}]
    /\ \A b \in Branch : seen[b] = None <=> b # force
    /\ stack = [b \in Branch |-> <<>>]

\* Some paths are accepted at some content; what was seen before is kept for
\* an undo, the last UndoCap of them.
Accept(f) ==
    LET s == stack[force]
    IN  /\ seen' = [seen EXCEPT ![force] = Over(f, @)]
        /\ stack' = [stack EXCEPT ![force] =
                        Append(IF Len(s) = UndoCap THEN Tail(s) ELSE s, Under(f, seen[force]))]
        /\ UNCHANGED force

\* The newest accept still on the stack is taken back.
Undo ==
    LET s == stack[force]
    IN  /\ s # <<>>
        /\ seen' = [seen EXCEPT ![force] = Over(s[Len(s)], @)]
        /\ stack' = [stack EXCEPT ![force] = SubSeq(s, 1, Len(s) - 1)]
        /\ UNCHANGED force

\* What is known of some branches (never the one in force) is forgotten.
Forget(known, b) ==
    \E gone \in SUBSET (Branch \ {b}) :
        /\ seen' = [x \in Branch |-> IF x \in gone THEN None ELSE known[x]]
        /\ stack' = [x \in Branch |-> IF x \in gone \/ seen[x] = None THEN <<>> ELSE stack[x]]

\* Back on a branch: everything is as it was left there.
Return(b) ==
    /\ b # force /\ seen[b] # None
    /\ force' = b
    /\ Forget(seen, b)

\* First time on a branch: what was seen on the one left, with some paths taken
\* back to where the two branches parted.
Arrive(b) ==
    /\ b # force /\ seen[b] = None
    /\ force' = b
    /\ \E m \in MergeBases, back \in SUBSET Path :
           Forget([seen EXCEPT ![b] = [q \in Path |-> IF q \in back THEN m[q] ELSE seen[force][q]]], b)

\* The branch in force has another name.
Rename(b) ==
    /\ b # force /\ seen[b] = None
    /\ force' = b
    /\ \E gone \in SUBSET (Branch \ {b, force}) :
           /\ seen' = [x \in Branch |-> CASE x = b -> seen[force]
                                          [] x \in gone \cup {force} -> None
                                          [] OTHER -> seen[x]]
           /\ stack' = [x \in Branch |-> CASE x = b -> stack[force]
                                           [] x \in gone \cup {force} -> <<>>
                                           [] OTHER -> stack[x]]

\* Everything is lost, and later put back from a copy of unknown age.
Lose ==
    /\ force' = None
    /\ seen' = [b \in Branch |-> None]
    /\ stack' = [b \in Branch |-> <<>>]

Rewrite ==
    /\ force' \in Branch
    /\ seen' \in [Branch -> [Path -> Entry] \cup {None}]
    /\ seen'[force'] # None
    /\ stack' \in [Branch -> Seq(Some)]

\* What changes nothing is no step of the seen record.
Next ==
    /\ vars' # vars
    /\ IF force = None THEN Rewrite
       ELSE \/ \E f \in Some : Accept(f)
            \/ Undo
            \/ \E b \in Branch : Return(b) \/ Arrive(b) \/ Rename(b)
            \/ Lose

Spec == Init /\ [][Next]_vars

=============================================================================
