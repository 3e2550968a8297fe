--------------------------- MODULE MCGoalExecution ---------------------------
(* Instances of GoalExecution for TLC. *)
EXTENDS GoalExecution, TLC, SequencesExt

CONSTANTS base, left, right, top

\* A diamond: two goals on one base, a third one on both, declared in an order
\* in which neither top nor left follows what it depends on.
Diamond == {base, left, right, top}
DiamondDeps == base :> {} @@ left :> {base} @@ right :> {base} @@ top :> {left, right}
DiamondDeclared == top :> 1 @@ left :> 2 @@ base :> 3 @@ right :> 4
DiamondPriority == base :> 2 @@ left :> 1 @@ right :> 1 @@ top :> 3
DiamondKey == base :> 1 @@ left :> 2 @@ right :> 3 @@ top :> 4
DiamondAttempts == base :> 2 @@ left :> 2 @@ right :> 1 @@ top :> 1
\* Each action may also break what was built on its goal.
DiamondTouches == base :> {base, left} @@ left :> {left, top} @@ right :> {right} @@ top :> {top}

\* Refresh against the loop of _refresh_states itself, on every assignment of
\* statuses: one goal after the other, each seeing what came before.
Visit(st, g) ==
    [st EXCEPT ![g] =
        IF st[g] \in {"passed", "running", "exhausted"} THEN st[g]
        ELSE IF \E d \in Deps[g] : st[d] \in {"exhausted", "blocked"} THEN "blocked"
        ELSE IF DepsPassed(st, g) THEN "ready"
        ELSE "pending"]

InDeclarationOrder == SetToSortSeq(Goal, LAMBDA g, h : Declared[g] < Declared[h])

ASSUME RefreshIsThePass ==
    \A st \in [Goal -> Status] : Refresh(st) = {FoldLeft(Visit, st, InDeclarationOrder)}

\* Two goals that write the same file: the action of one undoes the other.
Pair == {left, right}
PairDeps == left :> {} @@ right :> {}
PairNumber == left :> 1 @@ right :> 2
PairAttempts == left :> 1 @@ right :> 1
PairTouches == left :> {left} @@ right :> {left, right}
=============================================================================
