------------------------------ MODULE TaskQueue ------------------------------
(***************************************************************************)
(* What the task daemon promises to those who submit tasks: the queue is   *)
(* served in batches, oldest task first, and a batch takes effect at once  *)
(* and passes over nothing that could run.  No tick is seen to be under    *)
(* way, to die or to wait for another.                                     *)
(***************************************************************************)
EXTENDS Naturals, FiniteSets

CONSTANTS Tasks, Created, Deps, Empty, MaxAttempts, Limit

VARIABLE table   \* status and attempts of each task

Init == table = [t \in Tasks |-> [status |-> "absent", attempts |-> 0]]

\* A new task is the youngest.
Submit(t) ==
    /\ table[t].status = "absent"
    /\ \A u \in Tasks : Created[u] > Created[t] => table[u].status = "absent"
    /\ table' = [table EXCEPT ![t].status = "pending"]

Waiting == {t \in Tasks : table[t].status \in {"pending", "retry"}}

\* At most Limit tasks, none of them before an older one; those submitted since
\* the tick began may be missing.
IsBatch(B) ==
    /\ B \subseteq {t \in Waiting :
                       Cardinality({u \in Waiting : Created[u] < Created[t]}) < Limit}
    /\ \A t \in B, u \in Waiting : Created[u] < Created[t] => u \in B

\* All that t depends on was completed before, or has just been, ahead of t: S
\* are the tasks that ran, out what became of them.
Ready(t, S, out) ==
    \A d \in Deps[t] :
        \/ table[d].status = "completed"
        \/ d \in S /\ Created[d] < Created[t] /\ out[d] = "completed"

\* A task without a command fails at once, the others complete or are tried again
\* until their attempts are used up.
Outcome(t) ==
    IF t \in Empty THEN {"failed"}
    ELSE {"completed", IF table[t].attempts + 1 >= MaxAttempts[t] THEN "failed" ELSE "retry"}

Serve ==
    \E B \in SUBSET Tasks : \E S \in SUBSET B :
        \E out \in [S -> {"completed", "failed", "retry"}] :
            /\ IsBatch(B)
            /\ S = {t \in B : t \in Empty \/ Ready(t, S, out)}
            /\ \A t \in S : out[t] \in Outcome(t)
            /\ table' = [t \in Tasks |->
                           IF t \in S
                           THEN [status |-> out[t], attempts |-> table[t].attempts + 1]
                           ELSE table[t]]

Next == Serve \/ \E t \in Tasks : Submit(t)

Spec == Init /\ [][Next]_table

=============================================================================
