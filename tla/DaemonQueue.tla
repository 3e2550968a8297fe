----------------------------- MODULE DaemonQueue -----------------------------
(***************************************************************************)
(* The task queue of src/src/sophyane/daemon_runtime.py: a tick reads a    *)
(* batch of pending tasks, runs the command of each whose dependencies are *)
(* completed, updates the rows and commits once, at its end.  Ticks come   *)
(* from a timer and from the agent's commands and may overlap.             *)
(*                                                                         *)
(* SQLite: the first UPDATE of a tick opens a write transaction that lasts *)
(* until its commit.  Reads before it see the committed table, reads after *)
(* it the tick's own copy.  An UPDATE that meets another tick's            *)
(* transaction waits a while and then raises, which rolls the tick back.   *)
(***************************************************************************)
EXTENDS Naturals, FiniteSets

CONSTANTS
    Tasks,
    Ticks,        \* processes that run run_daemon_tick
    Created,      \* Created[t]: rank of the column created
    Deps,         \* Deps[t]
    Empty,        \* tasks without a command
    Raising,      \* tasks whose command may print what is no text
    MaxAttempts,  \* MaxAttempts[t]: max_attempts
    Limit,        \* max_tasks of a tick
    None,         \* no tick, or no task
    MaxLosses     \* bound: ticks that die, and lost ticks that are counted

ASSUME QueueAssumption ==
    /\ Created \in [Tasks -> Nat]
    /\ \A t, u \in Tasks : Created[t] = Created[u] => t = u
    /\ Deps \in [Tasks -> SUBSET Tasks]
    /\ Empty \subseteq Tasks /\ Raising \subseteq Tasks
    /\ MaxAttempts \in [Tasks -> Nat \ {0}]
    /\ Limit \in Nat \ {0} /\ MaxLosses \in Nat
    /\ None \notin Tasks /\ None \notin Ticks

Status == {"absent", "pending", "retry", "completed", "failed"}
Row == [status : Status, attempts : Nat]

VARIABLES
    db,          \* the table as committed
    writer,      \* the tick with an open write transaction
    draft,       \* the table as the writer sees it
    pc,          \* pc[w]: "off", "loop", or "command" while a command runs
    todo,        \* todo[w]: rows of the batch the tick has not reached
    seen,        \* seen[w][t]: attempts of t when the batch was read
    task,        \* task[w]: whose command runs
    runs,        \* history: commands run, as long as Counting
    overlapped,  \* history: have two ticks ever overlapped?
    losses       \* history: ticks that died or raised, up to MaxLosses + 1

tick == <<pc, todo, seen, task>>
vars == <<db, writer, draft, pc, todo, seen, task, runs, overlapped, losses>>

Init ==
    /\ db = [t \in Tasks |-> [status |-> "absent", attempts |-> 0]]
    /\ writer = None /\ draft = db
    /\ pc = [w \in Ticks |-> "off"]
    /\ todo = [w \in Ticks |-> {}]
    /\ seen = [w \in Ticks |-> [t \in Tasks |-> 0]]
    /\ task = [w \in Ticks |-> None]
    /\ runs = [t \in Tasks |-> 0]
    /\ overlapped = FALSE /\ losses = 0

\* Commands may run again and again; the history ends where the lost ticks are
\* no longer counted.
Counting == ~overlapped /\ losses <= MaxLosses

-----------------------------------------------------------------------------
(* Reading *)

\* Mutation of Waiting: what failed for good is read again.
WaitingOrFailed == {t \in Tasks : db[t].status \in {"pending", "retry", "failed"}}

\* PENDING_STATUSES; "queued" and "ready" are more names for "pending".
Waiting == {t \in Tasks : db[t].status \in {"pending", "retry"}}

\* Mutation of Batch: one row too few.
BatchShort == {t \in Waiting : Cardinality({u \in Waiting : Created[u] < Created[t]}) + 1 < Limit}

\* ORDER BY created LIMIT ?
Batch == {t \in Waiting : Cardinality({u \in Waiting : Created[u] < Created[t]}) < Limit}

View(w) == IF writer = w THEN draft ELSE db

\* Mutation of DepsSatisfied: a dependency that failed no longer counts.
DepsDecided(w, t) ==
    \A d \in Deps[t] : View(w)[d].status \in {"completed", "failed"}

DepsSatisfied(w, t) == \A d \in Deps[t] : View(w)[d].status = "completed"

IsNext(w, t) == t \in todo[w] /\ \A u \in todo[w] : Created[t] <= Created[u]

-----------------------------------------------------------------------------
(* Writing *)

\* _update_task: opens the transaction or goes on with it.
Update(w, t, status) ==
    /\ writer \in {None, w}
    /\ writer' = w
    /\ draft' = [View(w) EXCEPT ![t] = [status |-> status, attempts |-> seen[w][t] + 1]]

\* Mutation of Verdict: one attempt too many.
VerdictLate(w, t) == IF seen[w][t] + 1 > MaxAttempts[t] THEN "failed" ELSE "retry"

Verdict(w, t) == IF seen[w][t] + 1 >= MaxAttempts[t] THEN "failed" ELSE "retry"

Off(w) ==
    /\ pc' = [pc EXCEPT ![w] = "off"]
    /\ todo' = [todo EXCEPT ![w] = {}]
    /\ seen' = [seen EXCEPT ![w] = [t \in Tasks |-> 0]]
    /\ task' = [task EXCEPT ![w] = None]

\* The connection is closed, or its process dies.
Rollback(w) ==
    /\ writer' = IF writer = w THEN None ELSE writer
    /\ draft' = IF writer = w THEN db ELSE draft
    /\ UNCHANGED db

-----------------------------------------------------------------------------
(* A tick *)

Begin(w) ==
    /\ pc[w] = "off" /\ Waiting # {}
    /\ pc' = [pc EXCEPT ![w] = "loop"]
    /\ todo' = [todo EXCEPT ![w] = Batch]
    /\ seen' = [seen EXCEPT ![w] = [t \in Tasks |-> db[t].attempts]]
    /\ overlapped' = (overlapped \/ \E v \in Ticks : pc[v] # "off")
    /\ UNCHANGED <<db, writer, draft, task, runs, losses>>

RejectEmpty(w, t) ==
    /\ pc[w] = "loop" /\ IsNext(w, t) /\ t \in Empty
    /\ Update(w, t, "failed")
    /\ todo' = [todo EXCEPT ![w] = @ \ {t}]
    /\ UNCHANGED <<db, pc, seen, task, runs, overlapped, losses>>

SkipWaiting(w, t) ==
    /\ pc[w] = "loop" /\ IsNext(w, t) /\ t \notin Empty /\ ~DepsSatisfied(w, t)
    /\ todo' = [todo EXCEPT ![w] = @ \ {t}]
    /\ UNCHANGED <<db, writer, draft, pc, seen, task, runs, overlapped, losses>>

RunCommand(w, t) ==
    /\ pc[w] = "loop" /\ IsNext(w, t) /\ t \notin Empty /\ DepsSatisfied(w, t)
    /\ pc' = [pc EXCEPT ![w] = "command"]
    /\ todo' = [todo EXCEPT ![w] = @ \ {t}]
    /\ task' = [task EXCEPT ![w] = t]
    /\ runs' = IF Counting THEN [runs EXCEPT ![t] = @ + 1] ELSE runs
    /\ UNCHANGED <<db, writer, draft, seen, overlapped, losses>>

\* The command, and the verifying one after it, succeeds or does not.
CommandEnds(w) ==
    /\ pc[w] = "command"
    /\ \E status \in {"completed", Verdict(w, task[w])} : Update(w, task[w], status)
    /\ pc' = [pc EXCEPT ![w] = "loop"]
    /\ task' = [task EXCEPT ![w] = None]
    /\ UNCHANGED <<db, todo, seen, runs, overlapped, losses>>

\* Mutation of Commit: the tick is over, and its transaction forgotten.
CommitNothing(w) ==
    /\ pc[w] = "loop" /\ todo[w] = {}
    /\ Rollback(w) /\ Off(w)
    /\ UNCHANGED <<runs, overlapped, losses>>

Commit(w) ==
    /\ pc[w] = "loop" /\ todo[w] = {}
    /\ db' = View(w)
    /\ writer' = IF writer = w THEN None ELSE writer
    /\ Off(w)
    /\ UNCHANGED <<draft, runs, overlapped, losses>>

\* "database is locked": an UPDATE has waited too long for another tick.
Locked(w) ==
    /\ writer \notin {None, w}
    /\ pc[w] = "command" \/ \E t \in Empty : pc[w] = "loop" /\ IsNext(w, t)
    /\ Rollback(w) /\ Off(w)
    /\ UNCHANGED <<runs, overlapped, losses>>

\* The command, or the verifying one, prints what cannot be decoded: the tick
\* raises, and so will the next one that comes to this task.
CommandRaises(w) ==
    /\ pc[w] = "command" /\ task[w] \in Raising
    /\ Rollback(w) /\ Off(w)
    /\ losses' = IF losses <= MaxLosses THEN losses + 1 ELSE losses
    /\ UNCHANGED <<runs, overlapped>>

\* The process of the tick is killed.
Loses(w) ==
    /\ pc[w] # "off" /\ losses < MaxLosses
    /\ Rollback(w) /\ Off(w)
    /\ losses' = losses + 1
    /\ UNCHANGED <<runs, overlapped>>

\* Another program adds a task, the newest of the table.
Submit(t) ==
    /\ writer = None /\ db[t].status = "absent"
    /\ \A u \in Tasks : Created[u] > Created[t] => db[u].status = "absent"
    /\ db' = [db EXCEPT ![t].status = "pending"]
    /\ draft' = db'
    /\ UNCHANGED <<writer, tick, runs, overlapped, losses>>

Step(w) ==
    \/ \E t \in Tasks : RejectEmpty(w, t) \/ SkipWaiting(w, t) \/ RunCommand(w, t)
    \/ CommandEnds(w) \/ CommandRaises(w) \/ Commit(w) \/ Locked(w)

Next ==
    \/ \E w \in Ticks : Begin(w) \/ Step(w) \/ Loses(w)
    \/ \E t \in Tasks : Submit(t)

Spec == Init /\ [][Next]_vars

\* Commands have a timeout, and the timer ticks again and again.
FairSpec == Spec /\ \A w \in Ticks : WF_vars(Step(w)) /\ WF_vars(Begin(w))

-----------------------------------------------------------------------------
(* Properties *)

\* The type of every variable; a tick has a task exactly while it runs one.
TypeOK ==
    /\ db \in [Tasks -> Row] /\ draft \in [Tasks -> Row]
    /\ writer \in Ticks \cup {None}
    /\ pc \in [Ticks -> {"off", "loop", "command"}]
    /\ todo \in [Ticks -> SUBSET Tasks]
    /\ seen \in [Ticks -> [Tasks -> Nat]]
    /\ task \in [Ticks -> Tasks \cup {None}]
    /\ \A w \in Ticks : task[w] # None <=> pc[w] = "command"
    /\ runs \in [Tasks -> Nat] /\ overlapped \in BOOLEAN /\ losses \in Nat

\* However ticks overlap, overwrite each other's counts, die or are locked
\* out: a task that will be tried again has attempts left, and one that
\* failed with a command has used exactly the attempts it had.
AttemptsMatchStatus ==
    \A t \in Tasks \ Empty :
        /\ db[t].status \in {"pending", "retry"} => db[t].attempts < MaxAttempts[t]
        /\ db[t].status = "failed" => db[t].attempts = MaxAttempts[t]
        /\ db[t].attempts <= MaxAttempts[t]

\* As long as no two ticks overlapped, a command that ran is counted, or the
\* tick that ran it is still open, died or raised: nothing else runs a task
\* more often than max_attempts.
RunsAreCounted ==
    Counting =>
        \A t \in Tasks :
            runs[t] <= db[t].attempts + losses
                       + (IF \E w \in Ticks : pc[w] # "off" THEN 1 ELSE 0)

\* As long as no two ticks overlapped, a task is completed only over completed
\* dependencies, although a tick that dies takes back what its later commands
\* were built on.
CompletedOverCompleted ==
    ~overlapped =>
        \A t \in Tasks : db[t].status = "completed" =>
            \A d \in Deps[t] : db[d].status = "completed"

\* What is decided stays decided, unless two ticks overlapped: then the older
\* one writes what it made of a row that it read before the decision.
DecisionsStand ==
    [][ \A t \in Tasks :
            /\ ~overlapped
            /\ db[t].status \in {"completed", "failed"}
            => db'[t].status = db[t].status ]_vars

\* As long as no two ticks overlapped, the table is that of a queue that is served
\* in whole batches: in order, over completed dependencies, passing over nothing
\* that could run, whatever tick dies and whatever is submitted meanwhile.
Queue == INSTANCE TaskQueue WITH table <- db

ServesInBatches == Queue!Init /\ [][~overlapped => Queue!Next]_db

\* The same without the condition, for ticks that cannot overlap.
ImplementsTaskQueue == Queue!Spec

\* Tasks that no tick can run as things stand.
Stuck == {t \in Waiting \ Empty : \E d \in Deps[t] : db[d].status # "completed"}

\* A task of the next batch that may raise and that the batch can come to.
Spoils(t) ==
    /\ t \in (Batch \cap Raising) \ Empty
    /\ \A d \in Deps[t] : db[d].status = "completed" \/ (d \in Batch /\ Created[d] < Created[t])

\* A task that could run is decided in the end, unless Limit or more stuck
\* tasks stand before it in the queue, or a task of the batch may raise: such a
\* one is never counted, comes again with every tick, and what its batch did is
\* taken back each time.
Served ==
    \A t \in Tasks :
        t \in Waiting ~> \/ db[t].status \in {"completed", "failed"}
                         \/ t \in Stuck
                         \/ Cardinality({u \in Stuck : Created[u] < Created[t]}) >= Limit
                         \/ \E u \in Tasks : Spoils(u)
=============================================================================
