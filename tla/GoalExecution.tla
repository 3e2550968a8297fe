---------------------------- MODULE GoalExecution ----------------------------
(***************************************************************************)
(* The goal runtime of src/src/sophyane/goal_execution.py and              *)
(* goal_scheduler.py: GoalExecutor.run proves a graph of goals one action  *)
(* at a time, ParallelGoalScheduler.run drives the same executor with a    *)
(* batch of threads.  Actions change the workspace, validators judge it.   *)
(*                                                                         *)
(* The workspace is abstracted to one fact per goal: whether its validator *)
(* would pass now.  A confidence is either below the executor's floor or   *)
(* not.  An executor lives in memory; the checkpoint it writes is never    *)
(* read back.                                                              *)
(***************************************************************************)
EXTENDS Naturals, FiniteSets

CONSTANTS
    Goal,         \* keys of the goal graph
    Deps,         \* Deps[g]: the goals g depends on
    Declared,     \* Declared[g]: position of g in GoalExecutor.goals
    Priority,     \* Priority[g]: lowest first
    Key,          \* Key[g]: position of g's key in lexical order
    Required,     \* goals with required = True
    MaxAttempts,  \* MaxAttempts[g]
    Doubtful,     \* goals that may be declared with a confidence below the floor
    Touches,      \* Touches[g]: goals whose evidence an action of g may change
    MaxCycles,    \* max_cycles of the executor
    MaxWorkers,   \* max_workers of the scheduler
    MaxRuns,      \* bound: calls of either run()
    None          \* no checkpoint

ASSUME GoalAssumption ==
    /\ Deps \in [Goal -> SUBSET Goal]
    /\ Declared \in [Goal -> Nat] /\ Priority \in [Goal -> Nat] /\ Key \in [Goal -> Nat]
    /\ \A g, h \in Goal : Key[g] = Key[h] => g = h
    /\ Required \subseteq Goal /\ Doubtful \subseteq Goal
    /\ MaxAttempts \in [Goal -> Nat \ {0}]
    /\ Touches \in [Goal -> SUBSET Goal]
    /\ MaxCycles \in Nat \ {0} /\ MaxWorkers \in Nat \ {0} /\ MaxRuns \in Nat

\* GoalExecutor._validate_graph lets no cycle pass.
ASSUME Acyclic ==
    \A S \in (SUBSET Goal) \ {{}} : \E g \in S : Deps[g] \cap S = {}

Status == {"pending", "ready", "running", "passed", "failed", "blocked", "exhausted"}

ASSUME NoneAssumption ==
    None \notin [status : [Goal -> Status], attempts : [Goal -> Nat], cycle : Nat]

VARIABLES
    status,    \* GoalNode.status
    attempts,  \* GoalNode.attempts
    doubt,     \* is GoalNode.confidence below the floor?
    sound,     \* would the goal's validator pass on the workspace as it is?
    phase,     \* where execute_one of each goal is
    pc,        \* where the caller of run() is
    todo,      \* goals validate_all has not reached
    cycle,     \* GoalExecutor.cycle
    saved,     \* the checkpoint file
    report,    \* how the last call of run() ended
    runs       \* calls of run() so far

book == <<status, attempts, doubt>>
vars == <<status, attempts, doubt, sound, phase, pc, todo, cycle, saved, report, runs>>

-----------------------------------------------------------------------------
(* Reading and refreshing the goals *)

\* Mutation of DepsPassed: any dependency will do.
AnyDepPassed(st, g) == Deps[g] = {} \/ \E d \in Deps[g] : st[d] = "passed"

DepsPassed(st, g) == \A d \in Deps[g] : st[d] = "passed"

Achieved(st) == \A g \in Required : st[g] = "passed"

\* The goals _refresh_states looks at.
Open(st) == {g \in Goal : st[g] \notin {"passed", "running", "exhausted"}}

\* The goals one pass of _refresh_states blocks.  The pass goes through the
\* goals in declaration order: of a dependency declared earlier it sees what
\* this pass decided, of a later one what the pass before it left.
Spreads(st, B) ==
    \A g \in Open(st) :
        g \in B <=> \E d \in Deps[g] :
                       \/ st[d] = "exhausted"
                       \/ IF Declared[d] < Declared[g] THEN d \in B
                                                       ELSE st[d] = "blocked"

Refreshed(st, B) ==
    [g \in Goal |-> IF g \notin Open(st) THEN st[g]
                    ELSE IF g \in B THEN "blocked"
                    ELSE IF DepsPassed(st, g) THEN "ready"
                    ELSE "pending"]

\* What _refresh_states makes of st: a set of one element.
Refresh(st) == {Refreshed(st, B) : B \in {B \in SUBSET Open(st) : Spreads(st, B)}}

Candidates(st) ==
    {g \in Goal : /\ st[g] \in {"ready", "failed"} /\ DepsPassed(st, g)
                  /\ attempts[g] < MaxAttempts[g]}

\* choose_next_goal: priority, then fewer attempts, then confidence.
MayPrecede(g, h) ==
    \/ Priority[g] < Priority[h]
    \/ /\ Priority[g] = Priority[h]
       /\ \/ attempts[g] < attempts[h]
          \/ attempts[g] = attempts[h] /\ (doubt[g] => doubt[h])

Preferred(st) == {g \in Candidates(st) : \A h \in Candidates(st) : MayPrecede(g, h)}

\* The first goal of S in the order (priority, key) of validate_all and of
\* the scheduler's batch.
IsFirst(g, S) ==
    /\ g \in S
    /\ \A h \in S \ {g} : \/ Priority[g] < Priority[h]
                          \/ Priority[g] = Priority[h] /\ Key[g] < Key[h]

\* What a validator may say of g: the truth, or, when it raises, no with
\* confidence 0.  The confidence of a goal that passed is never used.
Verdicts(g) ==
    {[status |-> "failed", doubt |-> TRUE]} \cup
    (IF sound[g] THEN {[status |-> "passed", doubt |-> FALSE]}
     ELSE {[status |-> s, doubt |-> FALSE] : s \in {"failed", "exhausted"}})

Image(st) == [status |-> st, attempts |-> attempts, cycle |-> cycle]

-----------------------------------------------------------------------------
Init ==
    /\ status = [g \in Goal |-> "pending"]
    /\ attempts = [g \in Goal |-> 0]
    /\ doubt \in [Goal -> BOOLEAN] /\ \A g \in Goal : doubt[g] => g \in Doubtful
    /\ sound \in [Goal -> BOOLEAN]
    /\ phase = [g \in Goal |-> "rest"]
    /\ pc = "idle"
    /\ todo = {}
    /\ cycle = 0
    /\ saved = None
    /\ report = "none"
    /\ runs = 0

Return(how) == pc' = "idle" /\ report' = how

\* save_checkpoint, which may raise; without that the call goes on with A.
SaveThen(A, st, cyc) ==
    \/ saved' = [Image(st) EXCEPT !.cycle = cyc] /\ A
    \/ UNCHANGED saved /\ Return("raised")

-----------------------------------------------------------------------------
(* GoalExecutor.run: validate_all *)

RunSerial ==
    /\ pc = "idle" /\ runs < MaxRuns
    /\ status' \in Refresh(status)
    /\ pc' = "survey" /\ todo' = Goal
    /\ report' = "none" /\ runs' = runs + 1
    /\ UNCHANGED <<attempts, doubt, sound, phase, cycle, saved>>

\* Mutations of Skipped: dependencies are not looked at; an exhausted goal is
\* given another chance.
SkippedSettled(g) == status[g] \in {"blocked", "exhausted"}

SkippedBlocked(g) == status[g] = "blocked" \/ ~DepsPassed(status, g)

Skipped(g) == status[g] \in {"blocked", "exhausted"} \/ ~DepsPassed(status, g)

SurveySkips(g) ==
    /\ pc = "survey" /\ IsFirst(g, todo) /\ Skipped(g)
    /\ todo' = todo \ {g}
    /\ UNCHANGED <<book, sound, phase, pc, cycle, saved, report, runs>>

SurveyValidates(g) ==
    /\ pc = "survey" /\ IsFirst(g, todo) /\ ~Skipped(g)
    /\ todo' = todo \ {g}
    /\ \E v \in Verdicts(g) :
         /\ status' = [status EXCEPT ![g] = v.status]
         /\ doubt' = [doubt EXCEPT ![g] = v.doubt]
    /\ UNCHANGED <<attempts, sound, phase, pc, cycle, saved, report, runs>>

\* What a validator returned is no ValidationResult, or the user interrupts.
SurveyBreaks(g) ==
    /\ pc = "survey" /\ IsFirst(g, todo) /\ ~Skipped(g)
    /\ todo' = {} /\ Return("raised")
    /\ UNCHANGED <<book, sound, phase, cycle, saved, runs>>

EndSurvey ==
    /\ pc = "survey" /\ todo = {}
    /\ \E st \in Refresh(status) :
         /\ status' = st
         /\ SaveThen(IF Achieved(st) THEN Return("already")
                     ELSE pc' = "loop" /\ UNCHANGED report, st, cycle)
    /\ UNCHANGED <<attempts, doubt, sound, phase, todo, cycle, runs>>

-----------------------------------------------------------------------------
(* GoalExecutor.run: the loop *)

OutOfCycles ==
    /\ pc = "loop" /\ cycle = MaxCycles
    /\ Return("cycles")
    /\ UNCHANGED <<book, sound, phase, todo, cycle, saved, runs>>

\* Mutation of Stuck: the refresh of choose_next_goal is not saved.
StuckUnsaved ==
    /\ pc = "loop" /\ cycle < MaxCycles
    /\ \E st \in Refresh(status) :
         /\ Candidates(st) = {}
         /\ status' = st
    /\ cycle' = cycle + 1 /\ Return("stuck")
    /\ UNCHANGED <<attempts, doubt, sound, phase, todo, saved, runs>>

\* choose_next_goal found nothing to do.
Stuck ==
    /\ pc = "loop" /\ cycle < MaxCycles
    /\ \E st \in Refresh(status) :
         /\ Candidates(st) = {}
         /\ status' = st
         /\ SaveThen(Return("stuck"), st, cycle + 1)
    /\ cycle' = cycle + 1
    /\ UNCHANGED <<attempts, doubt, sound, phase, todo, runs>>

\* The end of one cycle: refresh, save, and return once all is proven.
EndCycle(st, cyc) ==
    \E new \in Refresh(st) :
        /\ status' = new
        /\ SaveThen(IF Achieved(new) THEN Return("proven")
                    ELSE pc' = "loop" /\ UNCHANGED report, new, cyc)

\* The chosen goal is below the confidence floor: its action does not run.
Floor(g) ==
    /\ pc = "loop" /\ cycle < MaxCycles
    /\ \E st \in Refresh(status) :
         /\ g \in Preferred(st) /\ doubt[g]
         /\ EndCycle([st EXCEPT ![g] = "exhausted"], cycle + 1)
    /\ cycle' = cycle + 1
    /\ UNCHANGED <<attempts, doubt, sound, phase, todo, runs>>

StartAction(g) ==
    /\ pc = "loop" /\ cycle < MaxCycles
    /\ \E st \in Refresh(status) :
         /\ g \in Preferred(st) /\ ~doubt[g]
         /\ status' = [st EXCEPT ![g] = "running"]
    /\ attempts' = [attempts EXCEPT ![g] = @ + 1]
    /\ phase' = [phase EXCEPT ![g] = "acting"]
    /\ pc' = "act" /\ cycle' = cycle + 1
    /\ UNCHANGED <<doubt, sound, todo, saved, report, runs>>

-----------------------------------------------------------------------------
(* GoalExecutor.execute_one, called by the loop or by a thread of the pool *)

\* The action or repair ends, or raises: it may have changed what it touches.
ActionReturns(g) ==
    /\ phase[g] = "acting"
    /\ phase' = [phase EXCEPT ![g] = "acted"]
    /\ \E s \in [Touches[g] -> BOOLEAN] :
         sound' = [h \in Goal |-> IF h \in Touches[g] THEN s[h] ELSE sound[h]]
    /\ UNCHANGED <<book, pc, todo, cycle, saved, report, runs>>

\* Mutation of Outcome: the last attempt's failure is not final.
OutcomeOpen(g, v) == v.status

Outcome(g, v) ==
    IF v.status # "passed" /\ attempts[g] >= MaxAttempts[g] THEN "exhausted" ELSE v.status

ValidatorReturns(g) ==
    /\ pc = "act" /\ phase[g] = "acted"
    /\ phase' = [phase EXCEPT ![g] = "rest"]
    /\ \E v \in Verdicts(g) :
         /\ doubt' = [doubt EXCEPT ![g] = v.doubt]
         /\ EndCycle([status EXCEPT ![g] = Outcome(g, v)], cycle)
    /\ UNCHANGED <<attempts, sound, todo, cycle, runs>>

ValidatorReturnsInPool(g) ==
    /\ pc = "pool" /\ phase[g] = "acted"
    /\ phase' = [phase EXCEPT ![g] = "rest"]
    /\ \E v \in Verdicts(g) :
         /\ doubt' = [doubt EXCEPT ![g] = v.doubt]
         /\ status' = [status EXCEPT ![g] = Outcome(g, v)]
    /\ UNCHANGED <<attempts, sound, pc, todo, cycle, saved, report, runs>>

\* An action or a validator returned something else than its result object, or
\* the user interrupts the loop: the goal stays RUNNING.  The loop passes the
\* exception on, wait() in the scheduler drops it.
Breaks(g) ==
    /\ phase[g] = "acted"
    /\ phase' = [phase EXCEPT ![g] = "rest"]
    /\ IF pc = "act" THEN Return("raised") ELSE UNCHANGED <<pc, report>>
    /\ UNCHANGED <<book, sound, todo, cycle, saved, runs>>

-----------------------------------------------------------------------------
(* ParallelGoalScheduler.run *)

RunPool ==
    /\ pc = "idle" /\ runs < MaxRuns
    /\ pc' = "batch"
    /\ report' = "none" /\ runs' = runs + 1
    /\ UNCHANGED <<book, sound, phase, todo, cycle, saved>>

\* _ready_batch.  No candidate depends on another one, the dependencies of a
\* candidate having passed, so the filter on `blocked' drops none.
StartBatch ==
    /\ pc = "batch"
    /\ \E st \in Refresh(status) :
         /\ status' = st
         /\ phase' = [g \in Goal |-> IF g \in Candidates(st) THEN "queued" ELSE "rest"]
         /\ IF Candidates(st) = {} THEN Return("drained")
            ELSE pc' = "pool" /\ UNCHANGED report
    /\ UNCHANGED <<attempts, doubt, sound, todo, cycle, saved, runs>>

Busy == {g \in Goal : phase[g] \in {"acting", "acted"}}

\* Mutation of PoolStarts: the attempt is not counted.
PoolStartsFree(g) ==
    /\ pc = "pool" /\ Cardinality(Busy) < MaxWorkers
    /\ IsFirst(g, {h \in Goal : phase[h] = "queued"})
    /\ status' = [status EXCEPT ![g] = "running"]
    /\ phase' = [phase EXCEPT ![g] = "acting"]
    /\ UNCHANGED <<attempts, doubt, sound, pc, todo, cycle, saved, report, runs>>

\* A thread of the pool takes the next goal of the batch.
PoolStarts(g) ==
    /\ pc = "pool" /\ Cardinality(Busy) < MaxWorkers
    /\ IsFirst(g, {h \in Goal : phase[h] = "queued"})
    /\ status' = [status EXCEPT ![g] = "running"]
    /\ attempts' = [attempts EXCEPT ![g] = @ + 1]
    /\ phase' = [phase EXCEPT ![g] = "acting"]
    /\ UNCHANGED <<doubt, sound, pc, todo, cycle, saved, report, runs>>

EndBatch ==
    /\ pc = "pool" /\ \A g \in Goal : phase[g] = "rest"
    /\ IF Achieved(status) THEN Return("finished")
       ELSE pc' = "batch" /\ UNCHANGED report
    /\ UNCHANGED <<book, sound, phase, todo, cycle, saved, runs>>

-----------------------------------------------------------------------------
OneGoal(g) ==
    \/ SurveySkips(g) \/ SurveyValidates(g) \/ SurveyBreaks(g)
    \/ Floor(g) \/ StartAction(g)
    \/ ActionReturns(g) \/ ValidatorReturns(g) \/ ValidatorReturnsInPool(g)
    \/ Breaks(g) \/ PoolStarts(g)

Step ==
    \/ EndSurvey \/ OutOfCycles \/ Stuck \/ StartBatch \/ EndBatch
    \/ \E g \in Goal : OneGoal(g)

Next == RunSerial \/ RunPool \/ Step

Spec == Init /\ [][Next]_vars

\* Actions and validators end, and neither the loop nor a thread is suspended
\* for ever.
FairSpec == Spec /\ WF_vars(Step)

-----------------------------------------------------------------------------
(* Properties *)

\* Every variable has its type: GoalNode fields, locals of the two run().
TypeOK ==
    /\ status \in [Goal -> Status]
    /\ attempts \in [Goal -> Nat]
    /\ doubt \in [Goal -> BOOLEAN]
    /\ sound \in [Goal -> BOOLEAN]
    /\ phase \in [Goal -> {"rest", "queued", "acting", "acted"}]
    /\ pc \in {"idle", "survey", "loop", "act", "batch", "pool"}
    /\ todo \subseteq Goal
    /\ cycle \in 0 .. MaxCycles
    /\ saved \in [status : [Goal -> Status], attempts : [Goal -> Nat], cycle : Nat] \cup {None}
    /\ report \in {"none", "already", "proven", "stuck", "cycles", "drained", "finished", "raised"}
    /\ runs \in Nat

\* While an action runs, everything its goal depends on stands as passed and
\* the attempt is one of the permitted ones; a batch of threads holds no goal
\* together with one of its dependencies (execute_one, _ready_batch).
ActsOnProven ==
    \A g \in Goal :
        /\ phase[g] # "rest" => \A d \in Deps[g] : status[d] = "passed"
        /\ phase[g] \in {"acting", "acted"} =>
              status[g] = "running" /\ attempts[g] \in 1 .. MaxAttempts[g]

\* What is given up stays given up: whatever runs, serial or parallel, follow,
\* no exhausted goal and none blocked behind one is ever taken up again, in
\* whatever order the goals are declared (_refresh_states, validate_all).
Irrevocable ==
    [][\A g \in Goal : status[g] \in {"exhausted", "blocked"} => status'[g] = status[g]]_vars

\* A run that reports it has nothing left to do has tried all it could: a goal
\* whose dependencies passed is proven, given up, or was left running by an
\* exception.  (An executor run again may hold one that passed on its last
\* attempt and has since been found broken: it is neither tried nor given up.)
NothingLeftUndone ==
    report \in {"stuck", "drained"} =>
        \A g \in Goal : DepsPassed(status, g) =>
            \/ status[g] \in {"passed", "exhausted", "running"}
            \/ runs > 1 /\ attempts[g] = MaxAttempts[g]

\* Where actions disturb no evidence but their own goal's and that of goals
\* depending on it, an executor's first run is right about every goal it calls
\* passed, and about everything that goal depends on.
PassedIsSound ==
    runs = 1 => \A g \in Goal : status[g] = "passed" => sound[g] /\ DepsPassed(status, g)

\* The checkpoint on disk is what the report of run() was made from.
CheckpointIsReport ==
    report \in {"already", "proven", "stuck", "cycles"} => saved = Image(status)

\* What is seen of a goal: a status of "running" outlives the try when an
\* exception ends it.
Shown(g) ==
    IF phase[g] \in {"acting", "acted"} THEN "trying"
    ELSE IF status[g] = "running" THEN "left"
    ELSE IF status[g] = "passed" THEN "proven"
    ELSE IF status[g] \in {"exhausted", "blocked"} THEN "lost"
    ELSE "open"

Board == INSTANCE GoalBoard WITH
           Goals <- Goal, Limit <- MaxAttempts, Threads <- MaxWorkers,
           view <- [g \in Goal |-> Shown(g)], tries <- attempts, evidence <- sound,
           said <- IF pc # "idle" THEN "busy"
                   ELSE IF report \in {"already", "proven", "finished"} THEN "done"
                   ELSE "rest"

\* Taken together, serial or parallel, run after run: the executor keeps such a
\* board.
ImplementsBoard == Board!Spec

\* Every run ends: the loop by max_cycles, the scheduler, which has no such
\* limit, by max_attempts.
Terminates == pc # "idle" ~> pc = "idle"

\* goal_execution.py:513 says run() acts "until every required goal is proven":
\* when it reports success, every required goal would pass validation.  The
\* code does not keep this.
ProvenWhenAchieved ==
    report \in {"already", "proven"} => \A g \in Required : sound[g]

=============================================================================
