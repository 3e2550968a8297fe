# A TLA+ model of Sophyane

Sophyane is a local agent runtime in Python: a language model proposes, and a set of small runtimes around it decide what is
executed, checked, retried, resumed, applied to a repository or rolled back. The answers of the model are arbitrary; what can be
right or wrong is the control around them. This project models that control in TLA+, checks it with TLC on small instances and
proves the most important results with TLAPS for every instance.

Paths such as `graph_runtime.py:348` are relative to `src/src/sophyane/`; tests and docs are named in full.

    tlc -workers 2 -config graph_exclusive.cfg MCGraphRuntime     # one run
    tlapm GraphRuntime_proofs.tla                                  # one module of proofs

`PROJECT.json` lists the components, the runs with the properties of each, one mutation of the code's model per property that
breaks it, the source lines of every definition, the hazards of the code and the theorems.

## 1. Inventory

### Components with a state machine of their own

| Component | State | Operations | Shares with |
|---|---|---|---|
| **Durable graph runtime** `graph_runtime.py` | rows of the SQLite table `graph_state` (state, next node, trace); in memory the current node, the state, the interrupt permission, the execution and attempt counters of one call | `invoke`, `resume`, `merge`, `_next_node`, `_checkpoint`, `stream`, `DurableStore.delete`, `fan_out` | `execution_kernel.py` runs its three phases in a graph; `lc_compat/durable_graph.py` adds thread records. Two processes may open one database. |
| **Competitive application boundary** `competitive_coding_application*.py`, `competitive_coding_consumption.py`, `hitl.py` | files of the user's repository, `transactions.json`, `claims.json`, `applications.json`, the approval queue, the flock of the repository | approve, prepare, claim, record, `git apply`, verify, commit, roll back, recover | several processes over one repository; the user edits it as well |
| **Goal execution** `goal_execution.py`, `goal_scheduler.py` | status, attempts and confidence of each goal; cycle counter; checkpoint file; the workspace the actions change | `run` (serial), `ParallelGoalScheduler.run`, `validate_all`, `choose_next_goal`, `execute_one`, `_refresh_states`, `save_checkpoint` | built by `goal_runtime.py`, whose bridge compares the report with the files |
| **Service fabric** `service_fabric/supervisor.py` | table of running services (memory, in insertion order), JSON state file, processes in sessions of their own | `start_manifest`, `start_service`, `reconcile`, `stop_service`, `stop_all`, `_persist` | driven by `service_cli.py`; its processes outlive it |
| **Task daemon** `daemon_runtime.py` | SQLite table of tasks with dependencies and attempts; one open transaction | `run_daemon_tick` | ticks of a timer and of the agent's commands over one file |
| **Worker race** `race_runtime.py`, `race_execution.py`, `race_adapters.py` | futures, candidates, errors, winner; the round, the baseline, the write lease; the workspace | `AdaptiveRace.run`, `run_race_apply_verify`, `WorkspaceWriteLease` | threads of one process |
| **JSON stores** `scheduler.py`, `checkpoint.py`, `budget.py`, `coi.py` | one file each | read, change, write whole, without a lock | every process that opens the file |

The rest of the package (providers, memory back ends, semantic routing, task compilation, agents, MCP, mail, cloud, edge, user
interfaces, updates, browser artefacts, evolution, logging) is listed in `PROJECT.json` with the reason it is left out: single
statements against a database that brings its own transactions, pure text processing, network clients, or loops whose only control
is a bounded retry. The cancellation registry (`runtime_cancel.py`) finds no process to cancel, because the only callers that
register one are never called; the capability leases (`capability_leases.py`) are a table that one thread uses.

### How the modelled components are used

* `execution_kernel.py` turns a task into the graph prepare, execute, finalize and calls `invoke` with a checkpoint id named after
  the task, so it is one instance of the graph runtime. `lc_compat/durable_graph.py` calls `invoke` and `resume` for named threads.
* The competitive mode evaluates and ranks candidates in copies of the repository; the winner reaches the user's repository only
  through the application boundary, after a human answered the request in the approval queue of `hitl.py`.
* `goal_runtime.py` builds an executor from the goals a planner returned, calls `run()` once and then verifies the artifact on its own.
  The parallel scheduler is a public alternative driver of the same executor.

* `service_cli.py` hands manifests to the supervisor, reconciles in a loop while it supervises, and stops everything in a `finally`;
  `full_stack_verification.py` starts and stops a stack of its own.
* The timer of the installed daemon and the agent's own commands run one tick at a time each, over one table.
* The chat front end `v13_cli.py` calls `run_race_apply_verify` for requests that need files changed; each call builds its race, its rounds and its
  lease, so one call is one instance of `WorkerRace`.

The six do not call each other and share no state, so no module composes them. What interacts inside one of them (the race and the
rounds around it, the ledgers and the repository, two ticks and their table) is composed in its module.

### Which behaviours are hard, and what makes each component correct

* **Graph runtime.** A crash anywhere; exceptions of nodes and of the store; retries; an approval gate that is passed once per
  resume; cycles; two workers that resume one checkpoint id. Correct means: the stored row is always one walk of the graph and the
  node that is really next on it, no node runs twice except where a call was lost, the accumulated list is what the nodes made it,
  every call ends, a gate lets nothing through that was not resumed.
* **Application boundary.** Crashes between any two system calls of a patch, failures that lead to a rollback which may fail too,
  a lock that is released between preparation and application, several requests over one repository, and a user with an editor.
  Correct means: a patch is applied whole or not at all and the ledger says which; nothing is written without approval, claim and
  intent; nothing is ever applied again; a torn file is known; the lock goes; recovery can proceed.
* **Goal execution.** Actions that destroy each other's evidence, validators and actions that raise or break their protocol,
  failing saves, blocked states that spread in declaration order, executors run again, batches of threads. Correct means: an action
  runs only on proven ground, what is given up stays so, a run that reports it can do no more has tried all it could, a
  pass is backed by the workspace, the report is what is on disk, every run ends.

* **Service fabric.** Services that cannot be started, that die at any moment or survive their kill, manifests that change, a key
  interrupt between the creation of a process and its entry in the table, a supervisor that is killed. Correct means: what the
  supervisor started and lives is in its table, one process per service, but for the one a key interrupt took from it; after
  `stop_all` returned nothing else of it lives; nothing starts before its dependencies or is stopped under its dependents; every call
  ends; what its policy promises to restart comes back; the state file names what lives.
* **Task daemon.** One commit per tick, lost ticks, ticks over the same rows, lock timeouts, a batch full of tasks that cannot run, a
  command whose output raises in every tick. Correct means: counts and status agree; what ran is counted; completed stands on completed; what is decided stays so; a task that
  can run is decided.
* **Worker race.** Workers that end in any order, together, late or never; a deadline that passes anywhere; actions that fail half way;
  repair rounds over a changed workspace. Correct means: the best and earliest good proposal wins, success stands on the workspace,
  the call ends although workers hang.

`PROJECT.json` lists each hazard at the line where it bites, with the properties that would catch it.

## 2. The modules

| Module | Content |
|---|---|
| `GraphRuntime` | `StateGraph.invoke`, `resume` and `stream` over the durable store: calls, nodes, retries, gates, routes, checkpoints, deletion, failures, crashes |
| `CheckpointWalk` | the abstract specification of the store: one walk per checkpoint id that grows by its pending node, until it is forgotten |
| `MCGraphRuntime` | a review loop with a gate and a route map; the self-loop of `docs/SOPHYANE_21_GRAPH_RUNTIME.md` |
| `GraphRuntime_proofs` | proofs |
| `CompetitiveApply` | approval queue, transaction, claim, record, lock, `git apply`, rollback, recovery, crashes, user's edits |
| `AtomicPatch` | the abstract specification of the boundary: an approved patch is begun once and changes all of its files at once or none |
| `MCCompetitiveApply` | two requests that share no file, two that share one, and a single one |
| `CompetitiveApply_proofs` | proofs |
| `GoalExecution` | both drivers of the goal executor |
| `GoalBoard` | the abstract specification of the executor: tries over proven goals, verdicts backed by evidence, losses that spread and stay |
| `MCGoalExecution` | a diamond of goals and a pair of independent ones; `Refresh` compared with the loop of the code |
| `GoalExecution_proofs` | proofs |
| `ServiceFabric` | the supervisor: start, reconcile and stop, one service at a time; deaths, failures, a new supervisor |
| `ServiceFleet` | the abstract specification of the fabric: services that are out, up or ended, and calls that leave what they were asked for |
| `MCServiceFabric` | a chain of three services in two manifests; the walk of `_order` compared with what `ServiceFabric` assumes of it |
| `ServiceFabric_proofs` | proofs |
| `DaemonQueue` | ticks over the task table with SQLite's transaction, its lock and its rollback |
| `TaskQueue` | the abstract specification of the daemon: a queue served in batches, each of which takes effect at once |
| `MCDaemonQueue` | four tasks: a pair of dependents, the second of which may print what cannot be decoded, one without a command and one that waits for it |
| `DaemonQueue_proofs` | proofs |
| `WorkerRace` | the race of the workers and the rounds of apply, verify and repair around it |
| `MCWorkerRace` | three workers, four kinds of request |
| `WorkerRace_proofs` | proofs |
| `Descent` | least and best elements of sets, and the order of tuples by which the calls of all components shrink; used by the modules of proofs |

Each operator `XAnew`, `XLate`, `XEarly` and so on that a comment calls a mutation of `X` is `X` with one plausible mistake in it.
It is part of no specification; it exists so that one can show that the properties notice the mistake (`PROJECT.json`, `mutants`).

### GraphRuntime

| Model | Code |
|---|---|
| `store[t]`: `trace`, `log`, `next`, or `None` | a row of `graph_state`, written by `DurableStore.put` from `_checkpoint` (`:415-433`) |
| `inv[w]`: `pc`, `cur`, `trace`, `log`, `skip`, `execs`, `attempt` | the locals of `invoke` (`:304-321`) and of `_run_node` (`:261-274`) |
| `log` | one list of the graph state, which every node extends in one of the two styles `merge` documents |
| `Ghost` | every destination that names no node |
| `Invoke`, `Resume` | the entry points (`:293-321`, `:363-379`); `resume` starts with `ignore_interrupt_once` |
| `Finish`, `Refuse`, `Interrupt`, `StartNode` | top of the loop, in the order of its checks: `END`, unknown node or recursion limit, gate, run (`:322-335`) |
| `NodeReturns`, `NodeRetries`, `NodeRaises`, `UnknownRoute` | one node with its retries, its merge and the choice of the next node (`:261-291`) |
| `Record` | trace, checkpoint, next node: one row written in one transaction (`:336-350`) |
| `StoreFails`, `Crash` | `put` raises; the process dies |
| `Delete` | `DurableStore.delete` (`:150-157`) |
| `streams[w]`, `OpenStream`, `StreamNode`, `CloseStream` | the generator of `stream` (`:384-413`): the same walk, without a checkpoint and, as in the code, past every gate |

`asked`, `ran` and `aborted` are history variables. A first `invoke` draws a new checkpoint id in every caller under `src/`; the
constant `Shared` decides whether callers may also use one id at the same time, which nothing in the code prevents. Between two
steps of `Record` nothing else is visible: the row is one SQLite statement and the rest is local to the call.

### CompetitiveApply

| Model | Code |
|---|---|
| `content[f]` in `base`, `torn`, `edit`, one text per request | bytes and mode of a file; `torn` is every state between two images (`git apply` unlinks and rewrites, the mode comes after) |
| `stray` | the files `.rollback-*.tmp` of `_rollback` (`competitive_coding_application.py:176`) |
| `hitl`, `tx`, `claim`, `rec` | approval queue, `transactions.json`, `claims.json`, `applications.json`. A write of the last three is one `os.replace`, so one step; the queue is written in place (`hitl.py:28`), see `Resolve` below |
| `lock` | `flock` of the repository: advisory, dropped by the kernel when its holder dies |
| `Prepare`, `Enter`, `Claim`, `RecordIntent` | `apply_competitive_application` (`:198-241`), which prepares under one hold of the lock and continues under a second |
| `Recover` | `recover_competitive_application` up to `_finish` (`:243-263`) |
| `Finish`, `Write`, `Verify`, `Commit` | `_finish` and `_post` (`:141-190`): apply from the pre-image, only verify the post-image |
| `Fail`, `UndoTemp`, `UndoReplace`, `UndoDone`, `UndoFail` | the handler and `_rollback` (`:171-190`, `:233-239`, `:264-269`) |
| `Resolve`, `Edit`, `Crash` | the human, the user's editor, the death of a process |

`Applicable` (`git apply --check`) holds exactly on the base text: no two patches of an instance apply over each other. A call
that raises before it changed anything is no step. `Resolve` answers a request in any way at any time, also one that was answered,
which covers answers that another writer of the unlocked queue loses or that a torn file takes with it. `EditsAnytime` decides whether the user respects the lock.

### GoalExecution

| Model | Code |
|---|---|
| `status`, `attempts` | fields of `GoalNode` |
| `doubt[g]` | `confidence` below `minimum_confidence`, the only thing the executor compares it with that the properties can see |
| `sound[g]` | the workspace: would the goal's validator pass on it now? |
| `phase[g]`, `pc`, `todo` | where each `execute_one` and the caller of `run()` are |
| `saved`, `report` | the checkpoint file, and how the last run ended |
| `RunSerial`, `Survey*`, `EndSurvey` | `validate_all` in the order of priority and key (`:307-322`), then the refresh and the save of `run` (`:514-518`) |
| `OutOfCycles`, `Stuck`, `Floor`, `StartAction` | one turn of the loop up to the action (`:520-543`) |
| `ActionReturns`, `ValidatorReturns`, `ValidatorReturnsInPool`, `Breaks` | `execute_one` (`:372-430`), in the loop and in a thread of the pool |
| `RunPool`, `StartBatch`, `PoolStarts`, `EndBatch` | `ParallelGoalScheduler.run` (`goal_scheduler.py:22-72`) |
| `Refresh` | `_refresh_states` (`:240-266`), as the one solution of the equation its loop satisfies |

`Refresh` is stated as a relation: a goal is blocked if a dependency declared *earlier* is blocked by this same pass, or one declared
*later* was blocked before it. That keeps recursion out of the module that proofs are about; `MCGoalExecution!RefreshIsThePass`
compares it with the loop of the code, written as a fold, on all 2401 tables of statuses of the diamond, declared out of order.

What an action did to the workspace becomes visible when it returns. The filter on `blocked` in `_ready_batch` never removes
anything, because the dependencies of a candidate have passed and no candidate has; the model leaves it out and says so. A key
interrupt is modelled where `run` can receive one, as an exception that escapes. The checkpoint is written and never read back, and
no one but the actions edits the workspace.

### ServiceFabric

| Model | Code |
|---|---|
| `proc` | every process ever started: service, exit code, supervisor; `Popen` with a new session |
| `copy[s]`, `slot[s]` | the dict `running`, and the place of a key in its insertion order |
| `loose` | a process that exists since `Popen` (`supervisor.py:201`) and is not in `running` yet (`:228-230`), or never will be |
| `file` | the live processes that the state file names |
| `pc`, `todo`, `manifest` | which call the supervisor is in, and the services its loop has not reached |
| `StartManifest`, `StartService` | `start_manifest`, and `start_service` up to `Popen`: `Launch`, or `Pass` where the service runs |
| `Enter` | the rest of `start_service`: the entry in `running` |
| `Reconcile`, `DropService`, `Dropped`, `WalkService` | `reconcile`: stop what the manifest does not list, then pop and start again by policy (`Returns`), start (`Launch`) or leave (`Pass`) |
| `Persist` | `_persist` and the return of the call |
| `StopAll`, `StopService`, `AllStopped` | `stop_all` from the end of the table |
| `StopHangs`, `StopBreaks` | the wait after SIGKILL raises, or the user interrupts `stop_all`: it ends where it is |
| `Raises` | a start that raises, or a key interrupt while no process is loose, and the caller's `finally: stop_all()` in `service_cli.py` |
| `LosesTrack` | a key interrupt between `Popen` and the entry, which `except Exception` (`:215`) does not catch: `stop_all` follows, and the process stays loose |
| `Dies`, `NewSupervisor` | a process ends on its own; another supervisor begins with an empty table |

The order `Order[m]` is a constant with the assumption `Topological`; `MCServiceFabric!OrderIsTopological` computes the depth-first walk
of `_order` on every graph of three services in every order of declaration and finds that it raises exactly on a cycle and otherwise
returns such an order. `service_cli.py` supervises one manifest object; that other manifests may follow is what `reconcile` is written
for.

### DaemonQueue

| Model | Code |
|---|---|
| `db`, `writer`, `draft` | the committed table; the connection whose first `UPDATE` opened SQLite's write transaction; the table as it sees it |
| `todo[w]`, `seen[w]` | the rows of `_pending_tasks`, with the attempts as they were read then |
| `Begin`, `RejectEmpty`, `SkipWaiting`, `RunCommand`, `CommandEnds`, `Commit` | `run_daemon_tick` (`daemon_runtime.py:165-322`), task by task |
| `Verdict` | retry or failed (`:261-270`) |
| `Locked` | an `UPDATE` that waited longer than the connection's timeout raises; closing the connection rolls back |
| `CommandRaises` | output that cannot be decoded raises in `subprocess.run` (`harness.py:271`); `connection.close()` (`daemon_runtime.py:319`) rolls the tick back, and nothing of the attempt is left |
| `Loses` | the process of the tick is killed |
| `Submit` | the program that adds tasks (not under `src/`) |

`Raising` are the tasks whose commands may print such output; they may do so in every tick, without a bound. `runs`, `overlapped` and
`losses` are history variables: `runs` counts commands while `Counting`, until two ticks overlap for the first time or more than
`MaxLosses` ticks were killed or raised. Where the history stops the ticks go on.

### WorkerRace

| Model | Code |
|---|---|
| `ended`, `pending`, `batch`, `fresh` | futures that are done, that are waited for, that the last `wait` returned; the valid ones of the batch |
| `verdict`, `errors`, `winner`, `expired` | `candidates` and `errors` of `AdaptiveRace.run`, its winner, its deadline |
| `StartRace`, `Check`, `Wait`, `Judge`, `Fault`, `Interrupt`, `PickWinner`, `GraceEnds`, `JudgeGraced`, `GraceJudged`, `Finish` | `AdaptiveRace.run` (`race_runtime.py:211-569`) |
| `ws`, `report`, `baseline` | the workspace as its first failing verification, which is all that `verify_workspace` reports of it; the last report, the one before the first round |
| `Baseline`, `NoAction`, `Acquire`, `Apply`, `ApplyFails`, `Respond`, `Verify`, `VerifyRaises`, `Review`, `Deliver`, `Decide` | `run_race_apply_verify` (`race_execution.py:1065-1707`) |
| `owner` | `WorkspaceWriteLease` |
| `WorkerEnds`, `Expires` | a worker's thread ends; the deadline passes |

A worker's answer and the validator's verdict on it are chosen when it is judged, because nothing looks at an answer before. Threads that
hang from an earlier round may go on, but their futures are read by nobody and they hold no lease. `LeaseIsFree` is proved
(`LeaseCorrect`) and in no run.

## 3. The runs

| Run | Instance | Checked |
|---|---|---|
| `graph_exclusive` | review loop, two workers, one call per checkpoint id, 4 calls, 2 crashes, recursion limit 4 | `CheckpointIsCurrent`: the row is what the live call holds between two nodes; `OncePerLoss`: a node runs again only where a call was lost; `GateMissedOnlyAfterLoss`: a gated node starts unannounced only where an earlier call was cut off; `ImplementsWalk`: the store refines `CheckpointWalk`; `Terminates`, streams and deletions notwithstanding |
| `graph_shared` | the same loop, two workers that may use one id at once, one crash | `PathIsWalk`: every live, stored and streamed path is still a walk, never a mixture; `LogIsTrace`: the list is what the nodes made it; `GateHonoured` |
| `apply_locked` | two requests that share no file, one process, 2 crashes, one edit between calls | `TornMeansIntent`; `LedgerIsTrue`: applied whole or not at all, and the ledger says which; `TerminalMeansImage`: the recorded outcome is the one on disk; `LockIsReleased`; `ImplementsAtomicPatch`: seen through the ledger, each patch is one atomic change |
| `apply_anytime` | two requests that share a file, two processes, one edit at any moment, one crash | `WritesNeedIntent`: approved, claimed and announced before any write, and only the patch's own files; `LedgersOnlyGrow`: no replay |
| `goal_runs` | diamond declared out of order, two runs, serial or parallel, two threads, 4 cycles, every initial workspace and every confidence of two goals | `ActsOnProven`; `Irrevocable`; `NothingLeftUndone`; `PassedIsSound`; `CheckpointIsReport`; `ImplementsBoard`: both drivers keep the board of `GoalBoard`; `Terminates` |
| `fabric` | chain of three services with the three policies, two manifests, 7 processes, 2 deaths, 2 supervisors | `Owned` and `StoppedMeansGone`: what lives is in the table, and nothing lives after a stop, but for a start that was interrupted before the entry; `TableIsManifest`; `FileNamesTheLiving`; `StartsOverDependencies`; `StopsDependentsFirst`; `ImplementsFleet`: to its users the supervisor is the fleet of `ServiceFleet`; `CallsEnd`; `Heals` |
| `daemon` | four tasks in the order of their creation, two ticks, batches of two, one killed tick, one task that may raise in every tick | `AttemptsMatchStatus`; `RunsAreCounted`; `CompletedOverCompleted`; `DecisionsStand`; `ServesInBatches`: until two ticks overlap, the table is that of a queue served in whole batches; `Served` |
| `race` | three workers, two scores, two rounds, four kinds of request, two failures that differ | `RaceIsFair`; `SuccessStands`: success means an action, and a workspace that stands or a browser that opened on what the round wrote; `RunEnds` |

Each module has one `TypeOK`. It is proved (`TypeCorrect` six times) and in no run, because every other property of a run says more.

Four more runs check one statement of the documentation each and find it violated; they are the findings of section 5.

**Why the bounds are enough.** The review loop has a branch, a cycle, a gate reached both from a fresh call and from a resumed one,
a mapped node with an unknown route and a node that may name no node; four calls are one start and three resumes, enough for a crash
after a crash and for two workers that each resume what the other wrote. A recursion limit of 4 lets a call go round the loop and be
refused. Two files of one request are what it takes to have one file written and the other not; a second request makes the image
that one transaction binds contain the work of another; two crashes are one in the application and one in the recovery of it. Four
goals have a fork and a join; the declaration order makes blocking lag behind in the pass; two attempts for two goals let a failure be
retried and become final; two runs let what one run left meet both drivers of the next; two threads interleave. A chain of three
services has a first, a middle and a last one to fail or restart, and a policy each; seven processes are the first three, restarts
and the processes of a second supervisor (a call begins only while a process for each service is left); two deaths let a service die while another is brought back. Of the four tasks one fails
without a command and one waits for it for ever, at the head of the queue, so that a batch of two has one place left; one of the
others has two attempts, and one may raise as often as it likes. Three workers are a winner, one that loses and one that is late; two scores give ties and better ones; two
rounds let a repair meet what the first one left, and two failures let a new failure stand beside the one of the baseline. `MaxRuns`, `MaxCalls`,
`MaxCrashes`, `MaxEdits`, `MaxCopies`, `MaxDeaths`, `MaxSupervisors` and `MaxLosses` bound TLC only: the theorems hold for all of their values. `MaxCycles`, `RecursionLimit`,
`MaxAttempts`, `MaxWorkers`, `Limit`, `Minimum` and `MaxRounds` are parameters of the code.

**Deadlock.** Every configuration says `CHECK_DEADLOCK FALSE`: the calls are bounded, and a system whose callers stopped calling
rests.

**Fairness.** `GraphRuntime`: weak fairness of the `Step(w)` that leave the streams alone (a consumer may drop a generator at any point), that is, a node's function and the store end, with or without an exception,
and the thread is scheduled; no fairness of `Invoke`, `Resume` or `Crash`. `CompetitiveApply`: weak fairness of `Locked(p)`; a
process inside the lock waits for nobody, only for git and for system calls, which end, and no crash, approval or call is assumed. `GoalExecution`: weak
fairness of `Step`; actions and validators end (`execute_one` has no timeout, one that never ends would hang the program as well), and
no run is assumed to start. `ServiceFabric`: weak fairness of `Step`, since every wait of the supervisor has a timeout, and of
`Reconcile`, which `service_cli.py` calls in a loop. `DaemonQueue`: weak fairness of the steps of a tick, whose commands have a timeout
and whose `UPDATE`s either get the lock or raise, and of `Begin`, which the timer repeats; ticks are killed finitely often, but a
command that raises may do so for ever, so `Served` excuses what stands in one batch with it or behind it. `WorkerRace`: weak fairness of the calling
thread and of time; none of the workers. In none of the six does fairness choose between success and failure.

## 4. What is proved

All theorems hold for every value of the constants that the named assumptions allow.

* **GraphRuntime** (`GraphRuntime_proofs`). `TypeCorrect`, from `TypeInv`, which adds to the types that a live call has a thread and
  stands on a node while it runs one. `WalkCorrect` (`PathIsWalk`) is inductive on top of it: the only step that extends a path is
  `Record`, and `LongerWalk` shows that it extends it along `Route`, whoever wrote the row last. `GateCorrect` (`GateHonoured`) rests on a
  fact about calls in `CallOK`: `skip` is true only in a resumed call that has not started a node. `LogCorrect` (`LogIsTrace`) assumes
  `MergeIsSafe`, exactly the graphs in which an increment cannot look like the whole list, and needs `PathIsWalk`: the log is a walk, so
  its first element repeats only in a graph that returns to `First`. `CurrentCorrect` and `WalkRefined` assume `~Shared` and use
  `ExclInv`: no two calls on one id (`Owner`) and `CheckpointIsCurrent`; `WalkRefined` maps every step to `Open`, `Advance` or a stutter
  of `CheckpointWalk`, a deletion to `Forget`. `OnceCorrect` (`OncePerLoss`, for `~Shared`) counts the places of a node in the stored
  path: `OnceInv` says that every run of a node is recorded, pending in the call that made it, or was lost, and `CountAppend` that one
  more element adds one place. `GateMissedCorrect` (`GateMissedOnlyAfterLoss`, for `~Shared`) rests on: the row of an id that no call was
  ever cut off for points at a gate only if the gate was announced. The parts of `PathIsWalk` and `LogIsTrace` that speak of streams have
  their own induction (`StreamOK`, `StreamInv`), for a stream never looks at the store.
* **CompetitiveApply** (`CompetitiveApply_proofs`). `TypeInv` adds to the types that a call inside the lock has a request and a
  transaction, that it is past the claim only with the claim in the ledger, past the intent only with the record at "applying", and that a
  claim presupposes an approval. `LedgersCorrect`, `WritesCorrect` follow from it step by step. `TornCorrect` strengthens
  `TornMeansIntent` to `TornInv`, which also says that no transaction binds a torn file as one of those it would restore and that a call
  about to record "applied" has left none. `ImageCorrect` (`TerminalMeansImage`, for `~EditsAnytime`) needs `ImageInv`: from the
  verification to the record nobody else touches the repository, because everyone who does holds the lock. `LedgerCorrect`
  (`LedgerIsTrue`, for `Disjoint` requests) is inductive with `LedgerInv`: until the user edits, the files of a request that is not begun
  or is rolled back are the ones it started from, and these are also what its transaction would restore. `AtomicRefined`
  (`ImplementsAtomicPatch`, for `Disjoint` and `~EditsAnytime`) reads the files through the ledger (`Committed`: the files of a request
  that is under way are still "base") and maps the record at "applying" to `Begin`, the terminal records to `Apply` and `RollBack`, and
  everything between them, torn files, temporary files, crashes and failing rollbacks, to a stutter. It needs `PatchInv` (a transaction
  restores the texts the patch is begun over, which still stand when the intent is recorded) and `ImageInv` for the moment of the outcome.
  `RecoveryCorrect` (`WhatBarsRecovery`) shows what can bar a recovery before anybody edited: a left-over temporary file, or a file of
  another request.
* **GoalExecution** (`GoalExecution_proofs`). The heart is one pass of `_refresh_states`: `RefreshKeeps` shows that what is given up stays
  so in *any* declaration order, by taking, if not all did, a goal that left its blocked state and depends on none that did (`Acyclic`).
  `GoalInv` is `TypeOK`, `ActInv` (a goal with a thread stands on passed dependencies within its attempts, one without is not running on
  behalf of the caller) and `Caused` (what is blocked is blocked behind something given up). From it `ActsCorrect` and
  `IrrevocableCorrect`; with `SaveInv` (the file is the image of the goals wherever a report is made) `CheckpointCorrect`; with `FirstInv`
  and `Within` (in a first run no goal has run out of attempts without being decided) `UndoneCorrect`. `SoundCorrect` (`PassedIsSound`)
  assumes `TouchesUpward`: an action disturbs the evidence of its own goal and of goals built on it. `BoardRefined` (`ImplementsBoard`)
  maps `execute_one` to `Try`, `Act`, `Judge` or `Leave`, the survey's verdicts to `Judge`, and cycles, batches and passes to `Sweep`;
  `RefreshIsOnePass` shows that the equation by which the model states the pass has exactly one solution for every table, graph and order
  of declaration, existence because no position of that order is the least one up to which the goals cannot be decided, uniqueness by the
  first goal that two solutions decide differently.
* **ServiceFabric** (`ServiceFabric_proofs`). `FabricInv` is `TableOK` (types; entries of the table are processes of this supervisor
  for that service; what lives is in the table or is `loose`, and what is loose is the process started last and no entry), `LooseOK` (a
  process is loose only while its service is the next of a walk, or since the walk was interrupted there) and `CallOK` (services the walk
  has passed are held, what the loops have not reached is still to do). `OwnedCorrect` and `StoppedCorrect` say that the one process of an
  interrupted start is all that a supervisor ever loses. They, `ManifestCorrect`, `StartsCorrect` and `FileCorrect` follow for every
  manifest with a topological order; `StartsCorrect` is where `Topological` is needed. `StopsCorrect` (`StopsDependentsFirst`) rests on
  `Founded`: the place of a service in the table is the number of one of its processes, and each of its dependencies had a process with a
  smaller number; a service that stands behind its dependent therefore had two. `FleetRefined` (`ImplementsFleet`) shows each supervisor
  what its users see of it: a service is up from `Launch` on, `Owned` makes "some process of s lives" and "the process at hand for s
  lives" one, `CallOK` gives the fleet's `Answer` what it promises, and `LosesTrack` is the fleet's `Cut`, after which the service may
  stray (`stray`) until it ends by itself.
* **DaemonQueue** (`DaemonQueue_proofs`). `BaseInv` says what any number of ticks keep, among it that a draft obeys what the committed
  table obeys and that what a tick has read still had attempts left: `AttemptsCorrect`. `AloneInv` says what holds until `overlapped`: the
  one tick's batch is what the table has, decisions in its draft are its own, completed rows of the draft stand on completed rows of the
  draft. From it `CompletedCorrect`, `DecisionsCorrect` and, for any number `MaxLosses` of ticks that die or raise, `RunsCorrect`.
  `BatchesServed` (`ServesInBatches`) and `QueueRefined` (`ImplementsTaskQueue`, for one tick at a time) show that a commit is one step
  `Serve` of `TaskQueue` and everything before it, a command that raises included, a stutter: `BatchInv` says what the open tick has
  decided so far, that it passed over nothing that could run, and that its batch is a prefix of what waits.
* **WorkerRace** (`WorkerRace_proofs`). `RunInv` adds to the types and the lease that every worker is in one place of the race
  (`Partition`), that verdicts are stamped in order, that nobody good was left when the race goes on waiting, that the winner is unbeaten
  in the grace time (`RaceOK`), and what the rounds know of the last report (`RoundOK`); from the latter `SuccessCorrect`. `RaceStep` treats the race, `RoundStep` the
  rounds.
* **Ends of calls** (all six, with `Descent`). A theorem cannot speak of fairness here, but it can state the other half of termination.
  `CallsShrink` of the graph, the fabric and the race, `LockHoldersShrink`, `RunsShrink` and `TicksEnd` name for each component a tuple of
  naturals, what is `Left` of a call, and show that it is such a tuple in every state, that each step of the call lowers it
  lexicographically or ends the call, and that nobody else raises it while the call lasts; `NoEndlessDescent` shows that no such tuple
  descends for ever. `CallsGoOn` of the fabric and the race, `RunsGoOn` and `TicksGoOn` add that the call finds what its next step needs:
  the walk over manifest or table a service, the race a winner that is unbeaten, the executor a goal or the end of its choice, the tick a
  row. What remains for TLC is that fairness turns the two into the liveness property. `LockHoldersShrink`, `TicksEnd`, `RunsShrink`,
  `RunsGoOn`, and the theorems of the fabric and the race assume that the set they range over (files, tasks, goals, services, workers) is
  finite, as it is in every program. Induction over data is done where it is needed by a least or minimal counterexample (`LeastExists`,
  `MinimalExists`, `BestExists`), because the library's induction rules take operators.

The assumptions on the constants are those of the modules (`GraphAssumption`, `ApplyAssumption`, `GoalAssumption`, `FabricAssumption`,
`Topological`, `QueueAssumption`, `RaceAssumption`, `Acyclic`, which `_validate_graph` enforces, and that `None` is none of the values it stands beside); TLC evaluates them in every run.

**Only model-checked.** Liveness (`Terminates` twice, `LockIsReleased`, `CallsEnd`, `Heals`, `Served`, `RunEnds`): fairness and `ENABLED`
are beyond the proof system; what is proved towards it is said above. The order of `_order`, a recursion over a graph.

## 5. Findings

1. `graph_gate`: `resume` passes `ignore_interrupt_once=True` whatever stopped the call (`graph_runtime.py:377`). A crash, or the
   recursion limit, just before a gate is resumed *into* the gated node, and no `GraphInterrupt` was ever raised for it;
   `docs/SOPHYANE_21_GRAPH_RUNTIME.md:14` promises a boundary for human approval. `GateMissedCorrect` shows
   that such a loss is the only way there.
2. `graph_again`: `merge` takes an increment that begins with the whole existing list for a full replacement
   (`graph_runtime.py:252`). A node that routes to itself loses its second increment. `LogCorrect` shows that this is the only way.
3. `apply_recover`: the temporary file of a rollback lies inside the repository (`competitive_coding_application.py:176`) and
   `_unaffected` looks at every file (`:137`): a crash between its creation and its replacement makes every later recovery refuse. `RecoveryCorrect` shows
   that, before anybody edits and but for files of other requests, this is the only cause.
4. `goal_evidence`: `run` reports success from the statuses (`goal_execution.py:548`), and a goal that passed is not validated again
   in that run: the action of another goal may have destroyed its evidence. `SoundCorrect` shows the discipline of actions under
   which this cannot happen.

Observed while modelling, in no run of its own. Two of these go against what the repository says of itself: the process that outlives
`stop_all`, and the browser that does not open.

* Application boundary: recovery rolls back whatever it finds in the files of its request (`competitive_coding_application.py:190`), also
  the patch that another approved request applied to a shared file meanwhile; that request's record still says "applied". This is why
  `LedgerIsTrue` is checked for requests without common files.
* Goals: goals of a chain declared in reverse may still be pending when the reason says that the remaining goals are blocked or exhausted
  (`goal_execution.py:527`); a validator that raises lowers the confidence below the floor, so its goal is exhausted before its action
  ever ran (`:531`); when an executor is run again and a goal no longer passes, the goals built on it keep their old pass (`:320`),
  which is why `PassedIsSound` speaks of the first run.
* Graph: `stream` passes every gate (`graph_runtime.py:384`).
* Fabric: `start_service` creates the process at `supervisor.py:201` and enters it in the table at `:228-230`. A key interrupt in between
  passes the `except Exception` of `:215`, and the `stop_all` in the `finally` of `service_cli.py:161` does not know the process, which has a
  session of its own: `stop_all` returns and it lives on (`src/tests/test_full_stack_service_fabric_integration.py:475` fails where a
  service is still reachable then). `Owned`, `StoppedMeansGone` and `ImplementsFleet` name this process as their only exception
  and are proved with it. A restart moves a service to the end of the table, behind its dependents, so `stop_all` then stops it under them
  (`StopsDependentsFirst` says that this is the only way); a new supervisor starts second copies of what a killed one left running;
  a service that runs is never restarted because its entry in the manifest changed.
* Daemon: a command whose output cannot be decoded raises in every tick that comes to it (`harness.py:271` decodes, and only a timeout
  and `OSError` are caught). The rollback takes back the attempt and the whole batch, so neither the task nor what stands in its batch or
  behind it is ever decided: without its excuse for such a task TLC refutes `Served` by an endless row of raising ticks. Tasks that wait for a failed dependency stay pending for ever and may fill the batch (`Served` says when); while ticks overlap
  a command may run more often than `max_attempts` and a decision may be overwritten, because the table has no claim.
* Race: a browser that opens ends the call with success whatever the verification of the round reported (`race_execution.py:1609-1612`),
  although `:1518` calls the verification authoritative; `SuccessStands` names this as the only way past it. A browser that does not open
  is reported as progress (`:1613-1614`), and with the default race runner the call goes on to the branches that report success, although
  the comment at `:1592-1593` says that "a verified write is not overall success until an explicit browser-open action succeeds";
  `test_browser_delivery_requires_open_step_before_success` (`src/tests/test_race_execution.py:328`) injects a runner of its own and so
  meets only the other branch. In the model both are behaviours of `Deliver`. Further,
  verification stops at the first failure, so a failure of the baseline hides a new one behind it (`:1661`); the write lease is an object of one call, so two calls over one workspace do not
  exclude each other (`race_adapters.py:36`).

## 6. Not modelled

Of the graph runtime: `fan_out`, a stateless parallel map, and `_invoke_linear`, which nothing calls. Of the application boundary: the
encodings and digests of the ledgers, the binding of candidate, plan and approval to each other by hash, and the ranking. Of the goals:
a key interrupt while the parallel driver waits for its threads (`goal_scheduler.py:65`; the pool waits for them before it escapes),
events, wording, and `goal_runtime.py`, which has no state. Of the fabric: the health probes, whose outcome `status` only reports. Of the
daemon: what commands do, and the events. Of the race: the exact-write path of a worker named `sli`, which no caller builds, custom
verifiers and race runners, a semantic judge that raises (which ends the call without success), progress events, learning records, and `transfer` of the lease with `CooperativeRace.promote`, which nothing
calls. The other components of the inventory are left out for the reason `PROJECT.json` gives: most of the package is text processing
around a language model and single statements against a database.

## 7. Plan

What is left, in order of what it adds:

1. `JsonStore`: read, change and write whole, as the refinement of an atomic store where one process writes, and what breaks where two do.
2. The thread records of `lc_compat/durable_graph.py` over `GraphRuntime`.
