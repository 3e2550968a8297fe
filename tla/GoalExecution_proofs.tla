------------------------ MODULE GoalExecution_proofs ------------------------
(***************************************************************************)
(* Proofs about GoalExecution, for every acyclic goal graph, declaration   *)
(* order, limit of attempts, cycles and threads, and number of runs.       *)
(***************************************************************************)
EXTENDS GoalExecution, Descent, FiniteSetTheorems, TLAPS

-----------------------------------------------------------------------------
(* One pass of _refresh_states *)

\* What is blocked is blocked behind something given up.
Caused(st) ==
    \A g \in Goal : st[g] = "blocked" =>
        \E d \in Deps[g] : st[d] \in {"exhausted", "blocked"}

\* A pass yields statuses, and moves goals between pending, ready, failed and
\* blocked only.
LEMMA RefreshType ==
    ASSUME NEW st \in [Goal -> Status], NEW new \in Refresh(st)
    PROVE  /\ new \in [Goal -> Status]
           /\ \A g \in Goal : st[g] \in {"passed", "running", "exhausted"} => new[g] = st[g]
           /\ \A g \in Goal : new[g] \in {"passed", "running", "exhausted"} => new[g] = st[g]
           /\ \A g \in Goal : new[g] # "failed"
           /\ \A g \in Goal : DepsPassed(new, g) <=> DepsPassed(st, g)
           /\ \A g \in Goal : new[g] = "ready" => DepsPassed(new, g)
           /\ \A g \in Goal : new[g] = "pending" => ~DepsPassed(new, g)
  <1>1. PICK B \in SUBSET Open(st) : Spreads(st, B) /\ new = Refreshed(st, B)
    BY DEF Refresh
  <1>2. \A g \in Goal : Deps[g] \subseteq Goal
    BY GoalAssumption
  <1>3. /\ new \in [Goal -> Status]
        /\ \A g \in Goal : st[g] \in {"passed", "running", "exhausted"} => new[g] = st[g]
        /\ \A g \in Goal : new[g] \in {"passed", "running", "exhausted"} => new[g] = st[g]
        /\ \A g \in Goal : new[g] # "failed"
    BY <1>1 DEF Refreshed, Open, Status
  <1>4. \A g \in Goal : DepsPassed(new, g) <=> DepsPassed(st, g)
    BY <1>2, <1>3 DEF DepsPassed
  <1>5. \A g \in Goal : /\ new[g] = "ready" => DepsPassed(st, g)
                        /\ new[g] = "pending" => ~DepsPassed(st, g)
    <2> TAKE g \in Goal
    <2>1. CASE g \notin Open(st)
      BY <1>1, <2>1 DEF Refreshed, Open, Status
    <2>2. CASE g \in Open(st)
      BY <1>1, <2>2 DEF Refreshed
    <2> QED BY <2>1, <2>2
  <1> QED BY <1>3, <1>4, <1>5

\* A goal that was given up stays so through a pass, in any declaration order.
\* Otherwise take a goal that leaves its blocked state and depends on none that
\* does (the graph has no cycle): what it is blocked behind is still there.
LEMMA RefreshKeeps ==
    ASSUME NEW st \in [Goal -> Status], Caused(st), NEW new \in Refresh(st)
    PROVE  \A g \in Goal : st[g] \in {"exhausted", "blocked"} => new[g] = st[g]
  <1>1. PICK B \in SUBSET Open(st) : Spreads(st, B) /\ new = Refreshed(st, B)
    BY DEF Refresh
  <1> DEFINE L == {g \in Goal : st[g] = "blocked" /\ g \notin B}
  <1>2. L = {}
    <2>1. SUFFICES ASSUME L # {} PROVE FALSE
      OBVIOUS
    <2>2. L \in (SUBSET Goal) \ {{}}
      BY <2>1
    <2>3. PICK g \in L : Deps[g] \cap L = {}
      BY <2>2, Acyclic
    <2>4. g \in Goal /\ st[g] = "blocked" /\ g \notin B
      BY <2>3
    <2>5. PICK d \in Deps[g] : st[d] \in {"exhausted", "blocked"}
      BY <2>4 DEF Caused
    <2>6. d \in Goal
      BY <2>4, <2>5, GoalAssumption
    <2>7. g \in Open(st)
      BY <2>4 DEF Open
    <2>8. ~ (\/ st[d] = "exhausted"
             \/ IF Declared[d] < Declared[g] THEN d \in B ELSE st[d] = "blocked")
      BY <1>1, <2>4, <2>5, <2>7 DEF Spreads
    <2>9. st[d] = "blocked" /\ d \notin B
      BY <2>5, <2>8
    <2>10. d \in L
      BY <2>6, <2>9
    <2> QED BY <2>3, <2>5, <2>10
  <1>3. ASSUME NEW g \in Goal, st[g] \in {"exhausted", "blocked"} PROVE new[g] = st[g]
    <2>1. CASE st[g] = "exhausted"
      BY <2>1, RefreshType
    <2>2. CASE st[g] = "blocked"
      <3>1. g \in B /\ g \in Open(st)
        BY <1>2, <2>2 DEF Open
      <3> QED BY <1>1, <2>2, <3>1 DEF Refreshed
    <2> QED BY <1>3, <2>1, <2>2
  <1> QED BY <1>3

\* What a pass blocks is blocked behind something given up.
LEMMA RefreshCaused ==
    ASSUME NEW st \in [Goal -> Status], Caused(st), NEW new \in Refresh(st)
    PROVE  Caused(new)
  <1>1. PICK B \in SUBSET Open(st) : Spreads(st, B) /\ new = Refreshed(st, B)
    BY DEF Refresh
  <1> SUFFICES ASSUME NEW g \in Goal, new[g] = "blocked"
               PROVE  \E d \in Deps[g] : new[d] \in {"exhausted", "blocked"}
    BY DEF Caused
  <1>2. g \in Open(st) /\ g \in B
    BY <1>1 DEF Refreshed, Open
  <1>3. PICK d \in Deps[g] : \/ st[d] = "exhausted"
                             \/ IF Declared[d] < Declared[g] THEN d \in B ELSE st[d] = "blocked"
    BY <1>1, <1>2 DEF Spreads
  <1>4. d \in Goal
    BY <1>3, GoalAssumption
  <1>5. CASE st[d] \in {"exhausted", "blocked"}
    BY <1>3, <1>4, <1>5, RefreshKeeps
  <1>6. CASE d \in B
    BY <1>1, <1>3, <1>6 DEF Refreshed, Open
  <1> QED BY <1>3, <1>5, <1>6

-----------------------------------------------------------------------------
(* Type correctness *)

\* A verdict of a validator, and what execute_one makes of it, are of their types.
LEMMA VerdictType ==
    ASSUME NEW g \in Goal, NEW v \in Verdicts(g)
    PROVE  /\ v.status \in {"failed", "passed", "exhausted"} /\ v.doubt \in BOOLEAN
           /\ Outcome(g, v) \in {"failed", "passed", "exhausted"}
           /\ v.status = "passed" => sound[g]
           /\ Outcome(g, v) = "passed" <=> v.status = "passed"
  <1>1. /\ v.status \in {"failed", "passed", "exhausted"} /\ v.doubt \in BOOLEAN
        /\ v.status = "passed" => sound[g]
    <2>1. CASE v \in {[status |-> "failed", doubt |-> TRUE]}
      <3>1. v.status = "failed" /\ v.doubt = TRUE
        BY <2>1
      <3> QED BY <3>1
    <2>2. CASE sound[g] /\ v \in {[status |-> "passed", doubt |-> FALSE]}
      <3>1. v.status = "passed" /\ v.doubt = FALSE
        BY <2>2
      <3> QED BY <2>2, <3>1
    <2>3. CASE v \in {[status |-> s, doubt |-> FALSE] : s \in {"failed", "exhausted"}}
      <3>1. v.status \in {"failed", "exhausted"} /\ v.doubt = FALSE
        BY <2>3
      <3> QED BY <3>1
    <2> QED BY <2>1, <2>2, <2>3 DEF Verdicts
  <1>2. Outcome(g, v) = "passed" <=> v.status = "passed"
    BY DEF Outcome
  <1>3. Outcome(g, v) \in {"failed", "passed", "exhausted"}
    BY <1>1 DEF Outcome
  <1> QED BY <1>1, <1>2, <1>3

LEMMA InitType == Init => TypeOK
  BY GoalAssumption DEF Init, TypeOK, Status

\* What is saved is a checkpoint.
LEMMA SaveType ==
    ASSUME TypeOK, NEW st \in [Goal -> Status], NEW cyc \in 0 .. MaxCycles
    PROVE  [Image(st) EXCEPT !.cycle = cyc] \in
               [status : [Goal -> Status], attempts : [Goal -> Nat], cycle : Nat]
  BY GoalAssumption DEF TypeOK, Image

\* The end of a cycle keeps the types of what it changes.
LEMMA EndCycleType ==
    ASSUME TypeOK, NEW st \in [Goal -> Status], NEW cyc \in 0 .. MaxCycles,
           EndCycle(st, cyc)
    PROVE  /\ status' \in [Goal -> Status]
           /\ pc' \in {"idle", "loop"}
           /\ saved' \in [status : [Goal -> Status], attempts : [Goal -> Nat], cycle : Nat]
                        \cup {None}
           /\ report' \in {"none", "already", "proven", "stuck", "cycles",
                           "drained", "finished", "raised"}
  <1>1. PICK new \in Refresh(st) :
          /\ status' = new
          /\ SaveThen(IF Achieved(new) THEN Return("proven")
                      ELSE pc' = "loop" /\ UNCHANGED report, new, cyc)
    BY DEF EndCycle
  <1>2. new \in [Goal -> Status]
    BY RefreshType
  <1>3. [Image(new) EXCEPT !.cycle = cyc] \in
            [status : [Goal -> Status], attempts : [Goal -> Nat], cycle : Nat]
    BY <1>2, SaveType
  <1> QED BY <1>1, <1>2, <1>3 DEF TypeOK, SaveThen, Return

LEMMA StepType == TypeOK /\ [Next]_vars => TypeOK'
  <1> SUFFICES ASSUME TypeOK, [Next]_vars PROVE TypeOK'
    OBVIOUS
  <1>0. status \in [Goal -> Status] /\ cycle \in 0 .. MaxCycles /\ MaxCycles \in Nat
    BY GoalAssumption DEF TypeOK
  <1>1. CASE UNCHANGED vars
    BY <1>1 DEF vars, TypeOK
  <1>2. CASE RunSerial
    BY <1>0, <1>2, RefreshType DEF RunSerial, TypeOK
  <1>3. CASE RunPool
    BY <1>3 DEF RunPool, TypeOK, book
  <1>4. CASE EndSurvey
    <2>1. PICK st \in Refresh(status) :
            /\ status' = st
            /\ SaveThen(IF Achieved(st) THEN Return("already")
                        ELSE pc' = "loop" /\ UNCHANGED report, st, cycle)
      BY <1>4 DEF EndSurvey
    <2>2. st \in [Goal -> Status]
      BY <1>0, RefreshType
    <2>3. [Image(st) EXCEPT !.cycle = cycle] \in
              [status : [Goal -> Status], attempts : [Goal -> Nat], cycle : Nat]
      BY <1>0, <2>2, SaveType
    <2> QED BY <1>4, <2>1, <2>2, <2>3 DEF EndSurvey, TypeOK, SaveThen, Return
  <1>5. CASE OutOfCycles
    BY <1>5 DEF OutOfCycles, TypeOK, book, Return
  <1>6. CASE Stuck
    <2>1. PICK st \in Refresh(status) :
            /\ status' = st
            /\ SaveThen(Return("stuck"), st, cycle + 1)
      BY <1>6 DEF Stuck
    <2>2. st \in [Goal -> Status]
      BY <1>0, RefreshType
    <2>3. cycle + 1 \in 0 .. MaxCycles
      BY <1>0, <1>6 DEF Stuck
    <2>4. [Image(st) EXCEPT !.cycle = cycle + 1] \in
              [status : [Goal -> Status], attempts : [Goal -> Nat], cycle : Nat]
      BY <2>2, <2>3, SaveType
    <2> QED BY <1>6, <2>1, <2>2, <2>3, <2>4 DEF Stuck, TypeOK, SaveThen, Return
  <1>7. CASE StartBatch
    <2>1. PICK st \in Refresh(status) :
            /\ status' = st
            /\ phase' = [g \in Goal |-> IF g \in Candidates(st) THEN "queued" ELSE "rest"]
            /\ IF Candidates(st) = {} THEN Return("drained")
               ELSE pc' = "pool" /\ UNCHANGED report
      BY <1>7 DEF StartBatch
    <2>2. st \in [Goal -> Status]
      BY <1>0, RefreshType
    <2> QED BY <1>7, <2>1, <2>2 DEF StartBatch, TypeOK, Return
  <1>8. CASE EndBatch
    BY <1>8 DEF EndBatch, TypeOK, book, Return
  <1>9. ASSUME NEW g \in Goal, OneGoal(g) PROVE TypeOK'
    <2>1. CASE SurveySkips(g)
      BY <2>1 DEF SurveySkips, TypeOK, book
    <2>2. CASE SurveyValidates(g)
      <3>1. PICK v \in Verdicts(g) :
              /\ status' = [status EXCEPT ![g] = v.status]
              /\ doubt' = [doubt EXCEPT ![g] = v.doubt]
        BY <2>2 DEF SurveyValidates
      <3>2. v.status \in Status /\ v.doubt \in BOOLEAN
        BY <1>9, VerdictType DEF Status
      <3>3. status' \in [Goal -> Status] /\ doubt' \in [Goal -> BOOLEAN]
        BY <3>1, <3>2 DEF TypeOK
      <3> QED BY <2>2, <3>3 DEF SurveyValidates, TypeOK
    <2>3. CASE SurveyBreaks(g)
      BY <2>3 DEF SurveyBreaks, TypeOK, book, Return
    <2>4. CASE Floor(g)
      <3>1. PICK st \in Refresh(status) : EndCycle([st EXCEPT ![g] = "exhausted"], cycle + 1)
        BY <2>4 DEF Floor
      <3>2. [st EXCEPT ![g] = "exhausted"] \in [Goal -> Status]
        BY <1>0, RefreshType DEF Status
      <3>3. cycle + 1 \in 0 .. MaxCycles
        BY <1>0, <2>4 DEF Floor
      <3> QED BY <2>4, <3>1, <3>2, <3>3, EndCycleType DEF Floor, TypeOK
    <2>5. CASE StartAction(g)
      <3>1. PICK st \in Refresh(status) : status' = [st EXCEPT ![g] = "running"]
        BY <2>5 DEF StartAction
      <3>2. status' \in [Goal -> Status]
        BY <1>0, <3>1, RefreshType DEF Status
      <3>3. cycle' \in 0 .. MaxCycles
        BY <1>0, <2>5 DEF StartAction
      <3>4. attempts' \in [Goal -> Nat]
        BY <2>5 DEF StartAction, TypeOK
      <3> QED BY <2>5, <3>2, <3>3, <3>4 DEF StartAction, TypeOK
    <2>6. CASE ActionReturns(g)
      <3>1. PICK s \in [Touches[g] -> BOOLEAN] :
              sound' = [h \in Goal |-> IF h \in Touches[g] THEN s[h] ELSE sound[h]]
        BY <2>6 DEF ActionReturns
      <3>2. sound' \in [Goal -> BOOLEAN]
        BY <3>1 DEF TypeOK
      <3> QED BY <2>6, <3>2 DEF ActionReturns, TypeOK, book
    <2>7. CASE ValidatorReturns(g)
      <3>1. PICK v \in Verdicts(g) :
              /\ doubt' = [doubt EXCEPT ![g] = v.doubt]
              /\ EndCycle([status EXCEPT ![g] = Outcome(g, v)], cycle)
        BY <2>7 DEF ValidatorReturns
      <3>2. [status EXCEPT ![g] = Outcome(g, v)] \in [Goal -> Status]
        BY <1>0, <1>9, VerdictType DEF Status
      <3>3. doubt' \in [Goal -> BOOLEAN]
        BY <1>9, <3>1, VerdictType DEF TypeOK
      <3> QED BY <1>0, <2>7, <3>1, <3>2, <3>3, EndCycleType DEF ValidatorReturns, TypeOK
    <2>8. CASE ValidatorReturnsInPool(g)
      <3>1. PICK v \in Verdicts(g) :
              /\ doubt' = [doubt EXCEPT ![g] = v.doubt]
              /\ status' = [status EXCEPT ![g] = Outcome(g, v)]
        BY <2>8 DEF ValidatorReturnsInPool
      <3>2. status' \in [Goal -> Status] /\ doubt' \in [Goal -> BOOLEAN]
        BY <1>9, <3>1, VerdictType DEF TypeOK, Status
      <3> QED BY <2>8, <3>2 DEF ValidatorReturnsInPool, TypeOK
    <2>9. CASE Breaks(g)
      BY <2>9 DEF Breaks, TypeOK, book, Return
    <2>10. CASE PoolStarts(g)
      BY <2>10 DEF PoolStarts, TypeOK, Status
    <2> QED BY <1>9, <2>1, <2>2, <2>3, <2>4, <2>5, <2>6, <2>7, <2>8, <2>9, <2>10 DEF OneGoal
  <1> QED BY <1>1, <1>2, <1>3, <1>4, <1>5, <1>6, <1>7, <1>8, <1>9 DEF Next, Step

\* Every variable keeps its type, in every behaviour of the specification.
THEOREM TypeCorrect == Spec => []TypeOK
  <1>1. Init => TypeOK BY InitType
  <1>2. TypeOK /\ [Next]_vars => TypeOK' BY StepType
  <1> QED BY <1>1, <1>2, PTL DEF Spec

-----------------------------------------------------------------------------
(* Nothing given up is taken up again *)

\* From st to new nothing leaves exhausted or blocked, and what is blocked has
\* a cause.
Keeps(st, new) ==
    /\ new \in [Goal -> Status] /\ Caused(new)
    /\ \A g \in Goal : st[g] \in {"exhausted", "blocked"} => new[g] = st[g]

LEMMA KeepsByRefresh ==
    ASSUME NEW st \in [Goal -> Status], Caused(st), NEW new \in Refresh(st)
    PROVE  Keeps(st, new)
  BY RefreshType, RefreshKeeps, RefreshCaused DEF Keeps

\* A goal that is neither exhausted nor blocked may take any other status but
\* blocked: nothing was blocked behind it.
LEMMA KeepsByUpdate ==
    ASSUME NEW st \in [Goal -> Status], Caused(st), NEW g \in Goal,
           st[g] \notin {"exhausted", "blocked"},
           NEW x \in Status \ {"blocked"}
    PROVE  Keeps(st, [st EXCEPT ![g] = x])
  <1> DEFINE new == [st EXCEPT ![g] = x]
  <1>1. new \in [Goal -> Status]
    OBVIOUS
  <1>2. ASSUME NEW h \in Goal, new[h] = "blocked"
        PROVE  \E d \in Deps[h] : new[d] \in {"exhausted", "blocked"}
    <2>1. st[h] = "blocked"
      BY <1>2
    <2>2. PICK d \in Deps[h] : st[d] \in {"exhausted", "blocked"}
      BY <1>2, <2>1 DEF Caused
    <2>3. d \in Goal
      BY <1>2, <2>2, GoalAssumption
    <2>4. d # g
      BY <2>2
    <2> QED BY <2>2, <2>3, <2>4
  <1> QED BY <1>1, <1>2 DEF Keeps, Caused

LEMMA KeepsTransitive ==
    ASSUME NEW s1, NEW s2, NEW s3, Keeps(s1, s2), Keeps(s2, s3)
    PROVE  Keeps(s1, s3)
  BY DEF Keeps

\* What EndCycle leaves is a pass over st.
LEMMA EndCycleRefreshes ==
    ASSUME NEW st, NEW cyc, EndCycle(st, cyc)
    PROVE  status' \in Refresh(st)
  BY DEF EndCycle

\* Where execute_one is on each goal, and what holds meanwhile.
ActInv ==
    /\ pc \in {"idle", "survey", "loop", "batch"} => \A g \in Goal : phase[g] = "rest"
    /\ pc = "act" => \A g, h \in Goal : phase[g] # "rest" /\ phase[h] # "rest" => g = h
    /\ \A g \in Goal : phase[g] = "queued" =>
          status[g] \in {"ready", "failed"} /\ attempts[g] < MaxAttempts[g]
    /\ ActsOnProven

LEMMA StepKeeps ==
    ASSUME TypeOK, ActInv, Caused(status), [Next]_vars
    PROVE  Keeps(status, status')
  <1>0. status \in [Goal -> Status]
    BY DEF TypeOK
  <1>1. CASE status' = status
    BY <1>0, <1>1 DEF Keeps
  <1>2. CASE status' \in Refresh(status)
    BY <1>0, <1>2, KeepsByRefresh
  <1>3. ASSUME NEW g \in Goal, OneGoal(g) PROVE Keeps(status, status')
    <2>1. CASE SurveySkips(g) \/ SurveyBreaks(g) \/ ActionReturns(g) \/ Breaks(g)
      BY <1>1, <2>1 DEF SurveySkips, SurveyBreaks, ActionReturns, Breaks, book
    <2>2. CASE SurveyValidates(g)
      <3>1. PICK v \in Verdicts(g) : status' = [status EXCEPT ![g] = v.status]
        BY <2>2 DEF SurveyValidates
      <3>2. v.status \in Status \ {"blocked"}
        BY <1>3, VerdictType DEF Status
      <3>3. status[g] \notin {"exhausted", "blocked"}
        BY <2>2 DEF SurveyValidates, Skipped
      <3> QED BY <1>0, <1>3, <3>1, <3>2, <3>3, KeepsByUpdate
    <2>3. CASE Floor(g)
      <3>1. PICK st \in Refresh(status) :
              g \in Preferred(st) /\ EndCycle([st EXCEPT ![g] = "exhausted"], cycle + 1)
        BY <2>3 DEF Floor
      <3>2. Keeps(status, st)
        BY <1>0, <3>1, KeepsByRefresh
      <3>3. st[g] \notin {"exhausted", "blocked"}
        BY <3>1 DEF Preferred, Candidates
      <3>4. Keeps(st, [st EXCEPT ![g] = "exhausted"])
        BY <1>3, <3>2, <3>3, KeepsByUpdate DEF Keeps, Status
      <3>5. Keeps([st EXCEPT ![g] = "exhausted"], status')
        BY <3>1, <3>4, EndCycleRefreshes, KeepsByRefresh DEF Keeps
      <3> QED BY <3>2, <3>4, <3>5, KeepsTransitive
    <2>4. CASE StartAction(g)
      <3>1. PICK st \in Refresh(status) :
              g \in Preferred(st) /\ status' = [st EXCEPT ![g] = "running"]
        BY <2>4 DEF StartAction
      <3>2. Keeps(status, st)
        BY <1>0, <3>1, KeepsByRefresh
      <3>3. st[g] \notin {"exhausted", "blocked"}
        BY <3>1 DEF Preferred, Candidates
      <3>4. Keeps(st, status')
        BY <1>3, <3>1, <3>2, <3>3, KeepsByUpdate DEF Keeps, Status
      <3> QED BY <3>2, <3>4, KeepsTransitive
    <2>5. CASE ValidatorReturns(g)
      <3>1. PICK v \in Verdicts(g) : EndCycle([status EXCEPT ![g] = Outcome(g, v)], cycle)
        BY <2>5 DEF ValidatorReturns
      <3>2. status[g] = "running"
        BY <1>3, <2>5 DEF ValidatorReturns, ActInv, ActsOnProven
      <3>3. Keeps(status, [status EXCEPT ![g] = Outcome(g, v)])
        BY <1>0, <1>3, <3>2, VerdictType, KeepsByUpdate DEF Status
      <3>4. Keeps([status EXCEPT ![g] = Outcome(g, v)], status')
        BY <3>1, <3>3, EndCycleRefreshes, KeepsByRefresh DEF Keeps
      <3> QED BY <3>3, <3>4, KeepsTransitive
    <2>6. CASE ValidatorReturnsInPool(g)
      <3>1. PICK v \in Verdicts(g) : status' = [status EXCEPT ![g] = Outcome(g, v)]
        BY <2>6 DEF ValidatorReturnsInPool
      <3>2. status[g] = "running"
        BY <1>3, <2>6 DEF ValidatorReturnsInPool, ActInv, ActsOnProven
      <3> QED BY <1>0, <1>3, <3>1, <3>2, VerdictType, KeepsByUpdate DEF Status
    <2>7. CASE PoolStarts(g)
      <3>1. phase[g] = "queued" /\ status' = [status EXCEPT ![g] = "running"]
        BY <2>7 DEF PoolStarts, IsFirst
      <3>2. status[g] \in {"ready", "failed"}
        BY <1>3, <3>1 DEF ActInv
      <3> QED BY <1>0, <1>3, <3>1, <3>2, KeepsByUpdate DEF Status
    <2> QED BY <1>3, <2>1, <2>2, <2>3, <2>4, <2>5, <2>6, <2>7 DEF OneGoal
  <1>4. CASE RunSerial \/ EndSurvey \/ Stuck \/ StartBatch
    BY <1>2, <1>4 DEF RunSerial, EndSurvey, Stuck, StartBatch
  <1>5. CASE RunPool \/ OutOfCycles \/ EndBatch \/ UNCHANGED vars
    BY <1>1, <1>5 DEF RunPool, OutOfCycles, EndBatch, vars, book
  <1> QED BY <1>3, <1>4, <1>5 DEF Next, Step

\* Outside a batch nothing executes, and then a change of the statuses disturbs
\* nothing.
LEMMA RestActs ==
    ASSUME TypeOK', \A g \in Goal : phase'[g] = "rest"
    PROVE  ActInv'
  BY DEF ActInv, ActsOnProven

\* While goals execute, one of them, g, may take another status and leave
\* execute_one: no other one depends on it, as it has not passed.
LEMMA UpdateActs ==
    ASSUME TypeOK, ActInv, NEW g \in Goal, phase[g] # "rest",
           NEW x, NEW y \in {"rest", "acting"},
           status' = [status EXCEPT ![g] = x], phase' = [phase EXCEPT ![g] = y],
           \A h \in Goal \ {g} : attempts'[h] = attempts[h],
           y = "acting" => x = "running" /\ attempts'[g] \in 1 .. MaxAttempts[g],
           pc = "pool", pc' = "pool"
    PROVE  ActInv'
  <1>1. status[g] # "passed"
    BY DEF TypeOK, ActInv, ActsOnProven
  <1>2. ASSUME NEW h \in Goal, phase'[h] # "rest" PROVE DepsPassed(status, h)'
    <2>1. phase[h] # "rest"
      BY <1>2 DEF TypeOK
    <2>2. \A d \in Deps[h] : status[d] = "passed" /\ d \in Goal
      BY <1>2, <2>1, GoalAssumption DEF ActInv, ActsOnProven, DepsPassed
    <2>3. \A d \in Deps[h] : status'[d] = "passed"
      BY <1>1, <2>2 DEF TypeOK
    <2> QED BY <2>3 DEF DepsPassed
  <1>3. ASSUME NEW h \in Goal, phase'[h] = "queued"
        PROVE  status'[h] \in {"ready", "failed"} /\ attempts'[h] < MaxAttempts[h]
    BY <1>3 DEF TypeOK, ActInv
  <1>4. ASSUME NEW h \in Goal, phase'[h] \in {"acting", "acted"}
        PROVE  status'[h] = "running" /\ attempts'[h] \in 1 .. MaxAttempts[h]
    <2>1. CASE h = g
      BY <1>4, <2>1 DEF TypeOK
    <2>2. CASE h # g
      BY <1>4, <2>2 DEF TypeOK, ActInv, ActsOnProven
    <2> QED BY <2>1, <2>2
  <1> QED BY <1>2, <1>3, <1>4 DEF ActInv, ActsOnProven, DepsPassed

\* Of two lists of steps: none but the pool's changes a status while another
\* goal executes.
LEMMA StepActs ==
    ASSUME TypeOK, TypeOK', ActInv, [Next]_vars
    PROVE  ActInv'
  <1>0. /\ status \in [Goal -> Status] /\ phase \in [Goal -> {"rest", "queued", "acting", "acted"}]
        /\ MaxAttempts \in [Goal -> Nat \ {0}] /\ attempts \in [Goal -> Nat]
    BY GoalAssumption DEF TypeOK
  <1>1. CASE UNCHANGED vars
    BY <1>1 DEF vars, ActInv, ActsOnProven, DepsPassed
  <1>2. CASE RunSerial \/ RunPool \/ EndSurvey \/ OutOfCycles \/ Stuck \/ EndBatch
    <2>1. \A g \in Goal : phase'[g] = "rest"
      BY <1>2 DEF RunSerial, RunPool, EndSurvey, OutOfCycles, Stuck, EndBatch, ActInv
    <2> QED BY <2>1, RestActs
  <1>3. CASE StartBatch
    <2>1. PICK st \in Refresh(status) :
            /\ status' = st
            /\ phase' = [g \in Goal |-> IF g \in Candidates(st) THEN "queued" ELSE "rest"]
            /\ IF Candidates(st) = {} THEN Return("drained")
               ELSE pc' = "pool" /\ UNCHANGED report
      BY <1>3 DEF StartBatch
    <2>2. \A g \in Goal : phase'[g] # "rest" =>
            /\ phase'[g] = "queued" /\ status'[g] \in {"ready", "failed"}
            /\ DepsPassed(st, g) /\ attempts'[g] < MaxAttempts[g]
      BY <1>3, <2>1 DEF StartBatch, Candidates
    <2>3. pc' \in {"idle", "pool"} /\ (pc' = "idle" => \A g \in Goal : phase'[g] = "rest")
      BY <2>1 DEF Return
    <2> QED BY <2>1, <2>2, <2>3 DEF ActInv, ActsOnProven, DepsPassed
  <1>4. ASSUME NEW g \in Goal, OneGoal(g) PROVE ActInv'
    <2>1. CASE SurveySkips(g) \/ SurveyValidates(g) \/ SurveyBreaks(g) \/ Floor(g)
      <3>1. \A h \in Goal : phase'[h] = "rest"
        BY <2>1 DEF SurveySkips, SurveyValidates, SurveyBreaks, Floor, ActInv
      <3> QED BY <3>1, RestActs
    <2>2. CASE StartAction(g)
      <3>1. PICK st \in Refresh(status) :
              g \in Preferred(st) /\ status' = [st EXCEPT ![g] = "running"]
        BY <2>2 DEF StartAction
      <3>2. st \in [Goal -> Status]
        BY <1>0, <3>1, RefreshType
      <3>3. st[g] # "passed" /\ DepsPassed(st, g) /\ attempts[g] < MaxAttempts[g]
        BY <3>1 DEF Preferred, Candidates
      <3>4. DepsPassed(status, g)'
        BY <1>4, <3>1, <3>2, <3>3, GoalAssumption DEF DepsPassed
      <3>5. status'[g] = "running" /\ attempts'[g] \in 1 .. MaxAttempts[g]
        BY <1>0, <1>4, <2>2, <3>1, <3>2, <3>3 DEF StartAction
      <3>6. \A h \in Goal : phase'[h] = IF h = g THEN "acting" ELSE "rest"
        BY <1>0, <2>2 DEF StartAction, ActInv
      <3> QED BY <2>2, <3>4, <3>5, <3>6 DEF StartAction, ActInv, ActsOnProven, DepsPassed
    <2>3. CASE ActionReturns(g)
      <3>1. /\ phase[g] = "acting" /\ phase' = [phase EXCEPT ![g] = "acted"]
            /\ UNCHANGED <<status, attempts, pc>>
        BY <2>3 DEF ActionReturns, book
      <3> QED BY <1>0, <1>4, <3>1 DEF ActInv, ActsOnProven, DepsPassed
    <2>4. CASE ValidatorReturns(g)
      <3>1. \A h \in Goal : phase'[h] = "rest"
        BY <1>0, <1>4, <2>4 DEF ValidatorReturns, ActInv
      <3> QED BY <3>1, RestActs
    <2>5. CASE ValidatorReturnsInPool(g)
      <3>1. PICK x : status' = [status EXCEPT ![g] = x]
        BY <2>5 DEF ValidatorReturnsInPool
      <3> QED BY <1>4, <2>5, <3>1, UpdateActs DEF ValidatorReturnsInPool
    <2>6. CASE Breaks(g)
      <3>1. /\ phase[g] = "acted" /\ phase' = [phase EXCEPT ![g] = "rest"]
            /\ UNCHANGED <<status, attempts>>
            /\ IF pc = "act" THEN Return("raised") ELSE UNCHANGED <<pc, report>>
        BY <2>6 DEF Breaks, book
      <3>2. CASE pc = "act"
        <4>1. \A h \in Goal : phase'[h] = "rest"
          BY <1>0, <1>4, <3>1, <3>2 DEF ActInv
        <4> QED BY <4>1, RestActs
      <3>3. CASE pc # "act"
        BY <1>0, <1>4, <3>1, <3>3 DEF ActInv, ActsOnProven, DepsPassed
      <3> QED BY <3>2, <3>3
    <2>7. CASE PoolStarts(g)
      <3>1. /\ phase[g] = "queued" /\ pc = "pool" /\ pc' = "pool"
            /\ status' = [status EXCEPT ![g] = "running"]
            /\ attempts' = [attempts EXCEPT ![g] = @ + 1]
            /\ phase' = [phase EXCEPT ![g] = "acting"]
        BY <2>7 DEF PoolStarts, IsFirst
      <3>2. attempts'[g] \in 1 .. MaxAttempts[g]
        BY <1>0, <1>4, <3>1 DEF ActInv
      <3> QED BY <1>0, <1>4, <3>1, <3>2, UpdateActs
    <2> QED BY <1>4, <2>1, <2>2, <2>3, <2>4, <2>5, <2>6, <2>7 DEF OneGoal
  <1> QED BY <1>1, <1>2, <1>3, <1>4 DEF Next, Step

\* The strengthened invariant of both results below.
GoalInv == TypeOK /\ ActInv /\ Caused(status)

LEMMA InitGoal == Init => GoalInv
  <1> SUFFICES ASSUME Init PROVE GoalInv
    OBVIOUS
  <1>1. TypeOK
    BY InitType
  <1>2. ActInv
    BY DEF Init, ActInv, ActsOnProven
  <1>3. Caused(status)
    BY DEF Init, Caused
  <1> QED BY <1>1, <1>2, <1>3 DEF GoalInv

LEMMA StepGoal == GoalInv /\ [Next]_vars => GoalInv'
  BY StepType, StepActs, StepKeeps DEF GoalInv, Keeps, Caused

\* An action only runs for a goal whose dependencies stand as passed, within
\* its attempts, whatever ran before and whatever runs beside it.
THEOREM ActsCorrect == Spec => []ActsOnProven
  <1>1. Init => GoalInv BY InitGoal
  <1>2. GoalInv /\ [Next]_vars => GoalInv' BY StepGoal
  <1>3. GoalInv => ActsOnProven BY DEF GoalInv, ActInv
  <1> QED BY <1>1, <1>2, <1>3, PTL DEF Spec

\* A goal that was exhausted or blocked stays so through every later run.
THEOREM IrrevocableCorrect == Spec => Irrevocable
  <1>1. Init => GoalInv BY InitGoal
  <1>2. GoalInv /\ [Next]_vars => GoalInv' BY StepGoal
  <1>3. GoalInv /\ [Next]_vars =>
          [\A g \in Goal : status[g] \in {"exhausted", "blocked"} => status'[g] = status[g]]_vars
    BY StepKeeps DEF GoalInv, Keeps
  <1> QED BY <1>1, <1>2, <1>3, PTL DEF Spec, Irrevocable

-----------------------------------------------------------------------------
(* The checkpoint *)

\* A run in progress has no report, and the loop starts each cycle from what
\* the checkpoint says.
SaveInv ==
    /\ pc # "idle" => report = "none"
    /\ pc = "loop" => saved = Image(status)
    /\ CheckpointIsReport

\* Saving st with the next cycle number gives the image of the next state.
LEMMA SavedImage ==
    ASSUME NEW st, NEW cyc, status' = st, cycle' = cyc, UNCHANGED attempts,
           saved' = [Image(st) EXCEPT !.cycle = cyc]
    PROVE  saved' = Image(status)'
  BY DEF Image

LEMMA EndCycleSaves ==
    ASSUME NEW st, NEW cyc, EndCycle(st, cyc), cycle' = cyc, UNCHANGED attempts,
           report = "none"
    PROVE  SaveInv'
  <1>1. PICK new \in Refresh(st) :
          /\ status' = new
          /\ SaveThen(IF Achieved(new) THEN Return("proven")
                      ELSE pc' = "loop" /\ UNCHANGED report, new, cyc)
    BY DEF EndCycle
  <1>2. CASE saved' = [Image(new) EXCEPT !.cycle = cyc]
             /\ IF Achieved(new) THEN Return("proven") ELSE pc' = "loop" /\ UNCHANGED report
    <2>1. saved' = Image(status)'
      BY <1>1, <1>2, SavedImage
    <2> QED BY <1>2, <2>1 DEF SaveInv, CheckpointIsReport, Return
  <1>3. CASE UNCHANGED saved /\ Return("raised")
    BY <1>3 DEF SaveInv, CheckpointIsReport, Return
  <1> QED BY <1>1, <1>2, <1>3 DEF SaveThen

LEMMA StepSave ==
    ASSUME SaveInv, [Next]_vars
    PROVE  SaveInv'
  <1>1. CASE UNCHANGED vars
    BY <1>1 DEF vars, SaveInv, CheckpointIsReport, Image
  <1>2. CASE RunSerial \/ RunPool
    BY <1>2 DEF RunSerial, RunPool, SaveInv, CheckpointIsReport
  <1>3. CASE EndSurvey
    <2>1. PICK st \in Refresh(status) :
            /\ status' = st
            /\ SaveThen(IF Achieved(st) THEN Return("already")
                        ELSE pc' = "loop" /\ UNCHANGED report, st, cycle)
      BY <1>3 DEF EndSurvey
    <2>2. UNCHANGED <<attempts, cycle>> /\ report = "none"
      BY <1>3 DEF EndSurvey, SaveInv
    <2>3. CASE saved' = [Image(st) EXCEPT !.cycle = cycle]
               /\ IF Achieved(st) THEN Return("already") ELSE pc' = "loop" /\ UNCHANGED report
      <3>1. saved' = Image(status)'
        BY <2>1, <2>2, <2>3, SavedImage
      <3> QED BY <2>2, <2>3, <3>1 DEF SaveInv, CheckpointIsReport, Return
    <2>4. CASE UNCHANGED saved /\ Return("raised")
      BY <2>4 DEF SaveInv, CheckpointIsReport, Return
    <2> QED BY <2>1, <2>3, <2>4 DEF SaveThen
  <1>4. CASE OutOfCycles
    BY <1>4 DEF OutOfCycles, SaveInv, CheckpointIsReport, Image, Return, book
  <1>5. CASE Stuck
    <2>1. PICK st \in Refresh(status) :
            status' = st /\ SaveThen(Return("stuck"), st, cycle + 1)
      BY <1>5 DEF Stuck
    <2>2. UNCHANGED attempts /\ cycle' = cycle + 1
      BY <1>5 DEF Stuck
    <2>3. CASE saved' = [Image(st) EXCEPT !.cycle = cycle + 1] /\ Return("stuck")
      <3>1. saved' = Image(status)'
        BY <2>1, <2>2, <2>3, SavedImage
      <3> QED BY <2>3, <3>1 DEF SaveInv, CheckpointIsReport, Return
    <2>4. CASE UNCHANGED saved /\ Return("raised")
      BY <2>4 DEF SaveInv, CheckpointIsReport, Return
    <2> QED BY <2>1, <2>3, <2>4 DEF SaveThen
  <1>6. CASE StartBatch
    BY <1>6 DEF StartBatch, SaveInv, CheckpointIsReport, Return
  <1>7. CASE EndBatch
    BY <1>7 DEF EndBatch, SaveInv, CheckpointIsReport, Return
  <1>8. ASSUME NEW g \in Goal, OneGoal(g) PROVE SaveInv'
    <2>1. CASE SurveySkips(g)
      BY <2>1 DEF SurveySkips, SaveInv, CheckpointIsReport
    <2>2. CASE SurveyValidates(g)
      BY <2>2 DEF SurveyValidates, SaveInv, CheckpointIsReport
    <2>3. CASE SurveyBreaks(g)
      BY <2>3 DEF SurveyBreaks, SaveInv, CheckpointIsReport, Return
    <2>4. CASE Floor(g)
      <3>1. PICK st \in Refresh(status) : EndCycle([st EXCEPT ![g] = "exhausted"], cycle + 1)
        BY <2>4 DEF Floor
      <3> QED BY <2>4, <3>1, EndCycleSaves DEF Floor, SaveInv
    <2>5. CASE StartAction(g)
      BY <2>5 DEF StartAction, SaveInv, CheckpointIsReport
    <2>6. CASE ActionReturns(g)
      BY <2>6 DEF ActionReturns, SaveInv, CheckpointIsReport, Image, book
    <2>7. CASE ValidatorReturns(g)
      <3>1. PICK v \in Verdicts(g) : EndCycle([status EXCEPT ![g] = Outcome(g, v)], cycle)
        BY <2>7 DEF ValidatorReturns
      <3> QED BY <2>7, <3>1, EndCycleSaves DEF ValidatorReturns, SaveInv
    <2>8. CASE ValidatorReturnsInPool(g)
      BY <2>8 DEF ValidatorReturnsInPool, SaveInv, CheckpointIsReport
    <2>9. CASE Breaks(g)
      BY <2>9 DEF Breaks, SaveInv, CheckpointIsReport, Image, Return, book
    <2>10. CASE PoolStarts(g)
      BY <2>10 DEF PoolStarts, SaveInv, CheckpointIsReport
    <2> QED BY <1>8, <2>1, <2>2, <2>3, <2>4, <2>5, <2>6, <2>7, <2>8, <2>9, <2>10 DEF OneGoal
  <1> QED BY <1>1, <1>2, <1>3, <1>4, <1>5, <1>6, <1>7, <1>8 DEF Next, Step

\* The checkpoint on disk is what the report was made from, however run() ends
\* and whether or not an earlier save failed.
THEOREM CheckpointCorrect == Spec => []CheckpointIsReport
  <1>1. Init => SaveInv
    BY DEF Init, SaveInv, CheckpointIsReport
  <1>2. SaveInv /\ [Next]_vars => SaveInv' BY StepSave
  <1>3. SaveInv => CheckpointIsReport BY DEF SaveInv
  <1> QED BY <1>1, <1>2, <1>3, PTL DEF Spec

-----------------------------------------------------------------------------
(* The first run of an executor *)

\* Its goals start untried, validate_all meets none that has already passed,
\* and one that is out of attempts is decided.
FirstInv ==
    /\ runs = 0 => /\ pc = "idle"
                   /\ \A g \in Goal : attempts[g] = 0 /\ status[g] = "pending"
    /\ runs = 1 /\ pc = "survey" =>
          /\ \A g \in Goal : attempts[g] = 0
          /\ \A g \in todo : status[g] # "passed"
    /\ runs = 1 => \A g \in Goal : attempts[g] = MaxAttempts[g] =>
          status[g] \in {"passed", "exhausted", "running"}

\* The last conjunct of FirstInv, of a later table of statuses.
Decided(st) ==
    \A g \in Goal : attempts[g] = MaxAttempts[g] => st[g] \in {"passed", "exhausted", "running"}

LEMMA DecidedByRefresh ==
    ASSUME NEW st \in [Goal -> Status], Decided(st), NEW new \in Refresh(st)
    PROVE  Decided(new)
  BY RefreshType DEF Decided

LEMMA StepFirst ==
    ASSUME GoalInv, GoalInv', FirstInv, [Next]_vars
    PROVE  FirstInv'
  <1>0. /\ status \in [Goal -> Status] /\ attempts \in [Goal -> Nat] /\ runs \in Nat
        /\ todo \subseteq Goal /\ MaxAttempts \in [Goal -> Nat \ {0}]
        /\ phase \in [Goal -> {"rest", "queued", "acting", "acted"}]
    BY GoalAssumption DEF GoalInv, TypeOK
  <1>1. CASE UNCHANGED vars
    BY <1>1 DEF vars, FirstInv
  <1>2. CASE RunSerial
    <2>1. status' \in Refresh(status) /\ runs' = runs + 1 /\ todo' = Goal /\ UNCHANGED attempts
      BY <1>2 DEF RunSerial
    <2>2. runs' = 1 => /\ \A g \in Goal : attempts'[g] = 0
                      /\ \A g \in Goal : status'[g] # "passed"
      BY <1>0, <2>1, RefreshType DEF FirstInv
    <2> QED BY <1>0, <2>1, <2>2 DEF FirstInv
  <1>3. CASE RunPool
    BY <1>0, <1>3 DEF RunPool, FirstInv, book
  <1>4. CASE EndSurvey \/ Stuck \/ StartBatch
    <2>1. /\ status' \in Refresh(status) /\ UNCHANGED <<attempts, runs>>
          /\ pc # "idle" /\ pc' # "survey"
      BY <1>4 DEF EndSurvey, Stuck, StartBatch, SaveThen, Return
    <2> QED BY <1>0, <2>1, DecidedByRefresh DEF FirstInv, Decided
  <1>5. CASE OutOfCycles \/ EndBatch
    BY <1>5 DEF OutOfCycles, EndBatch, book, FirstInv, Return
  <1>6. ASSUME NEW g \in Goal, OneGoal(g) PROVE FirstInv'
    <2>0. phase[g] # "rest" => pc \in {"act", "pool"}
      BY <1>6 DEF GoalInv, ActInv, TypeOK
    <2>1. CASE SurveySkips(g) \/ SurveyBreaks(g)
      BY <2>1 DEF SurveySkips, SurveyBreaks, book, FirstInv, Return
    <2>2. CASE SurveyValidates(g)
      <3>1. /\ pc = "survey" /\ pc' = "survey" /\ todo' = todo \ {g}
            /\ UNCHANGED <<attempts, runs>>
        BY <2>2 DEF SurveyValidates
      <3>2. PICK v : status' = [status EXCEPT ![g] = v]
        BY <2>2 DEF SurveyValidates
      <3> QED BY <1>0, <3>1, <3>2 DEF FirstInv
    <2>3. CASE Floor(g)
      <3>1. PICK st \in Refresh(status) : EndCycle([st EXCEPT ![g] = "exhausted"], cycle + 1)
        BY <2>3 DEF Floor
      <3>2. /\ UNCHANGED <<attempts, runs>> /\ pc = "loop" /\ pc' # "survey"
        BY <2>3, <3>1 DEF Floor, EndCycle, SaveThen, Return
      <3>3. runs = 1 => Decided(st)
        BY <1>0, <3>1, DecidedByRefresh DEF FirstInv, Decided
      <3>4. /\ st \in [Goal -> Status]
            /\ [st EXCEPT ![g] = "exhausted"] \in [Goal -> Status]
        BY <1>0, <3>1, RefreshType DEF Status
      <3>5. runs = 1 => Decided([st EXCEPT ![g] = "exhausted"])
        BY <3>3, <3>4 DEF Decided
      <3>6. runs = 1 => Decided(status')
        BY <3>1, <3>4, <3>5, EndCycleRefreshes, DecidedByRefresh
      <3> QED BY <3>2, <3>6 DEF FirstInv, Decided
    <2>4. CASE StartAction(g)
      <3>1. PICK st \in Refresh(status) : status' = [st EXCEPT ![g] = "running"]
        BY <2>4 DEF StartAction
      <3>2. /\ attempts' = [attempts EXCEPT ![g] = @ + 1] /\ UNCHANGED runs
            /\ pc = "loop" /\ pc' = "act"
        BY <2>4 DEF StartAction
      <3>3. runs = 1 => Decided(st)
        BY <1>0, <3>1, DecidedByRefresh DEF FirstInv, Decided
      <3>4. st \in [Goal -> Status]
        BY <1>0, <3>1, RefreshType
      <3> QED BY <1>0, <3>1, <3>2, <3>3, <3>4 DEF FirstInv, Decided
    <2>5. CASE ActionReturns(g)
      BY <2>5 DEF ActionReturns, book, FirstInv
    <2>6. CASE ValidatorReturns(g)
      <3>1. PICK v \in Verdicts(g) : EndCycle([status EXCEPT ![g] = Outcome(g, v)], cycle)
        BY <2>6 DEF ValidatorReturns
      <3> DEFINE st == [status EXCEPT ![g] = Outcome(g, v)]
      <3>2. /\ UNCHANGED <<attempts, runs>> /\ pc = "act" /\ pc' # "survey"
        BY <2>6, <3>1 DEF ValidatorReturns, EndCycle, SaveThen, Return
      <3>3. st \in [Goal -> Status]
        BY <1>0, <1>6, VerdictType DEF Status
      <3>4. attempts[g] = MaxAttempts[g] => Outcome(g, v) \in {"passed", "exhausted"}
        BY <1>0 DEF Outcome
      <3>5. runs = 1 => Decided(st)
        BY <1>0, <3>4 DEF Decided, FirstInv
      <3>6. runs = 1 => Decided(status')
        BY <3>1, <3>3, <3>5, EndCycleRefreshes, DecidedByRefresh
      <3> QED BY <3>2, <3>6 DEF FirstInv, Decided
    <2>7. CASE ValidatorReturnsInPool(g)
      <3>1. PICK v \in Verdicts(g) : status' = [status EXCEPT ![g] = Outcome(g, v)]
        BY <2>7 DEF ValidatorReturnsInPool
      <3>2. UNCHANGED <<attempts, runs, pc>> /\ pc = "pool"
        BY <2>7 DEF ValidatorReturnsInPool
      <3>3. attempts[g] = MaxAttempts[g] => Outcome(g, v) \in {"passed", "exhausted"}
        BY <1>0 DEF Outcome
      <3> QED BY <1>0, <3>1, <3>2, <3>3 DEF FirstInv
    <2>8. CASE Breaks(g)
      <3>1. UNCHANGED <<status, attempts, runs, todo>> /\ pc # "idle" /\ pc' \in {pc, "idle"}
        BY <2>0, <2>8 DEF Breaks, book, Return
      <3>2. pc' # "survey"
        BY <2>0, <2>8 DEF Breaks, Return
      <3> QED BY <3>1, <3>2 DEF FirstInv
    <2>9. CASE PoolStarts(g)
      <3>1. /\ pc = "pool" /\ pc' = "pool" /\ UNCHANGED runs
            /\ status' = [status EXCEPT ![g] = "running"]
            /\ attempts' = [attempts EXCEPT ![g] = @ + 1]
        BY <2>9 DEF PoolStarts
      <3> QED BY <1>0, <3>1 DEF FirstInv
    <2> QED BY <1>6, <2>1, <2>2, <2>3, <2>4, <2>5, <2>6, <2>7, <2>8, <2>9 DEF OneGoal
  <1> QED BY <1>1, <1>2, <1>3, <1>4, <1>5, <1>6 DEF Next, Step

LEMMA InitFirst == Init => FirstInv
  BY GoalAssumption DEF Init, FirstInv

-----------------------------------------------------------------------------
(* A run that gives up has tried everything *)

Within == \A g \in Goal : attempts[g] <= MaxAttempts[g]

LEMMA StepWithin ==
    ASSUME GoalInv, Within, [Next]_vars
    PROVE  Within'
  <1>0. attempts \in [Goal -> Nat] /\ MaxAttempts \in [Goal -> Nat \ {0}]
    BY GoalAssumption DEF GoalInv, TypeOK
  <1>1. CASE UNCHANGED attempts
    BY <1>1 DEF Within
  <1>2. ASSUME NEW g \in Goal, StartAction(g) \/ PoolStarts(g) PROVE Within'
    <2>1. attempts' = [attempts EXCEPT ![g] = @ + 1] /\ attempts[g] < MaxAttempts[g]
      <3>1. CASE StartAction(g)
        BY <3>1 DEF StartAction, Preferred, Candidates
      <3>2. CASE PoolStarts(g)
        BY <1>2, <3>2 DEF PoolStarts, IsFirst, GoalInv, ActInv
      <3> QED BY <1>2, <3>1, <3>2
    <2> QED BY <1>0, <1>2, <2>1 DEF Within
  <1>3. CASE RunSerial \/ RunPool \/ EndSurvey \/ OutOfCycles \/ Stuck \/ StartBatch \/ EndBatch
    BY <1>1, <1>3 DEF RunSerial, RunPool, EndSurvey, OutOfCycles, Stuck, StartBatch, EndBatch, book
  <1>4. ASSUME NEW g \in Goal, OneGoal(g) PROVE Within'
    <2>1. CASE StartAction(g) \/ PoolStarts(g)
      BY <1>2, <1>4, <2>1
    <2>2. CASE ~(StartAction(g) \/ PoolStarts(g))
      BY <1>1, <1>4, <2>2 DEF OneGoal, SurveySkips, SurveyValidates, SurveyBreaks, Floor,
            ActionReturns, ValidatorReturns, ValidatorReturnsInPool, Breaks, book
    <2> QED BY <2>1, <2>2
  <1>5. CASE UNCHANGED vars
    BY <1>1, <1>5 DEF vars
  <1> QED BY <1>3, <1>4, <1>5 DEF Next, Step

\* A refreshed table without candidates leaves nothing undone.
LEMMA NoCandidates ==
    ASSUME GoalInv, FirstInv, Within, NEW st \in Refresh(status), Candidates(st) = {},
           NEW g \in Goal, DepsPassed(st, g)
    PROVE  \/ st[g] \in {"passed", "exhausted", "running"}
           \/ runs # 1 /\ attempts[g] = MaxAttempts[g]
  <1>1. /\ status \in [Goal -> Status] /\ attempts[g] \in Nat
        /\ MaxAttempts[g] \in Nat /\ attempts[g] <= MaxAttempts[g]
    BY GoalAssumption DEF GoalInv, TypeOK, Within
  <1>2. st \in [Goal -> Status] /\ Caused(st)
    BY <1>1, RefreshType, RefreshCaused DEF GoalInv
  <1>3. st[g] \notin {"blocked", "failed", "pending"}
    <2>1. st[g] # "blocked"
      BY <1>2 DEF Caused, DepsPassed
    <2> QED BY <1>1, <2>1, RefreshType
  <1>4. CASE st[g] = "ready"
    <2>1. attempts[g] = MaxAttempts[g]
      BY <1>1, <1>4 DEF Candidates
    <2>2. runs # 1
      BY <1>1, <1>4, <2>1, DecidedByRefresh DEF FirstInv, Decided
    <2> QED BY <2>1, <2>2
  <1> QED BY <1>2, <1>3, <1>4 DEF Status

LEMMA StepUndone ==
    ASSUME GoalInv, SaveInv, FirstInv, Within, NothingLeftUndone, [Next]_vars
    PROVE  NothingLeftUndone'
  <1>0. pc # "idle" => report = "none"
    BY DEF SaveInv
  <1>1. CASE UNCHANGED vars
    BY <1>1 DEF vars, NothingLeftUndone, DepsPassed
  <1>2. CASE report' \notin {"stuck", "drained"}
    BY <1>2 DEF NothingLeftUndone
  <1>3. CASE Stuck \/ StartBatch
    <2>1. PICK st \in Refresh(status) :
            status' = st /\ (report' \in {"stuck", "drained"} => Candidates(st) = {})
      BY <1>0, <1>3 DEF Stuck, StartBatch, SaveThen, Return
    <2>2. UNCHANGED <<attempts, runs>> /\ runs \in Nat /\ runs # 0
      BY <1>3 DEF Stuck, StartBatch, FirstInv, GoalInv, TypeOK
    <2> SUFFICES ASSUME report' \in {"stuck", "drained"}, NEW g \in Goal, DepsPassed(status, g)'
                 PROVE  \/ status'[g] \in {"passed", "exhausted", "running"}
                        \/ runs' > 1 /\ attempts'[g] = MaxAttempts[g]
      BY DEF NothingLeftUndone
    <2>3. DepsPassed(st, g)
      BY <2>1 DEF DepsPassed
    <2> QED BY <2>1, <2>2, <2>3, NoCandidates
  <1>4. CASE RunSerial \/ RunPool \/ EndSurvey \/ OutOfCycles \/ EndBatch
    BY <1>0, <1>2, <1>4 DEF RunSerial, RunPool, EndSurvey, OutOfCycles, EndBatch, SaveThen, Return
  <1>5. ASSUME NEW g \in Goal, OneGoal(g) PROVE NothingLeftUndone'
    <2>0. phase[g] # "rest" => pc \in {"act", "pool"}
      BY <1>5 DEF GoalInv, ActInv, TypeOK
    <2>1. CASE SurveySkips(g) \/ SurveyValidates(g) \/ SurveyBreaks(g) \/ StartAction(g) \/ PoolStarts(g)
      BY <1>0, <1>2, <2>1 DEF SurveySkips, SurveyValidates, SurveyBreaks, StartAction, PoolStarts, Return
    <2>2. CASE Floor(g) \/ ValidatorReturns(g)
      BY <1>0, <1>2, <2>2 DEF Floor, ValidatorReturns, EndCycle, SaveThen, Return
    <2>3. CASE ActionReturns(g) \/ ValidatorReturnsInPool(g) \/ Breaks(g)
      BY <1>0, <1>2, <2>0, <2>3 DEF ActionReturns, ValidatorReturnsInPool, Breaks, Return
    <2> QED BY <1>5, <2>1, <2>2, <2>3 DEF OneGoal
  <1> QED BY <1>1, <1>3, <1>4, <1>5 DEF Next, Step

UndoneInv == GoalInv /\ SaveInv /\ FirstInv /\ Within /\ NothingLeftUndone

LEMMA InitUndone == Init => UndoneInv
  <1> SUFFICES ASSUME Init PROVE UndoneInv
    OBVIOUS
  <1>1. SaveInv
    BY DEF Init, SaveInv, CheckpointIsReport
  <1>2. Within
    BY GoalAssumption DEF Init, Within
  <1>3. NothingLeftUndone
    BY DEF Init, NothingLeftUndone
  <1> QED BY <1>1, <1>2, <1>3, InitGoal, InitFirst DEF UndoneInv

LEMMA StepUndoneInv == UndoneInv /\ [Next]_vars => UndoneInv'
  BY StepGoal, StepSave, StepFirst, StepWithin, StepUndone DEF UndoneInv

\* No run says that nothing is left to do while a goal could still be tried.
THEOREM UndoneCorrect == Spec => []NothingLeftUndone
  <1>1. Init => UndoneInv BY InitUndone
  <1>2. UndoneInv /\ [Next]_vars => UndoneInv' BY StepUndoneInv
  <1>3. UndoneInv => NothingLeftUndone BY DEF UndoneInv
  <1> QED BY <1>1, <1>2, <1>3, PTL DEF Spec

-----------------------------------------------------------------------------
(* What passed is sound *)

\* An action of g disturbs no evidence but that of g and of goals built on g.
TouchesUpward ==
    \A g \in Goal : \A h \in Touches[g] : h = g \/ g \in Deps[h]

\* PassedIsSound, of any table of statuses.
Sound(st) == \A g \in Goal : st[g] = "passed" => sound[g] /\ DepsPassed(st, g)

\* A table in which nothing lost its pass, and what gained one is sound.
LEMMA SoundGrows ==
    ASSUME NEW s1, NEW s2, Sound(s1),
           \A g \in Goal : s1[g] = "passed" => s2[g] = "passed",
           \A g \in Goal : s2[g] = "passed" =>
               s1[g] = "passed" \/ (sound[g] /\ DepsPassed(s1, g))
    PROVE  Sound(s2)
  <1> SUFFICES ASSUME NEW g \in Goal, s2[g] = "passed" PROVE sound[g] /\ DepsPassed(s2, g)
    BY DEF Sound
  <1>1. sound[g] /\ DepsPassed(s1, g)
    BY DEF Sound
  <1> QED BY <1>1, GoalAssumption DEF DepsPassed

\* So does a pass of _refresh_states, which gives and takes no pass.
LEMMA SoundRefresh ==
    ASSUME NEW st \in [Goal -> Status], Sound(st), NEW new \in Refresh(st)
    PROVE  Sound(new)
  BY RefreshType, SoundGrows

\* So does one goal that had not passed.
LEMMA SoundUpdate ==
    ASSUME NEW st \in [Goal -> Status], Sound(st), NEW g \in Goal, st[g] # "passed",
           NEW x, x = "passed" => sound[g] /\ DepsPassed(st, g)
    PROVE  Sound([st EXCEPT ![g] = x])
  <1> DEFINE new == [st EXCEPT ![g] = x]
  <1>1. \A h \in Goal : st[h] = "passed" => new[h] = "passed"
    OBVIOUS
  <1>2. \A h \in Goal : new[h] = "passed" =>
          st[h] = "passed" \/ (sound[h] /\ DepsPassed(st, h))
    OBVIOUS
  <1> QED BY <1>1, <1>2, SoundGrows

LEMMA StepSound ==
    ASSUME TouchesUpward, GoalInv, FirstInv, runs' = 1, runs = 1, Sound(status), [Next]_vars
    PROVE  Sound(status)'
  <1>0. status \in [Goal -> Status] /\ todo \subseteq Goal
    BY DEF GoalInv, TypeOK
  <1>1. CASE UNCHANGED <<status, sound>>
    BY <1>1 DEF Sound, DepsPassed
  <1>2. ASSUME UNCHANGED sound, Sound(status') PROVE Sound(status)'
    BY <1>2 DEF Sound, DepsPassed
  <1>3. CASE RunSerial \/ RunPool
    BY <1>3 DEF RunSerial, RunPool
  <1>4. CASE EndSurvey \/ Stuck \/ StartBatch
    BY <1>0, <1>2, <1>4, SoundRefresh DEF EndSurvey, Stuck, StartBatch
  <1>5. CASE OutOfCycles \/ EndBatch \/ UNCHANGED vars
    BY <1>1, <1>5 DEF OutOfCycles, EndBatch, vars, book
  <1>6. ASSUME NEW g \in Goal, OneGoal(g) PROVE Sound(status)'
    <2>1. CASE SurveySkips(g) \/ SurveyBreaks(g) \/ Breaks(g)
      BY <1>1, <2>1 DEF SurveySkips, SurveyBreaks, Breaks, book
    <2>2. CASE SurveyValidates(g)
      <3>1. PICK v \in Verdicts(g) : status' = [status EXCEPT ![g] = v.status]
        BY <2>2 DEF SurveyValidates
      <3>2. status[g] # "passed" /\ DepsPassed(status, g)
        BY <2>2 DEF SurveyValidates, IsFirst, Skipped, FirstInv
      <3>3. v.status = "passed" => sound[g]
        BY <1>6, VerdictType
      <3>4. Sound(status')
        BY <1>0, <1>6, <3>1, <3>2, <3>3, SoundUpdate
      <3> QED BY <1>2, <2>2, <3>4 DEF SurveyValidates
    <2>3. CASE Floor(g)
      <3>1. PICK st \in Refresh(status) :
              g \in Preferred(st) /\ EndCycle([st EXCEPT ![g] = "exhausted"], cycle + 1)
        BY <2>3 DEF Floor
      <3>2. st \in [Goal -> Status] /\ Sound(st) /\ st[g] # "passed"
        BY <1>0, <3>1, RefreshType, SoundRefresh DEF Preferred, Candidates
      <3>3. /\ [st EXCEPT ![g] = "exhausted"] \in [Goal -> Status]
            /\ Sound([st EXCEPT ![g] = "exhausted"])
        BY <1>6, <3>2, SoundUpdate DEF Status
      <3>4. Sound(status')
        BY <3>1, <3>3, EndCycleRefreshes, SoundRefresh
      <3> QED BY <1>2, <2>3, <3>4 DEF Floor
    <2>4. CASE StartAction(g)
      <3>1. PICK st \in Refresh(status) :
              g \in Preferred(st) /\ status' = [st EXCEPT ![g] = "running"]
        BY <2>4 DEF StartAction
      <3>2. st \in [Goal -> Status] /\ Sound(st) /\ st[g] # "passed"
        BY <1>0, <3>1, RefreshType, SoundRefresh DEF Preferred, Candidates
      <3>3. Sound(status')
        BY <1>6, <3>1, <3>2, SoundUpdate
      <3> QED BY <1>2, <2>4, <3>3 DEF StartAction
    <2>5. CASE ActionReturns(g)
      <3>1. status[g] = "running"
        BY <1>6, <2>5 DEF ActionReturns, GoalInv, ActInv, ActsOnProven
      <3>2. PICK s : sound' = [h \in Goal |-> IF h \in Touches[g] THEN s[h] ELSE sound[h]]
        BY <2>5 DEF ActionReturns
      <3>3. ASSUME NEW h \in Goal, status[h] = "passed" PROVE sound'[h] /\ DepsPassed(status, h)
        <4>1. sound[h] /\ DepsPassed(status, h)
          BY <3>3 DEF Sound
        <4>2. h # g /\ g \notin Deps[h]
          BY <3>1, <3>3, <4>1 DEF DepsPassed
        <4>3. h \notin Touches[g]
          BY <1>6, <4>2 DEF TouchesUpward
        <4>4. sound'[h] = sound[h]
          BY <3>2, <3>3, <4>3
        <4> QED BY <4>1, <4>4
      <3>4. UNCHANGED status
        BY <2>5 DEF ActionReturns, book
      <3> QED BY <3>3, <3>4 DEF Sound, DepsPassed
    <2>6. CASE ValidatorReturns(g) \/ ValidatorReturnsInPool(g)
      <3>1. phase[g] = "acted" /\ UNCHANGED sound
        BY <2>6 DEF ValidatorReturns, ValidatorReturnsInPool
      <3>2. status[g] = "running" /\ DepsPassed(status, g)
        BY <1>6, <3>1 DEF GoalInv, ActInv, ActsOnProven, DepsPassed
      <3>3. PICK v \in Verdicts(g) :
              \/ EndCycle([status EXCEPT ![g] = Outcome(g, v)], cycle)
              \/ status' = [status EXCEPT ![g] = Outcome(g, v)]
        BY <2>6 DEF ValidatorReturns, ValidatorReturnsInPool
      <3> DEFINE st == [status EXCEPT ![g] = Outcome(g, v)]
      <3>4. Outcome(g, v) \in Status /\ (Outcome(g, v) = "passed" => sound[g])
        BY <1>6, VerdictType DEF Status
      <3>5. st \in [Goal -> Status] /\ Sound(st)
        BY <1>0, <1>6, <3>2, <3>4, SoundUpdate
      <3>6. status' = st \/ status' \in Refresh(st)
        BY <3>3, EndCycleRefreshes
      <3> HIDE DEF st
      <3>7. Sound(status')
        BY <3>5, <3>6, SoundRefresh
      <3> QED BY <1>2, <3>1, <3>7
    <2>7. CASE PoolStarts(g)
      <3>1. phase[g] = "queued" /\ status' = [status EXCEPT ![g] = "running"] /\ UNCHANGED sound
        BY <2>7 DEF PoolStarts, IsFirst
      <3>2. status[g] # "passed"
        BY <1>6, <3>1 DEF GoalInv, ActInv
      <3>3. Sound(status')
        BY <1>0, <1>6, <3>1, <3>2, SoundUpdate
      <3> QED BY <1>2, <3>1, <3>3
    <2> QED BY <1>6, <2>1, <2>2, <2>3, <2>4, <2>5, <2>6, <2>7 DEF OneGoal
  <1> QED BY <1>3, <1>4, <1>5, <1>6 DEF Next, Step

\* The first run itself starts from goals none of which has passed.
LEMMA FirstSound ==
    ASSUME GoalInv, FirstInv, runs # 1, runs' = 1, [Next]_vars
    PROVE  Sound(status)'
  <1>1. runs = 0 /\ (RunSerial \/ RunPool)
    <2>1. CASE RunSerial \/ RunPool
      BY <2>1 DEF RunSerial, RunPool, GoalInv, TypeOK
    <2>2. CASE EndSurvey \/ OutOfCycles \/ Stuck \/ StartBatch \/ EndBatch \/ UNCHANGED vars
      BY <2>2 DEF EndSurvey, OutOfCycles, Stuck, StartBatch, EndBatch, vars
    <2>3. ASSUME NEW g \in Goal, OneGoal(g) PROVE FALSE
      BY <2>3 DEF OneGoal, SurveySkips, SurveyValidates, SurveyBreaks, Floor, StartAction,
            ActionReturns, ValidatorReturns, ValidatorReturnsInPool, Breaks, PoolStarts
    <2> QED BY <2>1, <2>2, <2>3 DEF Next, Step
  <1>2. status \in [Goal -> Status] /\ \A g \in Goal : status[g] = "pending"
    BY <1>1 DEF GoalInv, TypeOK, FirstInv
  <1>3. status' = status \/ status' \in Refresh(status)
    BY <1>1 DEF RunSerial, RunPool, book
  <1>4. \A g \in Goal : status'[g] # "passed"
    BY <1>2, <1>3, RefreshType
  <1> QED BY <1>4 DEF Sound

SoundInv == GoalInv /\ FirstInv /\ PassedIsSound

\* In an executor's first run, serial or parallel, every goal called passed has
\* its evidence in the workspace and everything below it passed, if actions
\* disturb only their own goal and the goals built on it.
THEOREM SoundCorrect ==
    ASSUME TouchesUpward
    PROVE  Spec => []PassedIsSound
  <1>1. Init => SoundInv
    BY InitGoal, InitFirst DEF SoundInv, PassedIsSound, Init
  <1>2. SoundInv /\ [Next]_vars => SoundInv'
    <2> SUFFICES ASSUME SoundInv, [Next]_vars PROVE SoundInv'
      OBVIOUS
    <2>1. GoalInv' /\ FirstInv'
      BY StepGoal, StepFirst DEF SoundInv
    <2>2. runs' = 1 => Sound(status)'
      <3>1. runs = 1 => Sound(status)
        BY DEF SoundInv, PassedIsSound, Sound
      <3> QED BY <3>1, TouchesUpward, StepSound, FirstSound DEF SoundInv
    <2>3. PassedIsSound'
      BY <2>2 DEF PassedIsSound, Sound
    <2> QED BY <2>1, <2>3 DEF SoundInv
  <1>3. SoundInv => PassedIsSound BY DEF SoundInv
  <1> QED BY <1>1, <1>2, <1>3, PTL DEF Spec

-----------------------------------------------------------------------------
(* The executor keeps a board of goals *)

\* What the board sees of the executor.
BoardView == [g \in Goal |-> Shown(g)]
BoardSaid == IF pc # "idle" THEN "busy"
             ELSE IF report \in {"already", "proven", "finished"} THEN "done"
             ELSE "rest"

Active(g) == phase[g] \in {"acting", "acted"}

\* How a status is seen.
LEMMA ShownIs ==
    GoalInv => \A g \in Goal :
        /\ BoardView[g] = Shown(g)
        /\ Shown(g) = "trying" <=> Active(g)
        /\ Shown(g) = "left" <=> status[g] = "running" /\ ~Active(g)
        /\ Shown(g) = "proven" <=> status[g] = "passed"
        /\ Shown(g) = "lost" <=> status[g] \in {"exhausted", "blocked"}
        /\ Shown(g) = "open" <=> status[g] \in {"pending", "ready", "failed"}
  <1> SUFFICES ASSUME GoalInv, NEW g \in Goal
               PROVE  /\ BoardView[g] = Shown(g)
                      /\ Shown(g) = "trying" <=> Active(g)
                      /\ Shown(g) = "left" <=> status[g] = "running" /\ ~Active(g)
                      /\ Shown(g) = "proven" <=> status[g] = "passed"
                      /\ Shown(g) = "lost" <=> status[g] \in {"exhausted", "blocked"}
                      /\ Shown(g) = "open" <=> status[g] \in {"pending", "ready", "failed"}
    OBVIOUS
  <1>1. status[g] \in Status /\ (Active(g) => status[g] = "running")
    BY DEF GoalInv, TypeOK, ActInv, ActsOnProven, Active
  <1> QED BY <1>1 DEF Shown, BoardView, Active, Status

LEMMA ShownNext ==
    (GoalInv => \A g \in Goal :
        /\ BoardView[g] = Shown(g)
        /\ Shown(g) = "trying" <=> Active(g)
        /\ Shown(g) = "left" <=> status[g] = "running" /\ ~Active(g)
        /\ Shown(g) = "proven" <=> status[g] = "passed"
        /\ Shown(g) = "lost" <=> status[g] \in {"exhausted", "blocked"}
        /\ Shown(g) = "open" <=> status[g] \in {"pending", "ready", "failed"})'
  BY ShownIs, PTL

\* What passes over the table make of a status.
Moves(x, y) ==
    y = x \/ (x \in {"pending", "ready", "failed"} /\ y \in {"pending", "ready", "blocked"})

LEMMA RefreshMoves ==
    ASSUME NEW st \in [Goal -> Status], Caused(st), NEW new \in Refresh(st)
    PROVE  \A g \in Goal : Moves(st[g], new[g])
  BY RefreshType, RefreshKeeps DEF Moves, Status

\* What leaves the other goals alone but for such passes spreads losses only.
LEMMA SpreadStep ==
    ASSUME GoalInv, GoalInv', NEW S \in SUBSET Goal,
           \A h \in Goal \ S : Moves(status[h], status'[h]) /\ (Active(h)' <=> Active(h))
    PROVE  Board!Spread(S)
  <1>1. ASSUME NEW h \in Goal \ S
        PROVE  \/ BoardView'[h] = BoardView[h]
               \/ /\ BoardView[h] = "open" /\ BoardView'[h] = "lost"
                  /\ \E d \in Deps[h] : BoardView'[d] = "lost"
    <2>1. CASE status'[h] = status[h]
      <3>1. Shown(h)' = Shown(h)
        BY <2>1 DEF Shown, Active
      <3> QED BY <3>1, ShownIs, ShownNext
    <2>2. CASE status[h] \in {"pending", "ready", "failed"} /\ status'[h] \in {"pending", "ready"}
      BY <2>2, ShownIs, ShownNext
    <2>3. CASE status[h] \in {"pending", "ready", "failed"} /\ status'[h] = "blocked"
      <3>1. PICK d \in Deps[h] : status'[d] \in {"exhausted", "blocked"}
        BY <2>3 DEF GoalInv, Caused
      <3>2. d \in Goal
        BY <3>1, GoalAssumption
      <3> QED BY <2>3, <3>1, <3>2, ShownIs, ShownNext
    <2> QED BY <2>1, <2>2, <2>3 DEF Moves
  <1> QED BY <1>1 DEF Board!Spread, BoardView

\* A run that ends leaves nothing executing.
LEMMA GoesOnStep ==
    ASSUME GoalInv, GoalInv', pc # "idle",
           pc' = "idle" /\ report' \in {"already", "proven", "finished"} =>
               \A g \in Required : status'[g] = "passed"
    PROVE  Board!GoesOn
  <1>1. BoardSaid = "busy" /\ (BoardSaid' # "busy" => pc' = "idle")
        /\ (BoardSaid' = "done" => pc' = "idle" /\ report' \in {"already", "proven", "finished"})
    BY DEF BoardSaid
  <1>2. pc' = "idle" => \A g \in Goal : ~Active(g)'
    BY DEF GoalInv, ActInv, Active
  <1>3. Board!Trying' = {g \in Goal : BoardView'[g] = "trying"}
    BY DEF Board!Trying, BoardView
  <1>4. pc' = "idle" => Board!Trying' = {}
    BY <1>2, <1>3, ShownNext
  <1>5. BoardSaid' = "done" => \A g \in Required : BoardView'[g] = "proven"
    BY <1>1, ShownNext, GoalAssumption
  <1> QED BY <1>1, <1>4, <1>5 DEF Board!GoesOn, BoardSaid, BoardView

BoardStep == [Board!Next]_<<BoardView, attempts, sound, BoardSaid>>

LEMMA ActionIsBoardStep ==
    ASSUME NEW g \in Goal, Board!Try(g) \/ Board!Act(g) \/ Board!Judge(g) \/ Board!Leave(g)
    PROVE  BoardStep
  BY DEF BoardStep, Board!Next

\* A pass over a table in which nothing executes.
LEMMA SweepStep ==
    ASSUME GoalInv, GoalInv', status' = status \/ status' \in Refresh(status),
           \A g \in Goal : Active(g)' <=> Active(g)
    PROVE  Board!Spread({})
  <1>1. \A h \in Goal : Moves(status[h], status'[h])
    BY RefreshMoves DEF GoalInv, TypeOK, Moves
  <1> QED BY <1>1, SpreadStep

LEMMA SweepIsBoardStep ==
    ASSUME GoalInv, GoalInv', status' = status \/ status' \in Refresh(status),
           \A g \in Goal : Active(g)' <=> Active(g),
           UNCHANGED <<attempts, sound>>, Board!GoesOn
    PROVE  BoardStep
  <1>1. Board!Sweep
    BY SweepStep DEF Board!Sweep
  <1> QED BY <1>1 DEF BoardStep, Board!Next

\* Passed dependencies are proven on the board.
LEMMA ReadyIs ==
    ASSUME GoalInv, NEW g \in Goal, DepsPassed(status, g)
    PROVE  Board!Ready(g)
  <1>1. \A d \in Deps[g] : BoardView[d] = "proven"
    BY ShownIs, GoalAssumption DEF DepsPassed
  <1> QED BY <1>1 DEF Board!Ready, BoardView

\* Where nothing executes, the board has nothing being tried.
LEMMA TryingIs == GoalInv => Board!Trying = Busy
  <1> SUFFICES ASSUME GoalInv PROVE Board!Trying = Busy
    OBVIOUS
  <1>1. Board!Trying = {g \in Goal : BoardView[g] = "trying"}
    BY DEF Board!Trying, BoardView
  <1> QED BY <1>1, ShownIs DEF Busy, Active

LEMMA SameCardinality == \A S : Board!Cardinality(S) = Cardinality(S)
  BY DEF Board!Cardinality, Cardinality

\* A verdict that leaves the other goals to the passes.
LEMMA JudgeStep ==
    ASSUME GoalInv, GoalInv', NEW g \in Goal, DepsPassed(status, g),
           UNCHANGED <<attempts, sound>>, Board!GoesOn,
           Active(g) \/ (Busy = {} /\ status[g] \notin {"exhausted", "blocked"}), ~Active(g)',
           \A h \in Goal \ {g} : Moves(status[h], status'[h]) /\ (Active(h)' <=> Active(h)),
           \/ status'[g] = "passed" /\ sound[g]
           \/ status'[g] \in {"pending", "ready", "failed"} /\ (Active(g) => attempts[g] < MaxAttempts[g])
           \/ status'[g] \in {"exhausted", "blocked"}
    PROVE  Board!Judge(g)
  <1>1. Board!Spread({g}) /\ Board!Ready(g)
    BY SpreadStep, ReadyIs
  <1>2. BoardView[g] = "trying" \/ (Board!Trying = {} /\ BoardView[g] # "lost")
    BY ShownIs, TryingIs
  <1>3. \/ BoardView'[g] = "proven" /\ sound[g]
        \/ BoardView'[g] = "open" /\ (BoardView[g] = "trying" => attempts[g] < MaxAttempts[g])
        \/ BoardView'[g] = "lost"
    BY ShownIs, ShownNext
  <1> QED BY <1>1, <1>2, <1>3 DEF Board!Judge, BoardView

\* A try over proven dependencies, by one of the threads.
LEMMA TryStep ==
    ASSUME GoalInv, GoalInv', NEW g \in Goal, DepsPassed(status, g),
           status[g] \in {"pending", "ready", "failed"}, attempts[g] < MaxAttempts[g],
           attempts' = [attempts EXCEPT ![g] = @ + 1], UNCHANGED sound,
           Cardinality(Busy) < MaxWorkers, Board!GoesOn, Active(g)',
           \A h \in Goal \ {g} : Moves(status[h], status'[h]) /\ (Active(h)' <=> Active(h))
    PROVE  Board!Try(g)
  <1>1. Board!Spread({g}) /\ Board!Ready(g)
    BY SpreadStep, ReadyIs
  <1>2. BoardView[g] = "open" /\ BoardView'[g] = "trying"
    BY ShownIs, ShownNext
  <1>3. Board!Cardinality(Board!Trying) < MaxWorkers
    BY TryingIs, SameCardinality
  <1> QED BY <1>1, <1>2, <1>3 DEF Board!Try, BoardView

LEMMA IdleBusy ==
    ASSUME GoalInv, pc \notin {"act", "pool"}
    PROVE  /\ \A g \in Goal : ~Active(g)
           /\ Busy = {} /\ Cardinality(Busy) < MaxWorkers
  <1>1. \A g \in Goal : ~Active(g)
    BY DEF GoalInv, TypeOK, ActInv, Active
  <1>2. Busy = {}
    BY <1>1 DEF Busy, Active
  <1> QED BY <1>1, <1>2, FS_EmptySet, GoalAssumption

\* What the end of a cycle reports.
LEMMA EndCycleGoesOn ==
    ASSUME GoalInv, GoalInv', pc # "idle", NEW st, NEW cyc, EndCycle(st, cyc)
    PROVE  Board!GoesOn
  <1>1. PICK new \in Refresh(st) :
          /\ status' = new
          /\ SaveThen(IF Achieved(new) THEN Return("proven")
                      ELSE pc' = "loop" /\ UNCHANGED report, new, cyc)
    BY DEF EndCycle
  <1>2. pc' = "idle" /\ report' \in {"already", "proven", "finished"} =>
            \A g \in Required : status'[g] = "passed"
    BY <1>1 DEF SaveThen, Return, Achieved
  <1> QED BY <1>2, GoesOnStep

\* execute_one and the steps around it, one goal at a time.
LEMMA GoalBoardStep ==
    ASSUME GoalInv, GoalInv', NEW g \in Goal, OneGoal(g)
    PROVE  BoardStep
  <1>0. /\ status \in [Goal -> Status] /\ Caused(status)
        /\ phase \in [Goal -> {"rest", "queued", "acting", "acted"}]
        /\ attempts \in [Goal -> Nat] /\ MaxAttempts \in [Goal -> Nat \ {0}]
    BY GoalAssumption DEF GoalInv, TypeOK
  <1>1. CASE SurveySkips(g) \/ SurveyBreaks(g)
    <2>1. /\ pc = "survey" /\ (pc' = "idle" => report' = "raised")
          /\ UNCHANGED <<status, attempts, sound, phase>>
      BY <1>1 DEF SurveySkips, SurveyBreaks, Return, book
    <2>2. Board!GoesOn
      BY <2>1, GoesOnStep
    <2> QED BY <2>1, <2>2, SweepIsBoardStep DEF Active
  <1>2. CASE SurveyValidates(g)
    <2>1. /\ pc = "survey" /\ pc' = "survey" /\ UNCHANGED <<attempts, sound, phase>>
          /\ status[g] \notin {"exhausted", "blocked"} /\ DepsPassed(status, g)
      BY <1>2 DEF SurveyValidates, Skipped
    <2>2. PICK v \in Verdicts(g) : status' = [status EXCEPT ![g] = v.status]
      BY <1>2 DEF SurveyValidates
    <2>3. status'[g] \in {"failed", "passed", "exhausted"} /\ (status'[g] = "passed" => sound[g])
      BY <1>0, <2>2, VerdictType
    <2>4. \A h \in Goal \ {g} : status'[h] = status[h]
      BY <1>0, <2>2
    <2>5. Board!GoesOn
      BY <2>1, GoesOnStep
    <2>6. Busy = {} /\ ~Active(g)
      BY <2>1, IdleBusy
    <2>7. Board!Judge(g)
      BY <2>1, <2>3, <2>4, <2>5, <2>6, JudgeStep DEF Moves, Active
    <2> QED BY <2>7, ActionIsBoardStep
  <1>3. CASE Floor(g)
    <2>1. PICK st \in Refresh(status) :
            g \in Preferred(st) /\ EndCycle([st EXCEPT ![g] = "exhausted"], cycle + 1)
      BY <1>3 DEF Floor
    <2>2. pc = "loop" /\ UNCHANGED <<attempts, sound, phase>>
      BY <1>3 DEF Floor
    <2>3. /\ st \in [Goal -> Status] /\ Caused(st) /\ \A h \in Goal : Moves(status[h], st[h])
          /\ st[g] \in {"ready", "failed"} /\ DepsPassed(status, g)
      BY <1>0, <2>1, RefreshType, RefreshCaused, RefreshMoves DEF Preferred, Candidates
    <2> DEFINE lost == [st EXCEPT ![g] = "exhausted"]
    <2>4. lost \in [Goal -> Status] /\ Caused(lost)
      BY <2>3, KeepsByUpdate DEF Keeps, Status
    <2>5. lost[g] = "exhausted" /\ \A h \in Goal \ {g} : lost[h] = st[h]
      BY <2>3
    <2>6. status' \in Refresh(lost)
      BY <2>1, EndCycleRefreshes
    <2> HIDE DEF lost
    <2>7. \A h \in Goal : Moves(lost[h], status'[h])
      BY <2>4, <2>6, RefreshMoves
    <2>8. status'[g] = "exhausted" /\ \A h \in Goal \ {g} : Moves(status[h], status'[h])
      BY <2>3, <2>5, <2>7 DEF Moves
    <2>9. Board!GoesOn
      BY <2>1, <2>2, EndCycleGoesOn
    <2>10. Busy = {} /\ ~Active(g) /\ status[g] \notin {"exhausted", "blocked"}
      BY <2>2, <2>3, IdleBusy DEF Moves
    <2>11. Board!Judge(g)
      BY <2>2, <2>3, <2>8, <2>9, <2>10, JudgeStep DEF Active
    <2> QED BY <2>11, ActionIsBoardStep
  <1>4. CASE StartAction(g)
    <2>1. PICK st \in Refresh(status) :
            g \in Preferred(st) /\ status' = [st EXCEPT ![g] = "running"]
      BY <1>4 DEF StartAction
    <2>2. /\ pc = "loop" /\ pc' = "act" /\ UNCHANGED sound
          /\ attempts' = [attempts EXCEPT ![g] = @ + 1]
          /\ phase' = [phase EXCEPT ![g] = "acting"]
      BY <1>4 DEF StartAction
    <2>3. /\ st \in [Goal -> Status] /\ \A h \in Goal : Moves(status[h], st[h])
          /\ st[g] \in {"ready", "failed"} /\ DepsPassed(status, g) /\ attempts[g] < MaxAttempts[g]
      BY <1>0, <2>1, RefreshType, RefreshMoves DEF Preferred, Candidates
    <2>4. \A h \in Goal \ {g} : Moves(status[h], status'[h]) /\ (Active(h)' <=> Active(h))
      BY <1>0, <2>1, <2>2, <2>3 DEF Active
    <2>5. status[g] \in {"pending", "ready", "failed"} /\ Active(g)'
      BY <1>0, <2>2, <2>3 DEF Moves, Active
    <2>6. Board!GoesOn
      BY <2>2, GoesOnStep
    <2>7. Board!Try(g)
      BY <2>2, <2>3, <2>4, <2>5, <2>6, IdleBusy, TryStep
    <2> QED BY <2>7, ActionIsBoardStep
  <1>5. CASE ActionReturns(g)
    <2>1. /\ Active(g) /\ UNCHANGED <<status, attempts, pc, report>>
          /\ \A h \in Goal : Active(h)' <=> Active(h)
      BY <1>0, <1>5 DEF ActionReturns, Active, book
    <2>2. \A h \in Goal \ Touches[g] : sound'[h] = sound[h]
      BY <1>5 DEF ActionReturns
    <2>3. \A h \in Goal : Shown(h)' = Shown(h)
      BY <2>1 DEF Shown, Active
    <2>4. BoardView' = BoardView /\ BoardSaid' = BoardSaid
      BY <2>1, <2>3 DEF BoardView, BoardSaid
    <2>5. BoardView[g] = "trying"
      BY <2>1, ShownIs
    <2>6. Board!Act(g)
      BY <2>1, <2>2, <2>4, <2>5 DEF Board!Act, BoardView, BoardSaid
    <2> QED BY <2>6, ActionIsBoardStep
  <1>6. CASE ValidatorReturns(g) \/ ValidatorReturnsInPool(g)
    <2>1. /\ pc \in {"act", "pool"} /\ phase[g] = "acted" /\ phase' = [phase EXCEPT ![g] = "rest"]
          /\ UNCHANGED <<attempts, sound>>
      BY <1>6 DEF ValidatorReturns, ValidatorReturnsInPool
    <2>2. status[g] = "running" /\ DepsPassed(status, g)
      BY <2>1 DEF GoalInv, ActInv, ActsOnProven, DepsPassed
    <2>3. PICK v \in Verdicts(g) :
            \/ EndCycle([status EXCEPT ![g] = Outcome(g, v)], cycle)
            \/ status' = [status EXCEPT ![g] = Outcome(g, v)] /\ pc' = "pool"
      BY <1>6 DEF ValidatorReturns, ValidatorReturnsInPool
    <2> DEFINE st == [status EXCEPT ![g] = Outcome(g, v)]
    <2>4. /\ Outcome(g, v) \in {"failed", "passed", "exhausted"}
          /\ Outcome(g, v) = "passed" => sound[g]
      BY VerdictType
    <2>5. Outcome(g, v) = "failed" => attempts[g] < MaxAttempts[g]
      BY <1>0, VerdictType DEF Outcome
    <2>6. /\ st \in [Goal -> Status] /\ Caused(st) /\ st[g] = Outcome(g, v)
          /\ \A h \in Goal \ {g} : st[h] = status[h]
      <3>1. Keeps(status, st)
        BY <1>0, <2>2, <2>4, KeepsByUpdate DEF Status
      <3> QED BY <1>0, <3>1 DEF Keeps
    <2>7. status' = st \/ status' \in Refresh(st)
      BY <2>3, EndCycleRefreshes
    <2> HIDE DEF st
    <2>8. \A h \in Goal : Moves(st[h], status'[h])
      BY <2>6, <2>7, RefreshMoves DEF Moves
    <2>9. \A h \in Goal \ {g} : Moves(status[h], status'[h]) /\ (Active(h)' <=> Active(h))
      BY <1>0, <2>1, <2>6, <2>8 DEF Active
    <2>10. Active(g) /\ ~Active(g)'
      BY <1>0, <2>1 DEF Active
    <2>11. Board!GoesOn
      BY <2>1, <2>3, EndCycleGoesOn, GoesOnStep
    <2>12. \/ status'[g] = "passed" /\ sound[g]
           \/ status'[g] \in {"pending", "ready", "failed"} /\ attempts[g] < MaxAttempts[g]
           \/ status'[g] \in {"exhausted", "blocked"}
      BY <2>4, <2>5, <2>6, <2>8 DEF Moves
    <2>13. Board!Judge(g)
      BY <2>1, <2>2, <2>9, <2>10, <2>11, <2>12, JudgeStep
    <2> QED BY <2>13, ActionIsBoardStep
  <1>7. CASE Breaks(g)
    <2>1. /\ phase[g] = "acted" /\ phase' = [phase EXCEPT ![g] = "rest"]
          /\ UNCHANGED <<status, attempts, sound>>
          /\ IF pc = "act" THEN Return("raised") ELSE UNCHANGED <<pc, report>>
      BY <1>7 DEF Breaks, book
    <2>2. pc \in {"act", "pool"}
      BY <2>1, IdleBusy DEF Active
    <2>3. Board!GoesOn
      BY <2>1, <2>2, GoesOnStep DEF Return
    <2>4. Active(g) /\ status[g] = "running" /\ ~Active(g)'
      BY <1>0, <2>1 DEF Active, GoalInv, ActInv, ActsOnProven
    <2>5. \A h \in Goal \ {g} : Shown(h)' = Shown(h)
      BY <1>0, <2>1 DEF Shown
    <2>6. Shown(g)' = "left" /\ Shown(g) = "trying"
      BY <2>1, <2>4, ShownIs, ShownNext
    <2>7. BoardView' = [BoardView EXCEPT ![g] = "left"]
      BY <2>5, <2>6 DEF BoardView
    <2>8. Board!Leave(g)
      BY <2>1, <2>3, <2>6, <2>7 DEF Board!Leave, BoardView
    <2> QED BY <2>8, ActionIsBoardStep
  <1>8. CASE PoolStarts(g)
    <2>1. /\ pc = "pool" /\ pc' = "pool" /\ UNCHANGED sound /\ phase[g] = "queued"
          /\ Cardinality(Busy) < MaxWorkers
          /\ status' = [status EXCEPT ![g] = "running"]
          /\ attempts' = [attempts EXCEPT ![g] = @ + 1]
          /\ phase' = [phase EXCEPT ![g] = "acting"]
      BY <1>8 DEF PoolStarts, IsFirst
    <2>2. /\ status[g] \in {"ready", "failed"} /\ attempts[g] < MaxAttempts[g]
          /\ DepsPassed(status, g)
      BY <2>1 DEF GoalInv, ActInv, ActsOnProven, DepsPassed
    <2>3. /\ Active(g)'
          /\ \A h \in Goal \ {g} : Moves(status[h], status'[h]) /\ (Active(h)' <=> Active(h))
      BY <1>0, <2>1 DEF Active, Moves
    <2>4. Board!GoesOn
      BY <2>1, GoesOnStep
    <2>5. Board!Try(g)
      BY <2>1, <2>2, <2>3, <2>4, TryStep
    <2> QED BY <2>5, ActionIsBoardStep
  <1> QED BY <1>1, <1>2, <1>3, <1>4, <1>5, <1>6, <1>7, <1>8 DEF OneGoal

LEMMA StepBoard == GoalInv /\ GoalInv' /\ [Next]_vars => BoardStep
  <1> SUFFICES ASSUME GoalInv, GoalInv', [Next]_vars PROVE BoardStep
    OBVIOUS
  <1>1. CASE RunSerial \/ RunPool
    <2>1. /\ pc = "idle" /\ pc' # "idle" /\ UNCHANGED <<attempts, sound, phase>>
          /\ status' = status \/ status' \in Refresh(status)
      BY <1>1 DEF RunSerial, RunPool, book
    <2>2. BoardSaid # "busy" /\ BoardSaid' = "busy"
      BY <2>1 DEF BoardSaid
    <2>3. Board!Begin
      BY <2>1, <2>2, SweepStep DEF Board!Begin, BoardSaid, Active
    <2> QED BY <2>3 DEF BoardStep, Board!Next
  <1>2. CASE EndSurvey
    <2>1. PICK st \in Refresh(status) :
            /\ status' = st
            /\ SaveThen(IF Achieved(st) THEN Return("already")
                        ELSE pc' = "loop" /\ UNCHANGED report, st, cycle)
      BY <1>2 DEF EndSurvey
    <2>2. pc = "survey" /\ UNCHANGED <<attempts, sound, phase>>
      BY <1>2 DEF EndSurvey
    <2>3. pc' = "idle" /\ report' \in {"already", "proven", "finished"} =>
              \A g \in Required : status'[g] = "passed"
      BY <2>1 DEF SaveThen, Return, Achieved
    <2>4. Board!GoesOn
      BY <2>2, <2>3, GoesOnStep
    <2> QED BY <2>1, <2>2, <2>4, SweepIsBoardStep DEF Active
  <1>3. CASE OutOfCycles \/ Stuck
    <2>1. /\ pc = "loop" /\ UNCHANGED <<attempts, sound, phase>>
          /\ status' = status \/ status' \in Refresh(status)
          /\ report' \in {"cycles", "stuck", "raised"}
      BY <1>3 DEF OutOfCycles, Stuck, SaveThen, Return, book
    <2>2. Board!GoesOn
      BY <2>1, GoesOnStep
    <2> QED BY <2>1, <2>2, SweepIsBoardStep DEF Active
  <1>4. CASE StartBatch
    <2>1. /\ pc = "batch" /\ UNCHANGED <<attempts, sound>>
          /\ status' \in Refresh(status) /\ (pc' = "idle" => report' = "drained")
          /\ \A g \in Goal : phase'[g] \in {"queued", "rest"}
      BY <1>4 DEF StartBatch, Return
    <2>2. Board!GoesOn
      BY <2>1, GoesOnStep
    <2>3. \A g \in Goal : ~Active(g) /\ ~Active(g)'
      BY <2>1, IdleBusy DEF Active
    <2> QED BY <2>1, <2>2, <2>3, SweepIsBoardStep
  <1>5. CASE EndBatch
    <2>1. /\ pc = "pool" /\ UNCHANGED <<status, attempts, sound, phase>>
          /\ pc' = "idle" => Achieved(status)
      BY <1>5 DEF EndBatch, Return, book
    <2>2. Board!GoesOn
      BY <2>1, GoesOnStep DEF Achieved
    <2> QED BY <2>1, <2>2, SweepIsBoardStep DEF Active
  <1>6. ASSUME NEW g \in Goal, OneGoal(g) PROVE BoardStep
    BY <1>6, GoalBoardStep
  <1>7. CASE UNCHANGED vars
    <2>1. UNCHANGED <<BoardView, attempts, sound, BoardSaid>>
      BY <1>7 DEF vars, BoardView, BoardSaid, Shown
    <2> QED BY <2>1 DEF BoardStep
  <1> QED BY <1>1, <1>2, <1>3, <1>4, <1>5, <1>6, <1>7 DEF Next, Step

LEMMA InitBoard == Init => Board!Init
  <1> SUFFICES ASSUME Init PROVE Board!Init
    OBVIOUS
  <1>1. \A g \in Goal : Shown(g) = "open"
    BY DEF Init, Shown
  <1> QED BY <1>1 DEF Init, Board!Init

\* Serial or parallel, run after run, for every acyclic graph, declaration
\* order and limit: what is tried, proven, given up and reported is what a
\* board of goals allows.
THEOREM BoardRefined == Spec => ImplementsBoard
  <1>1. Init => GoalInv
    BY InitGoal
  <1>2. GoalInv /\ [Next]_vars => GoalInv'
    BY StepGoal
  <1>3. GoalInv /\ GoalInv' /\ [Next]_vars => BoardStep
    BY StepBoard
  <1>4. BoardStep <=> [Board!Next]_<<[g \in Goal |-> Shown(g)], attempts, sound,
                                     IF pc # "idle" THEN "busy"
                                     ELSE IF report \in {"already", "proven", "finished"} THEN "done"
                                     ELSE "rest">>
    BY DEF BoardStep, BoardView, BoardSaid
  <1> QED BY <1>1, <1>2, <1>3, <1>4, InitBoard, PTL DEF Spec, ImplementsBoard, Board!Spec

-----------------------------------------------------------------------------
(* Every run shrinks *)

\* The tries the limits leave.
AllTries == UNION {{g} \X (1 .. MaxAttempts[g]) : g \in Goal}
TriesLeft == {p \in AllTries : attempts[p[1]] < p[2]}
Acting == {g \in Goal : phase[g] = "acting"}

SurveyLeft == IF pc = "survey" THEN 1 ELSE 0

\* A batch that has started all its threads, the next one, and one that will
\* yet start a thread.
BatchesLeft ==
    IF pc = "batch" THEN 1
    ELSE IF pc = "pool" /\ \A g \in Goal : phase[g] # "queued" THEN 2 ELSE 0

\* What is left of a run, the survey first and the action under way last.  The
\* scheduler has no limit of cycles: its batches are limited by the tries.
Left ==
    << SurveyLeft, Cardinality(TriesLeft), MaxCycles - cycle, BatchesLeft,
       Cardinality(todo), Cardinality(Busy), Cardinality(Acting) >>

RunShrinks ==
    [][ /\ Step => pc # "idle"
        /\ pc # "idle" => pc' = "idle" \/ Below(7, Left', Left) ]_vars

\* A goal graph is finite, and so are the tries it allows.
LEMMA TriesFinite == ASSUME IsFiniteSet(Goal) PROVE IsFiniteSet(AllTries)
  <1> DEFINE T == {{g} \X (1 .. MaxAttempts[g]) : g \in Goal}
             f == [g \in Goal |-> {g} \X (1 .. MaxAttempts[g])]
  <1>1. f \in Surjection(Goal, T)
    BY DEF Surjection
  <1>2. IsFiniteSet(T)
    BY <1>1, FS_Surjection
  <1>3. \A U \in T : IsFiniteSet(U)
    <2> SUFFICES ASSUME NEW g \in Goal PROVE IsFiniteSet({g} \X (1 .. MaxAttempts[g]))
      OBVIOUS
    <2>1. IsFiniteSet({g})
      BY FS_Singleton
    <2>2. 1 \in Int /\ MaxAttempts[g] \in Int
      BY GoalAssumption
    <2>3. IsFiniteSet(1 .. MaxAttempts[g])
      BY <2>2, FS_Interval
    <2> QED BY <2>1, <2>3, FS_Product
  <1> HIDE DEF T
  <1>4. IsFiniteSet(UNION T)
    BY <1>2, <1>3, FS_UNION
  <1> QED BY <1>4 DEF T, AllTries

LEMMA SetsFinite ==
    ASSUME IsFiniteSet(Goal), todo \subseteq Goal
    PROVE  /\ IsFiniteSet(TriesLeft) /\ Cardinality(TriesLeft) \in Nat
           /\ IsFiniteSet(todo) /\ Cardinality(todo) \in Nat
           /\ IsFiniteSet(Busy) /\ Cardinality(Busy) \in Nat
           /\ IsFiniteSet(Acting) /\ Cardinality(Acting) \in Nat
  <1>1. Busy \subseteq Goal /\ Acting \subseteq Goal /\ TriesLeft \subseteq AllTries
    BY DEF Busy, Acting, TriesLeft
  <1>2. IsFiniteSet(TriesLeft) /\ IsFiniteSet(todo) /\ IsFiniteSet(Busy) /\ IsFiniteSet(Acting)
    BY <1>1, TriesFinite, FS_Subset
  <1> QED BY <1>2, FS_CardinalityType

LEMMA LeftType ==
    ASSUME IsFiniteSet(Goal), GoalInv
    PROVE  Left \in Tuples(7)
  <1>1. SurveyLeft \in Nat /\ BatchesLeft \in Nat /\ MaxCycles - cycle \in Nat
    BY GoalAssumption DEF SurveyLeft, BatchesLeft, GoalInv, TypeOK
  <1> QED BY <1>1, SetsFinite DEF Left, Tuples, GoalInv, TypeOK

\* One part falls and those before it stay.
LEMMA LeftFalls ==
    ASSUME \/ SurveyLeft' < SurveyLeft
           \/ SurveyLeft' = SurveyLeft /\ Cardinality(TriesLeft)' < Cardinality(TriesLeft)
           \/ /\ UNCHANGED <<SurveyLeft, Cardinality(TriesLeft)>>
              /\ (MaxCycles - cycle)' < MaxCycles - cycle
           \/ /\ UNCHANGED <<SurveyLeft, Cardinality(TriesLeft), MaxCycles - cycle>>
              /\ \/ BatchesLeft' < BatchesLeft
                 \/ BatchesLeft' = BatchesLeft /\ Cardinality(todo)' < Cardinality(todo)
                 \/ /\ UNCHANGED <<BatchesLeft, Cardinality(todo)>>
                    /\ \/ Cardinality(Busy)' < Cardinality(Busy)
                       \/ /\ UNCHANGED Cardinality(Busy)
                          /\ Cardinality(Acting)' < Cardinality(Acting)
    PROVE  Below(7, Left', Left)
  BY DEF Below, Left

\* Starting a goal uses a try.
LEMMA TryUsed ==
    ASSUME IsFiniteSet(Goal), GoalInv, NEW g \in Goal, attempts[g] < MaxAttempts[g],
           attempts' = [attempts EXCEPT ![g] = @ + 1]
    PROVE  Cardinality(TriesLeft)' < Cardinality(TriesLeft)
  <1>1. attempts \in [Goal -> Nat] /\ MaxAttempts \in [Goal -> Nat \ {0}] /\ todo \subseteq Goal
    BY GoalAssumption DEF GoalInv, TypeOK
  <1> DEFINE p == <<g, attempts[g] + 1>>
  <1>2. p \in AllTries
    <2>1. p \in {g} \X (1 .. MaxAttempts[g])
      BY <1>1
    <2> QED BY <2>1 DEF AllTries
  <1>3. p \in TriesLeft /\ p \notin TriesLeft'
    BY <1>1, <1>2 DEF TriesLeft
  <1>4. \A q \in AllTries : q[1] \in Goal /\ q[2] \in Nat
    BY <1>1 DEF AllTries
  <1>5. TriesLeft' \subseteq TriesLeft
    BY <1>1, <1>4 DEF TriesLeft
  <1> HIDE DEF p
  <1>6. Cardinality(TriesLeft') < Cardinality(TriesLeft)
    BY <1>1, <1>3, <1>5, SetsFinite, FewerElements
  <1> QED BY <1>6

\* What no step of the pool but the start of a goal changes.
LEMMA SamePool ==
    ASSUME UNCHANGED <<pc, attempts, cycle, todo>>, NEW g \in Goal, Active(g),
           \A h \in Goal \ {g} : phase'[h] = phase[h], phase'[g] # "queued"
    PROVE  UNCHANGED <<SurveyLeft, Cardinality(TriesLeft), MaxCycles - cycle, BatchesLeft,
                       Cardinality(todo)>>
  <1>1. \A h \in Goal : phase'[h] = "queued" <=> phase[h] = "queued"
    BY DEF Active
  <1>2. BatchesLeft' = BatchesLeft
    BY <1>1 DEF BatchesLeft
  <1>3. TriesLeft' = TriesLeft
    BY DEF TriesLeft
  <1> QED BY <1>2, <1>3 DEF SurveyLeft

\* A goal that leaves execute_one leaves one less under way.
LEMMA LeavesLess ==
    ASSUME IsFiniteSet(Goal), GoalInv, NEW g \in Goal, Active(g),
           phase' = [phase EXCEPT ![g] = "rest"]
    PROVE  Cardinality(Busy)' < Cardinality(Busy)
  <1>1. phase \in [Goal -> {"rest", "queued", "acting", "acted"}] /\ todo \subseteq Goal
    BY DEF GoalInv, TypeOK
  <1>2. Busy' \subseteq Busy /\ g \in Busy /\ g \notin Busy'
    BY <1>1 DEF Busy, Active
  <1>3. Cardinality(Busy') < Cardinality(Busy)
    BY <1>1, <1>2, SetsFinite, FewerElements
  <1> QED BY <1>3

LEMMA GoalFalls ==
    ASSUME IsFiniteSet(Goal), GoalInv, GoalInv', NEW g \in Goal, OneGoal(g)
    PROVE  pc # "idle" /\ (pc' = "idle" \/ Below(7, Left', Left))
  <1>0. /\ phase \in [Goal -> {"rest", "queued", "acting", "acted"}]
        /\ todo \subseteq Goal /\ cycle \in Nat /\ MaxCycles \in Nat
    BY GoalAssumption DEF GoalInv, TypeOK
  <1>1. Active(g) => pc \in {"act", "pool"}
    BY IdleBusy
  <1>2. CASE SurveySkips(g) \/ SurveyValidates(g)
    <2>1. /\ pc = "survey" /\ pc' = "survey" /\ UNCHANGED <<attempts, cycle>>
          /\ todo' = todo \ {g} /\ g \in todo
      BY <1>2 DEF SurveySkips, SurveyValidates, IsFirst, book
    <2>2. Cardinality(todo') < Cardinality(todo)
      BY <1>0, <2>1, SetsFinite, FewerElements
    <2>3. UNCHANGED <<SurveyLeft, BatchesLeft>> /\ TriesLeft' = TriesLeft
      BY <2>1 DEF SurveyLeft, BatchesLeft, TriesLeft
    <2> QED BY <2>1, <2>2, <2>3, LeftFalls
  <1>3. CASE SurveyBreaks(g)
    BY <1>3 DEF SurveyBreaks, Return
  <1>4. CASE Floor(g)
    <2>1. PICK st \in Refresh(status) : EndCycle([st EXCEPT ![g] = "exhausted"], cycle + 1)
      BY <1>4 DEF Floor
    <2>2. /\ pc = "loop" /\ cycle' = cycle + 1 /\ UNCHANGED attempts
          /\ pc' \in {"idle", "loop"}
      BY <1>4, <2>1 DEF Floor, EndCycle, SaveThen, Return
    <2>3. SurveyLeft' = SurveyLeft /\ TriesLeft' = TriesLeft
      BY <2>2 DEF SurveyLeft, TriesLeft
    <2>4. (MaxCycles - cycle)' < MaxCycles - cycle
      BY <1>0, <2>2
    <2> QED BY <2>2, <2>3, <2>4, LeftFalls
  <1>5. CASE StartAction(g)
    <2>1. /\ pc = "loop" /\ pc' = "act" /\ attempts' = [attempts EXCEPT ![g] = @ + 1]
          /\ attempts[g] < MaxAttempts[g]
      BY <1>5 DEF StartAction, Preferred, Candidates
    <2>2. Cardinality(TriesLeft)' < Cardinality(TriesLeft)
      BY <2>1, TryUsed
    <2>3. SurveyLeft' = SurveyLeft
      BY <2>1 DEF SurveyLeft
    <2> QED BY <2>1, <2>2, <2>3, LeftFalls
  <1>6. CASE ActionReturns(g)
    <2>1. /\ phase[g] = "acting" /\ phase' = [phase EXCEPT ![g] = "acted"] /\ Active(g)
          /\ UNCHANGED <<pc, attempts, cycle, todo>>
      BY <1>6 DEF ActionReturns, Active, book
    <2>2. UNCHANGED <<SurveyLeft, Cardinality(TriesLeft), MaxCycles - cycle, BatchesLeft,
                      Cardinality(todo)>>
      BY <1>0, <2>1, SamePool
    <2>3. Busy' = Busy /\ Acting' \subseteq Acting /\ g \in Acting /\ g \notin Acting'
      BY <1>0, <2>1 DEF Busy, Acting
    <2>4. Cardinality(Acting') < Cardinality(Acting)
      BY <1>0, <2>3, SetsFinite, FewerElements
    <2> QED BY <1>1, <2>1, <2>2, <2>3, <2>4, LeftFalls
  <1>7. CASE ValidatorReturns(g)
    <2>1. PICK v \in Verdicts(g) : EndCycle([status EXCEPT ![g] = Outcome(g, v)], cycle)
      BY <1>7 DEF ValidatorReturns
    <2>2. /\ pc = "act" /\ pc' \in {"idle", "loop"} /\ UNCHANGED <<attempts, cycle, todo>>
          /\ phase[g] = "acted" /\ phase' = [phase EXCEPT ![g] = "rest"]
      BY <1>7, <2>1 DEF ValidatorReturns, EndCycle, SaveThen, Return
    <2>3. UNCHANGED <<SurveyLeft, BatchesLeft>> \/ pc' = "idle"
      BY <2>2 DEF SurveyLeft, BatchesLeft
    <2>4. TriesLeft' = TriesLeft
      BY <2>2 DEF TriesLeft
    <2>5. Cardinality(Busy)' < Cardinality(Busy)
      BY <2>2, LeavesLess DEF Active
    <2> QED BY <2>2, <2>3, <2>4, <2>5, LeftFalls
  <1>8. CASE ValidatorReturnsInPool(g) \/ Breaks(g)
    <2>1. /\ phase[g] = "acted" /\ phase' = [phase EXCEPT ![g] = "rest"] /\ Active(g)
          /\ UNCHANGED <<attempts, cycle, todo>> /\ pc' \in {pc, "idle"}
      BY <1>8 DEF ValidatorReturnsInPool, Breaks, book, Return, Active
    <2>2. Cardinality(Busy)' < Cardinality(Busy)
      BY <2>1, LeavesLess
    <2>3. CASE pc' = pc
      <3>1. UNCHANGED <<SurveyLeft, Cardinality(TriesLeft), MaxCycles - cycle, BatchesLeft,
                        Cardinality(todo)>>
        BY <1>0, <2>1, <2>3, SamePool
      <3> QED BY <1>1, <2>1, <2>2, <3>1, LeftFalls
    <2> QED BY <1>1, <2>1, <2>3
  <1>9. CASE PoolStarts(g)
    <2>1. /\ pc = "pool" /\ pc' = "pool" /\ attempts' = [attempts EXCEPT ![g] = @ + 1]
          /\ phase[g] = "queued"
      BY <1>9 DEF PoolStarts, IsFirst
    <2>2. attempts[g] < MaxAttempts[g]
      BY <2>1 DEF GoalInv, ActInv
    <2>3. Cardinality(TriesLeft)' < Cardinality(TriesLeft)
      BY <2>1, <2>2, TryUsed
    <2>4. SurveyLeft' = SurveyLeft
      BY <2>1 DEF SurveyLeft
    <2> QED BY <2>1, <2>3, <2>4, LeftFalls
  <1> QED BY <1>2, <1>3, <1>4, <1>5, <1>6, <1>7, <1>8, <1>9 DEF OneGoal

LEMMA StepFalls ==
    ASSUME IsFiniteSet(Goal), GoalInv, GoalInv', Step
    PROVE  pc # "idle" /\ (pc' = "idle" \/ Below(7, Left', Left))
  <1>1. CASE EndSurvey
    <2>1. pc = "survey" /\ pc' \in {"idle", "loop"}
      BY <1>1 DEF EndSurvey, SaveThen, Return
    <2>2. pc' = "loop" => SurveyLeft' < SurveyLeft
      BY <2>1 DEF SurveyLeft
    <2> QED BY <2>1, <2>2, LeftFalls
  <1>2. CASE OutOfCycles \/ Stuck
    BY <1>2 DEF OutOfCycles, Stuck, SaveThen, Return
  <1>3. CASE StartBatch
    <2>1. PICK st \in Refresh(status) :
            /\ phase' = [g \in Goal |-> IF g \in Candidates(st) THEN "queued" ELSE "rest"]
            /\ IF Candidates(st) = {} THEN Return("drained")
               ELSE pc' = "pool" /\ UNCHANGED report
      BY <1>3 DEF StartBatch
    <2>2. pc = "batch" /\ UNCHANGED <<attempts, cycle>> /\ pc' \in {"idle", "pool"}
      BY <1>3, <2>1 DEF StartBatch, Return
    <2>3. pc' = "pool" => \E g \in Goal : phase'[g] = "queued"
      BY <2>1 DEF Return, Candidates
    <2>4. pc' = "pool" => BatchesLeft' < BatchesLeft
      BY <2>2, <2>3 DEF BatchesLeft
    <2>5. pc' = "pool" => SurveyLeft' = SurveyLeft
      BY <2>2 DEF SurveyLeft
    <2>6. TriesLeft' = TriesLeft
      BY <2>2 DEF TriesLeft
    <2> QED BY <2>2, <2>4, <2>5, <2>6, LeftFalls
  <1>4. CASE EndBatch
    <2>1. /\ pc = "pool" /\ UNCHANGED <<attempts, cycle, phase>> /\ pc' \in {"idle", "batch"}
          /\ \A g \in Goal : phase[g] = "rest"
      BY <1>4 DEF EndBatch, Return, book
    <2>2. pc' = "batch" => BatchesLeft' < BatchesLeft
      BY <2>1 DEF BatchesLeft
    <2>3. pc' = "batch" => SurveyLeft' = SurveyLeft
      BY <2>1 DEF SurveyLeft
    <2>4. TriesLeft' = TriesLeft
      BY <2>1 DEF TriesLeft
    <2> QED BY <2>1, <2>2, <2>3, <2>4, LeftFalls
  <1> QED BY <1>1, <1>2, <1>3, <1>4, GoalFalls DEF Step

\* Whatever actions and validators do: each step of a run, serial or parallel,
\* leaves less of it, in a well-founded order, so that no run goes on for ever.
THEOREM RunsShrink ==
    ASSUME IsFiniteSet(Goal)
    PROVE  Spec => [](Left \in Tuples(7)) /\ RunShrinks
  <1>1. Init => GoalInv
    BY InitGoal
  <1>2. GoalInv /\ [Next]_vars => GoalInv'
    BY StepGoal
  <1>3. GoalInv => Left \in Tuples(7)
    BY LeftType
  <1>4. GoalInv /\ GoalInv' /\ [Next]_vars =>
            [ /\ Step => pc # "idle"
              /\ pc # "idle" => pc' = "idle" \/ Below(7, Left', Left) ]_vars
    <2>1. Next /\ pc # "idle" => Step
      BY DEF Next, RunSerial, RunPool
    <2> QED BY <2>1, StepFalls
  <1> QED BY <1>1, <1>2, <1>3, <1>4, PTL DEF Spec, RunShrinks

-----------------------------------------------------------------------------
(* A run always has a next step *)

\* The goals declared before position n that a pass over st blocks, decided in
\* that order.
DecidesBefore(st, n, B) ==
    \A g \in Open(st) : Declared[g] < n =>
        (g \in B <=> \E d \in Deps[g] :
                        \/ st[d] = "exhausted"
                        \/ IF Declared[d] < Declared[g] THEN d \in B
                                                        ELSE st[d] = "blocked")

\* Two ways to decide do not differ: take the first goal they differ in.
LEMMA DecidedOneWay ==
    ASSUME NEW st, NEW n \in Nat, NEW B, NEW C,
           DecidesBefore(st, n, B), DecidesBefore(st, n, C),
           \A g \in Goal : Declared[g] < n /\ g \notin Open(st) => (g \in B <=> g \in C)
    PROVE  \A g \in Goal : Declared[g] < n => (g \in B <=> g \in C)
  <1> DEFINE differ == {g \in Goal : Declared[g] < n /\ ~(g \in B <=> g \in C)}
             T == {Declared[g] : g \in differ}
  <1>1. SUFFICES ASSUME differ # {} PROVE FALSE
    OBVIOUS
  <1>2. T \in SUBSET Nat /\ T # {}
    BY <1>1, GoalAssumption
  <1>3. PICK x \in T : \A y \in T : x <= y
    <2> HIDE DEF T
    <2> QED BY <1>2, LeastExists
  <1>4. PICK g \in differ : Declared[g] = x
    BY <1>3
  <1>5. g \in Open(st) /\ g \in Goal /\ Declared[g] < n /\ Declared[g] \in Nat
    BY <1>4, GoalAssumption
  <1>6. ASSUME NEW d \in Deps[g], Declared[d] < Declared[g]
        PROVE  d \in B <=> d \in C
    <2>1. d \in Goal /\ Declared[d] \in Nat
      BY <1>5, GoalAssumption
    <2>2. d \notin differ
      BY <1>3, <1>4, <1>5, <1>6, <2>1
    <2> QED BY <1>5, <1>6, <2>1, <2>2
  <1>7. g \in B <=> g \in C
    BY <1>5, <1>6 DEF DecidesBefore
  <1> QED BY <1>4, <1>7

\* Up to every position there is a way to decide: one more goal is decided by
\* those before it.
LEMMA DecidedBefore ==
    ASSUME NEW st, NEW n \in Nat
    PROVE  \E B \in SUBSET Open(st) : DecidesBefore(st, n, B)
  <1> DEFINE T == {k \in Nat : ~ \E B \in SUBSET Open(st) : DecidesBefore(st, k, B)}
  <1>1. SUFFICES ASSUME T # {} PROVE FALSE
    OBVIOUS
  <1>2. T \in SUBSET Nat
    OBVIOUS
  <1>3. PICK k \in T : \A j \in T : k <= j
    <2> HIDE DEF T
    <2> QED BY <1>1, <1>2, LeastExists
  <1>4. CASE k = 0
    <2>1. DecidesBefore(st, 0, {})
      BY GoalAssumption DEF DecidesBefore, Open
    <2> QED BY <1>3, <1>4, <2>1
  <1>5. CASE k # 0
    <2>1. k - 1 \in Nat /\ k - 1 \notin T
      BY <1>3, <1>5
    <2>2. PICK B \in SUBSET Open(st) : DecidesBefore(st, k - 1, B)
      BY <2>1
    <2> DEFINE Behind(g) == \E d \in Deps[g] :
                               \/ st[d] = "exhausted"
                               \/ IF Declared[d] < Declared[g] THEN d \in B
                                                               ELSE st[d] = "blocked"
               C == {g \in Open(st) : IF Declared[g] < k - 1 THEN g \in B ELSE Behind(g)}
    <2>3. ASSUME NEW g \in Open(st), Declared[g] < k
          PROVE  g \in C <=> \E d \in Deps[g] :
                               \/ st[d] = "exhausted"
                               \/ IF Declared[d] < Declared[g] THEN d \in C
                                                               ELSE st[d] = "blocked"
      <3>1. g \in Goal /\ Declared[g] \in Nat /\ Declared[g] <= k - 1 /\ Deps[g] \subseteq Goal
        BY <2>1, <2>3, GoalAssumption DEF Open
      <3>2. g \in C <=> Behind(g)
        BY <2>2, <3>1 DEF DecidesBefore
      <3>3. ASSUME NEW d \in Deps[g], Declared[d] < Declared[g]
            PROVE  d \in C <=> d \in B
        <4>1. Declared[d] \in Nat /\ Declared[d] < k - 1
          BY <3>1, <3>3, <2>1, GoalAssumption
        <4> QED BY <4>1, <2>2
      <3> QED BY <3>2, <3>3
    <2>4. DecidesBefore(st, k, C)
      BY <2>3 DEF DecidesBefore
    <2>5. C \in SUBSET Open(st)
      OBVIOUS
    <2> QED BY <1>3, <2>4, <2>5
  <1> QED BY <1>4, <1>5

\* A pass of _refresh_states over any statuses, in any declaration order, has
\* exactly one result.
THEOREM RefreshIsOnePass ==
    ASSUME NEW st
    PROVE  \E new : Refresh(st) = {new}
  <1> DEFINE B == {g \in Open(st) : \E C \in SUBSET Open(st) :
                      DecidesBefore(st, Declared[g] + 1, C) /\ g \in C}
  <1>1. ASSUME NEW g \in Open(st), NEW d \in Goal, Declared[d] <= Declared[g],
               NEW C \in SUBSET Open(st), DecidesBefore(st, Declared[g] + 1, C)
        PROVE  d \in B <=> d \in C
    <2>1. Declared[g] \in Nat /\ Declared[d] \in Nat
      BY GoalAssumption DEF Open
    <2>2. DecidesBefore(st, Declared[d] + 1, C)
      BY <1>1, <2>1, GoalAssumption DEF DecidesBefore, Open
    <2>3. ASSUME NEW E \in SUBSET Open(st), DecidesBefore(st, Declared[d] + 1, E)
          PROVE  d \in E <=> d \in C
      <3>1. Declared[d] + 1 \in Nat /\ Declared[d] < Declared[d] + 1
        BY <2>1
      <3> QED BY <2>2, <2>3, <3>1, DecidedOneWay
    <2> QED BY <1>1, <2>2, <2>3
  <1>2. Spreads(st, B)
    <2> SUFFICES ASSUME NEW g \in Open(st)
        PROVE  g \in B <=> \E d \in Deps[g] :
                  \/ st[d] = "exhausted"
                  \/ IF Declared[d] < Declared[g] THEN d \in B ELSE st[d] = "blocked"
      BY DEF Spreads
    <2>1. g \in Goal /\ Declared[g] \in Nat /\ Deps[g] \subseteq Goal
      BY GoalAssumption DEF Open
    <2>2. PICK C \in SUBSET Open(st) : DecidesBefore(st, Declared[g] + 1, C)
      BY <2>1, DecidedBefore
    <2>3. g \in B <=> g \in C
      BY <1>1, <2>1, <2>2
    <2>4. ASSUME NEW d \in Deps[g], Declared[d] < Declared[g] PROVE d \in B <=> d \in C
      <3>1. d \in Goal /\ Declared[d] \in Nat /\ Declared[d] <= Declared[g]
        BY <2>1, <2>4, GoalAssumption
      <3> QED BY <1>1, <2>2, <3>1
    <2>5. g \in C <=> \E d \in Deps[g] :
                  \/ st[d] = "exhausted"
                  \/ IF Declared[d] < Declared[g] THEN d \in C ELSE st[d] = "blocked"
      BY <2>1, <2>2 DEF DecidesBefore
    <2> HIDE DEF B
    <2> QED BY <2>3, <2>4, <2>5
  <1>3. ASSUME NEW C \in SUBSET Open(st), Spreads(st, C)
        PROVE  C = B
    <2>1. ASSUME NEW g \in Open(st) PROVE g \in B <=> g \in C
      <3>1. g \in Goal /\ DecidesBefore(st, Declared[g] + 1, C) /\ Declared[g] <= Declared[g]
        BY <1>3, GoalAssumption DEF DecidesBefore, Spreads, Open
      <3> QED BY <1>1, <3>1
    <2>2. B \in SUBSET Open(st)
      OBVIOUS
    <2> HIDE DEF B
    <2> QED BY <2>1, <2>2
  <1>4. B \in SUBSET Open(st)
    OBVIOUS
  <1> HIDE DEF B
  <1>5. {D \in SUBSET Open(st) : Spreads(st, D)} = {B}
    BY <1>2, <1>3, <1>4
  <1>6. Refresh(st) = {Refreshed(st, B)}
    BY <1>5 DEF Refresh
  <1> QED BY <1>6

\* Wherever a run stands, some goal, or the end of what it is doing, is next:
\* the survey and the pool find a first goal, choose_next_goal a preferred one,
\* and an action under way belongs to a goal whose end is waited for.
HasNext ==
    /\ pc = "survey" => todo = {} \/ \E g \in Goal : IsFirst(g, todo)
    /\ pc = "loop" =>
          \/ cycle = MaxCycles
          \/ \E st \in Refresh(status) : Candidates(st) = {} \/ Preferred(st) # {}
    /\ pc = "act" => Busy # {}
    /\ pc = "pool" =>
          \/ \A g \in Goal : phase[g] = "rest"
          \/ Busy # {}
          \/ /\ Cardinality(Busy) < MaxWorkers
             /\ \E g \in Goal : IsFirst(g, {h \in Goal : phase[h] = "queued"})

LEMMA FirstExists ==
    ASSUME IsFiniteSet(Goal), NEW S \in SUBSET Goal, S # {}
    PROVE  \E g \in Goal : IsFirst(g, S)
  <1> DEFINE R == {p \in Goal \X Goal :
                     \/ Priority[p[1]] < Priority[p[2]]
                     \/ Priority[p[1]] = Priority[p[2]] /\ Key[p[1]] <= Key[p[2]]}
  <1>1. IsFiniteSet(S)
    BY FS_Subset
  <1>2. \A x, y \in S : <<x, y>> \in R \/ <<y, x>> \in R
    BY GoalAssumption
  <1>3. \A x, y, z \in S : <<x, y>> \in R /\ <<y, z>> \in R => <<x, z>> \in R
    BY GoalAssumption
  <1>4. PICK g \in S : \A h \in S : <<g, h>> \in R
    <2> HIDE DEF R
    <2> QED BY <1>1, <1>2, <1>3, BestExists
  <1>5. ASSUME NEW h \in S \ {g}
        PROVE  \/ Priority[g] < Priority[h]
               \/ Priority[g] = Priority[h] /\ Key[g] < Key[h]
    <2>1. <<g, h>> \in R /\ g \in Goal /\ h \in Goal /\ Key[g] \in Nat /\ Key[h] \in Nat
      BY <1>4, <1>5, GoalAssumption
    <2>2. Key[g] # Key[h]
      BY <1>5, <2>1, GoalAssumption
    <2> QED BY <2>1, <2>2
  <1> QED BY <1>4, <1>5 DEF IsFirst

LEMMA PreferredExists ==
    ASSUME IsFiniteSet(Goal), TypeOK, NEW st, Candidates(st) # {}
    PROVE  Preferred(st) # {}
  <1> DEFINE S == Candidates(st)
             R == {p \in Goal \X Goal : MayPrecede(p[1], p[2])}
  <1>1. S \subseteq Goal /\ IsFiniteSet(S)
    BY FS_Subset DEF Candidates
  <1>2. \A x, y \in S : <<x, y>> \in R \/ <<y, x>> \in R
    BY <1>1, GoalAssumption DEF MayPrecede, TypeOK
  <1>3. \A x, y, z \in S : <<x, y>> \in R /\ <<y, z>> \in R => <<x, z>> \in R
    BY <1>1, GoalAssumption DEF MayPrecede, TypeOK
  <1>4. PICK g \in S : \A h \in S : <<g, h>> \in R
    <2> HIDE DEF R, S
    <2>1. S # {}
      BY DEF S
    <2> QED BY <1>1, <1>2, <1>3, <2>1, BestExists
  <1> QED BY <1>4 DEF Preferred

\* The loop waits for one action.
Occupied == pc = "act" => Busy # {}

LEMMA StepOccupied ==
    ASSUME GoalInv, Occupied, [Next]_vars
    PROVE  Occupied'
  <1> SUFFICES ASSUME pc' = "act" PROVE Busy' # {}
    BY DEF Occupied
  <1>1. CASE UNCHANGED vars
    BY <1>1 DEF vars, Occupied, Busy
  <1>2. ASSUME NEW g \in Goal, ActionReturns(g) PROVE Busy' # {}
    BY <1>2 DEF ActionReturns, Busy, GoalInv, TypeOK
  <1>3. ASSUME NEW g \in Goal, StartAction(g) PROVE Busy' # {}
    BY <1>3 DEF StartAction, Busy, GoalInv, TypeOK
  <1>4. RunSerial \/ RunPool \/ EndSurvey \/ OutOfCycles \/ Stuck \/ StartBatch \/ EndBatch
            => pc' # "act"
    BY DEF RunSerial, RunPool, EndSurvey, OutOfCycles, Stuck, StartBatch, EndBatch,
           SaveThen, Return
  <1>5. ASSUME NEW g \in Goal, OneGoal(g), ~ActionReturns(g), ~StartAction(g)
        PROVE  FALSE
    <2>1. ~SurveySkips(g) /\ ~SurveyValidates(g) /\ ~SurveyBreaks(g)
      BY DEF SurveySkips, SurveyValidates, SurveyBreaks, Return
    <2>2. ~Floor(g) /\ ~ValidatorReturns(g)
      BY DEF Floor, ValidatorReturns, EndCycle, SaveThen, Return
    <2>3. ~ValidatorReturnsInPool(g) /\ ~PoolStarts(g)
      BY DEF ValidatorReturnsInPool, PoolStarts
    <2>4. ~Breaks(g)
      BY DEF Breaks, Return
    <2> QED BY <1>5, <2>1, <2>2, <2>3, <2>4 DEF OneGoal
  <1> QED BY <1>1, <1>2, <1>3, <1>4, <1>5 DEF Next, Step

LEMMA NextFound ==
    ASSUME IsFiniteSet(Goal), GoalInv, Occupied
    PROVE  HasNext
  <1>1. pc = "survey" => todo = {} \/ \E g \in Goal : IsFirst(g, todo)
    BY FirstExists DEF GoalInv, TypeOK
  <1>2. \E st \in Refresh(status) : Candidates(st) = {} \/ Preferred(st) # {}
    BY RefreshIsOnePass, PreferredExists DEF GoalInv
  <1>3. ASSUME pc = "pool", Busy = {}, NEW h \in Goal, phase[h] # "rest"
        PROVE  /\ Cardinality(Busy) < MaxWorkers
               /\ \E g \in Goal : IsFirst(g, {k \in Goal : phase[k] = "queued"})
    <2>1. phase[h] = "queued"
      BY <1>3 DEF GoalInv, TypeOK, Busy
    <2>2. Cardinality(Busy) < MaxWorkers
      BY <1>3, FS_EmptySet, GoalAssumption
    <2>3. {k \in Goal : phase[k] = "queued"} \in SUBSET Goal
          /\ {k \in Goal : phase[k] = "queued"} # {}
      BY <2>1
    <2> QED BY <2>2, <2>3, FirstExists
  <1> QED BY <1>1, <1>2, <1>3 DEF HasNext, Occupied

\* No run is ever without a next step, so that one that goes on, and shrinks
\* with each step, comes to its end.
THEOREM RunsGoOn ==
    ASSUME IsFiniteSet(Goal)
    PROVE  Spec => []HasNext
  <1>1. Init => GoalInv /\ Occupied
    BY InitGoal DEF Init, Occupied
  <1>2. GoalInv /\ Occupied /\ [Next]_vars => GoalInv' /\ Occupied'
    BY StepGoal, StepOccupied
  <1>3. GoalInv /\ Occupied => HasNext
    BY NextFound
  <1> QED BY <1>1, <1>2, <1>3, PTL DEF Spec

=============================================================================
